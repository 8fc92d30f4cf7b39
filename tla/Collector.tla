------------------------------ MODULE Collector ------------------------------
(***************************************************************************)
(* script/sdlog_collect.py: one pass of the collector over one device, and *)
(* the archive directory it leaves behind.  A pass is a sequence of HTTP   *)
(* requests; between any two of them the card may be changed, the network  *)
(* may fail, and the process may die.  What is on disk survives.           *)
(*                                                                         *)
(* A file of a card is a sequence of cells <<file, i>>.  Cell 1 stands for *)
(* the identity window at the head (HEAD_WINDOW), the last cell held       *)
(* locally for the window under the resume point (SEAM_WINDOW).  Two files *)
(* share no cell: a re-created file with equal windows slips through, which *)
(* the tool says of itself.                                                *)
(***************************************************************************)
EXTENDS HostCommon, Integers, Sequences, FiniteSets

CONSTANTS Procs,     \* the collector at work on the archive directory: one, by
                     \* the fleet's lock (two would write through one open .part,
                     \* which is not modelled)
          Names,     \* chunk names, as the naturals of their seq
          Files,     \* every file that exists on some card
          NameOf,    \* its name,
          CardOf,    \* the card it is on,
          SizeOf,    \* its length in cells,
          KindOf,    \* "whole" (ends in #close), "torn" (does not), "foreign"
                     \* (torn, with another seq or device in its header) or "bad"
          Retries    \* attempts per request group of one pass (--retries)

ASSUME CollectorAssumption ==
    /\ \A p, q \in Procs : p = q
    /\ Names \subseteq Nat /\ IsFiniteSet(Names) /\ Retries \in Nat \ {0}
    /\ None \notin Files /\ None \notin Seq(Files \X Nat)
    /\ NameOf \in [Files -> Names] /\ SizeOf \in [Files -> Nat \ {0}]
    /\ KindOf \in [Files -> {"whole", "torn", "foreign", "bad"}]
    /\ \A f, g \in Files : NameOf[f] = NameOf[g] /\ CardOf[f] = CardOf[g] => f = g

VARIABLES inserted,  \* the card in the device
          upl,       \* files renamed to .UPL: the device may delete them
          final,     \* archive/<name>: None or a sequence of cells
          part,      \* archive/<name>.part, <<>> when absent
          cand,      \* archive/<name>.torn-candidate, <<>> when absent
          meta,      \* its .json: [of, seen], or None
          sidecar,   \* archive/<name>.torn: the cells it vouches for, or None
          c,         \* the state of each running collector
          exposed,   \* history: files confirmed although the card was changed
                     \* after the last proof of the copy
          misled     \* history: names whose torn copy was measured by the index
                     \* of another card
disk == <<final, part, cand, meta, sidecar>>
collectorVars == <<inserted, upl, disk, c, exposed, misled>>

Cells(f) == [i \in 1..SizeOf[f] |-> <<f, i>>]
TORN_MAX_SIGHTINGS == 3

\* the file the device would serve under a name now; .UPL files are not listed
Served(n) == LET S == {f \in Files : NameOf[f] = n /\ CardOf[f] = inserted /\ f \notin upl}
             IN  IF S = {} THEN None ELSE CHOOSE f \in S : TRUE

\* _read_report: sdlog.parse_file's verdict on stored cells
ReadReport(s) ==
    LET Ends(kind) == \E i \in DOMAIN s : KindOf[s[i][1]] = kind /\ s[i][2] = SizeOf[s[i][1]]
    IN  IF s = <<>> \/ s[1][2] # 1 \/ Ends("bad") THEN "bad"
        ELSE IF Ends("whole") THEN "whole" ELSE "torn"
IsTorn(s) == ReadReport(s) = "torn"

-----------------------------------------------------------------------------
(* The state of a pass.  chunk is the head of todo; dl is the body being    *)
(* read: the file the response comes from and the next cell of it.          *)
Idle == [pc |-> "idle", todo |-> <<>>, att |-> 1, dl |-> None, torn |-> FALSE,
         proof |-> None, card |-> None, listed |-> {}, acked |-> {}, failed |-> {}, status |-> None]

Chunk(p) == Head(c[p].todo)
Name(p)  == Chunk(p).name
At(p, pc) == c[p].pc = pc
Become(p, r) == c' = [c EXCEPT ![p] = r]
Goto(p, pc) == Become(p, [c[p] EXCEPT !.pc = pc, !.att = 1])

\* mutant: a defect is reported as something that passes
ExitStatusLenient(failed) == IF failed # {} THEN 75 ELSE 0
\* exit_status: 77 > 74 > 3 > 1 > 75 > 0; the first three end a pass early
ExitStatus(failed) == IF "defect" \in failed THEN 1 ELSE IF failed # {} THEN 75 ELSE 0
EndPass(p, status) ==
    Become(p, [c[p] EXCEPT !.pc = "done", !.todo = <<>>, !.att = 1, !.dl = None, !.torn = FALSE,
                           !.proof = None, !.card = None, !.status = status])

\* _record_failure: this chunk is left, the pass goes on with the next one
RecordFailure(p, how) ==
    Become(p, [c[p] EXCEPT !.pc = "next", !.todo = Tail(@), !.failed = @ \cup {how},
                           !.att = 1, !.dl = None, !.torn = FALSE, !.proof = None])

\* _attempts: ask again, or give up once `retries` attempts are spent
Retry(p, pc) == IF c[p].att < Retries
                THEN Become(p, [c[p] EXCEPT !.pc = pc, !.att = @ + 1, !.dl = None])
                ELSE RecordFailure(p, "transient")

\* a 4xx is an answer: 404 and 409 are races the next pass resolves, any other
\* is the device refusing
Http4xx(p) == \/ RecordFailure(p, "transient")
              \/ Served(Name(p)) # None /\ RecordFailure(p, "defect")

-----------------------------------------------------------------------------
StartPass(p) == /\ c[p].pc \in {"idle", "done"}
                /\ Become(p, [Idle EXCEPT !.pc = "index"])
                /\ UNCHANGED <<inserted, upl, disk, exposed, misled>>

\* index: the names served now, oldest first; an entry may lack its length
\* (_int_or gives 0), one broken entry is a failure and not the end
Index(p) ==
    /\ At(p, "index")
    /\ LET L == {n \in Names : Served(n) # None}
           Sorted == CHOOSE s \in [1..Cardinality(L) -> L] :
                        \A i, j \in DOMAIN s : i < j => s[i] < s[j]
       IN \E sized, broken \in BOOLEAN :
            Become(p, [c[p] EXCEPT
                !.pc = "next", !.att = 1, !.listed = L, !.card = inserted,
                !.failed = IF broken THEN {"defect"} ELSE {},
                !.todo = [i \in DOMAIN Sorted |->
                    [name |-> Sorted[i], size |-> IF sized THEN SizeOf[Served(Sorted[i])] ELSE 0]]])
    /\ UNCHANGED <<inserted, upl, disk, exposed, misled>>

\* a stumble is retried, nothing at all is 75, another host's answer is 3
IndexFails(p) ==
    /\ At(p, "index")
    /\ \/ c[p].att < Retries /\ Become(p, [c[p] EXCEPT !.att = @ + 1])
       \/ c[p].att = Retries /\ EndPass(p, 75)
       \/ EndPass(p, 3)
    /\ UNCHANGED <<inserted, upl, disk, exposed, misled>>

\* _open: a 401/403 to any request ends the pass, whatever was in flight
Refused(p) == /\ c[p].pc \in {"index", "have", "fetch", "download", "confirm"}
              /\ EndPass(p, 77)
              /\ UNCHANGED <<inserted, upl, disk, exposed, misled>>

\* the loop of _collect: dedup on the archived name, else fetch
NextChunk(p) ==
    /\ At(p, "next")
    /\ IF c[p].todo = <<>> THEN EndPass(p, ExitStatus(c[p].failed))
       ELSE Goto(p, IF final[Name(p)] # None THEN "have" ELSE "fetch")
    /\ UNCHANGED <<inserted, upl, disk, exposed, misled>>

-----------------------------------------------------------------------------
(* Identity.  _prove_local asks the device for the head of the chunk and    *)
(* compares it with the head of what is held.                               *)
Longer(p, s) == Chunk(p).size # 0 /\ Len(s) > Chunk(p).size
\* mutant: the head of the file is not compared
ProveLocalTrusting(p, s) == s # <<>> /\ ~Longer(p, s)
ProveLocal(p, s) == s # <<>> /\ ~Longer(p, s) /\ s[1] = <<Served(Name(p)), 1>>

\* _already_have, before it asks the device: length, parse, and the sidecar
\* that vouches for a torn copy
CopyStands(p, s) == /\ Chunk(p).size \in {0, Len(s)}
                    /\ \/ ReadReport(s) = "whole"
                       \/ IsTorn(s) /\ sidecar[Name(p)] = s

\* mutant: a copy that does not stand is thrown away and fetched again
AlreadyHaveDiscards(p) ==
    LET n == Name(p) IN
    /\ At(p, "have")
    /\ IF ~CopyStands(p, final[n]) \/ ~ProveLocal(p, final[n])
       THEN final' = [final EXCEPT ![n] = None] /\ Goto(p, "fetch")
       ELSE Goto(p, "confirm") /\ UNCHANGED final
    /\ UNCHANGED <<inserted, upl, part, cand, meta, sidecar, exposed, misled>>
AlreadyHave(p) ==
    LET s == final[Name(p)] IN
    /\ At(p, "have")
    /\ \/ ~CopyStands(p, s) /\ RecordFailure(p, "defect")
       \/ /\ CopyStands(p, s) /\ Served(Name(p)) # None
          /\ IF ProveLocal(p, s)
             THEN Become(p, [c[p] EXCEPT !.pc = "confirm", !.att = 1, !.proof = Served(Name(p))])
             ELSE RecordFailure(p, "defect")
       \/ CopyStands(p, s) /\ (Http4xx(p) \/ Retry(p, "have"))
    /\ UNCHANGED <<inserted, upl, disk, exposed, misled>>

-----------------------------------------------------------------------------
(* _fetch.  One attempt proves the partial, then downloads what is missing. *)
Drop(n) == part' = [part EXCEPT ![n] = <<>>]

\* the attempt loop up to the download: an unproved partial is discarded, a
\* complete one is not paid for again
ProvePartial(p) ==
    LET n == Name(p) s == part[n] IN
    /\ At(p, "fetch")
    /\ \/ /\ s = <<>>
          /\ Become(p, [c[p] EXCEPT !.pc = "download"])
          /\ UNCHANGED part
       \/ /\ s # <<>> /\ ~Longer(p, s)
          /\ Http4xx(p) \/ Retry(p, "fetch")                   \* or the window was cut
          /\ UNCHANGED part
       \/ /\ s # <<>> /\ (Longer(p, s) \/ Served(n) # None)   \* else no window to compare
          /\ IF ProveLocal(p, s)
             THEN /\ Become(p, [c[p] EXCEPT !.pc = IF Len(s) = Chunk(p).size THEN "verify" ELSE "download",
                                            !.proof = Served(n)])
                  /\ UNCHANGED part
             ELSE Drop(n) /\ Retry(p, "fetch")
    /\ UNCHANGED <<inserted, upl, final, cand, meta, sidecar, exposed, misled>>

\* _download: open the response.  A resume asks from one window before the
\* end of the partial; a device that ignores Range sends the whole file, which
\* replaces the partial with its first byte
Seam(s) == s[Len(s)]
SeamAgrees(s, f) == <<f, Len(s)>> = Seam(s)
DownloadOpen(p) ==
    LET n == Name(p) s == part[n] f == Served(n) IN
    /\ At(p, "download") /\ c[p].dl = None
    /\ \/ (Http4xx(p) \/ Retry(p, "fetch")) /\ UNCHANGED part
       \/ /\ f # None /\ s # <<>>
          /\ IF Len(s) > SizeOf[f] \/ ~SeamAgrees(s, f)        \* 416, or a _Mismatch
             THEN Drop(n) /\ Retry(p, "fetch")
             ELSE /\ Become(p, [c[p] EXCEPT !.dl = [f |-> f, pos |-> Len(s) + 1, whole |-> FALSE],
                                            !.proof = f])
                  /\ UNCHANGED part
       \/ /\ f # None
          /\ Become(p, [c[p] EXCEPT !.dl = [f |-> f, pos |-> 1, whole |-> s # <<>>], !.proof = f])
          /\ UNCHANGED part
    /\ UNCHANGED <<inserted, upl, final, cand, meta, sidecar, exposed, misled>>

\* one block to disk; opened for append, or truncating at the first block of a
\* body that ignored the Range
DownloadBlock(p) ==
    LET n == Name(p) d == c[p].dl IN
    /\ At(p, "download") /\ d # None /\ d.pos <= SizeOf[d.f]
    /\ part' = [part EXCEPT ![n] = (IF d.whole THEN <<>> ELSE @) \o <<<<d.f, d.pos>>>>]
    /\ Become(p, [c[p] EXCEPT !.dl = [d EXCEPT !.pos = @ + 1, !.whole = FALSE]])
    /\ UNCHANGED <<inserted, upl, final, cand, meta, sidecar, exposed, misled>>

\* the body ends: complete, or cut short of its Content-Length, which the
\* device puts on every file it serves and the relay passes on
DownloadEnd(p) ==
    LET d == c[p].dl IN
    /\ At(p, "download") /\ d # None
    /\ IF d.pos > SizeOf[d.f] THEN Become(p, [c[p] EXCEPT !.pc = "verify", !.dl = None])
       ELSE Retry(p, "fetch")
    /\ UNCHANGED <<inserted, upl, disk, exposed, misled>>

\* the local disk refuses a write: every later chunk would meet the same
ArchiveError(p) == /\ \/ At(p, "download") /\ c[p].dl # None
                      \/ c[p].pc \in {"sight", "keep", "store", "rename"}
                   /\ EndPass(p, 74)
                   /\ UNCHANGED <<inserted, upl, disk, exposed, misled>>

\* after the loop: verify, and tell short bytes from a file torn on the card
Verify(p) ==
    LET n == Name(p) s == part[n] IN
    /\ At(p, "verify")
    /\ CASE IsTorn(s) /\ Chunk(p).size # Len(s) -> RecordFailure(p, "transient") /\ UNCHANGED part
         [] IsTorn(s) /\ Chunk(p).size = Len(s) -> Goto(p, "sight") /\ UNCHANGED part
         [] ReadReport(s) = "bad"               -> Drop(n) /\ RecordFailure(p, "defect")
         [] ReadReport(s) = "whole"             -> Goto(p, "store") /\ UNCHANGED part
    /\ UNCHANGED <<inserted, upl, final, cand, meta, sidecar, exposed, misled>>

\* _torn_sighting: refuse a header that names another chunk, accept the second
\* equal full fetch, give up at the third unequal one, else keep the bytes as
\* the candidate
Seen(n) == IF meta[n] = None THEN 1 ELSE meta[n].seen + 1
Equal(n) == meta[n] # None /\ meta[n].of = part[n] /\ cand[n] # <<>>
Hopeless(n) == \/ KindOf[part[n][1][1]] = "foreign"
               \/ ~Equal(n) /\ Seen(n) >= TORN_MAX_SIGHTINGS
TornSighting(p) ==
    LET n == Name(p) IN
    /\ At(p, "sight")
    /\ \/ /\ Hopeless(n)
          /\ Drop(n) /\ cand' = [cand EXCEPT ![n] = <<>>] /\ meta' = [meta EXCEPT ![n] = None]
          /\ RecordFailure(p, "defect")
       \/ /\ ~Hopeless(n) /\ Equal(n)
          /\ Become(p, [c[p] EXCEPT !.pc = "store", !.torn = TRUE])
          /\ UNCHANGED <<part, cand, meta>>
       \/ /\ ~Hopeless(n) /\ ~Equal(n)
          /\ cand' = [cand EXCEPT ![n] = part[n]] /\ Drop(n)
          /\ Become(p, [c[p] EXCEPT !.pc = "keep"])
          /\ UNCHANGED meta
    /\ UNCHANGED <<inserted, upl, final, sidecar, exposed, misled>>

\* ... whose description is a second write, after the rename
KeepCandidate(p) ==
    LET n == Name(p) IN
    /\ At(p, "keep")
    /\ meta' = [meta EXCEPT ![n] = [of |-> cand[n], seen |-> Seen(n)]]
    /\ RecordFailure(p, "transient")
    /\ UNCHANGED <<inserted, upl, final, part, cand, sidecar, exposed, misled>>

\* the archive is append-only; the sidecar of a torn file is written first
Store(p) ==
    LET n == Name(p) IN
    /\ At(p, "store")
    /\ IF final[n] # None THEN RecordFailure(p, "defect") /\ UNCHANGED sidecar
       ELSE /\ Become(p, [c[p] EXCEPT !.pc = "rename"])
            /\ sidecar' = IF c[p].torn THEN [sidecar EXCEPT ![n] = part[n]] ELSE sidecar
    /\ UNCHANGED <<inserted, upl, final, part, cand, meta, exposed, misled>>

\* partial.replace(final); an accepted candidate is dropped
Rename(p) ==
    LET n == Name(p) IN
    /\ At(p, "rename") /\ part[n] # <<>>
    /\ final' = [final EXCEPT ![n] = part[n]]
    /\ Drop(n)
    /\ IF c[p].torn THEN cand' = [cand EXCEPT ![n] = <<>>] /\ meta' = [meta EXCEPT ![n] = None]
       ELSE UNCHANGED <<cand, meta>>
    /\ misled' = IF c[p].torn /\ CardOf[part[n][1][1]] # c[p].card THEN misled \cup {n} ELSE misled
    /\ Goto(p, "confirm")
    /\ UNCHANGED <<inserted, upl, sidecar, exposed>>

-----------------------------------------------------------------------------
\* _confirm: POST done/<name>, idempotent on the device.  The device may act
\* on it and the answer be lost; a refusal (404: no such chunk) is a defect
Confirm(p) ==
    LET n == Name(p) f == Served(n)
        known == f # None \/ \E g \in upl : NameOf[g] = n /\ CardOf[g] = inserted
        ack == Become(p, [c[p] EXCEPT !.pc = "next", !.todo = Tail(@), !.acked = @ \cup {n},
                                      !.att = 1, !.torn = FALSE, !.proof = None])
    IN
    /\ At(p, "confirm")
    /\ \/ /\ known
          /\ upl' = IF f = None THEN upl ELSE upl \cup {f}
          /\ exposed' = IF f \in {None, c[p].proof} THEN exposed ELSE exposed \cup {f}
          /\ ack \/ Retry(p, "confirm")
       \/ (RecordFailure(p, "defect") \/ Retry(p, "confirm")) /\ UNCHANGED <<upl, exposed>>
    /\ UNCHANGED <<inserted, disk, misled>>

-----------------------------------------------------------------------------
\* the collector is killed (the fleet's timeout, a reboot): the disk stays
Crash(p) == /\ c[p].pc \notin {"idle", "done"}
            /\ Become(p, Idle)
            /\ UNCHANGED <<inserted, upl, disk, exposed, misled>>

\* the card is pulled and another one put in
SwapCard == /\ \E k \in {CardOf[f] : f \in Files} \ {inserted} : inserted' = k
            /\ UNCHANGED <<upl, disk, c, exposed, misled>>

CollectorInit == /\ inserted \in {CardOf[f] : f \in Files}
        /\ upl = {} /\ exposed = {} /\ misled = {}
        /\ final = [n \in Names |-> None] /\ sidecar = [n \in Names |-> None]
        /\ part = [n \in Names |-> <<>>]  /\ cand = [n \in Names |-> <<>>]
        /\ meta = [n \in Names |-> None]
        /\ c = [p \in Procs |-> Idle]

Step(p) == \/ StartPass(p) \/ Index(p) \/ IndexFails(p) \/ Refused(p) \/ NextChunk(p)
           \/ AlreadyHave(p) \/ ProvePartial(p) \/ DownloadOpen(p) \/ DownloadBlock(p)
           \/ DownloadEnd(p) \/ ArchiveError(p) \/ Verify(p) \/ TornSighting(p)
           \/ KeepCandidate(p) \/ Store(p) \/ Rename(p) \/ Confirm(p) \/ Crash(p)
CollectorNext == SwapCard \/ \E p \in Procs : Step(p)
CollectorSpec == CollectorInit /\ [][CollectorNext]_collectorVars

-----------------------------------------------------------------------------
(* Properties *)
CollectorTypeOK ==
    /\ upl \subseteq Files /\ exposed \subseteq upl
    /\ \A n \in Names : meta[n] # None => meta[n].seen \in 1..(TORN_MAX_SIGHTINGS - 1)
    /\ \A p \in Procs : c[p].att \in 1..Retries /\ c[p].failed \subseteq {"defect", "transient"}

\* What carries the final name is exactly one file of one card, never a front
\* spliced onto another tail, and parses; a torn one has the sidecar that
\* vouches for these bytes ("the whole on-disk state machine").  Excepted is a
\* torn file that was fetched with the length another card's index gave: a
\* length is all that tells a torn file from a short fetch of it.
ArchivedIsOneFile ==
    \A n \in Names \ misled : final[n] # None =>
        \E f \in Files : /\ final[n] = Cells(f)
                         /\ \/ KindOf[f] = "whole"
                            \/ KindOf[f] = "torn" /\ sidecar[n] = Cells(f)

\* A file the device was told it may delete (.UPL) is in the archive byte for
\* byte, over lost answers, kills at any step, changed cards and partials of
\* another card: "a confirm is a licence to delete".  Excepted are files whose
\* card was put in between the last proof of the copy and the confirm.
ConfirmedIsHeld ==
    /\ CollectorTypeOK
    /\ ArchivedIsOneFile
    /\ \A f \in upl \ exposed : NameOf[f] \notin misled => final[NameOf[f]] = Cells(f)

\* Exit 0 means every chunk the index listed was acknowledged by the device and
\* is in the archive; exit 75 means no chunk of the pass met a defect, so a
\* caller that stays silent on 75 misses none.
StatusIsHonest ==
    \A p \in Procs : At(p, "done") =>
        /\ c[p].status = 0  => c[p].listed \subseteq c[p].acked
                               /\ \A n \in c[p].listed : final[n] # None
        /\ c[p].status = 75 => "defect" \notin c[p].failed

\* The archive is append-only: what is stored under a final name never changes.
NeverReplaced == [][\A n \in Names : final[n] # None => final'[n] = final[n]]_collectorVars
=============================================================================
