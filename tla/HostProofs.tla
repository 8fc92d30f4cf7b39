----------------------------- MODULE HostProofs -----------------------------
(***************************************************************************)
(* The collector, the fleet, the reader of card files and the one of       *)
(* logged diagnostics, for any files, names, cards, devices, runs, retries *)
(* and answers: what is confirmed is in the archive, the exit status is    *)
(* earned, a refused credential is not tried again, "up" is said of a      *)
(* device that is, the two readers of a file agree, and what is read from  *)
(* a log of an ECU's answers is what it said.                              *)
(***************************************************************************)
EXTENDS Collector, Fleet, UdsLog, Reader, SequenceTheorems, FiniteSetTheorems, TLAPS

-----------------------------------------------------------------------------
(* The collector.  A prefix of a file as the archive holds it, cell by     *)
(* cell.                                                                   *)
Cell == Files \X Nat
Opening(s, f) == s \in Seq(Cell) /\ Len(s) <= SizeOf[f] /\ \A i \in 1..Len(s) : s[i] = <<f, i>>

(* A front as long as its file is the file.                                *)
LEMMA FullFront ==
  ASSUME NEW f \in Files, NEW s, Opening(s, f), Len(s) = SizeOf[f] PROVE s = Cells(f)
<1>1. s \in Seq(Cell) /\ \A i \in 1..Len(s) : s[i] = <<f, i>>
  BY DEF Opening
<1>2. s = [i \in 1..Len(s) |-> s[i]]
  BY <1>1
<1>3. Cells(f) = [i \in 1..Len(s) |-> <<f, i>>]
  BY DEF Cells
<1> QED BY <1>1, <1>2, <1>3

(* What a file is made of.                                                 *)
LEMMA FullLength ==
  ASSUME NEW f \in Files
  PROVE  Len(Cells(f)) = SizeOf[f] /\ Cells(f) \in Seq(Cell) /\ SizeOf[f] \in Nat \ {0}
         /\ Cells(f)[1] = <<f, 1>>
<1>1. SizeOf[f] \in Nat \ {0}
  BY CollectorAssumption
<1>2. \A i \in 1..SizeOf[f] : <<f, i>> \in Cell
  BY <1>1 DEF Cell
<1> QED BY <1>1, <1>2 DEF Cells

(* The first cells tell the file.                                          *)
LEMMA FirstCell ==
  ASSUME NEW f \in Files, NEW s, Opening(s, f), s # <<>>
  PROVE  Len(s) \in Nat \ {0} /\ s[1] = <<f, 1>> /\ s[1][1] = f /\ s[1][2] = 1 /\ s[Len(s)] = <<f, Len(s)>>
<1>1. Len(s) \in Nat \ {0}
  BY DEF Opening
<1>2. 1 \in 1..Len(s) /\ Len(s) \in 1..Len(s)
  BY <1>1
<1> QED BY <1>1, <1>2 DEF Opening

(* The next cell of the file makes a longer front of it.                   *)
LEMMA LongerFront ==
  ASSUME NEW f \in Files, NEW s, Opening(s, f), Len(s) < SizeOf[f]
  PROVE  /\ Opening(s \o <<<<f, Len(s) + 1>>>>, f)
         /\ Len(s \o <<<<f, Len(s) + 1>>>>) = Len(s) + 1 /\ s \o <<<<f, Len(s) + 1>>>> # <<>>
<1> DEFINE e == <<f, Len(s) + 1>>
           t == s \o <<e>>
<1>0. s \in Seq(Cell) /\ Len(s) \in Nat /\ SizeOf[f] \in Nat
  BY CollectorAssumption DEF Opening
<1>1. e \in Cell /\ <<e>> \in Seq(Cell) /\ Len(<<e>>) = 1 /\ <<e>>[1] = e
  BY <1>0 DEF Cell
<1> HIDE DEF e
<1>2. /\ t \in Seq(Cell) /\ Len(t) = Len(s) + 1
      /\ \A i \in 1..(Len(s) + 1) : t[i] = IF i <= Len(s) THEN s[i] ELSE <<e>>[i - Len(s)]
  BY <1>0, <1>1, ConcatProperties
<1>3. ASSUME NEW i \in 1..(Len(s) + 1) PROVE t[i] = <<f, i>>
  <2>1. CASE i <= Len(s)
    <3>1. i \in 1..Len(s)
      BY <1>0, <2>1
    <3> QED BY <1>2, <2>1, <3>1 DEF Opening
  <2>2. CASE ~(i <= Len(s))
    <3>1. i = Len(s) + 1 /\ i - Len(s) = 1
      BY <1>0, <2>2
    <3>2. t[i] = e
      BY <1>1, <1>2, <2>2, <3>1
    <3> QED BY <3>1, <3>2 DEF e
  <2> QED BY <2>1, <2>2
<1>4. Len(s) + 1 <= SizeOf[f] /\ t # <<>>
  BY <1>0, <1>2
<1> HIDE DEF t
<1>5. Opening(t, f) /\ Len(t) = Len(s) + 1 /\ t # <<>>
  BY <1>2, <1>3, <1>4 DEF Opening
<1> QED BY <1>5 DEF t, e

(* What the parse of a front says of the file.                             *)
LEMMA ReportOfFront ==
  ASSUME NEW f \in Files, NEW s, Opening(s, f), s # <<>>
  PROVE  /\ ReadReport(s) = "whole" => KindOf[f] = "whole" /\ s = Cells(f)
         /\ IsTorn(s) /\ Len(s) = SizeOf[f] => KindOf[f] \in {"torn", "foreign"} /\ s = Cells(f)
<1>0. /\ Len(s) \in Nat \ {0} /\ s[1][2] = 1 /\ SizeOf[f] \in Nat \ {0} /\ Len(s) <= SizeOf[f]
      /\ \A i \in DOMAIN s : i \in 1..Len(s) /\ s[i][1] = f /\ s[i][2] = i
      /\ KindOf[f] \in {"whole", "torn", "foreign", "bad"}
  BY FirstCell, CollectorAssumption DEF Opening
<1> DEFINE Ends(kind) == \E i \in DOMAIN s : KindOf[s[i][1]] = kind /\ s[i][2] = SizeOf[s[i][1]]
<1>1. \A kind : Ends(kind) => KindOf[f] = kind /\ Len(s) = SizeOf[f]
  BY <1>0
<1>2. \A kind : KindOf[f] = kind /\ Len(s) = SizeOf[f] => Ends(kind)
  <2> SUFFICES ASSUME Len(s) = SizeOf[f] PROVE Ends(KindOf[f])
    OBVIOUS
  <2>1. Len(s) \in DOMAIN s
    BY <1>0 DEF Opening
  <2> QED BY <1>0, <2>1
<1>3. ReadReport(s) = (IF s = <<>> \/ s[1][2] # 1 \/ Ends("bad") THEN "bad"
                       ELSE IF Ends("whole") THEN "whole" ELSE "torn")
  BY DEF ReadReport
<1> HIDE DEF Ends
<1>4. ReadReport(s) = (IF Ends("bad") THEN "bad" ELSE IF Ends("whole") THEN "whole" ELSE "torn")
  <2>1. (s = <<>> \/ s[1][2] # 1 \/ Ends("bad")) <=> Ends("bad")
    BY <1>0
  <2>2. ~(Ends("bad") /\ Ends("whole"))
    BY <1>1
  <2> QED BY <1>3, <2>1, <2>2
<1>5. ReadReport(s) = "whole" => KindOf[f] = "whole" /\ Len(s) = SizeOf[f]
  BY <1>1, <1>4
<1>6. IsTorn(s) /\ Len(s) = SizeOf[f] => KindOf[f] \in {"torn", "foreign"}
  BY <1>0, <1>2, <1>4 DEF IsTorn
<1> QED BY <1>5, <1>6, FullFront

-----------------------------------------------------------------------------
(* A finite set of numbers has a greatest one.                             *)
LEMMA Greatest ==
  ASSUME NEW K, IsFiniteSet(K), K \subseteq Nat, K # {} PROVE \E m \in K : \A k \in K : k <= m
<1> DEFINE Above(k) == {j \in K : k <= j}
           T == {Above(k) : k \in K}
           Order == StrictSubsetOrdering(K)
<1>1. ASSUME NEW k \in K PROVE Above(k) \in FiniteSubsetsOf(K)
  BY FS_Subset DEF FiniteSubsetsOf
<1>2. T \subseteq FiniteSubsetsOf(K) /\ T # {}
  BY <1>1
<1> HIDE DEF Above
<1>3. PICK b \in T : \A a \in T : ~(<<a, b>> \in Order)
  <2> HIDE DEF T, Order
  <2>1. IsWellFoundedOn(Order, FiniteSubsetsOf(K))
    BY FS_StrictSubsetOrderingWellFounded DEF Order
  <2> QED BY <1>2, <2>1, WFMin
<1>4. PICK m \in K : b = Above(m)
  BY <1>3
<1>5. ASSUME NEW k \in K PROVE k <= m
  <2> SUFFICES ASSUME ~(k <= m) PROVE FALSE
    OBVIOUS
  <2>0. \A j \in K : j \in Nat
    OBVIOUS
  <2>1. Above(k) \subseteq Above(m) /\ m \in Above(m) /\ m \notin Above(k)
    <3>1. k \in Nat /\ m \in Nat /\ m < k
      BY <2>0
    <3>2. ASSUME NEW j \in K, k <= j PROVE m <= j
      BY <2>0, <3>1, <3>2
    <3>3. m <= m /\ ~(k <= m)
      BY <3>1
    <3> QED BY <3>2, <3>3, Zenon DEF Above
  <2>2. Above(k) \subseteq K /\ Above(m) \subseteq K
    BY DEF Above
  <2>3. <<Above(k), Above(m)>> \in Order
    BY <2>1, <2>2 DEF StrictSubsetOrdering
  <2> QED BY <1>3, <1>4, <2>3
<1> QED BY <1>5

(* A finite set of numbers can be put in order, and the order leaves       *)
(* nothing out.                                                            *)
Increasing(s) == \A i, j \in DOMAIN s : i < j => s[i] < s[j]
Ordered(U) == {s \in [1..Cardinality(U) -> U] : Increasing(s)}

(* The set of names the index lists can be put in an order.                *)
LEMMA CanBeOrdered ==
  ASSUME NEW K, IsFiniteSet(K), K \subseteq Nat PROVE Ordered(K) # {}
<1> SUFFICES ASSUME Ordered(K) = {} PROVE FALSE
  OBVIOUS
<1> DEFINE Bad == {U \in FiniteSubsetsOf(K) : Ordered(U) = {}}
           Order == StrictSubsetOrdering(K)
<1>1. Bad \subseteq FiniteSubsetsOf(K) /\ Bad # {}
  BY DEF FiniteSubsetsOf
<1>2. PICK b \in Bad : \A a \in Bad : ~(<<a, b>> \in Order)
  <2> HIDE DEF Bad, Order
  <2>1. IsWellFoundedOn(Order, FiniteSubsetsOf(K))
    BY FS_StrictSubsetOrderingWellFounded DEF Order
  <2> QED BY <1>1, <2>1, WFMin
<1>3. IsFiniteSet(b) /\ b \subseteq K /\ Ordered(b) = {} /\ (\A j \in b : j \in Nat) /\ Cardinality(b) \in Nat
  BY <1>2, FS_CardinalityType DEF FiniteSubsetsOf
<1>4. b # {}
  <2> SUFFICES ASSUME b = {} PROVE FALSE
    OBVIOUS
  <2>1. Cardinality(b) = 0 /\ 1..0 = {}
    BY FS_EmptySet
  <2> DEFINE s == [i \in 1..0 |-> 0]
  <2>2. s \in [1..Cardinality(b) -> b] /\ Increasing(s)
    BY <2>1 DEF Increasing
  <2> HIDE DEF s
  <2> QED BY <1>3, <2>2 DEF Ordered
<1>5. PICK m \in b : \A k \in b : k <= m
  BY <1>3, <1>4, Greatest
<1> DEFINE U == b \ {m}
           n == Cardinality(b)
<1>6. /\ IsFiniteSet(U) /\ Cardinality(U) = n - 1 /\ n \in Nat \ {0} /\ U \subseteq K
      /\ <<U, b>> \in Order
  <2>1. IsFiniteSet(U) /\ Cardinality(U) = n - 1
    BY <1>3, FS_RemoveElement
  <2>2. n \in Nat \ {0}
    BY <1>3, <1>4, FS_EmptySet
  <2> QED BY <1>3, <2>1, <2>2 DEF StrictSubsetOrdering
<1>7. U \notin Bad /\ U \in FiniteSubsetsOf(K)
  BY <1>2, <1>6 DEF FiniteSubsetsOf
<1>8. PICK t \in [1..(n - 1) -> U] : Increasing(t)
  BY <1>6, <1>7 DEF Ordered
<1> HIDE DEF n
<1> DEFINE s == [i \in 1..n |-> IF i = n THEN m ELSE t[i]]
<1>9. \A i \in 1..n : i # n => i \in 1..(n - 1) /\ i < n /\ t[i] \in U /\ t[i] < m
  <2>1. \A i \in 1..n : i # n => i \in 1..(n - 1) /\ i < n
    BY <1>6
  <2>2. \A k \in U : k < m
    BY <1>3, <1>5
  <2> QED BY <1>8, <2>1, <2>2
<1>10. s \in [1..n -> b]
  BY <1>9
<1>11. ASSUME NEW i \in 1..n, NEW j \in 1..n, i < j PROVE s[i] < s[j]
  <2>1. i # n
    BY <1>6, <1>11
  <2>2. CASE j = n
    BY <1>9, <2>1, <2>2
  <2>3. CASE j # n
    <3>1. i \in 1..(n - 1) /\ j \in 1..(n - 1)
      BY <1>9, <2>1, <2>3
    <3>2. t[i] < t[j]
      BY <1>8, <1>11, <3>1 DEF Increasing
    <3> QED BY <2>1, <2>3, <3>2
  <2> QED BY <2>2, <2>3
<1>12. s \in Ordered(b)
  BY <1>10, <1>11 DEF Ordered, Increasing, n
<1> QED BY <1>3, <1>12

(* An order of a finite set names every element of it.                     *)
LEMMA OrderedIsAll ==
  ASSUME NEW K, IsFiniteSet(K), K \subseteq Nat, NEW s \in Ordered(K)
  PROVE  s \in Seq(K) /\ DOMAIN s = 1..Cardinality(K) /\ \A k \in K : \E i \in DOMAIN s : s[i] = k
<1> DEFINE n == Cardinality(K)
<1>1. n \in Nat /\ s \in [1..n -> K] /\ Increasing(s)
  BY FS_CardinalityType DEF Ordered
<1> HIDE DEF n
<1>2. s \in Injection(1..n, K)
  <2>1. ASSUME NEW i \in 1..n, NEW j \in 1..n, s[i] = s[j] PROVE i = j
    <3>0. s[i] \in Nat
      BY <1>1
    <3>1. ~(s[i] < s[j]) /\ ~(s[j] < s[i])
      BY <2>1, <3>0
    <3>2. ~(i < j) /\ ~(j < i)
      BY <1>1, <3>1 DEF Increasing
    <3> QED BY <1>1, <3>2
  <2> QED BY <1>1, <2>1 DEF Injection, IsInjective
<1>3. IsFiniteSet(1..n) /\ Cardinality(1..n) = n
  BY <1>1, FS_Interval
<1>4. s \in Surjection(1..n, K)
  BY <1>2, <1>3, FS_Injection DEF n
<1> QED BY <1>1, <1>4 DEF Surjection, n

-----------------------------------------------------------------------------
Fetching == {"verify", "sight", "store", "rename"}
OnChunk == {"have", "fetch", "download", "keep", "confirm"} \cup Fetching
PassPcs == {"idle", "index", "next", "done"} \cup OnChunk
Cards == {CardOf[f] : f \in Files} \cup {None}
Entries == [name : Names, size : Nat]
Bodies == [f : Files, pos : Nat, whole : BOOLEAN] \cup {None}
Attempts == 1..Retries
Fails == SUBSET {"defect", "transient"}
Statuses == Nat \cup {None}
Proofs == Files \cup {None}
Passes == [pc : PassPcs, todo : Seq(Entries), att : Attempts, dl : Bodies, torn : BOOLEAN,
           proof : Proofs, card : Cards, listed : SUBSET Names, acked : SUBSET Names,
           failed : Fails, status : Statuses]
CollectorTypes ==
    /\ upl \subseteq Files /\ exposed \subseteq upl /\ inserted \in Cards
    /\ part \in [Names -> Seq(Cell)] /\ final \in [Names -> Seq(Cell) \cup {None}]
    /\ DOMAIN sidecar = Names /\ DOMAIN meta = Names
    /\ \A n \in Names : meta[n] # None => meta[n].seen \in 1..(TORN_MAX_SIGHTINGS - 1)
    /\ c \in [Procs -> Passes]

(* A partial is a front of one file of its name; so is what is stored.     *)
PartInv == \A n \in Names : part[n] # <<>> => \E f \in Files : NameOf[f] = n /\ Opening(part[n], f)
IsArchived(n, f, s, vouched) ==
    NameOf[f] = n /\ s = Cells(f) /\ (KindOf[f] = "whole" \/ (KindOf[f] = "torn" /\ vouched = s))
StoreInv == \A n \in Names : final[n] # None /\ n \notin misled =>
                \E f \in Files : IsArchived(n, f, final[n], sidecar[n])
UplInv == \A f \in upl \ exposed : NameOf[f] \notin misled => final[NameOf[f]] = Cells(f)
DiskInv == PartInv /\ StoreInv /\ UplInv

(* What a pass has left to do, and what it says of what it did.            *)
Listed(r) ==
    /\ \A i \in 1..Len(r.todo) : \E f \in Files : /\ NameOf[f] = r.todo[i].name /\ CardOf[f] = r.card
                                                  /\ r.todo[i].size \in {0, SizeOf[f]}
    /\ r.failed = {} => \A n \in r.listed : n \in r.acked \/ \E i \in 1..Len(r.todo) : r.todo[i].name = n
Stored == {n \in Names : final[n] # None}
ListInv(r, stored) ==
    /\ r.pc = "index" => r.failed = {}
    /\ r.pc \in OnChunk => r.todo # <<>>
    /\ r.pc \in OnChunk \cup {"next"} => Listed(r)
    /\ r.acked \subseteq stored
    /\ r.dl # None => r.pc = "download"
    /\ r.torn => r.pc \in {"store", "rename", "confirm"}
    /\ r.pc = "done" => /\ r.status = 0 => r.listed \subseteq r.acked
                        /\ r.status = 75 => "defect" \notin r.failed

(* What is true of the chunk it works on.                                  *)
TornBody(r, body) == IsTorn(body) /\ Len(body) = Head(r.todo).size
Reading(d, n, body) ==
    /\ NameOf[d.f] = n /\ d.pos \in 1..(SizeOf[d.f] + 1)
    /\ IF d.whole THEN d.pos = 1 ELSE Opening(body, d.f) /\ Len(body) = d.pos - 1
ChunkInv(r, body, held, vouched, sights, lost) ==
    /\ r.pc \in {"have", "confirm"} => held # None
    /\ r.pc = "download" /\ r.dl # None => Reading(r.dl, Head(r.todo).name, body) /\ r.proof = r.dl.f
    /\ r.pc \in Fetching => body # <<>> /\ body[1] = <<r.proof, 1>>
    /\ r.pc = "sight" => TornBody(r, body)
    /\ r.pc \in {"store", "rename"} => IF r.torn THEN TornBody(r, body) /\ KindOf[body[1][1]] # "foreign"
                                      ELSE ReadReport(body) = "whole"
    /\ r.pc = "keep" => sights < TORN_MAX_SIGHTINGS
    /\ r.pc = "rename" => held = None /\ (r.torn => vouched = body)
    /\ r.pc = "confirm" => lost \/ (r.proof \in Files /\ held = Cells(r.proof))
WorkInv(p) == ChunkInv(c[p], part[Name(p)], final[Name(p)], sidecar[Name(p)], Seen(Name(p)),
                       Name(p) \in misled)
CollectorInv == CollectorTypes /\ DiskInv /\ \A p \in Procs : ListInv(c[p], Stored) /\ WorkInv(p)

(* A chunk that is worked on has a name of the archive.                    *)
LEMMA ChunkAtWork ==
  ASSUME NEW r \in Passes, NEW stored, ListInv(r, stored), r.pc \in OnChunk
  PROVE  /\ Listed(r) /\ r.todo \in Seq(Entries) /\ Len(r.todo) \in Nat \ {0}
         /\ Head(r.todo) = r.todo[1] /\ r.todo[1] \in Entries /\ r.todo[1].name \in Names
         /\ r.todo[1].size \in Nat
         /\ \E f \in Files : /\ NameOf[f] = Head(r.todo).name /\ CardOf[f] = r.card
                             /\ Head(r.todo).size \in {0, SizeOf[f]}
<1>1. r.todo # <<>> /\ Listed(r) /\ r.todo \in Seq(Entries)
  BY DEF ListInv, Passes
<1>2. Len(r.todo) \in Nat \ {0} /\ 1 \in 1..Len(r.todo) /\ Head(r.todo) = r.todo[1] /\ r.todo[1] \in Entries
  BY <1>1
<1>3. r.todo[1].name \in Names /\ r.todo[1].size \in Nat
  BY <1>2 DEF Entries
<1> QED BY <1>1, <1>2, <1>3 DEF Listed

(* The four ways a pass goes on: to another step of the chunk, to another  *)
(* attempt, to the next chunk, or to its end.                              *)
LEMMA Becomes ==
  ASSUME c \in [Procs -> Passes], NEW p \in Procs, NEW r \in Passes, Become(p, r)
  PROVE  c' \in [Procs -> Passes] /\ c'[p] = r
BY DEF Become

(* A failure of the chunk is recorded and the pass goes on to the next     *)
(* one.                                                                    *)
LEMMA LeavesChunk ==
  ASSUME c \in [Procs -> Passes], NEW p \in Procs, c[p].pc \in OnChunk, NEW stored, NEW later,
         ListInv(c[p], stored), stored \subseteq later,
         NEW how \in {"defect", "transient"}, RecordFailure(p, how)
  PROVE  c' \in [Procs -> Passes] /\ c'[p].pc = "next" /\ ListInv(c'[p], later)
<1> DEFINE r == c[p]
           t == [r EXCEPT !.pc = "next", !.todo = Tail(@), !.failed = @ \cup {how},
                          !.att = 1, !.dl = None, !.torn = FALSE, !.proof = None]
<1>0. r \in Passes
  OBVIOUS
<1>1. /\ Listed(r) /\ r.todo \in Seq(Entries) /\ Len(r.todo) \in Nat \ {0} /\ r.acked \subseteq stored
  BY <1>0, ChunkAtWork DEF ListInv
<1>2. /\ Tail(r.todo) \in Seq(Entries) /\ Len(Tail(r.todo)) = Len(r.todo) - 1
      /\ \A i \in 1..Len(Tail(r.todo)) : Tail(r.todo)[i] = r.todo[i + 1] /\ i + 1 \in 1..Len(r.todo)
  BY <1>1
<1>3. /\ "next" \in PassPcs /\ 1 \in Attempts /\ None \in Bodies /\ None \in Proofs
      /\ r.failed \cup {how} \in Fails
  <2>1. r.failed \in Fails
    BY <1>0 DEF Passes
  <2> QED BY <2>1, CollectorAssumption DEF PassPcs, Attempts, Bodies, Proofs, Fails
<1>4. t \in Passes
  BY <1>0, <1>2, <1>3 DEF Passes
<1>5. /\ t.pc = "next" /\ t.todo = Tail(r.todo) /\ t.failed # {} /\ t.dl = None /\ t.torn = FALSE
      /\ t.acked = r.acked /\ t.card = r.card
  BY <1>0 DEF Passes
<1>6. Become(p, t)
  BY DEF RecordFailure
<1> HIDE DEF t
<1>7. Listed(t)
  BY <1>1, <1>2, <1>5 DEF Listed
<1>8. ListInv(t, later)
  BY <1>1, <1>5, <1>7 DEF ListInv, OnChunk, Fetching
<1> QED BY <1>4, <1>5, <1>6, <1>8, Becomes

(* A transient failure: another attempt while attempts are left.           *)
LEMMA AsksAgain ==
  ASSUME c \in [Procs -> Passes], NEW p \in Procs, c[p].pc \in OnChunk, NEW stored, NEW later,
         ListInv(c[p], stored), stored \subseteq later,
         NEW pc \in {"have", "fetch", "confirm"}, c[p].torn => pc = "confirm", Retry(p, pc)
  PROVE  /\ c' \in [Procs -> Passes] /\ ListInv(c'[p], later)
         /\ \/ c'[p].pc = "next"
            \/ c'[p].pc = pc /\ c'[p].todo = c[p].todo /\ c'[p].proof = c[p].proof
<1> DEFINE r == c[p]
           t == [r EXCEPT !.pc = pc, !.att = @ + 1, !.dl = None]
<1>1. CASE c[p].att < Retries
  <2>0. r \in Passes
    OBVIOUS
  <2>1. /\ pc \in PassPcs /\ r.att + 1 \in Attempts /\ None \in Bodies
    <3>1. r.att \in Attempts
      BY <2>0 DEF Passes
    <3> QED BY <1>1, <3>1, CollectorAssumption DEF PassPcs, OnChunk, Attempts, Bodies
  <2>2. t \in Passes
    BY <2>0, <2>1 DEF Passes
  <2>3. /\ t.pc = pc /\ t.todo = r.todo /\ t.failed = r.failed /\ t.dl = None /\ t.torn = r.torn
        /\ t.acked = r.acked /\ t.card = r.card /\ t.proof = r.proof /\ t.listed = r.listed
    BY <2>0 DEF Passes
  <2>4. Become(p, t)
    BY <1>1 DEF Retry
  <2> HIDE DEF t
  <2>5. Listed(r) /\ r.todo # <<>> /\ r.acked \subseteq stored
    BY DEF ListInv
  <2>6. Listed(t)
    BY <2>3, <2>5 DEF Listed
  <2>7. ListInv(t, later)
    BY <2>3, <2>5, <2>6 DEF ListInv
  <2> QED BY <2>2, <2>3, <2>4, <2>7, Becomes
<1>2. CASE ~(c[p].att < Retries)
  BY <1>2, LeavesChunk DEF Retry
<1> QED BY <1>1, <1>2

(* A pass that ends with the status its chunks earned.                     *)
LEMMA EndsPass ==
  ASSUME c \in [Procs -> Passes], NEW p \in Procs, NEW stored, NEW later,
         ListInv(c[p], stored), stored \subseteq later,
         NEW status \in Nat, EndPass(p, status),
         status = 0 => c[p].listed \subseteq c[p].acked, status = 75 => "defect" \notin c[p].failed
  PROVE  c' \in [Procs -> Passes] /\ c'[p].pc = "done" /\ ListInv(c'[p], later)
<1> DEFINE r == c[p]
           t == [r EXCEPT !.pc = "done", !.todo = <<>>, !.att = 1, !.dl = None, !.torn = FALSE,
                          !.proof = None, !.card = None, !.status = status]
<1>0. r \in Passes /\ r.acked \subseteq stored
  BY DEF ListInv
<1>1. /\ "done" \in PassPcs /\ 1 \in Attempts /\ None \in Bodies /\ None \in Proofs /\ None \in Cards
      /\ status \in Statuses /\ <<>> \in Seq(Entries)
  <2>1. 1 \in Attempts /\ <<>> \in Seq(Entries)
    BY CollectorAssumption DEF Attempts
  <2>2. "done" \in PassPcs /\ status \in Statuses
    BY DEF PassPcs, Statuses
  <2>3. None \in Bodies /\ None \in Proofs /\ None \in Cards
    BY DEF Bodies, Proofs, Cards
  <2> QED BY <2>1, <2>2, <2>3
<1>2. t \in Passes
  BY <1>0, <1>1 DEF Passes
<1>3. /\ t.pc = "done" /\ t.failed = r.failed /\ t.dl = None /\ t.torn = FALSE /\ t.status = status
      /\ t.acked = r.acked /\ t.listed = r.listed
  BY <1>0 DEF Passes
<1>4. Become(p, t)
  BY DEF EndPass
<1> HIDE DEF t
<1>5. ListInv(t, later)
  BY <1>0, <1>3 DEF ListInv, OnChunk, Fetching
<1> QED BY <1>2, <1>3, <1>4, <1>5, Becomes

(* A step to another stage of the same chunk.                              *)
LEMMA MovesOn ==
  ASSUME c \in [Procs -> Passes], NEW p \in Procs, NEW stored, NEW later,
         ListInv(c[p], stored), stored \subseteq later,
         c[p].pc \in OnChunk \cup {"next"}, c[p].todo # <<>>,
         NEW t \in Passes, Become(p, t), t.pc \in OnChunk,
         t.todo = c[p].todo, t.listed = c[p].listed, t.acked = c[p].acked, t.failed = c[p].failed,
         t.card = c[p].card,
         t.dl # None => t.pc = "download", t.torn => t.pc \in {"store", "rename", "confirm"}
  PROVE  c' \in [Procs -> Passes] /\ c'[p] = t /\ ListInv(c'[p], later)
<1>1. Listed(c[p]) /\ c[p].acked \subseteq stored
  BY DEF ListInv
<1>2. Listed(t)
  BY <1>1 DEF Listed
<1>3. ListInv(t, later)
  BY <1>1, <1>2 DEF ListInv, OnChunk, Fetching
<1> QED BY <1>3, Becomes

(* The same, when only the stage changes.                                  *)
LEMMA GoesTo ==
  ASSUME c \in [Procs -> Passes], NEW p \in Procs, NEW stored, NEW later,
         ListInv(c[p], stored), stored \subseteq later,
         c[p].pc \in OnChunk \cup {"next"}, c[p].todo # <<>>, c[p].pc # "download",
         NEW pc \in OnChunk, Goto(p, pc), c[p].torn => pc \in {"store", "rename", "confirm"}
  PROVE  /\ c' \in [Procs -> Passes] /\ ListInv(c'[p], later)
         /\ c'[p].pc = pc /\ c'[p].todo = c[p].todo /\ c'[p].dl = None /\ c'[p].torn = c[p].torn
         /\ c'[p].proof = c[p].proof /\ c'[p].card = c[p].card
<1> DEFINE t == [c[p] EXCEPT !.pc = pc, !.att = 1]
<1>1. pc \in PassPcs /\ 1 \in Attempts
  BY CollectorAssumption DEF PassPcs, Attempts
<1>2. t \in Passes
  BY <1>1 DEF Passes
<1>3. /\ t.pc = pc /\ t.todo = c[p].todo /\ t.listed = c[p].listed /\ t.acked = c[p].acked
      /\ t.failed = c[p].failed /\ t.card = c[p].card /\ t.dl = c[p].dl /\ t.torn = c[p].torn
      /\ t.proof = c[p].proof
  BY DEF Passes
<1>4. Become(p, t) /\ t.dl = None
  BY <1>3 DEF Goto, ListInv
<1> HIDE DEF t
<1> QED BY <1>2, <1>3, <1>4, MovesOn

(* What a step of the only collector has to leave behind.                  *)
LEMMA NoChunk ==
  ASSUME NEW r, r.pc \notin OnChunk, NEW body, NEW held, NEW vouched, NEW sights, NEW lost
  PROVE  ChunkInv(r, body, held, vouched, sights, lost)
BY DEF ChunkInv, OnChunk, Fetching

(* A pass that is not on a chunk owes the disk nothing.                    *)
LEMMA NoWork ==
  ASSUME NEW p \in Procs, c'[p].pc \notin OnChunk PROVE WorkInv(p)'
BY NoChunk DEF WorkInv

(* The lock of the fleet lets one collector run, so its own step is all    *)
(* there is to a step of the invariant.                                    *)
LEMMA OneCollector ==
  ASSUME NEW p \in Procs, CollectorTypes', DiskInv', ListInv(c'[p], Stored'), WorkInv(p)'
  PROVE  CollectorInv'
<1>1. ASSUME NEW q \in Procs PROVE q = p
  BY CollectorAssumption
<1> QED BY <1>1 DEF CollectorInv

(* A step that leaves the disk and the card alone.                         *)
LEMMA DiskStays ==
  ASSUME CollectorTypes, DiskInv, UNCHANGED <<upl, disk, exposed, misled>>, inserted' \in Cards,
         c' \in [Procs -> Passes]
  PROVE  CollectorTypes' /\ DiskInv' /\ Stored' = Stored
<1>1. UNCHANGED <<upl, final, part, cand, meta, sidecar, exposed, misled>>
  BY DEF disk
<1>2. CollectorTypes'
  BY <1>1 DEF CollectorTypes
<1>3. PartInv' /\ StoreInv' /\ UplInv' /\ Stored' = Stored
  BY <1>1 DEF DiskInv, PartInv, StoreInv, UplInv, Stored
<1> QED BY <1>2, <1>3 DEF DiskInv

(* A step that writes one partial and leaves the rest of the archive       *)
(* alone.                                                                  *)
LEMMA PartStep ==
  ASSUME CollectorTypes, DiskInv, UNCHANGED <<inserted, upl, final, sidecar, exposed, misled>>,
         NEW n \in Names, NEW body \in Seq(Cell), part' = [part EXCEPT ![n] = body],
         body # <<>> => \E f \in Files : NameOf[f] = n /\ Opening(body, f),
         DOMAIN meta' = Names, \A k \in Names : meta'[k] # None => meta'[k].seen \in 1..(TORN_MAX_SIGHTINGS - 1),
         c' \in [Procs -> Passes]
  PROVE  CollectorTypes' /\ DiskInv' /\ Stored' = Stored /\ part'[n] = body
<1>1. /\ part' \in [Names -> Seq(Cell)] /\ part'[n] = body
      /\ \A k \in Names : k # n => part'[k] = part[k]
  BY DEF CollectorTypes
<1>2. CollectorTypes'
  BY <1>1 DEF CollectorTypes
<1>3. PartInv'
  BY <1>1 DEF DiskInv, PartInv
<1>4. StoreInv' /\ UplInv' /\ Stored' = Stored
  BY DEF DiskInv, StoreInv, UplInv, Stored
<1> QED BY <1>1, <1>2, <1>3, <1>4 DEF DiskInv

-----------------------------------------------------------------------------
(* The pass before it starts.                                              *)
LEMMA IdlePass ==
  /\ Idle \in Passes /\ Idle.pc = "idle" /\ Idle.failed = {} /\ Idle.acked = {} /\ Idle.dl = None
  /\ ~Idle.torn
  /\ [Idle EXCEPT !.pc = "index"] \in Passes
<1>1. /\ "idle" \in PassPcs /\ "index" \in PassPcs
  BY DEF PassPcs
<1>2. 1 \in Attempts /\ <<>> \in Seq(Entries)
  BY CollectorAssumption DEF Attempts
<1>3. None \in Bodies /\ None \in Proofs /\ None \in Cards /\ {} \in Fails /\ None \in Statuses
  BY DEF Bodies, Proofs, Cards, Fails, Statuses
<1>4. Idle \in Passes /\ Idle.pc = "idle" /\ Idle.failed = {} /\ Idle.acked = {} /\ Idle.dl = None /\ ~Idle.torn
  BY <1>1, <1>2, <1>3 DEF Idle, Passes
<1>5. [Idle EXCEPT !.pc = "index"] \in Passes
  BY <1>1, <1>4 DEF Passes
<1> QED BY <1>4, <1>5

(* The archive the first pass finds: empty, no partial, nothing confirmed. *)
LEMMA InitCollector == CollectorInit => CollectorInv
<1> SUFFICES ASSUME CollectorInit PROVE CollectorInv
  OBVIOUS
<1>1. CollectorTypes
  BY IdlePass DEF CollectorInit, CollectorTypes, Cards
<1>2. DiskInv /\ Stored = {}
  BY DEF CollectorInit, DiskInv, PartInv, StoreInv, UplInv, Stored
<1>3. ASSUME NEW p \in Procs PROVE ListInv(c[p], Stored) /\ WorkInv(p)
  <2>1. c[p] = Idle
    BY DEF CollectorInit
  <2>2. ListInv(c[p], Stored)
    BY <2>1, IdlePass DEF ListInv, OnChunk, Fetching
  <2>3. c[p].pc \notin OnChunk
    BY <2>1, IdlePass DEF OnChunk, Fetching
  <2>4. WorkInv(p)
    BY <2>3, NoChunk DEF WorkInv
  <2> QED BY <2>2, <2>4
<1> QED BY <1>1, <1>2, <1>3 DEF CollectorInv

(* StartPass: the process starts with what the disk holds and nothing      *)
(* else.                                                                   *)
LEMMA StartPassKeeps ==
  ASSUME CollectorInv, NEW p \in Procs, StartPass(p) PROVE CollectorInv'
<1> DEFINE t == [Idle EXCEPT !.pc = "index"]
<1>0. CollectorTypes /\ DiskInv /\ UNCHANGED <<inserted, upl, disk, exposed, misled>> /\ Become(p, t)
  BY DEF CollectorInv, StartPass
<1>1. t \in Passes /\ t.pc = "index" /\ t.failed = {} /\ t.acked = {} /\ t.dl = None /\ ~t.torn
  BY IdlePass DEF Passes
<1> HIDE DEF t
<1>2. c' \in [Procs -> Passes] /\ c'[p] = t
  BY <1>0, <1>1, Becomes DEF CollectorTypes
<1>3. CollectorTypes' /\ DiskInv' /\ Stored' = Stored
  BY <1>0, <1>2, DiskStays DEF CollectorTypes
<1>4. ListInv(t, Stored') /\ t.pc \notin OnChunk
  BY <1>1 DEF ListInv, OnChunk, Fetching
<1> QED BY <1>2, <1>3, <1>4, NoWork, OneCollector

(* The index lists every name the card serves, each with the length of the *)
(* file it serves or none.                                                 *)
LEMMA ServedFile ==
  ASSUME NEW n, Served(n) # None
  PROVE  Served(n) \in Files /\ NameOf[Served(n)] = n /\ CardOf[Served(n)] = inserted /\ Served(n) \notin upl
BY DEF Served

(* Index: the chunks the index lists, in the order it lists them, fill the *)
(* worklist.                                                               *)
LEMMA IndexKeeps ==
  ASSUME CollectorInv, NEW p \in Procs, Index(p) PROVE CollectorInv'
<1> DEFINE L == {n \in Names : Served(n) # None}
           Sorted == CHOOSE s \in [1..Cardinality(L) -> L] : \A i, j \in DOMAIN s : i < j => s[i] < s[j]
           Entry(sized, i) == [name |-> Sorted[i], size |-> IF sized THEN SizeOf[Served(Sorted[i])] ELSE 0]
           list(sized) == [i \in DOMAIN Sorted |-> Entry(sized, i)]
<1>0. /\ CollectorTypes /\ DiskInv /\ c[p] \in Passes /\ ListInv(c[p], Stored) /\ c[p].pc = "index"
      /\ UNCHANGED <<inserted, upl, disk, exposed, misled>>
  BY DEF CollectorInv, CollectorTypes, Index, At
<1>1. PICK sized \in BOOLEAN, broken \in BOOLEAN :
        Become(p, [c[p] EXCEPT !.pc = "next", !.att = 1, !.listed = L, !.card = inserted,
                               !.failed = IF broken THEN {"defect"} ELSE {}, !.todo = list(sized)])
  BY DEF Index
<1>2. /\ IsFiniteSet(L) /\ L \subseteq Names /\ L \subseteq Nat
  <2>1. IsFiniteSet(Names) /\ L \subseteq Names /\ Names \subseteq Nat
    BY CollectorAssumption
  <2> QED BY <2>1, FS_Subset
<1>3. /\ Sorted \in Seq(L) /\ DOMAIN Sorted = 1..Cardinality(L) /\ Cardinality(L) \in Nat
      /\ \A n \in L : \E i \in DOMAIN Sorted : Sorted[i] = n
      /\ \A i \in DOMAIN Sorted : Sorted[i] \in L
  <2> HIDE DEF L
  <2>1. Sorted \in Ordered(L)
    BY <1>2, CanBeOrdered DEF Ordered, Increasing
  <2> HIDE DEF Sorted
  <2>2. /\ Sorted \in Seq(L) /\ DOMAIN Sorted = 1..Cardinality(L)
        /\ \A n \in L : \E i \in DOMAIN Sorted : Sorted[i] = n
    BY <1>2, <2>1, OrderedIsAll
  <2>3. Cardinality(L) \in Nat
    BY <1>2, FS_CardinalityType
  <2> QED BY <2>2, <2>3
<1> DEFINE t == [c[p] EXCEPT !.pc = "next", !.att = 1, !.listed = L, !.card = inserted,
                             !.failed = IF broken THEN {"defect"} ELSE {}, !.todo = list(sized)]
<1> HIDE DEF Sorted
<1>4. ASSUME NEW i \in DOMAIN Sorted
      PROVE  /\ list(sized)[i] \in Entries /\ list(sized)[i].name = Sorted[i]
             /\ \E f \in Files : /\ NameOf[f] = list(sized)[i].name /\ CardOf[f] = inserted
                                 /\ list(sized)[i].size \in {0, SizeOf[f]}
  <2>1. Sorted[i] \in L
    BY <1>3
  <2>2. /\ Served(Sorted[i]) \in Files /\ NameOf[Served(Sorted[i])] = Sorted[i]
        /\ CardOf[Served(Sorted[i])] = inserted
    BY <2>1, ServedFile
  <2>3. SizeOf[Served(Sorted[i])] \in Nat
    BY <2>2, CollectorAssumption
  <2>4. list(sized)[i] = Entry(sized, i)
    OBVIOUS
  <2> QED BY <1>2, <2>1, <2>2, <2>3, <2>4 DEF Entries
<1>5. /\ list(sized) \in Seq(Entries) /\ DOMAIN list(sized) = 1..Cardinality(L)
      /\ Len(list(sized)) = Cardinality(L)
  <2>1. \A i \in DOMAIN Sorted : list(sized)[i] \in Entries
    BY <1>4
  <2>2. DOMAIN list(sized) = DOMAIN Sorted /\ list(sized) = [i \in DOMAIN Sorted |-> list(sized)[i]]
    OBVIOUS
  <2> HIDE DEF list, L
  <2>3. list(sized) \in [1..Cardinality(L) -> Entries]
    BY <1>3, <2>1, <2>2
  <2> QED BY <1>3, <2>3
<1> HIDE DEF list
<1>6. /\ "next" \in PassPcs /\ 1 \in Attempts /\ inserted \in Cards /\ L \in SUBSET Names
      /\ (IF broken THEN {"defect"} ELSE {}) \in Fails
  BY <1>0, <1>2, CollectorAssumption DEF PassPcs, Attempts, CollectorTypes, Fails
<1> HIDE DEF L
<1>7. t \in Passes
  BY <1>0, <1>5, <1>6 DEF Passes
<1>8. /\ t.pc = "next" /\ t.listed = L /\ t.card = inserted /\ t.todo = list(sized)
      /\ t.acked = c[p].acked /\ t.dl = c[p].dl /\ t.torn = c[p].torn
  BY <1>0 DEF Passes
<1>9. c[p].dl = None /\ ~c[p].torn /\ c[p].acked \subseteq Stored
  BY <1>0 DEF ListInv
<1>10. Become(p, t)
  BY <1>1
<1> HIDE DEF t
<1>11. c' \in [Procs -> Passes] /\ c'[p] = t
  BY <1>0, <1>7, <1>10, Becomes DEF CollectorTypes
<1>12. CollectorTypes' /\ DiskInv' /\ Stored' = Stored
  BY <1>0, <1>11, DiskStays DEF CollectorTypes
<1>13. Listed(t)
  BY <1>3, <1>4, <1>5, <1>8 DEF Listed
<1>14. ListInv(t, Stored') /\ t.pc \notin OnChunk
  BY <1>8, <1>9, <1>12, <1>13 DEF ListInv, OnChunk, Fetching
<1> QED BY <1>11, <1>12, <1>14, NoWork, OneCollector

(* A pass that ends, and the collector that is killed.                     *)
LEMMA EndKeeps ==
  ASSUME CollectorInv, NEW p \in Procs, UNCHANGED <<inserted, upl, disk, exposed, misled>>,
         NEW status \in Nat, EndPass(p, status),
         status = 0 => c[p].listed \subseteq c[p].acked, status = 75 => "defect" \notin c[p].failed
  PROVE  CollectorInv'
<1>0. CollectorTypes /\ DiskInv /\ c \in [Procs -> Passes] /\ ListInv(c[p], Stored)
  BY DEF CollectorInv, CollectorTypes
<1>1. /\ c' \in [Procs -> Passes] /\ c'[p].pc = "done" /\ ListInv(c'[p], Stored)
  BY <1>0, EndsPass
<1>2. CollectorTypes' /\ DiskInv' /\ Stored' = Stored
  BY <1>0, <1>1, DiskStays DEF CollectorTypes
<1>3. c'[p].pc \notin OnChunk
  BY <1>1 DEF OnChunk, Fetching
<1> QED BY <1>1, <1>2, <1>3, NoWork, OneCollector

(* IndexFails: the index could not be read, and the pass ends transient.   *)
LEMMA IndexFailsKeeps ==
  ASSUME CollectorInv, NEW p \in Procs, IndexFails(p) PROVE CollectorInv'
<1>0. /\ CollectorTypes /\ DiskInv /\ c[p] \in Passes /\ ListInv(c[p], Stored) /\ c[p].pc = "index"
      /\ UNCHANGED <<inserted, upl, disk, exposed, misled>>
  BY DEF CollectorInv, CollectorTypes, IndexFails, At
<1>1. CASE c[p].att < Retries /\ Become(p, [c[p] EXCEPT !.att = @ + 1])
  <2> DEFINE t == [c[p] EXCEPT !.att = @ + 1]
  <2>1. c[p].att + 1 \in Attempts
    BY <1>0, <1>1, CollectorAssumption DEF Passes, Attempts
  <2>2. t \in Passes
    BY <1>0, <2>1 DEF Passes
  <2>3. /\ t.pc = "index" /\ t.failed = c[p].failed /\ t.acked = c[p].acked /\ t.dl = c[p].dl /\ t.torn = c[p].torn
    BY <1>0 DEF Passes
  <2>4. Become(p, t)
    BY <1>1
  <2> HIDE DEF t
  <2>5. c' \in [Procs -> Passes] /\ c'[p] = t
    BY <1>0, <2>2, <2>4, Becomes DEF CollectorTypes
  <2>6. CollectorTypes' /\ DiskInv' /\ Stored' = Stored
    BY <1>0, <2>5, DiskStays DEF CollectorTypes
  <2>7. ListInv(t, Stored') /\ t.pc \notin OnChunk
    BY <1>0, <2>3, <2>6 DEF ListInv, OnChunk, Fetching
  <2> QED BY <2>5, <2>6, <2>7, NoWork, OneCollector
<1>2. CASE EndPass(p, 75)
  <2>1. c[p].failed = {}
    BY <1>0 DEF ListInv
  <2> QED BY <1>0, <1>2, <2>1, EndKeeps
<1>3. CASE EndPass(p, 3)
  BY <1>0, <1>3, EndKeeps
<1> QED BY <1>1, <1>2, <1>3 DEF IndexFails

(* A pass that the device refuses, that cannot write its archive, or that  *)
(* is killed.                                                              *)
LEMMA StopsKeep ==
  ASSUME CollectorInv, NEW p \in Procs, Refused(p) \/ ArchiveError(p) \/ Crash(p) PROVE CollectorInv'
<1>1. CASE Refused(p)
  BY <1>1, EndKeeps DEF Refused
<1>2. CASE ArchiveError(p)
  BY <1>2, EndKeeps DEF ArchiveError
<1>3. CASE Crash(p)
  <2>0. CollectorTypes /\ DiskInv /\ UNCHANGED <<inserted, upl, disk, exposed, misled>> /\ Become(p, Idle)
    BY <1>3 DEF CollectorInv, Crash
  <2>1. c' \in [Procs -> Passes] /\ c'[p] = Idle
    BY <2>0, IdlePass, Becomes DEF CollectorTypes
  <2>2. CollectorTypes' /\ DiskInv' /\ Stored' = Stored
    BY <2>0, <2>1, DiskStays DEF CollectorTypes
  <2>3. ListInv(Idle, Stored') /\ Idle.pc \notin OnChunk
    BY IdlePass DEF ListInv, OnChunk, Fetching
  <2> QED BY <2>1, <2>2, <2>3, NoWork, OneCollector
<1> QED BY <1>1, <1>2, <1>3

-----------------------------------------------------------------------------
(* What the invariant says of a pass that works on a chunk.                *)
LEMMA AtWork ==
  ASSUME CollectorInv, NEW p \in Procs, c[p].pc \in OnChunk
  PROVE  /\ CollectorTypes /\ DiskInv /\ c \in [Procs -> Passes] /\ c[p] \in Passes
         /\ ListInv(c[p], Stored) /\ WorkInv(p) /\ c[p].todo # <<>>
         /\ Name(p) \in Names /\ Chunk(p) = Head(c[p].todo) /\ Name(p) = Head(c[p].todo).name
         /\ Chunk(p).size \in Nat /\ part[Name(p)] \in Seq(Cell)
         /\ \E f \in Files : NameOf[f] = Name(p) /\ CardOf[f] = c[p].card /\ Chunk(p).size \in {0, SizeOf[f]}
<1>1. /\ CollectorTypes /\ DiskInv /\ c \in [Procs -> Passes] /\ c[p] \in Passes
      /\ ListInv(c[p], Stored) /\ WorkInv(p) /\ c[p].todo # <<>>
  BY DEF CollectorInv, CollectorTypes, ListInv
<1>2. /\ Head(c[p].todo) = c[p].todo[1] /\ c[p].todo[1].name \in Names /\ c[p].todo[1].size \in Nat
      /\ \E f \in Files : /\ NameOf[f] = Head(c[p].todo).name /\ CardOf[f] = c[p].card
                          /\ Head(c[p].todo).size \in {0, SizeOf[f]}
  BY <1>1, ChunkAtWork
<1> QED BY <1>1, <1>2 DEF Name, Chunk, CollectorTypes

(* A chunk that is given up on, whatever it was at, changes no file.       *)
LEMMA LeaveKeeps ==
  ASSUME CollectorInv, NEW p \in Procs, c[p].pc \in OnChunk,
         UNCHANGED <<inserted, upl, disk, exposed, misled>>,
         NEW how \in {"defect", "transient"}, RecordFailure(p, how)
  PROVE  CollectorInv'
<1>0. CollectorTypes /\ DiskInv /\ c \in [Procs -> Passes] /\ ListInv(c[p], Stored)
  BY AtWork
<1>1. c' \in [Procs -> Passes] /\ c'[p].pc = "next" /\ ListInv(c'[p], Stored)
  BY <1>0, LeavesChunk
<1>2. CollectorTypes' /\ DiskInv' /\ Stored' = Stored
  BY <1>0, <1>1, DiskStays DEF CollectorTypes
<1>3. c'[p].pc \notin OnChunk
  BY <1>1 DEF OnChunk, Fetching
<1> QED BY <1>1, <1>2, <1>3, NoWork, OneCollector

(* A chunk that is tried again changes no file either.                     *)
LEMMA AgainKeeps ==
  ASSUME CollectorInv, NEW p \in Procs, c[p].pc \in OnChunk,
         UNCHANGED <<inserted, upl, disk, exposed, misled>>,
         NEW pc \in {"have", "fetch", "confirm"}, pc = c[p].pc \/ pc = "fetch", c[p].torn => pc = "confirm",
         Retry(p, pc)
  PROVE  CollectorInv'
<1>0. CollectorTypes /\ DiskInv /\ c \in [Procs -> Passes] /\ ListInv(c[p], Stored) /\ WorkInv(p)
  BY AtWork
<1>1. /\ c' \in [Procs -> Passes] /\ ListInv(c'[p], Stored)
      /\ \/ c'[p].pc = "next"
         \/ c'[p].pc = pc /\ c'[p].todo = c[p].todo /\ c'[p].proof = c[p].proof
  BY <1>0, AsksAgain
<1>2. CollectorTypes' /\ DiskInv' /\ Stored' = Stored
  BY <1>0, <1>1, DiskStays DEF CollectorTypes
<1>3. CASE c'[p].pc = "next"
  <2>1. c'[p].pc \notin OnChunk
    BY <1>3 DEF OnChunk, Fetching
  <2> QED BY <1>1, <1>2, <2>1, NoWork, OneCollector
<1>4. CASE c'[p].pc = pc /\ c'[p].todo = c[p].todo /\ c'[p].proof = c[p].proof
  <2>1. UNCHANGED <<final, part, meta, sidecar, misled>>
    BY DEF disk
  <2> DEFINE n == Head(c[p].todo).name
  <2>2. ChunkInv(c[p], part[n], final[n], sidecar[n], Seen(n), n \in misled)
    BY <1>0 DEF WorkInv, Name, Chunk
  <2>3. ChunkInv(c'[p], part[n], final[n], sidecar[n], Seen(n), n \in misled)
    <3> HIDE DEF n
    <3> QED BY <1>4, <2>2 DEF ChunkInv, Fetching
  <2>4. WorkInv(p)'
    BY <1>4, <2>1, <2>3 DEF WorkInv, Name, Chunk, Seen
  <2> QED BY <1>1, <1>2, <2>4, OneCollector
<1> QED BY <1>1, <1>3, <1>4

(* NextChunk: the next of the worklist, or the end of the pass and its     *)
(* status.                                                                 *)
LEMMA NextChunkKeeps ==
  ASSUME CollectorInv, NEW p \in Procs, NextChunk(p) PROVE CollectorInv'
<1>0. /\ CollectorTypes /\ DiskInv /\ c \in [Procs -> Passes] /\ c[p] \in Passes
      /\ ListInv(c[p], Stored) /\ c[p].pc = "next"
      /\ UNCHANGED <<inserted, upl, disk, exposed, misled>>
  BY DEF CollectorInv, CollectorTypes, NextChunk, At
<1>1. CASE c[p].todo = <<>>
  <2>1. EndPass(p, ExitStatus(c[p].failed)) /\ Listed(c[p]) /\ Len(c[p].todo) = 0
    BY <1>0, <1>1 DEF NextChunk, ListInv
  <2>2. c[p].failed = {} => c[p].listed \subseteq c[p].acked
    <3>1. 1..Len(c[p].todo) = {}
      BY <2>1
    <3> QED BY <2>1, <3>1 DEF Listed
  <2>3. /\ ExitStatus(c[p].failed) \in Nat
        /\ ExitStatus(c[p].failed) = 0 => c[p].failed = {}
        /\ ExitStatus(c[p].failed) = 75 => "defect" \notin c[p].failed
    BY DEF ExitStatus
  <2> QED BY <1>0, <2>1, <2>2, <2>3, EndKeeps
<1>2. CASE c[p].todo # <<>>
  <2> DEFINE n == Name(p)
             pc == IF final[n] # None THEN "have" ELSE "fetch"
  <2>1. Goto(p, pc)
    BY <1>0, <1>2 DEF NextChunk
  <2>2. pc \in OnChunk /\ c[p].pc # "download" /\ ~c[p].torn
    BY <1>0 DEF OnChunk, ListInv
  <2> HIDE DEF pc
  <2>3. /\ c' \in [Procs -> Passes] /\ ListInv(c'[p], Stored) /\ c'[p].pc = pc /\ c'[p].todo = c[p].todo
    BY <1>0, <1>2, <2>1, <2>2, GoesTo
  <2>4. CollectorTypes' /\ DiskInv' /\ Stored' = Stored
    BY <1>0, <2>3, DiskStays DEF CollectorTypes
  <2>5. ChunkInv(c'[p], part[n], final[n], sidecar[n], Seen(n), n \in misled)
    BY <2>3 DEF ChunkInv, Fetching, pc
  <2>6. WorkInv(p)'
    BY <1>0, <2>3, <2>5 DEF WorkInv, Name, Chunk, Seen, disk
  <2> QED BY <2>3, <2>4, <2>6, OneCollector
<1> QED BY <1>1, <1>2

(* A copy that is proved: it is the file the device serves.                *)
LEMMA AlreadyHaveKeeps ==
  ASSUME CollectorInv, NEW p \in Procs, AlreadyHave(p) PROVE CollectorInv'
<1> DEFINE n == Name(p)
           s == final[n]
<1>0. c[p].pc = "have" /\ c[p].pc \in OnChunk /\ UNCHANGED <<inserted, upl, disk, exposed, misled>>
  BY DEF AlreadyHave, At, OnChunk
<1>1. /\ CollectorTypes /\ DiskInv /\ c \in [Procs -> Passes] /\ c[p] \in Passes
      /\ ListInv(c[p], Stored) /\ WorkInv(p) /\ n \in Names /\ ~c[p].torn /\ c[p].dl = None
      /\ c[p].todo # <<>>
  BY <1>0, AtWork DEF ListInv
<1>2. CASE RecordFailure(p, "defect") \/ RecordFailure(p, "transient")
  BY <1>0, <1>2, LeaveKeeps
<1>3. CASE Retry(p, "have")
  BY <1>0, <1>1, <1>3, AgainKeeps
<1>4. CASE /\ Served(n) # None /\ ProveLocal(p, s)
           /\ Become(p, [c[p] EXCEPT !.pc = "confirm", !.att = 1, !.proof = Served(n)])
  <2> DEFINE f == Served(n)
             t == [c[p] EXCEPT !.pc = "confirm", !.att = 1, !.proof = f]
  <2>1. f \in Files /\ NameOf[f] = n
    BY <1>4, ServedFile
  <2> HIDE DEF f
  <2>2. "confirm" \in PassPcs /\ 1 \in Attempts /\ f \in Proofs /\ "confirm" \in OnChunk
    BY <2>1, CollectorAssumption DEF PassPcs, OnChunk, Attempts, Proofs
  <2>3. t \in Passes
    BY <1>1, <2>2 DEF Passes
  <2>4. /\ t.pc = "confirm" /\ t.todo = c[p].todo /\ t.listed = c[p].listed /\ t.acked = c[p].acked
        /\ t.failed = c[p].failed /\ t.card = c[p].card /\ t.dl = None /\ t.torn = c[p].torn /\ t.proof = f
    BY <1>1 DEF Passes
  <2>5. Become(p, t)
    BY <1>4 DEF f
  <2> HIDE DEF t
  <2>6. c' \in [Procs -> Passes] /\ c'[p] = t /\ ListInv(c'[p], Stored)
    BY <1>0, <1>1, <2>2, <2>3, <2>4, <2>5, MovesOn
  <2>7. CollectorTypes' /\ DiskInv' /\ Stored' = Stored
    BY <1>0, <1>1, <2>6, DiskStays DEF CollectorTypes
  <2>8. s # None
    BY <1>0, <1>1 DEF WorkInv, ChunkInv
  <2>9. n \in misled \/ s = Cells(f)
    <3> SUFFICES ASSUME n \notin misled PROVE s = Cells(f)
      OBVIOUS
    <3>1. PICK g \in Files : IsArchived(n, g, s, sidecar[n])
      BY <1>1, <2>8 DEF DiskInv, StoreInv
    <3>2. s = Cells(g) /\ s[1] = <<g, 1>>
      BY <3>1, FullLength DEF IsArchived
    <3>3. s[1] = <<f, 1>>
      BY <1>4 DEF ProveLocal, f
    <3> QED BY <3>2, <3>3
  <2>10. ChunkInv(t, part[n], final[n], sidecar[n], Seen(n), n \in misled)
    BY <2>1, <2>4, <2>8, <2>9 DEF ChunkInv, Fetching
  <2>11. WorkInv(p)'
    BY <1>0, <2>4, <2>6, <2>10 DEF WorkInv, Name, Chunk, Seen, disk
  <2> QED BY <2>6, <2>7, <2>11, OneCollector
<1> QED BY <1>2, <1>3, <1>4 DEF AlreadyHave, Http4xx

(* A partial that is thrown away.                                          *)
LEMMA DropKeeps ==
  ASSUME CollectorInv, NEW p \in Procs, c[p].pc \in OnChunk, Drop(Name(p)),
         UNCHANGED <<inserted, upl, final, sidecar, exposed, misled>>,
         DOMAIN meta' = Names, \A k \in Names : meta'[k] # None => meta'[k].seen \in 1..(TORN_MAX_SIGHTINGS - 1),
         \/ Retry(p, "fetch") /\ ~c[p].torn
         \/ RecordFailure(p, "defect")
  PROVE  CollectorInv'
<1>0. /\ CollectorTypes /\ DiskInv /\ c \in [Procs -> Passes] /\ ListInv(c[p], Stored) /\ Name(p) \in Names
  BY AtWork
<1>1. /\ c' \in [Procs -> Passes] /\ ListInv(c'[p], Stored) /\ c'[p].pc \in {"next", "fetch"}
  <2>1. CASE Retry(p, "fetch") /\ ~c[p].torn
    BY <1>0, <2>1, AsksAgain
  <2>2. CASE RecordFailure(p, "defect")
    BY <1>0, <2>2, LeavesChunk
  <2> QED BY <2>1, <2>2
<1>2. <<>> \in Seq(Cell) /\ part' = [part EXCEPT ![Name(p)] = <<>>]
  BY DEF Drop
<1>3. CollectorTypes' /\ DiskInv' /\ Stored' = Stored
  BY <1>0, <1>1, <1>2, PartStep
<1>4. WorkInv(p)'
  BY <1>1 DEF WorkInv, ChunkInv, Fetching
<1> QED BY <1>1, <1>3, <1>4, OneCollector

(* ProvePartial: a partial left by an earlier pass is checked against the  *)
(* device and continued, or dropped.                                       *)
LEMMA ProvePartialKeeps ==
  ASSUME CollectorInv, NEW p \in Procs, ProvePartial(p) PROVE CollectorInv'
<1> DEFINE n == Name(p)
           s == part[n]
<1>0. /\ c[p].pc = "fetch" /\ c[p].pc \in OnChunk /\ DOMAIN meta = Names
      /\ UNCHANGED <<inserted, upl, final, cand, meta, sidecar, exposed, misled>>
  BY DEF ProvePartial, At, OnChunk, CollectorInv, CollectorTypes
<1>1. /\ CollectorTypes /\ DiskInv /\ c \in [Procs -> Passes] /\ c[p] \in Passes
      /\ ListInv(c[p], Stored) /\ n \in Names /\ ~c[p].torn /\ c[p].dl = None
      /\ c[p].todo # <<>>
  BY <1>0, AtWork DEF ListInv
<1>2. CASE UNCHANGED part /\ (RecordFailure(p, "defect") \/ RecordFailure(p, "transient"))
  BY <1>0, <1>2, LeaveKeeps DEF disk
<1>3. CASE UNCHANGED part /\ Retry(p, "fetch")
  BY <1>0, <1>1, <1>3, AgainKeeps DEF disk
<1>4. CASE Drop(n) /\ Retry(p, "fetch")
  <2>1. \A k \in Names : meta'[k] # None => meta'[k].seen \in 1..(TORN_MAX_SIGHTINGS - 1)
    BY <1>0, <1>1 DEF CollectorTypes
  <2> QED BY <1>0, <1>1, <1>4, <2>1, DropKeeps
<1>5. ASSUME UNCHANGED part, NEW t \in Passes, Become(p, t), t.pc \in {"download", "verify"},
             t.todo = c[p].todo, t.listed = c[p].listed, t.acked = c[p].acked, t.failed = c[p].failed,
             t.card = c[p].card, t.dl = None, ~t.torn, t.pc = "verify" => s # <<>> /\ s[1] = <<t.proof, 1>>
      PROVE  CollectorInv'
  <2>1. t.pc \in OnChunk /\ UNCHANGED <<upl, disk, exposed, misled>> /\ inserted' \in Cards
    BY <1>0, <1>1, <1>5 DEF OnChunk, Fetching, disk, CollectorTypes
  <2>2. c' \in [Procs -> Passes] /\ c'[p] = t /\ ListInv(c'[p], Stored)
    BY <1>0, <1>1, <1>5, <2>1, MovesOn
  <2>3. CollectorTypes' /\ DiskInv' /\ Stored' = Stored
    BY <1>1, <2>1, <2>2, DiskStays
  <2>4. ChunkInv(t, part[n], final[n], sidecar[n], Seen(n), n \in misled)
    BY <1>5 DEF ChunkInv, Fetching
  <2>5. WorkInv(p)'
    BY <1>0, <1>5, <2>2, <2>4 DEF WorkInv, Name, Chunk, Seen
  <2> QED BY <2>2, <2>3, <2>5, OneCollector
<1>6. CASE UNCHANGED part /\ Become(p, [c[p] EXCEPT !.pc = "download"])
  <2> DEFINE t == [c[p] EXCEPT !.pc = "download"]
  <2>1. "download" \in PassPcs
    BY DEF PassPcs, OnChunk
  <2>2. /\ t \in Passes /\ t.pc = "download" /\ t.todo = c[p].todo /\ t.listed = c[p].listed
        /\ t.acked = c[p].acked /\ t.failed = c[p].failed /\ t.card = c[p].card /\ t.dl = None /\ ~t.torn
    BY <1>1, <2>1 DEF Passes
  <2>3. Become(p, t)
    BY <1>6
  <2> HIDE DEF t
  <2> QED BY <1>5, <1>6, <2>2, <2>3
<1>7. CASE /\ UNCHANGED part /\ s # <<>> /\ (Longer(p, s) \/ Served(n) # None) /\ ProveLocal(p, s)
           /\ Become(p, [c[p] EXCEPT !.pc = IF Len(s) = Chunk(p).size THEN "verify" ELSE "download",
                                     !.proof = Served(n)])
  <2> DEFINE pc == IF Len(s) = Chunk(p).size THEN "verify" ELSE "download"
             t == [c[p] EXCEPT !.pc = pc, !.proof = Served(n)]
  <2>1. s[1] = <<Served(n), 1>> /\ Served(n) \in Files
    BY <1>7, ServedFile DEF ProveLocal
  <2>2. pc \in PassPcs /\ Served(n) \in Proofs /\ pc \in {"download", "verify"}
    BY <2>1 DEF PassPcs, OnChunk, Fetching, Proofs
  <2> HIDE DEF pc
  <2>3. /\ t \in Passes /\ t.pc = pc /\ t.todo = c[p].todo /\ t.listed = c[p].listed
        /\ t.acked = c[p].acked /\ t.failed = c[p].failed /\ t.card = c[p].card /\ t.dl = None /\ ~t.torn
        /\ t.proof = Served(n)
    BY <1>1, <2>2 DEF Passes
  <2>4. Become(p, t)
    BY <1>7 DEF pc
  <2> HIDE DEF t
  <2> QED BY <1>5, <1>7, <2>1, <2>2, <2>3, <2>4
<1> QED BY <1>2, <1>3, <1>4, <1>6, <1>7 DEF ProvePartial, Http4xx

(* The response a download reads from continues what is held, or replaces  *)
(* it with its first byte.                                                 *)
LEMMA DownloadOpenKeeps ==
  ASSUME CollectorInv, NEW p \in Procs, DownloadOpen(p) PROVE CollectorInv'
<1> DEFINE n == Name(p)
           s == part[n]
           f == Served(n)
<1>0. /\ c[p].pc = "download" /\ c[p].pc \in OnChunk /\ DOMAIN meta = Names /\ c[p].dl = None
      /\ UNCHANGED <<inserted, upl, final, cand, meta, sidecar, exposed, misled>>
  BY DEF DownloadOpen, At, OnChunk, CollectorInv, CollectorTypes
<1>1. /\ CollectorTypes /\ DiskInv /\ c \in [Procs -> Passes] /\ c[p] \in Passes
      /\ ListInv(c[p], Stored) /\ n \in Names /\ ~c[p].torn /\ c[p].todo # <<>> /\ s \in Seq(Cell)
  BY <1>0, AtWork DEF ListInv
<1>2. CASE UNCHANGED part /\ (RecordFailure(p, "defect") \/ RecordFailure(p, "transient"))
  BY <1>0, <1>2, LeaveKeeps DEF disk
<1>3. CASE UNCHANGED part /\ Retry(p, "fetch")
  BY <1>0, <1>1, <1>3, AgainKeeps DEF disk
<1>4. CASE Drop(n) /\ Retry(p, "fetch")
  <2>1. \A k \in Names : meta'[k] # None => meta'[k].seen \in 1..(TORN_MAX_SIGHTINGS - 1)
    BY <1>0, <1>1 DEF CollectorTypes
  <2> QED BY <1>0, <1>1, <1>4, <2>1, DropKeeps
<1>5. ASSUME UNCHANGED part, f # None, NEW d, d \in [f : {f}, pos : Nat, whole : BOOLEAN],
             Become(p, [c[p] EXCEPT !.dl = d, !.proof = f]), Reading(d, n, s)
      PROVE  CollectorInv'
  <2> DEFINE t == [c[p] EXCEPT !.dl = d, !.proof = f]
  <2>0. f \in Files /\ NameOf[f] = n /\ d.f = f
    BY <1>5, ServedFile
  <2> HIDE DEF f
  <2>1. d \in Bodies /\ f \in Proofs
    BY <1>5, <2>0 DEF Bodies, Proofs
  <2>2. /\ t \in Passes /\ t.pc = "download" /\ t.todo = c[p].todo /\ t.listed = c[p].listed
        /\ t.acked = c[p].acked /\ t.failed = c[p].failed /\ t.card = c[p].card /\ t.dl = d /\ ~t.torn
        /\ t.proof = f
    BY <1>0, <1>1, <2>1 DEF Passes
  <2>3. t.pc \in OnChunk /\ UNCHANGED <<upl, disk, exposed, misled>> /\ inserted' \in Cards
    BY <1>0, <1>1, <1>5, <2>2 DEF OnChunk, disk, CollectorTypes
  <2>4. Become(p, t)
    BY <1>5
  <2> HIDE DEF t
  <2>5. c' \in [Procs -> Passes] /\ c'[p] = t /\ ListInv(c'[p], Stored)
    BY <1>0, <1>1, <2>2, <2>3, <2>4, MovesOn
  <2>6. CollectorTypes' /\ DiskInv' /\ Stored' = Stored
    BY <1>1, <2>3, <2>5, DiskStays
  <2>7. ChunkInv(t, part[n], final[n], sidecar[n], Seen(n), n \in misled)
    <3>1. Head(t.todo).name = n
      BY <2>2 DEF Name, Chunk
    <3> QED BY <1>5, <2>0, <2>2, <3>1 DEF ChunkInv, Fetching
  <2>8. WorkInv(p)'
    BY <1>0, <1>5, <2>2, <2>5, <2>7 DEF WorkInv, Name, Chunk, Seen
  <2> QED BY <2>5, <2>6, <2>8, OneCollector
<1>6. CASE /\ UNCHANGED part /\ f # None /\ s # <<>> /\ ~(Len(s) > SizeOf[f]) /\ SeamAgrees(s, f)
           /\ Become(p, [c[p] EXCEPT !.dl = [f |-> f, pos |-> Len(s) + 1, whole |-> FALSE], !.proof = f])
  <2> DEFINE d == [f |-> f, pos |-> Len(s) + 1, whole |-> FALSE]
  <2>1. f \in Files /\ NameOf[f] = n /\ SizeOf[f] \in Nat
    BY <1>6, ServedFile, CollectorAssumption
  <2>2. PICK g \in Files : NameOf[g] = n /\ Opening(s, g)
    BY <1>1, <1>6 DEF DiskInv, PartInv
  <2>3. Len(s) \in Nat \ {0} /\ s[Len(s)] = <<g, Len(s)>>
    BY <1>6, <2>2, FirstCell
  <2>4. f = g
    BY <1>6, <2>3 DEF SeamAgrees, Seam
  <2>5. d \in [f : {f}, pos : Nat, whole : BOOLEAN] /\ d.f = f /\ d.pos = Len(s) + 1 /\ ~d.whole
    BY <2>3
  <2>6. Become(p, [c[p] EXCEPT !.dl = d, !.proof = f])
    BY <1>6
  <2> HIDE DEF d, f
  <2>7. Reading(d, n, s)
    BY <1>6, <2>1, <2>2, <2>3, <2>4, <2>5 DEF Reading
  <2> QED BY <1>5, <1>6, <2>5, <2>6, <2>7 DEF f
<1>7. CASE /\ UNCHANGED part /\ f # None
           /\ Become(p, [c[p] EXCEPT !.dl = [f |-> f, pos |-> 1, whole |-> s # <<>>], !.proof = f])
  <2> DEFINE d == [f |-> f, pos |-> 1, whole |-> s # <<>>]
  <2>1. f \in Files /\ NameOf[f] = n /\ SizeOf[f] \in Nat \ {0}
    BY <1>7, ServedFile, CollectorAssumption
  <2>2. d \in [f : {f}, pos : Nat, whole : BOOLEAN] /\ d.f = f /\ d.pos = 1 /\ (d.whole <=> s # <<>>)
    OBVIOUS
  <2>3. Become(p, [c[p] EXCEPT !.dl = d, !.proof = f])
    BY <1>7
  <2>4. s = <<>> => Opening(s, f) /\ Len(s) = 0
    BY <1>1, <2>1 DEF Opening
  <2> HIDE DEF d, f
  <2>5. Reading(d, n, s)
    BY <2>1, <2>2, <2>4 DEF Reading
  <2> QED BY <1>5, <1>7, <2>2, <2>3, <2>5 DEF f
<1> QED BY <1>2, <1>3, <1>4, <1>6, <1>7 DEF DownloadOpen, Http4xx

(* The download moves on by one block.                                     *)
LEMMA NextBlock ==
  ASSUME NEW b \in [f : Files, pos : Nat, whole : BOOLEAN]
  PROVE  LET next == [b EXCEPT !.pos = @ + 1, !.whole = FALSE]
         IN  next \in Bodies /\ next.f = b.f /\ next.pos = b.pos + 1 /\ ~next.whole
<1> DEFINE next == [b EXCEPT !.pos = @ + 1, !.whole = FALSE]
<1> DEFINE q == b.pos + 1
<1>1. q \in Nat /\ next = [b EXCEPT !.pos = q, !.whole = FALSE]
  OBVIOUS
<1> HIDE DEF q, next
<1>2. next \in [f : Files, pos : Nat, whole : BOOLEAN]
  BY <1>1
<1>3. next.f = b.f /\ next.pos = q
  BY <1>1
<1>4. ~next.whole
  BY <1>1
<1> QED BY <1>2, <1>3, <1>4 DEF Bodies, q, next

(* DownloadBlock: one more block of the body is appended to the partial.   *)
LEMMA DownloadBlockKeeps ==
  ASSUME CollectorInv, NEW p \in Procs, DownloadBlock(p) PROVE CollectorInv'
<1> DEFINE n == Name(p)
           s == part[n]
           d == c[p].dl
           base == IF d.whole THEN <<>> ELSE s
           body == base \o <<<<d.f, d.pos>>>>
           next == [d EXCEPT !.pos = @ + 1, !.whole = FALSE]
           t == [c[p] EXCEPT !.dl = next]
<1>0. /\ c[p].pc = "download" /\ c[p].pc \in OnChunk /\ d # None /\ d.pos <= SizeOf[d.f]
      /\ part' = [part EXCEPT ![n] = body] /\ Become(p, t)
      /\ UNCHANGED <<inserted, upl, final, cand, meta, sidecar, exposed, misled>>
  BY DEF DownloadBlock, At, OnChunk
<1>1. /\ CollectorTypes /\ DiskInv /\ c \in [Procs -> Passes] /\ c[p] \in Passes /\ WorkInv(p)
      /\ ListInv(c[p], Stored) /\ n \in Names /\ ~c[p].torn /\ c[p].todo # <<>> /\ s \in Seq(Cell)
      /\ n = Head(c[p].todo).name
  BY <1>0, AtWork DEF ListInv
<1>2. Reading(d, n, s) /\ c[p].proof = d.f
  BY <1>0, <1>1 DEF WorkInv, ChunkInv
<1>3. d \in [f : Files, pos : Nat, whole : BOOLEAN] /\ d.f \in Files /\ d.pos \in Nat
  <2>1. d \in Bodies
    BY <1>1 DEF Passes
  <2> QED BY <1>0, <2>1 DEF Bodies
<1>4. SizeOf[d.f] \in Nat /\ NameOf[d.f] = n
  BY <1>2, <1>3, CollectorAssumption DEF Reading
<1>5. Opening(base, d.f) /\ Len(base) = d.pos - 1
  <2>1. CASE d.whole
    <3>1. base = <<>> /\ d.pos = 1
      BY <1>2, <2>1 DEF Reading
    <3> HIDE DEF base
    <3>2. base \in Seq(Cell) /\ Len(base) = 0 /\ d.pos - 1 = 0
      BY <3>1
    <3> QED BY <1>4, <3>2 DEF Opening
  <2>2. CASE ~d.whole
    <3>1. base = s /\ Opening(s, d.f) /\ Len(s) = d.pos - 1
      BY <1>2, <2>2 DEF Reading
    <3> QED BY <3>1
  <2> QED BY <2>1, <2>2
<1> HIDE DEF base
<1>6. Opening(body, d.f) /\ Len(body) = d.pos /\ body # <<>> /\ body \in Seq(Cell)
  <2>1. Len(base) < SizeOf[d.f] /\ Len(base) + 1 = d.pos
    BY <1>0, <1>3, <1>4, <1>5
  <2>2. Opening(body, d.f) /\ Len(body) = d.pos /\ body # <<>>
    BY <1>3, <1>5, <2>1, LongerFront
  <2> QED BY <2>2 DEF Opening
<1> HIDE DEF body
<1>7. next \in Bodies /\ next.f = d.f /\ next.pos = d.pos + 1 /\ ~next.whole
  BY <1>3, NextBlock
<1>8. Reading(next, n, body)
  BY <1>0, <1>3, <1>4, <1>6, <1>7 DEF Reading
<1> HIDE DEF next
<1>9. /\ t \in Passes /\ t.pc = "download" /\ t.todo = c[p].todo /\ t.listed = c[p].listed
      /\ t.acked = c[p].acked /\ t.failed = c[p].failed /\ t.card = c[p].card /\ t.dl = next /\ ~t.torn
      /\ t.proof = c[p].proof
  BY <1>0, <1>1, <1>7 DEF Passes
<1>10. Become(p, t) /\ t.pc \in OnChunk
  BY <1>0, <1>9 DEF OnChunk
<1> HIDE DEF t
<1>11. c' \in [Procs -> Passes] /\ c'[p] = t /\ ListInv(c'[p], Stored)
  BY <1>0, <1>1, <1>9, <1>10, MovesOn
<1>12. CollectorTypes' /\ DiskInv' /\ Stored' = Stored /\ part'[n] = body
  <2>1. DOMAIN meta' = Names /\ \A k \in Names : meta'[k] # None => meta'[k].seen \in 1..(TORN_MAX_SIGHTINGS - 1)
    BY <1>0, <1>1 DEF CollectorTypes
  <2> QED BY <1>0, <1>1, <1>3, <1>4, <1>6, <1>11, <2>1, PartStep
<1>13. ChunkInv(t, body, final[n], sidecar[n], Seen(n), n \in misled)
  BY <1>1, <1>2, <1>7, <1>8, <1>9 DEF ChunkInv, Fetching
<1>14. WorkInv(p)'
  BY <1>0, <1>1, <1>9, <1>11, <1>12, <1>13 DEF WorkInv, Name, Chunk, Seen
<1> QED BY <1>11, <1>12, <1>14, OneCollector

(* DownloadEnd: the body ends, whole or cut short.                         *)
LEMMA DownloadEndKeeps ==
  ASSUME CollectorInv, NEW p \in Procs, DownloadEnd(p) PROVE CollectorInv'
<1> DEFINE n == Name(p)
           s == part[n]
           d == c[p].dl
           t == [c[p] EXCEPT !.pc = "verify", !.dl = None]
<1>0. /\ c[p].pc = "download" /\ c[p].pc \in OnChunk /\ d # None
      /\ UNCHANGED <<inserted, upl, disk, exposed, misled>>
  BY DEF DownloadEnd, At, OnChunk
<1>1. /\ CollectorTypes /\ DiskInv /\ c \in [Procs -> Passes] /\ c[p] \in Passes /\ WorkInv(p)
      /\ ListInv(c[p], Stored) /\ n \in Names /\ ~c[p].torn /\ c[p].todo # <<>>
      /\ n = Head(c[p].todo).name
  BY <1>0, AtWork DEF ListInv
<1>2. CASE d.pos > SizeOf[d.f] /\ Become(p, t)
  <2>1. Reading(d, n, s) /\ c[p].proof = d.f
    BY <1>0, <1>1 DEF WorkInv, ChunkInv
  <2>2. d.f \in Files /\ d.pos \in Nat /\ SizeOf[d.f] \in Nat \ {0}
    <3>1. d \in Bodies
      BY <1>1 DEF Passes
    <3>2. d.f \in Files /\ d.pos \in Nat
      BY <1>0, <3>1 DEF Bodies
    <3> QED BY <3>2, CollectorAssumption
  <2>3. Opening(s, d.f) /\ Len(s) = SizeOf[d.f]
    BY <1>2, <2>1, <2>2 DEF Reading
  <2>4. s # <<>> /\ s[1] = <<d.f, 1>>
    <3>1. s # <<>>
      BY <2>2, <2>3
    <3> QED BY <2>2, <2>3, <3>1, FirstCell
  <2>5. "verify" \in PassPcs /\ None \in Bodies /\ "verify" \in OnChunk
    BY DEF PassPcs, OnChunk, Fetching, Bodies
  <2>6. /\ t \in Passes /\ t.pc = "verify" /\ t.todo = c[p].todo /\ t.listed = c[p].listed
        /\ t.acked = c[p].acked /\ t.failed = c[p].failed /\ t.card = c[p].card /\ t.dl = None /\ ~t.torn
        /\ t.proof = c[p].proof
    BY <1>1, <2>5 DEF Passes
  <2> HIDE DEF t
  <2>7. c' \in [Procs -> Passes] /\ c'[p] = t /\ ListInv(c'[p], Stored)
    BY <1>0, <1>1, <1>2, <2>5, <2>6, MovesOn
  <2>8. CollectorTypes' /\ DiskInv' /\ Stored' = Stored
    BY <1>0, <1>1, <2>7, DiskStays DEF CollectorTypes
  <2>9. ChunkInv(t, part[n], final[n], sidecar[n], Seen(n), n \in misled)
    BY <2>1, <2>4, <2>6 DEF ChunkInv, Fetching
  <2>10. WorkInv(p)'
    BY <1>0, <1>1, <2>6, <2>7, <2>9 DEF WorkInv, Name, Chunk, Seen, disk
  <2> QED BY <2>7, <2>8, <2>10, OneCollector
<1>3. CASE Retry(p, "fetch")
  BY <1>0, <1>1, <1>3, AgainKeeps
<1> QED BY <1>2, <1>3 DEF DownloadEnd

(* Verify: the partial is parsed, and is stored, dropped or looked at as   *)
(* torn.                                                                   *)
LEMMA VerifyKeeps ==
  ASSUME CollectorInv, NEW p \in Procs, Verify(p) PROVE CollectorInv'
<1> DEFINE n == Name(p)
           s == part[n]
<1>0. /\ c[p].pc = "verify" /\ c[p].pc \in OnChunk
      /\ UNCHANGED <<inserted, upl, final, cand, meta, sidecar, exposed, misled>>
  BY DEF Verify, At, OnChunk, Fetching
<1>1. /\ CollectorTypes /\ DiskInv /\ c \in [Procs -> Passes] /\ c[p] \in Passes /\ WorkInv(p)
      /\ ListInv(c[p], Stored) /\ n \in Names /\ ~c[p].torn /\ c[p].todo # <<>>
      /\ n = Head(c[p].todo).name /\ Chunk(p) = Head(c[p].todo)
  BY <1>0, AtWork DEF ListInv
<1>2. s # <<>> /\ s[1] = <<c[p].proof, 1>>
  BY <1>0, <1>1 DEF WorkInv, ChunkInv, Fetching
<1>3. CASE UNCHANGED part /\ RecordFailure(p, "transient")
  BY <1>0, <1>3, LeaveKeeps DEF disk
<1>4. CASE Drop(n) /\ RecordFailure(p, "defect")
  <2>1. DOMAIN meta' = Names /\ \A k \in Names : meta'[k] # None => meta'[k].seen \in 1..(TORN_MAX_SIGHTINGS - 1)
    BY <1>0, <1>1 DEF CollectorTypes
  <2> QED BY <1>0, <1>4, <2>1, DropKeeps
<1>5. ASSUME UNCHANGED part, NEW pc \in {"sight", "store"}, Goto(p, pc),
             pc = "sight" => IsTorn(s) /\ Chunk(p).size = Len(s), pc = "store" => ReadReport(s) = "whole"
      PROVE  CollectorInv'
  <2>1. pc \in OnChunk /\ UNCHANGED <<upl, disk, exposed, misled>> /\ inserted' \in Cards
    BY <1>0, <1>1, <1>5 DEF OnChunk, Fetching, disk, CollectorTypes
  <2>2. /\ c' \in [Procs -> Passes] /\ ListInv(c'[p], Stored)
        /\ c'[p].pc = pc /\ c'[p].todo = c[p].todo /\ c'[p].dl = None /\ ~c'[p].torn
        /\ c'[p].proof = c[p].proof
    BY <1>0, <1>1, <1>5, <2>1, GoesTo
  <2>3. CollectorTypes' /\ DiskInv' /\ Stored' = Stored
    BY <1>1, <2>1, <2>2, DiskStays
  <2>4. ChunkInv(c'[p], part[n], final[n], sidecar[n], Seen(n), n \in misled)
    BY <1>1, <1>2, <1>5, <2>2 DEF ChunkInv, Fetching, TornBody
  <2>5. WorkInv(p)'
    BY <1>0, <1>1, <1>5, <2>2, <2>4 DEF WorkInv, Name, Chunk, Seen
  <2> QED BY <2>2, <2>3, <2>5, OneCollector
<1>6. \/ UNCHANGED part /\ RecordFailure(p, "transient")
      \/ UNCHANGED part /\ Goto(p, "sight") /\ IsTorn(s) /\ Chunk(p).size = Len(s)
      \/ Drop(n) /\ RecordFailure(p, "defect")
      \/ UNCHANGED part /\ Goto(p, "store") /\ ReadReport(s) = "whole"
  <2>1. ReadReport(s) \in {"bad", "whole", "torn"}
    BY DEF ReadReport
  <2>2. CASE IsTorn(s) /\ Chunk(p).size # Len(s)
    BY <2>2 DEF Verify, IsTorn
  <2>3. CASE IsTorn(s) /\ Chunk(p).size = Len(s)
    BY <2>3 DEF Verify, IsTorn
  <2>4. CASE ReadReport(s) = "bad"
    BY <2>4 DEF Verify, IsTorn
  <2>5. CASE ReadReport(s) = "whole"
    BY <2>5 DEF Verify, IsTorn
  <2> QED BY <2>1, <2>2, <2>3, <2>4, <2>5 DEF IsTorn
<1> QED BY <1>3, <1>4, <1>5, <1>6

(* TornSighting: a torn chunk is counted until it was seen the same often  *)
(* enough.                                                                 *)
LEMMA TornSightingKeeps ==
  ASSUME CollectorInv, NEW p \in Procs, TornSighting(p) PROVE CollectorInv'
<1> DEFINE n == Name(p)
           s == part[n]
<1>0. /\ c[p].pc = "sight" /\ c[p].pc \in OnChunk
      /\ UNCHANGED <<inserted, upl, final, sidecar, exposed, misled>>
  BY DEF TornSighting, At, OnChunk, Fetching
<1>1. /\ CollectorTypes /\ DiskInv /\ c \in [Procs -> Passes] /\ c[p] \in Passes /\ WorkInv(p)
      /\ ListInv(c[p], Stored) /\ n \in Names /\ ~c[p].torn /\ c[p].todo # <<>> /\ c[p].dl = None
      /\ n = Head(c[p].todo).name /\ Chunk(p) = Head(c[p].todo)
  BY <1>0, AtWork DEF ListInv
<1>2. s # <<>> /\ s[1] = <<c[p].proof, 1>> /\ TornBody(c[p], s)
  BY <1>0, <1>1 DEF WorkInv, ChunkInv, Fetching
<1>3. DOMAIN meta = Names /\ \A k \in Names : meta[k] # None => meta[k].seen \in 1..(TORN_MAX_SIGHTINGS - 1)
  BY <1>1 DEF CollectorTypes
<1>4. CASE Drop(n) /\ meta' = [meta EXCEPT ![n] = None] /\ RecordFailure(p, "defect")
  <2>1. DOMAIN meta' = Names /\ \A k \in Names : meta'[k] # None => meta'[k].seen \in 1..(TORN_MAX_SIGHTINGS - 1)
    BY <1>3, <1>4
  <2> QED BY <1>0, <1>4, <2>1, DropKeeps
<1>5. CASE /\ ~Hopeless(n) /\ Become(p, [c[p] EXCEPT !.pc = "store", !.torn = TRUE])
           /\ UNCHANGED <<part, cand, meta>>
  <2> DEFINE t == [c[p] EXCEPT !.pc = "store", !.torn = TRUE]
  <2>1. "store" \in PassPcs /\ "store" \in OnChunk
    BY DEF PassPcs, OnChunk, Fetching
  <2>2. /\ t \in Passes /\ t.pc = "store" /\ t.todo = c[p].todo /\ t.listed = c[p].listed
        /\ t.acked = c[p].acked /\ t.failed = c[p].failed /\ t.card = c[p].card /\ t.dl = None /\ t.torn
        /\ t.proof = c[p].proof
    BY <1>1, <2>1 DEF Passes
  <2>3. Become(p, t)
    BY <1>5
  <2> HIDE DEF t
  <2>4. c' \in [Procs -> Passes] /\ c'[p] = t /\ ListInv(c'[p], Stored)
    BY <1>0, <1>1, <2>1, <2>2, <2>3, MovesOn
  <2>5. CollectorTypes' /\ DiskInv' /\ Stored' = Stored
    BY <1>0, <1>1, <1>5, <2>4, DiskStays DEF CollectorTypes, disk
  <2>6. KindOf[s[1][1]] # "foreign" /\ TornBody(t, s)
    BY <1>2, <1>5, <2>2 DEF Hopeless, TornBody
  <2>7. ChunkInv(t, part[n], final[n], sidecar[n], Seen(n), n \in misled)
    BY <1>2, <2>2, <2>6 DEF ChunkInv, Fetching
  <2>8. WorkInv(p)'
    BY <1>0, <1>1, <1>5, <2>2, <2>4, <2>7 DEF WorkInv, Name, Chunk, Seen
  <2> QED BY <2>4, <2>5, <2>8, OneCollector
<1>6. CASE /\ ~Hopeless(n) /\ ~Equal(n) /\ Drop(n) /\ Become(p, [c[p] EXCEPT !.pc = "keep"]) /\ UNCHANGED meta
  <2> DEFINE t == [c[p] EXCEPT !.pc = "keep"]
  <2>1. "keep" \in PassPcs /\ "keep" \in OnChunk
    BY DEF PassPcs, OnChunk
  <2>2. /\ t \in Passes /\ t.pc = "keep" /\ t.todo = c[p].todo /\ t.listed = c[p].listed
        /\ t.acked = c[p].acked /\ t.failed = c[p].failed /\ t.card = c[p].card /\ t.dl = None /\ ~t.torn
    BY <1>1, <2>1 DEF Passes
  <2>3. Become(p, t)
    BY <1>6
  <2> HIDE DEF t
  <2>4. c' \in [Procs -> Passes] /\ c'[p] = t /\ ListInv(c'[p], Stored)
    BY <1>0, <1>1, <2>1, <2>2, <2>3, MovesOn
  <2>5. <<>> \in Seq(Cell) /\ part' = [part EXCEPT ![n] = <<>>] /\ meta' = meta
    BY <1>6 DEF Drop
  <2>6. CollectorTypes' /\ DiskInv' /\ Stored' = Stored
    BY <1>0, <1>1, <1>3, <2>4, <2>5, PartStep
  <2>7. Seen(n) < TORN_MAX_SIGHTINGS
    <3>1. Seen(n) \in Nat
      BY <1>1, <1>3 DEF Seen
    <3> QED BY <1>6, <3>1 DEF Hopeless, TORN_MAX_SIGHTINGS
  <2>8. WorkInv(p)'
    <3>1. Name(p)' = n /\ Seen(n)' = Seen(n)
      BY <1>1, <2>2, <2>4, <2>5 DEF Name, Chunk, Seen
    <3> QED BY <2>2, <2>4, <2>7, <3>1 DEF WorkInv, ChunkInv, Fetching
  <2> QED BY <2>4, <2>6, <2>8, OneCollector
<1> QED BY <1>4, <1>5, <1>6 DEF TornSighting

(* KeepCandidate: the torn body is put aside as the one to compare with.   *)
LEMMA KeepCandidateKeeps ==
  ASSUME CollectorInv, NEW p \in Procs, KeepCandidate(p) PROVE CollectorInv'
<1> DEFINE n == Name(p)
<1>0. /\ c[p].pc = "keep" /\ c[p].pc \in OnChunk
      /\ UNCHANGED <<inserted, upl, final, part, cand, sidecar, exposed, misled>>
      /\ meta' = [meta EXCEPT ![n] = [of |-> cand[n], seen |-> Seen(n)]]
      /\ RecordFailure(p, "transient")
  BY DEF KeepCandidate, At, OnChunk
<1>1. /\ CollectorTypes /\ DiskInv /\ c \in [Procs -> Passes] /\ WorkInv(p)
      /\ ListInv(c[p], Stored) /\ n \in Names
  BY <1>0, AtWork
<1>2. Seen(n) \in 1..(TORN_MAX_SIGHTINGS - 1)
  <2>1. Seen(n) < TORN_MAX_SIGHTINGS
    BY <1>0, <1>1 DEF WorkInv, ChunkInv
  <2>2. Seen(n) \in Nat \ {0}
    BY <1>1 DEF Seen, CollectorTypes
  <2> QED BY <2>1, <2>2 DEF TORN_MAX_SIGHTINGS
<1>3. /\ DOMAIN meta' = Names
      /\ \A k \in Names : meta'[k] # None => meta'[k].seen \in 1..(TORN_MAX_SIGHTINGS - 1)
  <2>1. DOMAIN meta = Names /\ \A k \in Names : meta[k] # None => meta[k].seen \in 1..(TORN_MAX_SIGHTINGS - 1)
    BY <1>1 DEF CollectorTypes
  <2> DEFINE m == [of |-> cand[n], seen |-> Seen(n)]
  <2>2. m.seen \in 1..(TORN_MAX_SIGHTINGS - 1) /\ meta' = [meta EXCEPT ![n] = m]
    BY <1>0, <1>2
  <2> HIDE DEF m
  <2> QED BY <2>1, <2>2
<1>4. c' \in [Procs -> Passes] /\ c'[p].pc = "next" /\ ListInv(c'[p], Stored)
  BY <1>0, <1>1, LeavesChunk
<1>5. CollectorTypes' /\ DiskInv' /\ Stored' = Stored
  <2>1. CollectorTypes'
    BY <1>0, <1>1, <1>3, <1>4 DEF CollectorTypes
  <2>2. PartInv' /\ StoreInv' /\ UplInv' /\ Stored' = Stored
    BY <1>0, <1>1 DEF DiskInv, PartInv, StoreInv, UplInv, Stored
  <2> QED BY <2>1, <2>2 DEF DiskInv
<1>6. c'[p].pc \notin OnChunk
  BY <1>4 DEF OnChunk, Fetching
<1> QED BY <1>4, <1>5, <1>6, NoWork, OneCollector

(* The sidecar is written while nothing carries the final name.            *)
LEMMA StoreKeeps ==
  ASSUME CollectorInv, NEW p \in Procs, Store(p) PROVE CollectorInv'
<1> DEFINE n == Name(p)
           s == part[n]
<1>0. /\ c[p].pc = "store" /\ c[p].pc \in OnChunk
      /\ UNCHANGED <<inserted, upl, final, part, cand, meta, exposed, misled>>
  BY DEF Store, At, OnChunk, Fetching
<1>1. /\ CollectorTypes /\ DiskInv /\ c \in [Procs -> Passes] /\ c[p] \in Passes /\ WorkInv(p)
      /\ ListInv(c[p], Stored) /\ n \in Names /\ c[p].todo # <<>> /\ c[p].dl = None
      /\ n = Head(c[p].todo).name /\ Chunk(p) = Head(c[p].todo)
  BY <1>0, AtWork DEF ListInv
<1>2. CASE RecordFailure(p, "defect") /\ UNCHANGED sidecar
  BY <1>0, <1>2, LeaveKeeps DEF disk
<1>3. CASE /\ final[n] = None /\ Become(p, [c[p] EXCEPT !.pc = "rename"])
           /\ sidecar' = IF c[p].torn THEN [sidecar EXCEPT ![n] = part[n]] ELSE sidecar
  <2> DEFINE t == [c[p] EXCEPT !.pc = "rename"]
  <2>1. "rename" \in PassPcs /\ "rename" \in OnChunk
    BY DEF PassPcs, OnChunk, Fetching
  <2>2. /\ t \in Passes /\ t.pc = "rename" /\ t.todo = c[p].todo /\ t.listed = c[p].listed
        /\ t.acked = c[p].acked /\ t.failed = c[p].failed /\ t.card = c[p].card /\ t.dl = None
        /\ t.torn = c[p].torn /\ t.proof = c[p].proof
    BY <1>1, <2>1 DEF Passes
  <2>3. Become(p, t)
    BY <1>3
  <2> HIDE DEF t
  <2>4. c' \in [Procs -> Passes] /\ c'[p] = t /\ ListInv(c'[p], Stored)
    BY <1>0, <1>1, <2>1, <2>2, <2>3, MovesOn
  <2>5. /\ DOMAIN sidecar' = Names /\ (c[p].torn => sidecar'[n] = s)
        /\ \A k \in Names : k # n => sidecar'[k] = sidecar[k]
    BY <1>1, <1>3 DEF CollectorTypes
  <2>6. CollectorTypes'
    BY <1>0, <1>1, <2>4, <2>5 DEF CollectorTypes
  <2>7. StoreInv'
    <3>1. StoreInv
      BY <1>1 DEF DiskInv
    <3>2. ASSUME NEW k \in Names, final'[k] # None, k \notin misled'
          PROVE  \E f \in Files : IsArchived(k, f, final'[k], sidecar'[k])
      <4>1. k # n /\ sidecar'[k] = sidecar[k] /\ final'[k] = final[k] /\ k \notin misled
        BY <1>0, <1>3, <2>5, <3>2
      <4> QED BY <3>1, <3>2, <4>1 DEF StoreInv
    <3> QED BY <3>2 DEF StoreInv
  <2>8. PartInv' /\ UplInv' /\ Stored' = Stored
    BY <1>0, <1>1 DEF DiskInv, PartInv, UplInv, Stored
  <2>9. ChunkInv(c[p], s, final[n], sidecar[n], Seen(n), n \in misled)
    BY <1>1 DEF WorkInv
  <2>10. ChunkInv(t, s, final[n], sidecar'[n], Seen(n), n \in misled)
    BY <1>0, <1>3, <2>2, <2>5, <2>9 DEF ChunkInv, Fetching, TornBody
  <2>11. WorkInv(p)'
    BY <1>0, <1>1, <2>2, <2>4, <2>10 DEF WorkInv, Name, Chunk, Seen
  <2> QED BY <2>4, <2>6, <2>7, <2>8, <2>11, OneCollector DEF DiskInv
<1> QED BY <1>2, <1>3 DEF Store

(* What is renamed is one whole file, unless it was measured by the index  *)
(* of another card.                                                        *)
LEMMA RenameKeeps ==
  ASSUME CollectorInv, NEW p \in Procs, Rename(p) PROVE CollectorInv'
<1> DEFINE n == Name(p)
           s == part[n]
           r == c[p]
<1>0. /\ r.pc = "rename" /\ r.pc \in OnChunk /\ s # <<>>
      /\ final' = [final EXCEPT ![n] = s] /\ part' = [part EXCEPT ![n] = <<>>] /\ Goto(p, "confirm")
      /\ meta' = [meta EXCEPT ![n] = None] \/ UNCHANGED meta
      /\ misled' = IF r.torn /\ CardOf[s[1][1]] # r.card THEN misled \cup {n} ELSE misled
      /\ UNCHANGED <<inserted, upl, sidecar, exposed>>
  BY DEF Rename, Drop, At, OnChunk, Fetching
<1>1. /\ CollectorTypes /\ DiskInv /\ c \in [Procs -> Passes] /\ r \in Passes /\ WorkInv(p)
      /\ ListInv(r, Stored) /\ n \in Names /\ r.todo # <<>> /\ r.dl = None /\ s \in Seq(Cell)
      /\ n = Head(r.todo).name /\ Chunk(p) = Head(r.todo)
      /\ \E f \in Files : NameOf[f] = n /\ CardOf[f] = r.card /\ Head(r.todo).size \in {0, SizeOf[f]}
  BY <1>0, AtWork DEF ListInv
<1>2. /\ s[1] = <<r.proof, 1>> /\ final[n] = None /\ (r.torn => sidecar[n] = s)
      /\ IF r.torn THEN TornBody(r, s) /\ KindOf[s[1][1]] # "foreign" ELSE ReadReport(s) = "whole"
  BY <1>0, <1>1 DEF WorkInv, ChunkInv, Fetching
<1>3. PICK g \in Files : NameOf[g] = n /\ Opening(s, g)
  BY <1>0, <1>1 DEF DiskInv, PartInv
<1>4. /\ s[1][1] = g /\ Len(s) \in Nat \ {0} /\ r.proof = g
  <2>1. s[1] = <<g, 1>> /\ s[1][1] = g /\ Len(s) \in Nat \ {0}
    BY <1>0, <1>3, FirstCell
  <2> QED BY <1>2, <2>1
<1>5. n \in misled' \/ (s = Cells(g) /\ IsArchived(n, g, s, sidecar[n]))
  <2>1. CASE ~r.torn
    <3>1. KindOf[g] = "whole" /\ s = Cells(g)
      BY <1>0, <1>2, <1>3, <2>1, ReportOfFront
    <3> QED BY <1>3, <3>1 DEF IsArchived
  <2>2. CASE r.torn /\ CardOf[g] # r.card
    BY <1>0, <1>4, <2>2
  <2>3. CASE r.torn /\ CardOf[g] = r.card
    <3>1. Head(r.todo).size \in {0, SizeOf[g]}
      BY <1>1, <1>3, <2>3, CollectorAssumption
    <3>2. Len(s) = SizeOf[g] /\ IsTorn(s)
      BY <1>2, <1>4, <2>3, <3>1 DEF TornBody
    <3>3. KindOf[g] = "torn" /\ s = Cells(g)
      BY <1>0, <1>2, <1>3, <1>4, <2>3, <3>2, ReportOfFront
    <3> QED BY <1>2, <1>3, <2>3, <3>3 DEF IsArchived
  <2> QED BY <2>1, <2>2, <2>3
<1>6. /\ final' \in [Names -> Seq(Cell) \cup {None}] /\ final'[n] = s /\ s # None
      /\ \A k \in Names : k # n => final'[k] = final[k]
      /\ part' \in [Names -> Seq(Cell)] /\ part'[n] = <<>> /\ \A k \in Names : k # n => part'[k] = part[k]
      /\ misled \subseteq misled'
  <2>1. s # None
    BY <1>1, CollectorAssumption DEF Cell
  <2>2. /\ final \in [Names -> Seq(Cell) \cup {None}] /\ part \in [Names -> Seq(Cell)]
        /\ n \in Names /\ s \in Seq(Cell) /\ final' = [final EXCEPT ![n] = s] /\ part' = [part EXCEPT ![n] = <<>>]
    BY <1>0, <1>1 DEF CollectorTypes
  <2>3. misled \subseteq misled'
    BY <1>0
  <2> HIDE DEF s, n
  <2>4. <<>> \in Seq(Cell)
    OBVIOUS
  <2>5. /\ final' \in [Names -> Seq(Cell) \cup {None}] /\ final'[n] = s
        /\ \A k \in Names : k # n => final'[k] = final[k]
    BY <2>2
  <2>6. /\ part' \in [Names -> Seq(Cell)] /\ part'[n] = <<>> /\ \A k \in Names : k # n => part'[k] = part[k]
    BY <2>2, <2>4
  <2> QED BY <2>1, <2>3, <2>5, <2>6
<1>7. Stored \subseteq Stored'
  BY <1>6 DEF Stored
<1>8. /\ c' \in [Procs -> Passes] /\ ListInv(c'[p], Stored')
      /\ c'[p].pc = "confirm" /\ c'[p].todo = r.todo /\ c'[p].proof = r.proof
  <2>1. "confirm" \in OnChunk /\ r.pc # "download"
    BY <1>0 DEF OnChunk
  <2> QED BY <1>0, <1>1, <1>7, <2>1, GoesTo
<1>9. CollectorTypes'
  <2>1. DOMAIN meta' = Names /\ \A k \in Names : meta'[k] # None => meta'[k].seen \in 1..(TORN_MAX_SIGHTINGS - 1)
    BY <1>0, <1>1 DEF CollectorTypes
  <2> QED BY <1>0, <1>1, <1>6, <1>8, <2>1 DEF CollectorTypes
<1>10. PartInv' /\ StoreInv'
  <2>1. PartInv'
    BY <1>1, <1>6 DEF DiskInv, PartInv
  <2>2. ASSUME NEW k \in Names, final'[k] # None, k \notin misled'
        PROVE  \E f \in Files : IsArchived(k, f, final'[k], sidecar'[k])
    <3>1. CASE k = n
      BY <1>0, <1>5, <1>6, <2>2, <3>1
    <3>2. CASE k # n
      BY <1>0, <1>1, <1>6, <2>2, <3>2 DEF DiskInv, StoreInv
    <3> QED BY <3>1, <3>2
  <2> QED BY <2>1, <2>2 DEF StoreInv
<1>11. UplInv'
  <2>1. ASSUME NEW f \in upl' \ exposed', NameOf[f] \notin misled' PROVE final'[NameOf[f]] = Cells(f)
    <3>1. f \in Files /\ NameOf[f] \in Names /\ f \in upl \ exposed
      BY <1>0, <1>1, <2>1, CollectorAssumption DEF CollectorTypes
    <3>2. final[NameOf[f]] = Cells(f)
      BY <1>1, <1>6, <2>1, <3>1 DEF DiskInv, UplInv
    <3>3. Cells(f) # None
      BY <3>1, FullLength, CollectorAssumption DEF Cell
    <3>4. NameOf[f] # n
      BY <1>2, <3>2, <3>3
    <3> QED BY <1>6, <3>1, <3>2, <3>4
  <2> QED BY <2>1 DEF UplInv
<1>12. ChunkInv(c'[p], part'[n], final'[n], sidecar'[n], Seen(n)', n \in misled')
  BY <1>4, <1>5, <1>6, <1>8 DEF ChunkInv, Fetching
<1>13. WorkInv(p)'
  BY <1>1, <1>8, <1>12 DEF WorkInv, Name, Chunk, Seen
<1> QED BY <1>8, <1>9, <1>10, <1>11, <1>13, OneCollector DEF DiskInv

(* The licence to delete.                                                  *)
LEMMA ConfirmKeeps ==
  ASSUME CollectorInv, NEW p \in Procs, Confirm(p) PROVE CollectorInv'
<1> DEFINE n == Name(p)
           f == Served(n)
           r == c[p]
           t == [r EXCEPT !.pc = "next", !.todo = Tail(@), !.acked = @ \cup {n},
                          !.att = 1, !.torn = FALSE, !.proof = None]
<1>0. r.pc = "confirm" /\ r.pc \in OnChunk /\ UNCHANGED <<inserted, disk, misled>>
  BY DEF Confirm, At, OnChunk
<1>1. /\ CollectorTypes /\ DiskInv /\ c \in [Procs -> Passes] /\ r \in Passes /\ WorkInv(p)
      /\ ListInv(r, Stored) /\ n \in Names /\ r.todo # <<>> /\ r.dl = None
      /\ n = Head(r.todo).name /\ Chunk(p) = Head(r.todo)
  BY <1>0, AtWork DEF ListInv
<1>2. final[n] # None /\ (n \in misled \/ (r.proof \in Files /\ final[n] = Cells(r.proof)))
  BY <1>0, <1>1 DEF WorkInv, ChunkInv
<1>3. CASE (RecordFailure(p, "defect") \/ Retry(p, "confirm")) /\ UNCHANGED <<upl, exposed>>
  BY <1>0, <1>3, LeaveKeeps, AgainKeeps
<1>4. CASE /\ upl' = IF f = None THEN upl ELSE upl \cup {f}
           /\ exposed' = IF f \in {None, r.proof} THEN exposed ELSE exposed \cup {f}
           /\ Become(p, t) \/ Retry(p, "confirm")
  <2>0. UNCHANGED <<final, part, cand, meta, sidecar>>
    BY <1>0 DEF disk
  <2>1. f # None => f \in Files /\ NameOf[f] = n
    BY ServedFile
  <2> HIDE DEF f
  <2>2. upl' \subseteq Files /\ exposed' \subseteq upl'
    BY <1>1, <1>4, <2>1 DEF CollectorTypes
  <2>3. UplInv'
    <3>1. ASSUME NEW g \in upl' \ exposed', NameOf[g] \notin misled PROVE final[NameOf[g]] = Cells(g)
      <4>1. CASE g \in upl
        <5>1. g \notin exposed
          BY <1>4, <3>1
        <5> QED BY <1>1, <3>1, <4>1, <5>1 DEF DiskInv, UplInv
      <4>2. CASE g \notin upl
        <5>1. f # None /\ g = f /\ f = r.proof
          BY <1>4, <3>1, <4>2
        <5> QED BY <1>2, <2>1, <3>1, <5>1
      <4> QED BY <4>1, <4>2
    <3> QED BY <1>0, <2>0, <3>1 DEF UplInv
  <2>4. PartInv' /\ StoreInv' /\ Stored' = Stored
    BY <1>0, <1>1, <2>0 DEF DiskInv, PartInv, StoreInv, Stored
  <2>5. ASSUME c' \in [Procs -> Passes] PROVE CollectorTypes'
    BY <1>0, <1>1, <2>0, <2>2, <2>5 DEF CollectorTypes
  <2>6. CASE Become(p, t)
    <3>1. /\ Listed(r) /\ r.todo \in Seq(Entries) /\ Len(r.todo) \in Nat \ {0} /\ r.acked \subseteq Stored
          /\ Head(r.todo) = r.todo[1]
      BY <1>0, <1>1, ChunkAtWork DEF ListInv
    <3>2. /\ Tail(r.todo) \in Seq(Entries) /\ Len(Tail(r.todo)) = Len(r.todo) - 1
          /\ \A i \in 1..Len(Tail(r.todo)) : Tail(r.todo)[i] = r.todo[i + 1] /\ i + 1 \in 1..Len(r.todo)
      BY <3>1
    <3>3. /\ "next" \in PassPcs /\ 1 \in Attempts /\ None \in Proofs /\ r.acked \cup {n} \in SUBSET Names
      <4>1. r.acked \in SUBSET Names
        BY <1>1 DEF Passes
      <4> QED BY <1>1, <4>1, CollectorAssumption DEF PassPcs, Attempts, Proofs
    <3>4. t \in Passes
      BY <1>1, <3>2, <3>3 DEF Passes
    <3>5. /\ t.pc = "next" /\ t.todo = Tail(r.todo) /\ t.failed = r.failed /\ t.dl = None /\ ~t.torn
          /\ t.acked = r.acked \cup {n} /\ t.card = r.card /\ t.listed = r.listed
      BY <1>1 DEF Passes
    <3> HIDE DEF t
    <3>6. c' \in [Procs -> Passes] /\ c'[p] = t
      BY <1>1, <2>6, <3>4, Becomes
    <3>7. Listed(t)
      <4>1. \A i \in 1..Len(r.todo) : i = 1 \/ (i - 1 \in 1..Len(Tail(r.todo)) /\ Tail(r.todo)[i - 1] = r.todo[i])
        BY <3>1, <3>2
      <4>2. ASSUME t.failed = {}, NEW m \in t.listed
            PROVE  m \in t.acked \/ \E i \in 1..Len(t.todo) : t.todo[i].name = m
        <5>1. m \in r.acked \/ \E i \in 1..Len(r.todo) : r.todo[i].name = m
          BY <3>1, <3>5, <4>2 DEF Listed
        <5>2. CASE m \in r.acked
          BY <3>5, <5>2
        <5>3. CASE \E i \in 1..Len(r.todo) : r.todo[i].name = m
          <6>1. PICK i \in 1..Len(r.todo) : r.todo[i].name = m
            BY <5>3
          <6>2. CASE i = 1
            <7>1. m = n
              BY <1>1, <3>1, <6>1, <6>2
            <7> QED BY <3>5, <7>1
          <6>3. CASE i - 1 \in 1..Len(Tail(r.todo)) /\ Tail(r.todo)[i - 1] = r.todo[i]
            BY <3>5, <6>1, <6>3
          <6> QED BY <4>1, <6>2, <6>3
        <5> QED BY <5>1, <5>2, <5>3
      <4>3. \A i \in 1..Len(t.todo) : \E g \in Files : /\ NameOf[g] = t.todo[i].name /\ CardOf[g] = t.card
                                                      /\ t.todo[i].size \in {0, SizeOf[g]}
        <5>1. ASSUME NEW i \in 1..Len(t.todo)
              PROVE  \E g \in Files : /\ NameOf[g] = t.todo[i].name /\ CardOf[g] = t.card
                                     /\ t.todo[i].size \in {0, SizeOf[g]}
          <6>1. t.todo[i] = r.todo[i + 1] /\ i + 1 \in 1..Len(r.todo)
            BY <3>2, <3>5, <5>1
          <6>2. PICK g \in Files : /\ NameOf[g] = r.todo[i + 1].name /\ CardOf[g] = r.card
                                   /\ r.todo[i + 1].size \in {0, SizeOf[g]}
            BY <3>1, <6>1 DEF Listed
          <6> QED BY <3>5, <6>1, <6>2
        <5> QED BY <5>1
      <4> QED BY <4>2, <4>3 DEF Listed
    <3>8. n \in Stored
      BY <1>1, <1>2 DEF Stored
    <3>9. ListInv(t, Stored) /\ t.pc \notin OnChunk
      BY <3>1, <3>5, <3>7, <3>8 DEF ListInv, OnChunk, Fetching
    <3> QED BY <2>3, <2>4, <2>5, <3>6, <3>9, NoWork, OneCollector DEF DiskInv
  <2>7. CASE Retry(p, "confirm")
    <3>1. /\ c' \in [Procs -> Passes] /\ ListInv(c'[p], Stored)
          /\ \/ c'[p].pc = "next"
             \/ c'[p].pc = "confirm" /\ c'[p].todo = r.todo /\ c'[p].proof = r.proof
      BY <1>0, <1>1, <2>7, AsksAgain
    <3>2. CASE c'[p].pc = "next"
      <4>1. c'[p].pc \notin OnChunk
        BY <3>2 DEF OnChunk, Fetching
      <4> QED BY <2>3, <2>4, <2>5, <3>1, <4>1, NoWork, OneCollector DEF DiskInv
    <3>3. CASE c'[p].pc = "confirm" /\ c'[p].todo = r.todo /\ c'[p].proof = r.proof
      <4>1. ChunkInv(c'[p], part[n], final[n], sidecar[n], Seen(n), n \in misled)
        BY <1>2, <3>3 DEF ChunkInv, Fetching
      <4>2. WorkInv(p)'
        BY <1>0, <1>1, <2>0, <3>3, <4>1 DEF WorkInv, Name, Chunk, Seen
      <4> QED BY <2>3, <2>4, <2>5, <3>1, <4>2, OneCollector DEF DiskInv
    <3> QED BY <3>1, <3>2, <3>3
  <2> QED BY <1>4, <2>6, <2>7
<1> QED BY <1>3, <1>4 DEF Confirm

(* SwapCard: another card is put in, between any two steps of the pass.    *)
LEMMA SwapCardKeeps == ASSUME CollectorInv, SwapCard PROVE CollectorInv'
<1>0. UNCHANGED <<upl, disk, c, exposed, misled>> /\ inserted' \in Cards
  BY DEF SwapCard, Cards
<1>1. CollectorTypes' /\ DiskInv' /\ Stored' = Stored
  BY <1>0, DiskStays DEF CollectorInv, CollectorTypes
<1>2. ASSUME NEW p \in Procs PROVE ListInv(c'[p], Stored') /\ WorkInv(p)'
  <2>1. ListInv(c[p], Stored) /\ WorkInv(p)
    BY DEF CollectorInv
  <2> QED BY <1>0, <1>1, <2>1 DEF WorkInv, Name, Chunk, Seen, disk
<1> QED BY <1>1, <1>2 DEF CollectorInv

(* Every step of the collector, and every change of the card, keeps the    *)
(* invariant.                                                              *)
LEMMA StepCollector == CollectorInv /\ [CollectorNext]_collectorVars => CollectorInv'
<1> SUFFICES ASSUME CollectorInv, [CollectorNext]_collectorVars PROVE CollectorInv'
  OBVIOUS
<1>1. CASE SwapCard
  BY <1>1, SwapCardKeeps
<1>2. ASSUME NEW p \in Procs, Step(p) PROVE CollectorInv'
  <2>1. CASE StartPass(p) \/ Index(p) \/ IndexFails(p) \/ Refused(p) \/ NextChunk(p) \/ ArchiveError(p) \/ Crash(p)
    BY <2>1, StartPassKeeps, IndexKeeps, IndexFailsKeeps, StopsKeep, NextChunkKeeps
  <2>2. CASE AlreadyHave(p) \/ ProvePartial(p) \/ DownloadOpen(p) \/ DownloadBlock(p) \/ DownloadEnd(p)
    BY <2>2, AlreadyHaveKeeps, ProvePartialKeeps, DownloadOpenKeeps, DownloadBlockKeeps, DownloadEndKeeps
  <2>3. CASE Verify(p) \/ TornSighting(p) \/ KeepCandidate(p) \/ Store(p) \/ Rename(p) \/ Confirm(p)
    BY <2>3, VerifyKeeps, TornSightingKeeps, KeepCandidateKeeps, StoreKeeps, RenameKeeps, ConfirmKeeps
  <2> QED BY <1>2, <2>1, <2>2, <2>3 DEF Step
<1>3. CASE UNCHANGED collectorVars
  <2>1. UNCHANGED <<inserted, upl, disk, c, exposed, misled>>
    BY <1>3 DEF collectorVars
  <2>2. CollectorTypes' /\ DiskInv' /\ Stored' = Stored
    BY <2>1, DiskStays DEF CollectorInv, CollectorTypes
  <2>3. ASSUME NEW p \in Procs PROVE ListInv(c'[p], Stored') /\ WorkInv(p)'
    <3>1. ListInv(c[p], Stored) /\ WorkInv(p)
      BY DEF CollectorInv
    <3> QED BY <2>1, <2>2, <3>1 DEF WorkInv, Name, Chunk, Seen, disk
  <2> QED BY <2>2, <2>3 DEF CollectorInv
<1> QED BY <1>1, <1>2, <1>3 DEF CollectorNext

(* The invariant holds in every state of the collector.                    *)
LEMMA CollectorKeepsInv == CollectorSpec => []CollectorInv
BY InitCollector, StepCollector, PTL DEF CollectorSpec

(* "A confirm is a licence to delete": a file the device was told it may   *)
(* delete is in the archive byte for byte, for any files, names, cards and *)
(* retries, whatever answers are lost and wherever the collector is        *)
(* killed.                                                                 *)
THEOREM HeldTheorem == CollectorSpec => []ConfirmedIsHeld
<1>1. CollectorInv => ConfirmedIsHeld
  <2> SUFFICES ASSUME CollectorInv PROVE ConfirmedIsHeld
    OBVIOUS
  <2>1. CollectorTypeOK
    <3>1. \A p \in Procs : c[p] \in Passes
      BY DEF CollectorInv, CollectorTypes
    <3>2. \A p \in Procs : c[p].att \in Attempts /\ c[p].failed \in Fails
      BY <3>1 DEF Passes
    <3> QED BY <3>2 DEF CollectorInv, CollectorTypes, CollectorTypeOK, Attempts, Fails
  <2>2. ArchivedIsOneFile
    <3>1. ASSUME NEW n \in Names \ misled, final[n] # None
          PROVE  \E f \in Files : /\ final[n] = Cells(f)
                                 /\ \/ KindOf[f] = "whole"
                                    \/ KindOf[f] = "torn" /\ sidecar[n] = Cells(f)
      <4>1. PICK f \in Files : IsArchived(n, f, final[n], sidecar[n])
        BY <3>1 DEF CollectorInv, DiskInv, StoreInv
      <4> QED BY <4>1 DEF IsArchived
    <3> QED BY <3>1 DEF ArchivedIsOneFile
  <2>3. \A f \in upl \ exposed : NameOf[f] \notin misled => final[NameOf[f]] = Cells(f)
    BY DEF CollectorInv, DiskInv, UplInv
  <2> QED BY <2>1, <2>2, <2>3 DEF ConfirmedIsHeld
<1> QED BY <1>1, CollectorKeepsInv, PTL

(* The exit status: 0 only when every listed chunk is acknowledged and in  *)
(* the archive, 75 only when no chunk of the pass met a defect.            *)
THEOREM StatusTheorem == CollectorSpec => []StatusIsHonest
<1>1. CollectorInv => StatusIsHonest
  <2> SUFFICES ASSUME CollectorInv, NEW p \in Procs, c[p].pc = "done"
               PROVE  /\ c[p].status = 0  => c[p].listed \subseteq c[p].acked
                                             /\ \A n \in c[p].listed : final[n] # None
                      /\ c[p].status = 75 => "defect" \notin c[p].failed
    BY DEF StatusIsHonest, At
  <2>1. ListInv(c[p], Stored)
    BY DEF CollectorInv
  <2> QED BY <2>1 DEF ListInv, Stored
<1> QED BY <1>1, CollectorKeepsInv, PTL

(* What the archive holds under a final name is never overwritten,         *)
(* whatever a later pass of the same or of another card finds.             *)
THEOREM AppendOnlyTheorem == CollectorSpec => NeverReplaced
<1> DEFINE Kept == \A n \in Names : final[n] # None => final'[n] = final[n]
<1>1. CollectorInv /\ [CollectorNext]_collectorVars => [Kept]_collectorVars
  <2> SUFFICES ASSUME CollectorInv, CollectorNext PROVE Kept
    OBVIOUS
  <2>1. CASE UNCHANGED final
    BY <2>1
  <2>2. ASSUME NEW p \in Procs, Rename(p) PROVE Kept
    <3>1. c[p].pc = "rename" /\ c[p].pc \in OnChunk /\ final' = [final EXCEPT ![Name(p)] = part[Name(p)]]
      BY <2>2 DEF Rename, At, OnChunk, Fetching
    <3>2. final[Name(p)] = None /\ DOMAIN final = Names
      BY <3>1, AtWork DEF WorkInv, ChunkInv, CollectorTypes
    <3> QED BY <3>1, <3>2
  <2>3. ASSUME ~\E p \in Procs : Rename(p) PROVE UNCHANGED final
    <3>1. CASE SwapCard
      BY <3>1 DEF SwapCard, disk
    <3>2. ASSUME NEW p \in Procs, Step(p) PROVE UNCHANGED final
      <4>1. CASE StartPass(p) \/ Index(p) \/ IndexFails(p) \/ Refused(p) \/ NextChunk(p) \/ ArchiveError(p) \/ Crash(p)
        BY <4>1 DEF StartPass, Index, IndexFails, Refused, NextChunk, ArchiveError, Crash, disk
      <4>2. CASE AlreadyHave(p) \/ ProvePartial(p) \/ DownloadOpen(p) \/ DownloadBlock(p) \/ DownloadEnd(p)
        BY <4>2 DEF AlreadyHave, ProvePartial, DownloadOpen, DownloadBlock, DownloadEnd, disk
      <4>3. CASE Verify(p) \/ TornSighting(p) \/ KeepCandidate(p) \/ Store(p) \/ Confirm(p)
        BY <4>3 DEF Verify, TornSighting, KeepCandidate, Store, Confirm, disk
      <4> QED BY <2>3, <3>2, <4>1, <4>2, <4>3 DEF Step
    <3> QED BY <3>1, <3>2 DEF CollectorNext
  <2> QED BY <2>1, <2>2, <2>3
<1>2. CollectorSpec => [][Kept]_collectorVars
  BY <1>1, CollectorKeepsInv, PTL DEF CollectorSpec
<1> QED BY <1>2 DEF NeverReplaced

-----------------------------------------------------------------------------
(* The fleet.                                                              *)
Busy == {"collect", "record", "push"}
ThreadPcs == {"idle", "start"} \cup Busy
Results == {"ok", "offline", "error", "refused", "locked"}
Threads == [pc : ThreadPcs, at : 0..MaxTime, key : Tokens \cup {None},
            used : Tokens \cup {None}, result : Results \cup {None}, mem : Heartbeats \cup {None}]
FleetTypes ==
    /\ now \in 0..MaxTime /\ faults \in Nat
    /\ token \in [Devices -> Tokens] /\ hb \in [Devices -> Heartbeats \cup {None}]
    /\ holder \in [Devices -> Runs \cup {None}] /\ pass \in [Runs -> [Devices -> Threads]]
    /\ monitor \in [Devices -> {"up", "down", None}] /\ trouble \in [Devices -> BOOLEAN]
    /\ refusals \in [Devices -> Nat] /\ excused \in [Devices -> Nat]

(* The thread that is past the lock is the one that holds it.              *)
LockInv(d) == \A r \in Runs : Thread(r, d).pc \in Busy <=> holder[d] = r
ThreadInv(d) ==
    \A r \in Runs :
        /\ Thread(r, d).pc \in Busy => Thread(r, d).key \in Tokens
        /\ Thread(r, d).pc = "start" => Thread(r, d).result \in {"error", None}
        /\ Thread(r, d).pc = "collect" => hb[d] = None \/ hb[d].locked # Thread(r, d).key
        /\ Thread(r, d).pc = "record" => Thread(r, d).result \in Results
        /\ Thread(r, d).pc = "push" => /\ Thread(r, d).mem # None
                                       /\ faults = 0 => hb[d] = Thread(r, d).mem
LoudInv(d) == hb[d] # None /\ hb[d].locked # None => hb[d].verdict = "error"

(* The heartbeat holds the present token file refused, or the thread that  *)
(* is about to write one does.                                             *)
Held(d) == hb[d] # None /\ hb[d].locked = token[d]
Owed(d) == \E r \in Runs : Thread(r, d).pc = "record" /\ Thread(r, d).result = "refused"
                           /\ Thread(r, d).key = token[d]
RefusalInv(d) ==
    /\ refusals[d] <= excused[d] \/ ((Held(d) \/ Owed(d)) /\ refusals[d] <= excused[d] + 1)
    /\ \A r \in Runs : Thread(r, d).pc \in Busy =>
          /\ Thread(r, d).key # token[d] => refusals[d] <= excused[d]
          /\ Thread(r, d).pc = "record" /\ Thread(r, d).result = "ok" => refusals[d] = 0
Failing(d) == \E r \in Runs : Thread(r, d).pc = "record" /\ Thread(r, d).result \in {"error", "refused"}
TroubleInv(d) ==
    /\ faults = 0 /\ trouble[d] /\ ~Failing(d) => hb[d] # None /\ hb[d].verdict = "error"
    /\ \A r \in Runs : Thread(r, d).pc = "record" /\ Thread(r, d).result = "ok" => ~trouble[d]

DeviceInv(d) == LockInv(d) /\ ThreadInv(d) /\ LoudInv(d) /\ RefusalInv(d) /\ TroubleInv(d)
FleetInv == FleetTypes /\ \A d \in Devices : DeviceInv(d)

(* A thread that is not in a pass.                                         *)
LEMMA QuietThread == Quiet \in Threads /\ Quiet.pc = "idle"
<1>1. "idle" \in ThreadPcs /\ 0 \in 0..MaxTime
  BY FleetAssumption DEF ThreadPcs
<1> QED BY <1>1 DEF Quiet, Threads

(* A step of one thread of one run leaves the others where they were.      *)
LEMMA ThreadSet ==
  ASSUME FleetTypes, NEW r \in Runs, NEW d \in Devices, NEW t \in Threads, SetThread(r, d, t)
  PROVE  /\ pass' \in [Runs -> [Devices -> Threads]] /\ pass'[r][d] = t
         /\ \A s \in Runs, e \in Devices : s # r \/ e # d => pass'[s][e] = pass[s][e]
<1> DEFINE row == [pass[r] EXCEPT ![d] = t]
<1>1. pass \in [Runs -> [Devices -> Threads]] /\ pass[r] \in [Devices -> Threads]
  BY DEF FleetTypes
<1>2. row \in [Devices -> Threads] /\ row[d] = t /\ \A e \in Devices : e # d => row[e] = pass[r][e]
  BY <1>1
<1>3. pass' = [pass EXCEPT ![r] = row]
  BY DEF SetThread
<1> HIDE DEF row
<1> QED BY <1>1, <1>2, <1>3

(* A device that a step does not concern.                                  *)
LEMMA Unmoved ==
  ASSUME NEW d \in Devices, DeviceInv(d), \A r \in Runs : pass'[r][d] = pass[r][d],
         hb'[d] = hb[d], holder'[d] = holder[d], token'[d] = token[d], trouble'[d] = trouble[d],
         refusals'[d] = refusals[d], excused'[d] = excused[d], faults' = 0 => faults = 0
  PROVE  DeviceInv(d)'
<1>1. \A r \in Runs : Thread(r, d)' = Thread(r, d)
  BY DEF Thread
<1>2. Owed(d)' = Owed(d) /\ Failing(d)' = Failing(d) /\ Held(d)' = Held(d)
  BY <1>1 DEF Owed, Failing, Held
<1>3. LockInv(d)' /\ ThreadInv(d)' /\ LoudInv(d)'
  BY <1>1 DEF DeviceInv, LockInv, ThreadInv, LoudInv
<1>4. RefusalInv(d)' /\ TroubleInv(d)'
  BY <1>1, <1>2 DEF DeviceInv, RefusalInv, TroubleInv
<1> QED BY <1>3, <1>4 DEF DeviceInv

(* The fleet before its first pass: no heartbeat, no lock held.            *)
LEMMA InitFleet == FleetInit => FleetInv
<1> SUFFICES ASSUME FleetInit PROVE FleetInv
  OBVIOUS
<1>1. \A r \in Runs, d \in Devices : Thread(r, d).pc = "idle"
  BY QuietThread DEF FleetInit, Thread
<1>2. pass \in [Runs -> [Devices -> Threads]]
  BY QuietThread DEF FleetInit
<1>3. FleetTypes
  BY <1>2, FleetAssumption DEF FleetInit, FleetTypes
<1>4. ASSUME NEW d \in Devices PROVE DeviceInv(d)
  <2>1. /\ hb[d] = None /\ holder[d] = None /\ trouble[d] = FALSE /\ refusals[d] = 0 /\ excused[d] = 0
    BY DEF FleetInit
  <2>2. LockInv(d) /\ ThreadInv(d)
    BY <1>1, <2>1, FleetAssumption DEF LockInv, ThreadInv, Busy
  <2>3. LoudInv(d) /\ RefusalInv(d) /\ TroubleInv(d)
    BY <1>1, <2>1 DEF LoudInv, RefusalInv, TroubleInv, Busy
  <2> QED BY <2>2, <2>3 DEF DeviceInv
<1> QED BY <1>3, <1>4 DEF FleetInv

(* A pass begins for every device, or the world moves on.                  *)
LEMMA RunOnceKeeps == ASSUME FleetInv, NEW r \in Runs, RunOnce(r) PROVE FleetInv'
<1> DEFINE t == [Quiet EXCEPT !.pc = "start", !.result = IF lowSpace THEN "error" ELSE None]
<1>1. t \in Threads /\ t.pc = "start" /\ t.result \in {"error", None}
  <2>1. "start" \in ThreadPcs /\ "error" \in Results
    BY DEF ThreadPcs, Results
  <2> QED BY <2>1, QuietThread DEF Threads
<1> HIDE DEF t
<1>2. pass' = [pass EXCEPT ![r] = [d \in Devices |-> t]] /\ \A d \in Devices : Thread(r, d).pc = "idle"
  BY DEF RunOnce, Working, t
<1>3. /\ pass' \in [Runs -> [Devices -> Threads]]
      /\ \A d \in Devices : Thread(r, d)' = t
      /\ \A s \in Runs, d \in Devices : s # r => Thread(s, d)' = Thread(s, d)
  BY <1>1, <1>2 DEF FleetInv, FleetTypes, Thread
<1>4. UNCHANGED <<now, token, hb, holder, monitor, faults, trouble, refusals, excused>>
  BY DEF RunOnce
<1>5. FleetTypes'
  BY <1>3, <1>4 DEF FleetInv, FleetTypes
<1>6. ASSUME NEW d \in Devices PROVE DeviceInv(d)'
  <2>1. LockInv(d)'
    BY <1>1, <1>2, <1>3, <1>4 DEF FleetInv, DeviceInv, LockInv, Busy
  <2>2. ThreadInv(d)' /\ LoudInv(d)'
    BY <1>1, <1>2, <1>3, <1>4 DEF FleetInv, DeviceInv, ThreadInv, LoudInv, Busy
  <2>3. Owed(d)' = Owed(d) /\ Failing(d)' = Failing(d) /\ Held(d)' = Held(d)
    BY <1>1, <1>2, <1>3, <1>4 DEF Owed, Failing, Held
  <2>4. RefusalInv(d)' /\ TroubleInv(d)'
    BY <1>1, <1>2, <1>3, <1>4, <2>3 DEF FleetInv, DeviceInv, RefusalInv, TroubleInv, Busy
  <2> QED BY <2>1, <2>2, <2>4 DEF DeviceInv
<1> QED BY <1>5, <1>6 DEF FleetInv

(* A thread's step concerns its own device; of the others nothing moves.   *)
LEMMA ThreadMoves ==
  ASSUME FleetInv, NEW r \in Runs, NEW d \in Devices, NEW t \in Threads, SetThread(r, d, t),
         faults' = 0 => faults = 0, UNCHANGED token,
         \A e \in Devices \ {d} : /\ hb'[e] = hb[e] /\ holder'[e] = holder[e] /\ trouble'[e] = trouble[e]
                                  /\ refusals'[e] = refusals[e] /\ excused'[e] = excused[e]
  PROVE  /\ \A e \in Devices \ {d} : DeviceInv(e)'
         /\ pass' \in [Runs -> [Devices -> Threads]] /\ Thread(r, d)' = t
         /\ \A s \in Runs : s # r => Thread(s, d)' = Thread(s, d)
<1>0. FleetTypes
  BY DEF FleetInv
<1>1. /\ pass' \in [Runs -> [Devices -> Threads]] /\ pass'[r][d] = t
      /\ \A s \in Runs, e \in Devices : s # r \/ e # d => pass'[s][e] = pass[s][e]
  BY <1>0, ThreadSet
<1>2. ASSUME NEW e \in Devices \ {d} PROVE DeviceInv(e)'
  BY <1>1, <1>2, Unmoved DEF FleetInv
<1> QED BY <1>1, <1>2 DEF Thread

(* PassBegins: the lock, the heartbeat and the token decide whether the    *)
(* device is asked.                                                        *)
LEMMA PassBeginsKeeps ==
  ASSUME FleetInv, NEW r \in Runs, NEW d \in Devices, PassBegins(r, d) PROVE FleetInv'
<1> DEFINE t == Thread(r, d)
           key == token[d]
           dec == IF t.result = "error" THEN "error" ELSE IF Load(d, now).locked = key THEN "locked" ELSE None
           next == [t EXCEPT !.pc = IF dec = None THEN "collect" ELSE "record",
                             !.at = now, !.key = key, !.result = dec]
<1>0. /\ FleetTypes /\ DeviceInv(d) /\ t.pc = "start" /\ t \in Threads /\ key \in Tokens
      /\ UNCHANGED <<now, token, hb, monitor, faults, refusals, excused>>
  BY DEF FleetInv, FleetTypes, PassBegins, Thread
<1>1. CASE holder[d] # None /\ SetThread(r, d, Quiet) /\ UNCHANGED <<holder, trouble>>
  <2>1. /\ \A e \in Devices \ {d} : DeviceInv(e)'
        /\ pass' \in [Runs -> [Devices -> Threads]] /\ Thread(r, d)' = Quiet
        /\ \A s \in Runs : s # r => Thread(s, d)' = Thread(s, d)
    BY <1>0, <1>1, ThreadMoves, QuietThread
  <2>2. FleetTypes'
    BY <1>0, <1>1, <2>1 DEF FleetTypes
  <2>3. Owed(d)' = Owed(d) /\ Failing(d)' = Failing(d) /\ Held(d)' = Held(d)
    BY <1>0, <2>1, QuietThread DEF Owed, Failing, Held
  <2>4. LockInv(d)' /\ ThreadInv(d)' /\ LoudInv(d)'
    BY <1>0, <1>1, <2>1, QuietThread DEF DeviceInv, LockInv, ThreadInv, LoudInv, Busy
  <2>5. RefusalInv(d)' /\ TroubleInv(d)'
    BY <1>0, <1>1, <2>1, <2>3, QuietThread DEF DeviceInv, RefusalInv, TroubleInv, Busy
  <2> QED BY <2>1, <2>2, <2>4, <2>5 DEF FleetInv, DeviceInv
<1>2. CASE /\ holder[d] = None /\ holder' = [holder EXCEPT ![d] = r] /\ SetThread(r, d, next)
           /\ trouble' = [trouble EXCEPT ![d] = @ \/ dec = "error"]
  <2>0. /\ dec \in {"error", "locked", None}
        /\ dec = None => hb[d] = None \/ hb[d].locked # key
    <3>1. Load(d, now) = IF hb[d] = None THEN Fresh(now) ELSE hb[d]
      BY DEF Load
    <3> QED BY <3>1, FleetAssumption
  <2>00. next \in Threads /\ next.pc = (IF dec = None THEN "collect" ELSE "record") /\ next.key = key
         /\ next.result = dec
    <3>1. (IF dec = None THEN "collect" ELSE "record") \in ThreadPcs /\ dec \in Results \cup {None}
      BY <2>0 DEF ThreadPcs, Busy, Results
    <3> HIDE DEF dec, key
    <3> QED BY <1>0, <3>1 DEF Threads, FleetTypes
  <2> HIDE DEF next, dec
  <2>1. /\ \A e \in Devices \ {d} : DeviceInv(e)'
        /\ pass' \in [Runs -> [Devices -> Threads]] /\ Thread(r, d)' = next
        /\ \A s \in Runs : s # r => Thread(s, d)' = Thread(s, d)
    BY <1>0, <1>2, <2>00, ThreadMoves DEF FleetTypes
  <2>2. /\ FleetTypes' /\ holder'[d] = r /\ (trouble'[d] <=> trouble[d] \/ dec = "error")
    BY <1>0, <1>2, <2>1 DEF FleetTypes
  <2>3. \A s \in Runs : Thread(s, d).pc \notin Busy
    BY <1>0, <1>2, FleetAssumption DEF DeviceInv, LockInv
  <2>4. LockInv(d)'
    BY <2>00, <2>1, <2>2, <2>3 DEF LockInv, Busy
  <2>5. ThreadInv(d)' /\ LoudInv(d)'
    <3>1. dec # None => dec \in Results
      BY <2>0 DEF Results
    <3> QED BY <1>0, <2>0, <2>00, <2>1, <3>1 DEF DeviceInv, ThreadInv, LoudInv, Busy
  <2>6. ~Owed(d) /\ ~Failing(d)
    BY <2>3 DEF Owed, Failing, Busy
  <2>7. RefusalInv(d)'
    <3>1. Held(d)' = Held(d)
      BY <1>0 DEF Held
    <3>2. dec # "ok"
      BY <2>0, FleetAssumption
    <3> QED BY <1>0, <2>00, <2>1, <2>3, <2>6, <3>1, <3>2 DEF DeviceInv, RefusalInv
  <2>8. TroubleInv(d)'
    <3>1. CASE dec = "error"
      <4>1. Failing(d)'
        BY <2>00, <2>1, <3>1, FleetAssumption DEF Failing
      <4> QED BY <2>00, <2>1, <2>3, <3>1, <4>1 DEF TroubleInv, Busy
    <3>2. CASE dec # "error"
      <4>1. dec # "ok"
        BY <2>0, FleetAssumption
      <4> QED BY <1>0, <2>00, <2>1, <2>2, <2>3, <2>6, <3>2, <4>1 DEF DeviceInv, TroubleInv, Busy
    <3> QED BY <3>1, <3>2
  <2> QED BY <2>1, <2>2, <2>4, <2>5, <2>7, <2>8 DEF FleetInv, DeviceInv
<1> QED BY <1>1, <1>2 DEF PassBegins

(* CollectorReadsToken: the collector opens the token file for itself,     *)
(* later than the fleet did.                                               *)
LEMMA CollectorReadsTokenKeeps ==
  ASSUME FleetInv, NEW r \in Runs, NEW d \in Devices, CollectorReadsToken(r, d) PROVE FleetInv'
<1> DEFINE t == Thread(r, d)
           next == [t EXCEPT !.used = token[d]]
<1>0. /\ FleetTypes /\ DeviceInv(d) /\ t.pc = "collect" /\ t \in Threads /\ token[d] \in Tokens
      /\ SetThread(r, d, next)
      /\ UNCHANGED <<now, token, hb, holder, monitor, faults, trouble, refusals, excused>>
  BY DEF FleetInv, FleetTypes, CollectorReadsToken, Thread
<1>1. next \in Threads /\ next.pc = t.pc /\ next.key = t.key /\ next.result = t.result /\ next.mem = t.mem
  BY <1>0 DEF Threads
<1> HIDE DEF next
<1>2. /\ \A e \in Devices \ {d} : DeviceInv(e)'
      /\ pass' \in [Runs -> [Devices -> Threads]] /\ Thread(r, d)' = next
      /\ \A s \in Runs : s # r => Thread(s, d)' = Thread(s, d)
  BY <1>0, <1>1, ThreadMoves
<1>3. FleetTypes'
  BY <1>0, <1>2 DEF FleetTypes
<1>4. /\ \A s \in Runs : /\ Thread(s, d)'.pc = Thread(s, d).pc /\ Thread(s, d)'.key = Thread(s, d).key
                         /\ Thread(s, d)'.result = Thread(s, d).result /\ Thread(s, d)'.mem = Thread(s, d).mem
  BY <1>1, <1>2
<1>5. LockInv(d)' /\ ThreadInv(d)' /\ LoudInv(d)'
  BY <1>0, <1>4 DEF DeviceInv, LockInv, ThreadInv, LoudInv
<1>6. Owed(d)' = Owed(d) /\ Failing(d)' = Failing(d) /\ Held(d)' = Held(d)
  BY <1>0, <1>4 DEF Owed, Failing, Held
<1>7. RefusalInv(d)' /\ TroubleInv(d)'
  BY <1>0, <1>4, <1>6 DEF DeviceInv, RefusalInv, TroubleInv
<1> QED BY <1>2, <1>3, <1>5, <1>7 DEF FleetInv, DeviceInv

(* The thread that holds the device is alone past the lock.                *)
LEMMA HolderAlone ==
  ASSUME NEW r \in Runs, NEW d \in Devices, DeviceInv(d), Thread(r, d).pc \in Busy
  PROVE  holder[d] = r /\ \A s \in Runs : s # r => Thread(s, d).pc \notin Busy
BY DEF DeviceInv, LockInv

(* CollectorEnds: the exit status of the collector is the result of the    *)
(* pass.                                                                   *)
LEMMA CollectorEndsKeeps ==
  ASSUME FleetInv, NEW r \in Runs, NEW d \in Devices, CollectorEnds(r, d) PROVE FleetInv'
<1> DEFINE t == Thread(r, d)
           tallied(result) == result = "refused" /\ t.used = token[d]
<1>0. /\ FleetTypes /\ DeviceInv(d) /\ t.pc = "collect" /\ t \in Threads /\ t.used # None
      /\ UNCHANGED <<now, token, hb, holder, monitor, faults>>
  BY DEF FleetInv, FleetTypes, CollectorEnds, Thread
<1>1. PICK result \in {"ok", "offline", "error", "refused"} :
        /\ SetThread(r, d, [t EXCEPT !.pc = "record", !.result = result])
        /\ trouble' = [trouble EXCEPT ![d] = IF result = "offline" THEN @ ELSE result # "ok"]
        /\ refusals' = [refusals EXCEPT ![d] = CASE tallied(result) -> @ + 1 [] result = "ok" -> 0 [] OTHER -> @]
        /\ excused' = [excused EXCEPT ![d] = CASE tallied(result) /\ t.key # t.used -> @ + 1
                                               [] result = "ok" -> 0 [] OTHER -> @]
  BY DEF CollectorEnds
<1> DEFINE next == [t EXCEPT !.pc = "record", !.result = result]
<1>2. /\ next \in Threads /\ next.pc = "record" /\ next.key = t.key /\ next.result = result
      /\ result \in Results
  <2>1. "record" \in ThreadPcs /\ result \in Results
    BY <1>1 DEF ThreadPcs, Busy, Results
  <2> QED BY <1>0, <2>1 DEF Threads
<1>3. SetThread(r, d, next)
  BY <1>1
<1> HIDE DEF next
<1>4. /\ \A e \in Devices \ {d} : DeviceInv(e)'
      /\ pass' \in [Runs -> [Devices -> Threads]] /\ Thread(r, d)' = next
      /\ \A s \in Runs : s # r => Thread(s, d)' = Thread(s, d)
  BY <1>0, <1>1, <1>2, <1>3, ThreadMoves DEF FleetTypes
<1>5. /\ trouble' \in [Devices -> BOOLEAN]
      /\ (trouble'[d] <=> IF result = "offline" THEN trouble[d] ELSE result # "ok")
  BY <1>0, <1>1 DEF FleetTypes
<1>6. /\ refusals' \in [Devices -> Nat]
      /\ refusals'[d] = (IF tallied(result) THEN refusals[d] + 1 ELSE IF result = "ok" THEN 0 ELSE refusals[d])
      /\ excused' \in [Devices -> Nat]
      /\ excused'[d] = (IF tallied(result) /\ t.key # t.used THEN excused[d] + 1
                         ELSE IF result = "ok" THEN 0 ELSE excused[d])
  <2>1. refusals[d] \in Nat /\ excused[d] \in Nat
    BY <1>0 DEF FleetTypes
  <2>2. (CASE tallied(result) -> refusals[d] + 1 [] result = "ok" -> 0 [] OTHER -> refusals[d])
        = (IF tallied(result) THEN refusals[d] + 1 ELSE IF result = "ok" THEN 0 ELSE refusals[d])
    OBVIOUS
  <2>3. (CASE tallied(result) /\ t.key # t.used -> excused[d] + 1 [] result = "ok" -> 0 [] OTHER -> excused[d])
        = (IF tallied(result) /\ t.key # t.used THEN excused[d] + 1 ELSE IF result = "ok" THEN 0 ELSE excused[d])
    OBVIOUS
  <2> HIDE DEF tallied
  <2> QED BY <1>0, <1>1, <2>1, <2>2, <2>3 DEF FleetTypes
<1>7. FleetTypes'
  BY <1>0, <1>4, <1>5, <1>6 DEF FleetTypes
<1>8. /\ holder[d] = r /\ \A s \in Runs : s # r => Thread(s, d).pc \notin Busy
      /\ ~Owed(d) /\ ~Failing(d) /\ Held(d)' = Held(d)
  <2>1. holder[d] = r /\ \A s \in Runs : s # r => Thread(s, d).pc \notin Busy
    BY <1>0, HolderAlone DEF Busy
  <2> QED BY <1>0, <2>1 DEF Owed, Failing, Held, Busy
<1>9. LockInv(d)' /\ ThreadInv(d)' /\ LoudInv(d)'
  <2>1. LockInv(d)'
    BY <1>0, <1>2, <1>4, <1>8, FleetAssumption DEF LockInv, Busy
  <2>2. t.key \in Tokens
    BY <1>0 DEF DeviceInv, ThreadInv, Busy
  <2>3. ThreadInv(d)' /\ LoudInv(d)'
    BY <1>0, <1>2, <1>4, <1>8, <2>2 DEF DeviceInv, ThreadInv, LoudInv, Busy
  <2> QED BY <2>1, <2>3
<1>10. RefusalInv(d)'
  <2>0. /\ refusals[d] \in Nat /\ excused[d] \in Nat
        /\ t.key # token[d] => refusals[d] <= excused[d]
        /\ refusals[d] <= excused[d] \/ (Held(d) /\ refusals[d] <= excused[d] + 1)
        /\ Held(d) => t.key # token[d]
    BY <1>0, <1>8 DEF DeviceInv, ThreadInv, RefusalInv, FleetTypes, Busy, Held
  <2>1. /\ next.key # token[d] => refusals'[d] <= excused'[d]
        /\ result = "ok" => refusals'[d] = 0
    BY <1>2, <1>6, <2>0
  <2>2. result = "refused" /\ t.key = token[d] => Owed(d)'
    BY <1>0, <1>2, <1>4 DEF Owed
  <2>3. refusals'[d] <= excused'[d] \/ ((Held(d)' \/ Owed(d)') /\ refusals'[d] <= excused'[d] + 1)
    BY <1>6, <1>8, <2>0, <2>2
  <2>4. token'[d] = token[d] /\ \A s \in Runs : s # r => Thread(s, d)'.pc \notin Busy
    BY <1>0, <1>4, <1>8
  <2>5. ASSUME NEW s \in Runs, Thread(s, d)'.pc \in Busy
        PROVE  /\ Thread(s, d)'.key # token'[d] => refusals'[d] <= excused'[d]
               /\ Thread(s, d)'.pc = "record" /\ Thread(s, d)'.result = "ok" => refusals'[d] = 0
    BY <1>2, <1>4, <2>1, <2>4, <2>5
  <2> QED BY <2>3, <2>5 DEF RefusalInv
<1>11. TroubleInv(d)'
  <2>1. CASE result \in {"error", "refused"}
    <3>1. Failing(d)'
      BY <1>2, <1>4, <2>1 DEF Failing
    <3> QED BY <1>2, <1>4, <1>8, <2>1, <3>1 DEF TroubleInv, Busy
  <2>2. CASE result \in {"ok", "offline"}
    BY <1>0, <1>2, <1>4, <1>5, <1>8, <2>2 DEF DeviceInv, TroubleInv, Busy
  <2> QED BY <1>1, <2>1, <2>2
<1> QED BY <1>4, <1>7, <1>9, <1>10, <1>11 DEF FleetInv, DeviceInv

(* The heartbeat a pass builds on is one of the files or the empty one.    *)
LEMMA LoadedHeartbeat ==
  ASSUME FleetTypes, NEW d \in Devices, NEW at \in 0..MaxTime
  PROVE  /\ Load(d, at) \in Heartbeats
         /\ hb[d] # None => Load(d, at) = hb[d]
         /\ hb[d] = None => Load(d, at).locked = None
<1>1. Fresh(at) \in Heartbeats /\ Fresh(at).locked = None
  BY DEF Fresh, Heartbeats
<1> QED BY <1>1 DEF Load, FleetTypes

(* What a pass makes of a heartbeat.                                       *)
LEMMA RecordedHeartbeat ==
  ASSUME NEW h \in Heartbeats, NEW t \in Threads, t.result \in Results, t.key \in Tokens
  PROVE  /\ Recorded(h, t) \in Heartbeats
         /\ t.result \in {"error", "refused"} => Recorded(h, t).verdict = "error"
         /\ t.result \in {"offline", "locked"} => Recorded(h, t).verdict = h.verdict
         /\ Recorded(h, t).locked = (IF t.result = "ok" THEN None
                                     ELSE IF t.result = "refused" THEN t.key ELSE h.locked)
<1> DEFINE success == IF t.result = "ok" THEN t.at ELSE h.success
           verdict == CASE t.result = "ok" -> "ok" [] t.result \in {"error", "refused"} -> "error"
                        [] OTHER -> h.verdict
           locked == CASE t.result = "ok" -> None [] t.result = "refused" -> t.key [] OTHER -> h.locked
<1>1. /\ h.success \in (0..MaxTime) \cup {None} /\ h.verdict \in {"ok", "error"}
      /\ h.locked \in Tokens \cup {None} /\ t.at \in 0..MaxTime
  BY DEF Heartbeats, Threads
<1>2. /\ success \in (0..MaxTime) \cup {None}
      /\ verdict \in {"ok", "error"} /\ (t.result \in {"error", "refused"} => verdict = "error")
      /\ (t.result \in {"offline", "locked"} => verdict = h.verdict)
      /\ locked \in Tokens \cup {None}
      /\ locked = (IF t.result = "ok" THEN None ELSE IF t.result = "refused" THEN t.key ELSE h.locked)
  BY <1>1
<1>3. Recorded(h, t) = [h EXCEPT !.success = success, !.verdict = verdict, !.locked = locked]
  BY DEF Recorded
<1> HIDE DEF success, verdict, locked
<1>4. Recorded(h, t) \in Heartbeats /\ Recorded(h, t).verdict = verdict /\ Recorded(h, t).locked = locked
  BY <1>1, <1>2, <1>3 DEF Heartbeats
<1> QED BY <1>2, <1>4

(* Record: the heartbeat is written, or the write fails.                   *)
LEMMA RecordKeeps ==
  ASSUME FleetInv, NEW r \in Runs, NEW d \in Devices, Record(r, d) PROVE FleetInv'
<1> DEFINE t == Thread(r, d)
           h == Load(d, t.at)
           s == Recorded(h, t)
           next == [t EXCEPT !.pc = "push", !.mem = s]
<1>0. /\ FleetTypes /\ DeviceInv(d) /\ t.pc = "record" /\ t \in Threads
      /\ UNCHANGED <<now, token, holder, monitor, trouble, refusals>>
      /\ SetThread(r, d, next)
      /\ \/ hb' = [hb EXCEPT ![d] = s] /\ UNCHANGED <<faults, excused>>
         \/ /\ faults' = faults + 1 /\ UNCHANGED hb
            /\ excused' = [excused EXCEPT ![d] = IF t.result = "refused" /\ t.key = token[d] THEN @ + 1 ELSE @]
  BY DEF FleetInv, FleetTypes, Record, Thread
<1>1. t.result \in Results /\ t.key \in Tokens /\ t.at \in 0..MaxTime
  BY <1>0 DEF DeviceInv, ThreadInv, Busy, Threads
<1>2. /\ h \in Heartbeats /\ (hb[d] # None => h = hb[d]) /\ (hb[d] = None => h.locked = None)
  BY <1>0, <1>1, LoadedHeartbeat
<1>3. /\ s \in Heartbeats /\ s # None
      /\ t.result \in {"error", "refused"} => s.verdict = "error"
      /\ t.result \in {"offline", "locked"} => s.verdict = h.verdict
      /\ s.locked = (IF t.result = "ok" THEN None ELSE IF t.result = "refused" THEN t.key ELSE h.locked)
  BY <1>0, <1>1, <1>2, RecordedHeartbeat, FleetAssumption
<1> HIDE DEF h, s
<1>4. next \in Threads /\ next.pc = "push" /\ next.key = t.key /\ next.mem = s
  <2>1. "push" \in ThreadPcs
    BY DEF ThreadPcs, Busy
  <2> QED BY <1>0, <1>3, <2>1 DEF Threads
<1> HIDE DEF next
<1>5. excused' \in [Devices -> Nat]
      /\ \A e \in Devices \ {d} : excused'[e] = excused[e] /\ hb'[e] = hb[e]
  <2>1. excused[d] \in Nat
    BY <1>0 DEF FleetTypes
  <2> QED BY <1>0, <2>1 DEF FleetTypes
<1>6. /\ \A e \in Devices \ {d} : DeviceInv(e)'
      /\ pass' \in [Runs -> [Devices -> Threads]] /\ Thread(r, d)' = next
      /\ \A q \in Runs : q # r => Thread(q, d)' = Thread(q, d)
  <2>1. faults' = 0 => faults = 0
    BY <1>0 DEF FleetTypes
  <2> QED BY <1>0, <1>4, <1>5, <2>1, ThreadMoves
<1>7. FleetTypes'
  BY <1>0, <1>3, <1>5, <1>6 DEF FleetTypes
<1>8. holder[d] = r /\ \A q \in Runs : q # r => Thread(q, d).pc \notin Busy
  BY <1>0, HolderAlone DEF Busy
<1>9. \/ hb'[d] = s /\ faults' = faults /\ excused'[d] = excused[d]
      \/ /\ hb'[d] = hb[d] /\ faults' # 0
         /\ excused'[d] = (IF t.result = "refused" /\ t.key = token[d] THEN excused[d] + 1 ELSE excused[d])
  BY <1>0 DEF FleetTypes
<1>10. LockInv(d)'
  BY <1>0, <1>4, <1>6, <1>8, FleetAssumption DEF LockInv, Busy
<1>11. ThreadInv(d)'
  <2>1. ASSUME NEW q \in Runs, q # r PROVE Thread(q, d)'.pc \notin Busy /\ (Thread(q, d)'.pc = "start" => Thread(q, d)'.result \in {"error", None})
    BY <1>0, <1>6, <1>8, <2>1 DEF DeviceInv, ThreadInv
  <2> QED BY <1>1, <1>3, <1>4, <1>6, <1>9, <2>1 DEF ThreadInv, Busy
<1>12. LoudInv(d)'
  <2>1. s.locked # None => s.verdict = "error"
    BY <1>0, <1>1, <1>2, <1>3, FleetAssumption DEF DeviceInv, LoudInv, Results
  <2> QED BY <1>0, <1>9, <2>1 DEF DeviceInv, LoudInv
<1>13. RefusalInv(d)'
  <2>0. /\ refusals[d] \in Nat /\ excused[d] \in Nat
        /\ t.key # token[d] => refusals[d] <= excused[d]
        /\ t.result = "ok" => refusals[d] = 0
        /\ refusals[d] <= excused[d]
           \/ ((Held(d) \/ (t.result = "refused" /\ t.key = token[d])) /\ refusals[d] <= excused[d] + 1)
    <3>1. Owed(d) => t.result = "refused" /\ t.key = token[d]
      BY <1>8 DEF Owed, Busy
    <3> QED BY <1>0, <3>1 DEF DeviceInv, RefusalInv, FleetTypes, Busy
  <2>1. excused'[d] \in Nat /\ (t.key # token[d] => refusals[d] <= excused'[d])
    BY <1>9, <2>0
  <2>2. refusals[d] <= excused'[d] \/ (Held(d)' /\ refusals[d] <= excused'[d] + 1)
    <3>1. CASE hb'[d] = s /\ excused'[d] = excused[d]
      <4>1. t.result = "refused" /\ t.key = token[d] => Held(d)'
        BY <1>0, <1>3, <3>1 DEF Held
      <4>2. Held(d) /\ t.result \notin {"ok", "refused"} => Held(d)'
        BY <1>0, <1>2, <1>3, <3>1 DEF Held
      <4> QED BY <2>0, <3>1, <4>1, <4>2
    <3>2. CASE /\ hb'[d] = hb[d]
               /\ excused'[d] = (IF t.result = "refused" /\ t.key = token[d] THEN excused[d] + 1 ELSE excused[d])
      <4>1. Held(d)' = Held(d)
        BY <1>0, <3>2 DEF Held
      <4> QED BY <2>0, <3>2, <4>1
    <3> QED BY <1>9, <3>1, <3>2
  <2>3. ASSUME NEW q \in Runs, Thread(q, d)'.pc \in Busy
        PROVE  /\ Thread(q, d)'.key # token'[d] => refusals'[d] <= excused'[d]
               /\ Thread(q, d)'.pc = "record" /\ Thread(q, d)'.result = "ok" => refusals'[d] = 0
    BY <1>0, <1>4, <1>6, <1>8, <2>1, <2>3
  <2>4. refusals'[d] <= excused'[d] \/ ((Held(d)' \/ Owed(d)') /\ refusals'[d] <= excused'[d] + 1)
    BY <1>0, <2>2
  <2> QED BY <2>3, <2>4 DEF RefusalInv
<1>14. TroubleInv(d)'
  <2>1. \A q \in Runs : Thread(q, d)'.pc # "record"
    BY <1>4, <1>6, <1>8 DEF Busy
  <2>2. ASSUME faults' = 0, trouble[d] PROVE hb'[d] # None /\ hb'[d].verdict = "error"
    <3>1. hb'[d] = s /\ faults = 0 /\ t.result # "ok"
      BY <1>0, <1>9, <2>2 DEF DeviceInv, TroubleInv
    <3>2. t.result \in {"offline", "locked"} => hb[d] # None /\ hb[d].verdict = "error"
      <4>1. t.result \in {"offline", "locked"} => ~Failing(d)
        BY <1>8 DEF Failing, Busy
      <4> QED BY <1>0, <2>2, <3>1, <4>1 DEF DeviceInv, TroubleInv
    <3> QED BY <1>1, <1>2, <1>3, <3>1, <3>2 DEF Results
  <2> QED BY <1>0, <2>1, <2>2 DEF TroubleInv
<1> QED BY <1>6, <1>7, <1>10, <1>11, <1>12, <1>13, <1>14 DEF FleetInv, DeviceInv

(* Push: the monitor is told, and the lock is let go.                      *)
LEMMA PushKeeps ==
  ASSUME FleetInv, NEW r \in Runs, NEW d \in Devices, Push(r, d) PROVE FleetInv'
<1> DEFINE t == Thread(r, d)
<1>0. /\ FleetTypes /\ DeviceInv(d) /\ t.pc = "push"
      /\ UNCHANGED <<now, token, hb, faults, trouble, refusals, excused>>
      /\ holder' = [holder EXCEPT ![d] = None] /\ SetThread(r, d, Quiet)
  BY DEF FleetInv, Push
<1>1. \A e \in Devices \ {d} : holder'[e] = holder[e]
  BY <1>0 DEF FleetTypes
<1>2. /\ \A e \in Devices \ {d} : DeviceInv(e)'
      /\ pass' \in [Runs -> [Devices -> Threads]] /\ Thread(r, d)' = Quiet
      /\ \A s \in Runs : s # r => Thread(s, d)' = Thread(s, d)
  BY <1>0, <1>1, QuietThread, ThreadMoves
<1>3. FleetTypes' /\ holder'[d] = None
  <2>1. monitor' \in [Devices -> {"up", "down", None}]
    <3>1. (IF Alarm(t.mem, t.at) THEN "down" ELSE "up") \in {"up", "down", None}
      OBVIOUS
    <3>2. \/ monitor' = [monitor EXCEPT ![d] = IF Alarm(t.mem, t.at) THEN "down" ELSE "up"]
          \/ UNCHANGED monitor
      BY DEF Push
    <3> QED BY <1>0, <3>1, <3>2 DEF FleetTypes
  <2> QED BY <1>0, <1>2, <2>1 DEF FleetTypes
<1>4. \A s \in Runs : Thread(s, d)'.pc \notin Busy
  BY <1>0, <1>2, HolderAlone, QuietThread DEF Busy
<1>5. LockInv(d)'
  BY <1>3, <1>4, FleetAssumption DEF LockInv
<1>6. ThreadInv(d)' /\ LoudInv(d)'
  BY <1>0, <1>2, <1>4, QuietThread DEF DeviceInv, ThreadInv, LoudInv, Busy
<1>7. ~Owed(d) /\ ~Failing(d) /\ Held(d)' = Held(d)
  BY <1>0, HolderAlone DEF Owed, Failing, Held, Busy
<1>8. RefusalInv(d)' /\ TroubleInv(d)'
  BY <1>0, <1>4, <1>7 DEF DeviceInv, RefusalInv, TroubleInv, Busy
<1> QED BY <1>2, <1>3, <1>5, <1>6, <1>8 DEF FleetInv, DeviceInv

(* A killed fleet loses the threads of its run on every device.            *)
LEMMA FleetDiesKeeps == ASSUME FleetInv, NEW r \in Runs, FleetDies(r) PROVE FleetInv'
<1> DEFINE unsaid == {d \in Devices : Thread(r, d).pc = "record" /\ Thread(r, d).result = "refused"
                                      /\ Thread(r, d).key = token[d]}
<1>0. /\ FleetTypes /\ faults' = faults + 1
      /\ UNCHANGED <<now, token, hb, monitor, trouble, refusals>>
      /\ pass' = [pass EXCEPT ![r] = [d \in Devices |-> Quiet]]
      /\ holder' = [d \in Devices |-> IF holder[d] = r THEN None ELSE holder[d]]
      /\ excused' = [d \in Devices |-> excused[d] + (IF d \in unsaid THEN 1 ELSE 0)]
  BY DEF FleetInv, FleetDies
<1>1. /\ pass' \in [Runs -> [Devices -> Threads]]
      /\ \A d \in Devices : Thread(r, d)' = Quiet
      /\ \A s \in Runs, d \in Devices : s # r => Thread(s, d)' = Thread(s, d)
  BY <1>0, QuietThread DEF FleetTypes, Thread
<1>2. /\ \A d \in Devices : /\ excused'[d] = (IF d \in unsaid THEN excused[d] + 1 ELSE excused[d])
                             /\ holder'[d] = (IF holder[d] = r THEN None ELSE holder[d])
                             /\ excused[d] \in Nat /\ refusals[d] \in Nat
      /\ excused' \in [Devices -> Nat] /\ holder' \in [Devices -> Runs \cup {None}]
      /\ faults' \in Nat /\ faults' # 0
  BY <1>0 DEF FleetTypes
<1>3. FleetTypes'
  BY <1>0, <1>1, <1>2 DEF FleetTypes
<1>4. ASSUME NEW d \in Devices PROVE DeviceInv(d)'
  <2>0. DeviceInv(d) /\ Thread(r, d)'.pc = "idle"
    BY <1>1, QuietThread DEF FleetInv
  <2>1. LockInv(d)'
    BY <1>1, <1>2, <2>0, FleetAssumption DEF DeviceInv, LockInv, Busy
  <2>2. ThreadInv(d)' /\ LoudInv(d)'
    BY <1>0, <1>1, <1>2, <2>0 DEF DeviceInv, ThreadInv, LoudInv, Busy
  <2>3. Held(d)' = Held(d) /\ (Owed(d) => Owed(d)' \/ d \in unsaid)
    BY <1>0, <1>1 DEF Held, Owed
  <2>4. /\ excused[d] <= excused'[d] /\ excused'[d] \in Nat
        /\ refusals[d] <= excused'[d] \/ ((Held(d)' \/ Owed(d)') /\ refusals[d] <= excused'[d] + 1)
    <3>1. refusals[d] <= excused[d] \/ ((Held(d) \/ Owed(d)) /\ refusals[d] <= excused[d] + 1)
      BY <2>0 DEF DeviceInv, RefusalInv
    <3>2. excused'[d] = IF d \in unsaid THEN excused[d] + 1 ELSE excused[d]
      BY <1>2
    <3> HIDE DEF unsaid
    <3> QED BY <1>2, <2>3, <3>1, <3>2
  <2>5. ASSUME NEW s \in Runs, Thread(s, d)'.pc \in Busy
        PROVE  /\ Thread(s, d)'.key # token'[d] => refusals'[d] <= excused'[d]
               /\ Thread(s, d)'.pc = "record" /\ Thread(s, d)'.result = "ok" => refusals'[d] = 0
    <3>1. s # r /\ Thread(s, d)' = Thread(s, d)
      BY <1>1, <2>0, <2>5 DEF Busy
    <3> QED BY <1>0, <1>2, <2>0, <2>4, <2>5, <3>1 DEF DeviceInv, RefusalInv
  <2>6. RefusalInv(d)'
    BY <1>0, <2>4, <2>5 DEF RefusalInv
  <2>7. TroubleInv(d)'
    BY <1>0, <1>1, <1>2, <2>0 DEF DeviceInv, TroubleInv
  <2> QED BY <2>1, <2>2, <2>6, <2>7 DEF DeviceInv
<1> QED BY <1>3, <1>4 DEF FleetInv

(* A replaced token file forgets what was refused.                         *)
LEMMA ReplaceTokenKeeps == ASSUME FleetInv, NEW d \in Devices, ReplaceToken(d) PROVE FleetInv'
<1>0. /\ FleetTypes /\ DeviceInv(d)
      /\ UNCHANGED <<now, hb, holder, pass, monitor, faults, trouble>>
      /\ refusals' = [refusals EXCEPT ![d] = 0] /\ excused' = [excused EXCEPT ![d] = 0]
  BY DEF FleetInv, ReplaceToken
<1>1. /\ token' \in [Devices -> Tokens] /\ \A e \in Devices \ {d} : token'[e] = token[e]
  BY <1>0 DEF FleetTypes, ReplaceToken
<1>2. /\ FleetTypes' /\ refusals'[d] = 0 /\ excused'[d] = 0
      /\ \A e \in Devices \ {d} : refusals'[e] = refusals[e] /\ excused'[e] = excused[e]
  BY <1>0, <1>1 DEF FleetTypes
<1>3. ASSUME NEW e \in Devices \ {d} PROVE DeviceInv(e)'
  BY <1>0, <1>1, <1>2, Unmoved DEF FleetInv
<1>4. \A s \in Runs : Thread(s, d)' = Thread(s, d)
  BY <1>0 DEF Thread
<1>5. LockInv(d)' /\ ThreadInv(d)' /\ LoudInv(d)'
  BY <1>0, <1>4 DEF DeviceInv, LockInv, ThreadInv, LoudInv
<1>6. RefusalInv(d)'
  BY <1>2 DEF RefusalInv
<1>7. Failing(d)' = Failing(d)
  BY <1>4 DEF Failing
<1>8. TroubleInv(d)'
  BY <1>0, <1>4, <1>7 DEF DeviceInv, TroubleInv
<1> QED BY <1>2, <1>3, <1>5, <1>6, <1>8 DEF FleetInv, DeviceInv

(* Every step of every thread, a replaced token file and a killed fleet    *)
(* keep the invariant.                                                     *)
LEMMA StepFleet == FleetInv /\ [FleetNext]_fleetVars => FleetInv'
<1> SUFFICES ASSUME FleetInv, [FleetNext]_fleetVars PROVE FleetInv'
  OBVIOUS
<1>1. ASSUME UNCHANGED <<token, hb, holder, pass, monitor, faults, trouble, refusals, excused>>,
             now' \in 0..MaxTime
      PROVE  FleetInv'
  <2>1. FleetTypes'
    BY <1>1 DEF FleetInv, FleetTypes
  <2>2. ASSUME NEW d \in Devices PROVE DeviceInv(d)'
    BY <1>1, Unmoved DEF FleetInv
  <2> QED BY <2>1, <2>2 DEF FleetInv
<1>2. CASE \E r \in Runs : RunOnce(r)
  BY <1>2, RunOnceKeeps
<1>3. CASE \E r \in Runs : FleetDies(r)
  BY <1>3, FleetDiesKeeps
<1>4. CASE \E r \in Runs, d \in Devices : ThreadStep(r, d)
  BY <1>4, PassBeginsKeeps, CollectorReadsTokenKeeps, CollectorEndsKeeps, RecordKeeps, PushKeeps
     DEF ThreadStep
<1>5. CASE \E d \in Devices : ReplaceToken(d)
  BY <1>5, ReplaceTokenKeeps
<1>6. CASE \E d \in Devices : OrphanEnds(d)
  BY <1>1, <1>6 DEF OrphanEnds, FleetInv, FleetTypes
<1>7. CASE World
  <2>1. now' \in 0..MaxTime
    BY <1>7, FleetAssumption DEF World, FleetInv, FleetTypes
  <2> QED BY <1>1, <1>7, <2>1 DEF World
<1>8. CASE UNCHANGED fleetVars
  BY <1>1, <1>8 DEF fleetVars, FleetInv, FleetTypes
<1> QED BY <1>2, <1>3, <1>4, <1>5, <1>6, <1>7, <1>8 DEF FleetNext

(* The invariant holds in every state of the fleet.                        *)
LEMMA FleetKeepsInv == FleetSpec => []FleetInv
BY InitFleet, StepFleet, PTL DEF FleetSpec

(* A credential the device refused is not offered again until the token    *)
(* file changes, and a locked device stays in alarm, for any number of     *)
(* devices and of overlapping runs of the fleet.                           *)
THEOREM FleetTheorem == FleetSpec => []NotAskedAgain
<1>1. FleetInv => NotAskedAgain
  <2> SUFFICES ASSUME FleetInv PROVE NotAskedAgain
    OBVIOUS
  <2>1. FleetTypeOK
    <3>1. \A r \in Runs, d \in Devices : Thread(r, d) \in Threads
      BY DEF FleetInv, FleetTypes, Thread
    <3>2. \A r \in Runs, d \in Devices : Thread(r, d).pc \in ThreadPcs
      BY <3>1 DEF Threads
    <3> QED BY <3>2 DEF FleetInv, FleetTypes, FleetTypeOK, ThreadPcs, Busy
  <2>2. LockedIsLoud
    BY DEF FleetInv, DeviceInv, LoudInv, LockedIsLoud
  <2>3. \A d \in Devices : refusals[d] <= 1 + excused[d]
    BY DEF FleetInv, FleetTypes, DeviceInv, RefusalInv
  <2> QED BY <2>1, <2>2, <2>3 DEF NotAskedAgain
<1> QED BY <1>1, FleetKeepsInv, PTL

(* The monitor hears "up" only when the last word on the device is a       *)
(* success that is not too old.                                            *)
THEOREM UpTheorem == FleetSpec => UpIsEarned
<1> DEFINE Earned == \A d \in Devices : \A r \in Runs :
             /\ Thread(r, d).pc = "push" /\ pass'[r][d].pc = "idle" /\ monitor'[d] # monitor[d]
             /\ monitor'[d] = "up"
             => (~trouble[d] \/ faults > 0) /\ Age(Thread(r, d).mem, Thread(r, d).at) <= StaleAfter
<1>1. FleetInv /\ [FleetNext]_fleetVars => [Earned]_fleetVars
  <2> SUFFICES ASSUME FleetInv, FleetNext, NEW d \in Devices, NEW r \in Runs,
                      Thread(r, d).pc = "push", pass'[r][d].pc = "idle", monitor'[d] # monitor[d],
                      monitor'[d] = "up"
               PROVE  (~trouble[d] \/ faults > 0) /\ Age(Thread(r, d).mem, Thread(r, d).at) <= StaleAfter
    OBVIOUS
  <2>0. FleetTypes /\ DeviceInv(d)
    BY DEF FleetInv
  <2>1. PICK q \in Runs, e \in Devices : Push(q, e)
    <3>1. \A q \in Runs, e \in Devices :
            PassBegins(q, e) \/ CollectorReadsToken(q, e) \/ CollectorEnds(q, e) \/ Record(q, e)
            => UNCHANGED monitor
      BY DEF PassBegins, CollectorReadsToken, CollectorEnds, Record
    <3>2. \A q \in Runs : RunOnce(q) \/ FleetDies(q) => UNCHANGED monitor
      BY DEF RunOnce, FleetDies
    <3>3. (\E e \in Devices : OrphanEnds(e) \/ ReplaceToken(e)) \/ World => UNCHANGED monitor
      BY DEF OrphanEnds, ReplaceToken, World
    <3> QED BY <3>1, <3>2, <3>3 DEF FleetNext, ThreadStep
  <2>2. monitor' = [monitor EXCEPT ![e] = IF Alarm(Thread(q, e).mem, Thread(q, e).at) THEN "down" ELSE "up"]
    BY <2>1 DEF Push
  <2>3. d = e /\ q = r
    <3>1. d = e
      BY <2>0, <2>2 DEF FleetTypes
    <3>2. Thread(q, d).pc \in Busy /\ Thread(r, d).pc \in Busy
      BY <2>1, <3>1 DEF Push, Busy
    <3> QED BY <2>0, <3>1, <3>2, HolderAlone
  <2>4. ~Alarm(Thread(r, d).mem, Thread(r, d).at)
    BY <2>0, <2>2, <2>3 DEF FleetTypes
  <2>5. /\ Thread(r, d) \in Threads /\ Thread(r, d).mem # None
        /\ faults = 0 => hb[d] = Thread(r, d).mem
    BY <2>0 DEF DeviceInv, ThreadInv, FleetTypes, Thread
  <2>6. /\ Thread(r, d).mem.verdict # "error"
        /\ ~(Age(Thread(r, d).mem, Thread(r, d).at) > StaleAfter)
    BY <2>4, <2>5 DEF Alarm
  <2>7. ~trouble[d] \/ faults > 0
    <3>1. ~Failing(d)
      BY <2>0, HolderAlone DEF Failing, Busy
    <3> QED BY <2>0, <2>5, <2>6, <3>1 DEF DeviceInv, TroubleInv, FleetTypes
  <2>8. Age(Thread(r, d).mem, Thread(r, d).at) \in Int
    <3>1. Thread(r, d).mem \in Heartbeats /\ Thread(r, d).at \in 0..MaxTime
      BY <2>5 DEF Threads
    <3>2. /\ Thread(r, d).mem.created \in 0..MaxTime
          /\ Thread(r, d).mem.success \in (0..MaxTime) \cup {None}
      BY <3>1 DEF Heartbeats
    <3> QED BY <3>1, <3>2 DEF Age
  <2> QED BY <2>6, <2>7, <2>8, FleetAssumption
<1>2. FleetSpec => [][Earned]_fleetVars
  BY <1>1, FleetKeepsInv, PTL DEF FleetSpec
<1> QED BY <1>2 DEF UpIsEarned

-----------------------------------------------------------------------------
(* The diagnostics of one ECU read back from the log.                      *)

(* A finite set as a sequence: every element, once.                        *)
LEMMA InSomeOrder ==
  ASSUME NEW S, IsFiniteSet(S)
  PROVE  /\ SetToSeq(S) \in Seq(S)
         /\ \A x \in S : \E i \in 1..Len(SetToSeq(S)) : SetToSeq(S)[i] = x
         /\ \A i, j \in 1..Len(SetToSeq(S)) : SetToSeq(S)[i] = SetToSeq(S)[j] => i = j
<1> DEFINE n == Cardinality(S)
           t == SetToSeq(S)
<1>1. n \in Nat /\ ExistsBijection(1..n, S)
  BY FS_CardinalityType
<1>2. \E g \in [1..n -> S] : IsInjective(g)
  BY <1>1 DEF ExistsBijection, Bijection, Injection
<1>3. t \in [1..n -> S] /\ IsInjective(t)
  BY <1>2 DEF SetToSeq
<1> HIDE DEF t
<1>4. t \in Seq(S) /\ Len(t) = n /\ DOMAIN t = 1..n
  BY <1>1, <1>3
<1>5. Cardinality(1..n) = n
  BY <1>1, FS_Interval
<1>6. t \in Surjection(1..n, S)
  BY <1>3, <1>5, FS_Injection DEF Injection
<1>7. \A x \in S : \E i \in 1..Len(t) : t[i] = x
  BY <1>4, <1>6 DEF Surjection
<1>8. \A i, j \in 1..Len(t) : t[i] = t[j] => i = j
  BY <1>3, <1>4 DEF IsInjective
<1> QED BY <1>4, <1>7, <1>8 DEF t


(* A reading: its parts, and a sequence of events.                         *)
ReaderShape(s) ==
  /\ DOMAIN s = {"rx", "state", "dtcs", "events", "counts"}
  /\ DOMAIN s.rx = {"started", "buf", "need", "sn", "quiet", "request"}
  /\ \E S : s.events \in Seq(S)

(* From s to t: the new events; events are only added; and none of those   *)
(* added, nor the codes listed, say anything of a fault or a refusal.      *)
New(s, t) == (Len(s.events) + 1)..Len(t.events)
Grown(s, t) ==
  /\ Len(s.events) \in Nat /\ Len(t.events) \in Nat /\ Len(s.events) <= Len(t.events)
  /\ \A i \in 1..Len(s.events) : t.events[i] = s.events[i]
Beside(s, t) ==
  /\ ReaderShape(t) /\ Grown(s, t) /\ t.dtcs = s.dtcs
  /\ \A i \in New(s, t) : t.events[i].kind \notin {"dtc", "nrc"}

(* Nothing changed but what holds the frames.                              *)
LEMMA BesideRefl == ASSUME NEW s, NEW t, ReaderShape(s), ReaderShape(t), t.dtcs = s.dtcs,
                           t.events = s.events
                    PROVE Beside(s, t)
BY DEF Beside, Grown, New, ReaderShape

(* One such change after another.                                          *)
LEMMA BesideTrans ==
  ASSUME NEW s, NEW t, NEW u, Beside(s, t), Beside(t, u) PROVE Beside(s, u)
<1>1. Grown(s, u)
  BY DEF Beside, Grown
<1>2. \A i \in New(s, u) : i \in New(t, u) \/ (i \in New(s, t) /\ i \in 1..Len(t.events))
  BY DEF Beside, Grown, New
<1>3. \A i \in New(s, u) : u.events[i].kind \notin {"dtc", "nrc"}
  <2> SUFFICES ASSUME NEW i \in New(s, u) PROVE u.events[i].kind \notin {"dtc", "nrc"}
    OBVIOUS
  <2>1. CASE i \in New(t, u)
    BY <2>1 DEF Beside
  <2>2. CASE i \in New(s, t) /\ i \in 1..Len(t.events)
    BY <2>2 DEF Beside, Grown
  <2> QED BY <1>2, <2>1, <2>2
<1> QED BY <1>1, <1>3 DEF Beside

(* Raising an event adds it at the end.                                    *)
LEMMA RaiseGrows ==
  ASSUME NEW s, ReaderShape(s), NEW e
  PROVE  /\ ReaderShape(Raise(s, e)) /\ Grown(s, Raise(s, e))
         /\ Raise(s, e).rx = s.rx /\ Raise(s, e).dtcs = s.dtcs /\ Raise(s, e).counts = s.counts
         /\ Raise(s, e).state = s.state
         /\ Len(Raise(s, e).events) = Len(s.events) + 1
         /\ New(s, Raise(s, e)) = {Len(s.events) + 1}
         /\ Raise(s, e).events[Len(s.events) + 1] = e
         /\ (e.kind \notin {"dtc", "nrc"} => Beside(s, Raise(s, e)))
<1> DEFINE t == Raise(s, e)
<1>1. PICK S : s.events \in Seq(S)
  BY DEF ReaderShape
<1>2. DOMAIN t = DOMAIN s /\ t.rx = s.rx /\ t.dtcs = s.dtcs /\ t.counts = s.counts
      /\ t.state = s.state /\ t.events = Append(s.events, e)
  BY DEF Raise, ReaderShape
<1> HIDE DEF t
<1>3. s.events \in Seq(S \cup {e}) /\ e \in S \cup {e} /\ Len(s.events) \in Nat
  BY <1>1
<1>4. /\ t.events \in Seq(S \cup {e}) /\ Len(t.events) = Len(s.events) + 1
      /\ t.events[Len(s.events) + 1] = e
      /\ \A i \in 1..Len(s.events) : t.events[i] = s.events[i]
  BY <1>2, <1>3
<1>5. ReaderShape(t)
  BY <1>2, <1>4 DEF ReaderShape
<1>6. Grown(s, t)
  BY <1>3, <1>4 DEF Grown
<1>7. New(s, t) = {Len(s.events) + 1}
  BY <1>3, <1>4 DEF New
<1>8. e.kind \notin {"dtc", "nrc"} => Beside(s, t)
  BY <1>2, <1>4, <1>5, <1>6, <1>7 DEF Beside
<1> QED BY <1>2, <1>4, <1>5, <1>6, <1>7, <1>8 DEF t

(* Counting changes no more than the counts.                               *)
LEMMA CountShape ==
  ASSUME NEW s, ReaderShape(s), NEW what
  PROVE  /\ Beside(s, Count(s, what)) /\ Count(s, what).rx = s.rx
         /\ Count(s, what).events = s.events
         /\ what \in Count(s, what).counts
<1> DEFINE t == Count(s, what)
<1>1. DOMAIN t = DOMAIN s /\ t.rx = s.rx /\ t.dtcs = s.dtcs /\ t.events = s.events /\ what \in t.counts
  BY DEF Count, ReaderShape
<1> HIDE DEF t
<1>2. ReaderShape(t)
  BY <1>1 DEF ReaderShape
<1> QED BY <1>1, <1>2, BesideRefl DEF t

(* A state decoded again is no fault and no refusal.                       *)
LEMMA StateShape ==
  ASSUME NEW s, ReaderShape(s), NEW v
  PROVE  Beside(s, StateAnswer(s, v)) /\ StateAnswer(s, v).rx = s.rx
<1>1. CASE s.state = v
  BY <1>1, BesideRefl DEF StateAnswer
<1>2. CASE s.state # v
  <2> DEFINE a == [s EXCEPT !.state = v]
             e == Ev("state", v, IF s.state = None THEN "initial" ELSE s.state)
  <2>1. StateAnswer(s, v) = Raise(a, e)
    BY <1>2 DEF StateAnswer
  <2>2. DOMAIN a = DOMAIN s /\ a.rx = s.rx /\ a.dtcs = s.dtcs /\ a.events = s.events
    BY DEF ReaderShape
  <2>3. e.kind \notin {"dtc", "nrc"}
    BY DEF Ev
  <2> HIDE DEF a, e
  <2>4. ReaderShape(a)
    BY <2>2 DEF ReaderShape
  <2>5. Beside(s, a)
    BY <2>2, <2>4, BesideRefl
  <2>6. Beside(a, Raise(a, e)) /\ Raise(a, e).rx = s.rx
    BY <2>2, <2>3, <2>4, RaiseGrows
  <2> QED BY <2>1, <2>5, <2>6, BesideTrans
<1> QED BY <1>1, <1>2

(* Nor is any other answer to the catalogued group.                        *)
LEMMA GroupShape ==
  ASSUME NEW s, ReaderShape(s), NEW v
  PROVE  Beside(s, GroupAnswer(s, v)) /\ GroupAnswer(s, v).rx = s.rx
<1>1. CASE v = "short"
  BY <1>1, CountShape DEF GroupAnswer
<1>2. CASE v = "unavailable"
  <2> DEFINE a == Count(s, "unavailable values")
             b == StateAnswer(a, v)
             e == Ev("unavailable", v, "")
  <2>1. GroupAnswer(s, v) = Raise(b, e)
    BY <1>2 DEF GroupAnswer
  <2>2. e.kind \notin {"dtc", "nrc"}
    BY DEF Ev
  <2>3. Beside(s, a) /\ a.rx = s.rx /\ ReaderShape(a)
    BY CountShape DEF Beside
  <2> HIDE DEF a, e
  <2>4. Beside(a, b) /\ b.rx = s.rx /\ ReaderShape(b)
    BY <2>3, StateShape DEF Beside
  <2> HIDE DEF b
  <2>5. Beside(b, Raise(b, e)) /\ Raise(b, e).rx = s.rx
    BY <2>2, <2>4, RaiseGrows
  <2> DEFINE u == Raise(b, e)
  <2>6. Beside(b, u) /\ u.rx = s.rx /\ GroupAnswer(s, v) = u
    BY <2>1, <2>5
  <2> HIDE DEF u
  <2>7. Beside(s, b)
    BY <2>3, <2>4, BesideTrans
  <2>8. Beside(s, u)
    BY <2>6, <2>7, BesideTrans
  <2> QED BY <2>6, <2>8
<1>3. CASE v # "short" /\ v # "unavailable"
  BY <1>3, StateShape DEF GroupAnswer
<1> QED BY <1>1, <1>2, <1>3

(* The request an answer that lists faults is taken to answer, and what was*)
(* listed for it before (DtcAnswer).                                       *)
Asked(s) == IF s.rx.request # None /\ s.rx.request.sid = "19" THEN s.rx.request ELSE None
Before(s) == IF Asked(s) \in DOMAIN s.dtcs THEN s.dtcs[Asked(s)] ELSE None

(* The fault events of an answer: all of them, once, and no others.        *)
ListsFaults(s, val, t) ==
  /\ t.dtcs = [r \in DOMAIN s.dtcs \cup {Asked(s)} |-> IF r = Asked(s) THEN val ELSE s.dtcs[r]]
  /\ \A i \in New(s, t) : t.events[i].kind = "dtc" => t.events[i] \in DtcEvents(Before(s), val)
  /\ \A e \in DtcEvents(Before(s), val) : \E i \in New(s, t) : t.events[i] = e
  /\ \A i, j \in New(s, t) : t.events[i].kind = "dtc" /\ t.events[i] = t.events[j] => i = j

(* The transport holds the same.                                           *)
SameHeld(s, t) ==
  /\ t.rx.buf = s.rx.buf /\ t.rx.need = s.rx.need /\ t.rx.sn = s.rx.sn
  /\ t.rx.started = s.rx.started /\ t.rx.quiet = s.rx.quiet

(* From s to t the answer m was taken up, and nothing else said.           *)
Took(s, m, t) ==
  /\ ReaderShape(t) /\ Grown(s, t)
  /\ t.rx.request = IF m.kind = "pending" THEN s.rx.request ELSE None
  /\ m.kind = "dtcs" => ListsFaults(s, m.val, t)
  /\ m.kind # "dtcs" => t.dtcs = s.dtcs /\ \A i \in New(s, t) : t.events[i].kind # "dtc"
  /\ \A i \in New(s, t) : t.events[i].kind = "nrc" =>
        /\ m.kind = "refused" /\ t.events[i].text = m.of
        /\ t.events[i].name \in {None, s.rx.request}

(* The request is closed.                                                  *)
LEMMA CloseShape ==
  ASSUME NEW s, ReaderShape(s)
  PROVE  LET t == [s EXCEPT !.rx.request = None]
         IN  /\ Beside(s, t) /\ t.rx.request = None /\ t.events = s.events
             /\ t.rx.buf = s.rx.buf /\ t.rx.need = s.rx.need /\ t.rx.sn = s.rx.sn
             /\ t.rx.started = s.rx.started /\ t.rx.quiet = s.rx.quiet
<1> DEFINE t == [s EXCEPT !.rx.request = None]
<1>1. DOMAIN t = DOMAIN s /\ t.rx = [s.rx EXCEPT !.request = None] /\ t.dtcs = s.dtcs /\ t.events = s.events
  BY DEF ReaderShape
<1>2. DOMAIN t.rx = DOMAIN s.rx /\ t.rx.request = None
             /\ t.rx.buf = s.rx.buf /\ t.rx.need = s.rx.need /\ t.rx.sn = s.rx.sn
             /\ t.rx.started = s.rx.started /\ t.rx.quiet = s.rx.quiet
  BY <1>1 DEF ReaderShape
<1> HIDE DEF t
<1>3. ReaderShape(t)
  BY <1>1, <1>2 DEF ReaderShape
<1>4. Beside(s, t)
  BY <1>1, <1>3, BesideRefl
<1> QED BY <1>1, <1>2, <1>4 DEF t

(* There are finitely many codes, and so of events about them.             *)
LEMMA DtcEventsFinite ==
  ASSUME NEW previous, previous = None \/ previous \in SUBSET Codes, NEW current \in SUBSET Codes
  PROVE  IsFiniteSet(DtcEvents(previous, current))
<1> DEFINE text == IF previous = None THEN "initial" ELSE "new"
           A == {Ev("dtc", k, text) : k \in Codes}
           B == {Ev("dtc", k, "cleared") : k \in Codes}
<1>1. IsFiniteSet(A)
  <2> DEFINE g == [k \in Codes |-> Ev("dtc", k, text)]
  <2>1. g \in Surjection(Codes, A)
    BY DEF Surjection
  <2> HIDE DEF g, A
  <2> QED BY <2>1, UdsLogAssumption, FS_Surjection
<1>2. IsFiniteSet(B)
  <2> DEFINE g == [k \in Codes |-> Ev("dtc", k, "cleared")]
  <2>1. g \in Surjection(Codes, B)
    BY DEF Surjection
  <2> HIDE DEF g, B
  <2> QED BY <2>1, UdsLogAssumption, FS_Surjection
<1>3. IsFiniteSet(A \cup B)
  BY <1>1, <1>2, FS_Union
<1>4. DtcEvents(previous, current) \in SUBSET (A \cup B)
  BY DEF DtcEvents
<1> QED BY <1>3, <1>4, FS_Subset

(* An answer that lists the faults is taken up as Took says.               *)
LEMMA DtcTook ==
  ASSUME NEW s, ReaderShape(s), NEW m, m.kind = "dtcs", m.val \in SUBSET Codes,
         Before(s) = None \/ Before(s) \in SUBSET Codes
  PROVE  Took(s, m, DtcAnswer(s, m)) /\ SameHeld(s, DtcAnswer(s, m))
<1> DEFINE t == DtcAnswer(s, m)
           D == DtcEvents(Before(s), m.val)
           o == SetToSeq(D)
<1>1. /\ DOMAIN t = DOMAIN s /\ t.rx = [s.rx EXCEPT !.request = None]
      /\ t.events = s.events \o o
      /\ t.dtcs = [r \in DOMAIN s.dtcs \cup {Asked(s)} |-> IF r = Asked(s) THEN m.val ELSE s.dtcs[r]]
  <2> DEFINE q == Asked(s)
             p == Before(s)
             ee == s.events \o SetToSeq(DtcEvents(p, m.val))
             dd == [r \in DOMAIN s.dtcs \cup {q} |-> IF r = q THEN m.val ELSE s.dtcs[r]]
  <2>1. t = [s EXCEPT !.events = ee, !.dtcs = dd, !.rx.request = None]
    BY DEF DtcAnswer, Asked, Before
  <2>2. ee = s.events \o o
    OBVIOUS
  <2> HIDE DEF ee, t, q, p
  <2> USE DEF dd
  <2>3. DOMAIN t = DOMAIN s /\ t.rx = [s.rx EXCEPT !.request = None] /\ t.events = ee
    BY <2>1 DEF ReaderShape
  <2>4. t.dtcs = dd
    <3> HIDE DEF dd
    <3> QED BY <2>1 DEF ReaderShape
  <2> QED BY <2>2, <2>3, <2>4 DEF q
<1>2. /\ DOMAIN t.rx = DOMAIN s.rx /\ t.rx.request = None
      /\ t.rx.buf = s.rx.buf /\ t.rx.need = s.rx.need /\ t.rx.sn = s.rx.sn
      /\ t.rx.started = s.rx.started /\ t.rx.quiet = s.rx.quiet
  BY <1>1 DEF ReaderShape
<1>3. IsFiniteSet(D)
  BY DtcEventsFinite
<1>4. \A e \in D : e.kind = "dtc"
  BY DEF DtcEvents, Ev
<1> HIDE DEF t, D, o
<1>5. /\ o \in Seq(D) /\ \A x \in D : \E i \in 1..Len(o) : o[i] = x
      /\ \A i, j \in 1..Len(o) : o[i] = o[j] => i = j
  BY <1>3, InSomeOrder DEF o
<1>6. PICK S : s.events \in Seq(S)
  BY DEF ReaderShape
<1>7. Len(s.events) \in Nat /\ Len(o) \in Nat /\ s.events \in Seq(S \cup D) /\ o \in Seq(S \cup D)
  BY <1>5, <1>6
<1>8. /\ t.events \in Seq(S \cup D) /\ Len(t.events) = Len(s.events) + Len(o)
      /\ \A i \in 1..Len(s.events) : t.events[i] = s.events[i]
      /\ \A i \in 1..Len(o) : t.events[i + Len(s.events)] = o[i]
  BY <1>1, <1>7
<1>9. ReaderShape(t) /\ Grown(s, t)
  BY <1>1, <1>2, <1>7, <1>8 DEF ReaderShape, Grown
<1>10. \A i \in New(s, t) : i - Len(s.events) \in 1..Len(o) /\ t.events[i] = o[i - Len(s.events)]
  <2> SUFFICES ASSUME NEW i \in New(s, t)
               PROVE  i - Len(s.events) \in 1..Len(o) /\ t.events[i] = o[i - Len(s.events)]
    OBVIOUS
  <2> DEFINE k == i - Len(s.events)
  <2>1. k \in 1..Len(o) /\ k + Len(s.events) = i
    BY <1>7, <1>8 DEF New
  <2>2. t.events[k + Len(s.events)] = o[k]
    BY <1>8, <2>1
  <2> QED BY <2>1, <2>2
<1>11. \A i \in New(s, t) : t.events[i] \in D
  BY <1>5, <1>10
<1>12. \A e \in D : \E i \in New(s, t) : t.events[i] = e
  <2> SUFFICES ASSUME NEW e \in D PROVE \E i \in New(s, t) : t.events[i] = e
    OBVIOUS
  <2>1. PICK k \in 1..Len(o) : o[k] = e
    BY <1>5
  <2>2. k + Len(s.events) \in New(s, t)
    BY <1>7, <1>8, <2>1 DEF New
  <2> QED BY <1>8, <2>1, <2>2
<1>13. \A i, j \in New(s, t) : t.events[i] = t.events[j] => i = j
  <2> SUFFICES ASSUME NEW i \in New(s, t), NEW j \in New(s, t), t.events[i] = t.events[j] PROVE i = j
    OBVIOUS
  <2>1. o[i - Len(s.events)] = o[j - Len(s.events)]
    BY <1>10
  <2>2. i - Len(s.events) = j - Len(s.events)
    BY <1>5, <1>10, <2>1
  <2> QED BY <2>2, <1>7 DEF New
<1>14. ListsFaults(s, m.val, t)
  BY <1>1, <1>11, <1>12, <1>13 DEF ListsFaults, D
<1>15. \A i \in New(s, t) : t.events[i].kind # "nrc"
  BY <1>4, <1>11
<1> QED BY <1>2, <1>9, <1>14, <1>15 DEF Took, SameHeld, t

(* So is every answer.                                                     *)
LEMMA MessageTook ==
  ASSUME NEW s, ReaderShape(s), NEW m \in Answers,
         Before(s) = None \/ Before(s) \in SUBSET Codes
  PROVE  Took(s, m, Message(s, m)) /\ SameHeld(s, Message(s, m))
<1> DEFINE t == Message(s, m)
<1>1. CASE m.kind = "dtcs"
  <2>1. t = DtcAnswer(s, m)
    BY <1>1 DEF Message
  <2>2. m.val \in SUBSET Codes
    BY <1>1 DEF Answers
  <2> QED BY <1>1, <2>1, <2>2, DtcTook
<1>2. CASE m.kind = "pending"
  <2>1. t = Count(s, "pending")
    BY <1>2 DEF Message
  <2>2. Beside(s, t) /\ t.rx = s.rx
    BY <2>1, CountShape
  <2> HIDE DEF t
  <2> QED BY <1>2, <2>2 DEF Took, SameHeld, Beside, t
<1>3. CASE m.kind = "group"
  <2> DEFINE a == [s EXCEPT !.rx.request = None]
  <2>1. t = GroupAnswer(a, m.val)
    BY <1>3 DEF Message
  <2>2. /\ Beside(s, a) /\ a.rx.request = None
        /\ a.rx.buf = s.rx.buf /\ a.rx.need = s.rx.need /\ a.rx.sn = s.rx.sn
        /\ a.rx.started = s.rx.started /\ a.rx.quiet = s.rx.quiet
    BY CloseShape
  <2> HIDE DEF a, t
  <2>3. Beside(a, t) /\ t.rx = a.rx
    BY <2>1, <2>2, GroupShape DEF Beside
  <2>4. Beside(s, t)
    BY <2>2, <2>3, BesideTrans
  <2> QED BY <1>3, <2>2, <2>3, <2>4 DEF Took, SameHeld, Beside, t
<1>4. CASE m.kind = "refused"
  <2> DEFINE a == [s EXCEPT !.rx.request = None]
             same == s.rx.request # None /\ s.rx.request.sid = m.of.sid
             e == Ev("nrc", IF same THEN s.rx.request ELSE None, m.of)
  <2>1. t = Raise(a, e)
    BY <1>4 DEF Message
  <2>2. /\ Beside(s, a) /\ a.rx.request = None /\ a.events = s.events
        /\ a.rx.buf = s.rx.buf /\ a.rx.need = s.rx.need /\ a.rx.sn = s.rx.sn
        /\ a.rx.started = s.rx.started /\ a.rx.quiet = s.rx.quiet
    BY CloseShape
  <2>3. e.kind = "nrc" /\ e.text = m.of /\ e.name \in {None, s.rx.request}
    BY DEF Ev
  <2> HIDE DEF a, t, e
  <2>4. /\ ReaderShape(t) /\ Grown(a, t) /\ t.rx = a.rx /\ t.dtcs = a.dtcs
        /\ New(a, t) = {Len(a.events) + 1} /\ t.events[Len(a.events) + 1] = e
    <3>1. ReaderShape(a)
      BY <2>2 DEF Beside
    <3> QED BY <2>1, <3>1, RaiseGrows
  <2>5. Grown(s, t) /\ New(s, t) = {Len(a.events) + 1}
    BY <2>2, <2>4 DEF Grown, New
  <2> QED BY <1>4, <2>2, <2>3, <2>4, <2>5 DEF Took, SameHeld, Beside, t
<1>5. m.kind \in {"pending", "refused", "dtcs", "group"}
  BY DEF Answers
<1> QED BY <1>1, <1>2, <1>3, <1>4, <1>5

(* Events beside an answer change nothing of what it does.                 *)
LEMMA BesideTook ==
  ASSUME NEW s, NEW a, NEW m, NEW t, Beside(s, a), a.rx.request = s.rx.request, Took(a, m, t)
  PROVE  Took(s, m, t)
<1>1. Grown(s, t)
  BY DEF Beside, Took, Grown
<1>2. \A i \in New(s, t) : i \in New(a, t) \/ t.events[i].kind \notin {"dtc", "nrc"}
  <2> SUFFICES ASSUME NEW i \in New(s, t), i \notin New(a, t)
               PROVE  t.events[i].kind \notin {"dtc", "nrc"}
    OBVIOUS
  <2>1. i \in New(s, a) /\ i \in 1..Len(a.events)
    BY DEF Beside, Took, Grown, New
  <2> QED BY <2>1 DEF Beside, Took, Grown
<1>3. \A i \in New(a, t) : i \in New(s, t)
  BY DEF Beside, Took, Grown, New
<1>4. Asked(a) = Asked(s) /\ Before(a) = Before(s)
  BY DEF Asked, Before, Beside
<1>5. ASSUME m.kind = "dtcs" PROVE ListsFaults(s, m.val, t)
  <2>1. ListsFaults(a, m.val, t)
    BY <1>5 DEF Took
  <2>2. a.dtcs = s.dtcs
    BY DEF Beside
  <2> QED BY <1>2, <1>3, <1>4, <2>1, <2>2 DEF ListsFaults
<1>6. ASSUME m.kind # "dtcs" PROVE t.dtcs = s.dtcs /\ \A i \in New(s, t) : t.events[i].kind # "dtc"
  BY <1>2, <1>6 DEF Took, Beside
<1>7. \A i \in New(s, t) : t.events[i].kind = "nrc" =>
        /\ m.kind = "refused" /\ t.events[i].text = m.of
        /\ t.events[i].name \in {None, s.rx.request}
  BY <1>2 DEF Took
<1>8. t.rx.request = IF m.kind = "pending" THEN s.rx.request ELSE None
  BY DEF Took
<1>9. ReaderShape(t)
  BY DEF Took
<1> QED BY <1>1, <1>5, <1>6, <1>7, <1>8, <1>9 DEF Took

(* A changed state of the transport alone.                                 *)
LEMMA HeldChange ==
  ASSUME NEW s, ReaderShape(s), NEW a, DOMAIN a = DOMAIN s, DOMAIN a.rx = DOMAIN s.rx,
         a.events = s.events, a.dtcs = s.dtcs
  PROVE  Beside(s, a)
<1>1. ReaderShape(a)
  BY DEF ReaderShape
<1> QED BY <1>1, BesideRefl

(* An abandoned message is one event, of the transport.                    *)
LEMMA AbandonShape ==
  ASSUME NEW s, ReaderShape(s)
  PROVE  /\ Beside(s, Abandon(s)) /\ Abandon(s).rx.buf = None
         /\ Abandon(s).rx.request = s.rx.request
<1>1. CASE s.rx.buf = None
  <2>1. Abandon(s) = s
    BY <1>1 DEF Abandon
  <2> QED BY <1>1, <2>1, BesideRefl
<1>2. CASE s.rx.buf # None
  <2> DEFINE a == [s EXCEPT !.rx.buf = None]
             e == Ev("isotp", "incomplete", Len(s.rx.buf))
  <2>1. Abandon(s) = Raise(a, e)
    BY <1>2 DEF Abandon
  <2>2. DOMAIN a = DOMAIN s /\ a.rx = [s.rx EXCEPT !.buf = None] /\ a.dtcs = s.dtcs /\ a.events = s.events
    BY DEF ReaderShape
  <2>3. DOMAIN a.rx = DOMAIN s.rx /\ a.rx.buf = None /\ a.rx.request = s.rx.request
    BY <2>2 DEF ReaderShape
  <2>4. e.kind \notin {"dtc", "nrc"}
    BY DEF Ev
  <2> HIDE DEF a, e
  <2>5. Beside(s, a) /\ ReaderShape(a)
    BY <2>2, <2>3, HeldChange DEF Beside
  <2>6. Beside(a, Raise(a, e)) /\ Raise(a, e).rx = a.rx
    BY <2>4, <2>5, RaiseGrows
  <2> DEFINE u == Raise(a, e)
  <2>7. Beside(a, u) /\ u.rx = a.rx /\ Abandon(s) = u
    BY <2>1, <2>6
  <2> HIDE DEF u
  <2> QED BY <2>3, <2>5, <2>7, BesideTrans
<1> QED BY <1>1, <1>2

(* What was listed before are codes.                                       *)
Known(s) == Before(s) = None \/ Before(s) \in SUBSET Codes

(* A single frame: whatever was held goes, its answer is taken.            *)
LEMMA SingleFed ==
  ASSUME NEW s, ReaderShape(s), NEW f \in LogFrames, Known(s)
  PROVE  LET t == Single(s, f)
         IN  Took(s, f.msg, t) /\ t.rx.buf = None /\ t.rx.quiet = FALSE
<1> DEFINE b == Abandon(s)
           a == [b EXCEPT !.rx.started = TRUE, !.rx.quiet = FALSE]
           m == f.msg
           t == Message(a, m)
<1>1. Beside(s, b) /\ ReaderShape(b) /\ b.rx.buf = None /\ b.rx.request = s.rx.request
  BY AbandonShape DEF Beside
<1>2. m \in Answers
  BY DEF LogFrames
<1>3. Single(s, f) = t
  BY DEF Single
<1> HIDE DEF b, m
<1>4. /\ DOMAIN a = DOMAIN b /\ a.dtcs = b.dtcs /\ a.events = b.events
      /\ a.rx = [b.rx EXCEPT !.started = TRUE, !.quiet = FALSE]
  BY <1>1 DEF ReaderShape
<1>5. DOMAIN a.rx = DOMAIN b.rx /\ a.rx.buf = None /\ a.rx.request = s.rx.request /\ a.rx.quiet = FALSE
  BY <1>1, <1>4 DEF ReaderShape
<1> HIDE DEF a
<1>6. Beside(b, a) /\ ReaderShape(a)
  BY <1>1, <1>4, <1>5, HeldChange DEF Beside
<1>7. Beside(s, a)
  BY <1>1, <1>6, BesideTrans
<1>8. Before(a) = None \/ Before(a) \in SUBSET Codes
  BY <1>5, <1>7 DEF Known, Before, Asked, Beside
<1>9. Took(a, m, t) /\ SameHeld(a, t)
  BY <1>2, <1>6, <1>8, MessageTook
<1> HIDE DEF t
<1>10. Took(s, m, t)
  BY <1>5, <1>7, <1>9, BesideTook
<1> QED BY <1>3, <1>5, <1>9, <1>10 DEF SameHeld, m

(* A first frame: whatever was held goes, it is held.                      *)
LEMMA FirstFed ==
  ASSUME NEW s, ReaderShape(s), NEW f
  PROVE  LET t == First(s, f)
         IN  /\ Beside(s, t) /\ t.rx.request = s.rx.request /\ t.rx.buf = <<f>>
             /\ t.rx.need = f.need /\ t.rx.sn = 1 % SnModulus /\ t.rx.quiet = FALSE
<1> DEFINE b == Abandon(s)
           w == <<f>>
           n == f.need
           k == 1 % SnModulus
           a == [b EXCEPT !.rx.started = TRUE, !.rx.quiet = FALSE,
                          !.rx.buf = w, !.rx.need = n, !.rx.sn = k]
<1>1. Beside(s, b) /\ ReaderShape(b) /\ b.rx.request = s.rx.request
  BY AbandonShape DEF Beside
<1>2. First(s, f) = a
  BY DEF First
<1> HIDE DEF b, w, n, k
<1>3. /\ DOMAIN a = DOMAIN b /\ a.dtcs = b.dtcs /\ a.events = b.events
      /\ a.rx = [b.rx EXCEPT !.started = TRUE, !.quiet = FALSE, !.buf = w, !.need = n, !.sn = k]
  BY <1>1 DEF ReaderShape
<1>4. /\ DOMAIN a.rx = DOMAIN b.rx /\ a.rx.buf = w /\ a.rx.request = s.rx.request
      /\ a.rx.quiet = FALSE /\ a.rx.need = n /\ a.rx.sn = k
  BY <1>1, <1>3 DEF ReaderShape
<1> HIDE DEF a
<1>5. Beside(b, a)
  BY <1>1, <1>3, <1>4, HeldChange
<1>6. Beside(s, a)
  BY <1>1, <1>5, BesideTrans
<1> QED BY <1>2, <1>4, <1>6 DEF w, n, k

(* A frame thrown away is told, unless the one before it was.              *)
LEMMA LooseFed ==
  ASSUME NEW s, ReaderShape(s), NEW f, s.rx.buf = None \/ f.sn # s.rx.sn
  PROVE  LET t == Consecutive(s, f)
         IN  /\ Beside(s, t) /\ t.rx.request = s.rx.request /\ t.rx.buf = None
             /\ \/ "frames cut at the start" \in t.counts /\ ~t.rx.started /\ t.rx.quiet = s.rx.quiet
                \/ s.rx.quiet /\ t = s /\ s.rx.buf = None
                \/ Len(t.events) > Len(s.events)
<1> DEFINE t == Consecutive(s, f)
           cut == "frames cut at the start"
           e == Ev("isotp", "orphan", 1)
           g == Ev("isotp", "sequence", Len(s.rx.buf))
           a == [s EXCEPT !.rx.quiet = TRUE]
           b == [s EXCEPT !.rx.buf = None, !.rx.quiet = TRUE]
<1>1. CASE s.rx.buf = None /\ ~s.rx.started
  <2>1. t = Count(s, cut)
    BY <1>1 DEF Consecutive
  <2>2. Beside(s, Count(s, cut)) /\ Count(s, cut).rx = s.rx /\ cut \in Count(s, cut).counts
    BY CountShape
  <2> HIDE DEF t
  <2> QED BY <1>1, <2>1, <2>2 DEF t
<1>2. CASE s.rx.buf = None /\ s.rx.started /\ s.rx.quiet
  <2>1. t = s
    BY <1>2 DEF Consecutive
  <2> HIDE DEF t
  <2>2. Beside(s, t)
    BY <2>1, BesideRefl
  <2> QED BY <1>2, <2>1, <2>2 DEF t
<1>3. CASE s.rx.buf = None /\ s.rx.started /\ ~s.rx.quiet
  <2>1. t = Raise(a, e)
    BY <1>3 DEF Consecutive
  <2>2. DOMAIN a = DOMAIN s /\ a.rx = [s.rx EXCEPT !.quiet = TRUE] /\ a.dtcs = s.dtcs /\ a.events = s.events
    BY DEF ReaderShape
  <2>3. DOMAIN a.rx = DOMAIN s.rx /\ a.rx.buf = s.rx.buf /\ a.rx.request = s.rx.request
    BY <2>2 DEF ReaderShape
  <2>4. e.kind \notin {"dtc", "nrc"}
    BY DEF Ev
  <2> HIDE DEF a, e, t
  <2>5. Beside(s, a) /\ ReaderShape(a)
    BY <2>2, <2>3, HeldChange DEF Beside
  <2>6. Beside(a, t) /\ t.rx = a.rx /\ Len(t.events) = Len(a.events) + 1
    BY <2>1, <2>4, <2>5, RaiseGrows
  <2>7. Beside(s, t)
    BY <2>5, <2>6, BesideTrans
  <2>8. Len(t.events) > Len(s.events)
    BY <2>2, <2>5, <2>6 DEF Beside, Grown
  <2> QED BY <1>3, <2>3, <2>6, <2>7, <2>8 DEF t
<1>4. CASE s.rx.buf # None
  <2>0. f.sn # s.rx.sn
    BY <1>4
  <2>1. t = Raise(b, g)
    BY <1>4, <2>0 DEF Consecutive
  <2>2. /\ DOMAIN b = DOMAIN s /\ b.rx = [s.rx EXCEPT !.buf = None, !.quiet = TRUE]
        /\ b.dtcs = s.dtcs /\ b.events = s.events
    BY DEF ReaderShape
  <2>3. DOMAIN b.rx = DOMAIN s.rx /\ b.rx.buf = None /\ b.rx.request = s.rx.request
    BY <2>2 DEF ReaderShape
  <2>4. g.kind \notin {"dtc", "nrc"}
    BY DEF Ev
  <2> HIDE DEF b, g, t
  <2>5. Beside(s, b) /\ ReaderShape(b)
    BY <2>2, <2>3, HeldChange DEF Beside
  <2>6. Beside(b, t) /\ t.rx = b.rx /\ Len(t.events) = Len(b.events) + 1
    BY <2>1, <2>4, <2>5, RaiseGrows
  <2>7. Beside(s, t)
    BY <2>5, <2>6, BesideTrans
  <2>8. Len(t.events) > Len(s.events)
    BY <2>2, <2>5, <2>6 DEF Beside, Grown
  <2> QED BY <2>3, <2>6, <2>7, <2>8 DEF t
<1> QED BY <1>1, <1>2, <1>3, <1>4

(* A frame that follows what is held is added to it, or completes it.      *)
LEMMA NextFed ==
  ASSUME NEW s, ReaderShape(s), NEW f \in LogFrames, Known(s), s.rx.buf # None, f.sn = s.rx.sn,
         s.rx.buf \in Seq(LogFrames), s.rx.buf # <<>>, s.rx.need \in Nat
  PROVE  LET t == Consecutive(s, f)
         IN  /\ t.rx.quiet = s.rx.quiet /\ ReaderShape(t) /\ Grown(s, t)
             /\ Len(s.rx.buf) + 1 >= s.rx.need => Took(s, s.rx.buf[1].msg, t) /\ t.rx.buf = None
             /\ Len(s.rx.buf) + 1 < s.rx.need =>
                   /\ Beside(s, t) /\ t.rx.request = s.rx.request
                   /\ t.rx.buf = Append(s.rx.buf, f) /\ t.rx.need = s.rx.need
                   /\ t.rx.sn = (s.rx.sn + 1) % SnModulus
<1> DEFINE t == Consecutive(s, f)
           parts == Append(s.rx.buf, f)
           k == (s.rx.sn + 1) % SnModulus
           a == [s EXCEPT !.rx.buf = None, !.rx.sn = k]
           b == [s EXCEPT !.rx.buf = parts, !.rx.sn = k]
           m == s.rx.buf[1].msg
<1>1. Len(s.rx.buf) \in Nat \ {0} /\ Len(parts) = Len(s.rx.buf) + 1 /\ parts[1] = s.rx.buf[1]
      /\ s.rx.buf[1] \in LogFrames
  OBVIOUS
<1>2. Said(parts) = m /\ m \in Answers
  BY <1>1 DEF Said, LogFrames
<1>3. CASE Len(s.rx.buf) + 1 >= s.rx.need
  <2>1. t = Message(a, m)
    BY <1>1, <1>2, <1>3 DEF Consecutive
  <2> HIDE DEF k, m, t
  <2>2. /\ DOMAIN a = DOMAIN s /\ a.rx = [s.rx EXCEPT !.buf = None, !.sn = k]
        /\ a.dtcs = s.dtcs /\ a.events = s.events
    BY DEF ReaderShape
  <2>3. DOMAIN a.rx = DOMAIN s.rx /\ a.rx.buf = None /\ a.rx.request = s.rx.request
        /\ a.rx.quiet = s.rx.quiet
    BY <2>2 DEF ReaderShape
  <2> HIDE DEF a
  <2>4. Beside(s, a) /\ ReaderShape(a)
    BY <2>2, <2>3, HeldChange DEF Beside
  <2>5. Before(a) = None \/ Before(a) \in SUBSET Codes
    BY <2>2, <2>3 DEF Known, Before, Asked
  <2>6. Took(a, m, t) /\ SameHeld(a, t)
    BY <1>2, <2>1, <2>4, <2>5, MessageTook
  <2>7. Took(s, m, t)
    BY <2>3, <2>4, <2>6, BesideTook
  <2> QED BY <1>3, <1>1, <2>3, <2>6, <2>7 DEF SameHeld, t, m, Took
<1>4. CASE Len(s.rx.buf) + 1 < s.rx.need
  <2>1. t = b
    BY <1>1, <1>4 DEF Consecutive
  <2> HIDE DEF k, t, parts
  <2>2. /\ DOMAIN b = DOMAIN s /\ b.rx = [s.rx EXCEPT !.buf = parts, !.sn = k]
        /\ b.dtcs = s.dtcs /\ b.events = s.events
    BY DEF ReaderShape
  <2>3. DOMAIN b.rx = DOMAIN s.rx /\ b.rx.buf = parts /\ b.rx.request = s.rx.request
        /\ b.rx.quiet = s.rx.quiet /\ b.rx.sn = k /\ b.rx.need = s.rx.need
    BY <2>2 DEF ReaderShape
  <2> HIDE DEF b
  <2>4. Beside(s, b)
    BY <2>2, <2>3, HeldChange
  <2> QED BY <1>4, <1>1, <2>1, <2>3, <2>4 DEF t, k, parts, Beside
<1> QED BY <1>1, <1>3, <1>4

(* Replaying the fault events of a sequence.                               *)
About(es, k) == {i \in DOMAIN es : es[i].kind = "dtc" /\ es[i].name = k}
ReplayedIn(es, k) ==
  \E i \in About(es, k) : (\A j \in About(es, k) : j <= i) /\ es[i].text # "cleared"
Replays(d, es) ==
  /\ IsFiniteSet(DOMAIN d) /\ DOMAIN d \subseteq Questions
  /\ DOMAIN d = {} => \A i \in DOMAIN es : es[i].kind # "dtc"
  /\ \A r : DOMAIN d = {r} => d[r] = {k \in Codes : ReplayedIn(es, k)}

(* Events about a code: those there were, and the new ones.                *)
LEMMA AboutGrown ==
  ASSUME NEW s, NEW t, Grown(s, t), ReaderShape(s), ReaderShape(t), NEW k
  PROVE  About(t.events, k) = About(s.events, k)
           \cup {i \in New(s, t) : t.events[i].kind = "dtc" /\ t.events[i].name = k}
<1>1. DOMAIN t.events = 1..Len(t.events) /\ DOMAIN s.events = 1..Len(s.events)
  BY DEF ReaderShape
<1>2. DOMAIN t.events = DOMAIN s.events \cup New(s, t)
  BY <1>1 DEF Grown, New
<1>3. \A i \in DOMAIN s.events : t.events[i] = s.events[i]
  BY <1>1 DEF Grown
<1> QED BY <1>2, <1>3 DEF About

(* Without new fault events the replay is the same.                        *)
LEMMA ReplayBeside ==
  ASSUME NEW s, NEW t, Grown(s, t), ReaderShape(s), ReaderShape(t), t.dtcs = s.dtcs,
         \A i \in New(s, t) : t.events[i].kind # "dtc",
         Replays(s.dtcs, s.events)
  PROVE  Replays(t.dtcs, t.events)
<1>1. \A k : About(t.events, k) = About(s.events, k)
  <2> SUFFICES ASSUME NEW k PROVE About(t.events, k) = About(s.events, k)
    OBVIOUS
  <2> DEFINE fresh == {i \in New(s, t) : t.events[i].kind = "dtc" /\ t.events[i].name = k}
  <2>1. About(t.events, k) = About(s.events, k) \cup fresh
    BY AboutGrown
  <2>2. fresh = {}
    OBVIOUS
  <2> QED BY <2>1, <2>2
<1>2. DOMAIN t.events = 1..Len(t.events) /\ DOMAIN s.events = 1..Len(s.events)
  BY DEF ReaderShape
<1>3. \A i \in DOMAIN s.events : t.events[i] = s.events[i]
  BY <1>2 DEF Grown
<1>4. \A k : ReplayedIn(t.events, k) <=> ReplayedIn(s.events, k)
  BY <1>1, <1>3 DEF ReplayedIn, About
<1>5. \A i \in DOMAIN t.events : i \in DOMAIN s.events \/ i \in New(s, t)
  BY <1>2 DEF Grown, New
<1>6. DOMAIN t.dtcs = {} => \A i \in DOMAIN t.events : t.events[i].kind # "dtc"
  BY <1>3, <1>5 DEF Replays
<1>7. \A r : DOMAIN t.dtcs = {r} => t.dtcs[r] = {k \in Codes : ReplayedIn(t.events, k)}
  BY <1>4 DEF Replays
<1> QED BY <1>6, <1>7 DEF Replays

(* An answer to a request with a known mask leaves a replay that gives     *)
(* it.                                                                     *)
LEMMA ReplayListed ==
  ASSUME NEW s, NEW t, Grown(s, t), ReaderShape(s), ReaderShape(t),
         NEW val \in SUBSET Codes, ListsFaults(s, val, t), Asked(s) \in Questions,
         s.dtcs \in [DOMAIN s.dtcs -> SUBSET Codes],
         Replays(s.dtcs, s.events)
  PROVE  Replays(t.dtcs, t.events)
<1> DEFINE q == Asked(s)
           p == Before(s)
           D == DtcEvents(p, val)
<1>0. q # None
  BY UdsLogAssumption
<1>1. DOMAIN t.dtcs = DOMAIN s.dtcs \cup {q} /\ t.dtcs[q] = val
  BY DEF ListsFaults
<1>2. IsFiniteSet(DOMAIN t.dtcs) /\ DOMAIN t.dtcs \subseteq Questions /\ DOMAIN t.dtcs # {}
  BY <1>1, FS_AddElement DEF Replays
<1>3. ASSUME NEW r, DOMAIN t.dtcs = {r}
      PROVE  t.dtcs[r] = {k \in Codes : ReplayedIn(t.events, k)}
  <2>1. r = q /\ (DOMAIN s.dtcs = {} \/ DOMAIN s.dtcs = {q})
    BY <1>1, <1>3
  <2>2. DOMAIN s.events = 1..Len(s.events) /\ DOMAIN t.events = 1..Len(t.events)
        /\ Len(s.events) \in Nat /\ Len(t.events) \in Nat
    BY DEF ReaderShape
  <2>3. \A i \in DOMAIN s.events : t.events[i] = s.events[i]
    BY <2>2 DEF Grown
  <2>4. SUFFICES ASSUME NEW k \in Codes PROVE k \in val <=> ReplayedIn(t.events, k)
    BY <1>1, <2>1
  <2> DEFINE fresh == {i \in New(s, t) : t.events[i].kind = "dtc" /\ t.events[i].name = k}
             tell == (k \in val /\ (p = None \/ k \notin p)) \/ (k \notin val /\ p # None /\ k \in p)
  <2>5. About(t.events, k) = About(s.events, k) \cup fresh
    BY AboutGrown
  <2>6. \A e \in D : e.name = k => (e.text # "cleared" <=> k \in val) /\ tell /\ e.kind = "dtc"
    BY DEF DtcEvents, Ev
  <2>7. tell => \E e \in D : e.name = k /\ e.kind = "dtc"
    <3>1. CASE k \in val /\ (p = None \/ k \notin p)
      <4> DEFINE e == Ev("dtc", k, IF p = None THEN "initial" ELSE "new")
      <4>1. e \in D
        BY <3>1 DEF DtcEvents
      <4> QED BY <4>1 DEF Ev
    <3>2. CASE k \notin val /\ p # None /\ k \in p
      <4> DEFINE e == Ev("dtc", k, "cleared")
      <4>1. e \in D
        BY <3>2 DEF DtcEvents
      <4> QED BY <4>1 DEF Ev
    <3> QED BY <3>1, <3>2
  <2>8. \A d, e \in D : d.name = k /\ e.name = k => d = e
    BY DEF DtcEvents, Ev
  <2>9. \A i \in fresh : t.events[i] \in D
    BY DEF ListsFaults
  <2>10. \A i, j \in fresh : i = j
    BY <2>8, <2>9 DEF ListsFaults
  <2>11. fresh # {} <=> tell
    <3>1. ASSUME tell PROVE fresh # {}
      <4>1. PICK e \in D : e.name = k /\ e.kind = "dtc"
        BY <2>7, <3>1
      <4>2. PICK i \in New(s, t) : t.events[i] = e
        BY DEF ListsFaults
      <4> QED BY <4>1, <4>2
    <3>2. ASSUME fresh # {} PROVE tell
      <4>1. PICK i \in fresh : TRUE
        BY <3>2
      <4> QED BY <2>6, <2>9, <4>1
    <3> QED BY <3>1, <3>2
  <2>12. \A i \in fresh : i \in Nat /\ \A j \in About(s.events, k) : j < i
    BY <2>2 DEF New, About
  <2>13. CASE tell
    <3>1. PICK i \in fresh : TRUE
      BY <2>11, <2>13
    <3>2. i \in About(t.events, k) /\ \A j \in About(t.events, k) : j <= i
      <4>1. \A j \in fresh : j = i
        BY <2>10, <3>1
      <4>2. \A j \in About(s.events, k) : j \in Nat /\ j < i
        BY <2>2, <2>12, <3>1 DEF About
      <4>3. i \in Nat
        BY <2>12, <3>1
      <4> HIDE DEF fresh
      <4>4. \A j \in fresh : j <= i
        BY <4>1, <4>3
      <4>5. \A j \in About(s.events, k) : j <= i
        BY <4>2, <4>3
      <4> QED BY <2>5, <3>1, <4>4, <4>5
    <3>3. \A j \in About(t.events, k) : j \in Nat
      BY <2>2 DEF About
    <3>4. t.events[i].text # "cleared" <=> k \in val
      BY <2>6, <2>9, <3>1
    <3>5. ReplayedIn(t.events, k) <=> t.events[i].text # "cleared"
      <4> HIDE DEF fresh
      <4> QED BY <3>2, <3>3 DEF ReplayedIn
    <3> QED BY <3>4, <3>5
  <2>14. CASE ~tell
    <3>1. fresh = {}
      BY <2>11, <2>14
    <3>2. About(t.events, k) = About(s.events, k)
      BY <2>5, <3>1
    <3>3. \A i \in About(s.events, k) : t.events[i] = s.events[i]
      BY <2>3 DEF About
    <3>4. ReplayedIn(t.events, k) <=> ReplayedIn(s.events, k)
      BY <3>2, <3>3 DEF ReplayedIn
    <3>5. CASE DOMAIN s.dtcs = {}
      <4>1. p = None
        BY <3>5 DEF Before
      <4>2. About(s.events, k) = {}
        BY <3>5 DEF Replays, About
      <4> QED BY <2>14, <3>4, <4>1, <4>2 DEF ReplayedIn
    <3>6. CASE DOMAIN s.dtcs = {q}
      <4>1. p = s.dtcs[q] /\ p \in SUBSET Codes
        BY <3>6 DEF Before
      <4>2. p # None
        BY <4>1, UdsLogAssumption
      <4>3. p = {d \in Codes : ReplayedIn(s.events, d)}
        BY <3>6, <4>1 DEF Replays
      <4> QED BY <2>14, <3>4, <4>2, <4>3
    <3> QED BY <2>1, <3>5, <3>6
  <2> QED BY <2>13, <2>14
<1> QED BY <1>2, <1>3 DEF Replays

-----------------------------------------------------------------------------
(* The frame at j of what is still to go out of an answer to q.            *)
FrameAt(b, j, q) ==
  /\ b[j].msg = b[1].msg /\ b[j].need = b[1].need /\ b[j].need >= 1
  /\ b[j].part = b[1].need - Len(b) + j /\ b[j].part >= 1
  /\ b[j].sn = (b[j].part - 1) % SnModulus
  /\ b[j].pci = IF b[j].need = 1 THEN "single" ELSE IF b[j].part = 1 THEN "first" ELSE "consecutive"
  /\ b[j].msg.of = q
  /\ b[j].msg.kind \in {"pending", "refused"} => b[j].need = 1
GoesOut(b, q) ==
  /\ b \in Seq(LogFrames)
  /\ b # <<>> => q \in Questions
  /\ \A j \in 1..Len(b) : FrameAt(b, j, q)

(* The inductive invariant.  The types of what is read and of the car: the *)
(* log never has more of an answer than went out.                          *)
RxShape ==
  /\ ReaderShape(ChunkRead)
  /\ dtcs \in [DOMAIN dtcs -> SUBSET Codes]
  /\ rx.buf # None => /\ rx.buf \in Seq(LogFrames) /\ rx.buf # <<>> /\ rx.need \in Nat
                      /\ rx.buf[1].msg.kind # "refused"
CarShape ==
  /\ asks \in Nat /\ asked \in Questions \cup {None} /\ GoesOut(bus, asked)
  /\ DOMAIN seen = {"parts", "loose", "told"} /\ seen.parts \in Nat
  /\ bus = <<>> => seen.parts = 0
  /\ bus # <<>> => seen.parts < bus[1].part
(* The reader is quiet only after it told.                                 *)
QuietIsTold == rx.quiet => rx.buf = None /\ seen.loose /\ seen.told
(* With every first frame logged, what is held is of one answer, and when  *)
(* more of an answer is to come, of that one, with no more than was logged.*)
HeldIsOne ==
  "first" \notin missed /\ rx.buf # None =>
     /\ \A i \in 1..Len(rx.buf) : rx.buf[i].msg = rx.buf[1].msg
     /\ bus # <<>> /\ bus[1].part > 1 =>
           rx.buf[1].msg = bus[1].msg /\ rx.need = bus[1].need /\ Len(rx.buf) <= seen.parts
(* Of an answer of which nothing is lost so far, everything is held.       *)
WholeIsHeld ==
  "first" \notin missed /\ bus # <<>> /\ bus[1].part > 1 /\ seen.parts = bus[1].part - 1 =>
     rx.buf # None /\ Len(rx.buf) = seen.parts /\ rx.sn = bus[1].sn
(* The request remembered is the one the ECU works on.                     *)
RequestIsAsked ==
  "request" \notin missed /\ asked # None =>
     /\ rx.request \in {None, asked}
     /\ "first" \notin missed => rx.request = asked
(* The codes stored are those answered, and replay from the events.        *)
FaultsAreAnswered ==
  missed \cap {"request", "first"} = {} => dtcs = answered /\ Replays(dtcs, events)

UdsInv ==
  /\ RxShape /\ CarShape /\ QuietIsTold /\ NothingDroppedSilently /\ HeldIsOne /\ WholeIsHeld
  /\ RequestIsAsked /\ FaultsAreAnswered /\ RefusalNamesItsRequest

(* The frames of an answer, before the first is out.                       *)
LEMMA FramesGoOut ==
  ASSUME NEW m \in Answers, NEW n \in Nat \ {0}, m.of \in Questions,
         m.kind \in {"pending", "refused"} => n = 1
  PROVE  GoesOut(Frames(m, n), m.of) /\ Frames(m, n)[1].part = 1 /\ Frames(m, n) # <<>>
<1> DEFINE b == Frames(m, n)
<1>1. CASE n = 1
  <2> DEFINE f == [pci |-> "single", sn |-> 0, need |-> 1, part |-> 1, msg |-> m]
  <2>1. b = <<f>>
    BY <1>1 DEF Frames
  <2>2. f \in LogFrames /\ f.pci = "single" /\ f.sn = 0 /\ f.need = 1 /\ f.part = 1 /\ f.msg = m
    BY DEF LogFrames
  <2>3. 0 % SnModulus = 0
    BY UdsLogAssumption
  <2> HIDE DEF f, b
  <2>4. b \in Seq(LogFrames) /\ Len(b) = 1 /\ b[1] = f /\ b # <<>>
    BY <2>1, <2>2
  <2>5. FrameAt(b, 1, m.of)
    BY <2>2, <2>3, <2>4, <1>1 DEF FrameAt
  <2> QED BY <2>2, <2>4, <2>5 DEF GoesOut, b
<1>2. CASE n # 1
  <2> DEFINE g(i) == [pci |-> IF i = 1 THEN "first" ELSE "consecutive",
                      sn |-> (i - 1) % SnModulus, need |-> n, part |-> i, msg |-> m]
  <2>1. b = [i \in 1..n |-> g(i)]
    BY <1>2 DEF Frames
  <2>2. ASSUME NEW i \in 1..n
        PROVE  /\ g(i) \in LogFrames /\ g(i).pci = (IF i = 1 THEN "first" ELSE "consecutive")
               /\ g(i).sn = (i - 1) % SnModulus /\ g(i).need = n /\ g(i).part = i /\ g(i).msg = m
    <3>1. (i - 1) % SnModulus \in Nat
      BY UdsLogAssumption
    <3> QED BY <3>1 DEF LogFrames
  <2> HIDE DEF g, b
  <2>3. b \in Seq(LogFrames) /\ Len(b) = n /\ b # <<>> /\ \A i \in 1..n : b[i] = g(i)
    <3>1. \A i \in 1..n : g(i) \in LogFrames
      BY <2>2
    <3>2. b \in [1..n -> LogFrames]
      BY <2>1, <3>1
    <3>3. b \in Seq(LogFrames) /\ Len(b) = n
      BY <3>2
    <3> QED BY <2>1, <3>3
  <2>4. ASSUME NEW j \in 1..n PROVE FrameAt(b, j, m.of)
    BY <2>2, <2>3, <1>2 DEF FrameAt
  <2> QED BY <2>2, <2>3, <2>4 DEF GoesOut, b
<1> QED BY <1>1, <1>2

(* What is at the head, and what remains.                                  *)
LEMMA TailGoesOut ==
  ASSUME NEW b, NEW q, GoesOut(b, q), b # <<>>, NEW r, Len(b) > 1 => r = q
  PROVE  /\ Head(b) = b[1] /\ b[1] \in LogFrames /\ FrameAt(b, 1, q)
         /\ Len(b) = b[1].need - b[1].part + 1
         /\ Tail(b) \in Seq(LogFrames)
         /\ Tail(b) = <<>> <=> Len(b) = 1
         /\ GoesOut(Tail(b), r)
         /\ Len(b) # 1 => /\ Len(b) > 1 /\ Tail(b)[1].part = b[1].part + 1
                          /\ Tail(b)[1].need = b[1].need
                          /\ Tail(b)[1].msg = b[1].msg
                          /\ Tail(b)[1].sn = b[1].part % SnModulus
<1> DEFINE u == Tail(b)
<1>1. b \in Seq(LogFrames) /\ Len(b) \in Nat \ {0}
  BY DEF GoesOut
<1>2. Head(b) = b[1] /\ b[1] \in LogFrames /\ u \in Seq(LogFrames) /\ Len(u) = Len(b) - 1
      /\ \A i \in 1..Len(u) : u[i] = b[i + 1]
  BY <1>1
<1> HIDE DEF u
<1>3. FrameAt(b, 1, q)
  BY <1>1 DEF GoesOut
<1>4. b[1].need \in Nat /\ b[1].part \in Nat
  BY <1>2 DEF LogFrames
<1>5. Len(b) = b[1].need - b[1].part + 1
  BY <1>1, <1>3, <1>4 DEF FrameAt
<1>6. u = <<>> <=> Len(b) = 1
  BY <1>1, <1>2
<1>7. ASSUME NEW j \in 1..Len(u) PROVE FrameAt(u, j, r)
  <2>1. u[j] = b[j + 1] /\ u[1] = b[2] /\ j + 1 \in 1..Len(b) /\ 2 \in 1..Len(b) /\ Len(b) > 1
    BY <1>1, <1>2
  <2>2. FrameAt(b, j + 1, q) /\ FrameAt(b, 2, q)
    BY <2>1 DEF GoesOut
  <2>3. /\ u[j].msg = u[1].msg /\ u[j].need = u[1].need /\ u[j].need >= 1 /\ u[j].part >= 1
        /\ u[1].need = b[1].need /\ u[j].msg.of = q
        /\ u[j].msg.kind \in {"pending", "refused"} => u[j].need = 1
    BY <2>1, <2>2 DEF FrameAt
  <2>4. b[j + 1].part = b[1].need - Len(b) + (j + 1)
    BY <2>2 DEF FrameAt
  <2>5. u[j].part = u[1].need - Len(u) + j
    <3> DEFINE n == b[1].need
               l == Len(b)
    <3>1. n \in Nat /\ l \in Nat /\ j \in Nat /\ Len(u) = l - 1 /\ u[1].need = n
      BY <1>1, <1>2, <1>4, <2>3
    <3>2. u[j].part = n - l + (j + 1)
      BY <2>1, <2>4
    <3> HIDE DEF n, l
    <3> QED BY <3>1, <3>2
  <2>6. /\ u[j].sn = (u[j].part - 1) % SnModulus
        /\ u[j].pci = IF u[j].need = 1 THEN "single" ELSE IF u[j].part = 1 THEN "first" ELSE "consecutive"
    BY <2>1, <2>2 DEF FrameAt
  <2> QED BY <2>1, <2>3, <2>5, <2>6 DEF FrameAt
<1>8. GoesOut(u, r)
  <2>1. u # <<>> => r \in Questions
    BY <1>1, <1>2, <1>6 DEF GoesOut
  <2> QED BY <1>2, <1>7, <2>1 DEF GoesOut
<1>9. ASSUME Len(b) # 1
      PROVE  /\ Len(b) > 1 /\ u[1].part = b[1].part + 1 /\ u[1].need = b[1].need /\ u[1].msg = b[1].msg
             /\ u[1].sn = b[1].part % SnModulus
  <2>1. Len(b) > 1 /\ u[1] = b[2] /\ 2 \in 1..Len(b)
    BY <1>1, <1>2, <1>9
  <2>2. FrameAt(b, 2, q)
    BY <2>1 DEF GoesOut
  <2>3. b[2].part = b[1].part + 1 /\ b[2].part - 1 = b[1].part
    <3>1. b[2].part = b[1].need - Len(b) + 2
      BY <2>2 DEF FrameAt
    <3> QED BY <1>1, <1>4, <1>5, <3>1
  <2> QED BY <2>1, <2>2, <2>3 DEF FrameAt
<1> QED BY <1>2, <1>3, <1>5, <1>6, <1>8, <1>9 DEF u

(* Nothing asked and nothing logged.                                       *)
LEMMA UdsInitInv == ASSUME UdsLogInit PROVE UdsInv
<1>1. ReaderShape(ChunkRead)
  <2>1. <<>> \in Seq({})
    OBVIOUS
  <2> QED BY <2>1 DEF UdsLogInit, ReaderShape, ChunkRead, NothingHeld
<1>2. RxShape
  BY <1>1 DEF UdsLogInit, RxShape, NothingHeld
<1>3. CarShape
  BY DEF UdsLogInit, CarShape, GoesOut
<1>4. Replays(dtcs, events) /\ dtcs = answered
  <2>1. DOMAIN dtcs = {} /\ DOMAIN events = {} /\ dtcs = answered
    BY DEF UdsLogInit
  <2>2. \A k : ~ReplayedIn(events, k)
    BY <2>1 DEF ReplayedIn, About
  <2>3. IsFiniteSet(DOMAIN dtcs)
    BY <2>1, FS_EmptySet
  <2>4. \A r : DOMAIN dtcs # {r}
    BY <2>1
  <2> QED BY <2>1, <2>2, <2>3, <2>4 DEF Replays
<1>5. RefusalNamesItsRequest
  BY DEF RefusalNamesItsRequest, UdsLogInit
<1>6. /\ QuietIsTold /\ NothingDroppedSilently /\ HeldIsOne /\ WholeIsHeld /\ RequestIsAsked
  BY DEF UdsLogInit, QuietIsTold, NothingDroppedSilently, HeldIsOne, WholeIsHeld, RequestIsAsked, NothingHeld
<1> QED BY <1>2, <1>3, <1>4, <1>5, <1>6 DEF UdsInv, FaultsAreAnswered

(* A request, logged or not.                                               *)
LEMMA AskInv == ASSUME UdsInv, Ask PROVE UdsInv'
<1> USE DEF UdsInv
<1>1. PICK r \in Questions :
        /\ asked' = r
        /\ \/ rx' = [rx EXCEPT !.request = r] /\ UNCHANGED missed
           \/ Lose("request") /\ UNCHANGED rx
  BY DEF Ask
<1>2. /\ asked = None /\ bus = <<>> /\ bus' = <<>> /\ asks' = asks + 1 /\ r # None
      /\ state' = state /\ dtcs' = dtcs /\ events' = events /\ counts' = counts
      /\ answered' = answered /\ seen' = seen
  BY UdsLogAssumption DEF Ask
<1>3. /\ DOMAIN rx' = DOMAIN rx /\ rx'.buf = rx.buf /\ rx'.need = rx.need /\ rx'.sn = rx.sn
      /\ rx'.quiet = rx.quiet /\ rx'.started = rx.started /\ missed \subseteq missed'
      /\ "request" \notin missed' => rx'.request = r
  <2>1. DOMAIN rx = {"started", "buf", "need", "sn", "quiet", "request"}
    BY DEF RxShape, ReaderShape, ChunkRead
  <2> QED BY <1>1, <2>1 DEF Lose
<1>4. ReaderShape(ChunkRead)'
  <2>1. DOMAIN rx' = {"started", "buf", "need", "sn", "quiet", "request"}
    BY <1>3 DEF RxShape, ReaderShape, ChunkRead
  <2>2. \E S : events' \in Seq(S)
    BY <1>2 DEF RxShape, ReaderShape, ChunkRead
  <2> QED BY <2>1, <2>2 DEF ReaderShape, ChunkRead
<1>5. RxShape'
  BY <1>2, <1>3, <1>4 DEF RxShape
<1>6. CarShape'
  BY <1>1, <1>2 DEF CarShape, GoesOut
<1>7. QuietIsTold' /\ NothingDroppedSilently' /\ HeldIsOne' /\ WholeIsHeld'
  BY <1>2, <1>3 DEF QuietIsTold, NothingDroppedSilently, HeldIsOne, WholeIsHeld
<1>8. RequestIsAsked'
  BY <1>1, <1>3 DEF RequestIsAsked
<1>9. FaultsAreAnswered'
  BY <1>2, <1>3 DEF FaultsAreAnswered
<1>10. RefusalNamesItsRequest'
  BY <1>2, <1>3 DEF RefusalNamesItsRequest
<1> QED BY <1>5, <1>6, <1>7, <1>8, <1>9, <1>10

(* An answer is put into frames.                                           *)
LEMMA AnswerInv == ASSUME UdsInv, Answer PROVE UdsInv'
<1> USE DEF UdsInv
<1>1. /\ asked # None /\ bus = <<>> /\ asked' = asked /\ asks' = asks /\ rx' = rx
      /\ state' = state /\ dtcs' = dtcs /\ events' = events /\ counts' = counts
      /\ missed' = missed /\ answered' = answered /\ seen' = seen
      /\ asked \in Questions /\ asks \in Nat
  BY DEF Answer, CarShape
<1>2. \E m \in Answers, n \in Nat \ {0} :
        m.of = asked /\ (m.kind \in {"pending", "refused"} => n = 1) /\ bus' = Frames(m, n)
  <2>1. CASE \E kind \in {"pending", "refused"} :
                bus' = Frames([id |-> asks, kind |-> kind, of |-> asked, val |-> {}], 1)
    <3>1. PICK kind \in {"pending", "refused"} :
                bus' = Frames([id |-> asks, kind |-> kind, of |-> asked, val |-> {}], 1)
      BY <2>1
    <3> DEFINE m == [id |-> asks, kind |-> kind, of |-> asked, val |-> {}]
    <3>2. m \in Answers /\ m.of = asked
      BY <1>1, <3>1 DEF Answers
    <3> HIDE DEF m
    <3>3. bus' = Frames(m, 1)
      BY <3>1 DEF m
    <3> QED BY <3>2, <3>3
  <2>2. CASE asked.sid = "19" /\ \E n \in 1 .. MaxFrames, stored \in SUBSET Codes :
                bus' = Frames([id |-> asks, kind |-> "dtcs", of |-> asked, val |-> stored], n)
    <3>1. PICK n \in 1 .. MaxFrames, stored \in SUBSET Codes :
                bus' = Frames([id |-> asks, kind |-> "dtcs", of |-> asked, val |-> stored], n)
      BY <2>2
    <3> asked \in FaultReads
      BY <1>1, <2>2 DEF Questions, FaultReads, GroupReads
    <3> DEFINE m == [id |-> asks, kind |-> "dtcs", of |-> asked, val |-> stored]
    <3>2. m \in Answers /\ m.of = asked /\ m.kind = "dtcs"
      BY <1>1 DEF Answers
    <3> HIDE DEF m
    <3>3. bus' = Frames(m, n) /\ n \in Nat \ {0}
      BY <3>1, UdsLogAssumption DEF m
    <3> QED BY <3>2, <3>3
  <2>3. CASE asked.sid = "22" /\ \E n \in 1 .. MaxFrames, v \in States \cup {"unavailable", "short"} :
                bus' = Frames([id |-> asks, kind |-> "group", of |-> asked, val |-> v], n)
    <3>1. PICK n \in 1 .. MaxFrames, v \in States \cup {"unavailable", "short"} :
                bus' = Frames([id |-> asks, kind |-> "group", of |-> asked, val |-> v], n)
      BY <2>3
    <3> asked \in GroupReads
      BY <1>1, <2>3 DEF Questions, FaultReads, GroupReads
    <3> DEFINE m == [id |-> asks, kind |-> "group", of |-> asked, val |-> v]
    <3>2. m \in Answers /\ m.of = asked /\ m.kind = "group"
      BY <1>1 DEF Answers
    <3> HIDE DEF m
    <3>3. bus' = Frames(m, n) /\ n \in Nat \ {0}
      BY <3>1, UdsLogAssumption DEF m
    <3> QED BY <3>2, <3>3
  <2> QED BY <2>1, <2>2, <2>3 DEF Answer
<1>3. GoesOut(bus', asked) /\ bus'[1].part = 1 /\ bus' # <<>>
  BY <1>1, <1>2, FramesGoOut
<1>4. RxShape'
  BY <1>1 DEF RxShape, ReaderShape, ChunkRead
<1>5. CarShape'
  BY <1>1, <1>3 DEF CarShape
<1>6. QuietIsTold' /\ NothingDroppedSilently' /\ HeldIsOne' /\ WholeIsHeld'
  BY <1>1, <1>3 DEF QuietIsTold, NothingDroppedSilently, HeldIsOne, WholeIsHeld
<1>7. RequestIsAsked' /\ FaultsAreAnswered' /\ RefusalNamesItsRequest'
  BY <1>1 DEF RequestIsAsked, FaultsAreAnswered, RefusalNamesItsRequest
<1> QED BY <1>4, <1>5, <1>6, <1>7

(* What is on the bus after a frame of it went out.                        *)
LEMMA SentFacts ==
  ASSUME CarShape, bus # <<>>, Sent(Head(bus))
  PROVE  /\ Head(bus) = bus[1] /\ bus[1] \in LogFrames /\ FrameAt(bus, 1, asked)
         /\ bus' = Tail(bus) /\ asks' = asks
         /\ asked \in Questions /\ asked' \in Questions \cup {None} /\ asked' \in {asked, None}
         /\ Len(bus) = 1 /\ bus[1].msg.kind # "pending" => asked' = None
         /\ Len(bus) # 1 \/ bus[1].msg.kind = "pending" => asked' = asked
         /\ GoesOut(bus', asked')
         /\ Len(bus) = bus[1].need - bus[1].part + 1 /\ bus[1].part \in Nat \ {0}
         /\ bus[1].need \in Nat \ {0} /\ Len(bus) \in Nat \ {0}
         /\ bus' = <<>> <=> Len(bus) = 1
         /\ Len(bus) # 1 => /\ bus'[1].part = bus[1].part + 1 /\ bus'[1].need = bus[1].need
                            /\ bus'[1].msg = bus[1].msg /\ bus'[1].sn = bus[1].part % SnModulus
<1>1. GoesOut(bus, asked) /\ asked \in Questions /\ Len(bus) \in Nat \ {0} /\ bus \in Seq(LogFrames)
  BY DEF CarShape, GoesOut
<1>2. Head(bus) = bus[1] /\ bus[1] \in LogFrames
  BY <1>1
<1>3. /\ bus' = Tail(bus) /\ asks' = asks
      /\ Len(bus) = 1 /\ bus[1].msg.kind # "pending" => asked' = None
      /\ Len(bus) # 1 \/ bus[1].msg.kind = "pending" => asked' = asked
  BY <1>2 DEF Sent
<1>4. Len(bus) > 1 => asked' = asked
  BY <1>1, <1>3
<1>5. bus[1].part \in Nat /\ bus[1].need \in Nat
  BY <1>2 DEF LogFrames
<1>6. /\ FrameAt(bus, 1, asked) /\ Len(bus) = bus[1].need - bus[1].part + 1
      /\ bus' = <<>> <=> Len(bus) = 1
      /\ GoesOut(bus', asked')
      /\ Len(bus) # 1 => /\ bus'[1].part = bus[1].part + 1 /\ bus'[1].need = bus[1].need
                         /\ bus'[1].msg = bus[1].msg /\ bus'[1].sn = bus[1].part % SnModulus
  BY <1>1, <1>3, <1>4, TailGoesOut
<1>7. bus[1].part >= 1 /\ bus[1].need >= 1
  BY <1>6 DEF FrameAt
<1> QED BY <1>1, <1>2, <1>3, <1>5, <1>6, <1>7

(* A frame the log lost.                                                   *)
LEMMA MissedInv == ASSUME UdsInv, Missed PROVE UdsInv'
<1> USE DEF UdsInv
<1> DEFINE f == bus[1]
<1>1. /\ bus # <<>> /\ Sent(Head(bus)) /\ Lose(Head(bus).pci)
      /\ seen' = [seen EXCEPT !.parts = IF Len(bus) = 1 THEN 0 ELSE @]
      /\ rx' = rx /\ state' = state /\ dtcs' = dtcs /\ events' = events /\ counts' = counts
      /\ answered' = answered
  BY DEF Missed
<1>2. /\ Head(bus) = f /\ FrameAt(bus, 1, asked) /\ asked \in Questions
      /\ asked' \in Questions \cup {None} /\ asked' \in {asked, None} /\ asks' = asks
      /\ GoesOut(bus', asked') /\ f.part \in Nat \ {0} /\ f.need \in Nat \ {0}
      /\ Len(bus) = f.need - f.part + 1
      /\ bus' = <<>> <=> Len(bus) = 1
      /\ Len(bus) # 1 => bus'[1].part = f.part + 1 /\ bus'[1].need = f.need /\ bus'[1].msg = f.msg
  BY <1>1, SentFacts
<1>3. /\ DOMAIN seen' = DOMAIN seen /\ seen'.loose = seen.loose /\ seen'.told = seen.told
      /\ seen'.parts = (IF Len(bus) = 1 THEN 0 ELSE seen.parts) /\ seen.parts \in Nat /\ seen.parts < f.part
  BY <1>1 DEF CarShape
<1>4. missed \subseteq missed' /\ ("first" \notin missed' => f.pci # "first")
  BY <1>1, <1>2 DEF Lose
<1>5. RxShape'
  BY <1>1 DEF RxShape, ReaderShape, ChunkRead
<1>6. CarShape'
  BY <1>2, <1>3 DEF CarShape
<1>7. QuietIsTold' /\ NothingDroppedSilently'
  BY <1>1, <1>3 DEF QuietIsTold, NothingDroppedSilently
<1>8. "first" \notin missed' /\ bus' # <<>> => f.part > 1
  BY <1>2, <1>4 DEF FrameAt
<1>9. HeldIsOne'
  BY <1>1, <1>2, <1>3, <1>4, <1>8 DEF HeldIsOne
<1>10. WholeIsHeld'
  <2>1. ASSUME bus' # <<>> PROVE seen'.parts # bus'[1].part - 1
    <3>1. seen'.parts = seen.parts /\ bus'[1].part = f.part + 1
      BY <1>2, <1>3, <2>1
    <3> QED BY <1>2, <1>3, <3>1
  <2> QED BY <2>1 DEF WholeIsHeld
<1>11. RequestIsAsked' /\ FaultsAreAnswered' /\ RefusalNamesItsRequest'
  BY <1>1, <1>2, <1>4 DEF RequestIsAsked, FaultsAreAnswered, RefusalNamesItsRequest
<1> QED BY <1>5, <1>6, <1>7, <1>9, <1>10, <1>11

(* What Logged does, on what was read.                                     *)
LEMMA LoggedFacts ==
  ASSUME UdsInv, Logged
  PROVE  LET f == bus[1]
             t == Feed(ChunkRead, f)
         IN  /\ bus # <<>> /\ Head(bus) = f /\ Sent(Head(bus)) /\ missed' = missed
             /\ rx' = t.rx /\ state' = t.state /\ dtcs' = t.dtcs /\ events' = t.events /\ counts' = t.counts
             /\ answered' = IF f.msg.kind = "dtcs" /\ seen.parts + 1 = f.need
                            THEN [r \in DOMAIN answered \cup {f.msg.of} |->
                                    IF r = f.msg.of THEN f.msg.val ELSE answered[r]]
                            ELSE answered
             /\ DOMAIN seen' = {"parts", "loose", "told"}
             /\ seen'.parts = (IF Len(bus) = 1 THEN 0 ELSE seen.parts + 1)
             /\ seen'.loose = Thrown(f)
             /\ seen'.told = (\/ Len(t.events) > Len(events)
                              \/ "frames cut at the start" \in t.counts /\ ~t.rx.started
                              \/ f.pci = "consecutive" /\ seen.loose /\ seen.told)
<1>1. Head(bus) = bus[1] /\ bus # <<>>
  <2>1. bus # <<>>
    BY DEF Logged
  <2>2. bus \in Seq(LogFrames)
    BY DEF UdsInv, CarShape, GoesOut
  <2> QED BY <2>1, <2>2
<1> QED BY <1>1 DEF Logged, Goes

(* The shape of the reading and the car, whatever the frame did.           *)
LEMMA ReadShape ==
  ASSUME UdsInv
  PROVE  /\ ReaderShape(ChunkRead) /\ Known(ChunkRead) /\ dtcs \in [DOMAIN dtcs -> SUBSET Codes]
         /\ ChunkRead.rx = rx /\ ChunkRead.dtcs = dtcs /\ ChunkRead.events = events
<1>1. ReaderShape(ChunkRead) /\ dtcs \in [DOMAIN dtcs -> SUBSET Codes]
  BY DEF UdsInv, RxShape
<1>2. ChunkRead.rx = rx /\ ChunkRead.dtcs = dtcs /\ ChunkRead.events = events
  BY DEF ChunkRead
<1>3. Known(ChunkRead)
  BY <1>1, <1>2 DEF Known, Before
<1> QED BY <1>1, <1>2, <1>3

(* The car does not know of the log.                                       *)
LEMMA LoggedCar ==
  ASSUME UdsInv, Logged
  PROVE  CarShape'
<1> DEFINE f == bus[1]
<1>1. /\ bus # <<>> /\ Head(bus) = f /\ Sent(Head(bus)) /\ DOMAIN seen' = {"parts", "loose", "told"}
      /\ seen'.parts = (IF Len(bus) = 1 THEN 0 ELSE seen.parts + 1)
  BY LoggedFacts
<1>2. CarShape
  BY DEF UdsInv
<1>3. /\ asked' \in Questions \cup {None} /\ asks' = asks /\ GoesOut(bus', asked')
      /\ f.part \in Nat \ {0} /\ (bus' = <<>> <=> Len(bus) = 1)
      /\ Len(bus) # 1 => bus'[1].part = f.part + 1
  BY <1>1, <1>2, SentFacts
<1>4. seen.parts \in Nat /\ seen.parts < f.part /\ asks \in Nat
  BY <1>1, <1>2 DEF CarShape
<1>5. bus' # <<>> => seen'.parts < bus'[1].part
  <2> SUFFICES ASSUME bus' # <<>> PROVE seen'.parts < bus'[1].part
    OBVIOUS
  <2>1. seen'.parts = seen.parts + 1 /\ bus'[1].part = f.part + 1
    BY <1>1, <1>3
  <2> QED BY <1>3, <1>4, <2>1
<1>6. seen'.parts \in Nat /\ (bus' = <<>> => seen'.parts = 0)
  BY <1>1, <1>3, <1>4
<1> QED BY <1>1, <1>3, <1>4, <1>5, <1>6 DEF CarShape

(* A frame that completed nothing leaves requests, faults and names alone. *)
LEMMA BesideRest ==
  ASSUME UdsInv, NEW t, Beside(ChunkRead, t), t.rx.request = rx.request,
         rx' = t.rx, dtcs' = t.dtcs, events' = t.events, missed' = missed, asked' \in {asked, None}
  PROVE  /\ RequestIsAsked' /\ RefusalNamesItsRequest'
         /\ (missed \cap {"request", "first"} = {} => answered' = answered) => FaultsAreAnswered'
         /\ dtcs' \in [DOMAIN dtcs' -> SUBSET Codes]
<1>1. ReaderShape(ChunkRead) /\ ChunkRead.events = events /\ ChunkRead.dtcs = dtcs
      /\ dtcs \in [DOMAIN dtcs -> SUBSET Codes]
  BY ReadShape
<1>2. Grown(ChunkRead, t) /\ ReaderShape(t) /\ t.dtcs = dtcs
      /\ \A i \in New(ChunkRead, t) : t.events[i].kind \notin {"dtc", "nrc"}
  BY <1>1 DEF Beside
<1>3. RequestIsAsked'
  BY DEF UdsInv, RequestIsAsked
<1>4. RefusalNamesItsRequest'
  <2> SUFFICES ASSUME "request" \notin missed, NEW i \in DOMAIN events', events'[i].kind = "nrc"
               PROVE  events'[i].name \in {None, events'[i].text}
    BY DEF RefusalNamesItsRequest
  <2>1. DOMAIN t.events = 1..Len(t.events) /\ DOMAIN events = 1..Len(events)
    BY <1>1, <1>2 DEF ReaderShape
  <2>2. i \in DOMAIN events
    BY <1>1, <1>2, <2>1 DEF New, Grown
  <2>3. events'[i] = events[i]
    BY <1>1, <1>2, <2>1, <2>2 DEF Grown
  <2> QED BY <2>2, <2>3 DEF UdsInv, RefusalNamesItsRequest
<1>5. ASSUME missed \cap {"request", "first"} = {} => answered' = answered
      PROVE  FaultsAreAnswered'
  <2>1. Replays(dtcs, events) => Replays(dtcs', events')
    BY <1>1, <1>2, ReplayBeside
  <2> QED BY <1>2, <1>5, <2>1 DEF UdsInv, FaultsAreAnswered
<1> QED BY <1>1, <1>2, <1>3, <1>4, <1>5

(* A message completed: it is the answer on the bus, at its end.           *)
LEMMA TookRest ==
  ASSUME UdsInv, Logged, NEW m \in Answers, NEW t, t = Feed(ChunkRead, bus[1]),
         Took(ChunkRead, m, t),
         m.kind = "refused" => m = bus[1].msg,
         "first" \notin missed => m = bus[1].msg /\ Len(bus) = 1 /\ seen.parts + 1 = bus[1].need
  PROVE  /\ RequestIsAsked' /\ RefusalNamesItsRequest' /\ FaultsAreAnswered'
         /\ dtcs' \in [DOMAIN dtcs' -> SUBSET Codes]
<1> DEFINE f == bus[1]
           s == ChunkRead
<1>1. ReaderShape(s) /\ s.events = events /\ s.dtcs = dtcs /\ s.rx = rx
      /\ dtcs \in [DOMAIN dtcs -> SUBSET Codes]
  BY ReadShape
<1>2. /\ bus # <<>> /\ Sent(Head(bus)) /\ missed' = missed /\ rx' = t.rx /\ dtcs' = t.dtcs
      /\ events' = t.events
      /\ answered' = IF f.msg.kind = "dtcs" /\ seen.parts + 1 = f.need
                     THEN [r \in DOMAIN answered \cup {f.msg.of} |->
                             IF r = f.msg.of THEN f.msg.val ELSE answered[r]]
                     ELSE answered
  BY LoggedFacts
<1>3. /\ f.msg.of = asked /\ asked \in Questions /\ asked' \in {asked, None} /\ asked # None
      /\ Len(bus) = 1 /\ f.msg.kind # "pending" => asked' = None
  <2>1. CarShape
    BY DEF UdsInv
  <2>2. FrameAt(bus, 1, asked) /\ asked \in Questions /\ asked' \in {asked, None}
        /\ (Len(bus) = 1 /\ f.msg.kind # "pending" => asked' = None)
    BY <1>2, <2>1, SentFacts
  <2> QED BY <2>2, UdsLogAssumption DEF FrameAt
<1>4. Grown(s, t) /\ ReaderShape(t) /\ Took(s, m, t)
  BY DEF Took
<1> HIDE DEF s
<1>5. t.rx.request = IF m.kind = "pending" THEN rx.request ELSE None
  BY <1>1, <1>4 DEF Took
<1>6. RequestIsAsked'
  <2> SUFFICES ASSUME "request" \notin missed, asked' # None
               PROVE  /\ rx'.request \in {None, asked'}
                      /\ "first" \notin missed => rx'.request = asked'
    BY <1>2 DEF RequestIsAsked
  <2>1. asked' = asked /\ rx.request \in {None, asked} /\ ("first" \notin missed => rx.request = asked)
    BY <1>3 DEF UdsInv, RequestIsAsked
  <2>2. "first" \notin missed => m.kind = "pending"
    BY <1>3
  <2> QED BY <1>2, <1>5, <2>1, <2>2
<1>7. RefusalNamesItsRequest'
  <2> SUFFICES ASSUME "request" \notin missed, NEW i \in DOMAIN events', events'[i].kind = "nrc"
               PROVE  events'[i].name \in {None, events'[i].text}
    BY <1>2 DEF RefusalNamesItsRequest
  <2>1. DOMAIN t.events = 1..Len(t.events) /\ DOMAIN events = 1..Len(events)
    BY <1>1, <1>4 DEF ReaderShape
  <2>2. CASE i \in DOMAIN events
    <3>1. events'[i] = events[i]
      BY <1>1, <1>2, <1>4, <2>1, <2>2 DEF Grown
    <3> QED BY <2>2, <3>1 DEF UdsInv, RefusalNamesItsRequest
  <2>3. CASE i \in New(s, t)
    <3>1. m.kind = "refused" /\ events'[i].text = m.of /\ events'[i].name \in {None, rx.request}
      BY <1>1, <1>2, <1>4, <2>3 DEF Took
    <3>2. m.of = asked
      BY <1>3, <3>1
    <3>3. rx.request \in {None, asked}
      BY <1>3 DEF UdsInv, RequestIsAsked
    <3> QED BY <3>1, <3>2, <3>3
  <2> QED BY <1>1, <1>2, <1>4, <2>1, <2>2, <2>3 DEF New, Grown
<1>8. dtcs' \in [DOMAIN dtcs' -> SUBSET Codes]
  <2>1. CASE m.kind = "dtcs"
    <3>1. m.val \in SUBSET Codes
      BY <2>1 DEF Answers
    <3>2. t.dtcs = [r \in DOMAIN dtcs \cup {Asked(s)} |-> IF r = Asked(s) THEN m.val ELSE dtcs[r]]
      BY <1>1, <1>4, <2>1 DEF Took, ListsFaults
    <3> DEFINE q == Asked(s)
    <3> HIDE DEF q
    <3>3. t.dtcs = [r \in DOMAIN dtcs \cup {q} |-> IF r = q THEN m.val ELSE dtcs[r]]
      BY <3>2 DEF q
    <3>4. t.dtcs \in [DOMAIN dtcs \cup {q} -> SUBSET Codes] /\ DOMAIN t.dtcs = DOMAIN dtcs \cup {q}
      BY <1>1, <3>1, <3>3
    <3> QED BY <1>2, <3>4
  <2>2. CASE m.kind # "dtcs"
    BY <1>1, <1>2, <1>4, <2>2 DEF Took
  <2> QED BY <2>1, <2>2
<1>9. FaultsAreAnswered'
  <2> SUFFICES ASSUME missed \cap {"request", "first"} = {}
               PROVE  dtcs' = answered' /\ Replays(dtcs', events')
    BY <1>2 DEF FaultsAreAnswered
  <2>1. dtcs = answered /\ Replays(dtcs, events) /\ m = f.msg /\ seen.parts + 1 = f.need
    BY DEF UdsInv, FaultsAreAnswered
  <2>2. rx.request = asked
    BY <1>3 DEF UdsInv, RequestIsAsked
  <2>3. CASE m.kind = "dtcs"
    <3>1. m.val \in SUBSET Codes /\ m.of \in FaultReads
      BY <2>3 DEF Answers
    <3>2. Asked(s) = asked
      BY <1>1, <1>3, <2>1, <2>2, <3>1 DEF Asked, FaultReads
    <3>3. ListsFaults(s, m.val, t)
      BY <1>4, <2>3 DEF Took
    <3>4. t.dtcs = [r \in DOMAIN dtcs \cup {asked} |-> IF r = asked THEN m.val ELSE dtcs[r]]
      BY <1>1, <3>2, <3>3 DEF ListsFaults
    <3>5. dtcs' = answered'
      BY <1>2, <1>3, <2>1, <2>3, <3>4
    <3>6. Replays(t.dtcs, t.events)
      BY <1>1, <1>3, <1>4, <2>1, <3>1, <3>2, <3>3, ReplayListed
    <3> QED BY <1>2, <3>5, <3>6
  <2>4. CASE m.kind # "dtcs"
    <3>1. t.dtcs = dtcs /\ \A i \in New(s, t) : t.events[i].kind # "dtc"
      BY <1>1, <1>4, <2>4 DEF Took
    <3>2. Replays(t.dtcs, t.events)
      BY <1>1, <1>4, <2>1, <3>1, ReplayBeside
    <3> QED BY <1>2, <2>1, <2>4, <3>1, <3>2
  <2> QED BY <2>3, <2>4
<1> QED BY <1>6, <1>7, <1>8, <1>9

(* The reading after a frame.                                              *)
LEMMA ReadNext ==
  ASSUME NEW t, ReaderShape(t), rx' = t.rx, events' = t.events PROVE ReaderShape(ChunkRead)'
<1>1. DOMAIN t.rx = {"started", "buf", "need", "sn", "quiet", "request"} /\ \E S : t.events \in Seq(S)
  BY DEF ReaderShape
<1> QED BY <1>1 DEF ReaderShape, ChunkRead

(* A single frame logged.                                                  *)
LEMMA LoggedSingle ==
  ASSUME UdsInv, Logged, bus[1].pci = "single" PROVE UdsInv'
<1> DEFINE f == bus[1]
           t == Feed(ChunkRead, f)
           m == f.msg
<1>1. /\ bus # <<>> /\ Sent(Head(bus)) /\ missed' = missed /\ rx' = t.rx /\ dtcs' = t.dtcs
      /\ events' = t.events /\ seen'.loose = Thrown(f)
  BY LoggedFacts
<1>2. CarShape /\ CarShape'
  BY LoggedCar DEF UdsInv
<1>3. f \in LogFrames /\ FrameAt(bus, 1, asked) /\ Len(bus) = f.need - f.part + 1
      /\ f.part \in Nat \ {0} /\ f.need \in Nat \ {0} /\ Len(bus) \in Nat \ {0}
      /\ (bus' = <<>> <=> Len(bus) = 1)
  BY <1>1, <1>2, SentFacts
<1>4. m \in Answers
  BY <1>3 DEF LogFrames
<1>5. t = Single(ChunkRead, f)
  BY DEF Feed
<1>6. Took(ChunkRead, m, t) /\ t.rx.buf = None /\ t.rx.quiet = FALSE
  BY <1>3, <1>5, ReadShape, SingleFed
<1>7. f.need = 1 /\ Len(bus) = 1 /\ seen.parts = 0
  <2>1. f.need = 1
    BY <1>3 DEF FrameAt
  <2>2. seen.parts \in Nat /\ seen.parts < f.part
    BY <1>1, <1>2 DEF CarShape
  <2>3. f.part = 1
    BY <1>3, <2>1
  <2> QED BY <1>3, <2>1, <2>2, <2>3
<1>8. /\ RequestIsAsked' /\ RefusalNamesItsRequest' /\ FaultsAreAnswered'
      /\ dtcs' \in [DOMAIN dtcs' -> SUBSET Codes]
  <2> HIDE DEF t
  <2>1. m = bus[1].msg /\ t = Feed(ChunkRead, bus[1]) /\ seen.parts + 1 = bus[1].need
    BY <1>7 DEF t
  <2> HIDE DEF m
  <2> QED BY <1>4, <1>6, <1>7, <2>1, TookRest
<1>9. ReaderShape(ChunkRead)'
  <2>1. ReaderShape(t)
    BY <1>6 DEF Took
  <2> QED BY <1>1, <2>1, ReadNext
<1> HIDE DEF t
<1>10. rx'.buf = None /\ rx'.quiet = FALSE /\ bus' = <<>> /\ seen'.loose = FALSE
  BY <1>1, <1>3, <1>6, <1>7 DEF Thrown
<1>11. RxShape'
  BY <1>8, <1>9, <1>10 DEF RxShape
<1>12. QuietIsTold' /\ NothingDroppedSilently' /\ HeldIsOne' /\ WholeIsHeld'
  BY <1>10 DEF QuietIsTold, NothingDroppedSilently, HeldIsOne, WholeIsHeld
<1> QED BY <1>2, <1>8, <1>11, <1>12 DEF UdsInv

(* A first frame logged.                                                   *)
LEMMA LoggedFirst ==
  ASSUME UdsInv, Logged, bus[1].pci = "first" PROVE UdsInv'
<1> DEFINE f == bus[1]
           t == Feed(ChunkRead, f)
<1>1. /\ bus # <<>> /\ Sent(Head(bus)) /\ missed' = missed /\ rx' = t.rx /\ dtcs' = t.dtcs
      /\ events' = t.events /\ seen'.loose = Thrown(f)
      /\ seen'.parts = (IF Len(bus) = 1 THEN 0 ELSE seen.parts + 1)
      /\ (seen.parts + 1 # f.need => answered' = answered)
  BY LoggedFacts
<1>2. CarShape /\ CarShape'
  BY LoggedCar DEF UdsInv
<1>3. /\ f \in LogFrames /\ FrameAt(bus, 1, asked) /\ Len(bus) = f.need - f.part + 1
      /\ f.part \in Nat \ {0} /\ f.need \in Nat \ {0} /\ Len(bus) \in Nat \ {0}
      /\ (bus' = <<>> <=> Len(bus) = 1) /\ asked' \in {asked, None}
      /\ Len(bus) # 1 => /\ bus'[1].part = f.part + 1 /\ bus'[1].need = f.need
                         /\ bus'[1].msg = f.msg /\ bus'[1].sn = f.part % SnModulus
  BY <1>1, <1>2, SentFacts
<1>4. t = First(ChunkRead, f)
  BY DEF Feed
<1>5. /\ Beside(ChunkRead, t) /\ t.rx.request = rx.request /\ t.rx.buf = <<f>>
      /\ t.rx.need = f.need /\ t.rx.sn = 1 % SnModulus /\ t.rx.quiet = FALSE
  <2>1. ReaderShape(ChunkRead) /\ ChunkRead.rx = rx
    BY ReadShape
  <2> DEFINE s == ChunkRead
             u == First(s, f)
  <2>2. /\ Beside(s, u) /\ u.rx.request = s.rx.request /\ u.rx.buf = <<f>>
        /\ u.rx.need = f.need /\ u.rx.sn = 1 % SnModulus /\ u.rx.quiet = FALSE
    <3> HIDE DEF f, s
    <3> QED BY <2>1, FirstFed DEF s
  <2>3. t = u
    BY <1>4
  <2> HIDE DEF t, u, f
  <2> QED BY <2>1, <2>2, <2>3
<1>6. f.part = 1 /\ f.need > 1 /\ seen.parts = 0 /\ f.msg.kind # "refused"
  <2>1. f.part = 1 /\ f.need # 1
    BY <1>3 DEF FrameAt
  <2>2. seen.parts \in Nat /\ seen.parts < f.part
    BY <1>1, <1>2 DEF CarShape
  <2>3. f.msg.kind # "refused"
    BY <1>3, <2>1 DEF FrameAt
  <2> QED BY <1>3, <2>1, <2>2, <2>3
<1>7. /\ RequestIsAsked' /\ RefusalNamesItsRequest' /\ FaultsAreAnswered'
      /\ dtcs' \in [DOMAIN dtcs' -> SUBSET Codes]
  <2>1. answered' = answered
    BY <1>1, <1>6
  <2> HIDE DEF t
  <2> QED BY <1>1, <1>3, <1>5, <2>1, BesideRest
<1>8. ReaderShape(ChunkRead)'
  <2>1. ReaderShape(t)
    BY <1>5 DEF Beside
  <2> QED BY <1>1, <2>1, ReadNext
<1> HIDE DEF t
<1>9. /\ rx'.buf = <<f>> /\ rx'.need = f.need /\ rx'.sn = 1 % SnModulus /\ rx'.quiet = FALSE
      /\ seen'.loose = FALSE /\ rx'.buf[1] = f /\ Len(rx'.buf) = 1 /\ rx'.buf \in Seq(LogFrames)
      /\ rx'.buf # <<>>
  <2>1. seen'.loose = FALSE
    BY <1>1 DEF Thrown
  <2>2. rx'.buf = <<f>> /\ rx'.need = f.need /\ rx'.sn = 1 % SnModulus /\ rx'.quiet = FALSE
    BY <1>1, <1>5
  <2> HIDE DEF f
  <2>3. <<f>>[1] = f /\ Len(<<f>>) = 1 /\ <<f>> \in Seq(LogFrames) /\ <<f>> # <<>>
    BY <1>3
  <2> QED BY <2>1, <2>2, <2>3
<1>10. rx'.buf # None
  BY <1>9, UdsLogAssumption
<1>11. RxShape'
  BY <1>3, <1>6, <1>7, <1>8, <1>9 DEF RxShape
<1>12. Len(bus) # 1 /\ seen'.parts = 1 /\ bus'[1].part = 2 /\ bus'[1].sn = 1 % SnModulus
  <2>1. Len(bus) # 1
    BY <1>3, <1>6
  <2>2. bus'[1].part = f.part + 1 /\ bus'[1].sn = f.part % SnModulus
    BY <1>3, <2>1
  <2>3. seen'.parts = seen.parts + 1
    BY <1>1, <2>1
  <2> HIDE DEF f
  <2> QED BY <1>6, <2>1, <2>2, <2>3
<1>13. HeldIsOne'
  BY <1>3, <1>9, <1>12 DEF HeldIsOne
<1>14. WholeIsHeld'
  BY <1>9, <1>10, <1>12 DEF WholeIsHeld
<1>15. QuietIsTold' /\ NothingDroppedSilently'
  BY <1>9 DEF QuietIsTold, NothingDroppedSilently
<1> QED BY <1>2, <1>7, <1>11, <1>13, <1>14, <1>15 DEF UdsInv

(* Counting on modulo a number.                                            *)
LEMMA NextModulo ==
  ASSUME NEW p \in Nat \ {0}, NEW k \in Nat \ {0}
  PROVE  (((p - 1) % k) + 1) % k = p % k
<1> DEFINE r == (p - 1) % k
           d == (p - 1) \div k
<1>1. r \in 0..(k - 1) /\ d \in Nat /\ p - 1 = k * d + r
  OBVIOUS
<1> HIDE DEF r, d
<1>2. CASE r + 1 < k
  <2>1. p = k * d + (r + 1) /\ r + 1 \in 0..(k - 1)
    BY <1>1, <1>2
  <2>2. p % k = r + 1 /\ (r + 1) % k = r + 1
    BY <1>1, <2>1
  <2> QED BY <2>2 DEF r
<1>3. CASE r + 1 = k
  <2>1. p = k * (d + 1) + 0
    BY <1>1, <1>3
  <2>2. p % k = 0 /\ k % k = 0
    BY <1>1, <2>1
  <2> QED BY <1>3, <2>2 DEF r
<1> QED BY <1>1, <1>2, <1>3

(* A consecutive frame that follows nothing held.                          *)
LEMMA LoggedLoose ==
  ASSUME UdsInv, Logged, bus[1].pci = "consecutive", rx.buf = None \/ bus[1].sn # rx.sn PROVE UdsInv'
<1> DEFINE f == bus[1]
           s == ChunkRead
           t == Feed(s, f)
<1>1. /\ bus # <<>> /\ Sent(Head(bus)) /\ missed' = missed /\ rx' = t.rx /\ dtcs' = t.dtcs
      /\ events' = t.events /\ seen'.loose = Thrown(f)
      /\ seen'.parts = (IF Len(bus) = 1 THEN 0 ELSE seen.parts + 1)
      /\ (seen.parts + 1 # f.need => answered' = answered)
      /\ seen'.told = (\/ Len(t.events) > Len(events)
                       \/ "frames cut at the start" \in t.counts /\ ~t.rx.started
                       \/ f.pci = "consecutive" /\ seen.loose /\ seen.told)
  BY LoggedFacts
<1>2. CarShape /\ CarShape'
  BY LoggedCar DEF UdsInv
<1>3. /\ f \in LogFrames /\ FrameAt(bus, 1, asked) /\ Len(bus) = f.need - f.part + 1
      /\ f.part \in Nat \ {0} /\ f.need \in Nat \ {0} /\ Len(bus) \in Nat \ {0}
      /\ (bus' = <<>> <=> Len(bus) = 1) /\ asked' \in {asked, None}
      /\ Len(bus) # 1 => bus'[1].part = f.part + 1
  BY <1>1, <1>2, SentFacts
<1>4. ReaderShape(s) /\ s.rx = rx /\ s.events = events
  BY ReadShape
<1>5. t = Consecutive(s, f)
  BY DEF Feed
<1>6. /\ Beside(s, t) /\ t.rx.request = rx.request /\ t.rx.buf = None
      /\ \/ "frames cut at the start" \in t.counts /\ ~t.rx.started
         \/ rx.quiet /\ t = s
         \/ Len(t.events) > Len(events)
  <2> HIDE DEF s, f, t
  <2>1. s.rx.buf = None \/ f.sn # s.rx.sn
    BY <1>4 DEF f
  <2> DEFINE u == Consecutive(s, f)
  <2>2. /\ Beside(s, u) /\ u.rx.request = s.rx.request /\ u.rx.buf = None
        /\ \/ "frames cut at the start" \in u.counts /\ ~u.rx.started
           \/ s.rx.quiet /\ u = s
           \/ Len(u.events) > Len(s.events)
    BY <1>4, <2>1, LooseFed
  <2> HIDE DEF u
  <2>3. t = u
    BY <1>5 DEF u
  <2> QED BY <1>4, <2>2, <2>3
<1>7. f.part > 1
  <2>1. f.part # 1
    BY <1>3 DEF FrameAt
  <2> HIDE DEF f
  <2> QED BY <1>3, <2>1
<1>8. seen.parts \in Nat /\ seen.parts < f.part
  BY <1>1, <1>2 DEF CarShape
<1>9. "first" \notin missed => seen.parts < f.part - 1
  <2>1. "first" \notin missed => seen.parts # f.part - 1
    BY <1>1, <1>7 DEF UdsInv, WholeIsHeld
  <2>2. seen.parts # f.part - 1 => seen.parts < f.part - 1
    <3> DEFINE x == seen.parts
               p == f.part
    <3>1. x \in Nat /\ p \in Nat /\ x < p
      BY <1>3, <1>8
    <3> HIDE DEF x, p
    <3>2. x # p - 1 => x < p - 1
      BY <3>1
    <3> QED BY <3>2 DEF x, p
  <2> QED BY <2>1, <2>2
<1>10. /\ RequestIsAsked' /\ RefusalNamesItsRequest' /\ FaultsAreAnswered'
       /\ dtcs' \in [DOMAIN dtcs' -> SUBSET Codes]
  <2>1. f.part <= f.need
    BY <1>3
  <2>2. "first" \notin missed => seen.parts + 1 # f.need
    <3> HIDE DEF f
    <3> QED BY <1>3, <1>8, <1>9, <2>1
  <2>3. missed \cap {"request", "first"} = {} => answered' = answered
    BY <1>1, <2>2
  <2> HIDE DEF t
  <2> QED BY <1>1, <1>3, <1>6, <2>3, BesideRest
<1>11. ReaderShape(ChunkRead)'
  <2>1. ReaderShape(t)
    BY <1>6 DEF Beside
  <2> HIDE DEF t
  <2> QED BY <1>1, <2>1, ReadNext
<1>12. seen'.loose /\ seen'.told
  <2>1. Thrown(f)
    BY DEF Thrown
  <2>2. rx.quiet => seen.loose /\ seen.told
    BY DEF UdsInv, QuietIsTold
  <2> HIDE DEF t
  <2> QED BY <1>1, <1>6, <2>1, <2>2
<1> HIDE DEF t
<1>13. RxShape'
  BY <1>1, <1>6, <1>10, <1>11 DEF RxShape
<1>14. QuietIsTold' /\ NothingDroppedSilently' /\ HeldIsOne'
  BY <1>1, <1>6, <1>12 DEF QuietIsTold, NothingDroppedSilently, HeldIsOne
<1>15. WholeIsHeld'
  <2> SUFFICES ASSUME "first" \notin missed, bus' # <<>> PROVE seen'.parts # bus'[1].part - 1
    BY <1>1 DEF WholeIsHeld
  <2>1. seen'.parts = seen.parts + 1 /\ bus'[1].part = f.part + 1
    BY <1>1, <1>3
  <2> HIDE DEF f
  <2> QED BY <1>3, <1>8, <1>9, <2>1
<1> QED BY <1>2, <1>10, <1>13, <1>14, <1>15 DEF UdsInv

(* A consecutive frame that follows what is held.                          *)
LEMMA LoggedNext ==
  ASSUME UdsInv, Logged, bus[1].pci = "consecutive", rx.buf # None, bus[1].sn = rx.sn PROVE UdsInv'
<1> DEFINE f == bus[1]
           s == ChunkRead
           t == Feed(s, f)
           m == rx.buf[1].msg
           n == Len(rx.buf)
<1>1. /\ bus # <<>> /\ Sent(Head(bus)) /\ missed' = missed /\ rx' = t.rx /\ dtcs' = t.dtcs
      /\ events' = t.events /\ seen'.loose = Thrown(f)
      /\ seen'.parts = (IF Len(bus) = 1 THEN 0 ELSE seen.parts + 1)
      /\ (seen.parts + 1 # f.need => answered' = answered)
  BY LoggedFacts
<1>2. CarShape /\ CarShape'
  BY LoggedCar DEF UdsInv
<1>3. /\ f \in LogFrames /\ FrameAt(bus, 1, asked) /\ Len(bus) = f.need - f.part + 1
      /\ f.part \in Nat \ {0} /\ f.need \in Nat \ {0} /\ Len(bus) \in Nat \ {0}
      /\ (bus' = <<>> <=> Len(bus) = 1) /\ asked' \in {asked, None}
      /\ Len(bus) # 1 => /\ bus'[1].part = f.part + 1 /\ bus'[1].need = f.need
                         /\ bus'[1].msg = f.msg /\ bus'[1].sn = f.part % SnModulus
  BY <1>1, <1>2, SentFacts
<1>4. ReaderShape(s) /\ Known(s) /\ s.rx = rx
  BY ReadShape
<1>5. /\ rx.buf \in Seq(LogFrames) /\ rx.buf # <<>> /\ rx.need \in Nat /\ m.kind # "refused"
      /\ n \in Nat \ {0} /\ rx.buf[1] \in LogFrames /\ m \in Answers
  <2>1. rx.buf \in Seq(LogFrames) /\ rx.buf # <<>> /\ rx.need \in Nat /\ m.kind # "refused"
    BY DEF UdsInv, RxShape
  <2>2. n \in Nat \ {0} /\ rx.buf[1] \in LogFrames
    BY <2>1
  <2> QED BY <2>1, <2>2 DEF LogFrames
<1>6. /\ t.rx.quiet = rx.quiet /\ ReaderShape(t)
      /\ n + 1 >= rx.need => Took(s, m, t) /\ t.rx.buf = None
      /\ n + 1 < rx.need =>
            /\ Beside(s, t) /\ t.rx.request = rx.request
            /\ t.rx.buf = Append(rx.buf, f) /\ t.rx.need = rx.need
            /\ t.rx.sn = (rx.sn + 1) % SnModulus
  <2>1. t = Consecutive(s, f)
    BY DEF Feed
  <2> HIDE DEF s, f, t
  <2> DEFINE u == Consecutive(s, f)
  <2>2. s.rx.buf # None /\ f.sn = s.rx.sn /\ s.rx.buf \in Seq(LogFrames) /\ s.rx.buf # <<>>
        /\ s.rx.need \in Nat
    BY <1>4, <1>5 DEF f
  <2>3. /\ u.rx.quiet = s.rx.quiet /\ ReaderShape(u)
        /\ Len(s.rx.buf) + 1 >= s.rx.need => Took(s, s.rx.buf[1].msg, u) /\ u.rx.buf = None
        /\ Len(s.rx.buf) + 1 < s.rx.need =>
              /\ Beside(s, u) /\ u.rx.request = s.rx.request
              /\ u.rx.buf = Append(s.rx.buf, f) /\ u.rx.need = s.rx.need
              /\ u.rx.sn = (s.rx.sn + 1) % SnModulus
    BY <1>3, <1>4, <2>2, NextFed
  <2> HIDE DEF u
  <2>4. t = u
    BY <2>1 DEF u
  <2> QED BY <1>4, <2>3, <2>4
<1>7. f.part > 1
  <2>1. f.part # 1
    BY <1>3 DEF FrameAt
  <2> HIDE DEF f
  <2> QED BY <1>3, <2>1
<1>8. seen.parts \in Nat /\ seen.parts < f.part
  BY <1>1, <1>2 DEF CarShape
<1>9. "first" \notin missed => m = f.msg /\ rx.need = f.need /\ n <= seen.parts
                             /\ \A i \in 1..n : rx.buf[i].msg = m
  BY <1>1, <1>7 DEF UdsInv, HeldIsOne
<1>10. "first" \notin missed /\ seen.parts = f.part - 1 => n = seen.parts
  BY <1>1, <1>7 DEF UdsInv, WholeIsHeld
<1>11. ~seen'.loose /\ ~rx.quiet
  <2>1. ~Thrown(f)
    BY DEF Thrown
  <2>2. ~rx.quiet
    BY DEF UdsInv, QuietIsTold
  <2> HIDE DEF f
  <2> QED BY <1>1, <2>1, <2>2
<1>12. ReaderShape(ChunkRead)'
  <2> HIDE DEF t
  <2> QED BY <1>1, <1>6, ReadNext
<1>13. QuietIsTold' /\ NothingDroppedSilently'
  <2> HIDE DEF t
  <2> QED BY <1>1, <1>6, <1>11 DEF QuietIsTold, NothingDroppedSilently
<1>14. f.part <= f.need
  BY <1>3
<1>15. CASE n + 1 >= rx.need
  <2>1. "first" \notin missed => m = bus[1].msg /\ Len(bus) = 1 /\ seen.parts + 1 = bus[1].need
    <3> SUFFICES ASSUME "first" \notin missed PROVE m = f.msg /\ Len(bus) = 1 /\ seen.parts + 1 = f.need
      OBVIOUS
    <3> HIDE DEF f, m, n
    <3>1. n + 1 >= f.need /\ n <= seen.parts
      BY <1>9, <1>15
    <3>2. seen.parts + 1 = f.need /\ f.part = f.need
      BY <1>3, <1>5, <1>8, <1>14, <3>1
    <3> QED BY <1>3, <1>9, <3>2
  <2>2. /\ RequestIsAsked' /\ RefusalNamesItsRequest' /\ FaultsAreAnswered'
        /\ dtcs' \in [DOMAIN dtcs' -> SUBSET Codes]
    <3>1. t = Feed(ChunkRead, bus[1]) /\ Took(ChunkRead, m, t)
      BY <1>6, <1>15
    <3> HIDE DEF t, m
    <3> QED BY <1>5, <2>1, <3>1, TookRest
  <2> HIDE DEF t
  <2>3. rx'.buf = None
    BY <1>1, <1>6, <1>15
  <2>4. RxShape' /\ HeldIsOne'
    BY <1>12, <2>2, <2>3 DEF RxShape, HeldIsOne
  <2>5. WholeIsHeld'
    <3>1. "first" \notin missed => bus' = <<>>
      BY <1>3, <2>1
    <3> QED BY <1>1, <3>1 DEF WholeIsHeld
  <2> QED BY <1>2, <1>13, <2>2, <2>4, <2>5 DEF UdsInv
<1>16. CASE n + 1 < rx.need
  <2> DEFINE parts == Append(rx.buf, f)
  <2>1. "first" \notin missed => seen.parts + 1 # f.need
    <3> SUFFICES ASSUME "first" \notin missed, seen.parts + 1 = f.need PROVE FALSE
      OBVIOUS
    <3> HIDE DEF f, m, n
    <3>1. seen.parts = f.part - 1
      <4> DEFINE x == seen.parts
                 p == f.part
                 w == f.need
      <4>1. x + 1 = w /\ x \in Nat /\ p \in Nat /\ w \in Nat /\ x < p /\ p <= w
        BY <1>3, <1>8, <1>14
      <4> HIDE DEF x, p, w
      <4>2. x = p - 1
        BY <4>1
      <4> QED BY <4>2 DEF x, p
    <3>2. n = seen.parts /\ rx.need = f.need
      BY <1>9, <1>10, <3>1
    <3> QED BY <1>5, <1>8, <1>16, <3>2
  <2>2. /\ RequestIsAsked' /\ RefusalNamesItsRequest' /\ FaultsAreAnswered'
        /\ dtcs' \in [DOMAIN dtcs' -> SUBSET Codes]
    <3>1. missed \cap {"request", "first"} = {} => answered' = answered
      BY <1>1, <2>1
    <3>2. Beside(ChunkRead, t) /\ t.rx.request = rx.request
      BY <1>6, <1>16
    <3> HIDE DEF t
    <3> QED BY <1>1, <1>3, <3>1, <3>2, BesideRest
  <2> HIDE DEF t
  <2>3. rx'.buf = parts /\ rx'.need = rx.need /\ rx'.sn = (rx.sn + 1) % SnModulus
    BY <1>1, <1>6, <1>16
  <2> HIDE DEF f
  <2>4. /\ parts \in Seq(LogFrames) /\ parts # <<>> /\ Len(parts) = n + 1 /\ parts[1] = rx.buf[1]
        /\ parts[n + 1] = f /\ \A i \in 1..n : parts[i] = rx.buf[i]
    <3> DEFINE b == rx.buf
    <3>1. b \in Seq(LogFrames) /\ f \in LogFrames /\ Len(b) \in Nat \ {0}
      BY <1>3, <1>5
    <3> HIDE DEF b
    <3>2. /\ Append(b, f) \in Seq(LogFrames) /\ Len(Append(b, f)) = Len(b) + 1
          /\ Append(b, f)[Len(b) + 1] = f /\ \A i \in 1..Len(b) : Append(b, f)[i] = b[i]
      BY <3>1
    <3>3. Append(b, f)[1] = b[1] /\ Append(b, f) # <<>>
      BY <3>1, <3>2
    <3> QED BY <3>2, <3>3 DEF b
  <2> HIDE DEF parts
  <2>5. rx'.buf # None
    BY <2>3, <2>4, UdsLogAssumption
  <2>6. RxShape'
    BY <1>5, <1>12, <2>2, <2>3, <2>4 DEF RxShape
  <2>7. HeldIsOne'
    <3> SUFFICES ASSUME "first" \notin missed
                 PROVE  /\ \A i \in 1..Len(parts) : parts[i].msg = parts[1].msg
                        /\ bus' # <<>> => /\ parts[1].msg = bus'[1].msg /\ rx.need = bus'[1].need
                                          /\ Len(parts) <= seen'.parts
      BY <1>1, <2>3 DEF HeldIsOne
    <3>1. parts[1].msg = m /\ m = f.msg
      BY <1>9, <2>4
    <3>2. \A i \in 1..Len(parts) : i \in 1..n \/ i = n + 1
      BY <1>5, <2>4
    <3>3. \A i \in 1..Len(parts) : parts[i].msg = m
      BY <1>9, <2>4, <3>1, <3>2
    <3>4. bus' # <<>> => seen'.parts = seen.parts + 1 /\ bus'[1].msg = f.msg /\ bus'[1].need = f.need
      BY <1>1, <1>3
    <3> HIDE DEF m, n
    <3>5. n + 1 <= seen.parts + 1
      BY <1>5, <1>8, <1>9
    <3> QED BY <1>9, <2>4, <3>1, <3>3, <3>4, <3>5
  <2>8. WholeIsHeld'
    <3> SUFFICES ASSUME "first" \notin missed, bus' # <<>>, seen'.parts = bus'[1].part - 1
                 PROVE  Len(parts) = seen'.parts /\ rx'.sn = bus'[1].sn
      BY <1>1, <2>3, <2>5 DEF WholeIsHeld
    <3>1. seen'.parts = seen.parts + 1 /\ bus'[1].part = f.part + 1 /\ bus'[1].sn = f.part % SnModulus
      BY <1>1, <1>3
    <3>2. seen.parts = f.part - 1
      <4> DEFINE x == seen.parts
                 p == f.part
      <4>1. x + 1 = (p + 1) - 1 /\ x \in Nat /\ p \in Nat
        BY <1>3, <1>8, <3>1
      <4> HIDE DEF x, p
      <4>2. x = p - 1
        BY <4>1
      <4> QED BY <4>2 DEF x, p
    <3>3. n = seen.parts
      BY <1>10, <3>2
    <3>4. f.sn = (f.part - 1) % SnModulus /\ rx.sn = f.sn
      BY <1>3 DEF FrameAt, f
    <3>5. rx'.sn = f.part % SnModulus
      <4> DEFINE p == f.part
      <4>1. p \in Nat \ {0} /\ rx'.sn = (((p - 1) % SnModulus) + 1) % SnModulus
        BY <1>3, <2>3, <3>4
      <4> HIDE DEF p
      <4>2. (((p - 1) % SnModulus) + 1) % SnModulus = p % SnModulus
        BY <4>1, UdsLogAssumption, NextModulo
      <4> QED BY <4>1, <4>2 DEF p
    <3> QED BY <2>4, <3>1, <3>3, <3>5
  <2> QED BY <1>2, <1>13, <2>2, <2>6, <2>7, <2>8 DEF UdsInv
<1> QED BY <1>5, <1>15, <1>16

(* Every step.                                                             *)
LEMMA UdsNextInv == ASSUME UdsInv, [UdsLogNext]_udsLogVars PROVE UdsInv'
<1>1. CASE Ask
  BY <1>1, AskInv
<1>2. CASE Answer
  BY <1>2, AnswerInv
<1>3. CASE Missed
  BY <1>3, MissedInv
<1>4. CASE Logged
  <2>1. bus # <<>> /\ bus[1] \in LogFrames
    <3>1. bus # <<>>
      BY <1>4, LoggedFacts
    <3>2. bus \in Seq(LogFrames)
      BY DEF UdsInv, CarShape, GoesOut
    <3> QED BY <3>1, <3>2
  <2>2. bus[1].pci \in {"single", "first", "consecutive"}
    BY <2>1 DEF LogFrames
  <2>3. CASE bus[1].pci = "single"
    BY <1>4, <2>3, LoggedSingle
  <2>4. CASE bus[1].pci = "first"
    BY <1>4, <2>4, LoggedFirst
  <2>5. CASE bus[1].pci = "consecutive"
    <3>1. CASE rx.buf = None \/ bus[1].sn # rx.sn
      BY <1>4, <2>5, <3>1, LoggedLoose
    <3>2. CASE rx.buf # None /\ bus[1].sn = rx.sn
      BY <1>4, <2>5, <3>2, LoggedNext
    <3> QED BY <3>1, <3>2
  <2> QED BY <2>2, <2>3, <2>4, <2>5
<1>5. CASE UNCHANGED udsLogVars
  BY <1>5 DEF udsLogVars, UdsInv, RxShape, CarShape, QuietIsTold, NothingDroppedSilently, HeldIsOne,
       WholeIsHeld, RequestIsAsked, FaultsAreAnswered, RefusalNamesItsRequest, ChunkRead
<1> QED BY <1>1, <1>2, <1>3, <1>4, <1>5 DEF UdsLogNext

(* The invariant gives the property.                                       *)
LEMMA UdsInvHolds == ASSUME UdsInv PROVE HeldIsOneAnswer
<1>1. FaultEventsReplay
  <2> SUFFICES ASSUME missed \cap {"request", "first"} = {}
               PROVE  /\ dtcs = answered
                      /\ Cardinality(DOMAIN dtcs) = 1 =>
                            \A r \in DOMAIN dtcs : dtcs[r] = {k \in Codes : Replayed(k)}
    BY DEF FaultEventsReplay
  <2>1. dtcs = answered /\ Replays(dtcs, events)
    BY DEF UdsInv, FaultsAreAnswered
  <2>2. \A k : Replayed(k) <=> ReplayedIn(events, k)
    BY DEF Replayed, ReplayedIn, About
  <2>3. ASSUME Cardinality(DOMAIN dtcs) = 1, NEW r \in DOMAIN dtcs
        PROVE  dtcs[r] = {k \in Codes : Replayed(k)}
    <3>1. DOMAIN dtcs = {r}
      <4>1. IsFiniteSet(DOMAIN dtcs)
        BY <2>1 DEF Replays
      <4>2. \E x : DOMAIN dtcs = {x}
        BY <2>3, <4>1, FS_Singleton
      <4> QED BY <4>2
    <3> QED BY <2>1, <2>2, <3>1 DEF Replays
  <2> QED BY <2>1, <2>3
<1>2. rx.buf # None /\ "first" \notin missed =>
        \A i, j \in DOMAIN rx.buf : rx.buf[i].msg = rx.buf[j].msg
  <2> SUFFICES ASSUME rx.buf # None, "first" \notin missed
               PROVE  \A i, j \in DOMAIN rx.buf : rx.buf[i].msg = rx.buf[j].msg
    OBVIOUS
  <2>1. DOMAIN rx.buf = 1..Len(rx.buf)
    BY DEF UdsInv, RxShape
  <2>2. \A i \in 1..Len(rx.buf) : rx.buf[i].msg = rx.buf[1].msg
    BY DEF UdsInv, HeldIsOne
  <2> QED BY <2>1, <2>2
<1> QED BY <1>1, <1>2 DEF UdsInv, HeldIsOneAnswer

(* What the log of one ECU says is what it answered (HeldIsOneAnswer,      *)
(* UdsChunk.feed and _message of sdlog_uds.py): no frame is dropped in     *)
(* silence, the faults told replay to the faults stored, a refusal is      *)
(* named after its request, and what is held is of one answer, whatever    *)
(* the log lost beside the frames each part names.                         *)
THEOREM UdsLogTheorem == UdsLogSpec => []HeldIsOneAnswer
<1>1. UdsLogInit => UdsInv
  BY UdsInitInv
<1>2. UdsInv /\ [UdsLogNext]_udsLogVars => UdsInv'
  BY UdsNextInv
<1>3. UdsInv => HeldIsOneAnswer
  BY UdsInvHolds
<1> QED BY <1>1, <1>2, <1>3, PTL DEF UdsLogSpec

-----------------------------------------------------------------------------
(* The readers of a card file.  The invariant (ReaderInv): whatever the    *)
(* card garbled, every clock statement kept is one the writer made and     *)
(* every time given is that of the stamp it was given for; while no line   *)
(* was found bad, both readers hold the writer's last stamp.               *)
RepFields == {"done", "bad", "torn", "close", "chain", "anchor", "clock", "label", "count", "last",
              "utc", "gap"}
StrFields == {"pc", "chain", "anchor", "clock", "label", "count", "t", "utc", "best"}
Stated(l) == l.k \in {"utc", "clock"} /\ l.ok
(* A line parse_file counts as bad.                                        *)
BadLine(r, l) ==
  \/ l.k = "stub"
  \/ l.k = "record" /\ (ReadStamp(r.chain, l.stamp) = None \/ ~l.ok)
  \/ l.k \notin {"pad", "record", "stub", "other"} /\ ~l.ok

(* The report y after line l, from r.                                      *)
ParseStep(r, l, cut, y) ==
  LET t == ReadStamp(r.chain, l.stamp)
      read == l.k = "record" /\ t # None /\ l.ok
  IN  /\ DOMAIN y = RepFields
      /\ y.bad = IF ~cut /\ BadLine(r, l) THEN r.bad + 1 ELSE r.bad
      /\ y.count = IF read THEN r.count + 1 ELSE r.count
      /\ y.last = IF read THEN t ELSE r.last
      /\ y.utc = IF read THEN Resolve(r.anchor, t) ELSE r.utc
      /\ y.chain = IF l.k = "record" /\ t # None THEN t ELSE r.chain
      /\ y.anchor = IF l.k = "utc" /\ l.ok THEN l.point ELSE r.anchor
      /\ y.clock = IF Stated(l) THEN Offer(r.clock, l.point) ELSE r.clock
      /\ y.label = IF l.k = "src" /\ l.ok /\ r.label = None THEN l.label ELSE r.label
      /\ y.gap = IF l.k = "gap" /\ l.ok THEN l.gap ELSE r.gap
      /\ y.done <=> l.k = "sdlog" /\ l.ok /\ l.version # 2

(* parse_file over one line, field by field of its report.                 *)
LEMMA ParseFacts ==
  ASSUME NEW r, DOMAIN r = RepFields, r.bad \in Nat, ~r.done, NEW l, NEW cut, cut \in BOOLEAN
  PROVE  ParseStep(r, l, cut, ParseLine(r, l, cut))
<1> DEFINE t == ReadStamp(r.chain, l.stamp)
           x == IF l.k = "pad" THEN r
                ELSE IF l.k \in {"record", "stub"} THEN ParseRecord(r, l)
                ELSE IF l.k # "other" /\ ~l.ok THEN [r EXCEPT !.bad = @ + 1]
                ELSE ParseMeta(r, l)
           y == [x EXCEPT !.torn = cut, !.bad = IF cut THEN r.bad ELSE @]
           read == l.k = "record" /\ t # None /\ l.ok
<1>1. ParseLine(r, l, cut) = y
  BY DEF ParseLine
<1>2. /\ DOMAIN x = RepFields
      /\ x.bad = IF BadLine(r, l) THEN r.bad + 1 ELSE r.bad
      /\ x.count = IF read THEN r.count + 1 ELSE r.count
      /\ x.last = IF read THEN t ELSE r.last
      /\ x.utc = IF read THEN Resolve(r.anchor, t) ELSE r.utc
      /\ x.chain = IF l.k = "record" /\ t # None THEN t ELSE r.chain
      /\ x.anchor = IF l.k = "utc" /\ l.ok THEN l.point ELSE r.anchor
      /\ x.clock = IF Stated(l) THEN Offer(r.clock, l.point) ELSE r.clock
      /\ x.label = IF l.k = "src" /\ l.ok /\ r.label = None THEN l.label ELSE r.label
      /\ x.gap = IF l.k = "gap" /\ l.ok THEN l.gap ELSE r.gap
      /\ x.done <=> l.k = "sdlog" /\ l.ok /\ l.version # 2
  <2>1. CASE l.k = "pad"
    <3>1. x = r
      BY <2>1
    <3> HIDE DEF x
    <3> QED BY <2>1, <3>1 DEF BadLine, Stated
  <2>2. CASE l.k \in {"record", "stub"}
    <3>1. x = ParseRecord(r, l)
      BY <2>2
    <3> HIDE DEF x
    <3>2. CASE l.k = "stub" \/ t = None
      <4>1. x = [r EXCEPT !.bad = @ + 1]
        BY <3>1, <3>2 DEF ParseRecord
      <4> QED BY <2>2, <3>2, <4>1 DEF RepFields, BadLine, Stated
    <3>3. CASE l.k = "record" /\ t # None /\ ~l.ok
      <4>1. x = [r EXCEPT !.chain = t, !.bad = @ + 1]
        BY <3>1, <3>3 DEF ParseRecord
      <4> HIDE DEF t
      <4>2. BadLine(r, l)
        BY <3>3 DEF BadLine
      <4> QED BY <3>3, <4>1, <4>2 DEF RepFields, Stated
    <3>4. CASE l.k = "record" /\ t # None /\ l.ok
      <4> DEFINE d == r.count + 1
                 u == Resolve(r.anchor, t)
      <4>1. x = [r EXCEPT !.chain = t, !.last = t, !.count = d, !.utc = u]
        BY <3>1, <3>4 DEF ParseRecord
      <4>2. ~BadLine(r, l)
        BY <3>4 DEF BadLine
      <4> HIDE DEF d, u, t
      <4>3. /\ DOMAIN x = RepFields /\ x.chain = t /\ x.last = t /\ x.count = d /\ x.utc = u
            /\ x.bad = r.bad /\ x.anchor = r.anchor /\ x.clock = r.clock /\ x.label = r.label
            /\ x.gap = r.gap /\ x.done = r.done
        BY <4>1 DEF RepFields
      <4> QED BY <3>4, <4>2, <4>3 DEF Stated, d, u
    <3> QED BY <2>2, <3>2, <3>3, <3>4
  <2>3. CASE l.k \notin {"pad", "record", "stub", "other"} /\ ~l.ok
    <3>1. x = [r EXCEPT !.bad = @ + 1]
      BY <2>3
    <3> HIDE DEF x
    <3> QED BY <2>3, <3>1 DEF RepFields, BadLine, Stated
  <2>4. CASE l.k \notin {"pad", "record", "stub"} /\ (l.ok \/ l.k = "other")
    <3>1. x = ParseMeta(r, l)
      BY <2>4
    <3> HIDE DEF x
    <3>2. ~BadLine(r, l)
      BY <2>4 DEF BadLine
    <3> DEFINE p == l.point
               o == Offer(r.clock, p)
               v == l.version # 2
               b == IF r.label = None THEN l.label ELSE r.label
    <3>3. x = IF l.k = "sdlog" THEN [r EXCEPT !.done = v]
              ELSE IF l.k = "src" THEN [r EXCEPT !.label = b]
              ELSE IF l.k = "utc" THEN [r EXCEPT !.anchor = p, !.clock = o]
              ELSE IF l.k = "clock" THEN [r EXCEPT !.clock = o]
              ELSE IF l.k = "gap" THEN [r EXCEPT !.gap = l.gap]
              ELSE IF l.k = "close" THEN [r EXCEPT !.close = "reason"]
              ELSE r
      BY <3>1 DEF ParseMeta
    <3> HIDE DEF p, o, b, v
    <3>4. CASE l.k = "sdlog"
      <4>1. x = [r EXCEPT !.done = v]
        BY <3>3, <3>4
      <4> QED BY <2>4, <3>2, <3>4, <4>1 DEF RepFields, Stated, v
    <3>5. CASE l.k = "src"
      <4>1. x = [r EXCEPT !.label = b]
        BY <3>3, <3>5
      <4> QED BY <2>4, <3>2, <3>5, <4>1 DEF RepFields, Stated, b
    <3>6. CASE l.k = "utc"
      <4>1. x = [r EXCEPT !.anchor = p, !.clock = o]
        BY <3>3, <3>6
      <4> QED BY <2>4, <3>2, <3>6, <4>1 DEF RepFields, Stated, p, o
    <3>7. CASE l.k = "clock"
      <4>1. x = [r EXCEPT !.clock = o]
        BY <3>3, <3>7
      <4> QED BY <2>4, <3>2, <3>7, <4>1 DEF RepFields, Stated, p, o
    <3>8. CASE l.k = "gap"
      <4>1. x = [r EXCEPT !.gap = l.gap]
        BY <3>3, <3>8
      <4> QED BY <2>4, <3>2, <3>8, <4>1 DEF RepFields, Stated
    <3>9. CASE l.k = "close"
      <4>1. x = [r EXCEPT !.close = "reason"]
        BY <3>3, <3>9
      <4> QED BY <2>4, <3>2, <3>9, <4>1 DEF RepFields, Stated
    <3>10. CASE l.k \notin {"sdlog", "src", "utc", "clock", "gap", "close"}
      <4>1. x = r
        BY <3>3, <3>10
      <4> QED BY <2>4, <3>2, <3>10, <4>1 DEF Stated
    <3> QED BY <3>4, <3>5, <3>6, <3>7, <3>8, <3>9, <3>10
  <2> QED BY <2>1, <2>2, <2>3, <2>4
<1> HIDE DEF x
<1>3. /\ DOMAIN y = RepFields /\ y.bad = (IF cut THEN r.bad ELSE x.bad)
      /\ y.count = x.count /\ y.last = x.last /\ y.utc = x.utc /\ y.chain = x.chain
      /\ y.anchor = x.anchor /\ y.clock = x.clock /\ y.label = x.label /\ y.gap = x.gap
      /\ y.done = x.done
  BY <1>2 DEF RepFields
<1> HIDE DEF y, t
<1> QED BY <1>1, <1>2, <1>3 DEF ParseStep, t

(* The stream reader y after line l, from s.                               *)
StreamStep(s, l, cut, y) ==
  LET t == ReadStamp(s.chain, l.stamp)
      going == s.pc = "reading" /\ ~cut
      read == going /\ l.k = "record" /\ t # None
  IN  /\ DOMAIN y = StrFields
      /\ y.pc = IF s.pc # "reading" THEN s.pc
                ELSE IF cut THEN "end"
                ELSE IF \/ l.k = "record" /\ t = None
                        \/ l.k = "sdlog" /\ (~l.ok \/ l.version # 2)
                        \/ l.k \in {"utc", "clock"} /\ ~l.ok
                     THEN "error" ELSE "reading"
      /\ y.chain = IF read THEN t ELSE s.chain
      /\ y.t = IF read THEN t ELSE s.t
      /\ y.count = IF read THEN s.count + 1 ELSE s.count
      /\ y.utc = IF read THEN Resolve(s.anchor, t) ELSE s.utc
      /\ y.best = IF read THEN IF s.clock.current = None THEN None
                               ELSE <<Resolve(s.clock.current, t), s.clock.current.basis>>
                  ELSE s.best
      /\ y.anchor = IF going /\ l.k = "utc" /\ l.ok THEN l.point ELSE s.anchor
      /\ y.clock = IF going /\ Stated(l) THEN Offer(s.clock, l.point) ELSE s.clock
      /\ y.label = IF going /\ l.k = "src" /\ l.ok THEN l.label ELSE s.label

(* StreamReader over one line, field by field.                             *)
LEMMA StreamFacts ==
  ASSUME NEW s, DOMAIN s = StrFields, s.count \in Nat, NEW l, NEW cut, cut \in BOOLEAN, l.ok \in BOOLEAN
  PROVE  StreamStep(s, l, cut, StreamLine(s, l, cut))
<1> DEFINE t == ReadStamp(s.chain, l.stamp)
           y == StreamLine(s, l, cut)
           p == l.point
           o == Offer(s.clock, p)
           best == IF s.clock.current = None THEN None
                   ELSE <<Resolve(s.clock.current, t), s.clock.current.basis>>
           u == Resolve(s.anchor, t)
           foreign == l.k = "sdlog" /\ (~l.ok \/ l.version # 2)
<1> SUFFICES StreamStep(s, l, cut, y)
  OBVIOUS
<1>1. CASE s.pc # "reading"
  <2>1. y = s
    BY <1>1 DEF StreamLine
  <2> HIDE DEF y
  <2> QED BY <1>1, <2>1 DEF StreamStep, Stated
<1>2. CASE s.pc = "reading" /\ cut
  <2>1. y = [s EXCEPT !.pc = "end"]
    BY <1>2 DEF StreamLine
  <2> HIDE DEF y
  <2> QED BY <1>2, <2>1 DEF StrFields, StreamStep, Stated
<1>3. CASE s.pc = "reading" /\ ~cut
  <2>0. y = CASE l.k \in {"record", "stub"}            -> StreamRecord(s, l)
              [] foreign -> [s EXCEPT !.pc = "error"]
              [] l.k \in {"utc", "clock"} /\ ~l.ok     -> [s EXCEPT !.pc = "error"]
              [] l.k = "src" /\ l.ok                   -> [s EXCEPT !.label = l.label]
              [] l.k = "utc" /\ l.ok                   -> [s EXCEPT !.anchor = p, !.clock = o]
              [] l.k = "clock" /\ l.ok                 -> [s EXCEPT !.clock = o]
              [] OTHER                                 -> s
    BY <1>3 DEF StreamLine
  <2> HIDE DEF y
  <2>1. CASE l.k = "stub"
    <3>1. y = s
      BY <2>0, <2>1 DEF StreamRecord
    <3> QED BY <1>3, <2>1, <3>1 DEF StreamStep, Stated
  <2>2. CASE l.k = "record" /\ t = None
    <3>1. y = [s EXCEPT !.pc = "error"]
      BY <2>0, <2>2 DEF StreamRecord
    <3> HIDE DEF t
    <3> QED BY <1>3, <2>2, <3>1 DEF StrFields, t, StreamStep, Stated
  <2>3. CASE l.k = "record" /\ t # None
    <3>1. StreamRecord(s, l) = [s EXCEPT !.chain = t, !.t = t, !.count = @ + 1, !.utc = u, !.best = best]
      BY <2>3 DEF StreamRecord
    <3>2. y = [s EXCEPT !.chain = t, !.t = t, !.count = @ + 1, !.utc = u, !.best = best]
      BY <2>0, <2>3, <3>1
    <3> HIDE DEF t, u, best
    <3>3. /\ DOMAIN y = StrFields /\ y.pc = s.pc /\ y.chain = t /\ y.t = t /\ y.count = s.count + 1
          /\ y.utc = u /\ y.best = best /\ y.anchor = s.anchor /\ y.clock = s.clock /\ y.label = s.label
      BY <3>2 DEF StrFields
    <3> QED BY <1>3, <2>3, <3>3 DEF t, u, best, StreamStep, Stated
  <2>4. CASE l.k = "sdlog"
    <3> HIDE DEF foreign, o, p
    <3>1. foreign => y = [s EXCEPT !.pc = "error"]
      BY <2>0, <2>4
    <3>2. ~foreign => y = s
      BY <2>0, <2>4
    <3> QED BY <1>3, <2>4, <3>1, <3>2 DEF StrFields, foreign, StreamStep, Stated
  <2>5. CASE l.k \in {"utc", "clock"} /\ ~l.ok
    <3>1. y = [s EXCEPT !.pc = "error"]
      BY <2>0, <2>5
    <3> QED BY <1>3, <2>5, <3>1 DEF StrFields, StreamStep, Stated
  <2>6. CASE l.k = "src" /\ l.ok
    <3>1. y = [s EXCEPT !.label = l.label]
      BY <2>0, <2>6
    <3> QED BY <1>3, <2>6, <3>1 DEF StrFields, StreamStep, Stated
  <2>7. CASE l.k = "utc" /\ l.ok
    <3> HIDE DEF o, p
    <3>1. y = [s EXCEPT !.anchor = p, !.clock = o]
      BY <2>0, <2>7
    <3> QED BY <1>3, <2>7, <3>1 DEF StrFields, o, p, StreamStep, Stated
  <2>8. CASE l.k = "clock" /\ l.ok
    <3> HIDE DEF o, p
    <3>1. y = [s EXCEPT !.clock = o]
      BY <2>0, <2>8
    <3> QED BY <1>3, <2>8, <3>1 DEF StrFields, o, p, StreamStep, Stated
  <2>9. CASE l.k \notin {"record", "stub", "sdlog", "src", "utc", "clock"} \/ (l.k = "src" /\ ~l.ok)
    <3>1. y = s
      BY <2>0, <2>9
    <3> QED BY <1>3, <2>9, <3>1 DEF StreamStep, Stated
  <2> QED BY <2>1, <2>2, <2>3, <2>4, <2>5, <2>6, <2>7, <2>8, <2>9
<1> QED BY <1>1, <1>2, <1>3

-----------------------------------------------------------------------------
(* The error of a statement by its basis; the statements a writer makes;   *)
(* the readings of a clock among them.                                     *)
Off(b) == IF b = "utc" THEN 0 ELSE IF b = "drift" THEN 1 ELSE -2
TruePoints == {p \in [t : Nat, utc : Int, basis : {"utc", "drift", "est"}] : p.utc = p.t + U0 + Off(p.basis)}
Readings == {p \in TruePoints : p.basis = "utc"}
Rank(p) == CLOCK_BASES[p.basis]
Corrected(k) == k # None => k.delta = IF k.was = "est" THEN 2 ELSE -1

(* A statement of the clock resolves a stamp to UTC but for its own error. *)
LEMMA PointFacts ==
  ASSUME NEW p \in TruePoints
  PROVE  /\ p # None /\ p.t \in Nat /\ p.utc = p.t + U0 + Off(p.basis) /\ Rank(p) \in Int
         /\ p.basis \in {"utc", "drift", "est"} /\ Off(p.basis) \in -2..1
         /\ \A t \in Nat : Resolve(p, t) = t + U0 + Off(p.basis)
<1>1. p # None
  BY ReaderAssumption DEF TruePoints
<1>2. /\ p.t \in Nat /\ p.utc = p.t + U0 + Off(p.basis) /\ Rank(p) \in Int
      /\ p.basis \in {"utc", "drift", "est"} /\ Off(p.basis) \in -2..1
  BY DEF TruePoints, Off, Rank, CLOCK_BASES
<1>3. ASSUME NEW t \in Nat
      PROVE  Resolve(p, t) = t + U0 + Off(p.basis)
  <2> DEFINE u == p.utc
             a == p.t
             o == Off(p.basis)
  <2>1. u = a + 10 + o /\ a \in Nat /\ o \in -2..1
    BY <1>2 DEF U0
  <2>2. Resolve(p, t) = IF u + (t - a) < 0 THEN 0 ELSE u + (t - a)
    BY <1>1 DEF Resolve
  <2> HIDE DEF u, a, o
  <2>3. Resolve(p, t) = t + 10 + o
    BY <2>1, <2>2
  <2> QED BY <2>3 DEF U0, o
<1> QED BY <1>1, <1>2, <1>3

(* A clock statement is taken unless a better one is known                 *)
(* (ClockState.offer), and a correction tells the error of the basis it    *)
(* replaces.                                                               *)
LEMMA OfferFacts ==
  ASSUME NEW clock, clock.current \in TruePoints \cup {None}, Corrected(clock.correction), NEW p \in TruePoints
  PROVE  /\ Offer(clock, p).current = IF clock.current # None /\ Rank(p) < Rank(clock.current)
                                      THEN clock.current ELSE p
         /\ Corrected(Offer(clock, p).correction)
<1> DEFINE cur == clock.current
           late == cur # None /\ Rank(p) < Rank(cur)
           fix == cur # None /\ p.basis = "utc" /\ cur.basis # "utc"
           k == IF fix THEN [was |-> cur.basis, delta |-> p.utc - Resolve(cur, p.t)] ELSE clock.correction
<1>1. Offer(clock, p) = IF late THEN clock ELSE [current |-> p, correction |-> k]
  BY DEF Offer, Rank
<1>2. Corrected(k)
  <2>1. CASE fix
    <3>1. cur \in TruePoints
      BY <2>1
    <3> HIDE DEF cur
    <3>2. p.utc - Resolve(cur, p.t) = IF cur.basis = "est" THEN 2 ELSE -1
      <4> DEFINE u == p.utc
                 a == p.t
                 o == Off(cur.basis)
                 w == Resolve(cur, p.t)
      <4>1. a \in Nat /\ u = a + 10 + 0
        BY <2>1, PointFacts DEF U0, Off
      <4>2. w = a + 10 + o
        BY <3>1, <4>1, PointFacts DEF U0
      <4>3. o = IF cur.basis = "est" THEN -2 ELSE 1
        BY <2>1, <3>1, PointFacts DEF Off
      <4> HIDE DEF u, a, o, w
      <4>4. u - w = IF cur.basis = "est" THEN 2 ELSE -1
        BY <4>1, <4>2, <4>3
      <4> QED BY <4>4 DEF u, w
    <3> QED BY <2>1, <3>2 DEF Corrected
  <2>2. CASE ~fix
    BY <2>2
  <2> QED BY <2>1, <2>2
<1> HIDE DEF k, late
<1> QED BY <1>1, <1>2 DEF late

(* The latest statement of the best basis, in a sequence of them.          *)
BestOf(s) == {i \in DOMAIN s : \A j \in DOMAIN s : Rank(s[i]) > Rank(s[j]) \/ (Rank(s[i]) = Rank(s[j]) /\ i >= j)}
Latest(s, d) == IF s = <<>> THEN d = None ELSE \E i \in BestOf(s) : d = s[i]

(* One more statement: the latest of the best basis stays the one in use.  *)
LEMMA LatestAppend ==
  ASSUME NEW s \in Seq(TruePoints), NEW d, Latest(s, d), NEW p \in TruePoints
  PROVE  Latest(Append(s, p), IF d # None /\ Rank(p) < Rank(d) THEN d ELSE p)
<1> DEFINE a == Append(s, p)
<1>1. /\ a # <<>> /\ DOMAIN a = 1..(Len(s) + 1) /\ DOMAIN s = 1..Len(s) /\ Len(s) \in Nat
      /\ a[Len(s) + 1] = p /\ \A i \in 1..Len(s) : a[i] = s[i]
  OBVIOUS
<1>2. \A i \in 1..Len(s) : s[i] \in TruePoints /\ Rank(s[i]) \in Int /\ s[i] # None
  BY PointFacts
<1>3. Rank(p) \in Int
  BY PointFacts
<1> HIDE DEF a
<1>4. CASE d # None /\ Rank(p) < Rank(d)
  <2>1. PICK i \in BestOf(s) : d = s[i]
    BY <1>4 DEF Latest
  <2>2. i \in 1..Len(s) /\ \A j \in 1..Len(s) : Rank(s[i]) > Rank(s[j]) \/ (Rank(s[i]) = Rank(s[j]) /\ i >= j)
    BY <1>1 DEF BestOf
  <2>3. ASSUME NEW j \in DOMAIN a
        PROVE  Rank(a[i]) > Rank(a[j]) \/ (Rank(a[i]) = Rank(a[j]) /\ i >= j)
    <3>1. CASE j \in 1..Len(s)
      BY <1>1, <2>2, <3>1
    <3>2. CASE j = Len(s) + 1
      BY <1>1, <1>4, <2>1, <2>2, <3>2
    <3> QED BY <1>1, <3>1, <3>2
  <2>4. i \in BestOf(a) /\ d = a[i]
    BY <1>1, <2>1, <2>2, <2>3 DEF BestOf
  <2> QED BY <1>1, <1>4, <2>4 DEF Latest, a
<1>5. CASE ~(d # None /\ Rank(p) < Rank(d))
  <2> DEFINE m == Len(s) + 1
  <2>3. ASSUME NEW j \in DOMAIN a
        PROVE  Rank(a[m]) > Rank(a[j]) \/ (Rank(a[m]) = Rank(a[j]) /\ m >= j)
    <3>1. CASE j \in 1..Len(s)
      <4>1. s # <<>>
        BY <3>1
      <4>2. PICK i \in BestOf(s) : d = s[i]
        BY <4>1 DEF Latest
      <4>3. i \in 1..Len(s) /\ Rank(s[i]) >= Rank(s[j])
        BY <1>1, <1>2, <3>1, <4>2 DEF BestOf
      <4>4. Rank(p) >= Rank(s[i])
        BY <1>2, <1>3, <1>5, <4>2, <4>3
      <4>5. Rank(p) >= Rank(s[j])
        BY <1>2, <1>3, <3>1, <4>3, <4>4
      <4> QED BY <1>1, <1>2, <1>3, <3>1, <4>5
    <3>2. CASE j = Len(s) + 1
      BY <1>1, <3>2
    <3> QED BY <1>1, <3>1, <3>2
  <2>4. m \in BestOf(a) /\ p = a[m]
    BY <1>1, <2>3 DEF BestOf
  <2> QED BY <1>1, <1>5, <2>4 DEF Latest, a
<1> QED BY <1>4, <1>5

(* There is one latest statement of the best basis.                        *)
LEMMA LatestIsBest ==
  ASSUME NEW s \in Seq(TruePoints), NEW d, Latest(s, d)
  PROVE  d = IF s = <<>> THEN None ELSE s[CHOOSE i \in BestOf(s) : TRUE]
<1>1. CASE s = <<>>
  BY <1>1 DEF Latest
<1>2. CASE s # <<>>
  <2> DEFINE w == CHOOSE i \in BestOf(s) : TRUE
  <2>1. PICK i \in BestOf(s) : d = s[i]
    BY <1>2 DEF Latest
  <2>2. w \in BestOf(s)
    BY <2>1
  <2> HIDE DEF w
  <2>3. DOMAIN s = 1..Len(s) /\ Len(s) \in Nat /\ i \in DOMAIN s /\ w \in DOMAIN s
    BY <2>2 DEF BestOf
  <2>4. Rank(s[i]) \in Int /\ Rank(s[w]) \in Int
    BY <2>3, PointFacts
  <2>5. /\ Rank(s[i]) > Rank(s[w]) \/ (Rank(s[i]) = Rank(s[w]) /\ i >= w)
        /\ Rank(s[w]) > Rank(s[i]) \/ (Rank(s[w]) = Rank(s[i]) /\ w >= i)
    BY <2>2, <2>3 DEF BestOf
  <2>6. i = w
    BY <2>3, <2>4, <2>5
  <2> QED BY <1>2, <2>1, <2>6 DEF w
<1> QED BY <1>1, <1>2

-----------------------------------------------------------------------------
(* The span of a window of seqs is its width, also across the wrap         *)
(* (Gap.span).                                                             *)
LEMMA SpanIsWidth ==
  ASSUME NEW first \in 0..(Modulus - 1), NEW width \in 1..(Modulus - 1), NEW chunks
  PROVE  Span([first |-> first, last |-> (first + width - 1) % Modulus, chunks |-> chunks]) = width
<1>1. Modulus \in Nat \ {0}
  BY ReaderAssumption
<1> DEFINE e == first + width - 1
           last == e % Modulus
<1>2. CASE e < Modulus
  <2>1. last = e
    BY <1>1, <1>2
  <2> QED BY <1>1, <1>2, <2>1 DEF Span
<1>3. CASE e >= Modulus
  <2>0. e = Modulus * 1 + (e - Modulus) /\ e - Modulus \in 0..(Modulus - 1)
    BY <1>1, <1>3
  <2>1. last = e - Modulus
    BY <1>1, <2>0
  <2> HIDE DEF last
  <2>2. ~(last >= first) /\ Modulus - first + last + 1 = width
    BY <1>1, <1>3, <2>1
  <2>3. Span([first |-> first, last |-> last, chunks |-> chunks]) = Modulus - first + last + 1
    BY <2>2 DEF Span
  <2> QED BY <2>2, <2>3 DEF last
<1> QED BY <1>1, <1>2, <1>3

-----------------------------------------------------------------------------
(* A line x as it is read, of one written at w after p, with pn the        *)
(* writer's new last stamp and g the last gap: it tells the truth or shows *)
(* itself bad.                                                             *)
SoundLine(x, w, p, pn, g) ==
  /\ x.ok \in BOOLEAN
  /\ x.k = "record" => /\ pn = w /\ x.stamp.v \in Nat /\ x.stamp.mark \in {"@", "+", "?"}
                       /\ x.stamp.mark = "@" => x.stamp.v = w
                       /\ x.stamp.mark = "+" => p \in Nat /\ x.stamp.v = w - p
  /\ x.k # "record" => pn = p \/ x.k = "stub" \/ (x.k = "junk" /\ ~x.ok)
  /\ Stated(x) => x.point \in TruePoints /\ (x.k = "utc" => x.point \in Readings)
  /\ x.k = "src" /\ x.ok => x.label = "name"
  /\ x.k = "gap" /\ x.ok => g # None /\ Punctured(x.gap) = (g.lost # g.width)

(* A stamp read after the same line as it was written after is the time it *)
(* was written at, or none (Chain.read).                                   *)
LEMMA StampFacts ==
  ASSUME NEW x, NEW w \in Nat, NEW p \in Nat \cup {None}, NEW pn, NEW g, SoundLine(x, w, p, pn, g),
         x.k = "record", NEW ch \in Nat \cup {None}
  PROVE  LET t == ReadStamp(ch, x.stamp)
         IN  t \in Nat \cup {None} /\ (ch = p /\ t # None => t = w)
<1> DEFINE m == x.stamp.mark
           v == x.stamp.v
           t == ReadStamp(ch, x.stamp)
<1>1. v \in Nat /\ m \in {"@", "+", "?"} /\ (m = "@" => v = w) /\ (m = "+" => p \in Nat /\ v = w - p)
  BY DEF SoundLine
<1>2. t = IF m = "@" THEN v ELSE IF m = "+" /\ ch # None THEN ch + v ELSE None
  BY <1>1 DEF ReadStamp
<1> HIDE DEF m, v, t
<1>3. None \notin Nat
  BY ReaderAssumption
<1>4. t \in Nat \cup {None} /\ (ch = p /\ t # None => t = w)
  BY <1>1, <1>2, <1>3
<1> QED BY <1>4 DEF t

(* A line as the card garbles it is still sound, or one both readers turn  *)
(* down.                                                                   *)
LEMMA GarbledIsSound ==
  ASSUME NEW l, NEW w, NEW p, NEW pn, NEW g, SoundLine(l, w, p, pn, g), {"k", "ok"} \subseteq DOMAIN l,
         l.k = "record" => "stamp" \in DOMAIN l /\ {"mark", "v"} \subseteq DOMAIN l.stamp,
         NEW x \in {l} \cup Garbled(l)
  PROVE  SoundLine(x, w, p, pn, g)
<1>1. CASE x = l
  BY <1>1
<1>2. CASE x = [l EXCEPT !.ok = FALSE]
  <2>1. x.k = l.k /\ x.ok = FALSE /\ (l.k = "record" => x.stamp = l.stamp)
    BY <1>2
  <2> HIDE <1>2
  <2> QED BY <2>1 DEF SoundLine, Stated
<1>3. CASE x = [k |-> "junk", ok |-> FALSE]
  BY <1>3 DEF SoundLine, Stated
<1>4. CASE l.k = "record" /\ x = [l EXCEPT !.stamp.mark = "?"]
  <2>1. x.k = "record" /\ x.ok = l.ok /\ x.stamp.mark = "?" /\ x.stamp.v = l.stamp.v
    BY <1>4
  <2> HIDE <1>4
  <2>2. l.k = "record"
    BY <1>4
  <2> QED BY <2>1, <2>2 DEF SoundLine, Stated
<1>5. CASE l.k = "record" /\ x = [l EXCEPT !.k = "stub"]
  <2>1. x.k = "stub" /\ x.ok = l.ok
    BY <1>5
  <2> HIDE <1>5
  <2> QED BY <2>1 DEF SoundLine, Stated
<1> QED BY <1>1, <1>2, <1>3, <1>4, <1>5 DEF Garbled

-----------------------------------------------------------------------------
(* The types; what parse_file reports; what StreamReader gave; and how the *)
(* two stand to each other and to the writer while nothing was found       *)
(* wrong.                                                                  *)
ReaderTyped ==
  /\ written \in Nat /\ ended \in BOOLEAN /\ offers \in Seq(TruePoints)
  /\ prev \in Nat \cup {None} /\ (prev # None => prev <= written)
  /\ DOMAIN rep = RepFields /\ rep.bad \in Nat /\ rep.count \in Nat
  /\ DOMAIN str = StrFields /\ str.count \in Nat

RepTrue ==
  /\ rep.chain \in Nat \cup {None} /\ rep.anchor \in Readings \cup {None}
  /\ rep.clock.current \in TruePoints \cup {None} /\ Corrected(rep.clock.correction)
  /\ rep.label \in {None, "name"}
  /\ rep.utc # None => rep.utc = rep.last + U0
  /\ rep.gap # None => gap # None /\ Punctured(rep.gap) = (gap.lost # gap.width)
  /\ rep.done \/ Latest(offers, rep.clock.current)

StrTrue ==
  /\ str.chain \in Nat \cup {None} /\ str.anchor \in Readings \cup {None}
  /\ str.clock.current \in TruePoints \cup {None} /\ Corrected(str.clock.correction)
  /\ str.label \in {None, "name"}
  /\ str.utc # None => str.utc = str.t + U0
  /\ str.best # None /\ str.best[2] = "est" => str.best[1] < str.t + U0
  /\ ended => str.pc # "reading"

InStep ==
  rep.bad = 0 /\ ~rep.done /\ ~ended =>
    /\ str.pc = "reading" /\ rep.chain = prev /\ str.chain = prev
    /\ str.count = rep.count /\ str.label = rep.label /\ str.anchor = rep.anchor /\ str.clock = rep.clock
    /\ rep.count > 0 => rep.last = truth /\ str.t = truth

ReaderInv == ReaderTyped /\ RepTrue /\ StrTrue /\ InStep

(* One line read by both, as x: cut or not, garbled or not.                *)
LineTaken(x, cut) ==
  /\ ~ended /\ ended' = cut /\ cut \in BOOLEAN
  /\ rep' = ParseLine(rep, x, cut) /\ str' = StreamLine(str, x, cut)
  /\ truth' = (IF str'.count # str.count THEN written' ELSE truth)
  /\ offers' = (IF x.ok /\ x.k \in {"utc", "clock"} THEN Append(offers, x.point) ELSE offers)
  /\ SoundLine(x, written', prev, prev', gap')
  /\ written' \in Nat /\ prev' \in Nat \cup {None} /\ (prev' # None => prev' <= written')
  /\ gap = None \/ gap' = gap

(* A line keeps the types of both readers.                                 *)
LEMMA LineKeepsTyped ==
  ASSUME ReaderInv, NEW x, NEW cut, LineTaken(x, cut)
  PROVE  ReaderTyped'
<1>1. offers' \in Seq(TruePoints)
  BY DEF ReaderInv, ReaderTyped, LineTaken, SoundLine, Stated
<1>2. StreamStep(str, x, cut, str')
  BY StreamFacts DEF ReaderInv, ReaderTyped, LineTaken, SoundLine
<1>3. DOMAIN str' = StrFields /\ str'.count \in Nat
  BY <1>2 DEF StreamStep, ReaderInv, ReaderTyped
<1>4. DOMAIN rep' = RepFields /\ rep'.bad \in Nat /\ rep'.count \in Nat
  <2>1. CASE rep.done
    BY <2>1 DEF ParseLine, LineTaken, ReaderInv, ReaderTyped
  <2>2. CASE ~rep.done
    <3>1. ParseStep(rep, x, cut, rep')
      BY <2>2, ParseFacts DEF ReaderInv, ReaderTyped, LineTaken
    <3> QED BY <3>1 DEF ParseStep, ReaderInv, ReaderTyped
  <2> QED BY <2>1, <2>2
<1> QED BY <1>1, <1>3, <1>4 DEF ReaderTyped, LineTaken

(* What parse_file reports is true of the file, whatever the line.         *)
LEMMA LineKeepsRep ==
  ASSUME ReaderInv, NEW x, NEW cut, LineTaken(x, cut)
  PROVE  RepTrue'
<1>0. rep.gap # None => gap' # None /\ Punctured(rep.gap) = (gap'.lost # gap'.width)
  BY DEF ReaderInv, RepTrue, LineTaken
<1>1. CASE rep.done
  <2>1. rep' = rep
    BY <1>1 DEF ParseLine, LineTaken
  <2> QED BY <1>0, <1>1, <2>1 DEF ReaderInv, RepTrue
<1>2. CASE ~rep.done
  <2>1. ParseStep(rep, x, cut, rep')
    BY <1>2, ParseFacts DEF ReaderInv, ReaderTyped, LineTaken
  <2> DEFINE t == ReadStamp(rep.chain, x.stamp)
             stated == Stated(x)
  <2>2. x.k = "record" => t \in Nat \cup {None}
    BY StampFacts DEF ReaderInv, ReaderTyped, RepTrue, LineTaken
  <2>3. rep'.chain \in Nat \cup {None}
    BY <2>1, <2>2 DEF ParseStep, ReaderInv, RepTrue
  <2>4. rep'.anchor \in Readings \cup {None} /\ rep'.label \in {None, "name"}
    BY <2>1 DEF ParseStep, ReaderInv, RepTrue, LineTaken, SoundLine, Stated
  <2>5. /\ rep'.clock.current \in TruePoints \cup {None} /\ Corrected(rep'.clock.correction)
        /\ Latest(offers', rep'.clock.current)
    <3>1. CASE ~stated
      <4>1. rep'.clock = rep.clock /\ offers' = offers
        BY <2>1, <3>1 DEF ParseStep, LineTaken, Stated
      <4> QED BY <1>2, <4>1 DEF ReaderInv, RepTrue
    <3>2. CASE stated
      <4>1. /\ x.point \in TruePoints /\ offers' = Append(offers, x.point)
            /\ rep'.clock = Offer(rep.clock, x.point)
        BY <2>1, <3>2 DEF ParseStep, LineTaken, Stated, SoundLine
      <4>2. /\ rep.clock.current \in TruePoints \cup {None} /\ Corrected(rep.clock.correction)
            /\ Latest(offers, rep.clock.current) /\ offers \in Seq(TruePoints)
        BY <1>2 DEF ReaderInv, RepTrue, ReaderTyped
      <4>3. /\ rep'.clock.current = IF rep.clock.current # None /\ Rank(x.point) < Rank(rep.clock.current)
                                    THEN rep.clock.current ELSE x.point
            /\ Corrected(rep'.clock.correction)
        BY <4>1, <4>2, OfferFacts
      <4>4. Latest(offers', rep'.clock.current)
        BY <4>1, <4>2, <4>3, LatestAppend
      <4> QED BY <4>1, <4>2, <4>3, <4>4
    <3> QED BY <3>1, <3>2
  <2>6. rep'.utc # None => rep'.utc = rep'.last + U0
    <3>1. CASE x.k = "record" /\ t # None /\ x.ok
      <4>1. rep'.utc = Resolve(rep.anchor, t) /\ rep'.last = t /\ t \in Nat
        BY <2>1, <2>2, <3>1 DEF ParseStep
      <4>2. rep.anchor = None => rep'.utc = None
        BY <4>1 DEF Resolve
      <4>3. rep.anchor \in Readings => rep'.utc = t + U0
        BY <4>1, PointFacts DEF Readings, Off, U0
      <4> QED BY <4>1, <4>2, <4>3 DEF ReaderInv, RepTrue
    <3>2. CASE ~(x.k = "record" /\ t # None /\ x.ok)
      BY <2>1, <3>2 DEF ParseStep, ReaderInv, RepTrue
    <3> QED BY <3>1, <3>2
  <2>7. rep'.gap # None => gap' # None /\ Punctured(rep'.gap) = (gap'.lost # gap'.width)
    BY <1>0, <2>1 DEF ParseStep, LineTaken, SoundLine
  <2> QED BY <2>3, <2>4, <2>5, <2>6, <2>7 DEF RepTrue
<1> QED BY <1>1, <1>2

(* The times StreamReader gives are true to the stamps it read, whatever   *)
(* the line.                                                               *)
LEMMA LineKeepsStr ==
  ASSUME ReaderInv, NEW x, NEW cut, LineTaken(x, cut)
  PROVE  StrTrue'
<1>1. StreamStep(str, x, cut, str')
  BY StreamFacts DEF ReaderInv, ReaderTyped, LineTaken, SoundLine
<1> DEFINE t == ReadStamp(str.chain, x.stamp)
           going == str.pc = "reading" /\ ~cut
           read == going /\ x.k = "record" /\ t # None
           cur == str.clock.current
<1>2. x.k = "record" => t \in Nat \cup {None}
  BY StampFacts DEF ReaderInv, ReaderTyped, StrTrue, LineTaken
<1>3. str'.chain \in Nat \cup {None}
  BY <1>1, <1>2 DEF StreamStep, ReaderInv, StrTrue
<1>4. str'.anchor \in Readings \cup {None} /\ str'.label \in {None, "name"}
  BY <1>1 DEF StreamStep, ReaderInv, StrTrue, LineTaken, SoundLine, Stated
<1>5. str'.clock.current \in TruePoints \cup {None} /\ Corrected(str'.clock.correction)
  <2>1. CASE ~(going /\ Stated(x))
    <3>1. str'.clock = str.clock
      BY <1>1, <2>1 DEF StreamStep
    <3> QED BY <3>1 DEF ReaderInv, StrTrue
  <2>2. CASE going /\ Stated(x)
    <3>1. x.point \in TruePoints /\ str'.clock = Offer(str.clock, x.point)
      BY <1>1, <2>2 DEF StreamStep, LineTaken, SoundLine
    <3>2. str.clock.current \in TruePoints \cup {None} /\ Corrected(str.clock.correction)
      BY DEF ReaderInv, StrTrue
    <3> QED BY <3>1, <3>2, OfferFacts
  <2> QED BY <2>1, <2>2
<1>6. /\ str'.utc # None => str'.utc = str'.t + U0
      /\ str'.best # None /\ str'.best[2] = "est" => str'.best[1] < str'.t + U0
  <2>1. CASE read
    <3>1. /\ str'.utc = Resolve(str.anchor, t) /\ str'.t = t /\ t \in Nat
          /\ str'.best = IF cur = None THEN None ELSE <<Resolve(cur, t), cur.basis>>
      BY <1>1, <1>2, <2>1 DEF StreamStep
    <3>2. str.anchor = None => str'.utc = None
      BY <3>1 DEF Resolve
    <3>3. str.anchor \in Readings => str'.utc = t + U0
      BY <3>1, PointFacts DEF Readings, Off, U0
    <3>4. cur \in TruePoints /\ cur.basis = "est" => Resolve(cur, t) < t + U0
      BY <3>1, PointFacts DEF Off, U0
    <3> QED BY <3>1, <3>2, <3>3, <3>4 DEF ReaderInv, StrTrue
  <2>2. CASE ~read
    <3>1. str'.utc = str.utc /\ str'.t = str.t /\ str'.best = str.best
      BY <1>1, <2>2 DEF StreamStep
    <3> QED BY <3>1 DEF ReaderInv, StrTrue
  <2> QED BY <2>1, <2>2
<1>7. ended' => str'.pc # "reading"
  BY <1>1 DEF StreamStep, LineTaken
<1> QED BY <1>3, <1>4, <1>5, <1>6, <1>7 DEF StrTrue

(* A line that parse_file finds nothing wrong with leaves both readers in  *)
(* step.                                                                   *)
LEMMA LineKeepsInStep ==
  ASSUME ReaderInv, NEW x, NEW cut, LineTaken(x, cut)
  PROVE  InStep'
<1> SUFFICES ASSUME rep'.bad = 0, ~rep'.done, ~cut
             PROVE  /\ str'.pc = "reading" /\ rep'.chain = prev' /\ str'.chain = prev'
                    /\ str'.count = rep'.count /\ str'.label = rep'.label
                    /\ str'.anchor = rep'.anchor /\ str'.clock = rep'.clock
                    /\ rep'.count > 0 => rep'.last = truth' /\ str'.t = truth'
  BY DEF InStep, LineTaken
<1>1. ~rep.done
  BY DEF ParseLine, LineTaken
<1>2. ParseStep(rep, x, cut, rep')
  BY <1>1, ParseFacts DEF ReaderInv, ReaderTyped, LineTaken
<1>3. StreamStep(str, x, cut, str')
  BY StreamFacts DEF ReaderInv, ReaderTyped, LineTaken, SoundLine
<1>4. ~BadLine(rep, x) /\ rep.bad = 0
  BY <1>2 DEF ParseStep, ReaderInv, ReaderTyped
<1>5. /\ str.pc = "reading" /\ rep.chain = prev /\ str.chain = prev
      /\ str.count = rep.count /\ str.label = rep.label /\ str.anchor = rep.anchor /\ str.clock = rep.clock
      /\ rep.count > 0 => rep.last = truth /\ str.t = truth
  BY <1>1, <1>4 DEF ReaderInv, InStep, LineTaken
<1>6. rep.count \in Nat /\ rep.label \in {None, "name"} /\ SoundLine(x, written', prev, prev', gap')
  BY DEF ReaderInv, ReaderTyped, RepTrue, LineTaken
<1> DEFINE t == ReadStamp(prev, x.stamp)
<1>7. CASE x.k = "record"
  <2>1. t # None /\ x.ok
    BY <1>4, <1>5, <1>7 DEF BadLine
  <2>2. t = written' /\ prev' = written'
    <3>1. written' \in Nat /\ prev \in Nat \cup {None}
      BY DEF ReaderInv, ReaderTyped, LineTaken
    <3>2. t = written'
      BY <1>6, <1>7, <2>1, <3>1, StampFacts
    <3> QED BY <1>6, <1>7, <3>2 DEF SoundLine
  <2>3. /\ str'.pc = "reading" /\ str'.chain = t /\ str'.t = t /\ str'.count = str.count + 1
        /\ str'.anchor = str.anchor /\ str'.clock = str.clock /\ str'.label = str.label
    BY <1>3, <1>5, <1>7, <2>1 DEF StreamStep, Stated
  <2>4. /\ rep'.chain = t /\ rep'.last = t /\ rep'.count = rep.count + 1
        /\ rep'.anchor = rep.anchor /\ rep'.clock = rep.clock /\ rep'.label = rep.label
    BY <1>2, <1>5, <1>7, <2>1 DEF ParseStep, Stated
  <2>5. truth' = written'
    <3>1. str'.count # str.count
      BY <1>5, <1>6, <2>3
    <3> QED BY <3>1 DEF LineTaken
  <2> QED BY <1>5, <2>2, <2>3, <2>4, <2>5
<1>8. CASE x.k # "record"
  <2>1. prev' = prev
    BY <1>4, <1>6, <1>8 DEF SoundLine, BadLine
  <2>2. x.k = "sdlog" => x.ok /\ x.version = 2
    BY <1>2, <1>4 DEF ParseStep, BadLine
  <2>3. x.k \in {"utc", "clock", "src"} => x.ok
    BY <1>4 DEF BadLine
  <2>4. /\ str'.pc = "reading" /\ str'.chain = str.chain /\ str'.t = str.t /\ str'.count = str.count
        /\ rep'.chain = rep.chain /\ rep'.last = rep.last /\ rep'.count = rep.count
    BY <1>2, <1>3, <1>5, <1>8, <2>2, <2>3 DEF StreamStep, ParseStep
  <2>5. str'.anchor = rep'.anchor /\ str'.clock = rep'.clock
    BY <1>2, <1>3, <1>5, <1>8, <2>3 DEF StreamStep, ParseStep
  <2>6. str'.label = rep'.label
    BY <1>2, <1>3, <1>5, <1>6, <1>8, <2>3 DEF StreamStep, ParseStep, SoundLine
  <2>7. truth' = truth
    BY <2>4 DEF LineTaken
  <2> QED BY <1>5, <2>1, <2>4, <2>5, <2>6, <2>7
<1> QED BY <1>7, <1>8

(* The invariant over one line.                                            *)
LEMMA LineKeepsInv ==
  ASSUME ReaderInv, NEW x, NEW cut, LineTaken(x, cut)
  PROVE  ReaderInv'
BY LineKeepsTyped, LineKeepsRep, LineKeepsStr, LineKeepsInStep DEF ReaderInv

(* The invariant over one line, garbled or cut or as it was written        *)
(* (Take).                                                                 *)
LEMMA TakeKeeps ==
  ASSUME ReaderInv, NEW l, Take(l), SoundLine(l, written', prev, prev', gap'), {"k", "ok"} \subseteq DOMAIN l,
         l.k = "record" => "stamp" \in DOMAIN l /\ {"mark", "v"} \subseteq DOMAIN l.stamp,
         written' \in Nat, prev' \in Nat \cup {None}, prev' # None => prev' <= written',
         gap = None \/ gap' = gap
  PROVE  ReaderInv'
<1>1. PICK cut \in BOOLEAN, x \in {l} \cup Garbled(l) :
        /\ ended' = cut
        /\ rep' = ParseLine(rep, x, cut)
        /\ str' = StreamLine(str, x, cut)
        /\ truth' = (IF str'.count # str.count THEN written' ELSE truth)
        /\ offers' = (IF x.ok /\ x.k \in {"utc", "clock"} THEN Append(offers, x.point) ELSE offers)
  BY DEF Take
<1>2. SoundLine(x, written', prev, prev', gap')
  BY GarbledIsSound
<1>3. ~ended
  BY DEF Take
<1>4. LineTaken(x, cut)
  BY <1>1, <1>2, <1>3 DEF LineTaken
<1> QED BY <1>4, LineKeepsInv

(* The clock of the writer does not go back.                               *)
LEMMA LaterFacts ==
  ASSUME ReaderInv, Later
  PROVE  written' \in Nat /\ written <= written' /\ written \in Nat
BY DEF Later, ReaderInv, ReaderTyped

(* WriteRecord keeps the invariant.                                        *)
LEMMA WriteRecordKeeps ==
  ASSUME ReaderInv, WriteRecord
  PROVE  ReaderInv'
<1>1. PICK anchored \in BOOLEAN :
        /\ prev = None => anchored
        /\ Take([k |-> "record", ok |-> TRUE,
                 stamp |-> IF anchored THEN [mark |-> "@", v |-> written'] ELSE [mark |-> "+", v |-> written' - prev]])
  BY DEF WriteRecord
<1> DEFINE s == IF anchored THEN [mark |-> "@", v |-> written'] ELSE [mark |-> "+", v |-> written' - prev]
           l == [k |-> "record", ok |-> TRUE, stamp |-> s]
<1>2. written' \in Nat /\ written <= written' /\ written \in Nat /\ prev' = written' /\ gap' = gap
  BY LaterFacts DEF WriteRecord
<1>3. prev \in Nat \cup {None} /\ (prev # None => prev <= written)
  BY DEF ReaderInv, ReaderTyped
<1>4. ~anchored => prev \in Nat /\ written' - prev \in Nat
  <2>1. prev # None => prev \in Nat /\ written' - prev \in Nat
    <3>1. \A a, b, d \in Nat : a <= b /\ b <= d => d - a \in Nat
      OBVIOUS
    <3> QED BY <1>2, <1>3, <3>1
  <2> QED BY <1>1, <2>1
<1>5. /\ DOMAIN s = {"mark", "v"} /\ s.v \in Nat /\ s.mark \in {"@", "+", "?"}
      /\ s.mark = "@" => s.v = written'
      /\ s.mark = "+" => prev \in Nat /\ s.v = written' - prev
  BY <1>2, <1>4
<1> HIDE DEF s
<1>6. l.k = "record" /\ l.ok = TRUE /\ l.stamp = s /\ {"k", "ok", "stamp"} \subseteq DOMAIN l
  OBVIOUS
<1>7. Take(l)
  BY <1>1 DEF s
<1> HIDE DEF l
<1>8. SoundLine(l, written', prev, prev', gap')
  BY <1>2, <1>5, <1>6 DEF SoundLine, Stated
<1> QED BY <1>2, <1>5, <1>6, <1>7, <1>8, TakeKeeps

(* WriteClock keeps the invariant.                                         *)
LEMMA WriteClockKeeps ==
  ASSUME ReaderInv, WriteClock
  PROVE  ReaderInv'
<1>1. written' \in Nat /\ written <= written' /\ written \in Nat /\ prev' = prev /\ gap' = gap
  BY LaterFacts DEF WriteClock
<1>2. prev' \in Nat \cup {None} /\ (prev' # None => prev' <= written')
  BY <1>1 DEF ReaderInv, ReaderTyped
<1>3. Point("utc", 0) \in Readings /\ Point("drift", 1) \in TruePoints /\ Point("est", -2) \in TruePoints
  BY <1>1 DEF Point, TruePoints, Readings, Off, U0
<1>4. ASSUME NEW b \in {"utc", "clock"}, NEW p \in TruePoints, b = "utc" => p \in Readings,
             Take([k |-> b, ok |-> TRUE, point |-> p])
      PROVE  ReaderInv'
  <2> DEFINE l == [k |-> b, ok |-> TRUE, point |-> p]
  <2>1. l.k = b /\ l.ok = TRUE /\ l.point = p /\ {"k", "ok"} \subseteq DOMAIN l
    OBVIOUS
  <2>2. Take(l)
    BY <1>4
  <2> HIDE DEF l
  <2>3. SoundLine(l, written', prev, prev', gap')
    BY <1>1, <1>4, <2>1 DEF SoundLine, Stated
  <2> QED BY <1>1, <1>2, <2>1, <2>2, <2>3, TakeKeeps
<1>5. CASE Take([k |-> "utc", ok |-> TRUE, point |-> Point("utc", 0)])
  <2> DEFINE q == Point("utc", 0)
  <2>1. q \in TruePoints /\ q \in Readings
    BY <1>3 DEF Readings
  <2>2. Take([k |-> "utc", ok |-> TRUE, point |-> q])
    BY <1>5
  <2> HIDE DEF q
  <2> QED BY <2>1, <2>2, <1>4
<1>6. CASE \E p \in {Point("utc", 0), Point("drift", 1), Point("est", -2)} :
             Take([k |-> "clock", ok |-> TRUE, point |-> p])
  <2>1. PICK p \in {Point("utc", 0), Point("drift", 1), Point("est", -2)} :
             Take([k |-> "clock", ok |-> TRUE, point |-> p])
    BY <1>6
  <2>2. p \in TruePoints
    BY <1>3 DEF Readings
  <2> QED BY <2>1, <2>2, <1>4
<1> QED BY <1>5, <1>6 DEF WriteClock

(* WriteGap keeps the invariant.                                           *)
LEMMA WriteGapKeeps ==
  ASSUME ReaderInv, WriteGap
  PROVE  ReaderInv'
<1>1. PICK first \in 0..(Modulus - 1), width \in 1..(Modulus - 1), holes \in SUBSET (1..(Modulus - 3)) :
        LET inside == {i \in holes : i < width - 1} IN
        /\ gap' = [width |-> width, lost |-> width - Cardinality(inside)]
        /\ Take([k |-> "gap", ok |-> TRUE,
                 gap |-> [first |-> first, last |-> (first + width - 1) % Modulus, chunks |-> width - Cardinality(inside)]])
  BY DEF WriteGap
<1> DEFINE inside == {i \in holes : i < width - 1}
           lost == width - Cardinality(inside)
           g == [first |-> first, last |-> (first + width - 1) % Modulus, chunks |-> lost]
           l == [k |-> "gap", ok |-> TRUE, gap |-> g]
<1>2. lost \in Int
  <2>1. Modulus \in Nat
    BY ReaderAssumption
  <2>2. IsFiniteSet(inside)
    <3>1. IsFiniteSet(1..(Modulus - 3))
      BY <2>1, FS_Interval
    <3>2. inside \subseteq 1..(Modulus - 3)
      OBVIOUS
    <3> QED BY <3>1, <3>2, FS_Subset
  <2>3. Cardinality(inside) \in Nat
    BY <2>2, FS_CardinalityType
  <2>4. width \in Int
    BY <2>1
  <2> HIDE DEF inside
  <2> QED BY <2>3, <2>4
<1>3. gap' = [width |-> width, lost |-> lost] /\ Take(l)
  BY <1>1
<1>4. Span(g) = width
  BY SpanIsWidth
<1> HIDE DEF lost
<1>5. gap' # None
  <2>1. gap' \in [width : Nat, lost : Int]
    BY <1>2, <1>3, ReaderAssumption
  <2> QED BY <2>1, ReaderAssumption
<1>6. g.chunks = lost /\ gap'.lost = lost /\ gap'.width = width
  BY <1>3
<1>7. Punctured(g) = (gap'.lost # gap'.width)
  BY <1>4, <1>6 DEF Punctured
<1> HIDE DEF g
<1>8. l.k = "gap" /\ l.ok = TRUE /\ l.gap = g /\ {"k", "ok"} \subseteq DOMAIN l
  OBVIOUS
<1> HIDE DEF l
<1>9. prev' = prev /\ written' = written /\ gap = None
  BY DEF WriteGap
<1>10. SoundLine(l, written', prev, prev', gap')
  BY <1>5, <1>7, <1>8, <1>9 DEF SoundLine, Stated
<1>11. written' \in Nat /\ prev' \in Nat \cup {None} /\ (prev' # None => prev' <= written')
  BY <1>9 DEF ReaderInv, ReaderTyped
<1> QED BY <1>3, <1>8, <1>9, <1>10, <1>11, TakeKeeps

(* WriteMeta and ForeignFile keep the invariant.                           *)
LEMMA WriteMetaKeeps ==
  ASSUME ReaderInv, WriteMeta \/ ForeignFile
  PROVE  ReaderInv'
<1>1. /\ prev' = prev /\ written' = written /\ gap' = gap
      /\ written' \in Nat /\ prev' \in Nat \cup {None} /\ (prev' # None => prev' <= written')
  BY DEF ReaderInv, ReaderTyped, WriteMeta, ForeignFile
<1>2. PICK l : Take(l) /\ l \in {[k |-> "sdlog", ok |-> TRUE, version |-> 2], [k |-> "src", ok |-> TRUE, label |-> "name"],
                 [k |-> "close", ok |-> TRUE], [k |-> "pad", ok |-> TRUE], [k |-> "other", ok |-> TRUE],
                 [k |-> "sdlog", ok |-> TRUE, version |-> 1], [k |-> "sdlog", ok |-> TRUE, version |-> 3]}
  BY DEF WriteMeta, ForeignFile
<1>3. /\ l.k \in {"sdlog", "src", "close", "pad", "other"} /\ l.ok = TRUE
      /\ l.k = "src" => l.label = "name"
      /\ {"k", "ok"} \subseteq DOMAIN l
  BY <1>2
<1>4. SoundLine(l, written', prev, prev', gap')
  BY <1>1, <1>3 DEF SoundLine, Stated
<1> QED BY <1>1, <1>2, <1>3, <1>4, TakeKeeps

(* The invariant holds of every file.                                      *)
LEMMA ReaderInvHolds == ReaderSpec => []ReaderInv
<1>1. ReaderInit => ReaderInv
  <2> SUFFICES ASSUME ReaderInit PROVE ReaderInv
    OBVIOUS
  <2>1. ReaderTyped
    <3>1. DOMAIN NoReport = RepFields /\ NoReport.bad = 0 /\ NoReport.count = 0
      BY DEF NoReport, RepFields
    <3>2. DOMAIN NoStream = StrFields /\ NoStream.count = 0
      BY DEF NoStream, StrFields
    <3>3. <<>> \in Seq(TruePoints)
      OBVIOUS
    <3>4. DOMAIN rep = RepFields /\ rep.bad \in Nat /\ rep.count \in Nat
      BY <3>1 DEF ReaderInit
    <3>5. DOMAIN str = StrFields /\ str.count \in Nat
      BY <3>2 DEF ReaderInit
    <3>6. offers \in Seq(TruePoints) /\ written \in Nat /\ ended \in BOOLEAN /\ prev = None
      BY <3>3 DEF ReaderInit
    <3> QED BY <3>4, <3>5, <3>6 DEF ReaderTyped
  <2>2. RepTrue
    BY DEF ReaderInit, RepTrue, NoReport, NoClock, Latest, Corrected
  <2>3. StrTrue
    BY DEF ReaderInit, StrTrue, NoStream, NoClock, Corrected
  <2>4. InStep
    BY DEF ReaderInit, InStep, NoReport, NoStream, NoClock
  <2> QED BY <2>1, <2>2, <2>3, <2>4 DEF ReaderInv
<1>2. ReaderInv /\ [ReaderNext]_readerVars => ReaderInv'
  <2> SUFFICES ASSUME ReaderInv, [ReaderNext]_readerVars PROVE ReaderInv'
    OBVIOUS
  <2>1. CASE WriteRecord
    BY <2>1, WriteRecordKeeps
  <2>2. CASE WriteClock
    BY <2>2, WriteClockKeeps
  <2>3. CASE WriteGap
    BY <2>3, WriteGapKeeps
  <2>4. CASE WriteMeta \/ ForeignFile
    BY <2>4, WriteMetaKeeps
  <2>5. CASE UNCHANGED readerVars
    BY <2>5 DEF readerVars, ReaderInv, ReaderTyped, RepTrue, StrTrue, InStep
  <2> QED BY <2>1, <2>2, <2>3, <2>4, <2>5 DEF ReaderNext
<1> QED BY <1>1, <1>2, PTL DEF ReaderSpec

(* The invariant gives the property.                                       *)
LEMMA ReaderInvAgrees == ReaderInv => ReadersAgree
<1> SUFFICES ASSUME ReaderInv PROVE ReadersAgree
  OBVIOUS
<1>1. CleanTimesAreTrue
  BY DEF CleanTimesAreTrue, Clean, ReaderInv, ReaderTyped, RepTrue, StrTrue, InStep
<1>2. ClockIsBest
  <2>1. rep.done \/ Latest(offers, rep.clock.current)
    BY DEF ReaderInv, RepTrue
  <2>2. offers \in Seq(TruePoints) /\ Corrected(rep.clock.correction)
    BY DEF ReaderInv, RepTrue, ReaderTyped
  <2>3. rep.done \/ rep.clock.current = IF offers = <<>> THEN None ELSE offers[CHOOSE i \in BestOf(offers) : TRUE]
    BY <2>1, <2>2, LatestIsBest
  <2> QED BY <2>2, <2>3 DEF ClockIsBest, BestOf, Rank, Corrected
<1>3. GapIsRead
  BY DEF GapIsRead, ReaderInv, RepTrue
<1>4. Clean /\ ~rep.done /\ ~ended =>
        /\ str.pc = "reading" /\ str.count = rep.count /\ str.label = rep.label
        /\ str.chain = rep.chain /\ str.anchor = rep.anchor /\ str.clock = rep.clock
  BY DEF Clean, ReaderInv, InStep
<1> QED BY <1>1, <1>2, <1>3, <1>4 DEF ReadersAgree

(* The two readers of a card file agree and are right (ReadersAgree,       *)
(* parse_file and StreamReader of sdlog.py): on a file without bad lines   *)
(* and cut lines they count the same records and hold the same time, label *)
(* and clock; every time is the one the writer meant; the clock in use is  *)
(* the latest of the best basis; and a #gap window is called punctured     *)
(* exactly when a seq inside it survived.                                  *)
THEOREM ReaderTheorem == ReaderSpec => []ReadersAgree
BY ReaderInvHolds, ReaderInvAgrees, PTL
=============================================================================
