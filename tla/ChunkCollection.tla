-------------------------- MODULE ChunkCollection --------------------------
(***************************************************************************)
(* The life of a log chunk (components/sd_logger, script/sdlog_collect.py):*)
(* the writer task rotates, renames confirmed chunks, deletes chunks for   *)
(* space and survives a failing card; the httpd task serves and confirms   *)
(* chunks; the host collector archives what it fetched and confirms it.    *)
(* The chunk index is shared under index_mux_, card operations run outside *)
(* the lock, so every locked section and every card operation of the       *)
(* writer is an action of its own.                                         *)
(*                                                                         *)
(* The card (external, FatFs): unlink and rename write the directory back, *)
(* and with it the entry of a file created before; until then, or until    *)
(* the first fsync, a failure can take a new file with it.                 *)
(*                                                                         *)
(* A file's bytes are represented by the number of its creation (id), so   *)
(* two files that bear the same sequence number are told apart.            *)
(***************************************************************************)
EXTENDS Naturals, Sequences, FiniteSets, FiniteSetsExt

CONSTANTS
  MaxSeq,           \* bound: sequence numbers are 0..MaxSeq
  MaxFiles,         \* bound: files created in a behaviour
  MaxChunks,        \* SD_LOG_MAX_CHUNKS
  QueueDepth,       \* SD_LOGGER_CONFIRM_QUEUE_DEPTH
  MaxFaults,        \* bound: card failures, power cuts and failed card calls
  MaxRenameFaults,  \* bound: renames the card refuses
  DrainTimesOut     \* UNMOUNT_DRAIN_MS can expire with a transfer in flight

ASSUME CollectionAssumption ==
  /\ MaxSeq \in Nat /\ MaxFiles \in Nat /\ MaxFaults \in Nat /\ MaxRenameFaults \in Nat
  /\ MaxChunks \in Nat \ {0, 1}
  /\ QueueDepth \in Nat \ {0}
  /\ DrainTimesOut \in BOOLEAN

Seqs == 0..MaxSeq
Ids == 1..MaxFiles
NoId == 0

VARIABLES
  file,      \* (card) the name each sequence number has and its bytes
  synced,    \* (card) the open file's directory entry is on the medium
  index,     \* collection_: the state of each tracked chunk
  serving,   \* the chunks whose serving flag is set
  gate,      \* serving_open_
  queue,     \* confirm_q_
  seq,       \* seq_
  fd,        \* fd_ >= 0: the file seq is open
  wpc,       \* the writer's next step
  job,       \* the chunk the writer has in hand
  pull,      \* the httpd handler and the collector behind it
  archive,   \* (host) the files the collector holds
  pending,   \* never-collected chunks deleted, in the policy's window
  owed,      \* gap_owed_
  inflight,  \* gap_inflight_
  flushed,   \* the #gap line of inflight was written to the card
  stated,    \* chunks whose loss a #gap line on the card states
  history    \* created: last id; deleted: ids removed; cut: losses a power
             \* cut erased from RAM; reborn: files created under a number
             \* whose confirm was still under way; refused: index_refused_ is
             \* not zero; faults, renameFaults: how many happened

cardVars == <<file, synced>>
indexVars == <<index, serving, gate>>
gapVars == <<pending, owed, inflight, flushed, stated>>
vars == <<cardVars, indexVars, queue, seq, fd, wpc, job, pull, archive, gapVars, history>>

NoFile == [name |-> "none", id |-> NoId]
NoJob == [seq |-> 0, state |-> "none", id |-> NoId, then |-> "idle", done |-> FALSE]
Idle == [pc |-> "idle", seq |-> 0, id |-> NoId, fd |-> "none"]

TypeOK ==
  /\ file \in [Seqs -> [name : {"none", "log", "upl"}, id : Ids \cup {NoId}]]
  /\ synced \in BOOLEAN
  /\ index \in [Seqs -> {"none", "open", "sealed", "confirmed"}]
  /\ serving \in SUBSET Seqs
  /\ gate \in BOOLEAN
  /\ queue \in Seq(Seqs) /\ Len(queue) <= QueueDepth
  /\ seq \in Nat
  /\ fd \in BOOLEAN
  /\ wpc \in {"idle", "open", "create", "add", "unlink", "discard", "rename", "renamed",
              "failed", "drain", "mount"}
  /\ job \in [seq : Seqs, state : {"none", "sealed", "confirmed"}, id : Ids \cup {NoId},
              then : {"idle", "create", "add"}, done : BOOLEAN]
  /\ pull \in [pc : {"idle", "granted", "reading", "confirm"}, seq : Seqs,
               id : Ids \cup {NoId}, fd : {"none", "live", "cut", "dead"}]
  /\ \A set \in {archive, pending, owed, inflight, stated} : set \in SUBSET Ids
  /\ flushed \in BOOLEAN

Init ==
  /\ file = [s \in Seqs |-> NoFile]
  /\ synced = FALSE
  /\ index = [s \in Seqs |-> "none"]
  /\ serving = {}
  /\ gate = TRUE
  /\ queue = <<>>
  /\ seq = 0
  /\ fd = FALSE
  /\ wpc = "open"
  /\ job = NoJob
  /\ pull = Idle
  /\ archive = {} /\ pending = {} /\ owed = {} /\ inflight = {} /\ stated = {}
  /\ flushed = FALSE
  /\ history = [created |-> 0, deleted |-> {}, cut |-> {}, reborn |-> {},
              refused |-> FALSE, faults |-> 0, renameFaults |-> 0]

-----------------------------------------------------------------------------
(* The chunk index (CollectionPolicy).                                     *)

Tracked == {s \in Seqs : index[s] # "none"}
Full == Cardinality(Tracked) >= MaxChunks
InState(st) == {s \in Seqs : index[s] = st}

(* next_victim: confirmed chunks are the free list, oldest first; a free   *)
(* list that is only busy is waited for; then the oldest uncollected one.  *)
NextVictim ==
  IF InState("confirmed") \ serving # {} THEN {Min(InState("confirmed") \ serving)}
  ELSE IF InState("confirmed") # {} THEN {}
  ELSE IF InState("sealed") \ serving # {} THEN {Min(InState("sealed") \ serving)}
  ELSE {}

IndexPressureVictim ==
  IF Full /\ InState("confirmed") \ serving # {}
    THEN {Min(InState("confirmed") \ serving)} ELSE {}

-----------------------------------------------------------------------------
(* The #gap window.                                                        *)

(* write_drop_markers_: the finished line is retired, the policy's window  *)
(* moves to the writer's and, unless one is in flight, a line is committed *)
(* to the block.                                                           *)
WriteGap ==
  /\ wpc = "idle" /\ fd
  /\ LET retired == inflight = {} \/ flushed
         due == owed \cup pending
     IN  /\ due # {} \/ (inflight # {} /\ flushed)
         /\ pending' = {}
         /\ inflight' = IF retired THEN due ELSE inflight
         /\ owed' = IF retired THEN {} ELSE due
         /\ flushed' = (flushed /\ ~retired)
  /\ UNCHANGED <<cardVars, indexVars, queue, seq, fd, wpc, job, pull, archive, stated, history>>

(* flush_block_: the block, with the #gap line in it, reaches the card.    *)
FlushBlock ==
  /\ wpc = "idle" /\ fd
  /\ inflight # {} /\ ~flushed
  /\ flushed' = TRUE
  /\ stated' = stated \cup inflight
  /\ UNCHANGED <<cardVars, indexVars, queue, seq, fd, wpc, job, pull, archive, pending,
                 owed, inflight, history>>

(* Mutant: the line in flight is forgotten.                                *)
DropUnflushedGapForgets ==
  /\ inflight' = {}
  /\ flushed' = FALSE
  /\ UNCHANGED <<pending, owed, stated>>

(* drop_unflushed_gap_: a line that did not reach the card is owed again.  *)
DropUnflushedGap ==
  /\ owed' = IF flushed THEN owed ELSE owed \cup inflight
  /\ inflight' = {}
  /\ flushed' = FALSE
  /\ UNCHANGED <<pending, stated>>

-----------------------------------------------------------------------------
(* The writer: opening and rotating files.                                 *)

(* sync_file_.                                                             *)
SyncFile ==
  /\ wpc = "idle" /\ fd /\ ~synced
  /\ synced' = TRUE
  /\ UNCHANGED <<file, indexVars, queue, seq, fd, wpc, job, pull, archive, gapVars, history>>

(* rotate_file_, close_file_: the block is flushed whole, the file closed  *)
(* and sealed in the index, under its lock.                                *)
RotateFile ==
  /\ wpc = "idle" /\ fd
  /\ seq < MaxSeq /\ history.created < MaxFiles
  /\ stated' = stated \cup inflight
  /\ inflight' = {} /\ flushed' = FALSE
  /\ fd' = FALSE
  /\ index' = [index EXCEPT ![seq] = IF @ = "open" THEN "sealed" ELSE @]
  /\ seq' = seq + 1
  /\ wpc' = "open"
  /\ UNCHANGED <<cardVars, serving, gate, queue, job, pull, archive, pending, owed, history>>

(* A victim is chosen and reserved in one locked section.                  *)
Reserve(v, then) ==
  /\ serving' = serving \cup {v}
  /\ job' = [seq |-> v, state |-> index[v], id |-> NoId, then |-> then, done |-> FALSE]
  /\ wpc' = "unlink"
  /\ UNCHANGED <<cardVars, index, gate, queue, seq, fd, pull, archive, history>>

(* open_next_file_ begins: a line that did not reach the card is owed      *)
(* again, and a full index gives up a confirmed chunk.                     *)
OpenPressure ==
  /\ wpc = "open"
  /\ DropUnflushedGap
  /\ \/ \E v \in IndexPressureVictim : Reserve(v, "create")
     \/ /\ IndexPressureVictim = {}
        /\ wpc' = "create"
        /\ UNCHANGED <<cardVars, indexVars, queue, seq, fd, job, pull, archive, history>>

(* A confirm of this number is under way: an intent in confirm_q_, which   *)
(* no unmount clears, or the collector's post.  scan_next_seq_ hands a     *)
(* number out again once no file on the card carries it; such a confirm    *)
(* then reaches the new file.                                              *)
ConfirmUnderWay(s) == (\E i \in DOMAIN queue : queue[i] = s) \/ (pull.pc = "confirm" /\ pull.seq = s)

(* The file is created with its header in the block.                       *)
CreateFile ==
  /\ wpc = "create"
  /\ seq \in Seqs /\ history.created < MaxFiles
  /\ file' = [file EXCEPT ![seq] = [name |-> "log", id |-> history.created + 1]]
  /\ synced' = FALSE
  /\ history' = [history EXCEPT !.created = @ + 1,
                   !.reborn = IF ConfirmUnderWay(seq) THEN @ \cup {history.created + 1} ELSE @]
  /\ fd' = TRUE
  /\ wpc' = "add"
  /\ UNCHANGED <<indexVars, queue, seq, job, pull, archive, gapVars>>

(* The open file enters the index; a full index gives up a chunk first, or *)
(* the file stays untracked.                                               *)
TrackOpen ==
  /\ wpc = "add"
  /\ \/ \E v \in IndexPressureVictim : job.then # "add" /\ Reserve(v, "add") /\ UNCHANGED gapVars
     \/ /\ IndexPressureVictim = {} \/ job.then = "add"
        /\ index' = IF Full THEN index ELSE [index EXCEPT ![seq] = "open"]
        /\ history' = [history EXCEPT !.refused = @ \/ Full]
        /\ job' = NoJob
        /\ wpc' = "idle"
        /\ UNCHANGED <<cardVars, serving, gate, queue, seq, fd, pull, archive, gapVars>>

-----------------------------------------------------------------------------
(* The writer: deleting chunks.                                            *)

(* retention_pass_ above the fill threshold.                               *)
RetentionPass ==
  /\ wpc = "idle" /\ fd
  /\ \E v \in NextVictim : Reserve(v, "idle")
  /\ UNCHANGED gapVars

(* What an open transfer is left with when the file s changes its name or  *)
(* goes: its clusters are no longer its own.                               *)
Disturbed(s) ==
  IF pull.fd = "live" /\ pull.id = file[s].id THEN [pull EXCEPT !.fd = "cut"] ELSE pull

(* discard_reserved_chunk_, the card's half: unlink under the name of the  *)
(* state the chunk was chosen in; a confirmed chunk whose .UPL is missing  *)
(* is unlinked under its .LOG name too.                                    *)
Unlink ==
  /\ wpc = "unlink"
  /\ LET f == file[job.seq]
         hit == f.name = (IF job.state = "sealed" THEN "log" ELSE "upl")
                  \/ (job.state = "confirmed" /\ f.name = "log")
     IN  /\ file' = IF hit THEN [file EXCEPT ![job.seq] = NoFile] ELSE file
         /\ synced' = (synced \/ (fd /\ hit))
         /\ history' = IF hit THEN [history EXCEPT !.deleted = @ \cup {f.id}] ELSE history
         /\ job' = [job EXCEPT !.id = IF hit THEN f.id ELSE NoId]
         /\ pull' = IF hit THEN Disturbed(job.seq) ELSE pull
  /\ wpc' = "discard"
  /\ UNCHANGED <<indexVars, queue, seq, fd, archive, gapVars>>

(* Mutant: the reservation is kept.                                        *)
UnlinkFailsKeepsFlag ==
  /\ wpc = "unlink"
  /\ history.faults < MaxFaults
  /\ history' = [history EXCEPT !.faults = @ + 1]
  /\ wpc' = job.then
  /\ UNCHANGED <<cardVars, indexVars, queue, seq, fd, job, pull, archive, gapVars>>

(* The unlink failed with the file still there: the reservation goes back. *)
UnlinkFails ==
  /\ wpc = "unlink"
  /\ history.faults < MaxFaults
  /\ history' = [history EXCEPT !.faults = @ + 1]
  /\ serving' = serving \ {job.seq}
  /\ wpc' = job.then
  /\ UNCHANGED <<cardVars, index, gate, queue, seq, fd, job, pull, archive, gapVars>>

(* The index's half: reservation and entry go in one locked section, and   *)
(* only a chunk that is still uncollected is billed.                       *)
Discard ==
  /\ wpc = "discard"
  /\ serving' = serving \ {job.seq}
  /\ index' = [index EXCEPT ![job.seq] = IF @ = "open" THEN @ ELSE "none"]
  /\ pending' = IF index[job.seq] = "sealed" THEN pending \cup ({job.id} \ {NoId}) ELSE pending
  /\ wpc' = job.then
  /\ UNCHANGED <<cardVars, gate, queue, seq, fd, job, pull, archive, owed, inflight,
                 flushed, stated, history>>

-----------------------------------------------------------------------------
(* The writer: drain_confirms_.                                            *)

(* Peek, decide and reserve under the lock, then consume.  A chunk being   *)
(* served is left at the head; an intent for the open file is dropped.     *)
DrainConfirms ==
  /\ wpc = "idle" /\ fd
  /\ queue # <<>>
  /\ Head(queue) \notin serving
  /\ queue' = Tail(queue)
  /\ LET s == Head(queue)
     IN  IF index[s] = "open"
           THEN UNCHANGED <<serving, job, wpc>>
           ELSE /\ serving' = IF index[s] # "none" THEN serving \cup {s} ELSE serving
                /\ job' = [NoJob EXCEPT !.seq = s]
                /\ wpc' = "rename"
  /\ UNCHANGED <<cardVars, index, gate, seq, fd, pull, archive, gapVars, history>>

(* rename(.LOG, .UPL); done says it succeeded or found no .LOG.            *)
Rename ==
  /\ wpc = "rename"
  /\ wpc' = "renamed"
  /\ job' = [job EXCEPT !.done = TRUE]
  /\ IF file[job.seq].name = "log"
       THEN /\ file' = [file EXCEPT ![job.seq].name = "upl"]
            /\ synced' = TRUE
            /\ pull' = Disturbed(job.seq)
       ELSE UNCHANGED <<file, synced, pull>>
  /\ UNCHANGED <<indexVars, queue, seq, fd, archive, gapVars, history>>

RenameFails ==
  /\ wpc = "rename"
  /\ history.renameFaults < MaxRenameFaults
  /\ history' = [history EXCEPT !.renameFaults = @ + 1]
  /\ wpc' = "renamed"
  /\ UNCHANGED <<cardVars, indexVars, queue, seq, fd, job, pull, archive, gapVars>>

(* Mutant: the index is not told of the rename.                            *)
RenamedUnnoticed ==
  /\ wpc = "renamed"
  /\ serving' = serving \ {job.seq}
  /\ wpc' = "idle"
  /\ job' = NoJob
  /\ UNCHANGED <<cardVars, index, gate, queue, seq, fd, pull, archive, gapVars, history>>

Renamed ==
  /\ wpc = "renamed"
  /\ serving' = serving \ {job.seq}
  /\ index' = [index EXCEPT ![job.seq] = IF job.done /\ @ = "sealed" THEN "confirmed" ELSE @]
  /\ wpc' = "idle"
  /\ job' = NoJob
  /\ UNCHANGED <<cardVars, gate, queue, seq, fd, pull, archive, gapVars, history>>

-----------------------------------------------------------------------------
(* Failures.                                                               *)

(* The card may have lost the open file if its directory entry was not yet *)
(* on the medium.                                                          *)
CardAfterFailure ==
  \/ UNCHANGED file
  \/ /\ fd /\ ~synced
     /\ file' = [file EXCEPT ![seq] = NoFile]

(* enter_failed_, from a write, an fsync or a failed open.                 *)
EnterFailed ==
  /\ wpc \in {"idle", "create"}
  /\ history.faults < MaxFaults
  /\ history' = [history EXCEPT !.faults = @ + 1]
  /\ CardAfterFailure
  /\ fd' = FALSE /\ synced' = FALSE
  /\ index' = [s \in Seqs |-> "none"]
  /\ serving' = {}
  /\ DropUnflushedGap
  /\ job' = NoJob
  /\ wpc' = "failed"
  /\ UNCHANGED <<gate, queue, seq, pull, archive>>

(* try_recover_, unmount_card_: the gate closes before the drain looks.    *)
CloseGate ==
  /\ wpc = "failed"
  /\ gate' = FALSE
  /\ wpc' = "drain"
  /\ UNCHANGED <<cardVars, index, serving, queue, seq, fd, job, pull, archive, gapVars, history>>

InFlight == pull.pc \in {"granted", "reading"}

(* The bounded wait; a transfer that outlives it loses its volume.         *)
Unmount ==
  /\ wpc = "drain"
  /\ ~InFlight \/ DrainTimesOut
  /\ pull' = IF InFlight THEN [pull EXCEPT !.fd = "dead"] ELSE pull
  /\ wpc' = "mount"
  /\ UNCHANGED <<cardVars, indexVars, queue, seq, fd, job, archive, gapVars, history>>

(* mount_card_ and scan_next_seq_: one slot of the index stays free for    *)
(* the file about to open; the directory order decides what is left out.   *)
OnCard == {s \in Seqs : file[s].name # "none"}

Scanned(kept) ==
  /\ index' = [s \in Seqs |-> IF s \notin kept THEN "none"
                              ELSE IF file[s].name = "log" THEN "sealed" ELSE "confirmed"]
  /\ seq' = IF OnCard = {} THEN 0 ELSE Max(OnCard) + 1
ScanKeeps(kept) ==
  /\ kept \subseteq OnCard
  /\ Cardinality(kept) = Min({Cardinality(OnCard), MaxChunks - 1})

Mount ==
  /\ wpc = "mount"
  /\ gate' = TRUE
  /\ \E kept \in SUBSET Seqs : ScanKeeps(kept) /\ Scanned(kept)
  /\ history' = [history EXCEPT !.refused = @ \/ Cardinality(OnCard) >= MaxChunks]
  /\ serving' = {}
  /\ wpc' = "open"
  /\ UNCHANGED <<cardVars, queue, fd, job, pull, archive, gapVars>>

(* A power cut: RAM is gone, the collector's request fails, and the next   *)
(* boot mounts and scans.  A confirm being retried survives on the host.   *)
PowerCut ==
  /\ history.faults < MaxFaults
  /\ history' = [history EXCEPT !.faults = @ + 1,
                   !.cut = @ \cup ((pending \cup owed \cup inflight) \ stated)
                             \cup (IF wpc = "discard" /\ job.state = "sealed"
                                     THEN {job.id} \ {NoId} ELSE {})]
  /\ CardAfterFailure
  /\ fd' = FALSE /\ synced' = FALSE
  /\ index' = [s \in Seqs |-> "none"]
  /\ serving' = {} /\ gate' = FALSE
  /\ queue' = <<>>
  /\ job' = NoJob
  /\ pull' = IF pull.pc = "confirm" THEN pull ELSE Idle
  /\ pending' = {} /\ owed' = {} /\ inflight' = {} /\ flushed' = FALSE
  /\ wpc' = "mount"
  /\ UNCHANGED <<seq, archive, stated>>

-----------------------------------------------------------------------------
(* The httpd task, and the collector on the other end.                     *)

(* Mutant: a chunk the writer has reserved is granted.                     *)
BeginServeReserved(s) ==
  /\ pull.pc = "idle"
  /\ gate
  /\ index[s] = "sealed"
  /\ serving' = serving \cup {s}
  /\ pull' = [pc |-> "granted", seq |-> s, id |-> NoId, fd |-> "none"]
  /\ UNCHANGED <<cardVars, index, gate, queue, seq, fd, wpc, job, archive, gapVars, history>>

(* collection_begin_serve: gate, state and serving flag in one section.    *)
BeginServe(s) ==
  /\ pull.pc = "idle"
  /\ gate
  /\ index[s] = "sealed"
  /\ s \notin serving
  /\ serving' = serving \cup {s}
  /\ pull' = [pc |-> "granted", seq |-> s, id |-> NoId, fd |-> "none"]
  /\ UNCHANGED <<cardVars, index, gate, queue, seq, fd, wpc, job, archive, gapVars, history>>

(* serve_chunk_ opens the .LOG, unless its volume has gone.                *)
OpenChunk ==
  /\ pull.pc = "granted" /\ pull.fd # "dead"
  /\ file[pull.seq].name = "log"
  /\ pull' = [pull EXCEPT !.pc = "reading", !.id = file[pull.seq].id, !.fd = "live"]
  /\ UNCHANGED <<cardVars, indexVars, queue, seq, fd, wpc, job, archive, gapVars, history>>

(* collection_end_serve, on every exit path of the handler: the flag goes. *)
EndServe ==
  /\ serving' = serving \ {pull.seq}
  /\ UNCHANGED <<cardVars, index, gate, queue, seq, fd, wpc, job, gapVars, history>>

(* The body was sent whole: the collector verifies it, archives it (or     *)
(* finds that it has it) and goes on to confirm.  What a transfer reads    *)
(* from clusters that are no longer its own passes for the chunk.          *)
ServeDone ==
  /\ pull.pc = "reading" /\ pull.fd # "dead"
  /\ archive' = IF pull.fd = "live" THEN archive \cup {pull.id} ELSE archive
  /\ pull' = [pull EXCEPT !.pc = "confirm", !.fd = "none"]
  /\ EndServe

(* The file is missing, a read or a send fails, or the collector gave up.  *)
ServeFails ==
  /\ pull.pc \in {"granted", "reading"}
  /\ pull' = Idle
  /\ UNCHANGED archive
  /\ EndServe

(* collection_confirm; a full queue or a closed gate is a 503 the          *)
(* collector retries, so it is no step.  The answer may be lost, and the   *)
(* collector posts again.                                                  *)
Confirm ==
  /\ pull.pc = "confirm"
  /\ gate
  /\ LET s == pull.seq
     IN  \/ /\ index[s] = "sealed"
            /\ Len(queue) < QueueDepth
            /\ queue' = Append(queue, s)
            /\ index' = [index EXCEPT ![s] = "confirmed"]
            /\ pull' \in {pull, Idle}
         \/ /\ index[s] # "sealed"
            /\ pull' = Idle
            /\ UNCHANGED <<queue, index>>
  /\ UNCHANGED <<cardVars, serving, gate, seq, fd, wpc, job, archive, gapVars, history>>

(* The collector's retries are spent, or it was stopped.                   *)
GiveUp ==
  /\ pull.pc = "confirm"
  /\ pull' = Idle
  /\ UNCHANGED <<cardVars, indexVars, queue, seq, fd, wpc, job, archive, gapVars, history>>

-----------------------------------------------------------------------------
Writer ==
  \/ WriteGap \/ FlushBlock \/ SyncFile \/ RotateFile \/ OpenPressure \/ CreateFile
  \/ TrackOpen \/ RetentionPass \/ Unlink \/ Discard \/ DrainConfirms \/ Rename
  \/ Renamed \/ CloseGate \/ Unmount \/ Mount

Httpd == (\E s \in Seqs : BeginServe(s)) \/ OpenChunk \/ ServeDone \/ ServeFails \/ Confirm \/ GiveUp

Faults == UnlinkFails \/ RenameFails \/ EnterFailed \/ PowerCut

Next == Writer \/ Httpd \/ Faults

Spec == Init /\ [][Next]_vars

(* The writer task keeps running, and a card that mounts again is found by *)
(* the recovery ladder; the collector is run again and again (a timer or a *)
(* service on the host) and asks for every chunk the index lists, and its  *)
(* requests do not fail for ever.  Nothing is assumed of retention.        *)
Fairness ==
  /\ WF_vars(OpenPressure \/ CreateFile \/ TrackOpen \/ Unlink \/ Discard \/ Rename
               \/ Renamed \/ CloseGate \/ Unmount \/ Mount)
  /\ WF_vars(ServeFails)
  /\ SF_vars(DrainConfirms)
  /\ SF_vars(Confirm)
  /\ WF_vars(GiveUp)
  /\ \A s \in Seqs : /\ SF_vars(BeginServe(s))
                      /\ SF_vars(pull.seq = s /\ OpenChunk)
                      /\ SF_vars(pull.seq = s /\ ServeDone)

FairSpec == Spec /\ Fairness

-----------------------------------------------------------------------------
(* What the collector holds, or a confirm of an earlier file of the same   *)
(* number may say it holds (ConfirmUnderWay).                              *)
Kept == archive \cup history.reborn

(* No chunk is lost silently, and none is billed twice.  A chunk named     *)
(* .UPL is one the collector holds: "the collector already has these       *)
(* bytes, which is what CONFIRMED means" (sd_logger.cpp); the name alone   *)
(* lets retention delete without a #gap.  Whatever was deleted is held by  *)
(* the collector, or its loss is stated in a #gap line or still owed one   *)
(* (a power cut erases what was owed); and no chunk is in two windows, or  *)
(* in a window again after its line reached the card.  The one exception   *)
(* is a file created under a number that an outstanding confirm names.     *)
NoSilentLoss ==
  /\ \A s \in Seqs : file[s].name = "upl" => file[s].id \in Kept
  /\ \A id \in history.deleted :
       \/ id \in Kept
       \/ id \in pending \cup owed \cup inflight \cup stated \cup history.cut
       \/ wpc = "discard" /\ job.id = id
  /\ pending \cap (owed \cup inflight \cup stated) = {}
  /\ owed \cap (inflight \cup stated) = {}
  /\ ~flushed => inflight \cap stated = {}

(* The file behind a transfer keeps its name and its clusters until the    *)
(* transfer ends, unless its card was torn down: retention and             *)
(* drain_confirms_ never touch a chunk that is being read.                 *)
ServedFileStays == pull.fd # "cut"

(* At rest the index and the card agree: a listed chunk can be fetched, a  *)
(* confirmed one is on the card under one of its names, and, unless the    *)
(* index once refused a chunk, no file is forgotten: "an index that        *)
(* forgets a file that exists is the one failure retention cannot recover  *)
(* from" (sd_logger.cpp).  Index and queue stay within their sizes.        *)
IndexMatchesCard ==
  /\ TypeOK
  /\ wpc = "idle" =>
       /\ \A s \in Seqs : index[s] = "sealed" => file[s].name = "log"
       /\ \A s \in Seqs : index[s] = "confirmed" => file[s].name # "none"
       /\ ~history.refused => Tracked = OnCard

(* Every chunk that is closed is collected, or deleted for space: nothing  *)
(* is stranded on the card, neither by a failed unlink nor by a failed     *)
(* transfer, an unanswered confirm or a restart in between, except a file  *)
(* that a full index left out at a mount (scan_next_seq_), and one that a  *)
(* confirm of an earlier file of its number retires (Kept).                *)
Closed(id) == \E s \in Seqs : file[s].id = id /\ ~(fd /\ s = seq)
LeftOut(id) == history.refused /\ \E s \in Seqs : file[s].id = id /\ index[s] = "none"
EveryChunkIsCollected ==
  \A id \in Ids : Closed(id) ~> (id \in Kept \cup history.deleted \/ LeftOut(id))

=============================================================================
