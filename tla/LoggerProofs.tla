---------------------------- MODULE LoggerProofs ----------------------------
(***************************************************************************)
(* The logger's chunks and its clock, for any number of files, any bounds  *)
(* and any faults: no chunk is lost silently, the file behind a transfer   *)
(* stays, index and card agree at rest, the clock in the files is honest   *)
(* and sealing a torn file keeps the floor.                                *)
(***************************************************************************)
EXTENDS ChunkCollection, LogClock, SequenceTheorems, FiniteSetTheorems, TLAPS

-----------------------------------------------------------------------------
(* The chunks.  The invariant: the types; who holds a descriptor (FdInv);  *)
(* the open file is the newest (SeqInv); a file has one identity (FileInv);*)
(* what an index entry and a job say of the card (IndexInv); a transfer    *)
(* holds its reservation (PullInv); who vouches for the name .UPL and for  *)
(* an intent (KeptInv); where a deleted chunk is accounted for (GapInv);   *)
(* and that the index lists what is on the card (TrackInv).                *)
Names == {"none", "log", "upl"}
Entries == [name : Names, id : Ids \cup {NoId}]
States == {"none", "open", "sealed", "confirmed"}
WriterSteps == {"idle", "open", "create", "add", "unlink", "discard", "rename", "renamed",
          "failed", "drain", "mount"}
Jobs == [seq : Seqs, state : {"none", "sealed", "confirmed"}, id : Ids \cup {NoId},
         then : {"idle", "create", "add"}, done : BOOLEAN]
Pulls == [pc : {"idle", "granted", "reading", "confirm"}, seq : Seqs,
          id : Ids \cup {NoId}, fd : {"none", "live", "cut", "dead"}]
Histories == [created : Nat, deleted : SUBSET Nat, cut : SUBSET Nat, reborn : SUBSET Nat,
              refused : BOOLEAN, faults : Nat, renameFaults : Nat]
Windows ==
  /\ archive \subseteq Ids /\ pending \subseteq Ids /\ owed \subseteq Ids
  /\ inflight \subseteq Ids /\ stated \subseteq Ids /\ flushed \in BOOLEAN
Types ==
  /\ file \in [Seqs -> Entries] /\ synced \in BOOLEAN
  /\ index \in [Seqs -> States] /\ serving \subseteq Seqs /\ gate \in BOOLEAN
  /\ queue \in Seq(Seqs) /\ Len(queue) <= QueueDepth
  /\ seq \in Nat /\ fd \in BOOLEAN /\ wpc \in WriterSteps
  /\ job \in Jobs /\ pull \in Pulls /\ history \in Histories
  /\ Windows
Closing == {"unlink", "discard"}
Renaming == {"rename", "renamed"}
Down == {"failed", "drain", "mount"}
OnIt(s) == file[s].name # "none"
FdInv ==
  /\ wpc \in {"open", "create"} \cup Down => ~fd
  /\ wpc \in {"idle", "add"} \cup Renaming => fd
  /\ wpc \in Closing => (fd <=> job.then # "create")
SeqInv ==
  /\ fd => seq \in Seqs /\ OnIt(seq) /\ index[seq] \in {"open", "none"}
  /\ \A s \in Seqs : index[s] = "open" => fd /\ s = seq /\ file[s].name = "log"
  /\ wpc \notin Down => \A s \in Seqs : s > seq \/ (s = seq /\ ~fd) => ~OnIt(s) /\ index[s] = "none"
  /\ wpc \in Down => serving = {} /\ \A s \in Seqs : index[s] = "none"
  /\ wpc = "mount" => ~InFlight
  /\ wpc = "add" \/ (wpc \in Closing /\ job.then = "add") => file[seq].name = "log"
FileInv ==
  /\ \A s \in Seqs : /\ ~OnIt(s) => file[s].id = NoId
                     /\ OnIt(s) => file[s].id \in 1..history.created \ history.deleted
  /\ \A s, t \in Seqs : OnIt(s) /\ OnIt(t) /\ file[s].id = file[t].id => s = t
  /\ history.created \in 0..MaxFiles /\ history.deleted \subseteq 1..history.created
IndexInv ==
  /\ \A s \in serving : index[s] \in {"sealed", "confirmed"}
  /\ \A s \in Seqs : index[s] = "sealed" => file[s].name = "log" \/ (wpc \in {"discard", "renamed"} /\ job.seq = s)
  /\ \A s \in Seqs : index[s] = "confirmed" => OnIt(s) \/ (wpc = "discard" /\ job.seq = s)
  /\ wpc = "renamed" /\ index[job.seq] = "sealed" => file[job.seq].name = IF job.done THEN "upl" ELSE "log"
  /\ wpc \in Closing => job.seq \in serving /\ (job.state = "confirmed" => index[job.seq] = "confirmed") /\ job.state # "none"
  /\ wpc = "unlink" /\ job.state = "sealed" => file[job.seq].name = "log"
  /\ wpc = "discard" => ~OnIt(job.seq)
  /\ wpc = "rename" => ~job.done
  /\ wpc \in Renaming => index[job.seq] # "open" /\ (index[job.seq] # "none" => job.seq \in serving)
PullInv ==
  /\ InFlight /\ wpc \notin Down => pull.seq \in serving
  /\ InFlight /\ wpc \in Closing \cup Renaming => job.seq # pull.seq
  /\ pull.pc = "reading" => pull.fd = "live" /\ file[pull.seq].name = "log" /\ file[pull.seq].id = pull.id
  /\ pull.pc # "reading" => pull.fd = "none"
KeptInv ==
  /\ \A s \in Seqs : file[s].name = "upl" \/ (index[s] = "confirmed" /\ OnIt(s)) => file[s].id \in Kept
  /\ \A i \in DOMAIN queue : OnIt(queue[i]) => file[queue[i]].id \in Kept
  /\ pull.pc = "confirm" /\ OnIt(pull.seq) => file[pull.seq].id \in Kept
  /\ wpc \in Renaming /\ OnIt(job.seq) => file[job.seq].id \in Kept
  /\ wpc = "discard" /\ (index[job.seq] = "confirmed" \/ (pull.pc = "confirm" /\ pull.seq = job.seq)) => job.id \in Kept
GapInv ==
  /\ \A id \in history.deleted :
       \/ id \in Kept
       \/ id \in pending \cup owed \cup inflight \cup stated \cup history.cut
       \/ wpc = "discard" /\ job.id = id
  /\ pending \cap (owed \cup inflight \cup stated) = {}
  /\ owed \cap (inflight \cup stated) = {}
  /\ ~flushed => inflight \cap stated = {}
  /\ flushed => inflight \subseteq stated
  /\ pending \cup owed \cup inflight \cup stated \subseteq history.deleted
  /\ wpc = "discard" => job.id \in history.deleted \ (pending \cup owed \cup inflight \cup stated)
TrackInv ==
  ~history.refused /\ wpc \notin Down =>
     \A s \in Seqs : \/ index[s] # "none" <=> OnIt(s)
                     \/ wpc = "discard" /\ s = job.seq
                     \/ s = seq /\ fd /\ (wpc = "add" \/ (wpc \in Closing /\ job.then = "add"))
ChunkInv == Types /\ FdInv /\ SeqInv /\ FileInv /\ IndexInv /\ PullInv /\ KeptInv /\ GapInv /\ TrackInv

(* The types of the invariant are those of the type invariant.             *)
LEMMA TypesMeanTypeOK == Types => TypeOK
BY DEF Types, Windows, TypeOK, Entries, Names, States, WriterSteps, Jobs, Pulls

(* What the parts of the records are.                                      *)
LEMMA Values ==
  ASSUME Types
  PROVE  /\ job.seq \in Seqs /\ job.id \in Ids \cup {NoId} /\ job.then \in {"idle", "create", "add"}
         /\ job.state \in {"none", "sealed", "confirmed"} /\ job.done \in BOOLEAN
         /\ pull.seq \in Seqs /\ pull.pc \in {"idle", "granted", "reading", "confirm"}
         /\ pull.id \in Ids \cup {NoId}
         /\ \A s \in Seqs : file[s].name \in Names /\ file[s].id \in Ids \cup {NoId} /\ index[s] \in States
         /\ \A i \in DOMAIN queue : queue[i] \in Seqs
         /\ history.created \in Nat /\ history.deleted \subseteq Nat /\ history.cut \subseteq Nat
         /\ history.refused \in BOOLEAN
<1>1. job \in Jobs /\ pull \in Pulls /\ history \in Histories
  BY DEF Types
<1>2. \A s \in Seqs : file[s].name \in Names /\ file[s].id \in Ids \cup {NoId} /\ index[s] \in States
  BY DEF Types, Entries
<1>3. \A i \in DOMAIN queue : queue[i] \in Seqs
  BY DEF Types
<1> QED BY <1>1, <1>2, <1>3 DEF Jobs, Pulls, Histories

(* The logger before its first file.                                       *)
LEMMA InitChunks == Init => ChunkInv
<1> SUFFICES ASSUME Init PROVE ChunkInv
  OBVIOUS
<1>1. /\ file = [s \in Seqs |-> NoFile] /\ index = [s \in Seqs |-> "none"] /\ queue = <<>> /\ seq = 0
      /\ job = NoJob /\ pull = Idle /\ serving = {} /\ wpc = "open" /\ ~fd
      /\ history = [created |-> 0, deleted |-> {}, cut |-> {}, reborn |-> {}, refused |-> FALSE,
                    faults |-> 0, renameFaults |-> 0]
      /\ 0 \in Seqs /\ NoId = 0
  BY CollectionAssumption DEF Init, Seqs, NoId
<1>2. /\ \A s \in Seqs : ~OnIt(s) /\ file[s].id = NoId /\ index[s] = "none" /\ file[s].name = "none"
  BY <1>1 DEF OnIt, NoFile
<1>3. Types
  <2>1. job \in Jobs
    BY <1>1 DEF NoJob, Jobs
  <2>2. pull \in Pulls
    BY <1>1 DEF Idle, Pulls
  <2>3. file \in [Seqs -> Entries]
    BY <1>1 DEF NoFile, Entries, Names
  <2>4. history \in Histories
    BY <1>1 DEF Histories
  <2>5. queue \in Seq(Seqs) /\ Len(queue) <= QueueDepth
    BY <1>1, CollectionAssumption
  <2>6. Windows
    BY DEF Init, Windows
  <2>7. index \in [Seqs -> States] /\ serving \subseteq Seqs /\ seq \in Nat
    BY <1>1 DEF States
  <2>8. synced \in BOOLEAN /\ gate \in BOOLEAN /\ fd \in BOOLEAN /\ wpc \in WriterSteps
    BY DEF Init, WriterSteps
  <2> HIDE DEF Init
  <2> QED BY <2>1, <2>2, <2>3, <2>4, <2>5, <2>6, <2>7, <2>8 DEF Types
<1>4. FdInv /\ SeqInv /\ FileInv /\ IndexInv
  BY <1>1, <1>2, CollectionAssumption DEF Init, FdInv, SeqInv, FileInv, IndexInv, Down, Closing, Renaming
<1>5. PullInv /\ KeptInv
  BY <1>1, <1>2 DEF Init, PullInv, KeptInv, Idle, InFlight, Down, Closing, Renaming
<1>6. GapInv /\ TrackInv
  BY <1>1, <1>2 DEF Init, GapInv, TrackInv
<1> QED BY <1>3, <1>4, <1>5, <1>6 DEF ChunkInv

(* WriteGap: the owed loss is stated in the block.                         *)
LEMMA WriteGapKeeps == ASSUME ChunkInv, WriteGap PROVE ChunkInv'
<1>1. Types'
  BY DEF ChunkInv, Types, Windows, WriteGap, cardVars, indexVars
<1>2. FdInv' /\ SeqInv' /\ FileInv' /\ IndexInv' /\ PullInv' /\ TrackInv' /\ KeptInv'
  BY DEF ChunkInv, FdInv, SeqInv, FileInv, IndexInv, PullInv, TrackInv, KeptInv, Kept, WriteGap, OnIt, InFlight, cardVars, indexVars
<1>3. GapInv'
  BY DEF ChunkInv, GapInv, WriteGap, Kept, cardVars, indexVars
<1> QED BY <1>1, <1>2, <1>3 DEF ChunkInv

(* FlushBlock: the block reaches the file.                                 *)
LEMMA FlushBlockKeeps == ASSUME ChunkInv, FlushBlock PROVE ChunkInv'
<1>1. Types'
  BY DEF ChunkInv, Types, Windows, FlushBlock, cardVars, indexVars
<1>2. FdInv' /\ SeqInv' /\ FileInv' /\ IndexInv' /\ PullInv' /\ TrackInv' /\ KeptInv'
  BY DEF ChunkInv, FdInv, SeqInv, FileInv, IndexInv, PullInv, TrackInv, KeptInv, Kept, FlushBlock, OnIt, InFlight, cardVars, indexVars
<1>3. GapInv'
  BY DEF ChunkInv, GapInv, FlushBlock, Kept, cardVars, indexVars
<1> QED BY <1>1, <1>2, <1>3 DEF ChunkInv

(* SyncFile: what was flushed is on the card.                              *)
LEMMA SyncFileKeeps == ASSUME ChunkInv, SyncFile PROVE ChunkInv'
<1>1. Types'
  BY DEF ChunkInv, Types, Windows, SyncFile, gapVars, indexVars
<1>2. FdInv' /\ SeqInv' /\ FileInv' /\ IndexInv' /\ PullInv' /\ TrackInv' /\ KeptInv'
  BY DEF ChunkInv, FdInv, SeqInv, FileInv, IndexInv, PullInv, TrackInv, KeptInv, Kept, SyncFile, OnIt, InFlight, indexVars
<1>3. GapInv'
  BY DEF ChunkInv, GapInv, SyncFile, Kept, gapVars
<1> QED BY <1>1, <1>2, <1>3 DEF ChunkInv

(* RotateFile: the open file is sealed and the next number is taken.       *)
LEMMA RotateFileKeeps == ASSUME ChunkInv, RotateFile PROVE ChunkInv'
<1>0. /\ wpc = "idle" /\ fd /\ fd' = FALSE /\ wpc' = "open" /\ seq' = seq + 1 /\ seq \in Seqs /\ OnIt(seq)
      /\ index[seq] \in {"open", "none"} /\ seq < MaxSeq
      /\ stated' = stated \cup inflight /\ inflight' = {} /\ flushed' = FALSE
      /\ UNCHANGED <<file, synced, serving, gate, queue, job, pull, archive, pending, owed, history>>
  BY DEF RotateFile, ChunkInv, SeqInv, cardVars
<1>1. /\ index' \in [Seqs -> States]
      /\ \A s \in Seqs : index'[s] = IF s = seq /\ index[s] = "open" THEN "sealed" ELSE index[s]
  <2>1. index' = [index EXCEPT ![seq] = IF @ = "open" THEN "sealed" ELSE @]
    BY DEF RotateFile
  <2> QED BY <1>0, <2>1 DEF ChunkInv, Types, States
<1>2. Types'
  <2>1. seq' \in Nat
    BY <1>0, CollectionAssumption DEF Seqs
  <2>2. Windows'
    BY <1>0 DEF ChunkInv, Types, Windows
  <2>3. wpc' \in WriterSteps
    BY <1>0 DEF WriterSteps
  <2> QED BY <1>0, <1>1, <2>1, <2>2, <2>3 DEF ChunkInv, Types
<1>3. FdInv' /\ FileInv' /\ PullInv' /\ KeptInv'
  BY <1>0, <1>1 DEF ChunkInv, FdInv, FileInv, PullInv, KeptInv, Kept, OnIt, InFlight, Down, Closing, Renaming
<1>4. SeqInv'
  <2>1. \A s \in Seqs : index'[s] = "open" => FALSE
    BY <1>0, <1>1 DEF ChunkInv, SeqInv
  <2>2. \A s \in Seqs : s > seq' \/ s = seq' => ~OnIt(s)' /\ index'[s] = "none"
    BY <1>0, <1>1 DEF ChunkInv, SeqInv, OnIt, Down, Seqs
  <2> QED BY <1>0, <2>1, <2>2 DEF SeqInv, Down, Closing
<1>5. IndexInv'
  <2>1. \A s \in Seqs : index'[s] = "sealed" => file[s].name = "log"
    BY <1>0, <1>1 DEF ChunkInv, SeqInv, IndexInv
  <2>2. \A s \in Seqs : index'[s] = "confirmed" => OnIt(s)
    BY <1>0, <1>1 DEF ChunkInv, IndexInv
  <2>3. \A s \in serving : index'[s] \in {"sealed", "confirmed"}
    BY <1>0, <1>1, Values DEF ChunkInv, Types, IndexInv
  <2> QED BY <1>0, <2>1, <2>2, <2>3 DEF IndexInv, OnIt, Closing, Renaming
<1>6. GapInv'
  BY <1>0 DEF ChunkInv, GapInv, Kept
<1>7. TrackInv'
  BY <1>0, <1>1 DEF ChunkInv, TrackInv, OnIt, Down, Closing
<1> QED BY <1>2, <1>3, <1>4, <1>5, <1>6, <1>7 DEF ChunkInv

(* A set of natural numbers has a least one.                               *)
LEMMA LeastNatural ==
  ASSUME NEW S \in SUBSET Nat, S # {} PROVE \E f \in S : \A g \in S : f <= g
<1> DEFINE Below(f) == {g \in S : g <= f}
           T == {Below(f) : f \in S}
           Order == StrictSubsetOrdering(S)
<1>1. ASSUME NEW f \in S PROVE Below(f) \in FiniteSubsetsOf(S)
  <2>0. \A g \in S : g \in Nat
    OBVIOUS
  <2>1. IsFiniteSet(0..f) /\ Below(f) \subseteq 0..f
    <3>1. IsFiniteSet(0..f)
      BY <2>0, FS_Interval
    <3>2. ASSUME NEW g \in S, g <= f PROVE g \in 0..f
      BY <2>0, <3>2
    <3> QED BY <3>1, <3>2
  <2> QED BY <2>1, FS_Subset DEF FiniteSubsetsOf
<1>2. T \subseteq FiniteSubsetsOf(S) /\ T # {}
  BY <1>1
<1> HIDE DEF Below
<1>3. PICK b \in T : \A a \in T : ~(<<a, b>> \in Order)
  <2> HIDE DEF T, Order
  <2>1. IsWellFoundedOn(Order, FiniteSubsetsOf(S))
    BY FS_StrictSubsetOrderingWellFounded DEF Order
  <2> QED BY <1>2, <2>1, WFMin
<1>4. PICK f \in S : b = Below(f)
  BY <1>3
<1>5. ASSUME NEW g \in S PROVE f <= g
  <2> SUFFICES ASSUME g < f PROVE FALSE
    BY <1>5
  <2>0. \A h \in S : h \in Nat
    OBVIOUS
  <2>1. Below(g) \subseteq Below(f) /\ f \in Below(f) /\ f \notin Below(g)
    <3>1. ASSUME NEW h \in S, h <= g PROVE h <= f
      BY <1>5, <2>0, <3>1
    <3>2. f <= f /\ ~(f <= g)
      BY <1>5, <2>0
    <3> QED BY <3>1, <3>2 DEF Below
  <2>2. Below(g) \in SUBSET S /\ Below(f) \in SUBSET S
    BY DEF Below
  <2>3. <<Below(g), Below(f)>> \in Order
    BY <2>1, <2>2 DEF StrictSubsetOrdering
  <2> QED BY <1>3, <1>4, <1>5, <2>3
<1> QED BY <1>5

(* Min is the least element.                                               *)
LEMMA MinIsIn ==
  ASSUME NEW S \in SUBSET Nat, S # {} PROVE Min(S) \in S /\ \A s \in S : Min(S) <= s
<1>1. PICK f \in S : \A g \in S : f <= g
  BY LeastNatural
<1> QED BY <1>1 DEF Min

(* Max is the greatest element of a set of sequence numbers.               *)
LEMMA MaxSeqIsIn ==
  ASSUME NEW S \in SUBSET Seqs, S # {} PROVE Max(S) \in S /\ \A s \in S : s <= Max(S)
<1> DEFINE U == {n \in Nat : \A s \in S : s <= n}
<1>0. MaxSeq \in Nat /\ Seqs = 0..MaxSeq
  BY CollectionAssumption DEF Seqs
<1>1. MaxSeq \in U
  BY <1>0
<1>2. PICK f \in U : \A g \in U : f <= g
  <2> HIDE DEF U
  <2>1. U \in SUBSET Nat
    BY DEF U
  <2> QED BY <1>1, <2>1, LeastNatural
<1>3. f \in S
  <2> SUFFICES ASSUME f \notin S PROVE FALSE
    OBVIOUS
  <2>1. \A s \in S : s \in Nat /\ s < f
    BY <1>0, <1>2
  <2>2. f \in Nat /\ f > 0
    BY <2>1, <1>2
  <2>3. f - 1 \in U
    BY <2>1, <2>2
  <2> QED BY <1>2, <2>2, <2>3
<1>4. f \in S /\ \A s \in S : f >= s
  BY <1>0, <1>2, <1>3
<1>5. \A s \in S : Max(S) >= s /\ Max(S) \in S
  BY <1>4 DEF Max
<1> QED BY <1>0, <1>5

(* Retention and a full index give up only chunks that are sealed or       *)
(* confirmed and not being served.                                         *)
LEMMA Victims ==
  ASSUME Types
  PROVE  /\ \A v \in NextVictim : v \in Seqs /\ v \notin serving /\ index[v] \in {"sealed", "confirmed"}
         /\ \A v \in IndexPressureVictim : v \in Seqs /\ v \notin serving /\ index[v] = "confirmed"
<1> DEFINE C == InState("confirmed") \ serving
           D == InState("sealed") \ serving
<1>1. C \in SUBSET Nat /\ D \in SUBSET Nat
  BY CollectionAssumption DEF InState, Seqs
<1>2. C # {} => Min(C) \in C
  <2> HIDE DEF C
  <2> QED BY <1>1, MinIsIn
<1>3. D # {} => Min(D) \in D
  <2> HIDE DEF D
  <2> QED BY <1>1, MinIsIn
<1>4. \A v \in C : v \in Seqs /\ v \notin serving /\ index[v] = "confirmed"
  BY DEF InState
<1>5. \A v \in D : v \in Seqs /\ v \notin serving /\ index[v] = "sealed"
  BY DEF InState
<1>6. /\ \A v \in NextVictim : (C # {} /\ v = Min(C)) \/ (D # {} /\ v = Min(D))
      /\ \A v \in IndexPressureVictim : C # {} /\ v = Min(C)
  BY DEF NextVictim, IndexPressureVictim
<1> HIDE DEF C, D
<1> QED BY <1>2, <1>3, <1>4, <1>5, <1>6

(* A step that leaves the windows of the gap record alone, or takes back   *)
(* what was not flushed, keeps the account of deleted chunks.              *)
LEMMA GapKeeps ==
  ASSUME ChunkInv, UNCHANGED gapVars \/ DropUnflushedGap, wpc # "discard", wpc' # "discard",
         archive' = archive, history'.deleted = history.deleted, history'.reborn = history.reborn,
         history'.cut = history.cut
  PROVE  GapInv' /\ Windows'
<1>1. CASE UNCHANGED gapVars
  BY <1>1 DEF ChunkInv, Types, GapInv, Windows, gapVars, Kept
<1>2. CASE DropUnflushedGap
  <2>1. /\ pending' = pending /\ stated' = stated /\ inflight' = {} /\ flushed' = FALSE
        /\ owed' = IF flushed THEN owed ELSE owed \cup inflight
    BY <1>2 DEF DropUnflushedGap
  <2>2. Windows'
    BY <2>1 DEF ChunkInv, Types, Windows
  <2>3. GapInv'
    BY <2>1 DEF ChunkInv, GapInv, Kept
  <2> QED BY <2>2, <2>3
<1> QED BY <1>1, <1>2

(* A victim is reserved under the lock before its file is touched.         *)
LEMMA Reserving ==
  ASSUME ChunkInv, NEW v \in Seqs, NEW then, Reserve(v, then), UNCHANGED gapVars \/ DropUnflushedGap,
         v \notin serving, index[v] \in {"sealed", "confirmed"},
         \/ wpc = "idle" /\ fd /\ then = "idle"
         \/ wpc = "open" /\ then = "create"
         \/ wpc = "add" /\ then = "add"
  PROVE  ChunkInv'
<1> DEFINE j == [seq |-> v, state |-> index[v], id |-> NoId, then |-> then, done |-> FALSE]
<1>1. /\ j \in Jobs
      /\ j.seq = v /\ j.state = index[v] /\ j.then = then /\ j.id = NoId
  BY DEF Jobs
<1>2. job' = j
  BY DEF Reserve
<1> HIDE DEF j
<1>3. /\ serving' = serving \cup {v} /\ wpc' = "unlink"
      /\ job' \in Jobs /\ job'.seq = v /\ job'.state = index[v] /\ job'.then = then
      /\ UNCHANGED <<file, synced, index, gate, queue, seq, fd, pull, archive, history>>
      /\ then \in {"idle", "create", "add"} /\ (fd <=> then # "create")
      /\ wpc \in {"idle", "open", "add"}
  BY <1>1, <1>2 DEF Reserve, cardVars, ChunkInv, FdInv
<1>4. GapInv' /\ Windows'
  BY <1>3, GapKeeps
<1>5. Types'
  BY <1>3, <1>4 DEF ChunkInv, Types, WriterSteps
<1>6. FdInv'
  BY <1>3 DEF FdInv, Down, Closing, Renaming
<1>7. SeqInv'
  BY <1>3 DEF ChunkInv, SeqInv, OnIt, Down, Closing
<1>8. FileInv' /\ KeptInv'
  BY <1>3 DEF ChunkInv, FileInv, KeptInv, Kept, OnIt, Renaming
<1>9. IndexInv'
  BY <1>3 DEF ChunkInv, IndexInv, OnIt, Closing, Renaming
<1>10. PullInv'
  BY <1>3 DEF ChunkInv, PullInv, InFlight, Down, Closing, Renaming
<1>11. TrackInv'
  BY <1>3 DEF ChunkInv, TrackInv, OnIt, Down, Closing
<1> QED BY <1>4, <1>5, <1>6, <1>7, <1>8, <1>9, <1>10, <1>11 DEF ChunkInv

(* OpenPressure: a full index gives up a confirmed chunk before the next   *)
(* file is created.                                                        *)
LEMMA OpenPressureKeeps == ASSUME ChunkInv, OpenPressure PROVE ChunkInv'
<1>1. wpc = "open" /\ DropUnflushedGap
  BY DEF OpenPressure
<1>2. CASE \E v \in IndexPressureVictim : Reserve(v, "create")
  BY <1>1, <1>2, Victims, Reserving DEF ChunkInv
<1>3. CASE wpc' = "create" /\ UNCHANGED <<cardVars, indexVars, queue, seq, fd, job, pull, archive, history>>
  <2>1. UNCHANGED <<file, synced, index, serving, gate, queue, seq, fd, job, pull, archive, history>>
    BY <1>3 DEF cardVars, indexVars
  <2>2. GapInv' /\ Windows'
    BY <1>1, <1>3, <2>1, GapKeeps
  <2>3. Types'
    BY <1>3, <2>1, <2>2 DEF ChunkInv, Types, WriterSteps
  <2>4. FdInv' /\ SeqInv' /\ FileInv' /\ IndexInv' /\ PullInv' /\ KeptInv' /\ TrackInv'
    BY <1>1, <1>3, <2>1 DEF ChunkInv, FdInv, SeqInv, FileInv, IndexInv, PullInv, TrackInv, KeptInv, Kept,
       OnIt, InFlight, Down, Closing, Renaming
  <2> QED BY <2>2, <2>3, <2>4 DEF ChunkInv
<1> QED BY <1>2, <1>3 DEF OpenPressure

(* RetentionPass: the oldest confirmed chunk, or the oldest sealed one, is *)
(* reserved.                                                               *)
LEMMA RetentionPassKeeps == ASSUME ChunkInv, RetentionPass PROVE ChunkInv'
<1>1. wpc = "idle" /\ fd /\ UNCHANGED gapVars
  BY DEF RetentionPass
<1>2. PICK v \in NextVictim : Reserve(v, "idle")
  BY DEF RetentionPass
<1> QED BY <1>1, <1>2, Victims, Reserving DEF ChunkInv

(* TrackOpen: the open file enters the index, or is refused by a full one. *)
LEMMA TrackOpenKeeps == ASSUME ChunkInv, TrackOpen PROVE ChunkInv'
<1>1. wpc = "add" /\ UNCHANGED gapVars
  BY DEF TrackOpen
<1>2. CASE \E v \in IndexPressureVictim : Reserve(v, "add")
  BY <1>1, <1>2, Victims, Reserving DEF ChunkInv
<1>3. CASE /\ index' = IF Full THEN index ELSE [index EXCEPT ![seq] = "open"]
           /\ history' = [history EXCEPT !.refused = @ \/ Full]
           /\ job' = NoJob /\ wpc' = "idle"
           /\ UNCHANGED <<cardVars, serving, gate, queue, seq, fd, pull, archive, gapVars>>
  <2>1. /\ UNCHANGED <<file, synced, serving, gate, queue, seq, fd, pull, archive>>
        /\ fd /\ seq \in Seqs /\ OnIt(seq) /\ index[seq] \in {"open", "none"} /\ file[seq].name = "log"
    BY <1>1, <1>3 DEF cardVars, ChunkInv, FdInv, SeqInv
  <2>2. index' \in [Seqs -> States] /\ \A s \in Seqs : index'[s] = IF s = seq /\ ~Full THEN "open" ELSE index[s]
    <3>1. CASE Full
      BY <1>3, <3>1 DEF ChunkInv, Types
    <3>2. CASE ~Full
      BY <1>3, <2>1, <3>2 DEF ChunkInv, Types, States
    <3> QED BY <3>1, <3>2
  <2>3. /\ history' \in Histories /\ history'.created = history.created /\ history'.deleted = history.deleted
        /\ history'.cut = history.cut /\ history'.reborn = history.reborn
        /\ (history'.refused <=> history.refused \/ Full)
    <3>1. history \in Histories
      BY DEF ChunkInv, Types
    <3> QED BY <1>3, <3>1 DEF Histories
  <2>4. job' \in Jobs
    <3>1. 0 \in Seqs
      BY CollectionAssumption DEF Seqs
    <3> QED BY <1>3, <3>1 DEF NoJob, Jobs
  <2>5. GapInv' /\ Windows'
    BY <1>1, <1>3, <2>1, <2>3, GapKeeps
  <2>6. Types'
    BY <1>3, <2>1, <2>2, <2>3, <2>4, <2>5 DEF ChunkInv, Types, WriterSteps
  <2>7. FdInv' /\ FileInv' /\ KeptInv'
    BY <1>1, <1>3, <2>1, <2>2, <2>3 DEF ChunkInv, FdInv, FileInv, KeptInv, Kept, OnIt, Down, Closing, Renaming
  <2>8. SeqInv'
    BY <1>1, <1>3, <2>1, <2>2 DEF ChunkInv, SeqInv, OnIt, Down, Closing
  <2>9. IndexInv'
    BY <1>1, <1>3, <2>1, <2>2 DEF ChunkInv, IndexInv, OnIt, Closing, Renaming
  <2>10. PullInv' /\ TrackInv'
    BY <1>1, <1>3, <2>1, <2>2, <2>3 DEF ChunkInv, PullInv, TrackInv, InFlight, OnIt, Down, Closing, Renaming
  <2> QED BY <2>5, <2>6, <2>7, <2>8, <2>9, <2>10 DEF ChunkInv
<1> QED BY <1>2, <1>3 DEF TrackOpen

(* CreateFile: a new file gets an identity no other file had.              *)
LEMMA CreateFileKeeps == ASSUME ChunkInv, CreateFile PROVE ChunkInv'
<1> DEFINE n == history.created + 1
           e == [name |-> "log", id |-> n]
<1>0. history \in Histories /\ history.created \in Nat /\ n \in Nat /\ n > history.created /\ n <= MaxFiles
  BY Values, CollectionAssumption DEF ChunkInv, Types, CreateFile
<1>1. /\ wpc = "create" /\ fd = FALSE /\ seq \in Seqs /\ wpc' = "add" /\ fd' = TRUE
      /\ synced' = FALSE /\ ~OnIt(seq) /\ index[seq] = "none" /\ seq \notin serving
      /\ UNCHANGED <<index, serving, gate, queue, seq, job, pull, archive, pending, owed, inflight, flushed, stated>>
  BY DEF CreateFile, indexVars, gapVars, ChunkInv, Types, FdInv, SeqInv, IndexInv, Down
<1>2. n \in Ids /\ e \in Entries /\ e.name = "log" /\ e.id = n
  BY <1>0 DEF Ids, Entries, Names
<1>3. /\ history' = [history EXCEPT !.created = n, !.reborn = IF ConfirmUnderWay(seq) THEN @ \cup {n} ELSE @]
      /\ file' = [file EXCEPT ![seq] = e]
  BY DEF CreateFile
<1>4. /\ history' \in Histories /\ history'.created = n /\ history'.deleted = history.deleted
      /\ history'.cut = history.cut /\ history'.refused = history.refused
      /\ history'.reborn = IF ConfirmUnderWay(seq) THEN history.reborn \cup {n} ELSE history.reborn
  <2> HIDE DEF n, e
  <2> QED BY <1>0, <1>3 DEF Histories
<1> HIDE DEF e
<1>5. /\ file' \in [Seqs -> Entries]
      /\ \A s \in Seqs : /\ file'[s].name = IF s = seq THEN "log" ELSE file[s].name
                         /\ file'[s].id = IF s = seq THEN n ELSE file[s].id
  <2> HIDE DEF n
  <2> QED BY <1>1, <1>2, <1>3 DEF ChunkInv, Types
<1> HIDE DEF n
<1>6. Types'
  BY <1>1, <1>4, <1>5 DEF ChunkInv, Types, Windows, WriterSteps
<1>7. FdInv' /\ SeqInv'
  <2>1. FdInv'
    BY <1>1 DEF FdInv, Down, Closing, Renaming
  <2>2. \A s \in Seqs : index[s] # "open"
    BY <1>1 DEF ChunkInv, SeqInv
  <2>3. \A s \in Seqs : s > seq => ~OnIt(s) /\ index[s] = "none"
    BY <1>1 DEF ChunkInv, SeqInv, Down
  <2>4. \A s \in Seqs : s > seq => s # seq
    BY CollectionAssumption DEF Seqs
  <2>5. SeqInv'
    BY <1>1, <1>5, <2>2, <2>3, <2>4 DEF SeqInv, OnIt, Down, Closing
  <2> QED BY <2>1, <2>5
<1>8. FileInv'
  <2>1. \A s \in Seqs : OnIt(s) => file[s].id \in 1..history.created \ history.deleted
    BY DEF ChunkInv, FileInv
  <2>2. n \notin history.deleted /\ history.deleted \subseteq 1..history.created
    BY <1>0 DEF ChunkInv, FileInv
  <2>3. 1..n = 1..history.created \cup {n} /\ n \in 0..MaxFiles
    BY <1>0 DEF n
  <2>4. \A s \in Seqs : file'[s].name = "none" => file'[s].id = NoId
    BY <1>1, <1>5 DEF ChunkInv, FileInv, OnIt
  <2>5. \A s \in Seqs : file'[s].name # "none" => file'[s].id \in 1..n \ history.deleted
    BY <1>1, <1>5, <2>1, <2>2, <2>3 DEF OnIt
  <2>6. \A s, t \in Seqs : file'[s].name # "none" /\ file'[t].name # "none" /\ file'[s].id = file'[t].id => s = t
    <3>1. \A s \in Seqs : OnIt(s) => file[s].id # n
      BY <1>0, <2>1
    <3> QED BY <1>1, <1>5, <3>1 DEF ChunkInv, FileInv, OnIt
  <2>7. history'.created \in 0..MaxFiles /\ history'.deleted \subseteq 1..history'.created
    BY <1>4, <2>2, <2>3
  <2>8. \A s \in Seqs : file'[s].name # "none" => file'[s].id \in 1..history'.created \ history'.deleted
    BY <1>4, <2>5
  <2> QED BY <2>4, <2>6, <2>7, <2>8 DEF FileInv, OnIt
<1>9. IndexInv'
  BY <1>1, <1>5 DEF ChunkInv, IndexInv, OnIt, Closing, Renaming
<1>10. PullInv'
  BY <1>1, <1>5, Values DEF ChunkInv, PullInv, InFlight, Down, Closing, Renaming
<1>11. KeptInv'
  BY <1>1, <1>4, <1>5, Values DEF ChunkInv, KeptInv, Kept, OnIt, Renaming, ConfirmUnderWay
<1>12. GapInv' /\ TrackInv'
  BY <1>1, <1>4, <1>5 DEF ChunkInv, GapInv, Kept, TrackInv, OnIt, Down, Closing
<1> QED BY <1>6, <1>7, <1>8, <1>9, <1>10, <1>11, <1>12 DEF ChunkInv

(* Unlink: the file of the victim goes.                                    *)
LEMMA UnlinkKeeps == ASSUME ChunkInv, Unlink PROVE ChunkInv'
<1> DEFINE q == job.seq
           x == file[q].id
<1>1. /\ wpc = "unlink" /\ q \in Seqs /\ q \in serving /\ job.state \in {"sealed", "confirmed"}
      /\ file[q].name \in {"log", "upl"} /\ (job.state = "sealed" => file[q].name = "log")
      /\ OnIt(q) /\ index[q] \in {"sealed", "confirmed"}
      /\ (job.state = "confirmed" => index[q] = "confirmed") /\ (fd <=> job.then # "create")
  BY Values DEF ChunkInv, IndexInv, FdInv, Closing, OnIt, Unlink, Names
<1>2. pull.fd = "live" => pull.id # x
  BY <1>1, Values DEF ChunkInv, PullInv, FileInv, InFlight, Closing, OnIt
<1>3. /\ file' = [file EXCEPT ![q] = NoFile] /\ synced' = (synced \/ fd)
      /\ history' = [history EXCEPT !.deleted = @ \cup {x}]
      /\ job' = [job EXCEPT !.id = x] /\ pull' = pull /\ wpc' = "discard"
      /\ UNCHANGED <<index, serving, gate, queue, seq, fd, archive, pending, owed, inflight, flushed, stated>>
  <2>1. \/ file[q].name = (IF job.state = "sealed" THEN "log" ELSE "upl")
        \/ (job.state = "confirmed" /\ file[q].name = "log")
    BY <1>1
  <2> QED BY <1>1, <1>2, <2>1 DEF Unlink, Disturbed, indexVars, gapVars
<1>4. /\ x \in Ids /\ x \in Nat /\ x \in 1..history.created /\ x \notin history.deleted
      /\ history.deleted \subseteq 1..history.created /\ 1..history.created \subseteq Nat
  <2>1. x \in 1..history.created /\ x \notin history.deleted /\ history.deleted \subseteq 1..history.created
    BY <1>1 DEF ChunkInv, FileInv
  <2>2. x \in Ids \cup {NoId} /\ history.created \in Nat
    BY <1>1, Values DEF ChunkInv
  <2>3. x # NoId
    BY <2>1 DEF NoId
  <2> HIDE DEF x
  <2> QED BY <2>1, <2>2, <2>3 DEF Ids
<1> HIDE DEF x
<1>5. /\ history' \in Histories /\ history'.created = history.created /\ history'.deleted = history.deleted \cup {x}
      /\ history'.cut = history.cut /\ history'.refused = history.refused /\ history'.reborn = history.reborn
  <2>1. history \in Histories
    BY DEF ChunkInv, Types
  <2> QED BY <1>3, <1>4, <2>1 DEF Histories
<1>6. /\ job' \in Jobs /\ job'.seq = q /\ job'.state = job.state /\ job'.then = job.then /\ job'.id = x
  <2>1. job \in Jobs
    BY DEF ChunkInv, Types
  <2> QED BY <1>3, <1>4, <2>1 DEF Jobs
<1>7. /\ file' \in [Seqs -> Entries]
      /\ \A s \in Seqs : /\ file'[s].name = IF s = q THEN "none" ELSE file[s].name
                         /\ file'[s].id = IF s = q THEN NoId ELSE file[s].id
  <2>1. NoFile \in Entries /\ NoFile.name = "none" /\ NoFile.id = NoId
    BY DEF NoFile, Entries, Names
  <2> QED BY <1>1, <1>3, <2>1 DEF ChunkInv, Types
<1>8. Types'
  BY <1>1, <1>3, <1>5, <1>6, <1>7 DEF ChunkInv, Types, Windows, WriterSteps
<1>9. fd => seq # q
  BY <1>1 DEF ChunkInv, SeqInv
<1>10. FdInv' /\ SeqInv'
  BY <1>1, <1>3, <1>6, <1>7, <1>9 DEF ChunkInv, FdInv, SeqInv, OnIt, Down, Closing, Renaming
<1>11. FileInv'
  <2>1. \A s \in Seqs : OnIt(s)' => OnIt(s) /\ s # q /\ file'[s].id = file[s].id
    BY <1>7 DEF OnIt
  <2>2. \A s \in Seqs : OnIt(s)' => file[s].id # x
    BY <1>1, <2>1 DEF ChunkInv, FileInv, x
  <2>3. \A s \in Seqs : ~OnIt(s)' => file'[s].id = NoId
    BY <1>7 DEF ChunkInv, FileInv, OnIt
  <2>4. \A s \in Seqs : OnIt(s)' => file'[s].id \in 1..history.created \ history'.deleted
    BY <1>5, <2>1, <2>2 DEF ChunkInv, FileInv
  <2>5. \A s, t \in Seqs : OnIt(s)' /\ OnIt(t)' /\ file'[s].id = file'[t].id => s = t
    BY <2>1 DEF ChunkInv, FileInv
  <2>6. history'.created \in 0..MaxFiles /\ history'.deleted \subseteq 1..history'.created
    BY <1>4, <1>5 DEF ChunkInv, FileInv
  <2> QED BY <1>5, <2>3, <2>4, <2>5, <2>6 DEF FileInv, OnIt
<1>12. IndexInv'
  BY <1>1, <1>3, <1>6, <1>7 DEF ChunkInv, IndexInv, OnIt, Closing, Renaming
<1>13. PullInv'
  BY <1>1, <1>3, <1>6, <1>7, Values DEF ChunkInv, PullInv, InFlight, Down, Closing, Renaming
<1>14. KeptInv'
  BY <1>1, <1>3, <1>5, <1>6, <1>7, Values DEF ChunkInv, KeptInv, Kept, OnIt, Renaming, x
<1>15. GapInv'
  BY <1>1, <1>3, <1>4, <1>5, <1>6 DEF ChunkInv, GapInv, Kept
<1>16. TrackInv'
  BY <1>1, <1>3, <1>5, <1>6, <1>7 DEF ChunkInv, TrackInv, OnIt, Down, Closing
<1> QED BY <1>8, <1>10, <1>11, <1>12, <1>13, <1>14, <1>15, <1>16 DEF ChunkInv

(* UnlinkFails: the victim stays and is let go.                            *)
LEMMA UnlinkFailsKeeps == ASSUME ChunkInv, UnlinkFails PROVE ChunkInv'
<1>1. /\ wpc = "unlink" /\ job.seq \in serving /\ wpc' = job.then /\ serving' = serving \ {job.seq}
      /\ job.then \in {"idle", "create", "add"} /\ (fd <=> job.then # "create")
      /\ UNCHANGED <<file, synced, index, gate, queue, seq, fd, job, pull, archive>> /\ UNCHANGED gapVars
  BY Values DEF UnlinkFails, cardVars, ChunkInv, IndexInv, FdInv, Closing
<1>2. /\ history' \in Histories /\ history'.created = history.created /\ history'.deleted = history.deleted
      /\ history'.cut = history.cut /\ history'.refused = history.refused /\ history'.reborn = history.reborn
  <2>1. history \in Histories
    BY DEF ChunkInv, Types
  <2> QED BY <2>1 DEF UnlinkFails, Histories
<1>3. GapInv' /\ Windows'
  BY <1>1, <1>2, GapKeeps
<1>4. Types'
  BY <1>1, <1>2, <1>3 DEF ChunkInv, Types, WriterSteps
<1>5. FdInv' /\ SeqInv' /\ FileInv'
  BY <1>1, <1>2 DEF ChunkInv, FdInv, SeqInv, FileInv, OnIt, InFlight, Down, Closing, Renaming
<1>6. IndexInv' /\ PullInv' /\ KeptInv' /\ TrackInv'
  BY <1>1, <1>2 DEF ChunkInv, IndexInv, PullInv, TrackInv, KeptInv, Kept, OnIt, InFlight, Down, Closing, Renaming
<1> QED BY <1>3, <1>4, <1>5, <1>6 DEF ChunkInv

(* Discard: the entry goes, and a chunk nobody collected is owed a gap     *)
(* line.                                                                   *)
LEMMA DiscardKeeps == ASSUME ChunkInv, Discard PROVE ChunkInv'
<1> DEFINE q == job.seq
<1>1. /\ wpc = "discard" /\ q \in Seqs /\ q \in serving /\ index[q] \in {"sealed", "confirmed"}
      /\ wpc' = job.then /\ serving' = serving \ {q} /\ ~OnIt(q)
      /\ job.then \in {"idle", "create", "add"} /\ (fd <=> job.then # "create")
      /\ UNCHANGED <<file, synced, gate, queue, seq, fd, job, pull, archive, owed, inflight, flushed, stated, history>>
  BY Values DEF Discard, cardVars, ChunkInv, IndexInv, FdInv, Closing
<1>2. index' \in [Seqs -> States] /\ \A s \in Seqs : index'[s] = IF s = q THEN "none" ELSE index[s]
  <2>1. index' = [index EXCEPT ![q] = IF @ = "open" THEN @ ELSE "none"]
    BY DEF Discard
  <2> QED BY <1>1, <2>1 DEF ChunkInv, Types, States
<1>3. job.id \in Ids /\ job.id # NoId /\ job.id \in history.deleted
      /\ job.id \notin pending \cup owed \cup inflight \cup stated
  <2>1. job.id \in history.deleted \ (pending \cup owed \cup inflight \cup stated)
    BY <1>1 DEF ChunkInv, GapInv
  <2>2. job.id # NoId
    BY <2>1, Values DEF ChunkInv, FileInv, NoId
  <2> QED BY <2>1, <2>2, Values DEF ChunkInv
<1>4. pending' = IF index[q] = "sealed" THEN pending \cup {job.id} ELSE pending
  BY <1>3 DEF Discard
<1>5. Types'
  BY <1>1, <1>2, <1>3, <1>4 DEF ChunkInv, Types, Windows, WriterSteps
<1>6. FdInv' /\ SeqInv' /\ FileInv'
  BY <1>1, <1>2 DEF ChunkInv, FdInv, SeqInv, FileInv, OnIt, InFlight, Down, Closing, Renaming
<1>7. IndexInv'
  <2>1. \A s \in Seqs : index'[s] = "sealed" => file[s].name = "log"
    BY <1>1, <1>2 DEF ChunkInv, IndexInv
  <2>2. \A s \in Seqs : index'[s] = "confirmed" => OnIt(s)
    BY <1>1, <1>2 DEF ChunkInv, IndexInv
  <2>3. \A s \in serving' : index'[s] \in {"sealed", "confirmed"}
    BY <1>1, <1>2 DEF ChunkInv, Types, IndexInv
  <2> QED BY <1>1, <2>1, <2>2, <2>3 DEF IndexInv, OnIt, Closing, Renaming
<1>8. PullInv' /\ KeptInv' /\ TrackInv'
  BY <1>1, <1>2, Values DEF ChunkInv, PullInv, TrackInv, KeptInv, Kept, OnIt, InFlight, Down, Closing, Renaming
<1>9. GapInv'
  <2>1. index[q] = "confirmed" => job.id \in Kept
    BY <1>1 DEF ChunkInv, KeptInv
  <2> QED BY <1>1, <1>3, <1>4, <2>1 DEF ChunkInv, GapInv, Kept
<1> QED BY <1>5, <1>6, <1>7, <1>8, <1>9 DEF ChunkInv

(* DrainConfirms: an intent is taken from the queue and its chunk is       *)
(* reserved, or it is dropped.                                             *)
LEMMA DrainConfirmsKeeps == ASSUME ChunkInv, DrainConfirms PROVE ChunkInv'
<1> DEFINE s == Head(queue)
<1>1. /\ wpc = "idle" /\ fd /\ s \in Seqs /\ s \notin serving /\ queue' = Tail(queue) /\ queue \in Seq(Seqs)
      /\ queue # <<>> /\ UNCHANGED <<file, synced, index, gate, seq, fd, pull, archive, history>>
      /\ UNCHANGED gapVars
  BY DEF DrainConfirms, cardVars, ChunkInv, Types
<1>2. /\ queue' \in Seq(Seqs) /\ Len(queue') <= QueueDepth /\ s = queue[1] /\ 1 \in DOMAIN queue
      /\ \A i \in DOMAIN queue' : i + 1 \in DOMAIN queue /\ queue'[i] = queue[i + 1]
  BY <1>1, CollectionAssumption DEF ChunkInv, Types
<1>3. OnIt(s) => file[s].id \in Kept
  BY <1>2 DEF ChunkInv, KeptInv
<1>4. CASE index[s] = "open"
  <2>1. UNCHANGED <<serving, job, wpc>>
    BY <1>4 DEF DrainConfirms
  <2>2. GapInv' /\ Windows'
    BY <1>1, <2>1, GapKeeps
  <2>3. Types'
    BY <1>1, <1>2, <2>1, <2>2 DEF ChunkInv, Types
  <2>4. FdInv' /\ SeqInv' /\ FileInv' /\ IndexInv' /\ PullInv' /\ TrackInv'
    BY <1>1, <2>1 DEF ChunkInv, FdInv, SeqInv, FileInv, IndexInv, PullInv, TrackInv, OnIt, InFlight
  <2>5. KeptInv'
    BY <1>1, <1>2, <2>1 DEF ChunkInv, KeptInv, Kept, OnIt
  <2> QED BY <2>2, <2>3, <2>4, <2>5 DEF ChunkInv
<1>5. CASE index[s] # "open"
  <2>1. /\ serving' = IF index[s] # "none" THEN serving \cup {s} ELSE serving
        /\ job' = [NoJob EXCEPT !.seq = s] /\ wpc' = "rename"
    BY <1>5 DEF DrainConfirms
  <2>2. job' \in Jobs /\ job'.seq = s /\ job'.done = FALSE
    <3> HIDE DEF s
    <3> QED BY <1>1, <2>1 DEF NoJob, Jobs
  <2>3. GapInv' /\ Windows'
    BY <1>1, <2>1, GapKeeps
  <2>4. Types'
    BY <1>1, <1>2, <2>1, <2>2, <2>3 DEF ChunkInv, Types, WriterSteps
  <2>5. index[s] \in {"none", "sealed", "confirmed"}
    BY <1>1, <1>5, Values DEF ChunkInv, States
  <2> HIDE DEF s
  <2>6. FdInv' /\ SeqInv' /\ FileInv'
    BY <1>1, <2>1, <2>2 DEF ChunkInv, FdInv, SeqInv, FileInv, OnIt, InFlight, Down, Closing, Renaming
  <2>7. IndexInv'
    BY <1>1, <2>1, <2>2, <2>5 DEF ChunkInv, IndexInv, OnIt, Closing, Renaming
  <2>8. PullInv' /\ TrackInv'
    BY <1>1, <2>1, <2>2 DEF ChunkInv, PullInv, TrackInv, OnIt, InFlight, Down, Closing, Renaming
  <2>9. KeptInv'
    BY <1>1, <1>2, <1>3, <2>1, <2>2 DEF ChunkInv, KeptInv, Kept, OnIt, Renaming
  <2> QED BY <2>3, <2>4, <2>6, <2>7, <2>8, <2>9 DEF ChunkInv
<1> QED BY <1>4, <1>5

(* Rename: the card says what the index says.                              *)
LEMMA RenameKeeps == ASSUME ChunkInv, Rename PROVE ChunkInv'
<1> DEFINE q == job.seq
<1>1. /\ wpc = "rename" /\ wpc' = "renamed" /\ q \in Seqs /\ fd /\ index[q] # "open"
      /\ UNCHANGED <<index, serving, gate, queue, seq, fd, archive, history>> /\ UNCHANGED gapVars
  BY Values DEF Rename, indexVars, ChunkInv, IndexInv, FdInv, Renaming
<1>2. /\ job' \in Jobs /\ job'.seq = q /\ job'.state = job.state /\ job'.then = job.then /\ job'.id = job.id
      /\ job'.done = TRUE
  <2>1. job \in Jobs /\ job' = [job EXCEPT !.done = TRUE]
    BY DEF ChunkInv, Types, Rename
  <2> QED BY <2>1 DEF Jobs
<1>3. file[q].name = "log" => Disturbed(q) = pull
  BY <1>1, Values DEF ChunkInv, PullInv, FileInv, Disturbed, InFlight, Renaming, OnIt
<1>4. pull' = pull /\ synced' \in BOOLEAN
  BY <1>3 DEF Rename, ChunkInv, Types
<1>5. /\ file' \in [Seqs -> Entries]
      /\ \A s \in Seqs : /\ file'[s].name = IF s = q /\ file[s].name = "log" THEN "upl" ELSE file[s].name
                         /\ file'[s].id = file[s].id
  <2>1. CASE file[q].name = "log"
    <3>1. file' = [file EXCEPT ![q].name = "upl"]
      BY <2>1 DEF Rename
    <3> QED BY <1>1, <2>1, <3>1 DEF ChunkInv, Types, Entries, Names
  <2>2. CASE file[q].name # "log"
    BY <2>2 DEF Rename, ChunkInv, Types
  <2> QED BY <2>1, <2>2
<1>6. GapInv' /\ Windows'
  BY <1>1, GapKeeps
<1>7. Types'
  BY <1>1, <1>2, <1>4, <1>5, <1>6 DEF ChunkInv, Types, WriterSteps
<1>8. \A s \in Seqs : OnIt(s)' <=> OnIt(s)
  BY <1>5 DEF OnIt
<1>9. FdInv' /\ SeqInv' /\ FileInv'
  <2>1. FdInv'
    BY <1>1 DEF FdInv, Down, Closing, Renaming
  <2>2. SeqInv'
    BY <1>1, <1>5 DEF ChunkInv, SeqInv, OnIt, Down, Closing
  <2>3. FileInv'
    BY <1>1, <1>5 DEF ChunkInv, FileInv, OnIt
  <2> QED BY <2>1, <2>2, <2>3
<1>10. IndexInv'
  BY <1>1, <1>2, <1>5 DEF ChunkInv, IndexInv, OnIt, Closing, Renaming
<1>11. PullInv'
  BY <1>1, <1>2, <1>4, <1>5, Values DEF ChunkInv, PullInv, InFlight, Down, Closing, Renaming
<1>12. KeptInv'
  BY <1>1, <1>2, <1>4, <1>5, Values DEF ChunkInv, KeptInv, Kept, OnIt, Renaming
<1>13. TrackInv'
  BY <1>1, <1>5 DEF ChunkInv, TrackInv, OnIt, Down, Closing
<1> QED BY <1>6, <1>7, <1>9, <1>10, <1>11, <1>12, <1>13 DEF ChunkInv

(* RenameFails: the file keeps its name.                                   *)
LEMMA RenameFailsKeeps == ASSUME ChunkInv, RenameFails PROVE ChunkInv'
<1>1. /\ wpc = "rename" /\ wpc' = "renamed" /\ ~job.done /\ fd
      /\ (index[job.seq] = "sealed" => file[job.seq].name = "log")
      /\ UNCHANGED <<file, synced, index, serving, gate, queue, seq, fd, job, pull, archive>> /\ UNCHANGED gapVars
  BY Values DEF RenameFails, indexVars, cardVars, ChunkInv, IndexInv, FdInv, Renaming
<1>2. /\ history' \in Histories /\ history'.created = history.created /\ history'.deleted = history.deleted
      /\ history'.cut = history.cut /\ history'.refused = history.refused /\ history'.reborn = history.reborn
  <2>1. history \in Histories
    BY DEF ChunkInv, Types
  <2> QED BY <2>1 DEF RenameFails, Histories
<1>3. GapInv' /\ Windows'
  BY <1>1, <1>2, GapKeeps
<1>4. Types'
  BY <1>1, <1>2, <1>3 DEF ChunkInv, Types, WriterSteps
<1>5. FdInv' /\ SeqInv' /\ FileInv'
  BY <1>1, <1>2 DEF ChunkInv, FdInv, SeqInv, FileInv, OnIt, InFlight, Down, Closing, Renaming
<1>6. IndexInv' /\ PullInv' /\ KeptInv' /\ TrackInv'
  BY <1>1, <1>2 DEF ChunkInv, IndexInv, PullInv, TrackInv, KeptInv, Kept, OnIt, InFlight, Down, Closing, Renaming
<1> QED BY <1>3, <1>4, <1>5, <1>6 DEF ChunkInv

(* Renamed: what the index says after the rename.                          *)
LEMMA RenamedKeeps == ASSUME ChunkInv, Renamed PROVE ChunkInv'
<1> DEFINE q == job.seq
<1>1. /\ wpc = "renamed" /\ wpc' = "idle" /\ q \in Seqs /\ fd /\ index[q] # "open" /\ serving' = serving \ {q}
      /\ job' = NoJob
      /\ UNCHANGED <<file, synced, gate, queue, seq, fd, pull, archive, history>> /\ UNCHANGED gapVars
  BY Values DEF Renamed, cardVars, ChunkInv, IndexInv, FdInv, Renaming
<1>2. /\ index' \in [Seqs -> States]
      /\ \A s \in Seqs : index'[s] = IF s = q /\ job.done /\ index[s] = "sealed" THEN "confirmed" ELSE index[s]
  <2>1. index' = [index EXCEPT ![q] = IF job.done /\ @ = "sealed" THEN "confirmed" ELSE @]
    BY DEF Renamed
  <2> QED BY <1>1, <2>1 DEF ChunkInv, Types, States
<1>3. job' \in Jobs
  <2>1. 0 \in Seqs
    BY CollectionAssumption DEF Seqs
  <2> QED BY <1>1, <2>1 DEF NoJob, Jobs
<1>4. GapInv' /\ Windows'
  BY <1>1, GapKeeps
<1>5. Types'
  BY <1>1, <1>2, <1>3, <1>4 DEF ChunkInv, Types, WriterSteps
<1>6. FdInv' /\ FileInv'
  BY <1>1 DEF ChunkInv, FdInv, FileInv, OnIt, Down, Closing, Renaming
<1>7. SeqInv'
  BY <1>1, <1>2 DEF ChunkInv, SeqInv, OnIt, Down, Closing
<1>8. IndexInv'
  <2>1. \A s \in Seqs : index'[s] = "sealed" => file[s].name = "log"
    BY <1>1, <1>2 DEF ChunkInv, IndexInv
  <2>2. \A s \in Seqs : index'[s] = "confirmed" => OnIt(s)
    BY <1>1, <1>2 DEF ChunkInv, IndexInv, OnIt
  <2>3. \A s \in serving' : index'[s] \in {"sealed", "confirmed"}
    BY <1>1, <1>2 DEF ChunkInv, Types, IndexInv
  <2> QED BY <1>1, <2>1, <2>2, <2>3 DEF IndexInv, OnIt, Closing, Renaming
<1>9. PullInv'
  BY <1>1, <1>2, Values DEF ChunkInv, PullInv, InFlight, Down, Closing, Renaming
<1>10. KeptInv'
  BY <1>1, <1>2, Values DEF ChunkInv, KeptInv, Kept, OnIt, Renaming
<1>11. TrackInv'
  BY <1>1, <1>2 DEF ChunkInv, TrackInv, OnIt, Down, Closing
<1> QED BY <1>4, <1>5, <1>6, <1>7, <1>8, <1>9, <1>10, <1>11 DEF ChunkInv

(* A failure of the card takes at most the file that is open and was never *)
(* synced.                                                                 *)
LEMMA CardLoses ==
  ASSUME ChunkInv, CardAfterFailure, history'.created = history.created, history'.deleted = history.deleted
  PROVE  /\ file' \in [Seqs -> Entries]
         /\ \A s \in Seqs : \/ file'[s] = file[s]
                            \/ fd /\ s = seq /\ file'[s].name = "none" /\ file'[s].id = NoId
         /\ FileInv'
<1>1. /\ file' \in [Seqs -> Entries]
      /\ \A s \in Seqs : \/ file'[s] = file[s]
                         \/ fd /\ s = seq /\ file'[s].name = "none" /\ file'[s].id = NoId
  <2>1. CASE UNCHANGED file
    BY <2>1 DEF ChunkInv, Types
  <2>2. CASE fd /\ file' = [file EXCEPT ![seq] = NoFile]
    <3>1. NoFile \in Entries /\ NoFile.name = "none" /\ NoFile.id = NoId
      BY DEF NoFile, Entries, Names
    <3> QED BY <2>2, <3>1 DEF ChunkInv, Types
  <2> QED BY <2>1, <2>2 DEF CardAfterFailure
<1>2. FileInv'
  BY <1>1 DEF ChunkInv, FileInv, OnIt
<1> QED BY <1>1, <1>2

(* EnterFailed: the card failed; the index is cleared and the unflushed    *)
(* gap lines are owed again.                                               *)
LEMMA EnterFailedKeeps == ASSUME ChunkInv, EnterFailed PROVE ChunkInv'
<1>1. /\ wpc \in {"idle", "create"} /\ wpc' = "failed" /\ CardAfterFailure /\ fd' = FALSE /\ synced' = FALSE
      /\ index' = [s \in Seqs |-> "none"] /\ serving' = {} /\ DropUnflushedGap /\ job' = NoJob
      /\ UNCHANGED <<gate, queue, seq, pull, archive>>
  BY DEF EnterFailed
<1>2. /\ history' \in Histories /\ history'.created = history.created /\ history'.deleted = history.deleted
      /\ history'.cut = history.cut /\ history'.refused = history.refused /\ history'.reborn = history.reborn
  <2>1. history \in Histories
    BY DEF ChunkInv, Types
  <2> QED BY <2>1 DEF EnterFailed, Histories
<1>3. /\ file' \in [Seqs -> Entries] /\ FileInv'
      /\ \A s \in Seqs : \/ file'[s] = file[s]
                         \/ fd /\ s = seq /\ file'[s].name = "none" /\ file'[s].id = NoId
  BY <1>1, <1>2, CardLoses
<1>4. index' \in [Seqs -> States] /\ \A s \in Seqs : index'[s] = "none"
  BY <1>1 DEF States
<1>5. job' \in Jobs
  <2>1. 0 \in Seqs
    BY CollectionAssumption DEF Seqs
  <2> QED BY <1>1, <2>1 DEF NoJob, Jobs
<1>6. GapInv' /\ Windows'
  BY <1>1, <1>2, GapKeeps
<1>7. Types'
  BY <1>1, <1>2, <1>3, <1>4, <1>5, <1>6 DEF ChunkInv, Types, WriterSteps
<1>8. FdInv' /\ SeqInv'
  BY <1>1, <1>4 DEF FdInv, SeqInv, Down, Closing, Renaming
<1>9. IndexInv' /\ TrackInv'
  BY <1>1, <1>4 DEF IndexInv, TrackInv, Down, Closing, Renaming
<1>10. PullInv'
  <2>1. InFlight => pull.seq # seq \/ ~fd
    BY <1>1 DEF ChunkInv, PullInv, IndexInv, SeqInv, Down
  <2>2. pull.pc = "reading" => file'[pull.seq] = file[pull.seq]
    BY <1>3, <2>1, Values DEF ChunkInv, InFlight
  <2> QED BY <1>1, <2>2 DEF ChunkInv, PullInv, InFlight, Down, Closing, Renaming
<1>11. KeptInv'
  <2>1. \A s \in Seqs : file'[s].name # "none" => file'[s] = file[s]
    BY <1>3
  <2> QED BY <1>1, <1>2, <1>4, <2>1, Values DEF ChunkInv, KeptInv, Kept, OnIt, Renaming
<1> QED BY <1>3, <1>6, <1>7, <1>8, <1>9, <1>10, <1>11 DEF ChunkInv

(* PowerCut: RAM is gone, and with it the gap lines that were not on the   *)
(* card.                                                                   *)
LEMMA PowerCutKeeps == ASSUME ChunkInv, PowerCut PROVE ChunkInv'
<1> DEFINE lost == ((pending \cup owed \cup inflight) \ stated)
                     \cup (IF wpc = "discard" /\ job.state = "sealed" THEN {job.id} \ {NoId} ELSE {})
<1>1. /\ wpc' = "mount" /\ CardAfterFailure /\ fd' = FALSE /\ synced' = FALSE
      /\ index' = [s \in Seqs |-> "none"] /\ serving' = {} /\ gate' = FALSE /\ job' = NoJob
      /\ queue' = <<>> /\ pull' = IF pull.pc = "confirm" THEN pull ELSE Idle
      /\ pending' = {} /\ owed' = {} /\ inflight' = {} /\ flushed' = FALSE
      /\ UNCHANGED <<seq, archive, stated>>
  BY DEF PowerCut
<1>2. lost \subseteq Nat
  <2>1. Ids \subseteq Nat
    BY CollectionAssumption DEF Ids
  <2>2. pending \subseteq Nat /\ owed \subseteq Nat /\ inflight \subseteq Nat
    BY <2>1 DEF ChunkInv, Types, Windows
  <2>3. {job.id} \ {NoId} \subseteq Nat
    BY <2>1, Values DEF ChunkInv
  <2> QED BY <2>2, <2>3
<1>3. history' = [history EXCEPT !.faults = @ + 1, !.cut = @ \cup lost]
  <2>1. history' = [history EXCEPT !.faults = @ + 1,
                   !.cut = @ \cup ((pending \cup owed \cup inflight) \ stated)
                             \cup (IF wpc = "discard" /\ job.state = "sealed"
                                     THEN {job.id} \ {NoId} ELSE {})]
    BY DEF PowerCut
  <2>2. history.cut \cup lost = history.cut \cup ((pending \cup owed \cup inflight) \ stated)
                             \cup (IF wpc = "discard" /\ job.state = "sealed"
                                     THEN {job.id} \ {NoId} ELSE {})
    OBVIOUS
  <2> QED BY <2>1, <2>2
<1>4. /\ history' \in Histories /\ history'.created = history.created /\ history'.deleted = history.deleted
      /\ history'.cut = history.cut \cup lost /\ history'.refused = history.refused
      /\ history'.reborn = history.reborn
  <2>1. history \in Histories
    BY DEF ChunkInv, Types
  <2> DEFINE c == history.cut \cup lost
             f == history.faults + 1
  <2>2. history' = [history EXCEPT !.faults = f, !.cut = c]
    BY <1>3
  <2> HIDE DEF lost
  <2>3. c \in SUBSET Nat /\ f \in Nat
    <3>1. history.cut \in SUBSET Nat /\ history.faults \in Nat
      BY <2>1 DEF Histories
    <3>2. f \in Nat
      BY <3>1
    <3>3. c \subseteq Nat
      BY <1>2, <3>1
    <3> QED BY <3>2, <3>3
  <2>4. c = history.cut \cup lost
    OBVIOUS
  <2> HIDE DEF c, f
  <2> QED BY <2>1, <2>2, <2>3, <2>4 DEF Histories
<1>5. /\ file' \in [Seqs -> Entries] /\ FileInv'
      /\ \A s \in Seqs : \/ file'[s] = file[s]
                         \/ fd /\ s = seq /\ file'[s].name = "none" /\ file'[s].id = NoId
  BY <1>1, <1>4, CardLoses
<1>6. index' \in [Seqs -> States] /\ \A s \in Seqs : index'[s] = "none"
  BY <1>1 DEF States
<1>7. job' \in Jobs /\ Idle \in Pulls /\ Idle.pc = "idle" /\ Idle.fd = "none"
  <2>1. 0 \in Seqs
    BY CollectionAssumption DEF Seqs
  <2> QED BY <1>1, <2>1 DEF NoJob, Jobs, Idle, Pulls
<1>8. pull' \in Pulls /\ pull'.fd = "none" /\ pull'.pc \in {"idle", "confirm"}
      /\ (pull'.pc = "confirm" => pull.pc = "confirm" /\ pull'.seq = pull.seq)
  BY <1>1, <1>7 DEF ChunkInv, Types, PullInv
<1>9. Types'
  <2>1. Windows'
    BY <1>1 DEF ChunkInv, Types, Windows
  <2>2. queue' \in Seq(Seqs) /\ Len(queue') <= QueueDepth
    BY <1>1, CollectionAssumption
  <2> QED BY <1>1, <1>4, <1>5, <1>6, <1>7, <1>8, <2>1, <2>2 DEF ChunkInv, Types, WriterSteps
<1>10. FdInv' /\ SeqInv'
  BY <1>1, <1>6, <1>8 DEF FdInv, SeqInv, InFlight, Down, Closing, Renaming
<1>11. IndexInv' /\ TrackInv' /\ PullInv'
  BY <1>1, <1>6, <1>8 DEF IndexInv, TrackInv, PullInv, InFlight, Down, Closing, Renaming
<1>12. KeptInv'
  <2>1. \A s \in Seqs : file'[s].name # "none" => file'[s] = file[s]
    BY <1>5
  <2> QED BY <1>1, <1>4, <1>6, <1>8, <2>1, Values DEF ChunkInv, KeptInv, Kept, OnIt, Renaming
<1>13. GapInv'
  <2>1. wpc = "discard" => job.id \in Kept \/ job.id \in lost
    <3> SUFFICES ASSUME wpc = "discard" PROVE job.id \in Kept \/ job.id \in lost
      OBVIOUS
    <3>1. job.state \in {"sealed", "confirmed"} /\ (job.state = "confirmed" => index[job.seq] = "confirmed")
      BY Values DEF ChunkInv, IndexInv, Closing
    <3>2. job.id \in history.deleted
      BY DEF ChunkInv, GapInv
    <3>3. job.id # NoId
      BY <3>2, Values DEF ChunkInv, FileInv, NoId
    <3> QED BY <3>1, <3>3 DEF ChunkInv, KeptInv
  <2>2. \A id \in history.deleted : id \in Kept \/ id \in stated \cup history'.cut
    <3>1. (pending \cup owed \cup inflight) \ stated \subseteq lost
      OBVIOUS
    <3> HIDE DEF lost
    <3> QED BY <1>4, <2>1, <3>1 DEF ChunkInv, GapInv
  <2>3. stated \subseteq history.deleted
    BY DEF ChunkInv, GapInv
  <2> HIDE DEF lost
  <2> QED BY <1>1, <1>4, <2>2, <2>3 DEF GapInv, Kept
<1> QED BY <1>5, <1>9, <1>10, <1>11, <1>12, <1>13 DEF ChunkInv

(* CloseGate: no transfer starts any more.                                 *)
LEMMA CloseGateKeeps == ASSUME ChunkInv, CloseGate PROVE ChunkInv'
<1>1. /\ wpc = "failed" /\ wpc' = "drain" /\ gate' = FALSE /\ UNCHANGED gapVars
      /\ UNCHANGED <<file, synced, index, serving, queue, seq, fd, job, pull, archive, history>>
  BY DEF CloseGate, cardVars
<1>2. GapInv' /\ Windows'
  BY <1>1, GapKeeps
<1>3. Types'
  BY <1>1, <1>2 DEF ChunkInv, Types, WriterSteps
<1>4. FdInv' /\ SeqInv' /\ FileInv' /\ IndexInv'
  BY <1>1 DEF ChunkInv, FdInv, SeqInv, FileInv, IndexInv, OnIt, InFlight, Down, Closing, Renaming
<1>5. PullInv' /\ KeptInv' /\ TrackInv'
  BY <1>1 DEF ChunkInv, PullInv, TrackInv, KeptInv, Kept, OnIt, InFlight, Down, Closing, Renaming
<1> QED BY <1>2, <1>3, <1>4, <1>5 DEF ChunkInv

(* Unmount: the card is torn down once no transfer is under way.           *)
LEMMA UnmountKeeps == ASSUME ChunkInv, Unmount, ~DrainTimesOut PROVE ChunkInv'
<1>1. /\ wpc = "drain" /\ wpc' = "mount" /\ ~InFlight /\ UNCHANGED gapVars
      /\ UNCHANGED <<file, synced, index, serving, gate, queue, seq, fd, job, pull, archive, history>>
  BY DEF Unmount, cardVars, indexVars
<1>2. GapInv' /\ Windows'
  BY <1>1, GapKeeps
<1>3. Types'
  BY <1>1, <1>2 DEF ChunkInv, Types, WriterSteps
<1>4. FdInv' /\ SeqInv' /\ FileInv' /\ IndexInv'
  BY <1>1 DEF ChunkInv, FdInv, SeqInv, FileInv, IndexInv, OnIt, InFlight, Down, Closing, Renaming
<1>5. PullInv' /\ KeptInv' /\ TrackInv'
  BY <1>1 DEF ChunkInv, PullInv, TrackInv, KeptInv, Kept, OnIt, InFlight, Down, Closing, Renaming
<1> QED BY <1>2, <1>3, <1>4, <1>5 DEF ChunkInv

(* Mount: the index is rebuilt from the names on the card.                 *)
LEMMA MountKeeps == ASSUME ChunkInv, Mount PROVE ChunkInv'
<1>1. PICK kept \in SUBSET Seqs : ScanKeeps(kept) /\ Scanned(kept)
  BY DEF Mount
<1>2. /\ wpc = "mount" /\ wpc' = "open" /\ gate' = TRUE /\ serving' = {} /\ UNCHANGED gapVars /\ fd = FALSE
      /\ ~InFlight
      /\ UNCHANGED <<file, synced, queue, fd, job, pull, archive>>
  BY DEF Mount, cardVars, ChunkInv, Types, FdInv, SeqInv, Down
<1>3. /\ index' \in [Seqs -> States]
      /\ \A s \in Seqs : index'[s] = IF s \notin kept THEN "none"
                                    ELSE IF file[s].name = "log" THEN "sealed" ELSE "confirmed"
  BY <1>1 DEF Scanned, States
<1>4. kept \subseteq OnCard /\ OnCard \subseteq Seqs /\ Seqs \subseteq Nat
  BY <1>1, CollectionAssumption DEF ScanKeeps, OnCard, Seqs
<1>5. seq' \in Nat /\ \A s \in Seqs : OnIt(s) => s < seq'
  <2>1. CASE OnCard = {}
    BY <1>1, <2>1 DEF Scanned, OnCard, OnIt
  <2>2. CASE OnCard # {}
    <3>1. Max(OnCard) \in OnCard /\ \A s \in OnCard : s <= Max(OnCard)
      BY <1>4, <2>2, MaxSeqIsIn
    <3>2. seq' = Max(OnCard) + 1
      BY <1>1, <2>2 DEF Scanned
    <3>3. \A s \in Seqs : OnIt(s) => s \in OnCard
      BY DEF OnCard, OnIt
    <3> DEFINE m == Max(OnCard)
    <3>4. m \in Nat /\ seq' = m + 1 /\ \A s \in OnCard : s \in Nat /\ s <= m
      BY <1>4, <3>1, <3>2
    <3> HIDE DEF m
    <3>5. \A s \in OnCard : s < seq'
      BY <3>4
    <3> QED BY <3>3, <3>4, <3>5
  <2> QED BY <2>1, <2>2
<1>6. /\ history' \in Histories /\ history'.created = history.created /\ history'.deleted = history.deleted
      /\ history'.cut = history.cut /\ history'.reborn = history.reborn
      /\ (history'.refused <=> history.refused \/ Cardinality(OnCard) >= MaxChunks)
  <2>1. history \in Histories /\ history' = [history EXCEPT !.refused = @ \/ Cardinality(OnCard) >= MaxChunks]
    BY DEF ChunkInv, Types, Mount
  <2> QED BY <2>1 DEF Histories
<1>7. ~history'.refused => kept = OnCard
  <2> SUFFICES ASSUME ~history'.refused PROVE kept = OnCard
    OBVIOUS
  <2>1. IsFiniteSet(OnCard)
    <3>1. IsFiniteSet(Seqs)
      BY CollectionAssumption, FS_Interval DEF Seqs
    <3> QED BY <1>4, <3>1, FS_Subset
  <2> DEFINE n == Cardinality(OnCard)
             T == {n, MaxChunks - 1}
  <2>2. n \in Nat /\ n < MaxChunks /\ MaxChunks \in Nat
    BY <1>6, <2>1, FS_CardinalityType, CollectionAssumption
  <2>3. Cardinality(kept) = Min(T)
    BY <1>1 DEF ScanKeeps
  <2> HIDE DEF n
  <2>4. T \in SUBSET Nat /\ T # {} /\ n \in T
    BY <2>2
  <2>5. Min(T) = n
    <3> HIDE DEF T
    <3>1. Min(T) \in T /\ Min(T) <= n
      BY <2>4, MinIsIn
    <3> QED BY <2>2, <3>1 DEF T
  <2>6. Cardinality(kept) = Cardinality(OnCard)
    BY <2>3, <2>5 DEF n
  <2> QED BY <1>4, <2>1, <2>6, FS_Subset
<1>8. GapInv' /\ Windows'
  BY <1>2, <1>6, GapKeeps
<1>9. Types'
  BY <1>2, <1>3, <1>5, <1>6, <1>8 DEF ChunkInv, Types, WriterSteps
<1>10. \A s \in kept : OnIt(s)
  BY <1>4 DEF OnCard, OnIt
<1>11. FdInv' /\ FileInv'
  BY <1>2, <1>6 DEF ChunkInv, FdInv, FileInv, OnIt, Down, Closing, Renaming
<1>12. SeqInv'
  <2>1. \A s \in Seqs : s > seq' \/ s = seq' => ~OnIt(s) /\ index'[s] = "none"
    BY <1>3, <1>4, <1>5, <1>10
  <2> QED BY <1>2, <1>3, <2>1 DEF SeqInv, OnIt, Down, Closing
<1>13. IndexInv'
  BY <1>2, <1>3, <1>10 DEF IndexInv, OnIt, Closing, Renaming
<1>14. PullInv'
  BY <1>2 DEF ChunkInv, PullInv, InFlight, Down, Closing, Renaming
<1>15. KeptInv'
  <2>1. \A s \in Seqs : index'[s] = "confirmed" => file[s].name = "upl"
    BY <1>3, <1>10, Values DEF ChunkInv, OnIt, Names
  <2> QED BY <1>2, <1>6, <2>1, Values DEF ChunkInv, KeptInv, Kept, OnIt, Renaming
<1>16. TrackInv'
  <2>1. ~history'.refused => \A s \in Seqs : index'[s] # "none" <=> OnIt(s)
    BY <1>3, <1>7, <1>10 DEF OnCard, OnIt
  <2> QED BY <1>2, <2>1 DEF TrackInv, OnIt
<1> QED BY <1>8, <1>9, <1>11, <1>12, <1>13, <1>14, <1>15, <1>16 DEF ChunkInv

(* BeginServe: a sealed chunk is reserved for a transfer.                  *)
LEMMA BeginServeKeeps == ASSUME ChunkInv, NEW s \in Seqs, BeginServe(s) PROVE ChunkInv'
<1>1. /\ ~InFlight /\ index[s] = "sealed" /\ s \notin serving /\ serving' = serving \cup {s} /\ UNCHANGED gapVars
      /\ pull' = [pc |-> "granted", seq |-> s, id |-> NoId, fd |-> "none"]
      /\ UNCHANGED <<file, synced, index, gate, queue, seq, fd, wpc, job, archive, history>>
  BY DEF BeginServe, cardVars, InFlight
<1>2. pull' \in Pulls /\ pull'.pc = "granted" /\ pull'.seq = s /\ pull'.fd = "none"
  BY <1>1 DEF Pulls
<1>3. Types'
  BY <1>1, <1>2 DEF ChunkInv, Types, Windows, gapVars
<1>4. wpc \notin Down
  BY <1>1 DEF ChunkInv, SeqInv
<1>5. FdInv' /\ SeqInv' /\ FileInv' /\ IndexInv'
  BY <1>1, <1>4 DEF ChunkInv, FdInv, SeqInv, FileInv, IndexInv, OnIt, Down
<1>6. PullInv' /\ TrackInv'
  BY <1>1, <1>2 DEF ChunkInv, PullInv, TrackInv, IndexInv, InFlight, OnIt
<1>7. KeptInv' /\ GapInv'
  BY <1>1, <1>2 DEF ChunkInv, KeptInv, GapInv, Kept, gapVars, OnIt
<1> QED BY <1>3, <1>5, <1>6, <1>7 DEF ChunkInv

(* OpenChunk: the handler opens the file.                                  *)
LEMMA OpenChunkKeeps == ASSUME ChunkInv, OpenChunk PROVE ChunkInv'
<1> DEFINE x == file[pull.seq].id
<1>1. /\ pull.pc = "granted" /\ file[pull.seq].name = "log" /\ pull.seq \in Seqs /\ UNCHANGED gapVars
      /\ x \in Ids \cup {NoId} /\ pull' = [pull EXCEPT !.pc = "reading", !.id = x, !.fd = "live"]
      /\ UNCHANGED <<file, synced, index, serving, gate, queue, seq, fd, wpc, job, archive, history>>
  BY Values DEF OpenChunk, cardVars, indexVars, ChunkInv
<1>2. pull' \in Pulls /\ pull'.pc = "reading" /\ pull'.seq = pull.seq /\ pull'.fd = "live" /\ pull'.id = x
  <2>1. pull \in Pulls
    BY DEF ChunkInv, Types
  <2> HIDE DEF x
  <2> QED BY <1>1, <2>1 DEF Pulls
<1>3. Types'
  BY <1>1, <1>2 DEF ChunkInv, Types, Windows, gapVars
<1>4. FdInv' /\ SeqInv' /\ FileInv' /\ IndexInv'
  BY <1>1, <1>2 DEF ChunkInv, FdInv, SeqInv, FileInv, IndexInv, OnIt, InFlight
<1>5. PullInv' /\ TrackInv'
  BY <1>1, <1>2 DEF ChunkInv, PullInv, TrackInv, InFlight, OnIt
<1>6. KeptInv' /\ GapInv'
  BY <1>1, <1>2 DEF ChunkInv, KeptInv, GapInv, Kept, gapVars, OnIt
<1> QED BY <1>3, <1>4, <1>5, <1>6 DEF ChunkInv

(* The end of a transfer, whole or not.                                    *)
LEMMA ServeEnds ==
  ASSUME ChunkInv, InFlight, EndServe, pull' \in Pulls, pull'.pc \in {"idle", "confirm"}, pull'.fd = "none",
         archive' \subseteq Ids, archive \subseteq archive',
         pull'.pc = "confirm" => pull'.seq = pull.seq /\ file[pull.seq].id \in archive'
  PROVE  ChunkInv'
<1>1. /\ serving' = serving \ {pull.seq} /\ ~InFlight' /\ UNCHANGED gapVars
      /\ UNCHANGED <<file, synced, index, gate, queue, seq, fd, wpc, job, history>>
  BY DEF EndServe, cardVars, InFlight
<1>2. Types'
  BY <1>1 DEF ChunkInv, Types, Windows, gapVars
<1>3. FdInv' /\ SeqInv' /\ FileInv'
  BY <1>1 DEF ChunkInv, FdInv, SeqInv, FileInv, OnIt
<1>4. IndexInv'
  BY <1>1 DEF ChunkInv, IndexInv, PullInv, OnIt
<1>5. PullInv' /\ TrackInv'
  BY <1>1 DEF ChunkInv, PullInv, TrackInv, InFlight, OnIt
<1>6. Kept \subseteq Kept'
  BY <1>1 DEF Kept
<1>7. wpc = "discard" => job.seq # pull.seq
  BY DEF ChunkInv, PullInv, Closing
<1>8. file[pull.seq].id \in archive' => file[pull.seq].id \in Kept'
  BY DEF Kept
<1>9. KeptInv'
  BY <1>1, <1>6, <1>7, <1>8 DEF ChunkInv, KeptInv, OnIt
<1>10. GapInv'
  BY <1>1, <1>6 DEF ChunkInv, GapInv, gapVars
<1> QED BY <1>2, <1>3, <1>4, <1>5, <1>9, <1>10 DEF ChunkInv

(* ServeDone: the collector has the chunk.                                 *)
LEMMA ServeDoneKeeps == ASSUME ChunkInv, ServeDone PROVE ChunkInv'
<1>1. /\ InFlight /\ pull.fd = "live" /\ file[pull.seq].name = "log" /\ file[pull.seq].id = pull.id
      /\ pull.seq \in Seqs /\ archive' = archive \cup {pull.id} /\ EndServe
      /\ pull' = [pull EXCEPT !.pc = "confirm", !.fd = "none"] /\ pull \in Pulls /\ archive \subseteq Ids
  BY Values DEF ServeDone, InFlight, ChunkInv, PullInv, Types, Windows
<1>2. pull' \in Pulls /\ pull'.pc = "confirm" /\ pull'.seq = pull.seq /\ pull'.fd = "none"
  BY <1>1 DEF Pulls
<1>3. pull.id \in Ids
  <2>1. pull.id \in 1..history.created /\ pull.id \in Ids \cup {NoId}
    BY <1>1, Values DEF ChunkInv, FileInv, OnIt
  <2> QED BY <2>1 DEF NoId
<1> QED BY <1>1, <1>2, <1>3, ServeEnds

(* ServeFails: the transfer failed.                                        *)
LEMMA ServeFailsKeeps == ASSUME ChunkInv, ServeFails PROVE ChunkInv'
<1>1. Idle \in Pulls /\ Idle.pc = "idle" /\ Idle.fd = "none"
  BY CollectionAssumption DEF Idle, Pulls, Seqs
<1>2. InFlight /\ EndServe /\ pull' = Idle /\ archive' = archive /\ archive \subseteq Ids
  BY DEF ServeFails, InFlight, ChunkInv, Types, Windows
<1> QED BY <1>1, <1>2, ServeEnds

(* A step of the collector that leaves the device alone.                   *)
LEMMA Quiet ==
  ASSUME ChunkInv, ~InFlight, UNCHANGED gapVars, pull' \in {pull, Idle},
         UNCHANGED <<file, synced, index, serving, gate, queue, seq, fd, wpc, job, archive, history>>
  PROVE  ChunkInv'
<1>1. Idle \in Pulls /\ Idle.pc = "idle" /\ Idle.fd = "none"
  BY CollectionAssumption DEF Idle, Pulls, Seqs
<1>2. pull' \in Pulls /\ ~InFlight' /\ pull'.fd = "none" /\ (pull'.pc = "confirm" => pull' = pull)
  BY <1>1 DEF ChunkInv, Types, PullInv, InFlight
<1>3. Types'
  BY <1>2 DEF ChunkInv, Types, Windows, gapVars
<1>4. FdInv' /\ SeqInv' /\ FileInv' /\ IndexInv'
  BY <1>2 DEF ChunkInv, FdInv, SeqInv, FileInv, IndexInv, OnIt
<1>5. PullInv' /\ TrackInv'
  BY <1>2 DEF ChunkInv, PullInv, TrackInv, InFlight, OnIt
<1>6. KeptInv' /\ GapInv'
  BY <1>2 DEF ChunkInv, KeptInv, GapInv, Kept, gapVars, OnIt
<1> QED BY <1>3, <1>4, <1>5, <1>6 DEF ChunkInv

(* GiveUp: the collector stops retrying its confirm.                       *)
LEMMA GiveUpKeeps == ASSUME ChunkInv, GiveUp PROVE ChunkInv'
BY Quiet DEF GiveUp, InFlight, cardVars, indexVars

(* Confirm: the intent is queued, and then the index says confirmed.       *)
LEMMA ConfirmKeeps == ASSUME ChunkInv, Confirm PROVE ChunkInv'
<1> DEFINE s == pull.seq
<1>1. /\ pull.pc = "confirm" /\ ~InFlight /\ s \in Seqs /\ UNCHANGED gapVars
      /\ UNCHANGED <<file, synced, serving, gate, seq, fd, wpc, job, archive, history>>
  BY Values DEF Confirm, InFlight, cardVars, ChunkInv
<1>2. CASE index[s] # "sealed"
  BY <1>1, <1>2, Quiet DEF Confirm
<1>3. CASE index[s] = "sealed"
  <2>1. /\ Len(queue) < QueueDepth /\ queue' = Append(queue, s) /\ index' = [index EXCEPT ![s] = "confirmed"]
        /\ pull' \in {pull, Idle}
    BY <1>3 DEF Confirm
  <2>2. /\ index' \in [Seqs -> States]
        /\ \A t \in Seqs : index'[t] = IF t = s THEN "confirmed" ELSE index[t]
    BY <1>1, <2>1 DEF ChunkInv, Types, States
  <2>3. /\ queue' \in Seq(Seqs) /\ Len(queue') <= QueueDepth
        /\ \A i \in DOMAIN queue' : queue'[i] = s \/ (i \in DOMAIN queue /\ queue'[i] = queue[i])
    BY <1>1, <2>1, CollectionAssumption DEF ChunkInv, Types
  <2>4. Idle \in Pulls /\ Idle.pc = "idle" /\ Idle.fd = "none"
    BY CollectionAssumption DEF Idle, Pulls, Seqs
  <2>5. pull' \in Pulls /\ ~InFlight' /\ pull'.fd = "none" /\ (pull'.pc = "confirm" => pull' = pull)
    BY <1>1, <2>1, <2>4 DEF ChunkInv, Types, PullInv, InFlight
  <2>6. Types'
    BY <1>1, <2>2, <2>3, <2>5 DEF ChunkInv, Types, Windows, gapVars
  <2>7. wpc \notin Down /\ (OnIt(s) \/ (wpc = "discard" /\ job.seq = s)) /\ (OnIt(s) => file[s].id \in Kept)
        /\ (wpc = "discard" /\ job.seq = s => job.id \in Kept)
    BY <1>1, <1>3, Values DEF ChunkInv, SeqInv, IndexInv, KeptInv, OnIt
  <2> HIDE DEF s
  <2>8. FdInv' /\ FileInv'
    BY <1>1 DEF ChunkInv, FdInv, FileInv, OnIt
  <2>9. SeqInv'
    BY <1>1, <1>3, <2>2, <2>5, <2>7 DEF ChunkInv, SeqInv, OnIt
  <2>10. IndexInv'
    <3>0. IndexInv
      BY DEF ChunkInv
    <3>1. \A t \in Seqs : index'[t] = index[t] \/ (t = s /\ index[t] = "sealed" /\ index'[t] = "confirmed")
      BY <1>3, <2>2
    <3>2. job.seq \in Seqs /\ serving \subseteq Seqs
      BY Values DEF ChunkInv, Types
    <3>3. \A t \in serving' : index'[t] \in {"sealed", "confirmed"}
      BY <1>1, <3>0, <3>1, <3>2 DEF IndexInv
    <3>4. \A t \in Seqs : index'[t] = "sealed" => file'[t].name = "log" \/ (wpc' \in {"discard", "renamed"} /\ job'.seq = t)
      BY <1>1, <3>0, <3>1 DEF IndexInv
    <3>5. \A t \in Seqs : index'[t] = "confirmed" => file'[t].name # "none" \/ (wpc' = "discard" /\ job'.seq = t)
      BY <1>1, <2>7, <3>0, <3>1 DEF IndexInv, OnIt
    <3>6. wpc' = "renamed" /\ index'[job'.seq] = "sealed" => file'[job'.seq].name = IF job'.done THEN "upl" ELSE "log"
      BY <1>1, <3>0, <3>1, <3>2 DEF IndexInv
    <3>7. wpc' \in Closing => job'.seq \in serving' /\ (job'.state = "confirmed" => index'[job'.seq] = "confirmed") /\ job'.state # "none"
      BY <1>1, <3>0, <3>1, <3>2 DEF IndexInv
    <3>8. /\ wpc' = "unlink" /\ job'.state = "sealed" => file'[job'.seq].name = "log"
          /\ wpc' = "discard" => file'[job'.seq].name = "none"
          /\ wpc' = "rename" => ~job'.done
      BY <1>1, <3>0 DEF IndexInv, OnIt
    <3>9. wpc' \in Renaming => index'[job'.seq] # "open" /\ (index'[job'.seq] # "none" => job'.seq \in serving')
      BY <1>1, <3>0, <3>1, <3>2 DEF IndexInv
    <3> QED BY <3>3, <3>4, <3>5, <3>6, <3>7, <3>8, <3>9 DEF IndexInv, OnIt
  <2>11. PullInv' /\ TrackInv'
    BY <1>1, <1>3, <2>2, <2>5 DEF ChunkInv, PullInv, TrackInv, InFlight, OnIt
  <2>12. KeptInv'
    BY <1>1, <2>2, <2>3, <2>5, <2>7, Values DEF ChunkInv, KeptInv, Kept, OnIt, Renaming
  <2>13. GapInv'
    BY <1>1 DEF ChunkInv, GapInv, Kept, gapVars
  <2> QED BY <2>6, <2>8, <2>9, <2>10, <2>11, <2>12, <2>13 DEF ChunkInv
<1> QED BY <1>2, <1>3

(* Every step keeps the invariant.                                         *)
LEMMA ChunkStep == ASSUME ChunkInv, ~DrainTimesOut, [Next]_vars PROVE ChunkInv'
<1>1. CASE Writer
  BY <1>1, WriteGapKeeps, FlushBlockKeeps, SyncFileKeeps, RotateFileKeeps, OpenPressureKeeps, CreateFileKeeps,
     TrackOpenKeeps, RetentionPassKeeps, UnlinkKeeps, DiscardKeeps, DrainConfirmsKeeps, RenameKeeps,
     RenamedKeeps, CloseGateKeeps, UnmountKeeps, MountKeeps DEF Writer
<1>2. CASE Httpd
  BY <1>2, BeginServeKeeps, OpenChunkKeeps, ServeDoneKeeps, ServeFailsKeeps, ConfirmKeeps, GiveUpKeeps DEF Httpd
<1>3. CASE Faults
  BY <1>3, UnlinkFailsKeeps, RenameFailsKeeps, EnterFailedKeeps, PowerCutKeeps DEF Faults
<1>4. CASE UNCHANGED vars
  <2>1. /\ UNCHANGED gapVars
        /\ UNCHANGED <<file, synced, index, serving, gate, queue, seq, fd, wpc, job, pull, archive, history>>
    BY <1>4 DEF vars, cardVars, indexVars
  <2>2. Types' /\ FdInv' /\ SeqInv' /\ FileInv'
    BY <2>1 DEF ChunkInv, Types, Windows, FdInv, SeqInv, FileInv, OnIt, InFlight, gapVars
  <2>3. IndexInv' /\ PullInv' /\ KeptInv' /\ TrackInv' /\ GapInv'
    BY <2>1 DEF ChunkInv, IndexInv, PullInv, KeptInv, TrackInv, GapInv, Kept, OnIt, InFlight, gapVars
  <2> QED BY <2>2, <2>3 DEF ChunkInv
<1> QED BY <1>1, <1>2, <1>3, <1>4 DEF Next

(* The invariant holds in every state.                                     *)
LEMMA ChunkInvariant == ~DrainTimesOut /\ Spec => []ChunkInv
<1> SUFFICES ASSUME ~DrainTimesOut PROVE Spec => []ChunkInv
  OBVIOUS
<1>1. Init => ChunkInv
  BY InitChunks
<1>2. ChunkInv /\ [Next]_vars => ChunkInv'
  BY ChunkStep
<1> QED BY <1>1, <1>2, PTL DEF Spec

(* No chunk is lost silently, for any number of files, sizes of index and  *)
(* queue, faults of the card and power cuts, when a transfer always ends   *)
(* before its card is torn down.                                           *)
THEOREM ChunkLossTheorem == ~DrainTimesOut /\ Spec => []NoSilentLoss
<1> SUFFICES ASSUME ~DrainTimesOut PROVE Spec => []NoSilentLoss
  OBVIOUS
<1>1. ChunkInv => NoSilentLoss
  BY DEF ChunkInv, KeptInv, GapInv, NoSilentLoss, OnIt
<1> QED BY <1>1, ChunkInvariant, PTL

(* The file behind a transfer stays, under the same condition: retention   *)
(* and the rename never take a chunk that is being read.                   *)
THEOREM ServedTheorem == ~DrainTimesOut /\ Spec => []ServedFileStays
<1> SUFFICES ASSUME ~DrainTimesOut PROVE Spec => []ServedFileStays
  OBVIOUS
<1>1. ChunkInv => ServedFileStays
  BY DEF ChunkInv, PullInv, ServedFileStays
<1> QED BY <1>1, ChunkInvariant, PTL

(* At rest the index and the card agree, and no file is forgotten unless   *)
(* the index refused one.                                                  *)
THEOREM IndexTheorem == ~DrainTimesOut /\ Spec => []IndexMatchesCard
<1> SUFFICES ASSUME ~DrainTimesOut PROVE Spec => []IndexMatchesCard
  OBVIOUS
<1>1. ASSUME ChunkInv PROVE IndexMatchesCard
  <2>1. TypeOK
    BY <1>1, TypesMeanTypeOK DEF ChunkInv
  <2>2. wpc = "idle" =>
          /\ \A s \in Seqs : index[s] = "sealed" => file[s].name = "log"
          /\ \A s \in Seqs : index[s] = "confirmed" => file[s].name # "none"
    BY <1>1 DEF ChunkInv, IndexInv, OnIt
  <2>3. wpc = "idle" /\ ~history.refused => \A s \in Seqs : index[s] # "none" <=> file[s].name # "none"
    BY <1>1 DEF ChunkInv, TrackInv, OnIt, Down, Closing
  <2> QED BY <2>1, <2>2, <2>3 DEF IndexMatchesCard, Tracked, OnCard
<1> QED BY <1>1, ChunkInvariant, PTL

-----------------------------------------------------------------------------
(* The clock.  The invariant: the types; the lines of every file are       *)
(* honest to the limit of this boot (LogsInv); every reading is a lower    *)
(* bound (PointsInv); the system clock is as boot found it, or right       *)
(* (SysInv); and a reading labelled utc is right, or follows a wake nobody *)
(* recorded (LabelInv).                                                    *)
(* A finite set of natural numbers has a greatest one.                     *)
LEMMA Greatest ==
  ASSUME NEW K, IsFiniteSet(K), K \subseteq Nat, K # {} PROVE \E m \in K : \A k \in K : k <= m
<1> DEFINE Above(k) == {j \in K : k <= j}
           T == {Above(k) : k \in K}
           Order == StrictSubsetOrdering(K)
<1>1. ASSUME NEW k \in K PROVE Above(k) \in FiniteSubsetsOf(K)
  BY FS_Subset DEF FiniteSubsetsOf
<1>2. T \subseteq FiniteSubsetsOf(K) /\ T # {}
  BY <1>1
<1> HIDE DEF Above
<1>3. PICK b \in T : \A a \in T : ~(<<a, b>> \in Order)
  <2> HIDE DEF T, Order
  <2>1. IsWellFoundedOn(Order, FiniteSubsetsOf(K))
    BY FS_StrictSubsetOrderingWellFounded DEF Order
  <2> QED BY <1>2, <2>1, WFMin
<1>4. PICK m \in K : b = Above(m)
  BY <1>3
<1>5. ASSUME NEW k \in K PROVE k <= m
  <2> SUFFICES ASSUME ~(k <= m) PROVE FALSE
    OBVIOUS
  <2>0. \A j \in K : j \in Nat
    OBVIOUS
  <2>1. Above(k) \subseteq Above(m) /\ m \in Above(m) /\ m \notin Above(k)
    <3>1. k \in Nat /\ m \in Nat /\ m < k
      BY <2>0
    <3>2. ASSUME NEW j \in K, k <= j PROVE m <= j
      BY <2>0, <3>1, <3>2
    <3>3. m <= m /\ ~(k <= m)
      BY <3>1
    <3> QED BY <3>2, <3>3, Zenon DEF Above
  <2>2. Above(k) \subseteq K /\ Above(m) \subseteq K
    BY DEF Above
  <2>3. <<Above(k), Above(m)>> \in Order
    BY <2>1, <2>2 DEF StrictSubsetOrdering
  <2> QED BY <1>3, <1>4, <2>3
<1> QED BY <1>5

(* Max is the greatest element of a finite set of naturals.                *)
LEMMA MaxIsIn ==
  ASSUME NEW S \in SUBSET Nat, S # {}, IsFiniteSet(S) PROVE Max(S) \in S /\ \A s \in S : s <= Max(S)
<1>1. PICK m \in S : \A s \in S : s <= m
  BY Greatest
<1>2. m \in S /\ \A s \in S : m >= s
  BY <1>1
<1>3. \A s \in S : Max(S) >= s /\ Max(S) \in S
  BY <1>2 DEF Max
<1> QED BY <1>1, <1>3

(* The greater of two numbers.                                             *)
LEMMA MaxOfTwo ==
  ASSUME NEW a \in Int, NEW b \in Int PROVE Max({a, b}) = IF a >= b THEN a ELSE b
<1>1. \E x \in {a, b} : \A y \in {a, b} : x >= y
  OBVIOUS
<1>2. Max({a, b}) \in {a, b} /\ \A y \in {a, b} : Max({a, b}) >= y
  BY <1>1 DEF Max
<1> QED BY <1>2

Kinds == {"clock", "utc", "meta", "close"}
Timed == {"clock", "meta", "close"}
Lines == [kind : Kinds, t : Nat, utc : Nat, basis : Bases]
Sources == {"none", "card", "build", "sleep", "warm", "sync"}
Readings == [t : Nat, utc : Nat, basis : Bases, src : Sources]
Decisions == [best : Readings, floor : Readings]
Devs == [step : Steps, setup : Nat, decided : Decisions, best : Readings, floor : Readings,
         anchor : Readings, unsaid : BOOLEAN, marking : BOOLEAN, back : BOOLEAN]
Pasts == [slept : BOOLEAN, forgot : BOOLEAN, ahead : BOOLEAN, boots : Nat, logs : Nat]

InOrder(f) ==
  \A i, j \in DOMAIN f : i < j /\ f[i].kind \in Timed /\ f[j].kind \in Timed => f[i].t <= f[j].t
Fits(f) == Len(f) <= MaxLines + 4 /\ (~EndsClosed(f) => Len(f) <= MaxLines + 2)
Files == {f \in Seq(Lines) : InOrder(f) /\ Fits(f)}
Honest(f, limit) == \A i \in Statements(f), j \in DOMAIN f : f[i].utc + f[j].t <= limit + f[i].t

(* What a file is made of.                                                 *)
LEMMA LineTypes ==
  ASSUME NEW f \in Seq(Lines)
  PROVE  /\ Len(f) \in Nat /\ DOMAIN f = 1..Len(f)
         /\ \A i \in DOMAIN f : /\ f[i] \in Lines /\ f[i].kind \in Kinds /\ f[i].t \in Nat
                               /\ f[i].utc \in Nat /\ f[i].basis \in Bases
<1>1. Len(f) \in Nat /\ DOMAIN f = 1..Len(f) /\ \A i \in DOMAIN f : f[i] \in Lines
  OBVIOUS
<1>2. \A l \in Lines : l.kind \in Kinds /\ l.t \in Nat /\ l.utc \in Nat /\ l.basis \in Bases
  BY DEF Lines
<1> QED BY <1>1, <1>2

(* The newest statement of a file is one of its lines.                     *)
LEMMA NewestStatement ==
  ASSUME NEW f \in Seq(Lines), Statements(f) # {}
  PROVE  /\ Max(Statements(f)) \in Statements(f) /\ Max(Statements(f)) \in 1..Len(f)
         /\ \A i \in Statements(f) : i <= Max(Statements(f))
<1>1. Statements(f) \subseteq 1..Len(f) /\ Len(f) \in Nat
  BY DEF Statements
<1>2. IsFiniteSet(Statements(f)) /\ Statements(f) \in SUBSET Nat
  <2>1. IsFiniteSet(1..Len(f))
    BY <1>1, FS_Interval
  <2>2. 1..Len(f) \subseteq Nat
    BY <1>1
  <2> QED BY <1>1, <2>1, <2>2, FS_Subset
<1> HIDE DEF Statements
<1> QED BY <1>1, <1>2, MaxIsIn

(* The stamps of a file are those of its timed lines.                      *)
LEMMA StampsOf ==
  ASSUME NEW f \in Seq(Lines), NEW n \in Nat \ {0}
  PROVE  /\ \A x \in Stamps(f, n) : \E j \in DOMAIN f : j >= n /\ f[j].kind \in Timed /\ x = f[j].t
         /\ \A j \in DOMAIN f : j >= n /\ f[j].kind \in Timed => f[j].t \in Stamps(f, n)
         /\ Stamps(f, n) \in SUBSET Nat /\ IsFiniteSet(Stamps(f, n))
<1> DEFINE J == {j \in n..Len(f) : f[j].kind \in Timed}
<1>1. Stamps(f, n) = {f[j].t : j \in J}
  BY DEF Stamps, Timed
<1>2. J \subseteq DOMAIN f /\ \A j \in DOMAIN f : j >= n /\ f[j].kind \in Timed => j \in J
  BY LineTypes
<1>3. IsFiniteSet(J)
  <2>1. Len(f) \in Nat
    BY LineTypes
  <2>2. J \subseteq 1..Len(f)
    BY <2>1
  <2>3. IsFiniteSet(1..Len(f))
    BY <2>1, FS_Interval
  <2> HIDE DEF J
  <2> QED BY <2>2, <2>3, FS_Subset
<1>4. \A j \in J : j >= n /\ f[j].kind \in Timed
  BY LineTypes
<1> HIDE DEF J
<1>5. IsFiniteSet({f[j].t : j \in J})
  <2> DEFINE T == {f[j].t : j \in J}
             g == [j \in J |-> f[j].t]
  <2>1. g \in Surjection(J, T)
    BY DEF Surjection
  <2> HIDE DEF g
  <2> QED BY <1>3, <2>1, FS_Surjection
<1> QED BY <1>1, <1>2, <1>4, <1>5, LineTypes

(* Where the newest statement is projected to.                             *)
LastStamp(f, c) == Max({f[c].t} \cup Stamps(f, c + 1))

(* The stamp the newest statement is projected to is that of a line, and   *)
(* no later timed line exceeds it.                                         *)
LEMMA LastStampOf ==
  ASSUME NEW f \in Seq(Lines), NEW c \in DOMAIN f
  PROVE  /\ LastStamp(f, c) \in Nat /\ f[c].t <= LastStamp(f, c)
         /\ \E j \in DOMAIN f : LastStamp(f, c) = f[j].t
         /\ LastStamp(f, c) = f[c].t
              \/ \E j \in DOMAIN f : j > c /\ f[j].kind \in Timed /\ LastStamp(f, c) = f[j].t
         /\ \A j \in DOMAIN f : j > c /\ f[j].kind \in Timed => f[j].t <= LastStamp(f, c)
<1> DEFINE S == {f[c].t} \cup Stamps(f, c + 1)
<1>0. c \in Nat /\ c + 1 \in Nat \ {0} /\ f[c].t \in Nat
  BY LineTypes
<1>1. S \in SUBSET Nat /\ IsFiniteSet(S) /\ S # {} /\ f[c].t \in S
  BY <1>0, StampsOf, FS_Singleton, FS_Union
<1>2. Max(S) \in S /\ \A s \in S : s <= Max(S)
  <2> HIDE DEF S
  <2> QED BY <1>1, MaxIsIn
<1>3. LastStamp(f, c) = Max(S)
  BY DEF LastStamp
<1>4. \A j \in DOMAIN f : j > c /\ f[j].kind \in Timed => f[j].t \in S
  BY <1>0, StampsOf, LineTypes
<1>5. \A x \in S : x = f[c].t \/ \E j \in DOMAIN f : j > c /\ f[j].kind \in Timed /\ x = f[j].t
  BY <1>0, StampsOf, LineTypes
<1> HIDE DEF S
<1> QED BY <1>1, <1>2, <1>3, <1>4, <1>5

(* End, spelled out.                                                       *)
LEMMA EndOf ==
  ASSUME NEW f \in Seq(Lines), Statements(f) # {}
  PROVE  LET c == Max(Statements(f))
         IN  /\ c \in DOMAIN f
             /\ End(f) = [t |-> LastStamp(f, c), utc |-> f[c].utc + (LastStamp(f, c) - f[c].t),
                          basis |-> f[c].basis, src |-> "card"]
<1> DEFINE c == Max(Statements(f))
           l == f[c]
           m == LastStamp(f, c)
           p == [t |-> l.t, utc |-> l.utc, basis |-> l.basis, src |-> "card"]
<1>1. c \in DOMAIN f
  BY NewestStatement, LineTypes
<1>2. End(f) = At(p, m)
  BY DEF End, LastStamp
<1>3. At(p, m) = [t |-> m, utc |-> l.utc + (m - l.t), basis |-> l.basis, src |-> "card"]
  BY DEF At, Project
<1> QED BY <1>1, <1>2, <1>3

(* What a tail says is no later than the limit its lines are honest to.    *)
LEMMA EndReading ==
  ASSUME NEW f \in Seq(Lines)
  PROVE  /\ End(f) \in Readings
         /\ \A limit \in Nat : Honest(f, limit) => End(f).utc <= limit
         /\ Statements(f) = {} <=> End(f) = NoPoint
<1>1. CASE Statements(f) = {}
  BY <1>1 DEF End, NoPoint, Readings, Bases, Sources
<1>2. CASE Statements(f) # {}
  <2> DEFINE c == Max(Statements(f))
             m == LastStamp(f, c)
  <2>1. c \in DOMAIN f /\ c \in Statements(f)
        /\ End(f) = [t |-> m, utc |-> f[c].utc + (m - f[c].t), basis |-> f[c].basis, src |-> "card"]
    BY <1>2, EndOf, NewestStatement
  <2>2. m \in Nat /\ f[c].t <= m /\ \E j \in DOMAIN f : m = f[j].t
    BY <2>1, LastStampOf
  <2> HIDE DEF c, m
  <2>3. f[c].utc \in Nat /\ f[c].t \in Nat /\ f[c].basis \in Bases
    BY <2>1, LineTypes
  <2>4. End(f) \in Readings /\ End(f) # NoPoint
    BY <2>1, <2>2, <2>3 DEF Readings, NoPoint, Sources
  <2>5. ASSUME NEW limit \in Nat, Honest(f, limit) PROVE End(f).utc <= limit
    <3>1. PICK j \in DOMAIN f : m = f[j].t
      BY <2>2
    <3>2. f[c].utc + m <= limit + f[c].t
      BY <2>1, <2>5, <3>1 DEF Honest
    <3> QED BY <2>1, <2>2, <2>3, <3>2
  <2> QED BY <1>2, <2>4, <2>5
<1> QED BY <1>1, <1>2

(* A statement is a #clock or a #utc line.                                 *)
LEMMA StatementsOf ==
  ASSUME NEW f \in Seq(Lines), NEW i
  PROVE  i \in Statements(f) <=> i \in DOMAIN f /\ f[i].kind \in {"clock", "utc"}
BY DEF Statements

(* A stretch of a file is as ordered and as honest as the file.            *)
LEMMA Window ==
  ASSUME NEW f \in Seq(Lines), NEW g \in Seq(Lines), NEW off \in Nat,
         \A i \in DOMAIN g : i + off \in DOMAIN f /\ g[i] = f[i + off]
  PROVE  (InOrder(f) => InOrder(g)) /\ \A limit \in Nat : Honest(f, limit) => Honest(g, limit)
<1>1. InOrder(f) => InOrder(g)
  <2> SUFFICES ASSUME InOrder(f), NEW i \in DOMAIN g, NEW j \in DOMAIN g, i < j, g[i].kind \in Timed,
                      g[j].kind \in Timed
               PROVE  g[i].t <= g[j].t
    BY DEF InOrder
  <2>1. i + off < j + off
    BY LineTypes
  <2> QED BY <2>1 DEF InOrder
<1>2. ASSUME NEW limit \in Nat, Honest(f, limit) PROVE Honest(g, limit)
  <2>1. \A i \in Statements(g) : i \in DOMAIN g /\ i + off \in Statements(f)
    BY StatementsOf
  <2> QED BY <1>2, <2>1 DEF Honest
<1> QED BY <1>1, <1>2

(* The end of a file from one of its lines on.                             *)
LEMMA TailOf ==
  ASSUME NEW f \in Seq(Lines), NEW c \in DOMAIN f
  PROVE  LET g == SubSeq(f, c, Len(f))
         IN  /\ g \in Seq(Lines) /\ Len(g) = Len(f) - c + 1 /\ g # <<>> /\ Last(g) = Last(f)
             /\ \A i \in DOMAIN g : i + (c - 1) \in DOMAIN f /\ g[i] = f[i + (c - 1)]
<1> DEFINE g == SubSeq(f, c, Len(f))
           n == Len(f)
<1>1. n \in Nat /\ DOMAIN f = 1..n /\ c \in Nat /\ 1 <= c /\ c <= n
  BY LineTypes
<1>2. \A i \in c..n : f[i] \in Lines
  BY <1>1, LineTypes
<1>3. /\ g \in Seq(Lines) /\ Len(g) = n - c + 1
      /\ \A i \in 1..(n - c + 1) : g[i] = f[c + i - 1]
  BY <1>1, <1>2, SubSeqProperties
<1> HIDE DEF g, n
<1>4. DOMAIN g = 1..(n - c + 1)
  BY <1>1, <1>3
<1>5. \A i \in DOMAIN g : i + (c - 1) \in DOMAIN f /\ g[i] = f[i + (c - 1)]
  BY <1>1, <1>3, <1>4
<1>6. g # <<>> /\ g[Len(g)] = f[n]
  BY <1>1, <1>3, <1>4
<1> QED BY <1>3, <1>5, <1>6 DEF g, n, Last

(* Trimming a file loses neither its order, nor its honesty, nor its       *)
(* close.                                                                  *)
LEMMA TrimmedOf ==
  ASSUME NEW f \in Files
  PROVE  /\ Trimmed(f) \in Files /\ (EndsClosed(Trimmed(f)) <=> EndsClosed(f))
         /\ \A limit \in Nat : Honest(f, limit) => Honest(Trimmed(f), limit)
<1>0. f \in Seq(Lines) /\ InOrder(f) /\ Fits(f)
  BY DEF Files
<1>1. CASE Statements(f) = {}
  BY <1>1 DEF Trimmed
<1>2. CASE Statements(f) # {}
  <2> DEFINE c == Max(Statements(f))
             g == SubSeq(f, c, Len(f))
  <2>1. Trimmed(f) = g /\ c \in DOMAIN f
    BY <1>0, <1>2, EndOf DEF Trimmed
  <2> HIDE DEF c
  <2>2. /\ g \in Seq(Lines) /\ Len(g) = Len(f) - c + 1 /\ g # <<>> /\ Last(g) = Last(f)
        /\ \A i \in DOMAIN g : i + (c - 1) \in DOMAIN f /\ g[i] = f[i + (c - 1)]
    BY <1>0, <2>1, TailOf
  <2> HIDE DEF g
  <2>3. c - 1 \in Nat /\ Len(g) <= Len(f) /\ f # <<>> /\ Len(g) \in Nat /\ Len(f) \in Nat
    BY <1>0, <2>1, <2>2, LineTypes
  <2>4. InOrder(g) /\ \A limit \in Nat : Honest(f, limit) => Honest(g, limit)
    BY <1>0, <2>2, <2>3, Window
  <2>5. EndsClosed(g) <=> EndsClosed(f)
    BY <2>2, <2>3 DEF EndsClosed
  <2>6. Fits(g)
    BY <1>0, <2>3, <2>5, ClockAssumption DEF Fits
  <2> QED BY <2>1, <2>2, <2>4, <2>5, <2>6 DEF Files
<1> QED BY <1>1, <1>2

(* The seal carries the greatest stamp of the file.                        *)
LEMMA SealStampOf ==
  ASSUME NEW f \in Seq(Lines)
  PROVE  /\ SealStamp(f) \in Nat
         /\ SealStamp(f) = 0 \/ \E j \in DOMAIN f : f[j].kind \in Timed /\ SealStamp(f) = f[j].t
         /\ \A j \in DOMAIN f : f[j].kind \in Timed => f[j].t <= SealStamp(f)
<1> DEFINE S == {0} \cup Stamps(f, 1)
<1>1. S \in SUBSET Nat /\ IsFiniteSet(S) /\ S # {}
  <2>1. 1 \in Nat \ {0}
    OBVIOUS
  <2>2. Stamps(f, 1) \in SUBSET Nat /\ IsFiniteSet(Stamps(f, 1)) /\ IsFiniteSet({0})
    BY <2>1, StampsOf, FS_Singleton
  <2>3. IsFiniteSet({0} \cup Stamps(f, 1))
    BY <2>2, FS_Union
  <2> QED BY <2>2, <2>3
<1>2. Max(S) \in S /\ \A s \in S : s <= Max(S)
  <2> HIDE DEF S
  <2> QED BY <1>1, MaxIsIn
<1>3. SealStamp(f) = Max(S)
  BY DEF SealStamp
<1>4. \A j \in DOMAIN f : f[j].kind \in Timed => f[j].t \in S
  BY StampsOf, LineTypes
<1>5. \A x \in S : x = 0 \/ \E j \in DOMAIN f : f[j].kind \in Timed /\ x = f[j].t
  BY StampsOf
<1> HIDE DEF S
<1> QED BY <1>1, <1>2, <1>3, <1>4, <1>5

(* A file with a #close line behind it.                                    *)
LEMMA ClosedBy ==
  ASSUME NEW f \in Files, ~EndsClosed(f)
  PROVE  LET h == Append(f, Meta("close", SealStamp(f)))
         IN  /\ h \in Files /\ EndsClosed(h) /\ Len(h) = Len(f) + 1 /\ Statements(h) = Statements(f)
             /\ h[Len(h)].kind = "close" /\ h[Len(h)].t = SealStamp(f) /\ \A i \in DOMAIN f : h[i] = f[i]
             /\ \A limit \in Nat : Honest(f, limit) => Honest(h, limit)
<1> DEFINE l == Meta("close", SealStamp(f))
           h == Append(f, l)
           n == Len(f)
<1>0. f \in Seq(Lines) /\ InOrder(f) /\ Fits(f) /\ n \in Nat
  BY LineTypes DEF Files
<1>1. l \in Lines /\ l.kind = "close" /\ l.t = SealStamp(f)
  BY <1>0, SealStampOf DEF Meta, Lines, Kinds, Bases
<1> HIDE DEF l
<1>2. /\ h \in Seq(Lines) /\ Len(h) = n + 1 /\ DOMAIN h = 1..(n + 1) /\ DOMAIN f = 1..n /\ h[n + 1] = l
      /\ \A i \in 1..n : h[i] = f[i]
  BY <1>0, <1>1
<1> HIDE DEF h, n
<1>3. EndsClosed(h) /\ Fits(h)
  BY <1>0, <1>1, <1>2, ClockAssumption DEF EndsClosed, Fits, Last, n
<1>4. \A i : i \in Statements(h) <=> i \in Statements(f)
  <2>1. \A i : i \in DOMAIN h <=> i \in DOMAIN f \/ i = n + 1
    BY <1>0, <1>2
  <2> QED BY <1>0, <1>1, <1>2, <2>1, StatementsOf
<1>5. InOrder(h)
  <2> SUFFICES ASSUME NEW i \in DOMAIN h, NEW j \in DOMAIN h, i < j, h[i].kind \in Timed, h[j].kind \in Timed
               PROVE  h[i].t <= h[j].t
    BY DEF InOrder
  <2>1. i \in 1..n
    BY <1>0, <1>2
  <2>2. CASE j = n + 1
    BY <1>0, <1>1, <1>2, <2>1, <2>2, SealStampOf
  <2>3. CASE j \in 1..n
    BY <1>0, <1>2, <2>1, <2>3 DEF InOrder
  <2> QED BY <1>0, <1>2, <2>2, <2>3
<1>6. ASSUME NEW limit \in Nat, Honest(f, limit) PROVE Honest(h, limit)
  <2> SUFFICES ASSUME NEW i \in Statements(f), NEW j \in DOMAIN h PROVE h[i].utc + h[j].t <= limit + h[i].t
    BY <1>4 DEF Honest
  <2>1. i \in 1..n /\ h[i] = f[i] /\ f[i].utc \in Nat /\ f[i].t \in Nat
    BY <1>0, <1>2, StatementsOf, LineTypes
  <2>2. CASE j \in 1..n
    BY <1>2, <1>6, <2>1, <2>2 DEF Honest
  <2>3. CASE j = n + 1
    <3>1. h[j].t = SealStamp(f)
      BY <1>1, <1>2, <2>3
    <3>2. CASE SealStamp(f) = 0
      <4>1. f[i].utc + f[i].t <= limit + f[i].t
        BY <1>2, <1>6, <2>1 DEF Honest
      <4> QED BY <2>1, <3>1, <3>2, <4>1
    <3>3. CASE \E k \in DOMAIN f : SealStamp(f) = f[k].t
      BY <1>6, <2>1, <3>1, <3>3 DEF Honest
    <3> QED BY <1>0, <3>2, <3>3, SealStampOf
  <2> QED BY <1>0, <1>2, <2>2, <2>3
<1> QED BY <1>0, <1>1, <1>2, <1>3, <1>4, <1>5, <1>6 DEF Files, h, l, n

(* A sealed file is as honest as the torn one.                             *)
LEMMA SealedOf ==
  ASSUME NEW f \in Files, NEW g \in Sealed(f)
  PROVE  g \in Files /\ \A limit \in Nat : Honest(f, limit) => Honest(g, limit)
<1>1. CASE g = f
  BY <1>1
<1>2. CASE ~EndsClosed(f) /\ g = Trimmed(Append(f, Meta("close", SealStamp(f))))
  BY <1>2, ClosedBy, TrimmedOf
<1> QED BY <1>1, <1>2 DEF Sealed

(* Sealing does not move the floor that is read from the file, when its    *)
(* newest statement is a #clock line.                                      *)
LEMMA SealingKeepsEnd ==
  ASSUME NEW f \in Files, NEW g \in Sealed(f),
         Statements(f) # {} => f[Max(Statements(f))].kind = "clock"
  PROVE  End(g) = End(f)
<1> DEFINE h == Append(f, Meta("close", SealStamp(f)))
<1>1. CASE g = f
  BY <1>1
<1>2. CASE ~EndsClosed(f) /\ g = Trimmed(h)
  <2>0. f \in Seq(Lines) /\ InOrder(f) /\ g \in Seq(Lines)
    BY SealedOf DEF Files
  <2>1. /\ h \in Seq(Lines) /\ Len(h) = Len(f) + 1 /\ Statements(h) = Statements(f)
        /\ h[Len(h)].kind = "close" /\ h[Len(h)].t = SealStamp(f) /\ \A i \in DOMAIN f : h[i] = f[i]
    BY <1>2, ClosedBy DEF Files
  <2> HIDE DEF h
  <2>2. CASE Statements(f) = {}
    BY <1>2, <2>1, <2>2 DEF Trimmed, End
  <2>3. CASE Statements(f) # {}
    <3> DEFINE c == Max(Statements(f))
    <3>1. c \in DOMAIN f /\ c \in Statements(f) /\ (\A i \in Statements(f) : i <= c) /\ f[c].kind = "clock"
          /\ g = SubSeq(h, c, Len(h))
          /\ End(f) = [t |-> LastStamp(f, c), utc |-> f[c].utc + (LastStamp(f, c) - f[c].t),
                        basis |-> f[c].basis, src |-> "card"]
      BY <1>2, <2>0, <2>1, <2>3, EndOf, NewestStatement DEF Trimmed
    <3> HIDE DEF c
    <3> DEFINE n == Len(f)
    <3>2. n \in Nat /\ DOMAIN f = 1..n /\ DOMAIN h = 1..(n + 1) /\ Len(h) = n + 1 /\ c \in 1..n
      BY <2>0, <2>1, <3>1, LineTypes
    <3>3. /\ Len(g) = n + 1 - c + 1
          /\ \A i \in DOMAIN g : i + (c - 1) \in DOMAIN h /\ g[i] = h[i + (c - 1)]
      <4>1. c \in DOMAIN h
        BY <3>2
      <4> QED BY <2>1, <3>1, <3>2, <4>1, TailOf
    <3> HIDE DEF n
    <3>4. DOMAIN g = 1..(n + 1 - c + 1) /\ 1 \in DOMAIN g /\ g[1] = f[c]
      <4>1. DOMAIN g = 1..(n + 1 - c + 1)
        BY <2>0, <3>3, LineTypes
      <4>2. 1 \in DOMAIN g /\ 1 + (c - 1) = c
        BY <3>2, <4>1
      <4> QED BY <2>1, <3>1, <3>3, <4>1, <4>2
    <3>5. Max(Statements(g)) = 1 /\ Statements(g) # {}
      <4>1. 1 \in Statements(g)
        BY <2>0, <3>1, <3>4, StatementsOf
      <4>2. \A i \in Statements(g) : i \in DOMAIN g /\ i + (c - 1) \in Statements(f)
        BY <2>0, <2>1, <3>3, StatementsOf
      <4>3. \A i \in Statements(g) : i = 1
        BY <3>1, <3>2, <3>4, <4>2
      <4> QED BY <2>0, <4>1, <4>3, NewestStatement
    <3>6. LastStamp(g, 1) = LastStamp(f, c)
      <4>1. LastStamp(g, 1) \in Nat /\ LastStamp(f, c) \in Nat
        BY <2>0, <3>1, <3>4, LastStampOf
      <4>a. /\ \A j \in DOMAIN f : j > c /\ f[j].kind \in Timed => f[j].t <= LastStamp(f, c)
            /\ f[c].t <= LastStamp(f, c)
        BY <2>0, <3>1, LastStampOf
      <4>b. /\ \A i \in DOMAIN g : i > 1 /\ g[i].kind \in Timed => g[i].t <= LastStamp(g, 1)
            /\ g[1].t <= LastStamp(g, 1)
        BY <2>0, <3>4, LastStampOf
      <4>2. LastStamp(f, c) <= LastStamp(g, 1)
        <5>1. CASE LastStamp(f, c) = f[c].t
          BY <3>4, <4>b, <5>1
        <5>2. ASSUME NEW j \in DOMAIN f, j > c, f[j].kind \in Timed, LastStamp(f, c) = f[j].t
              PROVE  LastStamp(f, c) <= LastStamp(g, 1)
          <6> DEFINE i == j - (c - 1)
          <6>1. i \in DOMAIN g /\ i > 1 /\ i + (c - 1) = j
            BY <3>2, <3>4, <5>2
          <6>2. g[i] = f[j]
            BY <2>1, <3>3, <6>1
          <6> HIDE DEF i
          <6> QED BY <4>b, <5>2, <6>1, <6>2
        <5>3. LastStamp(f, c) = f[c].t
                \/ \E j \in DOMAIN f : j > c /\ f[j].kind \in Timed /\ LastStamp(f, c) = f[j].t
          BY <2>0, <3>1, LastStampOf
        <5> QED BY <5>1, <5>2, <5>3
      <4>3. LastStamp(g, 1) <= LastStamp(f, c)
        <5>0. f[c].t <= LastStamp(f, c) /\ f[c].kind \in Timed
          BY <3>1, <4>a DEF Timed
        <5>1. CASE LastStamp(g, 1) = g[1].t
          BY <3>4, <5>0, <5>1
        <5>2. ASSUME NEW i \in DOMAIN g, i > 1, g[i].kind \in Timed, LastStamp(g, 1) = g[i].t
              PROVE  LastStamp(g, 1) <= LastStamp(f, c)
          <6> DEFINE j == i + (c - 1)
          <6>1. j \in 1..(n + 1) /\ j > c /\ g[i] = h[j]
            BY <3>2, <3>3, <3>4, <5>2
          <6> HIDE DEF j
          <6>2. CASE j \in DOMAIN f
            BY <2>1, <4>a, <5>2, <6>1, <6>2
          <6>3. CASE j = n + 1
            <7>1. LastStamp(g, 1) = SealStamp(f)
              BY <2>1, <3>2, <5>2, <6>1, <6>3
            <7>2. CASE SealStamp(f) = 0
              BY <4>1, <7>1, <7>2
            <7>3. ASSUME NEW k \in DOMAIN f, f[k].kind \in Timed, SealStamp(f) = f[k].t
                  PROVE  LastStamp(g, 1) <= LastStamp(f, c)
              <8>1. CASE k > c
                BY <4>a, <7>1, <7>3, <8>1
              <8>2. CASE k = c
                BY <5>0, <7>1, <7>3, <8>2
              <8>3. CASE k < c
                <9>1. f[k].t <= f[c].t
                  BY <2>0, <3>1, <5>0, <7>3, <8>3 DEF InOrder
                <9>2. f[k].t \in Nat /\ f[c].t \in Nat
                  BY <2>0, <3>1, LineTypes
                <9> QED BY <4>1, <5>0, <7>1, <7>3, <9>1, <9>2
              <8> QED BY <3>2, <8>1, <8>2, <8>3
            <7>4. SealStamp(f) = 0 \/ \E k \in DOMAIN f : f[k].kind \in Timed /\ SealStamp(f) = f[k].t
              BY <2>0, SealStampOf
            <7> QED BY <7>2, <7>3, <7>4
          <6> QED BY <3>2, <6>1, <6>2, <6>3
        <5>3. LastStamp(g, 1) = g[1].t
                \/ \E i \in DOMAIN g : i > 1 /\ g[i].kind \in Timed /\ LastStamp(g, 1) = g[i].t
          BY <2>0, <3>4, LastStampOf
        <5> QED BY <5>1, <5>2, <5>3
      <4> QED BY <4>1, <4>2, <4>3
    <3> QED BY <2>0, <3>1, <3>4, <3>5, <3>6, EndOf
  <2> QED BY <2>2, <2>3
<1> QED BY <1>1, <1>2 DEF Sealed

(* What is honest to an instant is honest to a later one.                  *)
LEMMA LaterLimit ==
  ASSUME NEW f \in Seq(Lines), NEW m \in Nat, NEW n \in Nat, m <= n, Honest(f, m) PROVE Honest(f, n)
<1> SUFFICES ASSUME NEW i \in Statements(f), NEW j \in DOMAIN f PROVE f[i].utc + f[j].t <= n + f[i].t
  BY DEF Honest
<1>1. f[i].utc + f[j].t <= m + f[i].t
  BY DEF Honest
<1>2. f[i].utc \in Nat /\ f[i].t \in Nat /\ f[j].t \in Nat
  BY StatementsOf, LineTypes
<1> QED BY <1>1, <1>2

OfBoot(f, boot, up, honest) ==
  /\ \A j \in DOMAIN f : f[j].t <= up
  /\ honest => \A i \in Statements(f) : f[i].utc <= boot + f[i].t

(* Lines of this boot state no time later than now.                        *)
LEMMA OfBootIsHonest ==
  ASSUME NEW f \in Seq(Lines), NEW boot \in Nat, NEW up \in Nat, OfBoot(f, boot, up, TRUE)
  PROVE  Honest(f, boot + up)
<1> SUFFICES ASSUME NEW i \in Statements(f), NEW j \in DOMAIN f PROVE f[i].utc + f[j].t <= boot + up + f[i].t
  BY DEF Honest
<1>1. f[i].utc <= boot + f[i].t /\ f[j].t <= up
  BY DEF OfBoot
<1>2. f[i].utc \in Nat /\ f[i].t \in Nat /\ f[j].t \in Nat
  BY StatementsOf, LineTypes
<1> QED BY <1>1, <1>2

FreshLine(l, boot, up, honest) ==
  /\ l.t <= up /\ (l.kind \in Timed => l.t = up)
  /\ honest /\ l.kind \in {"clock", "utc"} => l.utc <= boot + l.t
Fresh(ls, boot, up, honest) == ls \in Seq(Lines) /\ \A j \in DOMAIN ls : FreshLine(ls[j], boot, up, honest)

(* A file that gets fresh lines stays ordered and honest.                  *)
LEMMA Grown ==
  ASSUME NEW f \in Files, NEW ls, NEW boot \in Nat, NEW up \in Nat, NEW honest,
         OfBoot(f, boot, up, honest), Fresh(ls, boot, up, honest)
  PROVE  LET g == f \o ls
         IN  /\ g \in Seq(Lines) /\ Len(g) = Len(f) + Len(ls) /\ InOrder(g) /\ OfBoot(g, boot, up, honest)
             /\ (honest => Honest(g, boot + up))
             /\ (ls = <<>> => g = f) /\ (ls # <<>> => g # <<>> /\ Last(g) = Last(ls))
<1> DEFINE g == f \o ls
           m == Len(f)
           n == Len(ls)
<1>0. /\ f \in Seq(Lines) /\ InOrder(f) /\ ls \in Seq(Lines) /\ m \in Nat /\ n \in Nat
      /\ DOMAIN f = 1..m /\ DOMAIN ls = 1..n
  BY LineTypes DEF Files, Fresh
<1>1. /\ g \in Seq(Lines) /\ Len(g) = m + n /\ DOMAIN g = 1..(m + n)
      /\ \A i \in 1..m : g[i] = f[i]
      /\ \A i \in 1..(m + n) : i \notin 1..m => i - m \in 1..n /\ i > m /\ g[i] = ls[i - m]
  BY <1>0
<1>2. (ls = <<>> => g = f) /\ (ls # <<>> => g # <<>> /\ Last(g) = Last(ls))
  <2>1. ls = <<>> => g = f
    BY <1>0
  <2>2. ASSUME ls # <<>> PROVE n > 0
    BY <1>0, <2>2
  <2>3. ASSUME ls # <<>> PROVE m + n \in 1..(m + n) /\ m + n \notin 1..m /\ m + n - m = n
    BY <1>0, <2>2, <2>3
  <2>4. ASSUME ls # <<>> PROVE g # <<>> /\ Last(g) = Last(ls)
    BY <1>1, <2>3, <2>4 DEF Last
  <2> QED BY <2>1, <2>4
<1> HIDE DEF g, m, n
<1>3. \A i \in 1..m : f[i].t <= up /\ (honest /\ f[i].kind \in {"clock", "utc"} => f[i].utc <= boot + f[i].t)
  BY <1>0, StatementsOf DEF OfBoot
<1>4. \A i \in 1..n : FreshLine(ls[i], boot, up, honest)
  BY <1>0 DEF Fresh
<1>5. \A i \in 1..(m + n) : g[i].t <= up /\ (honest /\ g[i].kind \in {"clock", "utc"} => g[i].utc <= boot + g[i].t)
  BY <1>1, <1>3, <1>4 DEF FreshLine
<1>6. OfBoot(g, boot, up, honest)
  BY <1>1, <1>5, StatementsOf DEF OfBoot
<1>7. InOrder(g)
  <2> SUFFICES ASSUME NEW i \in DOMAIN g, NEW j \in DOMAIN g, i < j, g[i].kind \in Timed, g[j].kind \in Timed
               PROVE  g[i].t <= g[j].t
    BY DEF InOrder
  <2>1. CASE j \in 1..m
    <3>1. i \in 1..m
      BY <1>0, <1>1, <2>1
    <3> QED BY <1>0, <1>1, <2>1, <3>1 DEF InOrder
  <2>2. CASE j \notin 1..m
    <3>1. g[j].t = up
      BY <1>1, <1>4, <2>2 DEF FreshLine
    <3> QED BY <1>1, <1>5, <3>1
  <2> QED BY <2>1, <2>2
<1>8. honest => Honest(g, boot + up)
  BY <1>1, <1>6, OfBootIsHonest DEF OfBoot
<1> QED BY <1>1, <1>2, <1>6, <1>7, <1>8 DEF g, m, n

(* A front of a file is as ordered and as honest as the file.              *)
LEMMA CutShort ==
  ASSUME NEW f \in Files, ~EndsClosed(f), NEW n \in 0..Len(f)
  PROVE  /\ SubSeq(f, 1, n) \in Files
         /\ \A limit \in Nat : Honest(f, limit) => Honest(SubSeq(f, 1, n), limit)
<1> DEFINE g == SubSeq(f, 1, n)
<1>0. f \in Seq(Lines) /\ InOrder(f) /\ Fits(f) /\ Len(f) \in Nat /\ DOMAIN f = 1..Len(f)
  BY LineTypes DEF Files
<1>1. \A i \in 1..n : i \in 1..Len(f) /\ f[i] \in Lines
  BY <1>0, LineTypes
<1>2. g \in Seq(Lines) /\ Len(g) = n /\ \A i \in 1..n : g[i] = f[i]
  <2>1. n \in Int /\ 1 \in Int /\ n - 1 + 1 = n /\ (IF 1 <= n THEN n - 1 + 1 ELSE 0) = n
    BY <1>0
  <2>2. \A i \in 1..n : 1 + i - 1 = i
    BY <1>0
  <2> QED BY <1>1, <2>1, <2>2, SubSeqProperties
<1> HIDE DEF g
<1>3. \A i \in DOMAIN g : i + 0 \in DOMAIN f /\ g[i] = f[i + 0]
  BY <1>0, <1>1, <1>2
<1>4. InOrder(g) /\ \A limit \in Nat : Honest(f, limit) => Honest(g, limit)
  BY <1>0, <1>2, <1>3, Window
<1>5. Fits(g)
  BY <1>0, <1>2, ClockAssumption DEF Fits
<1> QED BY <1>2, <1>4, <1>5 DEF Files, g

(* What the tails say is no later than the limit the files are honest to.  *)
LEMMA CardEndOf ==
  ASSUME logs \in Seq(Files)
  PROVE  CardEnd \in Readings
         /\ \A limit \in Nat : (\A k \in DOMAIN logs : Honest(logs[k], limit)) => CardEnd.utc <= limit
<1> DEFINE stating == {i \in DOMAIN logs : End(logs[i]) # NoPoint}
<1>0. \A k \in DOMAIN logs : logs[k] \in Seq(Lines)
  BY DEF Files
<1>1. CASE stating = {}
  BY <1>1 DEF CardEnd, NoPoint, Readings, Bases, Sources
<1>2. CASE stating # {}
  <2>1. stating \in SUBSET Nat /\ IsFiniteSet(stating)
    <3>1. IsFiniteSet(1..Len(logs)) /\ stating \subseteq 1..Len(logs) /\ 1..Len(logs) \subseteq Nat
      BY FS_Interval
    <3> QED BY <3>1, FS_Subset
  <2>2. CardEnd = End(logs[Max(stating)])
    BY <1>2 DEF CardEnd
  <2>3. \A i \in stating : i \in DOMAIN logs
    OBVIOUS
  <2> HIDE DEF stating
  <2>4. Max(stating) \in DOMAIN logs
    BY <1>2, <2>1, <2>3, MaxIsIn
  <2> QED BY <1>0, <2>2, <2>4, EndReading
<1> QED BY <1>1, <1>2

ClockTypes ==
  /\ now \in Nat /\ Start <= now /\ now <= MaxNow /\ bootAt \in Nat /\ Start <= bootAt /\ bootAt <= now
  /\ sys \in Nat /\ rtc \in {"unknown", "synced", "drifted"} /\ wake \in {"power_on", "deep_sleep", "other"}
  /\ dev \in Devs /\ past \in Pasts /\ logs \in Seq(Files) /\ Len(logs) <= TailFiles
Limit == IF dev.step = "unmounted" THEN bootAt ELSE now
LogsInv ==
  /\ ~past.ahead => \A k \in DOMAIN logs : Honest(logs[k], Limit)
  /\ dev.step = "open" => /\ logs # <<>> /\ ~EndsClosed(Last(logs))
                         /\ OfBoot(Last(logs), bootAt, Up, ~past.ahead)
Sound(p, boot, up, honest) == p.t <= up /\ (honest => p.utc <= boot + p.t)
PointsInv ==
  /\ Sound(dev.best, bootAt, Up, ~past.ahead) /\ Sound(dev.floor, bootAt, Up, ~past.ahead)
  /\ Sound(dev.anchor, bootAt, Up, ~past.ahead)
  /\ Sound(dev.decided.best, bootAt, Up, ~past.ahead) /\ Sound(dev.decided.floor, bootAt, Up, ~past.ahead)
SysInv ==
  /\ sys = dev.setup + Up \/ (sys = now /\ ~past.slept /\ ~past.forgot)
  /\ ~past.slept => sys = now \/ sys <= now - Start
  /\ ~past.ahead => sys <= now
Label(p) ==
  p.basis = "utc" =>
    Project(p, Up) = now \/ (past.forgot /\ dev.setup # 0 /\ Project(p, Up) = dev.setup + Up)
LabelInv ==
  /\ Label(dev.best) /\ (Synced \/ Label(dev.decided.best))
  /\ past.slept /\ ~past.forgot /\ wake = "other" /\ dev.step = "unmounted" => rtc = "drifted"
  /\ dev.marking => ~past.slept
  /\ ~past.ahead => ~dev.back
ClockInv == ClockTypes /\ LogsInv /\ PointsInv /\ SysInv /\ LabelInv

(* What the variables hold.                                                *)
LEMMA ClockValues ==
  ASSUME ClockTypes
  PROVE  /\ Up \in Nat /\ now = bootAt + Up /\ Up < MinEpoch
         /\ dev.step \in Steps /\ dev.setup \in Nat /\ dev.decided \in Decisions
         /\ dev.best \in Readings /\ dev.floor \in Readings /\ dev.anchor \in Readings
         /\ dev.decided.best \in Readings /\ dev.decided.floor \in Readings
         /\ dev.unsaid \in BOOLEAN /\ dev.marking \in BOOLEAN /\ dev.back \in BOOLEAN
         /\ past.slept \in BOOLEAN /\ past.forgot \in BOOLEAN /\ past.ahead \in BOOLEAN
<1>1. Up \in Nat /\ now = bootAt + Up /\ Up < MinEpoch
  BY ClockAssumption DEF ClockTypes, Up
<1>2. dev \in Devs /\ past \in Pasts
  BY DEF ClockTypes
<1>3. \A d \in Decisions : d.best \in Readings /\ d.floor \in Readings
  BY DEF Decisions
<1>4. /\ dev.step \in Steps /\ dev.setup \in Nat /\ dev.decided \in Decisions
      /\ dev.best \in Readings /\ dev.floor \in Readings /\ dev.anchor \in Readings
      /\ dev.unsaid \in BOOLEAN /\ dev.marking \in BOOLEAN /\ dev.back \in BOOLEAN
  BY <1>2 DEF Devs
<1>5. past.slept \in BOOLEAN /\ past.forgot \in BOOLEAN /\ past.ahead \in BOOLEAN
  BY <1>2 DEF Pasts
<1> QED BY <1>1, <1>3, <1>4, <1>5

(* What a reading is made of.                                              *)
LEMMA ReadingTypes ==
  ASSUME NEW p \in Readings PROVE p.t \in Nat /\ p.utc \in Nat /\ p.basis \in Bases
BY DEF Readings

(* The invalid reading is one.                                             *)
LEMMA NoReading == NoPoint \in Readings /\ NoPoint.t = 0 /\ NoPoint.utc = 0 /\ NoPoint.basis = "none"
BY DEF NoPoint, Readings, Bases, Sources

(* The empty decision is one.                                              *)
LEMMA NothingDecided ==
  NoDecision \in Decisions /\ NoDecision.best = NoPoint /\ NoDecision.floor = NoPoint
BY NoReading DEF NoDecision, Decisions

(* What setup() leaves in RAM.                                             *)
LEMMA FreshRamOf ==
  ASSUME NEW u \in Nat
  PROVE  /\ FreshRam(u) \in Devs /\ FreshRam(u).step = "unmounted" /\ FreshRam(u).setup = u
         /\ FreshRam(u).best = NoPoint /\ FreshRam(u).floor = NoPoint /\ FreshRam(u).anchor = NoPoint
         /\ FreshRam(u).decided = NoDecision /\ FreshRam(u).marking = FALSE /\ FreshRam(u).back = FALSE
<1>1. FreshRam(u) \in Devs
  BY NoReading, NothingDecided DEF FreshRam, Devs, Steps
<1>2. /\ FreshRam(u).step = "unmounted" /\ FreshRam(u).setup = u
      /\ FreshRam(u).best = NoPoint /\ FreshRam(u).floor = NoPoint /\ FreshRam(u).anchor = NoPoint
      /\ FreshRam(u).decided = NoDecision /\ FreshRam(u).marking = FALSE /\ FreshRam(u).back = FALSE
  BY DEF FreshRam
<1> QED BY <1>1, <1>2

FreshlyBooted == ClockTypes /\ dev = FreshRam(sys) /\ now = bootAt
NothingClaimed ==
  /\ PointsInv /\ sys = dev.setup + Up /\ Label(dev.best) /\ Label(dev.decided.best)
  /\ dev.marking = FALSE /\ dev.back = FALSE /\ dev.step = "unmounted"

(* A boot claims nothing yet.                                              *)
LEMMA FreshBoot == FreshlyBooted => NothingClaimed
<1> SUFFICES ASSUME FreshlyBooted PROVE NothingClaimed
  OBVIOUS
<1>1. /\ dev.step = "unmounted" /\ dev.setup = sys /\ dev.best = NoPoint /\ dev.floor = NoPoint
      /\ dev.anchor = NoPoint /\ dev.decided = NoDecision /\ dev.marking = FALSE /\ dev.back = FALSE
      /\ sys \in Nat /\ bootAt \in Nat /\ Up = 0
  <2>1. sys \in Nat /\ bootAt \in Nat /\ dev = FreshRam(sys) /\ Up = 0
    BY DEF FreshlyBooted, ClockTypes, Up
  <2> QED BY <2>1, FreshRamOf
<1>2. PointsInv
  BY <1>1, NoReading, NothingDecided DEF PointsInv, Sound
<1>3. Label(dev.best) /\ Label(dev.decided.best)
  BY <1>1, NoReading, NothingDecided DEF Label
<1> QED BY <1>1, <1>2, <1>3 DEF NothingClaimed

(* The first boot.                                                         *)
LEMMA InitClock == ClockInit => ClockInv
<1> SUFFICES ASSUME ClockInit PROVE ClockInv
  OBVIOUS
<1>1. ClockTypes
  <2>1. past \in Pasts
    BY DEF ClockInit, Pasts
  <2>2. dev \in Devs
    BY FreshRamOf DEF ClockInit
  <2>3. logs \in Seq(Files) /\ Len(logs) <= TailFiles
    BY ClockAssumption DEF ClockInit
  <2> QED BY <2>1, <2>2, <2>3, ClockAssumption DEF ClockInit, ClockTypes
<1>2. NothingClaimed
  BY <1>1, FreshBoot DEF ClockInit, FreshlyBooted
<1>3. past.slept = FALSE /\ logs = <<>> /\ sys = 0 /\ now = Start
  BY DEF ClockInit
<1>4. LogsInv
  BY <1>2, <1>3 DEF LogsInv, NothingClaimed
<1>5. SysInv
  BY <1>2, <1>3, ClockAssumption DEF SysInv, NothingClaimed
<1>6. LabelInv
  BY <1>2, <1>3 DEF LabelInv, NothingClaimed
<1> QED BY <1>1, <1>2, <1>4, <1>5, <1>6 DEF ClockInv, NothingClaimed

(* A step that leaves the files, the environment and the history alone.    *)

(* A step that leaves the files, the environment and the history alone.    *)
LEMMA LogsSame ==
  ASSUME ClockInv, UNCHANGED <<now, bootAt, logs>>, past'.ahead = past.ahead,
         dev'.step = "unmounted" <=> dev.step = "unmounted", dev'.step = "open" => dev.step = "open"
  PROVE  LogsInv'
BY DEF ClockInv, LogsInv, Limit, Up

(* A step that writes the newest file.                                     *)
LEMMA LogsWritten ==
  ASSUME ClockInv, dev.step = "open", NEW g \in Files, logs' = [logs EXCEPT ![Len(logs)] = g],
         ~past.ahead => Honest(g, now), dev'.step # "unmounted",
         dev'.step = "open" => ~EndsClosed(g) /\ OfBoot(g, bootAt, Up, ~past.ahead),
         UNCHANGED <<now, bootAt>>, past'.ahead = past.ahead
  PROVE  LogsInv' /\ logs' \in Seq(Files) /\ Len(logs') = Len(logs)
<1>1. logs \in Seq(Files) /\ logs # <<>> /\ Limit = now
  BY DEF ClockInv, ClockTypes, LogsInv, Limit
<1>2. /\ Len(logs) \in DOMAIN logs /\ logs' \in Seq(Files) /\ Len(logs') = Len(logs) /\ DOMAIN logs' = DOMAIN logs
      /\ logs' # <<>> /\ Last(logs') = g
      /\ \A k \in DOMAIN logs : logs'[k] = IF k = Len(logs) THEN g ELSE logs[k]
  BY <1>1 DEF Last
<1>3. LogsInv'
  BY <1>1, <1>2 DEF ClockInv, LogsInv, Limit, Up, Last
<1> QED BY <1>2, <1>3

(* What a step that keeps the time and the points keeps.                   *)

(* A step that keeps the time and the readings.                            *)
LEMMA PointsSame ==
  ASSUME ClockInv, UNCHANGED <<now, bootAt>>, past'.ahead = past.ahead, dev'.best = dev.best,
         dev'.floor = dev.floor, dev'.anchor = dev.anchor, dev'.decided = dev.decided
  PROVE  PointsInv'
BY DEF ClockInv, PointsInv, Up

(* The floor is an estimate and no later than the true time.               *)
LEMMA FloorOf ==
  ASSUME ClockInv, dev.step = "unmounted"
  PROVE  /\ Floor(CardEnd) \in Readings /\ Floor(CardEnd).basis = "est"
         /\ Sound(Floor(CardEnd), bootAt, Up, ~past.ahead)
<1> DEFINE card == CardEnd
<1>1. card \in Readings /\ (~past.ahead => card.utc <= bootAt)
  BY CardEndOf DEF ClockInv, ClockTypes, LogsInv, Limit
<1> HIDE DEF card
<1>2. card.utc \in Nat /\ Build \in Nat /\ Build <= bootAt /\ bootAt \in Nat /\ Up \in Nat
  BY <1>1, ReadingTypes, ClockValues, ClockAssumption DEF ClockInv, ClockTypes
<1>3. CASE card # NoPoint /\ card.utc >= Build
  <2>1. Floor(card) = [t |-> 0, utc |-> card.utc, basis |-> "est", src |-> "card"]
    BY <1>3 DEF Floor
  <2> QED BY <1>1, <1>2, <2>1 DEF Readings, Bases, Sources, Sound, card
<1>4. CASE ~(card # NoPoint /\ card.utc >= Build)
  <2>1. Floor(card) = [t |-> 0, utc |-> Build, basis |-> "est", src |-> "build"]
    BY <1>4 DEF Floor
  <2> QED BY <1>2, <2>1 DEF Readings, Bases, Sources, Sound, card
<1> QED BY <1>3, <1>4

(* The decision of a boot is sound, and utc only where the system clock    *)
(* is.                                                                     *)
LEMMA DecideOf ==
  ASSUME ClockInv, dev.step = "unmounted", NEW floor \in Readings, floor.basis = "est",
         Sound(floor, bootAt, Up, ~past.ahead)
  PROVE  Decide(floor) \in Readings /\ Sound(Decide(floor), bootAt, Up, ~past.ahead) /\ Label(Decide(floor))
<1>0. sys \in Nat /\ Up \in Nat /\ now = bootAt + Up /\ Up < MinEpoch /\ (~past.ahead => sys <= now)
      /\ bootAt \in Nat /\ dev.setup \in Nat /\ Start <= bootAt /\ Start \in Nat /\ MinEpoch \in Nat
      /\ now \in Nat /\ now - Start < MinEpoch
  BY ClockValues, ClockAssumption DEF ClockInv, ClockTypes, SysInv
<1>1. CASE wake = "power_on" \/ ~Plausible(floor)
  BY <1>1 DEF Decide, Label
<1>2. CASE wake # "power_on" /\ Plausible(floor) /\ (wake = "deep_sleep" \/ rtc = "drifted")
  <2>1. Decide(floor) = [t |-> Up, utc |-> sys, basis |-> "drift", src |-> "sleep"]
    BY <1>2 DEF Decide
  <2> QED BY <1>0, <2>1 DEF Readings, Bases, Sources, Sound, Label
<1>3. CASE wake # "power_on" /\ Plausible(floor) /\ ~(wake = "deep_sleep" \/ rtc = "drifted")
  <2>1. Decide(floor) = [t |-> Up, utc |-> sys, basis |-> "utc", src |-> "warm"]
    BY <1>3 DEF Decide
  <2> DEFINE d == [t |-> Up, utc |-> sys, basis |-> "utc", src |-> "warm"]
  <2>2. d \in Readings /\ Sound(d, bootAt, Up, ~past.ahead)
    BY <1>0 DEF Readings, Bases, Sources, Sound
  <2>3. Project(d, Up) = sys
    BY <1>0 DEF Project
  <2>4. sys >= MinEpoch
    <3>1. sys >= Max({Build, MinEpoch})
      BY <1>3 DEF Plausible
    <3> QED BY <1>0, <3>1, MaxOfTwo, ClockAssumption
  <2>5. past.slept => past.forgot
    BY <1>3, ClockValues DEF ClockInv, ClockTypes, LabelInv
  <2>6. sys = now \/ (past.forgot /\ dev.setup # 0 /\ sys = dev.setup + Up)
    BY <1>0, <2>4, <2>5, ClockValues DEF ClockInv, SysInv
  <2>7. Label(d)
    <3> HIDE DEF d
    <3> QED BY <2>3, <2>6 DEF Label
  <2> QED BY <2>1, <2>2, <2>7
<1> QED BY <1>1, <1>2, <1>3

(* LearnBegin: the tails are read, the torn files sealed, the clock        *)
(* decided.                                                                *)
LEMMA LearnBeginKeeps == ASSUME ClockInv, LearnBegin PROVE ClockInv'
<1> DEFINE floor == Floor(CardEnd)
           d == [best |-> Decide(floor), floor |-> floor]
<1>1. /\ dev.step = "unmounted" /\ dev' = [dev EXCEPT !.step = "decided", !.decided = d]
      /\ UNCHANGED <<now, bootAt, sys, rtc, wake, past>>
      /\ DOMAIN logs' = DOMAIN logs /\ \A i \in DOMAIN logs : logs'[i] \in Sealed(logs[i])
      /\ logs' \in [DOMAIN logs -> UNION {Sealed(logs[i]) : i \in DOMAIN logs}]
  BY DEF LearnBegin
<1>2. /\ floor \in Readings /\ Sound(floor, bootAt, Up, ~past.ahead) /\ floor.basis = "est"
      /\ Decide(floor) \in Readings /\ Sound(Decide(floor), bootAt, Up, ~past.ahead) /\ Label(Decide(floor))
  BY <1>1, FloorOf, DecideOf
<1> HIDE DEF floor
<1>3. d \in Decisions /\ d.best = Decide(floor) /\ d.floor = floor
  BY <1>2 DEF Decisions
<1> HIDE DEF d
<1>4. /\ dev' \in Devs /\ dev'.step = "decided" /\ dev'.decided = d /\ dev'.setup = dev.setup /\ dev'.best = dev.best
      /\ dev'.floor = dev.floor /\ dev'.anchor = dev.anchor /\ dev'.marking = dev.marking /\ dev'.back = dev.back
  <2>1. dev \in Devs /\ "decided" \in Steps
    BY DEF ClockInv, ClockTypes, Steps
  <2> QED BY <1>1, <1>3, <2>1 DEF Devs
<1>5. /\ logs' \in Seq(Files) /\ Len(logs') = Len(logs)
      /\ \A k \in DOMAIN logs : \A limit \in Nat : Honest(logs[k], limit) => Honest(logs'[k], limit)
  <2>1. logs \in Seq(Files) /\ DOMAIN logs = 1..Len(logs) /\ Len(logs) \in Nat
    BY DEF ClockInv, ClockTypes
  <2>2. /\ \A k \in DOMAIN logs : logs'[k] \in Files
        /\ \A k \in DOMAIN logs : \A limit \in Nat : Honest(logs[k], limit) => Honest(logs'[k], limit)
    BY <1>1, <2>1, SealedOf
  <2>3. logs' \in [1..Len(logs) -> Files]
    BY <1>1, <2>1, <2>2
  <2> QED BY <2>1, <2>2, <2>3
<1>6. ClockTypes'
  BY <1>1, <1>4, <1>5 DEF ClockInv, ClockTypes
<1>7. LogsInv'
  <2>1. ASSUME ~past.ahead, NEW k \in DOMAIN logs' PROVE Honest(logs'[k], now)
    <3>1. k \in DOMAIN logs /\ logs'[k] \in Seq(Lines) /\ bootAt \in Nat /\ now \in Nat /\ bootAt <= now
      BY <1>1, <1>5 DEF ClockInv, ClockTypes, Files
    <3>2. Honest(logs[k], bootAt)
      BY <1>1, <2>1, <3>1 DEF ClockInv, LogsInv, Limit
    <3>3. Honest(logs'[k], bootAt)
      BY <1>5, <3>1, <3>2
    <3> QED BY <3>1, <3>3, LaterLimit
  <2> QED BY <1>1, <1>4, <2>1 DEF LogsInv, Limit
<1>8. PointsInv'
  BY <1>1, <1>2, <1>3, <1>4 DEF ClockInv, PointsInv, Up
<1>9. SysInv'
  BY <1>1, <1>4 DEF ClockInv, SysInv, Up
<1>10. LabelInv'
  BY <1>1, <1>2, <1>3, <1>4 DEF ClockInv, LabelInv, Label, Up, Synced
<1> QED BY <1>6, <1>7, <1>8, <1>9, <1>10 DEF ClockInv

(* LearnPublish: the decision is published unless a sync came first.       *)
LEMMA LearnPublishKeeps == ASSUME ClockInv, LearnPublish PROVE ClockInv'
<1> DEFINE d == dev.decided
           step == IF Synced THEN "ready" ELSE "published"
           best == IF Synced THEN dev.best ELSE d.best
           reading == ~Synced /\ d.best.basis = "utc"
           anchor == IF reading THEN d.best ELSE dev.anchor
           unsaid == dev.unsaid \/ reading
           decided == IF Synced THEN NoDecision ELSE d
<1>1. /\ dev.step = "decided" /\ UNCHANGED <<now, bootAt, sys, rtc, wake, logs, past>>
      /\ dev' = [dev EXCEPT !.step = step, !.floor = d.floor, !.best = best, !.anchor = anchor,
                            !.unsaid = unsaid, !.decided = decided]
  BY DEF LearnPublish
<1>2. /\ d \in Decisions /\ d.best \in Readings /\ d.floor \in Readings /\ dev.best \in Readings
      /\ dev.anchor \in Readings /\ dev \in Devs
  BY ClockValues DEF ClockInv, ClockTypes
<1>3. step \in Steps \ {"open", "unmounted"} /\ best \in Readings /\ anchor \in Readings /\ unsaid \in BOOLEAN
      /\ decided \in Decisions
  BY <1>2, NothingDecided, ClockValues DEF Steps, ClockInv
<1>4. /\ Sound(d.floor, bootAt, Up, ~past.ahead) /\ Sound(best, bootAt, Up, ~past.ahead)
      /\ Sound(anchor, bootAt, Up, ~past.ahead) /\ Sound(decided.best, bootAt, Up, ~past.ahead)
      /\ Sound(decided.floor, bootAt, Up, ~past.ahead)
  <2>1. Sound(NoPoint, bootAt, Up, ~past.ahead)
    BY NoReading, ClockValues DEF ClockInv, ClockTypes, Sound
  <2> QED BY <2>1, NothingDecided DEF ClockInv, PointsInv
<1>5. Label(best) /\ (Synced \/ Label(decided.best)) /\ (anchor = NoPoint => ~Synced)
  BY DEF ClockInv, LabelInv, Synced
<1>6. ~Synced => decided = d
  OBVIOUS
<1> HIDE DEF step, best, anchor, unsaid, decided, d
<1>7. /\ dev' \in Devs /\ dev'.step = step /\ dev'.floor = d.floor /\ dev'.best = best /\ dev'.anchor = anchor
      /\ dev'.decided = decided /\ dev'.setup = dev.setup /\ dev'.marking = dev.marking /\ dev'.back = dev.back
  BY <1>1, <1>2, <1>3 DEF Devs
<1>8. ClockTypes'
  BY <1>1, <1>7 DEF ClockInv, ClockTypes
<1>9. LogsInv'
  BY <1>1, <1>3, <1>7, LogsSame
<1>10. PointsInv'
  BY <1>1, <1>4, <1>7 DEF PointsInv, Up
<1>11. SysInv'
  BY <1>1, <1>7 DEF ClockInv, SysInv, Up
<1>12. LabelInv'
  BY <1>1, <1>3, <1>5, <1>7 DEF ClockInv, LabelInv, Label, Up, Synced
<1> QED BY <1>8, <1>9, <1>10, <1>11, <1>12 DEF ClockInv

(* LearnRecord: the next boot is told what this one knew.                  *)
LEMMA LearnRecordKeeps == ASSUME ClockInv, LearnRecord PROVE ClockInv'
<1>1. /\ dev.step = "published" /\ UNCHANGED <<now, bootAt, sys, wake, logs, past>>
      /\ rtc' \in {"unknown", "synced", "drifted"} /\ dev' = [dev EXCEPT !.step = "ready", !.decided = NoDecision]
  BY DEF LearnRecord, ClockInv, ClockTypes
<1>2. /\ dev' \in Devs /\ dev'.step = "ready" /\ dev'.decided = NoDecision /\ dev'.floor = dev.floor
      /\ dev'.best = dev.best /\ dev'.anchor = dev.anchor
      /\ dev'.setup = dev.setup /\ dev'.marking = dev.marking /\ dev'.back = dev.back
  <2>1. dev \in Devs /\ "ready" \in Steps
    BY DEF ClockInv, ClockTypes, Steps
  <2> QED BY <1>1, <2>1, NothingDecided DEF Devs
<1>3. ClockTypes'
  BY <1>1, <1>2 DEF ClockInv, ClockTypes
<1>4. LogsInv'
  BY <1>1, <1>2, LogsSame
<1>5. PointsInv'
  <2>1. Sound(NoPoint, bootAt, Up, ~past.ahead)
    BY NoReading, ClockValues DEF ClockInv, ClockTypes, Sound
  <2> QED BY <1>1, <1>2, <2>1, NothingDecided DEF ClockInv, PointsInv, Up
<1>6. SysInv'
  BY <1>1, <1>2 DEF ClockInv, SysInv, Up
<1>7. LabelInv'
  BY <1>1, <1>2, NothingDecided, NoReading DEF ClockInv, LabelInv, Label, Up, Synced
<1> QED BY <1>3, <1>4, <1>5, <1>6, <1>7 DEF ClockInv

(* An anchor at the true time: set_utc_anchor by a sync, or by a callback  *)
(* that found the clock set.                                               *)
LEMMA AnchorKeeps ==
  ASSUME ClockInv, SetUtcAnchor(now), UNCHANGED <<now, bootAt, rtc, wake, logs>>, sys' = now,
         past' \in Pasts, past'.slept = FALSE, past'.forgot = FALSE, past'.ahead = past.ahead
  PROVE  ClockInv'
<1> DEFINE p == [t |-> Up, utc |-> now, basis |-> "utc", src |-> "sync"]
           back == dev.back \/ (dev.floor # NoPoint /\ now + Slack < Project(dev.floor, Up))
<1>1. dev' = [dev EXCEPT !.anchor = p, !.best = p, !.unsaid = TRUE, !.marking = TRUE, !.back = back]
  BY DEF SetUtcAnchor
<1>2. /\ Up \in Nat /\ now = bootAt + Up /\ bootAt \in Nat /\ now \in Nat /\ dev \in Devs
      /\ dev.back \in BOOLEAN /\ dev.floor \in Readings
  BY ClockValues DEF ClockInv, ClockTypes
<1>3. p \in Readings /\ Sound(p, bootAt, Up, ~past.ahead) /\ Project(p, Up) = now
  BY <1>2 DEF Readings, Bases, Sources, Sound, Project
<1>4. back \in BOOLEAN /\ (~past.ahead => ~back)
  <2>1. dev.floor.t \in Nat /\ dev.floor.utc \in Nat /\ Slack \in Nat
    BY <1>2, ReadingTypes, ClockAssumption
  <2>2. ~past.ahead => ~dev.back /\ Sound(dev.floor, bootAt, Up, TRUE)
    BY DEF ClockInv, LabelInv, PointsInv, Sound
  <2>3. ~past.ahead => ~(now + Slack < Project(dev.floor, Up))
    BY <1>2, <2>1, <2>2 DEF Sound, Project
  <2> QED BY <1>2, <2>2, <2>3
<1> HIDE DEF p, back
<1>5. /\ dev' \in Devs /\ dev'.step = dev.step /\ dev'.setup = dev.setup /\ dev'.decided = dev.decided
      /\ dev'.best = p /\ dev'.floor = dev.floor /\ dev'.anchor = p /\ dev'.back = back
  BY <1>1, <1>2, <1>3, <1>4 DEF Devs
<1>6. ClockTypes'
  BY <1>2, <1>5 DEF ClockInv, ClockTypes
<1>7. LogsInv'
  BY <1>5, LogsSame
<1>8. PointsInv'
  BY <1>3, <1>5 DEF ClockInv, PointsInv, Up
<1>9. SysInv'
  BY <1>2 DEF SysInv
<1>10. LabelInv'
  <2>1. Label(dev.best)' /\ Synced'
    <3>1. p # NoPoint
      BY DEF p, NoPoint
    <3>2. Project(p, Up') = now'
      BY <1>3 DEF Up
    <3> QED BY <1>5, <3>1, <3>2 DEF Label, Synced
  <2> QED BY <1>4, <1>5, <2>1 DEF LabelInv
<1> QED BY <1>6, <1>7, <1>8, <1>9, <1>10 DEF ClockInv

(* RealSync: a time platform sets the clock and calls back.                *)
LEMMA RealSyncKeeps == ASSUME ClockInv, RealSync PROVE ClockInv'
<1>1. /\ sys' = now /\ past' = [past EXCEPT !.slept = FALSE, !.forgot = FALSE]
      /\ UNCHANGED <<now, bootAt, rtc, wake, logs>>
      /\ (Unstepped(now) /\ UNCHANGED dev) \/ SetUtcAnchor(now)
  BY DEF RealSync, OnTimeSync
<1>2. past' \in Pasts /\ past'.slept = FALSE /\ past'.forgot = FALSE /\ past'.ahead = past.ahead
  BY <1>1 DEF ClockInv, ClockTypes, Pasts
<1>3. CASE SetUtcAnchor(now)
  BY <1>1, <1>2, <1>3, AnchorKeeps
<1>4. CASE Unstepped(now) /\ UNCHANGED dev
  <2>0. now \in Nat
    BY DEF ClockInv, ClockTypes
  <2>1. ClockTypes'
    BY <1>1, <1>2, <1>4, <2>0 DEF ClockInv, ClockTypes
  <2>2. LogsInv' /\ PointsInv'
    BY <1>1, <1>2, <1>4, LogsSame, PointsSame
  <2>3. SysInv'
    BY <1>1, <1>2, <2>0 DEF SysInv
  <2>4. LabelInv'
    BY <1>1, <1>2, <1>4 DEF ClockInv, LabelInv, Label, Up, Synced, Unstepped
  <2> QED BY <2>1, <2>2, <2>3, <2>4 DEF ClockInv
<1> QED BY <1>1, <1>3, <1>4

(* EmptySync: a callback of one that set nothing is no sync, or finds a    *)
(* clock that somebody set right.                                          *)
LEMMA EmptySyncKeeps == ASSUME ClockInv, EmptySync PROVE ClockInv'
<1>1. sys >= MinEpoch /\ OnTimeSync(sys) /\ UNCHANGED <<now, bootAt, sys, rtc, wake, logs, past>>
  BY DEF EmptySync
<1>2. CASE UNCHANGED dev
  BY <1>1, <1>2 DEF ClockInv, ClockTypes, LogsInv, Limit, PointsInv, SysInv, LabelInv, Label, Synced, Up
<1>3. CASE ~Unstepped(sys) /\ SetUtcAnchor(sys)
  <2>1. Up < MinEpoch /\ Up \in Nat /\ MinEpoch \in Nat /\ sys \in Nat /\ dev.setup \in Nat
    BY ClockValues, ClockAssumption DEF ClockInv, ClockTypes
  <2>2. sys # dev.setup + Up
    BY <1>1, <1>3, <2>1 DEF Unstepped
  <2>3. sys = now /\ past.slept = FALSE /\ past.forgot = FALSE
    BY <2>2, ClockValues DEF ClockInv, SysInv
  <2> QED BY <1>1, <1>3, <2>3, AnchorKeeps DEF ClockInv, ClockTypes
<1> QED BY <1>1, <1>2, <1>3 DEF OnTimeSync

(* MarkSynced: the sync is noted in RTC memory.                            *)
LEMMA MarkSyncedKeeps == ASSUME ClockInv, MarkSynced PROVE ClockInv'
<1>1. /\ dev.marking /\ rtc' = "synced" /\ dev' = [dev EXCEPT !.marking = FALSE]
      /\ UNCHANGED <<now, bootAt, sys, wake, logs, past>>
  BY DEF MarkSynced
<1>2. /\ dev' \in Devs /\ dev'.step = dev.step /\ dev'.setup = dev.setup /\ dev'.decided = dev.decided
      /\ dev'.best = dev.best /\ dev'.floor = dev.floor /\ dev'.anchor = dev.anchor /\ dev'.back = dev.back
      /\ dev'.marking = FALSE
  BY <1>1 DEF ClockInv, ClockTypes, Devs
<1>3. ClockTypes'
  BY <1>1, <1>2 DEF ClockInv, ClockTypes
<1>4. LogsInv' /\ PointsInv'
  BY <1>1, <1>2, LogsSame, PointsSame
<1>5. SysInv'
  BY <1>1, <1>2 DEF ClockInv, SysInv, Up
<1>6. LabelInv'
  BY <1>1, <1>2 DEF ClockInv, LabelInv, Label, Up, Synced
<1> QED BY <1>3, <1>4, <1>5, <1>6 DEF ClockInv

(* Fresh lines after fresh lines.                                          *)
LEMMA FreshBoth ==
  ASSUME NEW a, NEW b, NEW boot, NEW up, NEW honest, Fresh(a, boot, up, honest), Fresh(b, boot, up, honest)
  PROVE  /\ Fresh(a \o b, boot, up, honest) /\ Len(a \o b) = Len(a) + Len(b) /\ Len(a) \in Nat /\ Len(b) \in Nat
         /\ ~EndsClosed(a) /\ ~EndsClosed(b) => ~EndsClosed(a \o b)
<1> DEFINE m == Len(a)
           n == Len(b)
           g == a \o b
<1>1. a \in Seq(Lines) /\ b \in Seq(Lines) /\ m \in Nat /\ n \in Nat /\ DOMAIN a = 1..m /\ DOMAIN b = 1..n
  BY LineTypes DEF Fresh
<1>2. /\ g \in Seq(Lines) /\ Len(g) = m + n /\ DOMAIN g = 1..(m + n)
      /\ \A i \in 1..(m + n) : g[i] = IF i <= m THEN a[i] ELSE b[i - m]
  BY <1>1, ConcatProperties
<1>3. ASSUME n = 0 PROVE g = a
  BY <1>1, <1>3, ConcatEmptySeq, EmptySeq
<1> HIDE DEF g, m, n
<1>4. \A i \in 1..m : FreshLine(a[i], boot, up, honest)
  BY <1>1 DEF Fresh
<1>5. \A i \in 1..n : FreshLine(b[i], boot, up, honest)
  BY <1>1 DEF Fresh
<1>6. \A i \in DOMAIN g : FreshLine(g[i], boot, up, honest)
  BY <1>1, <1>2, <1>4, <1>5
<1>7. ASSUME ~EndsClosed(a), ~EndsClosed(b), n # 0 PROVE ~EndsClosed(g)
  <2>1. b # <<>> /\ Last(b) = b[n] /\ Last(g) = g[m + n]
    BY <1>1, <1>2, <1>7 DEF Last, n
  <2>2. g[m + n] = b[n]
    BY <1>1, <1>2, <1>7
  <2> QED BY <1>7, <2>1, <2>2 DEF EndsClosed
<1> QED BY <1>1, <1>2, <1>3, <1>6, <1>7 DEF Fresh, g, m, n

(* The lines the logger writes about the clock are of this boot and sound. *)
LEMMA LinesAreFresh ==
  ASSUME ClockInv
  PROVE  /\ Fresh(ClockLine, bootAt, Up, ~past.ahead) /\ Len(ClockLine) <= 1
         /\ Fresh(UtcLine \o ClockLine, bootAt, Up, ~past.ahead) /\ Len(UtcLine \o ClockLine) <= 2
         /\ \A kind \in {"meta", "close"} : Fresh(<<Meta(kind, Up)>>, bootAt, Up, ~past.ahead)
         /\ \A lines \in {ClockLine, UtcLine \o ClockLine} : ~EndsClosed(lines)
<1>0. /\ dev.best \in Readings /\ dev.anchor \in Readings /\ Up \in Nat /\ bootAt \in Nat
      /\ Sound(dev.best, bootAt, Up, ~past.ahead) /\ Sound(dev.anchor, bootAt, Up, ~past.ahead)
  BY ClockValues DEF ClockInv, ClockTypes, PointsInv
<1>1. /\ dev.best.t \in Nat /\ dev.best.utc \in Nat /\ dev.best.basis \in Bases
      /\ dev.anchor.t \in Nat /\ dev.anchor.utc \in Nat /\ dev.anchor.basis \in Bases
  BY <1>0, ReadingTypes
<1> DEFINE c == Line("clock", At(dev.best, Up))
           u == Line("utc", dev.anchor)
<1>2. c \in Lines /\ c.kind = "clock" /\ FreshLine(c, bootAt, Up, ~past.ahead)
  <2>1. c = [kind |-> "clock", t |-> Up, utc |-> dev.best.utc + (Up - dev.best.t), basis |-> dev.best.basis]
    BY DEF Line, At, Project
  <2>2. dev.best.utc + (Up - dev.best.t) \in Nat
        /\ (~past.ahead => dev.best.utc + (Up - dev.best.t) <= bootAt + Up)
    BY <1>0, <1>1 DEF Sound
  <2> HIDE DEF c
  <2> QED BY <1>0, <1>1, <2>1, <2>2 DEF Lines, Kinds, FreshLine
<1>3. u \in Lines /\ u.kind = "utc" /\ FreshLine(u, bootAt, Up, ~past.ahead)
  <2>1. u = [kind |-> "utc", t |-> dev.anchor.t, utc |-> dev.anchor.utc, basis |-> dev.anchor.basis]
    BY DEF Line
  <2> HIDE DEF u
  <2> QED BY <1>0, <1>1, <2>1 DEF Lines, Kinds, Timed, FreshLine, Sound
<1> HIDE DEF c, u
<1>4. ASSUME NEW l \in Lines, FreshLine(l, bootAt, Up, ~past.ahead)
      PROVE  Fresh(<<l>>, bootAt, Up, ~past.ahead) /\ Len(<<l>>) <= 1 /\ (l.kind # "close" => ~EndsClosed(<<l>>))
  BY <1>4 DEF Fresh, EndsClosed, Last
<1>5. Fresh(<<>>, bootAt, Up, ~past.ahead) /\ Len(<<>>) <= 1 /\ ~EndsClosed(<<>>)
  BY DEF Fresh, EndsClosed
<1>6. Fresh(ClockLine, bootAt, Up, ~past.ahead) /\ Len(ClockLine) <= 1 /\ ~EndsClosed(ClockLine)
  <2>1. ClockLine = <<>> \/ ClockLine = <<c>>
    BY DEF ClockLine, c
  <2>2. Fresh(<<c>>, bootAt, Up, ~past.ahead) /\ Len(<<c>>) <= 1 /\ ~EndsClosed(<<c>>)
    BY <1>2, <1>4
  <2> QED BY <1>5, <2>1, <2>2, Zenon
<1>7. Fresh(UtcLine, bootAt, Up, ~past.ahead) /\ Len(UtcLine) <= 1 /\ ~EndsClosed(UtcLine)
  <2>1. UtcLine = <<>> \/ UtcLine = <<u>>
    BY DEF UtcLine, u
  <2>2. Fresh(<<u>>, bootAt, Up, ~past.ahead) /\ Len(<<u>>) <= 1 /\ ~EndsClosed(<<u>>)
    BY <1>3, <1>4
  <2> QED BY <1>5, <2>1, <2>2, Zenon
<1>8. ASSUME NEW kind \in {"meta", "close"} PROVE Fresh(<<Meta(kind, Up)>>, bootAt, Up, ~past.ahead)
  <2>1. Meta(kind, Up) \in Lines /\ FreshLine(Meta(kind, Up), bootAt, Up, ~past.ahead)
    BY <1>0 DEF Meta, Lines, Kinds, Bases, FreshLine
  <2> QED BY <1>4, <2>1
<1>9. Fresh(UtcLine \o ClockLine, bootAt, Up, ~past.ahead) /\ Len(UtcLine \o ClockLine) <= 2
      /\ ~EndsClosed(UtcLine \o ClockLine)
  BY <1>6, <1>7, FreshBoth
<1> QED BY <1>6, <1>8, <1>9

(* OpenLog: a new file begins with the anchor and the clock.               *)
LEMMA OpenLogKeeps == ASSUME ClockInv, OpenLog PROVE ClockInv'
<1> DEFINE kept == IF Len(logs) = TailFiles THEN Tail(logs) ELSE logs
           g == UtcLine \o ClockLine
<1>1. /\ dev.step = "ready" /\ logs' = Append(kept, g) /\ dev' = [dev EXCEPT !.step = "open", !.unsaid = FALSE]
      /\ past' = [past EXCEPT !.logs = past.logs + 1] /\ UNCHANGED <<now, bootAt, sys, rtc, wake>>
  BY DEF OpenLog
<1>2. /\ logs \in Seq(Files) /\ Len(logs) \in Nat /\ Len(logs) <= TailFiles /\ TailFiles \in Nat \ {0}
      /\ bootAt \in Nat /\ Up \in Nat /\ now = bootAt + Up /\ past.ahead \in BOOLEAN
  BY ClockValues, ClockAssumption DEF ClockInv, ClockTypes
<1>3. g \in Files /\ ~EndsClosed(g) /\ OfBoot(g, bootAt, Up, ~past.ahead) /\ (~past.ahead => Honest(g, now))
  <2>1. Fresh(g, bootAt, Up, ~past.ahead) /\ Len(g) <= 2 /\ ~EndsClosed(g)
    BY LinesAreFresh
  <2> HIDE DEF g
  <2>2. <<>> \in Files /\ OfBoot(<<>>, bootAt, Up, ~past.ahead)
    <3>1. <<>> \in Seq(Lines) /\ DOMAIN <<>> = {} /\ Len(<<>>) = 0
      OBVIOUS
    <3>2. InOrder(<<>>) /\ Fits(<<>>)
      BY <3>1, ClockAssumption DEF InOrder, Fits, EndsClosed
    <3>3. Statements(<<>>) = {}
      BY <3>1 DEF Statements
    <3> QED BY <3>1, <3>2, <3>3 DEF Files, OfBoot
  <2>3. g \in Seq(Lines) /\ <<>> \o g = g /\ Len(g) \in Nat
    BY <2>1, ConcatEmptySeq, LineTypes DEF Fresh
  <2>4. InOrder(g) /\ OfBoot(g, bootAt, Up, ~past.ahead) /\ (~past.ahead => Honest(g, now))
    <3>1. /\ InOrder(<<>> \o g) /\ OfBoot(<<>> \o g, bootAt, Up, ~past.ahead)
          /\ (~past.ahead => Honest(<<>> \o g, bootAt + Up))
      BY <1>2, <2>1, <2>2, Grown
    <3> QED BY <1>2, <2>3, <3>1
  <2>5. Fits(g)
    BY <2>1, <2>3, ClockAssumption DEF Fits
  <2> QED BY <2>1, <2>3, <2>4, <2>5 DEF Files
<1> HIDE DEF g
<1>4. /\ kept \in Seq(Files) /\ Len(kept) \in Nat /\ Len(kept) + 1 <= TailFiles
      /\ \A i \in DOMAIN kept : \E k \in DOMAIN logs : kept[i] = logs[k]
  <2>1. CASE Len(logs) = TailFiles
    <3>1. logs # <<>> /\ kept = Tail(logs)
      BY <1>2, <2>1
    <3>2. /\ Tail(logs) \in Seq(Files) /\ Len(Tail(logs)) = Len(logs) - 1
          /\ \A i \in 1..Len(Tail(logs)) : Tail(logs)[i] = logs[i + 1] /\ i + 1 \in 1..Len(logs)
      BY <1>2, <3>1, HeadTailProperties
    <3> QED BY <1>2, <2>1, <3>1, <3>2
  <2>2. CASE Len(logs) # TailFiles
    BY <1>2, <2>2
  <2> QED BY <2>1, <2>2
<1> HIDE DEF kept
<1>5. /\ logs' \in Seq(Files) /\ Len(logs') <= TailFiles /\ logs' # <<>> /\ Last(logs') = g
      /\ \A i \in DOMAIN logs' : logs'[i] = g \/ \E k \in DOMAIN logs : logs'[i] = logs[k]
  <2>1. /\ logs' \in Seq(Files) /\ Len(logs') = Len(kept) + 1 /\ logs'[Len(kept) + 1] = g
        /\ \A i \in 1..Len(kept) : logs'[i] = kept[i]
    BY <1>1, <1>3, <1>4
  <2>2. \A i \in DOMAIN logs' : i = Len(kept) + 1 \/ i \in DOMAIN kept
    BY <1>4, <2>1
  <2>3. logs' # <<>> /\ Last(logs') = g
    BY <1>4, <2>1 DEF Last
  <2> QED BY <1>4, <2>1, <2>2, <2>3
<1>6. /\ dev' \in Devs /\ dev'.step = "open" /\ dev'.setup = dev.setup /\ dev'.decided = dev.decided
      /\ dev'.best = dev.best /\ dev'.floor = dev.floor /\ dev'.anchor = dev.anchor /\ dev'.back = dev.back
      /\ dev'.marking = dev.marking
  <2>1. dev \in Devs /\ "open" \in Steps
    BY DEF ClockInv, ClockTypes, Steps
  <2> QED BY <1>1, <2>1 DEF Devs
<1>7. past' \in Pasts /\ past'.slept = past.slept /\ past'.forgot = past.forgot /\ past'.ahead = past.ahead
  BY <1>1 DEF ClockInv, ClockTypes, Pasts
<1>8. ClockTypes'
  BY <1>1, <1>5, <1>6, <1>7 DEF ClockInv, ClockTypes
<1>9. LogsInv'
  <2>1. ~past.ahead => \A k \in DOMAIN logs' : Honest(logs'[k], now)
    BY <1>1, <1>3, <1>5 DEF ClockInv, LogsInv, Limit
  <2> QED BY <1>1, <1>3, <1>5, <1>6, <1>7, <2>1 DEF LogsInv, Limit, Up
<1>10. PointsInv'
  BY <1>1, <1>6, <1>7, PointsSame
<1>11. SysInv' /\ LabelInv'
  BY <1>1, <1>6, <1>7 DEF ClockInv, SysInv, LabelInv, Label, Up, Synced
<1> QED BY <1>8, <1>9, <1>10, <1>11 DEF ClockInv

(* Fresh lines at the end of the open file.                                *)
LEMMA WrittenKeeps ==
  ASSUME ClockInv, Roomy, NEW ls, Fresh(ls, bootAt, Up, ~past.ahead), Len(ls) <= 2, ~EndsClosed(ls),
         logs' = Written(ls), UNCHANGED <<now, bootAt, sys, rtc, wake, past>>,
         dev' \in {dev, [dev EXCEPT !.unsaid = FALSE]}
  PROVE  ClockInv'
<1> DEFINE f == Last(logs)
           g == f \o ls
<1>0. /\ dev.step = "open" /\ Len(f) < MaxLines /\ ~EndsClosed(f) /\ OfBoot(f, bootAt, Up, ~past.ahead)
      /\ logs \in Seq(Files) /\ logs # <<>> /\ f = logs[Len(logs)] /\ f \in Files
      /\ bootAt \in Nat /\ Up \in Nat /\ now = bootAt + Up
  BY ClockValues DEF ClockInv, ClockTypes, LogsInv, Roomy, Last
<1> HIDE DEF f
<1>1. logs' = [logs EXCEPT ![Len(logs)] = g]
  BY <1>0 DEF Written
<1>2. /\ g \in Seq(Lines) /\ Len(g) = Len(f) + Len(ls) /\ InOrder(g) /\ OfBoot(g, bootAt, Up, ~past.ahead)
      /\ (~past.ahead => Honest(g, now)) /\ (ls = <<>> => g = f) /\ (ls # <<>> => g # <<>> /\ Last(g) = Last(ls))
  BY <1>0, Grown
<1> HIDE DEF g
<1>3. ~EndsClosed(g)
  BY <1>0, <1>2 DEF EndsClosed
<1>4. g \in Files
  <2>1. Len(f) \in Nat /\ Len(ls) \in Nat
    BY <1>0, LineTypes DEF Files, Fresh
  <2>2. Fits(g)
    <3>1. Len(g) <= MaxLines + 2
      <4>1. Len(f) < MaxLines /\ Len(g) = Len(f) + Len(ls) /\ Len(ls) <= 2 /\ MaxLines \in Nat
        BY <1>0, <1>2, ClockAssumption
      <4> QED BY <2>1, <4>1
    <3>2. MaxLines + 2 <= MaxLines + 4 /\ MaxLines + 2 \in Nat /\ Len(g) \in Nat
      BY <1>2, ClockAssumption, LineTypes
    <3> QED BY <3>1, <3>2, ClockAssumption DEF Fits
  <2> QED BY <1>2, <2>2 DEF Files
<1>5. /\ dev' \in Devs /\ dev'.step = "open" /\ dev'.setup = dev.setup /\ dev'.decided = dev.decided
      /\ dev'.best = dev.best /\ dev'.floor = dev.floor /\ dev'.anchor = dev.anchor /\ dev'.back = dev.back
      /\ dev'.marking = dev.marking
  BY <1>0 DEF ClockInv, ClockTypes, Devs
<1>6. LogsInv' /\ logs' \in Seq(Files) /\ Len(logs') = Len(logs)
  BY <1>0, <1>1, <1>2, <1>3, <1>4, <1>5, LogsWritten
<1>7. ClockTypes'
  BY <1>5, <1>6 DEF ClockInv, ClockTypes
<1>8. PointsInv'
  BY <1>5, PointsSame
<1>9. SysInv' /\ LabelInv'
  BY <1>5 DEF ClockInv, SysInv, LabelInv, Label, Up, Synced
<1> QED BY <1>6, <1>7, <1>8, <1>9 DEF ClockInv

(* CloseLog: the clock is restated and the file closed.                    *)
LEMMA CloseLogKeeps == ASSUME ClockInv, CloseLog PROVE ClockInv'
<1> DEFINE f == Last(logs)
           l == <<Meta("close", Up)>>
           ls == ClockLine \o l
           g == f \o ls
<1>0. /\ dev.step = "open" /\ ~EndsClosed(f) /\ OfBoot(f, bootAt, Up, ~past.ahead)
      /\ logs \in Seq(Files) /\ logs # <<>> /\ f = logs[Len(logs)] /\ f \in Files /\ f \in Seq(Lines)
      /\ bootAt \in Nat /\ Up \in Nat /\ now = bootAt + Up
  BY ClockValues DEF ClockInv, ClockTypes, LogsInv, CloseLog, Files, Last
<1> HIDE DEF f
<1>1. /\ Fresh(ClockLine, bootAt, Up, ~past.ahead) /\ Len(ClockLine) <= 1
      /\ Fresh(l, bootAt, Up, ~past.ahead)
  BY LinesAreFresh
<1>2. Len(l) = 1
  OBVIOUS
<1> HIDE DEF l
<1>3. Fresh(ls, bootAt, Up, ~past.ahead) /\ Len(ls) = Len(ClockLine) + Len(l) /\ Len(ClockLine) \in Nat
  BY <1>1, FreshBoth
<1>4. (f \o ClockLine) \o l = g
  <2>1. f \in Seq(Lines) /\ ClockLine \in Seq(Lines) /\ l \in Seq(Lines)
    BY <1>0, <1>1 DEF Fresh
  <2> HIDE DEF Fresh
  <2>2. (f \o ClockLine) \o l = f \o (ClockLine \o l)
    BY <2>1, ConcatAssociative
  <2> QED BY <2>2, Zenon
<1>5. /\ logs' = [logs EXCEPT ![Len(logs)] = Trimmed(g)] /\ dev' = [dev EXCEPT !.step = "ready"]
      /\ UNCHANGED <<now, bootAt, sys, rtc, wake, past>>
  BY <1>0, <1>4 DEF CloseLog, l
<1> HIDE DEF ls
<1>6. /\ g \in Seq(Lines) /\ Len(g) = Len(f) + Len(ls) /\ InOrder(g) /\ OfBoot(g, bootAt, Up, ~past.ahead)
      /\ (~past.ahead => Honest(g, now)) /\ (ls # <<>> => g # <<>> /\ Last(g) = Last(ls))
  BY <1>0, <1>3, Grown
<1> HIDE DEF g
<1>7. EndsClosed(g)
  <2>1. ls # <<>> /\ Last(ls).kind = "close"
    <3>1. ClockLine \in Seq(Lines) /\ l \in Seq(Lines) /\ Len(l) = 1 /\ l[1].kind = "close"
      BY <1>1, <1>2 DEF Fresh, l, Meta
    <3> DEFINE m == Len(ClockLine)
    <3>2. m \in Nat /\ Len(ls) = m + 1 /\ ls \in Seq(Lines) /\ ls[m + 1] = l[1]
      <4>1. ls[m + 1] = IF m + 1 <= m THEN ClockLine[m + 1] ELSE l[m + 1 - m]
        BY <1>3, <3>1, ConcatProperties DEF ls
      <4> QED BY <1>3, <3>1, <4>1 DEF Fresh
    <3> HIDE DEF m
    <3> QED BY <3>1, <3>2 DEF Last
  <2> QED BY <1>6, <2>1 DEF EndsClosed
<1>8. g \in Files
  <2>1. Len(f) \in Nat /\ Len(f) <= MaxLines + 2
    BY <1>0, LineTypes DEF Files, Fits
  <2>2. Fits(g)
    BY <1>1, <1>2, <1>3, <1>6, <1>7, <2>1, ClockAssumption DEF Fits
  <2> QED BY <1>6, <2>2 DEF Files
<1>9. Trimmed(g) \in Files /\ (~past.ahead => Honest(Trimmed(g), now))
  BY <1>0, <1>6, <1>8, TrimmedOf
<1>10. /\ dev' \in Devs /\ dev'.step = "ready" /\ dev'.setup = dev.setup /\ dev'.decided = dev.decided
      /\ dev'.best = dev.best /\ dev'.floor = dev.floor /\ dev'.anchor = dev.anchor /\ dev'.back = dev.back
      /\ dev'.marking = dev.marking
  <2>1. dev \in Devs /\ "ready" \in Steps
    BY DEF ClockInv, ClockTypes, Steps
  <2> QED BY <1>5, <2>1 DEF Devs
<1>11. LogsInv' /\ logs' \in Seq(Files) /\ Len(logs') = Len(logs)
  BY <1>0, <1>5, <1>9, <1>10, LogsWritten
<1>12. ClockTypes'
  BY <1>5, <1>10, <1>11 DEF ClockInv, ClockTypes
<1>13. PointsInv'
  BY <1>5, <1>10, PointsSame
<1>14. SysInv' /\ LabelInv'
  BY <1>5, <1>10 DEF ClockInv, SysInv, LabelInv, Label, Up, Synced
<1> QED BY <1>11, <1>12, <1>13, <1>14 DEF ClockInv

(* ClockTick: time passes for both clocks.                                 *)
LEMMA ClockTickKeeps == ASSUME ClockInv, ClockTick PROVE ClockInv'
<1>1. /\ now < MaxNow /\ now' = now + 1 /\ sys' = sys + 1 /\ UNCHANGED <<bootAt, rtc, wake, dev, logs, past>>
  BY DEF ClockTick
<1>2. /\ Up \in Nat /\ Up' = Up + 1 /\ now = bootAt + Up /\ bootAt \in Nat /\ sys \in Nat /\ Start \in Nat
      /\ dev.best \in Readings /\ dev.floor \in Readings /\ dev.anchor \in Readings /\ now \in Nat
      /\ dev.decided.best \in Readings /\ dev.decided.floor \in Readings /\ dev.setup \in Nat
  BY <1>1, ClockValues, ClockAssumption DEF ClockInv, ClockTypes, Up
<1>3. ClockTypes'
  <2>1. MaxNow \in Nat /\ Start <= bootAt /\ bootAt <= now /\ Start <= now
    BY ClockAssumption DEF ClockInv, ClockTypes
  <2>2. now' \in Nat /\ sys' \in Nat /\ now' <= MaxNow /\ bootAt' <= now' /\ Start <= bootAt' /\ Start <= now'
    BY <1>1, <1>2, <2>1
  <2> QED BY <1>1, <1>2, <2>2 DEF ClockInv, ClockTypes
<1>4. LogsInv'
  <2>1. ASSUME ~past.ahead, NEW k \in DOMAIN logs PROVE Honest(logs[k], Limit')
    <3>1. Honest(logs[k], Limit) /\ logs[k] \in Seq(Lines)
      BY <2>1 DEF ClockInv, ClockTypes, LogsInv, Files
    <3>2. Limit \in Nat /\ Limit' \in Nat /\ Limit <= Limit'
      BY <1>1, <1>2 DEF Limit
    <3> QED BY <3>1, <3>2, LaterLimit
  <2>2. ASSUME dev.step = "open" PROVE OfBoot(Last(logs), bootAt, Up + 1, ~past.ahead)
    <3>1. OfBoot(Last(logs), bootAt, Up, ~past.ahead) /\ Last(logs) \in Seq(Lines)
      BY <2>2 DEF ClockInv, ClockTypes, LogsInv, Files, Last
    <3>2. \A j \in DOMAIN Last(logs) : Last(logs)[j].t \in Nat /\ Last(logs)[j].t <= Up
      BY <3>1, LineTypes DEF OfBoot
    <3>3. \A j \in DOMAIN Last(logs) : Last(logs)[j].t <= Up + 1
      BY <1>2, <3>2
    <3> QED BY <3>1, <3>3 DEF OfBoot
  <2> QED BY <1>1, <1>2, <2>1, <2>2 DEF ClockInv, LogsInv
<1>5. PointsInv'
  <2>1. ASSUME NEW p \in Readings, Sound(p, bootAt, Up, ~past.ahead) PROVE Sound(p, bootAt, Up + 1, ~past.ahead)
    BY <1>2, <2>1, ReadingTypes DEF Sound
  <2> HIDE DEF Sound
  <2> QED BY <1>1, <1>2, <2>1 DEF ClockInv, PointsInv
<1>6. SysInv'
  BY <1>1, <1>2, ClockValues DEF ClockInv, SysInv
<1>7. LabelInv'
  <2>1. ASSUME NEW p \in Readings PROVE Project(p, Up + 1) = Project(p, Up) + 1 /\ Project(p, Up) \in Int
    BY <1>2, ReadingTypes DEF Project
  <2>2. ASSUME NEW p \in Readings, Label(p)
        PROVE  p.basis = "utc" => Project(p, Up') = now'
                                    \/ (past.forgot /\ dev.setup # 0 /\ Project(p, Up') = dev.setup + Up')
    <3> HIDE DEF Project
    <3> QED BY <1>1, <1>2, <2>1, <2>2 DEF Label
  <2>3. Label(dev.best)' /\ (Synced' \/ Label(dev.decided.best)')
    <3> HIDE DEF Project
    <3> QED BY <1>1, <1>2, <2>2 DEF ClockInv, LabelInv, Label, Synced
  <2> QED BY <1>1, <2>3 DEF ClockInv, LabelInv
<1> QED BY <1>3, <1>4, <1>5, <1>6, <1>7 DEF ClockInv

(* One restart, whatever its kind.                                         *)
LEMMA RestartKeeps ==
  ASSUME ClockInv, NEW kind \in {"power_on", "deep_sleep", "other"}, NEW asleep \in {0, 1}, NEW error \in Int,
         NEW kept \in BOOLEAN, Restart(kind, asleep, error, kept),
         kind = "power_on" => ~kept, kind = "other" => asleep = 0 /\ error = 0
  PROVE  ClockInv'
<1> DEFINE slept == kept /\ (past.slept \/ kind = "deep_sleep")
           forgot == slept /\ (past.forgot \/ (past.slept /\ rtc # "drifted"))
           ahead == past.ahead \/ error > 0
<1>1. /\ now + asleep <= MaxNow /\ now' = now + asleep /\ bootAt' = now' /\ wake' = kind
      /\ sys' = IF kept THEN Max({0, sys + asleep + error}) ELSE 0
      /\ rtc' = IF kind = "power_on" THEN "unknown" ELSE rtc
      /\ dev' = FreshRam(sys') /\ logs' \in AfterCut
      /\ past' = [past EXCEPT !.slept = slept, !.boots = past.boots + 1, !.forgot = forgot, !.ahead = ahead]
  BY DEF Restart
<1>2. /\ past' \in Pasts /\ past'.slept = slept /\ past'.forgot = forgot /\ past'.ahead = ahead
  <2>1. past \in Pasts /\ slept \in BOOLEAN /\ forgot \in BOOLEAN /\ ahead \in BOOLEAN
    BY ClockValues DEF ClockInv, ClockTypes
  <2>2. past' = [past EXCEPT !.slept = slept, !.boots = past.boots + 1, !.forgot = forgot, !.ahead = ahead]
    BY <1>1
  <2> HIDE DEF slept, forgot, ahead
  <2>3. past.boots + 1 \in Nat
    BY <2>1 DEF Pasts
  <2> QED BY <2>1, <2>2, <2>3 DEF Pasts
<1>3. /\ now \in Nat /\ Start \in Nat /\ Start <= now /\ sys \in Nat /\ now' \in Nat /\ bootAt <= now
      /\ bootAt \in Nat
  BY <1>1, ClockAssumption DEF ClockInv, ClockTypes
<1>4. sys' = IF kept THEN (IF 0 >= sys + asleep + error THEN 0 ELSE sys + asleep + error) ELSE 0
  <2>1. sys + asleep + error \in Int
    BY <1>3
  <2> QED BY <1>1, <2>1, MaxOfTwo
<1>5. sys' \in Nat
  BY <1>3, <1>4
<1>6. /\ dev' \in Devs /\ dev'.step = "unmounted"
  BY <1>1, <1>5, FreshRamOf
<1>7. /\ logs' \in Seq(Files) /\ Len(logs') = Len(logs)
      /\ \A k \in DOMAIN logs' : \A limit \in Nat : Honest(logs[k], limit) => Honest(logs'[k], limit)
  <2>0. logs \in Seq(Files)
    BY DEF ClockInv, ClockTypes
  <2>1. CASE dev.step # "open"
    BY <1>1, <2>0, <2>1 DEF AfterCut
  <2>2. CASE dev.step = "open"
    <3>1. logs # <<>> /\ Last(logs) = logs[Len(logs)] /\ Last(logs) \in Files /\ ~EndsClosed(Last(logs))
      BY <2>0, <2>2 DEF ClockInv, LogsInv, Last
    <3>2. PICK n \in 0..Len(Last(logs)) : logs' = [logs EXCEPT ![Len(logs)] = SubSeq(Last(logs), 1, n)]
      BY <1>1, <2>2, <3>1 DEF AfterCut
    <3> DEFINE g == SubSeq(Last(logs), 1, n)
    <3>3. g \in Files /\ \A limit \in Nat : Honest(Last(logs), limit) => Honest(g, limit)
      BY <3>1, CutShort
    <3> HIDE DEF g
    <3>4. logs' = [logs EXCEPT ![Len(logs)] = g]
      BY <3>2 DEF g
    <3> QED BY <2>0, <3>1, <3>3, <3>4
  <2> QED BY <2>1, <2>2
<1>8. ClockTypes'
  BY <1>1, <1>2, <1>3, <1>5, <1>6, <1>7 DEF ClockInv, ClockTypes
<1>9. NothingClaimed'
  <2>1. FreshlyBooted'
    BY <1>1, <1>8 DEF FreshlyBooted
  <2> QED BY <2>1, FreshBoot, PTL
<1>10. LogsInv'
  <2>1. ASSUME ~ahead, NEW k \in DOMAIN logs' PROVE Honest(logs'[k], now')
    <3>1. k \in DOMAIN logs /\ logs[k] \in Seq(Lines)
      BY <1>7 DEF ClockInv, ClockTypes, Files
    <3>2. Honest(logs[k], Limit) /\ Limit \in Nat /\ Limit <= now'
      BY <1>1, <1>3, <2>1, <3>1 DEF ClockInv, LogsInv, Limit
    <3>3. Honest(logs[k], now')
      BY <1>3, <3>1, <3>2, LaterLimit
    <3> QED BY <1>3, <1>7, <3>3
  <2> HIDE DEF ahead
  <2> QED BY <1>1, <1>2, <1>6, <2>1 DEF LogsInv, Limit
<1>11. SysInv'
  <2>1. sys' = dev'.setup + Up'
    BY <1>9 DEF NothingClaimed
  <2>2. ~slept => sys' = now' \/ sys' <= now' - Start
    <3>1. CASE ~kept
      BY <1>1, <1>3, <1>4, <3>1
    <3>2. CASE kept /\ ~past.slept /\ kind = "other"
      BY <1>1, <1>3, <1>4, <3>2 DEF ClockInv, SysInv
    <3> QED BY <3>1, <3>2
  <2>3. ~ahead => sys' <= now'
    BY <1>1, <1>3, <1>4 DEF ClockInv, SysInv
  <2> HIDE DEF slept, ahead, forgot
  <2> QED BY <1>2, <2>1, <2>2, <2>3 DEF SysInv
<1>12. LabelInv'
  <2>1. slept /\ ~forgot /\ kind = "other" => rtc = "drifted"
    BY ClockValues DEF ClockInv
  <2> HIDE DEF slept, forgot
  <2> QED BY <1>1, <1>2, <1>9, <2>1 DEF LabelInv, NothingClaimed
<1> QED BY <1>8, <1>9, <1>10, <1>11, <1>12 DEF ClockInv, NothingClaimed

(* ClockRestart: a power-on, a deep sleep or another reset.                *)
LEMMA ClockRestartKeeps == ASSUME ClockInv, ClockRestart PROVE ClockInv'
<1>1. ASSUME NEW off \in {0, 1}, Restart("power_on", off, 0, FALSE) PROVE ClockInv'
  <2>1. 0 \in Int /\ FALSE \in BOOLEAN /\ "power_on" # "other"
    OBVIOUS
  <2> QED BY <1>1, <2>1, RestartKeeps
<1>2. ASSUME NEW error \in SleepErrors, Restart("deep_sleep", 1, error, TRUE) PROVE ClockInv'
  BY <1>2, RestartKeeps, ClockAssumption
<1>3. ASSUME NEW kept \in BOOLEAN, Restart("other", 0, 0, kept) PROVE ClockInv'
  BY <1>3, RestartKeeps
<1> QED BY <1>1, <1>2, <1>3 DEF ClockRestart

(* Every step keeps the invariant.                                         *)
LEMMA ClockStep == ClockInv /\ [ClockNext]_clockVars => ClockInv'
<1> SUFFICES ASSUME ClockInv, [ClockNext]_clockVars PROVE ClockInv'
  OBVIOUS
<1>1. CASE LearnBegin
  BY <1>1, LearnBeginKeeps
<1>2. CASE LearnPublish
  BY <1>2, LearnPublishKeeps
<1>3. CASE LearnRecord
  BY <1>3, LearnRecordKeeps
<1>4. CASE RealSync
  BY <1>4, RealSyncKeeps
<1>5. CASE EmptySync
  BY <1>5, EmptySyncKeeps
<1>6. CASE MarkSynced
  BY <1>6, MarkSyncedKeeps
<1>7. CASE OpenLog
  BY <1>7, OpenLogKeeps
<1>8. CASE CloseLog
  BY <1>8, CloseLogKeeps
<1>9. CASE WriteUtcMarker
  BY <1>9, LinesAreFresh, WrittenKeeps DEF WriteUtcMarker
<1>10. CASE WriteMeta(ClockLine)
  <2>1. Len(ClockLine) <= 2
    BY LinesAreFresh, LineTypes DEF Fresh
  <2> QED BY <1>10, <2>1, LinesAreFresh, WrittenKeeps DEF WriteMeta
<1>11. CASE WriteMeta(<<Meta("meta", Up)>>)
  <2> DEFINE l == <<Meta("meta", Up)>>
  <2>1. Len(l) <= 2 /\ ~EndsClosed(l)
    BY DEF EndsClosed, Last, Meta
  <2>2. Fresh(l, bootAt, Up, ~past.ahead)
    BY LinesAreFresh
  <2> HIDE DEF l
  <2>3. WriteMeta(l)
    BY <1>11 DEF l
  <2> QED BY <2>1, <2>2, <2>3, WrittenKeeps DEF WriteMeta
<1>12. CASE ClockTick
  BY <1>12, ClockTickKeeps
<1>13. CASE ClockRestart
  BY <1>13, ClockRestartKeeps
<1>14. CASE UNCHANGED clockVars
  BY <1>14 DEF clockVars, ClockInv, ClockTypes, LogsInv, Limit, PointsInv, SysInv, LabelInv, Label, Synced, Up
<1> QED BY <1>1, <1>2, <1>3, <1>4, <1>5, <1>6, <1>7, <1>8, <1>9, <1>10, <1>11, <1>12, <1>13, <1>14 DEF ClockNext

(* The invariant holds in every state.                                     *)
LEMMA ClockInvariance == ClockSpec => []ClockInv
BY InitClock, ClockStep, PTL DEF ClockSpec

(* The invariant is what the property asks for.                            *)
LEMMA InvIsHonest == ClockInv => ClockIsHonest
<1> SUFFICES ASSUME ClockInv PROVE ClockIsHonest
  OBVIOUS
<1>1. ClockTypeOK
  <2>1. now \in Start..MaxNow /\ bootAt \in Start..now
    BY ClockAssumption DEF ClockInv, ClockTypes
  <2>2. \A p \in {dev.best, dev.floor, dev.anchor} : p.basis \in Bases /\ p.utc \in Nat
    BY ClockValues, ReadingTypes DEF ClockInv
  <2>3. \A i \in DOMAIN logs : Len(logs[i]) <= MaxLines + 4
    BY DEF ClockInv, ClockTypes, Files, Fits
  <2> QED BY <2>1, <2>2, <2>3, ClockValues DEF ClockInv, ClockTypes, ClockTypeOK
<1>2. ASSUME ~past.ahead PROVE ~dev.back /\ \A p \in {dev.floor, dev.best} : Project(p, Up) <= now
  <2>1. ~dev.back /\ Sound(dev.floor, bootAt, Up, TRUE) /\ Sound(dev.best, bootAt, Up, TRUE)
    BY <1>2 DEF ClockInv, LabelInv, PointsInv, Sound
  <2>2. \A p \in {dev.floor, dev.best} : p.t \in Nat /\ p.utc \in Nat
    BY ClockValues, ReadingTypes DEF ClockInv
  <2>3. now = bootAt + Up /\ Up \in Nat /\ bootAt \in Nat
    BY ClockValues DEF ClockInv, ClockTypes
  <2> QED BY <2>1, <2>2, <2>3 DEF Sound, Project
<1>3. dev.best.basis = "utc" /\ ~past.forgot => Project(dev.best, Up) = now
  BY DEF ClockInv, LabelInv, Label
<1> QED BY <1>1, <1>2, <1>3 DEF ClockIsHonest

(* The clock the files state is honest, for any instants, bounds and       *)
(* numbers of boots and files, whatever the sleep clock does: the floor    *)
(* never passes the true time unless a sleep ran ahead, and what is        *)
(* labelled utc is a reading, unless a wake was never recorded.            *)
THEOREM ClockTheorem == ClockSpec => []ClockIsHonest
BY ClockInvariance, InvIsHonest, PTL

SealAction ==
  \A i \in DOMAIN logs :
    LET ls == logs[i]
    IN  dev.step = "unmounted" /\ dev'.step = "decided"
          /\ (Statements(ls) # {} => ls[Max(Statements(ls))].kind = "clock")
        => End(logs'[i]) = End(logs[i])

(* Only LearnBegin takes a boot from the mount to its decision.            *)
LEMMA OnlyLearnSeals ==
  ASSUME ClockInv, [ClockNext]_clockVars, dev.step = "unmounted", dev'.step = "decided" PROVE LearnBegin
<1>1. dev \in Devs /\ dev'.step # dev.step
  BY DEF ClockInv, ClockTypes
<1>2. ~RealSync /\ ~EmptySync /\ ~MarkSynced
  <2>1. ASSUME NEW u, OnTimeSync(u) PROVE dev'.step = dev.step
    BY <1>1, <2>1 DEF OnTimeSync, SetUtcAnchor, Devs
  <2> QED BY <1>1, <2>1 DEF RealSync, EmptySync, MarkSynced, Devs
<1>3. ~LearnPublish /\ ~LearnRecord /\ ~OpenLog /\ ~CloseLog
  BY DEF LearnPublish, LearnRecord, OpenLog, CloseLog
<1>4. ~WriteUtcMarker /\ ~WriteMeta(ClockLine) /\ ~WriteMeta(<<Meta("meta", Up)>>)
  BY DEF WriteUtcMarker, WriteMeta, Roomy
<1>5. ~ClockTick /\ ~UNCHANGED clockVars
  BY DEF ClockTick, clockVars
<1>6. ~ClockRestart
  <2>1. ASSUME ClockRestart PROVE ClockInv' /\ dev' = FreshRam(sys')
    BY <2>1, ClockRestartKeeps DEF ClockRestart, Restart
  <2>2. ASSUME ClockRestart PROVE FALSE
    BY <2>1, <2>2, FreshRamOf DEF ClockInv, ClockTypes
  <2> QED BY <2>2
<1> QED BY <1>2, <1>3, <1>4, <1>5, <1>6 DEF ClockNext

(* It seals each file as torn_seal.h does.                                 *)
LEMMA SealingStep == ClockInv /\ [ClockNext]_clockVars => [SealAction]_clockVars
<1> SUFFICES ASSUME ClockInv, [ClockNext]_clockVars, NEW i \in DOMAIN logs, dev.step = "unmounted",
                    dev'.step = "decided",
                    Statements(logs[i]) # {} => logs[i][Max(Statements(logs[i]))].kind = "clock"
             PROVE  End(logs'[i]) = End(logs[i])
  BY DEF SealAction
<1>1. logs'[i] \in Sealed(logs[i])
  BY OnlyLearnSeals DEF LearnBegin
<1>2. logs[i] \in Files
  BY DEF ClockInv, ClockTypes
<1> QED BY <1>1, <1>2, SealingKeepsEnd

(* Sealing a torn file does not move the floor the next boot reads from    *)
(* it, whichever of its steps fails, for any file.                         *)
THEOREM SealTheorem == ClockSpec => SealKeepsFloor
<1>1. ClockSpec => [][SealAction]_clockVars
  BY ClockInvariance, SealingStep, PTL DEF ClockSpec
<1> QED BY <1>1 DEF SealKeepsFloor, SealAction

=============================================================================
