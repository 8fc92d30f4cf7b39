--------------------------- MODULE GatewayProofs ---------------------------
(***************************************************************************)
(* The way of a frame through the gateway, for every pool size, depth of   *)
(* the queue, frame and rule: the safety of the transmit side of a port,   *)
(* and a route in front of it, which is a legal environment of the         *)
(* transmit side, so that all that is proved of it alone holds behind a    *)
(* route, and every frame that arrives meets exactly one fate.             *)
(***************************************************************************)
EXTENDS Integers, GatewayRoute, SequenceTheorems, FiniteSetTheorems, TLAPS

(* Where the loop stands: inject() holds a slot of its own pool exactly    *)
(* between acquiring it and handing it over or giving it back, and the     *)
(* pass's copy of the state is the one it will compare against next time.  *)
LoopLocals ==
  /\ mine \in InjectSlots \cup {NoSlot}
  /\ pc \in {"inject", "reject"} <=> mine # NoSlot
  /\ seen = lastLoopState

(* The inductive invariant.                                                *)
SafetyInv ==
  /\ TypeOK
  /\ LoopLocals
  /\ TrackerMirrorsDriver
  /\ SlotsHaveOneOwner
  /\ ReclaimedHeadIsOrphan
  /\ WireCarriesWhatWasHanded
  /\ DriverNeverRefuses
  /\ EveryFrameAccounted

LEMMA InitSafe == Init => SafetyInv
<1> SUFFICES ASSUME Init PROVE SafetyInv
  OBVIOUS
<1> USE DEF Init
<1>1. TypeOK
  <2>1. outstanding \in Seq(Slots) /\ fifo \in Seq(Slots)
    OBVIOUS
  <2>2. counters \in [forwarded : Nat, injected : Nat, txFail : Nat, txOk : Nat]
    OBVIOUS
  <2>3. /\ used \in [Slots -> BOOLEAN]
        /\ content \in [Slots -> Frames \cup {NoFrame}]
        /\ handed \in [Slots -> Frames \cup {NoFrame}]
    OBVIOUS
  <2> QED
    BY <2>1, <2>2, <2>3 DEF TypeOK, States
<1>2. LoopLocals
  BY PoolAssumption DEF LoopLocals
<1>3. /\ TrackerMirrorsDriver /\ ReclaimedHeadIsOrphan
      /\ WireCarriesWhatWasHanded /\ DriverNeverRefuses
  BY DEF TrackerMirrorsDriver, ReclaimedHeadIsOrphan, WireCarriesWhatWasHanded,
     DriverNeverRefuses
<1>4. SlotsHaveOneOwner
  BY PoolAssumption DEF SlotsHaveOneOwner, Tracked
<1>5. EveryFrameAccounted
  BY DEF EveryFrameAccounted
<1> QED
  BY <1>1, <1>2, <1>3, <1>4, <1>5 DEF SafetyInv

(* The gates leave room in the tracker and in the driver's queue.          *)
LEMMA GateImpliesAccept ==
  ASSUME SafetyInv, OccupancyGate, state # "busoff"
  PROVE  /\ DriverAccepts
         /\ \A s : Pushed(s) = Append(outstanding, s)
<1>1. Cardinality(Slots) \in Nat
  BY PoolAssumption, FS_CardinalityType
<1> QED
  BY <1>1, PoolAssumption DEF SafetyInv, TypeOK, TrackerMirrorsDriver, OccupancyGate,
     DriverAccepts, Pushed, TrackerCapacity

(* Every slot the driver owns is tracked.                                  *)
LEMMA DriverSlotsTracked ==
  ASSUME SafetyInv
  PROVE  \A i \in 1..Len(fifo) : fifo[i] \in Slots /\ Tracked(fifo[i])
<1>1. /\ outstanding \in Seq(Slots) /\ fifo \in Seq(Slots)
      /\ TrackerMirrorsDriver
  BY DEF SafetyInv, TypeOK
<1> SUFFICES ASSUME NEW i \in 1..Len(fifo)
             PROVE  fifo[i] \in Slots /\ Tracked(fifo[i])
  OBVIOUS
<1>2. /\ Len(outstanding) - Len(fifo) + i \in 1..Len(outstanding)
      /\ fifo[i] = outstanding[Len(outstanding) - Len(fifo) + i]
  BY <1>1 DEF TrackerMirrorsDriver
<1>3. fifo[i] \in Slots
  BY <1>1
<1> QED
  BY <1>2, <1>3, Zenon DEF Tracked

CounterType == [forwarded : Nat, injected : Nat, txFail : Nat, txOk : Nat]

(* What a step that counts does to each counter.                           *)
LEMMA CountOne ==
  ASSUME NEW c \in CounterType
  PROVE  /\ [c EXCEPT !.forwarded = @ + 1] \in CounterType
         /\ [c EXCEPT !.forwarded = @ + 1].forwarded = c.forwarded + 1
         /\ [c EXCEPT !.forwarded = @ + 1].injected = c.injected
         /\ [c EXCEPT !.forwarded = @ + 1].txFail = c.txFail
         /\ [c EXCEPT !.forwarded = @ + 1].txOk = c.txOk
         /\ [c EXCEPT !.injected = @ + 1] \in CounterType
         /\ [c EXCEPT !.injected = @ + 1].forwarded = c.forwarded
         /\ [c EXCEPT !.injected = @ + 1].injected = c.injected + 1
         /\ [c EXCEPT !.injected = @ + 1].txFail = c.txFail
         /\ [c EXCEPT !.injected = @ + 1].txOk = c.txOk
         /\ [c EXCEPT !.txFail = @ + 1] \in CounterType
         /\ [c EXCEPT !.txFail = @ + 1].forwarded = c.forwarded
         /\ [c EXCEPT !.txFail = @ + 1].injected = c.injected
         /\ [c EXCEPT !.txFail = @ + 1].txFail = c.txFail + 1
         /\ [c EXCEPT !.txFail = @ + 1].txOk = c.txOk
BY DEF CounterType

(* A frame more in the tracker and one more counted keep the account.      *)
LEMMA AccountGrows ==
  \A a, b, c, d, n \in Int :
    a + b = c + d + n => /\ (a + 1) + b = c + d + (n + 1)
                         /\ a + (b + 1) = c + d + (n + 1)
OBVIOUS

(* So do k fewer in the tracker and k more counted as sent or failed.      *)
LEMMA AccountKept ==
  \A a, b, c, d, n, k \in Int :
    a + b = c + d + n =>
      /\ a + b = (c + 1) + (d + (k - 1) + 0) + (n - k)
      /\ a + b = (c + 0) + (d + (k - 1) + 1) + (n - k)
OBVIOUS

(* Two ways to count from the tracker's end.                               *)
LEMMA ShiftedIndex ==
  \A n, m, k, d, i \in Int : (((n - k) - (m - d)) + i) + k = (n - m) + (i + d)
  OBVIOUS

(* Appending a slot that nobody owns to the tracker and to the driver      *)
(* keeps the mirror.                                                       *)
LEMMA AppendMirrors ==
  ASSUME SafetyInv, NEW s \in Slots,
         outstanding' = Append(outstanding, s), fifo' = Append(fifo, s)
  PROVE  TrackerMirrorsDriver'
<1>1. /\ outstanding \in Seq(Slots) /\ fifo \in Seq(Slots)
      /\ TrackerMirrorsDriver
  BY DEF SafetyInv, TypeOK
<1>2. /\ Len(outstanding') = Len(outstanding) + 1
      /\ Len(fifo') = Len(fifo) + 1
      /\ Len(outstanding) \in Nat /\ Len(fifo) \in Nat
  BY <1>1
<1>3. ASSUME NEW i \in 1..Len(fifo')
      PROVE  fifo'[i] = outstanding'[Len(outstanding') - Len(fifo') + i]
  <2>1. CASE i = Len(fifo')
    BY <1>1, <1>2, <2>1
  <2>2. CASE i \in 1..Len(fifo)
    <3>1. fifo'[i] = fifo[i]
      BY <1>1, <2>2
    <3>2. /\ Len(outstanding) - Len(fifo) + i \in 1..Len(outstanding)
          /\ fifo[i] = outstanding[Len(outstanding) - Len(fifo) + i]
      BY <1>1, <1>2, <2>2 DEF TrackerMirrorsDriver
    <3>3. \A j \in 1..Len(outstanding) : outstanding'[j] = outstanding[j]
      BY <1>1
    <3>4. Len(outstanding') - Len(fifo') + i = Len(outstanding) - Len(fifo) + i
      BY <1>2
    <3>5. outstanding'[Len(outstanding) - Len(fifo) + i] = outstanding[Len(outstanding) - Len(fifo) + i]
      BY <3>2, <3>3, Zenon
    <3> QED BY <3>1, <3>2, <3>4, <3>5, Zenon
  <2>3. i = Len(fifo') \/ i \in 1..Len(fifo)
    BY <1>2
  <2> QED BY <2>1, <2>2, <2>3, Zenon
<1>4. Len(fifo') <= Len(outstanding')
  BY <1>1, <1>2 DEF TrackerMirrorsDriver
<1> QED
  BY <1>3, <1>4 DEF TrackerMirrorsDriver

(* What is left of the tracker after its k oldest entries are popped.      *)
LEMMA PoppedElements ==
  ASSUME SafetyInv, NEW k \in 0..Len(outstanding)
  PROVE  /\ Popped(k) \in Seq(Slots)
         /\ Len(Popped(k)) = Len(outstanding) - k
         /\ \A i \in 1..(Len(outstanding) - k) : Popped(k)[i] = outstanding[i + k]
<1>1. outstanding \in Seq(Slots)
  BY DEF SafetyInv, TypeOK
<1> QED
  BY <1>1 DEF Popped

(* Popping entries the driver no longer owns, or the one it is completing, *)
(* keeps the mirror and gives each popped slot back exactly once.          *)
LEMMA PopKeepsOwners ==
  ASSUME SafetyInv, NEW k \in 0..Len(outstanding),
         outstanding' = Popped(k), used' = Released(k), UNCHANGED mine
  PROVE  SlotsHaveOneOwner'
<1>1. /\ outstanding \in Seq(Slots)
      /\ used \in [Slots -> BOOLEAN]
      /\ SlotsHaveOneOwner
  BY DEF SafetyInv, TypeOK
<1>2. /\ Len(outstanding') = Len(outstanding) - k
      /\ \A i \in 1..(Len(outstanding) - k) : outstanding'[i] = outstanding[i + k]
  BY PoppedElements
<1>3. ASSUME NEW s \in Slots
      PROVE  Tracked(s)' <=> \E i \in (k + 1)..Len(outstanding) : outstanding[i] = s
  <2>1. ASSUME NEW i \in 1..Len(outstanding'), outstanding'[i] = s
        PROVE  \E j \in (k + 1)..Len(outstanding) : outstanding[j] = s
    <3>1. i + k \in (k + 1)..Len(outstanding)
      BY <1>1, <1>2
    <3>2. outstanding[i + k] = s
      BY <1>1, <1>2, <2>1
    <3> QED BY <3>1, <3>2
  <2>2. ASSUME NEW j \in (k + 1)..Len(outstanding), outstanding[j] = s
        PROVE  \E i \in 1..Len(outstanding') : outstanding'[i] = s
    <3>1. j - k \in 1..Len(outstanding')
      BY <1>1, <1>2
    <3>2. outstanding'[j - k] = s
      BY <1>1, <1>2, <2>2, <3>1
    <3> QED BY <3>1, <3>2
  <2> QED BY <2>1, <2>2 DEF Tracked
<1>4. \A i, j \in 1..Len(outstanding') : outstanding'[i] = outstanding'[j] => i = j
  BY <1>1, <1>2 DEF SlotsHaveOneOwner
<1>5. ASSUME NEW s \in Slots
      PROVE  used'[s] <=> Tracked(s)' \/ mine' = s
  <2>1. used'[s] <=> used[s] /\ \A i \in 1..k : outstanding[i] # s
    BY DEF Released
  <2>2. used[s] <=> Tracked(s) \/ mine = s
    BY <1>1 DEF SlotsHaveOneOwner
  <2>3. mine = s => ~Tracked(s)
    BY <1>1 DEF SlotsHaveOneOwner
  <2>4. 1..Len(outstanding) = 1..k \cup (k + 1)..Len(outstanding)
    BY <1>1
  <2>5. Tracked(s) <=> (\E i \in 1..k : outstanding[i] = s) \/ Tracked(s)'
    BY <1>3, <2>4 DEF Tracked
  <2>6. Tracked(s)' => \A i \in 1..k : outstanding[i] # s
    BY <1>1, <1>3 DEF SlotsHaveOneOwner
  <2> QED BY <2>1, <2>2, <2>3, <2>5, <2>6
<1>6. mine' \in Slots => ~Tracked(mine)'
  <2>1. ASSUME mine \in Slots PROVE ~Tracked(mine)'
    <3>1. ~Tracked(mine)
      BY <1>1, <2>1 DEF SlotsHaveOneOwner
    <3>2. (k + 1)..Len(outstanding) \subseteq 1..Len(outstanding)
      BY <1>1
    <3>3. Tracked(mine)' => \E i \in (k + 1)..Len(outstanding) : outstanding[i] = mine
      BY <1>3, <2>1
    <3> QED BY <3>1, <3>2, <3>3 DEF Tracked
  <2> QED BY <2>1
<1> QED
  BY <1>4, <1>5, <1>6 DEF SlotsHaveOneOwner

(* The driver drops its oldest frame and the tracker drops at most the     *)
(* entries up to and including that one.                                   *)
LEMMA PopMirrors ==
  ASSUME SafetyInv, NEW k \in 0..Len(outstanding), NEW d \in 0..Len(fifo),
         outstanding' = Popped(k), fifo' = SubSeq(fifo, d + 1, Len(fifo)),
         k <= Len(outstanding) - Len(fifo) + d
  PROVE  TrackerMirrorsDriver'
<1>1. /\ outstanding \in Seq(Slots) /\ fifo \in Seq(Slots)
      /\ TrackerMirrorsDriver
  BY DEF SafetyInv, TypeOK
<1>2. /\ Len(outstanding') = Len(outstanding) - k
      /\ \A i \in 1..(Len(outstanding) - k) : outstanding'[i] = outstanding[i + k]
  BY PoppedElements
<1>3. /\ Len(fifo') = Len(fifo) - d
      /\ \A i \in 1..(Len(fifo) - d) : fifo'[i] = fifo[i + d]
  BY <1>1
<1>4. Len(outstanding) \in Nat /\ Len(fifo) \in Nat /\ Len(fifo) <= Len(outstanding)
  BY <1>1 DEF TrackerMirrorsDriver
<1>5. ASSUME NEW i \in 1..Len(fifo')
      PROVE  fifo'[i] = outstanding'[Len(outstanding') - Len(fifo') + i]
  <2>1. i + d \in 1..Len(fifo)
    BY <1>3, <1>4
  <2>2. fifo'[i] = outstanding[Len(outstanding) - Len(fifo) + (i + d)]
    BY <1>1, <1>3, <1>4, <2>1 DEF TrackerMirrorsDriver
  <2>3. Len(outstanding') - Len(fifo') + i \in 1..(Len(outstanding) - k)
    BY <1>2, <1>3, <1>4
  <2>4. (Len(outstanding') - Len(fifo') + i) + k = Len(outstanding) - Len(fifo) + (i + d)
    <3>1. Len(outstanding') = Len(outstanding) - k /\ Len(fifo') = Len(fifo) - d
      BY <1>2, <1>3
    <3>2. i \in Int /\ k \in Int /\ d \in Int /\ Len(outstanding) \in Int /\ Len(fifo) \in Int
      BY <1>4
    <3>3. (((Len(outstanding) - k) - (Len(fifo) - d)) + i) + k
             = (Len(outstanding) - Len(fifo)) + (i + d)
      BY <3>2, ShiftedIndex
    <3> QED BY <3>1, <3>3, Zenon
  <2> QED BY <1>2, <2>2, <2>3, <2>4
<1>6. Len(fifo') <= Len(outstanding')
  BY <1>2, <1>3, <1>4
<1> QED
  BY <1>5, <1>6 DEF TrackerMirrorsDriver

(* The driver's oldest frame is tracked, right behind the orphans.         *)
LEMMA OldestIsTracked ==
  ASSUME SafetyInv, fifo # <<>>
  PROVE  /\ Head(fifo) \in Slots
         /\ Tracked(Head(fifo))
         /\ PositionOf(Head(fifo)) = Len(outstanding) - Len(fifo) + 1
         /\ PositionOf(Head(fifo)) \in 1..Len(outstanding)
<1> DEFINE p == Len(outstanding) - Len(fifo) + 1
<1>1. /\ outstanding \in Seq(Slots) /\ fifo \in Seq(Slots)
      /\ TrackerMirrorsDriver /\ SlotsHaveOneOwner
  BY DEF SafetyInv, TypeOK
<1>2. Len(fifo) \in Nat \ {0} /\ Head(fifo) = fifo[1] /\ Head(fifo) \in Slots
  BY <1>1
<1>3. p \in 1..Len(outstanding) /\ outstanding[p] = Head(fifo)
  BY <1>1, <1>2 DEF TrackerMirrorsDriver
<1>4. \A i \in 1..Len(outstanding) : outstanding[i] = Head(fifo) => i = p
  BY <1>1, <1>3 DEF SlotsHaveOneOwner
<1>5. \A j \in 1..(p - 1) : outstanding[j] # Head(fifo)
  BY <1>1, <1>3, <1>4
<1>6. PositionOf(Head(fifo)) = p
  BY <1>3, <1>4, <1>5 DEF PositionOf
<1> QED
  BY <1>2, <1>3, <1>6 DEF Tracked

(* A free slot, or the one inject() holds, moves to the tracker.           *)
LEMMA AppendKeepsOwners ==
  ASSUME SafetyInv, NEW s \in Slots, ~Tracked(s),
         outstanding' = Append(outstanding, s),
         used'[s], \A t \in Slots \ {s} : used'[t] = used[t],
         \/ mine # s /\ mine' = mine
         \/ mine = s /\ mine' = NoSlot
  PROVE  SlotsHaveOneOwner'
<1>1. /\ outstanding \in Seq(Slots) /\ Len(outstanding) \in Nat
      /\ SlotsHaveOneOwner
  BY DEF SafetyInv, TypeOK
<1>2. /\ Len(outstanding') = Len(outstanding) + 1
      /\ \A i \in 1..Len(outstanding) : outstanding'[i] = outstanding[i]
      /\ outstanding'[Len(outstanding) + 1] = s
  BY <1>1
<1>3. 1..Len(outstanding') = 1..Len(outstanding) \cup {Len(outstanding) + 1}
  BY <1>1, <1>2
<1>4. \A t : Tracked(t)' <=> Tracked(t) \/ t = s
  BY <1>2, <1>3, Zenon DEF Tracked
<1>5. ASSUME NEW i \in 1..Len(outstanding'), NEW j \in 1..Len(outstanding'),
             outstanding'[i] = outstanding'[j]
      PROVE  i = j
  <2>1. CASE i \in 1..Len(outstanding) /\ j \in 1..Len(outstanding)
    BY <1>1, <1>2, <1>5, <2>1 DEF SlotsHaveOneOwner
  <2>2. CASE i \in 1..Len(outstanding) /\ j = Len(outstanding) + 1
    BY <1>2, <1>5, <2>2, Zenon DEF Tracked
  <2>3. CASE i = Len(outstanding) + 1 /\ j \in 1..Len(outstanding)
    BY <1>2, <1>5, <2>3, Zenon DEF Tracked
  <2> QED BY <1>3, <2>1, <2>2, <2>3
<1>6. ASSUME NEW t \in Slots
      PROVE  used'[t] <=> Tracked(t)' \/ mine' = t
  <2>1. used[t] <=> Tracked(t) \/ mine = t
    BY <1>1 DEF SlotsHaveOneOwner
  <2>2. NoSlot # t
    BY PoolAssumption
  <2> QED BY <1>4, <2>1, <2>2
<1>7. mine' \in Slots => ~Tracked(mine)'
  BY <1>1, <1>4, PoolAssumption DEF SlotsHaveOneOwner
<1> QED
  BY <1>5, <1>6, <1>7 DEF SlotsHaveOneOwner

(* A slot handed to the driver was not yet the driver's, so writing what   *)
(* it carries disturbs no frame in flight.                                 *)
LEMMA HandOverKeepsWire ==
  ASSUME SafetyInv, NEW s \in Slots, ~Tracked(s), NEW f \in Frames \cup {NoFrame},
         fifo' = Append(fifo, s), handed' = [handed EXCEPT ![s] = f],
         content' \in [Slots -> Frames \cup {NoFrame}], content'[s] = f,
         \A t \in Slots \ {s} : content'[t] = content[t]
  PROVE  WireCarriesWhatWasHanded'
<1>1. /\ fifo \in Seq(Slots) /\ Len(fifo) \in Nat
      /\ handed \in [Slots -> Frames \cup {NoFrame}]
      /\ WireCarriesWhatWasHanded
  BY DEF SafetyInv, TypeOK
<1>2. \A i \in 1..Len(fifo) : fifo[i] \in Slots \ {s}
  BY DriverSlotsTracked, <1>1, Zenon
<1>3. /\ Len(fifo') = Len(fifo) + 1
      /\ \A i \in 1..Len(fifo) : fifo'[i] = fifo[i]
      /\ fifo'[Len(fifo) + 1] = s
  BY <1>1
<1>4. 1..Len(fifo') = 1..Len(fifo) \cup {Len(fifo) + 1}
  BY <1>1, <1>3
<1>5. /\ handed'[s] = f
      /\ \A t \in Slots \ {s} : handed'[t] = handed[t]
  BY <1>1
<1>6. ASSUME NEW i \in 1..Len(fifo)
      PROVE  content'[fifo'[i]] = handed'[fifo'[i]]
  <2>1. fifo'[i] = fifo[i] /\ fifo[i] \in Slots \ {s}
    BY <1>2, <1>3
  <2>2. content[fifo[i]] = handed[fifo[i]]
    BY <1>1 DEF WireCarriesWhatWasHanded
  <2>3. content'[fifo[i]] = content[fifo[i]] /\ handed'[fifo[i]] = handed[fifo[i]]
    BY <1>5, <2>1
  <2> QED BY <2>1, <2>2, <2>3, Zenon
<1>7. content'[fifo'[Len(fifo) + 1]] = handed'[fifo'[Len(fifo) + 1]]
  BY <1>3, <1>5, Zenon
<1> QED
  BY <1>4, <1>6, <1>7, Zenon DEF WireCarriesWhatWasHanded

(* A frame routed in: a free slot of the route's pool reaches the tracker  *)
(* and the driver together, or nothing changes but the slot's content.     *)
LEMMA RxForwardSafe == SafetyInv /\ RxForward => SafetyInv'
<1> SUFFICES ASSUME SafetyInv, RxForward PROVE SafetyInv'
  OBVIOUS
<1>0. TypeOK /\ LoopLocals /\ SlotsHaveOneOwner /\ DriverNeverRefuses /\ EveryFrameAccounted
  BY DEF SafetyInv
<1>1. PICK s \in FwdSlots, f \in Frames :
        /\ ~used[s]
        /\ content' = [content EXCEPT ![s] = f]
        /\ \/ HandOver(s, f)
           \/ UNCHANGED <<used, outstanding, counters, fifo, handed, refused>>
  BY Zenon DEF RxForward
<1>2. /\ s \in Slots /\ ~Tracked(s) /\ mine # s
      /\ content' \in [Slots -> Frames \cup {NoFrame}] /\ content'[s] = f
      /\ \A t \in Slots \ {s} : content'[t] = content[t]
      /\ UNCHANGED <<state, recovering, healthy, pc, mine, loopVars>>
      /\ state # "busoff"
  BY <1>0, <1>1 DEF TypeOK, Slots, SlotsHaveOneOwner, RxForward
<1>3. CASE HandOver(s, f)
  <2>1. DriverAccepts /\ \A t : Pushed(t) = Append(outstanding, t)
    BY GateImpliesAccept, <1>2, <1>3 DEF HandOver
  <2>2. /\ fifo' = Append(fifo, s) /\ handed' = [handed EXCEPT ![s] = f]
        /\ used' = [used EXCEPT ![s] = TRUE] /\ outstanding' = Append(outstanding, s)
        /\ counters' = [counters EXCEPT !.forwarded = @ + 1]
        /\ refused' = (refused \/ FALSE)
    BY <1>3, <2>1 DEF HandOver, DriverTransmit
  <2>3. used' \in [Slots -> BOOLEAN] /\ used'[s] /\ \A t \in Slots \ {s} : used'[t] = used[t]
    BY <1>0, <1>2, <2>2 DEF TypeOK
  <2>4. TrackerMirrorsDriver'
    BY AppendMirrors, <1>2, <2>2
  <2>5. SlotsHaveOneOwner'
    BY AppendKeepsOwners, <1>2, <2>2, <2>3
  <2>6. WireCarriesWhatWasHanded'
    BY HandOverKeepsWire, <1>2, <2>2
  <2>6a. /\ outstanding' \in Seq(Slots) /\ fifo' \in Seq(Slots)
         /\ handed' \in [Slots -> Frames \cup {NoFrame}]
         /\ Len(outstanding) \in Nat /\ Len(outstanding') = Len(outstanding) + 1
    BY <1>0, <1>2, <2>2 DEF TypeOK
  <2>6b. /\ counters \in CounterType /\ counters' \in CounterType
         /\ counters'.forwarded = counters.forwarded + 1 /\ counters'.injected = counters.injected
         /\ counters'.txFail = counters.txFail /\ counters'.txOk = counters.txOk
    <3>1. counters \in CounterType
      BY <1>0 DEF TypeOK, CounterType
    <3> QED BY <2>2, <3>1, CountOne
  <2>7. TypeOK'
    BY <1>0, <1>2, <2>2, <2>3, <2>6a, <2>6b DEF TypeOK, loopVars, CounterType
  <2>8. EveryFrameAccounted'
    <3>1. /\ counters.forwarded \in Int /\ counters.injected \in Int
          /\ counters.txFail \in Int /\ counters.txOk \in Int /\ Len(outstanding) \in Int
      BY <2>6a, <2>6b DEF CounterType
    <3>2. (counters.forwarded + 1) + counters.injected
             = counters.txOk + counters.txFail + (Len(outstanding) + 1)
      BY <1>0, <3>1, AccountGrows DEF EveryFrameAccounted
    <3> QED BY <2>6a, <2>6b, <3>2, Zenon DEF EveryFrameAccounted
  <2>9. DriverNeverRefuses' /\ LoopLocals' /\ ReclaimedHeadIsOrphan'
    BY <1>0, <1>2, <2>2 DEF DriverNeverRefuses, LoopLocals, loopVars, ReclaimedHeadIsOrphan
  <2> QED BY <2>4, <2>5, <2>6, <2>7, <2>8, <2>9 DEF SafetyInv
<1>4. CASE UNCHANGED <<used, outstanding, counters, fifo, handed, refused>>
  <2>1. UNCHANGED <<used, outstanding, counters, fifo, handed, refused, mine, pc>>
    BY <1>2, <1>4
  <2>2. WireCarriesWhatWasHanded'
    BY <1>2, <2>1, DriverSlotsTracked DEF SafetyInv, WireCarriesWhatWasHanded
  <2>3. TypeOK'
    BY <1>0, <1>2, <2>1 DEF TypeOK, loopVars
  <2>4. /\ TrackerMirrorsDriver' /\ SlotsHaveOneOwner' /\ DriverNeverRefuses'
        /\ EveryFrameAccounted' /\ LoopLocals' /\ ReclaimedHeadIsOrphan'
    BY <1>2, <2>1 DEF SafetyInv, TrackerMirrorsDriver, SlotsHaveOneOwner, DriverNeverRefuses,
       EveryFrameAccounted, LoopLocals, loopVars, Tracked, ReclaimedHeadIsOrphan
  <2> QED BY <2>2, <2>3, <2>4 DEF SafetyInv
<1> QED BY <1>1, <1>3, <1>4

(* A frame that leaves the head of the driver's queue.                     *)
LEMMA TailKeepsWire ==
  ASSUME SafetyInv, fifo # <<>>, fifo' = Tail(fifo), UNCHANGED <<content, handed>>
  PROVE  /\ WireCarriesWhatWasHanded'
         /\ fifo' \in Seq(Slots)
         /\ 1 \in 0..Len(fifo)
         /\ fifo' = SubSeq(fifo, 1 + 1, Len(fifo))
<1>1. fifo \in Seq(Slots) /\ Len(fifo) \in Nat \ {0} /\ WireCarriesWhatWasHanded
  BY DEF SafetyInv, TypeOK
<1>2. fifo' \in Seq(Slots) /\ Len(fifo') = Len(fifo) - 1
  BY <1>1
<1>3. \A i \in 1..(Len(fifo) - 1) : fifo'[i] = fifo[i + 1]
  BY <1>1
<1>4. WireCarriesWhatWasHanded'
  BY <1>1, <1>2, <1>3 DEF WireCarriesWhatWasHanded
<1> QED BY <1>1, <1>2, <1>4

(* A completion: the driver's oldest frame is tracked, so the orphans and  *)
(* it are released, and the counters absorb them.                          *)
LEMMA TxDoneSafe ==
  ASSUME SafetyInv, NEW ok \in BOOLEAN, TxDone(ok)
  PROVE  SafetyInv'
<1> DEFINE k == PositionOf(Head(fifo))
<1>0. TypeOK /\ LoopLocals /\ DriverNeverRefuses /\ EveryFrameAccounted
  BY DEF SafetyInv
<1>1. /\ Head(fifo) \in Slots /\ Tracked(Head(fifo))
      /\ k = Len(outstanding) - Len(fifo) + 1 /\ k \in 1..Len(outstanding)
  BY OldestIsTracked DEF TxDone
<1> HIDE DEF k
<1>2. /\ used' = Released(k) /\ outstanding' = Popped(k)
      /\ counters' = Completed(k - 1, ok)
      /\ fifo # <<>> /\ fifo' = Tail(fifo)
      /\ UNCHANGED <<state, content, handed, recovering, healthy, pc, mine, refused, loopVars>>
  BY <1>1 DEF TxDone, k
<1>3. k \in 0..Len(outstanding) /\ Len(outstanding) \in Nat /\ Len(fifo) \in Nat
  BY <1>0, <1>1 DEF TypeOK
<1>4. /\ WireCarriesWhatWasHanded' /\ fifo' \in Seq(Slots) /\ 1 \in 0..Len(fifo)
      /\ fifo' = SubSeq(fifo, 1 + 1, Len(fifo))
  BY TailKeepsWire, <1>2
<1>5. TrackerMirrorsDriver'
  <2>1. k <= Len(outstanding) - Len(fifo) + 1
    BY <1>1, <1>3
  <2> QED BY PopMirrors, <1>2, <1>3, <1>4, <2>1
<1>6. SlotsHaveOneOwner'
  BY PopKeepsOwners, <1>2, <1>3
<1>7. outstanding' \in Seq(Slots) /\ Len(outstanding') = Len(outstanding) - k
  BY PoppedElements, <1>2, <1>3
<1>8. used' \in [Slots -> BOOLEAN]
  BY <1>0, <1>2 DEF Released, TypeOK
<1>9. counters' \in [forwarded : Nat, injected : Nat, txFail : Nat, txOk : Nat]
  BY <1>0, <1>1, <1>2, <1>3 DEF TypeOK, Completed
<1>10. EveryFrameAccounted'
  <2>1. /\ counters'.forwarded = counters.forwarded /\ counters'.injected = counters.injected
        /\ counters'.txFail = counters.txFail + (k - 1) + (IF ok THEN 0 ELSE 1)
        /\ counters'.txOk = counters.txOk + (IF ok THEN 1 ELSE 0)
    BY <1>2 DEF Completed
  <2>2. /\ counters.forwarded \in Nat /\ counters.injected \in Nat
        /\ counters.txFail \in Nat /\ counters.txOk \in Nat
        /\ k \in Int /\ Len(outstanding) \in Int
    BY <1>0, <1>1, <1>3 DEF TypeOK
  <2>3. /\ counters.forwarded + counters.injected
             = (counters.txOk + 1) + (counters.txFail + (k - 1) + 0) + (Len(outstanding) - k)
        /\ counters.forwarded + counters.injected
             = (counters.txOk + 0) + (counters.txFail + (k - 1) + 1) + (Len(outstanding) - k)
    BY <1>0, <2>2, AccountKept DEF EveryFrameAccounted
  <2>4. CASE ok
    <3>1. /\ counters'.txFail = counters.txFail + (k - 1) + 0
          /\ counters'.txOk = counters.txOk + 1
      BY <2>1, <2>4
    <3> QED BY <1>7, <2>1, <2>3, <3>1, Zenon DEF EveryFrameAccounted
  <2>5. CASE ~ok
    <3>1. /\ counters'.txFail = counters.txFail + (k - 1) + 1
          /\ counters'.txOk = counters.txOk + 0
      BY <2>1, <2>5
    <3> QED BY <1>7, <2>1, <2>3, <3>1, Zenon DEF EveryFrameAccounted
  <2> QED BY <2>4, <2>5
<1>11. TypeOK'
  BY <1>0, <1>2, <1>4, <1>7, <1>8, <1>9 DEF TypeOK, loopVars
<1>12. DriverNeverRefuses' /\ LoopLocals' /\ ReclaimedHeadIsOrphan'
  BY <1>0, <1>2 DEF DriverNeverRefuses, LoopLocals, loopVars, ReclaimedHeadIsOrphan, TxDone
<1> QED BY <1>4, <1>5, <1>6, <1>10, <1>11, <1>12 DEF SafetyInv

(* Bus-off takes the mounted frame away from the driver and leaves the     *)
(* tracker alone: the mirror is kept, with one orphan more.                *)
LEMMA BusOffSafe == SafetyInv /\ BusOff => SafetyInv'
<1> SUFFICES ASSUME SafetyInv, BusOff PROVE SafetyInv'
  OBVIOUS
<1>0. TypeOK /\ TrackerMirrorsDriver
  BY DEF SafetyInv
<1>1. /\ fifo # <<>> /\ fifo' = Tail(fifo) /\ state' = "busoff"
      /\ UNCHANGED <<used, content, outstanding, handed, recovering, healthy, pc, mine,
                     counters, refused, loopVars>>
  BY DEF BusOff
<1>2. /\ WireCarriesWhatWasHanded' /\ fifo' \in Seq(Slots) /\ 1 \in 0..Len(fifo)
      /\ fifo' = SubSeq(fifo, 1 + 1, Len(fifo))
  BY TailKeepsWire, <1>1
<1>3. /\ Len(outstanding) \in Nat /\ Len(fifo) \in Nat /\ Len(fifo) <= Len(outstanding)
      /\ 0 \in 0..Len(outstanding) /\ 0 <= Len(outstanding) - Len(fifo) + 1
  BY <1>0 DEF TypeOK, TrackerMirrorsDriver
<1>4. outstanding' = Popped(0)
  BY <1>0, <1>1 DEF Popped, TypeOK
<1>5. TrackerMirrorsDriver'
  BY PopMirrors, <1>2, <1>3, <1>4
<1>6. TypeOK'
  BY <1>0, <1>1, <1>2 DEF TypeOK, loopVars, States
<1>7. /\ SlotsHaveOneOwner' /\ DriverNeverRefuses' /\ EveryFrameAccounted' /\ LoopLocals'
  BY <1>1 DEF SafetyInv, SlotsHaveOneOwner, DriverNeverRefuses,
     EveryFrameAccounted, LoopLocals, loopVars, Tracked
<1>8. Len(fifo') < Len(outstanding')
  <2>1. fifo \in Seq(Slots) /\ Len(fifo') = Len(fifo) - 1
    BY <1>0, <1>1 DEF TypeOK
  <2> QED BY <1>1, <1>3, <2>1
<1> QED BY <1>2, <1>5, <1>6, <1>7, <1>8 DEF SafetyInv, ReclaimedHeadIsOrphan

(* A step that leaves slots, tracker, driver queue and counters alone.     *)
LEMMA QuietSafe ==
  ASSUME SafetyInv, TypeOK', LoopLocals', ReclaimedHeadIsOrphan',
         UNCHANGED <<used, content, outstanding, fifo, handed, mine, counters, refused>>
  PROVE  SafetyInv'
BY DEF SafetyInv, TrackerMirrorsDriver, SlotsHaveOneOwner, WireCarriesWhatWasHanded,
   DriverNeverRefuses, EveryFrameAccounted, Tracked

LEMMA StateChangeSafe == SafetyInv /\ (StateChange \/ BusChange) => SafetyInv'
<1> SUFFICES ASSUME SafetyInv, StateChange \/ BusChange PROVE SafetyInv'
  OBVIOUS
<1>1. TypeOK /\ LoopLocals
  BY DEF SafetyInv
<1>2. CASE ErrorPassive \/ ErrorCleared \/ Recovered \/ BusChange
  <2>1. UNCHANGED <<used, content, outstanding, fifo, handed, pc, mine, counters, refused, loopVars>>
    BY <1>2 DEF ErrorPassive, ErrorCleared, Recovered, BusChange, driverVars
  <2>2. state' \in States /\ recovering' \in BOOLEAN /\ healthy' \in BOOLEAN
    BY <1>1, <1>2 DEF TypeOK, States, driverVars, ErrorPassive, ErrorCleared, Recovered, BusChange
  <2>2a. TypeOK'
    BY <1>1, <2>1, <2>2 DEF TypeOK, loopVars
  <2>3. LoopLocals'
    BY <1>1, <2>1 DEF LoopLocals, loopVars
  <2>4. ReclaimedHeadIsOrphan'
    BY <1>2, <2>1 DEF SafetyInv, ReclaimedHeadIsOrphan, loopVars, ErrorPassive, ErrorCleared,
       Recovered, BusChange
  <2> QED BY QuietSafe, <2>1, <2>2a, <2>3, <2>4
<1>3. CASE BusOff
  BY <1>3, BusOffSafe
<1> QED BY <1>2, <1>3 DEF StateChange

(* The loop's pass: only the eager reclaim touches the tracker, and in     *)
(* bus-off its oldest entry is never one the driver still owns.            *)
LEMMA LoopSafe == SafetyInv /\ Loop => SafetyInv'
<1> SUFFICES ASSUME SafetyInv, Loop PROVE SafetyInv'
  OBVIOUS
<1>0. TypeOK /\ LoopLocals /\ TrackerMirrorsDriver /\ ReclaimedHeadIsOrphan
      /\ EveryFrameAccounted /\ DriverNeverRefuses /\ WireCarriesWhatWasHanded
  BY DEF SafetyInv
<1>1. CASE LoopState
  <2>1. UNCHANGED <<state, used, content, outstanding, driverVars, healthy, mine, counters, refused>>
    BY <1>1 DEF LoopState
  <2>2. TypeOK' /\ LoopLocals'
    BY <1>0, <1>1 DEF LoopState, TypeOK, LoopLocals, driverVars
  <2>3. ReclaimedHeadIsOrphan'
    BY <1>0, <1>1 DEF LoopState, ReclaimedHeadIsOrphan, driverVars, TypeOK
  <2> QED BY QuietSafe, <2>1, <2>2, <2>3 DEF driverVars
<1>2. CASE \E due \in BOOLEAN : LoopRecover(due)
  <2>1. PICK due \in BOOLEAN : LoopRecover(due)
    BY <1>2
  <2>2. UNCHANGED <<state, used, content, outstanding, fifo, handed, healthy, mine, counters,
                    refused, loopVars>> /\ pc = "recover" /\ pc' = "idle"
    BY <2>1 DEF LoopRecover
  <2>3. TypeOK'
    BY <1>0, <2>1, <2>2 DEF LoopRecover, TypeOK, loopVars
  <2>4. LoopLocals' /\ ReclaimedHeadIsOrphan'
    BY <1>0, <2>2 DEF LoopLocals, ReclaimedHeadIsOrphan, loopVars
  <2> QED BY QuietSafe, <2>2, <2>3, <2>4
<1>3. CASE LoopReclaim
  <2>1. UNCHANGED <<state, content, fifo, handed, recovering, healthy, mine, refused, seen,
                    lastLoopState, pending>> /\ pc = "reclaim" /\ pc' = "recover"
    BY <1>3 DEF LoopReclaim, driverVars
  <2>2. LoopLocals'
    BY <1>0, <2>1 DEF LoopLocals
  <2>3. CASE seen = "busoff" /\ ~headReclaimed /\ state = "busoff" /\ outstanding # <<>>
    <3>1. /\ headReclaimed' = TRUE /\ used' = Released(1) /\ outstanding' = Popped(1)
          /\ counters' = [counters EXCEPT !.txFail = @ + 1]
      BY <1>3, <2>3 DEF LoopReclaim
    <3>2. /\ Len(outstanding) \in Nat /\ Len(fifo) \in Nat /\ Len(fifo) < Len(outstanding)
          /\ fifo \in Seq(Slots) /\ fifo' = SubSeq(fifo, 0 + 1, Len(fifo))
      BY <1>0, <2>1, <2>3 DEF TypeOK, ReclaimedHeadIsOrphan
    <3>3. /\ 1 \in 0..Len(outstanding) /\ 0 \in 0..Len(fifo)
          /\ 1 <= Len(outstanding) - Len(fifo) + 0
      BY <3>2
    <3>4. TrackerMirrorsDriver'
      BY PopMirrors, <3>1, <3>2, <3>3
    <3>5. SlotsHaveOneOwner'
      BY PopKeepsOwners, <2>1, <3>1, <3>3
    <3>6. outstanding' \in Seq(Slots) /\ Len(outstanding') = Len(outstanding) - 1
      BY PoppedElements, <3>1, <3>3
    <3>7. used' \in [Slots -> BOOLEAN]
      BY <3>1, <1>0 DEF Released, TypeOK
    <3>8. TypeOK'
      <4>1. counters' \in [forwarded: Nat, injected: Nat, txFail: Nat, txOk: Nat]
        BY <1>0, <3>1 DEF TypeOK
      <4>2. headReclaimed' \in BOOLEAN
        BY <3>1
      <4> QED BY <1>0, <2>1, <3>6, <3>7, <4>1, <4>2, Zenon DEF TypeOK
    <3>9. EveryFrameAccounted'
      <4>1. /\ counters'.forwarded = counters.forwarded /\ counters'.injected = counters.injected
            /\ counters'.txFail = counters.txFail + 1 /\ counters'.txOk = counters.txOk
        BY <1>0, <3>1 DEF TypeOK
      <4>2. /\ counters.forwarded \in Nat /\ counters.injected \in Nat
            /\ counters.txFail \in Nat /\ counters.txOk \in Nat
        BY <1>0 DEF TypeOK
      <4> QED BY <1>0, <3>2, <3>6, <4>1, <4>2 DEF EveryFrameAccounted
    <3>10. /\ ReclaimedHeadIsOrphan' /\ WireCarriesWhatWasHanded' /\ DriverNeverRefuses'
      BY <1>0, <2>1, <2>3, <3>1 DEF ReclaimedHeadIsOrphan, LoopLocals, WireCarriesWhatWasHanded,
         DriverNeverRefuses
    <3> QED BY <2>2, <3>4, <3>5, <3>8, <3>9, <3>10 DEF SafetyInv
  <2>4. CASE ~(seen = "busoff" /\ ~headReclaimed /\ state = "busoff" /\ outstanding # <<>>)
    <3>1. UNCHANGED <<used, outstanding, counters>> /\ headReclaimed' \in {headReclaimed, TRUE}
      BY <1>3, <2>4 DEF LoopReclaim
    <3>2. TypeOK'
      BY <1>0, <2>1, <3>1 DEF TypeOK
    <3>3. ReclaimedHeadIsOrphan'
      BY <1>0, <2>1, <3>1 DEF ReclaimedHeadIsOrphan, TypeOK
    <3> QED BY QuietSafe, <2>1, <2>2, <3>1, <3>2, <3>3
  <2> QED BY <2>3, <2>4
<1> QED BY <1>1, <1>2, <1>3 DEF Loop

(* inject(): its slot is free, then its own, then the tracker's or free    *)
(* again.                                                                  *)
LEMMA InjectAcquireSafe == SafetyInv /\ InjectAcquire => SafetyInv'
<1> SUFFICES ASSUME SafetyInv, InjectAcquire PROVE SafetyInv'
  OBVIOUS
<1>0. /\ TypeOK /\ LoopLocals /\ SlotsHaveOneOwner /\ ReclaimedHeadIsOrphan
      /\ TrackerMirrorsDriver /\ DriverNeverRefuses /\ EveryFrameAccounted
  BY DEF SafetyInv
<1>1. PICK s \in InjectSlots, f \in Frames :
        /\ ~used[s]
        /\ used' = [used EXCEPT ![s] = TRUE]
        /\ content' = [content EXCEPT ![s] = f]
        /\ mine' = s
  BY Zenon DEF InjectAcquire
<1>2. /\ pc = "idle" /\ pc' = "inject" /\ s \in Slots
      /\ UNCHANGED <<state, outstanding, fifo, handed, recovering, healthy, counters, refused,
                     loopVars>>
  BY DEF InjectAcquire, driverVars, Slots
<1>3. mine = NoSlot /\ ~Tracked(s)
  BY <1>0, <1>1, <1>2 DEF LoopLocals, SlotsHaveOneOwner
<1>4. /\ used' \in [Slots -> BOOLEAN] /\ used'[s] /\ \A t \in Slots \ {s} : used'[t] = used[t]
      /\ content' \in [Slots -> Frames \cup {NoFrame}]
      /\ \A t \in Slots \ {s} : content'[t] = content[t]
  BY <1>0, <1>1, <1>2 DEF TypeOK
<1>5. TypeOK'
  BY <1>0, <1>1, <1>2, <1>4 DEF TypeOK, loopVars
<1>6. LoopLocals'
  BY <1>0, <1>1, <1>2, PoolAssumption DEF LoopLocals, loopVars, Slots
<1>7. SlotsHaveOneOwner'
  <2>1. \A t : Tracked(t)' <=> Tracked(t)
    BY <1>2 DEF Tracked
  <2>2. ASSUME NEW t \in Slots PROVE used'[t] <=> Tracked(t)' \/ mine' = t
    <3>1. used[t] <=> Tracked(t)
      BY <1>0, <1>3, PoolAssumption DEF SlotsHaveOneOwner
    <3>2. used'[t] <=> (t = s \/ used[t])
      BY <1>4
    <3> QED BY <1>1, <1>3, <2>1, <3>1, <3>2
  <2> QED BY <1>0, <1>1, <1>2, <1>3, <2>1, <2>2 DEF SlotsHaveOneOwner
<1>8. WireCarriesWhatWasHanded'
  BY <1>2, <1>3, <1>4, DriverSlotsTracked DEF SafetyInv, WireCarriesWhatWasHanded
<1>9. /\ TrackerMirrorsDriver' /\ ReclaimedHeadIsOrphan' /\ DriverNeverRefuses'
      /\ EveryFrameAccounted'
  BY <1>0, <1>2 DEF TrackerMirrorsDriver, ReclaimedHeadIsOrphan, DriverNeverRefuses,
     EveryFrameAccounted, loopVars
<1> QED BY <1>5, <1>6, <1>7, <1>8, <1>9 DEF SafetyInv

LEMMA InjectSubmitSafe == SafetyInv /\ InjectSubmit => SafetyInv'
<1> SUFFICES ASSUME SafetyInv, InjectSubmit PROVE SafetyInv'
  OBVIOUS
<1>0. /\ TypeOK /\ LoopLocals /\ SlotsHaveOneOwner /\ DriverNeverRefuses /\ EveryFrameAccounted
      /\ ReclaimedHeadIsOrphan
  BY DEF SafetyInv
<1>1. pc = "inject" /\ UNCHANGED <<state, used, content, recovering, healthy, loopVars>>
  BY DEF InjectSubmit
<1>2. /\ mine \in InjectSlots /\ mine \in Slots /\ mine # NoSlot /\ ~Tracked(mine) /\ used[mine]
      /\ content[mine] \in Frames \cup {NoFrame}
  BY <1>0, <1>1 DEF LoopLocals, SlotsHaveOneOwner, Slots, TypeOK
<1>3. CASE state # "busoff" /\ OccupancyGate
  <2>1. DriverAccepts /\ \A t : Pushed(t) = Append(outstanding, t)
    BY GateImpliesAccept, <1>3
  <2>2. /\ fifo' = Append(fifo, mine) /\ handed' = [handed EXCEPT ![mine] = content[mine]]
        /\ outstanding' = Append(outstanding, mine)
        /\ counters' = [counters EXCEPT !.injected = @ + 1]
        /\ pc' = "idle" /\ mine' = NoSlot
        /\ refused' = (refused \/ FALSE)
    BY <1>3, <2>1 DEF InjectSubmit, DriverTransmit
  <2>3. TrackerMirrorsDriver'
    BY AppendMirrors, <1>2, <2>2
  <2>4. SlotsHaveOneOwner'
    BY AppendKeepsOwners, <1>1, <1>2, <2>2
  <2>5. WireCarriesWhatWasHanded'
    BY HandOverKeepsWire, <1>0, <1>1, <1>2, <2>2 DEF TypeOK
  <2>6. /\ outstanding' \in Seq(Slots) /\ fifo' \in Seq(Slots)
        /\ handed' \in [Slots -> Frames \cup {NoFrame}]
        /\ Len(outstanding) \in Nat /\ Len(outstanding') = Len(outstanding) + 1
    BY <1>0, <1>2, <2>2 DEF TypeOK
  <2>7. /\ counters \in CounterType /\ counters' \in CounterType
        /\ counters'.forwarded = counters.forwarded /\ counters'.injected = counters.injected + 1
        /\ counters'.txFail = counters.txFail /\ counters'.txOk = counters.txOk
    <3>1. counters \in CounterType
      BY <1>0 DEF TypeOK, CounterType
    <3> QED BY <2>2, <3>1, CountOne
  <2>8. TypeOK'
    BY <1>0, <1>1, <2>2, <2>6, <2>7 DEF TypeOK, loopVars, CounterType
  <2>9. EveryFrameAccounted'
    <3>1. /\ counters.forwarded \in Int /\ counters.injected \in Int
          /\ counters.txFail \in Int /\ counters.txOk \in Int /\ Len(outstanding) \in Int
      BY <2>6, <2>7 DEF CounterType
    <3>1a. counters.forwarded + counters.injected
             = counters.txOk + counters.txFail + Len(outstanding)
      BY <1>0 DEF EveryFrameAccounted
    <3>2. counters.forwarded + (counters.injected + 1)
             = counters.txOk + counters.txFail + (Len(outstanding) + 1)
      <4> DEFINE a == counters.forwarded
                 b == counters.injected
                 c == counters.txOk
                 d == counters.txFail
                 n == Len(outstanding)
      <4>1. a \in Int /\ b \in Int /\ c \in Int /\ d \in Int /\ n \in Int /\ a + b = c + d + n
        BY <3>1, <3>1a
      <4> HIDE DEF a, b, c, d, n
      <4>2. a + (b + 1) = c + d + (n + 1)
        BY <4>1
      <4> QED BY <4>2 DEF a, b, c, d, n
    <3> QED BY <2>6, <2>7, <3>2, Zenon DEF EveryFrameAccounted
  <2>10. LoopLocals' /\ DriverNeverRefuses' /\ ReclaimedHeadIsOrphan'
    BY <1>0, <1>1, <1>3, <2>2 DEF LoopLocals, DriverNeverRefuses, ReclaimedHeadIsOrphan, loopVars
  <2> QED BY <2>3, <2>4, <2>5, <2>8, <2>9, <2>10 DEF SafetyInv
<1>4. CASE ~(state # "busoff" /\ OccupancyGate)
  <2>1. pc' = "reject" /\ UNCHANGED <<outstanding, counters, mine, fifo, handed, refused>>
    BY <1>4 DEF InjectSubmit
  <2>2. TypeOK' /\ LoopLocals' /\ ReclaimedHeadIsOrphan'
    BY <1>0, <1>1, <1>2, <2>1 DEF TypeOK, LoopLocals, ReclaimedHeadIsOrphan, loopVars
  <2> QED BY QuietSafe, <1>1, <2>1, <2>2
<1> QED BY <1>3, <1>4

LEMMA InjectRejectSafe == SafetyInv /\ InjectReject => SafetyInv'
<1> SUFFICES ASSUME SafetyInv, InjectReject PROVE SafetyInv'
  OBVIOUS
<1>0. /\ TypeOK /\ LoopLocals /\ SlotsHaveOneOwner /\ ReclaimedHeadIsOrphan
      /\ TrackerMirrorsDriver /\ DriverNeverRefuses /\ EveryFrameAccounted
      /\ WireCarriesWhatWasHanded
  BY DEF SafetyInv
<1>1. /\ pc = "reject" /\ pc' = "idle" /\ mine' = NoSlot
      /\ used' = [used EXCEPT ![mine] = FALSE]
      /\ UNCHANGED <<state, content, outstanding, fifo, handed, recovering, healthy, counters,
                     refused, loopVars>>
  BY DEF InjectReject, driverVars
<1>2. mine \in Slots /\ ~Tracked(mine)
  BY <1>0, <1>1 DEF LoopLocals, SlotsHaveOneOwner, Slots
<1>3. /\ used' \in [Slots -> BOOLEAN] /\ ~used'[mine]
      /\ \A t \in Slots \ {mine} : used'[t] = used[t]
  BY <1>0, <1>1, <1>2 DEF TypeOK
<1>4. TypeOK'
  BY <1>0, <1>1, <1>3 DEF TypeOK, loopVars
<1>5. LoopLocals' /\ ReclaimedHeadIsOrphan'
  BY <1>0, <1>1 DEF LoopLocals, ReclaimedHeadIsOrphan, loopVars
<1>6. SlotsHaveOneOwner'
  <2>1. \A t : Tracked(t)' <=> Tracked(t)
    BY <1>1 DEF Tracked
  <2>2. ASSUME NEW t \in Slots PROVE used'[t] <=> Tracked(t)' \/ mine' = t
    <3>1. used[t] <=> Tracked(t) \/ mine = t
      BY <1>0 DEF SlotsHaveOneOwner
    <3>2. mine' # t
      BY <1>1, PoolAssumption
    <3> QED BY <1>2, <1>3, <2>1, <3>1, <3>2
  <2> QED BY <1>0, <1>1, <2>1, <2>2, PoolAssumption DEF SlotsHaveOneOwner
<1>7. /\ TrackerMirrorsDriver' /\ DriverNeverRefuses' /\ EveryFrameAccounted'
      /\ WireCarriesWhatWasHanded'
  BY <1>0, <1>1 DEF TrackerMirrorsDriver, DriverNeverRefuses, EveryFrameAccounted,
     WireCarriesWhatWasHanded
<1> QED BY <1>4, <1>5, <1>6, <1>7 DEF SafetyInv

(* Every step keeps the inductive invariant.                               *)
LEMMA StepSafe == SafetyInv /\ [Next]_vars => SafetyInv'
<1> SUFFICES ASSUME SafetyInv, [Next]_vars PROVE SafetyInv'
  OBVIOUS
<1>1. CASE RxForward
  BY <1>1, RxForwardSafe
<1>2. CASE \E ok \in BOOLEAN : TxDone(ok)
  BY <1>2, TxDoneSafe
<1>3. CASE StateChange \/ BusChange
  BY <1>3, StateChangeSafe
<1>4. CASE Loop
  BY <1>4, LoopSafe
<1>5. CASE Inject
  BY <1>5, InjectAcquireSafe, InjectSubmitSafe, InjectRejectSafe DEF Inject
<1>6. CASE UNCHANGED vars
  <2>1. TypeOK' /\ LoopLocals' /\ ReclaimedHeadIsOrphan'
    BY <1>6 DEF SafetyInv, TypeOK, LoopLocals, ReclaimedHeadIsOrphan, vars
  <2> QED BY QuietSafe, <1>6, <2>1 DEF vars
<1> QED BY <1>1, <1>2, <1>3, <1>4, <1>5, <1>6 DEF Next, Isr

(* The conjunction holds in every reachable state.                         *)
THEOREM TxPortSafety == Spec => []SafetyInv
<1>1. Init => SafetyInv
  BY InitSafe
<1>2. SafetyInv /\ [Next]_vars => SafetyInv'
  BY StepSafe
<1> QED
  BY <1>1, <1>2, PTL DEF Spec

(* The driver's queue is always the youngest part of the tracker, so a     *)
(* completion tells handle_tx_done_isr exactly which entries are orphans.  *)
THEOREM MirrorTheorem == Spec => []TrackerMirrorsDriver
<1>1. SafetyInv => TrackerMirrorsDriver
  BY DEF SafetyInv
<1> QED
  BY <1>1, TxPortSafety, PTL

(* No slot of either pool is leaked, shared or released twice, through any *)
(* interleaving of interrupts, bus-off, reclaim and inject().              *)
THEOREM OwnershipTheorem == Spec => []SlotsHaveOneOwner
<1>1. SafetyInv => SlotsHaveOneOwner
  BY DEF SafetyInv
<1> QED
  BY <1>1, TxPortSafety, PTL

(* loop_() only ever reclaims an orphan, so no frame is overwritten on its *)
(* way to the wire.                                                        *)
THEOREM WireTheorem == Spec => [](ReclaimedHeadIsOrphan /\ WireCarriesWhatWasHanded)
<1>1. SafetyInv => ReclaimedHeadIsOrphan /\ WireCarriesWhatWasHanded
  BY DEF SafetyInv
<1> QED
  BY <1>1, TxPortSafety, PTL

(* The gates of handle_rx_isr and inject() never let through a call that   *)
(* the driver refuses.                                                     *)
THEOREM GateTheorem == Spec => []DriverNeverRefuses
<1>1. SafetyInv => DriverNeverRefuses
  BY DEF SafetyInv
<1> QED
  BY <1>1, TxPortSafety, PTL

(* Forwarded and injected frames are each counted out once.                *)
THEOREM AccountTheorem == Spec => []EveryFrameAccounted
<1>1. SafetyInv => EveryFrameAccounted
  BY DEF SafetyInv
<1> QED
  BY <1>1, TxPortSafety, PTL

-----------------------------------------------------------------------------
(* A route in front of the port.                                           *)

(* What the receive interrupt does to the destination port is what the     *)
(* transmit side was specified for, or nothing.                            *)
LEMMA IsrIsPortStep ==
  ASSUME NEW f \in Frames, HandleRxIsr(f)
  PROVE  [Next]_vars
<1>1. CASE RxShed(f) \/ RxNoFrame(f)
  BY <1>1 DEF RxShed, RxNoFrame
<1>2. CASE RxReceive(f)
  <2> DEFINE s == CHOOSE t \in FreeSlots : TRUE
  <2>1. state # "busoff" /\ FreeSlots # {} /\ Room
    BY <1>2 DEF RxReceive, ShedReason
  <2>2. s \in FreeSlots
    BY <2>1
  <2>3. s \in FwdSlots /\ ~used[s] /\ Rewrite[f] \in Frames
    BY <2>2, RouteAssumption DEF FreeSlots
  <2>4. UNCHANGED <<state, recovering, healthy, pc, mine, loopVars>>
    BY <1>2 DEF RxReceive
  <2>5. \E g \in Frames :
          /\ content' = [content EXCEPT ![s] = g]
          /\ HandOver(s, g) \/ UNCHANGED <<used, outstanding, counters, fifo, handed, refused>>
    BY <1>2, <2>3 DEF RxReceive
  <2> HIDE DEF s
  <2>6. RxForward
    BY <2>1, <2>3, <2>4, <2>5 DEF RxForward
  <2> QED BY <2>6 DEF Next, Isr
<1> QED BY <1>1, <1>2 DEF HandleRxIsr

LEMMA RouteIsPortStep == [RouteNext]_allVars => [Next]_vars
<1> SUFFICES ASSUME [RouteNext]_allVars PROVE [Next]_vars
  OBVIOUS
<1>1. CASE Toggle \/ DrainLogTap \/ UNCHANGED allVars
  BY <1>1 DEF Toggle, DrainLogTap, allVars
<1>2. CASE PortStep
  BY <1>2 DEF PortStep, Next, Isr
<1> QED BY <1>1, <1>2, IsrIsPortStep DEF RouteNext

(* handle_rx_isr and the switch drive the destination port only through    *)
(* steps the transmit side allows: the route implements the port.          *)
THEOREM RouteRefinesPort == RouteSpec => RouteUsesPort
<1>1. RouteInit => Init
  BY DEF RouteInit
<1> QED
  BY <1>1, RouteIsPortStep, PTL DEF RouteSpec, RouteUsesPort, Spec

(* So the slots, the tracker and the frames of the port are safe behind    *)
(* any route: no slot has two owners, the driver refuses nothing.          *)
THEOREM RouteKeepsPortSafe == RouteSpec => []SafetyInv
BY RouteRefinesPort, TxPortSafety, PTL DEF RouteUsesPort

-----------------------------------------------------------------------------
Fates == {"disabled", "busOff", "txFull", "filtered", "noFrame"}

ShedCounts == [disabled : Nat, busOff : Nat, txFull : Nat, filtered : Nat, noFrame : Nat]

ShedSum(c) == c.disabled + c.busOff + c.txFull + c.filtered + c.noFrame

TapRecords == [frame : Frames, shed : BOOLEAN]

RouteTypeOK ==
  /\ sheds \in ShedCounts
  /\ arrived \in Seq(Frames)
  /\ taps \in Seq(TapRecords) /\ log \in Seq(TapRecords)
  /\ unread \in Nat /\ dropped \in Nat

FateInv == RouteTypeOK /\ EveryFrameHasOneFate

(* What is left out of t may also be left out of a longer t.               *)
LEMMA WithinLonger ==
  ASSUME NEW T, NEW s, Len(s) \in Nat, NEW t \in Seq(T), NEW x \in T, Within(s, t)
  PROVE  Within(s, Append(t, x))
<1>1. PICK sel \in [1..Len(s) -> 1..Len(t)] :
        /\ \A i, j \in 1..Len(s) : i < j => sel[i] < sel[j]
        /\ \A i \in 1..Len(s) : s[i] = t[sel[i]]
  BY DEF Within
<1>2. Len(Append(t, x)) = Len(t) + 1 /\ \A k \in 1..Len(t) : Append(t, x)[k] = t[k]
  OBVIOUS
<1>3. sel \in [1..Len(s) -> 1..(Len(t) + 1)] /\ \A i \in 1..Len(s) : sel[i] \in 1..Len(t)
  <2>1. Len(t) \in Nat
    OBVIOUS
  <2> QED BY <1>1, <2>1
<1>4. /\ \A i, j \in 1..Len(s) : i < j => sel[i] < sel[j]
      /\ \A i \in 1..Len(s) : s[i] = Append(t, x)[sel[i]]
  BY <1>1, <1>2, <1>3
<1> QED BY <1>2, <1>3, <1>4 DEF Within

(* What both get at the end, neither leaves out.                           *)
LEMMA WithinBoth ==
  ASSUME NEW S, NEW s \in Seq(S), NEW T, NEW t \in Seq(T), NEW x \in S, x \in T, Within(s, t)
  PROVE  Within(Append(s, x), Append(t, x))
<1>1. PICK sel \in [1..Len(s) -> 1..Len(t)] :
        /\ \A i, j \in 1..Len(s) : i < j => sel[i] < sel[j]
        /\ \A i \in 1..Len(s) : s[i] = t[sel[i]]
  BY DEF Within
<1>2. /\ Len(s) \in Nat /\ Len(t) \in Nat
      /\ Len(Append(t, x)) = Len(t) + 1 /\ Append(t, x)[Len(t) + 1] = x
      /\ \A k \in 1..Len(t) : Append(t, x)[k] = t[k]
      /\ Len(Append(s, x)) = Len(s) + 1 /\ Append(s, x)[Len(s) + 1] = x
      /\ \A k \in 1..Len(s) : Append(s, x)[k] = s[k]
  OBVIOUS
<1> DEFINE ext == [i \in 1..(Len(s) + 1) |-> IF i = Len(s) + 1 THEN Len(t) + 1 ELSE sel[i]]
<1>3. /\ ext[Len(s) + 1] = Len(t) + 1
      /\ \A i \in 1..Len(s) : ext[i] = sel[i]
      /\ 1..(Len(s) + 1) = 1..Len(s) \cup {Len(s) + 1}
      /\ \A i \in 1..Len(s) : sel[i] \in 1..Len(t)
  <2>1. 1..(Len(s) + 1) = 1..Len(s) \cup {Len(s) + 1} /\ Len(s) + 1 \notin 1..Len(s)
    BY <1>2
  <2>2. \A i \in 1..Len(s) : sel[i] \in 1..Len(t)
    BY <1>1
  <2>3. ext[Len(s) + 1] = Len(t) + 1 /\ \A i \in 1..Len(s) : ext[i] = sel[i]
    BY <2>1, Zenon
  <2> QED BY <2>1, <2>2, <2>3
<1>4. ext \in [1..(Len(s) + 1) -> 1..(Len(t) + 1)]
  BY <1>1, <1>2
<1> HIDE DEF ext
<1>5. ASSUME NEW i \in 1..(Len(s) + 1), NEW j \in 1..(Len(s) + 1), i < j
      PROVE  ext[i] < ext[j]
  <2>1. i \in 1..Len(s) /\ ext[i] = sel[i] /\ sel[i] \in 1..Len(t)
    BY <1>2, <1>3, <1>5
  <2>2. CASE j = Len(s) + 1
    BY <1>2, <1>3, <2>1, <2>2
  <2>3. CASE j # Len(s) + 1
    <3>1. j \in 1..Len(s)
      BY <1>2, <2>3
    <3> QED BY <1>1, <1>3, <1>5, <2>1, <3>1
  <2> QED BY <2>2, <2>3
<1>6. \A i \in 1..(Len(s) + 1) : Append(s, x)[i] = Append(t, x)[ext[i]]
  BY <1>1, <1>2, <1>3
<1> QED BY <1>2, <1>4, <1>5, <1>6 DEF Within

(* The frames of a longer list of records.                                 *)
LEMMA FramesAppend ==
  ASSUME NEW t \in Seq(TapRecords), NEW r \in TapRecords
  PROVE  FramesOf(Append(t, r)) = Append(FramesOf(t), r.frame) /\ FramesOf(t) \in Seq(Frames)
<1> DEFINE n == Len(t)
           u == Append(t, r)
           s == FramesOf(t)
<1>1. n \in Nat /\ Len(u) = n + 1 /\ u[n + 1] = r /\ \A i \in 1..n : u[i] = t[i] /\ t[i] \in TapRecords
  OBVIOUS
<1>2. s = [i \in 1..n |-> t[i].frame] /\ FramesOf(u) = [i \in 1..(n + 1) |-> u[i].frame]
  BY <1>1 DEF FramesOf
<1>3. s \in Seq(Frames) /\ Len(s) = n
  <2>1. \A i \in 1..n : t[i].frame \in Frames
    BY <1>1 DEF TapRecords
  <2> HIDE DEF n, s
  <2> QED BY <1>1, <1>2, <2>1
<1>4. r.frame \in Frames
  BY DEF TapRecords
<1> HIDE DEF n, u, s
<1>5. Append(s, r.frame) = [i \in 1..(n + 1) |-> IF i = n + 1 THEN r.frame ELSE s[i]]
  BY <1>1, <1>3, <1>4
<1>6. \A i \in 1..(n + 1) : u[i].frame = IF i = n + 1 THEN r.frame ELSE s[i]
  BY <1>1, <1>2
<1>7. FramesOf(u) = Append(s, r.frame)
  BY <1>2, <1>5, <1>6
<1> QED BY <1>3, <1>7 DEF u, s

(* Counting one shed adds one to the sum of the drop counters.             *)
LEMMA CountShed ==
  ASSUME NEW c \in ShedCounts, NEW d, NEW k \in Fates, d = [c EXCEPT ![k] = @ + 1]
  PROVE  d \in ShedCounts /\ ShedSum(d) = ShedSum(c) + 1
<1>1. CASE k = "disabled"
  <2>1. d = [c EXCEPT !.disabled = @ + 1]
    BY <1>1
  <2> QED BY <2>1 DEF ShedCounts, ShedSum
<1>2. CASE k = "busOff"
  <2>1. d = [c EXCEPT !.busOff = @ + 1]
    BY <1>2
  <2> QED BY <2>1 DEF ShedCounts, ShedSum
<1>3. CASE k = "txFull"
  <2>1. d = [c EXCEPT !.txFull = @ + 1]
    BY <1>3
  <2> QED BY <2>1 DEF ShedCounts, ShedSum
<1>4. CASE k = "filtered"
  <2>1. d = [c EXCEPT !.filtered = @ + 1]
    BY <1>4
  <2> QED BY <2>1 DEF ShedCounts, ShedSum
<1>5. CASE k = "noFrame"
  <2>1. d = [c EXCEPT !.noFrame = @ + 1]
    BY <1>5
  <2> QED BY <2>1 DEF ShedCounts, ShedSum
<1> QED BY <1>1, <1>2, <1>3, <1>4, <1>5 DEF Fates

LEMMA InitFate == RouteInit => FateInv
<1> SUFFICES ASSUME RouteInit PROVE FateInv
  OBVIOUS
<1> USE DEF RouteInit, Init
<1>1. RouteTypeOK
  BY DEF RouteTypeOK, ShedCounts
<1>2. ASSUME NEW s, NEW t, Len(s) = 0, Len(t) = 0 PROVE Within(s, t)
  <2>1. 1..0 = {}
    OBVIOUS
  <2>2. [i \in 1..0 |-> 0] \in [1..0 -> 1..0]
    BY <2>1
  <2> QED BY <1>2, <2>1, <2>2, Zenon DEF Within
<1>3. Len(taps) = 0 /\ Len(arrived) = 0 /\ Len(log) = 0 /\ Len(FramesOf(taps)) = 0
  BY DEF FramesOf
<1>4. Within(FramesOf(taps), arrived) /\ Within(log, taps)
  BY <1>2, <1>3
<1> QED BY <1>1, <1>3, <1>4 DEF FateInv, EveryFrameHasOneFate

(* One step of the interrupt, whatever it decided: the frame is counted    *)
(* once; it is tapped or its receive call found nothing; and a record the  *)
(* log tap was offered is in its ring or counted.                          *)
LEMMA FateOfFrame ==
  ASSUME TypeOK, FateInv, NEW f \in Frames, HandleRxIsr(f)
  PROVE  FateInv'
<1> DEFINE Forwarded == counters.forwarded
<1>0. /\ arrived' = Append(arrived, f) /\ UNCHANGED consumers
      /\ arrived \in Seq(Frames) /\ taps \in Seq(TapRecords) /\ log \in Seq(TapRecords)
      /\ unread \in Nat /\ dropped \in Nat /\ Forwarded \in Nat /\ sheds \in ShedCounts
      /\ Len(arrived) = ShedSum(sheds) + Forwarded /\ ShedSum(sheds) \in Nat
      /\ TapsActive => Len(taps) + unread = Len(arrived) /\ Within(FramesOf(taps), arrived)
      /\ LogTap => Len(log) + dropped = Len(taps) /\ Within(log, taps)
  <2>1. RouteTypeOK /\ EveryFrameHasOneFate /\ counters.forwarded \in Nat
    BY DEF FateInv, TypeOK
  <2>2. Len(arrived) = ShedSum(sheds) + Forwarded /\ ShedSum(sheds) \in Nat
    BY <2>1 DEF RouteTypeOK, EveryFrameHasOneFate, ShedSum, ShedCounts
  <2>3. /\ TapsActive => Len(taps) + unread = Len(arrived) /\ Within(FramesOf(taps), arrived)
        /\ LogTap => Len(log) + dropped = Len(taps) /\ Within(log, taps)
    BY <2>1 DEF EveryFrameHasOneFate
  <2> QED BY <2>1, <2>2, <2>3 DEF HandleRxIsr, RouteTypeOK
<1>01. /\ Len(arrived') = Len(arrived) + 1 /\ arrived' \in Seq(Frames)
       /\ Len(arrived) \in Nat /\ Len(taps) \in Nat /\ Len(log) \in Nat
  BY <1>0
<1>1. sheds' \in ShedCounts /\ Forwarded' \in Nat /\ Len(arrived') = ShedSum(sheds') + Forwarded'
  <2>1. CASE UNCHANGED counters /\ \E k \in Fates : sheds' = [sheds EXCEPT ![k] = @ + 1]
    <3>1. sheds' \in ShedCounts /\ ShedSum(sheds') = ShedSum(sheds) + 1 /\ Forwarded' = Forwarded
      BY <1>0, <2>1, CountShed
    <3> QED BY <1>0, <1>01, <3>1
  <2>2. CASE sheds' = sheds /\ counters' = [counters EXCEPT !.forwarded = @ + 1]
    <3>1. Forwarded' = Forwarded + 1
      BY <2>2 DEF TypeOK
    <3> QED BY <1>0, <1>01, <2>2, <3>1
  <2>3. CASE RxShed(f)
    BY <2>1, <2>3 DEF RxShed, ShedReason, vars, Fates
  <2>4. CASE RxNoFrame(f)
    BY <2>1, <2>4 DEF RxNoFrame, vars, Fates
  <2>5. CASE RxReceive(f)
    <3> DEFINE s == CHOOSE t \in FreeSlots : TRUE
    <3>1. \/ UNCHANGED counters /\ sheds' = [sheds EXCEPT !.filtered = @ + 1]
          \/ UNCHANGED counters /\ sheds' = [sheds EXCEPT !.txFull = @ + 1]
          \/ HandOver(s, Rewrite[f])
             /\ sheds' = IF DriverAccepts THEN sheds ELSE [sheds EXCEPT !.txFull = @ + 1]
      BY <2>5 DEF RxReceive
    <3> HIDE DEF s, Forwarded
    <3> QED BY <2>1, <2>2, <3>1 DEF HandOver, Fates
  <2> QED BY <2>3, <2>4, <2>5 DEF HandleRxIsr
<1>11. sheds' \in ShedCounts /\ Len(arrived') = sheds'.disabled + sheds'.busOff + sheds'.txFull
          + sheds'.filtered + sheds'.noFrame + counters'.forwarded
  BY <1>1 DEF ShedSum
<1> HIDE DEF Forwarded
<1>2. \/ \E shed \in BOOLEAN : RunRxTaps(f, shed) /\ UNCHANGED unread
      \/ UNCHANGED tapVars /\ unread' = unread + 1
  BY <1>0 DEF HandleRxIsr, RxShed, RxNoFrame, RxReceive
<1> DEFINE Tapped == /\ taps' \in Seq(TapRecords) /\ unread' \in Nat
                     /\ TapsActive' => /\ Len(taps') + unread' = Len(arrived')
                                       /\ Within(FramesOf(taps'), arrived')
           Logged == /\ log' \in Seq(TapRecords) /\ dropped' \in Nat
                     /\ LogTap' => Len(log') + dropped' = Len(taps') /\ Within(log', taps')
<1>20. (TapsActive' <=> TapsActive) /\ (LogTap' <=> LogTap) /\ (LogTap => TapsActive)
  BY <1>0 DEF TapsActive, LogTap
<1>3. ASSUME NEW shed \in BOOLEAN, RunRxTaps(f, shed), UNCHANGED unread
      PROVE  Tapped /\ Logged
  <2> DEFINE record == [frame |-> f, shed |-> shed]
             Frs == FramesOf(taps)
  <2>1. record \in TapRecords /\ record.frame = f
    BY DEF TapRecords
  <2> HIDE DEF record
  <2>2. taps' = (IF TapsActive THEN Append(taps, record) ELSE taps) /\ LogTapPush(record)
    BY <1>3 DEF RunRxTaps, record
  <2>3. Frs \in Seq(Frames) /\ FramesOf(Append(taps, record)) = Append(Frs, f)
    BY <1>0, <2>1, FramesAppend
  <2> HIDE DEF Frs
  <2>4. CASE TapsActive
    <3>1. taps' = Append(taps, record) /\ taps' \in Seq(TapRecords) /\ Len(taps') = Len(taps) + 1
      BY <1>0, <2>1, <2>2, <2>4
    <3>2. Within(Frs, arrived)
      BY <1>0, <2>4 DEF Frs
    <3>3. Within(Append(Frs, f), Append(arrived, f))
      BY <1>0, <2>3, <3>2, WithinBoth
    <3>4. Tapped
      <4>1. FramesOf(taps') = Append(Frs, f) /\ Within(FramesOf(taps'), arrived')
        BY <1>0, <2>3, <3>1, <3>3
      <4>2. Len(taps') + unread' = Len(arrived') /\ unread' \in Nat
        BY <1>0, <1>01, <1>3, <2>4, <3>1
      <4> QED BY <3>1, <4>1, <4>2
    <3>5. CASE ~LogTap
      BY <1>0, <1>20, <2>2, <3>4, <3>5 DEF LogTapPush
    <3>6. CASE LogTap /\ log' = Append(log, record) /\ UNCHANGED dropped
      <4>1. Within(log', taps')
        BY <1>0, <2>1, <3>1, <3>6, WithinBoth
      <4>2. log' \in Seq(TapRecords) /\ Len(log') = Len(log) + 1
        BY <1>0, <2>1, <3>6
      <4> QED BY <1>0, <1>01, <3>1, <3>4, <3>6, <4>1, <4>2
    <3>7. CASE LogTap /\ dropped' = dropped + 1 /\ UNCHANGED log
      <4>1. Within(log', taps')
        BY <1>0, <1>01, <2>1, <3>1, <3>7, WithinLonger
      <4> QED BY <1>0, <1>01, <3>1, <3>4, <3>7, <4>1
    <3> QED BY <2>2, <3>5, <3>6, <3>7 DEF LogTapPush
  <2>5. CASE ~TapsActive
    BY <1>0, <1>3, <1>20, <2>2, <2>5 DEF LogTapPush
  <2> QED BY <2>4, <2>5
<1>4. ASSUME UNCHANGED tapVars, unread' = unread + 1
      PROVE  Tapped /\ Logged
  <2> DEFINE Frs == FramesOf(taps)
  <2>1. UNCHANGED <<taps, log, dropped>> /\ Len(Frs) = Len(taps)
    BY <1>0, <1>01, <1>4 DEF tapVars, FramesOf
  <2>2. FramesOf(taps') = Frs
    BY <2>1
  <2> HIDE DEF Frs
  <2>3. TapsActive => Within(Frs, Append(arrived, f))
    BY <1>0, <1>01, <2>1, WithinLonger DEF Frs
  <2>4. Tapped
    BY <1>0, <1>01, <1>4, <1>20, <2>1, <2>2, <2>3
  <2>5. Logged
    BY <1>0, <1>20, <2>1
  <2> QED BY <2>4, <2>5
<1>5. Tapped /\ Logged
  BY <1>2, <1>3, <1>4
<1> QED BY <1>01, <1>11, <1>5 DEF FateInv, RouteTypeOK, EveryFrameHasOneFate

(* The destination port's other steps, the switch and the log tap's reader *)
(* count no frame.                                                         *)
LEMMA FateElsewhere ==
  ASSUME TypeOK, FateInv, PortStep \/ Toggle \/ DrainLogTap \/ UNCHANGED allVars
  PROVE  FateInv'
<1>1. UNCHANGED <<sheds, arrived, unread, consumers, taps, log, dropped>>
  BY DEF PortStep, Toggle, DrainLogTap, allVars, routeVars, tapVars
<1>2. counters'.forwarded = counters.forwarded
  <2>1. CASE Toggle \/ DrainLogTap \/ UNCHANGED allVars
    BY <2>1 DEF Toggle, DrainLogTap, allVars, vars
  <2>2. ASSUME NEW ok \in BOOLEAN, TxDone(ok) PROVE counters'.forwarded = counters.forwarded
    <3>1. \E k : counters' = Completed(k, ok)
      BY <2>2 DEF TxDone
    <3> QED BY <3>1 DEF Completed
  <2>3. CASE StateChange \/ BusChange
    BY <2>3 DEF StateChange, ErrorPassive, ErrorCleared, BusOff, Recovered, BusChange
  <2>4. CASE Loop
    BY <2>4 DEF Loop, LoopState, LoopReclaim, LoopRecover, TypeOK
  <2>5. CASE Inject
    BY <2>5 DEF Inject, InjectAcquire, InjectSubmit, InjectReject, TypeOK
  <2> QED BY <2>1, <2>2, <2>3, <2>4, <2>5 DEF PortStep
<1> QED BY <1>1, <1>2 DEF FateInv, RouteTypeOK, EveryFrameHasOneFate, TapsActive, LogTap, FramesOf

(* For every frame the source port's interrupt was raised for exactly one  *)
(* counter says what became of it.  A port with a consumer runs its taps   *)
(* on every frame that was retrieved, as it arrived and in order, whatever *)
(* the route shed; and the log tap, for any depth of its ring, accepted    *)
(* each of them or counted it as dropped.                                  *)
THEOREM FateTheorem == RouteSpec => []EveryFrameHasOneFate
<1>1. SafetyInv => TypeOK
  BY DEF SafetyInv
<1>2. TypeOK /\ FateInv /\ [RouteNext]_allVars => FateInv'
  BY FateOfFrame, FateElsewhere DEF RouteNext
<1>3. FateInv => EveryFrameHasOneFate
  BY DEF FateInv
<1> QED
  BY <1>1, <1>2, <1>3, InitFate, RouteKeepsPortSafe, PTL DEF RouteSpec

=============================================================================
