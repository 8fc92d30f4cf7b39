----------------------------- MODULE CanTxPort -----------------------------
(***************************************************************************)
(* The transmit side of one can_gateway port: the slot pools that feed it, *)
(* the OutstandingTracker that mirrors the driver's FIFO, bus-off and its  *)
(* recovery (components/can_gateway/gateway_core.h, can_gateway.cpp).      *)
(*                                                                         *)
(* Contexts.  One core; the TWAI interrupts have equal priority and run to *)
(* completion, so each ISR handler is one action.  Loop code can be        *)
(* preempted between any two of its steps, except inside a critical        *)
(* section; loop_() and inject() are therefore split, and pc names the     *)
(* next step of the loop.                                                  *)
(*                                                                         *)
(* fifo stands for the driver (external): the slots it still owns and will *)
(* complete, oldest first.  Outside bus-off its head is mounted on the one *)
(* hardware buffer.  In bus-off nothing is mounted: the frame that was     *)
(* halted has left fifo and will never complete.                           *)
(***************************************************************************)
EXTENDS Naturals, Sequences, FiniteSets

CONSTANTS
  FwdSlots,      \* the TX slots of the route into this port
  InjectSlots,   \* the port's inject slots
  Frames,        \* what a slot can carry (ID and payload)
  TxQueueDepth,  \* tx_queue_depth_
  NoSlot,        \* no slot acquired
  NoFrame,       \* a slot never written
  MaxHandOffs    \* bound on the frames handed to the driver in a behaviour

Slots == FwdSlots \cup InjectSlots

(* The pools are disjoint arrays; codegen sizes each to at least the queue *)
(* depth plus two, so that the tracker has room for all that the occupancy *)
(* gates let through.                                                      *)
ASSUME PoolAssumption ==
  /\ FwdSlots \cap InjectSlots = {}
  /\ IsFiniteSet(Slots)
  /\ TxQueueDepth \in Nat \ {0}
  /\ TxQueueDepth <= Cardinality(Slots)
  /\ NoSlot \notin Slots
  /\ MaxHandOffs \in Nat

(* twai_error_state_t; warning and passive are one state here: the code    *)
(* tells apart ACTIVE, BUS_OFF and the rest.                               *)
States == {"active", "degraded", "busoff"}

VARIABLES
  state,          \* state_: the port state the ISR mirrors
  used,           \* used_ of the two SlotPools
  content,        \* the frame a slot carries
  outstanding,    \* outstanding_: the tracker's FIFO of slots
  fifo,           \* (driver) slots it owns, oldest first
  handed,         \* (driver) the frame each owned slot carried at hand-off
  recovering,     \* (driver) twai_node_recover() was accepted
  healthy,        \* (environment) the bus acknowledges frames
  pc,             \* the loop's next step
  seen,           \* loop_(): the local copy of the state
  lastLoopState,  \* last_loop_state_
  headReclaimed,  \* bus_off_head_reclaimed_
  pending,        \* backoff_.pending_: a recovery attempt is scheduled
  mine,           \* inject(): the slot acquired and not yet handed over
  counters,       \* forwarded, injected, tx_fail; txOk counts clean completions
  refused         \* a driver call was made that the driver refuses and logs

vars == <<state, used, content, outstanding, fifo, handed, recovering, healthy,
          pc, seen, lastLoopState, headReclaimed, pending, mine,
          counters, refused>>

driverVars == <<fifo, handed, recovering>>
loopVars == <<seen, lastLoopState, headReclaimed, pending>>

TypeOK ==
  /\ state \in States
  /\ used \in [Slots -> BOOLEAN]
  /\ content \in [Slots -> Frames \cup {NoFrame}]
  /\ outstanding \in Seq(Slots)
  /\ fifo \in Seq(Slots)
  /\ handed \in [Slots -> Frames \cup {NoFrame}]
  /\ recovering \in BOOLEAN
  /\ healthy \in BOOLEAN
  /\ pc \in {"idle", "reclaim", "recover", "inject", "reject"}
  /\ seen \in States
  /\ lastLoopState \in States
  /\ headReclaimed \in BOOLEAN
  /\ pending \in BOOLEAN
  /\ mine \in Slots \cup {NoSlot}
  /\ counters \in [forwarded : Nat, injected : Nat, txFail : Nat, txOk : Nat]
  /\ refused \in BOOLEAN

Init ==
  /\ state = "active"
  /\ used = [s \in Slots |-> FALSE]
  /\ content = [s \in Slots |-> NoFrame]
  /\ outstanding = <<>>
  /\ fifo = <<>>
  /\ handed = [s \in Slots |-> NoFrame]
  /\ recovering = FALSE
  /\ healthy = TRUE
  /\ pc = "idle"
  /\ seen = "active"
  /\ lastLoopState = "active"
  /\ headReclaimed = TRUE
  /\ pending = FALSE
  /\ mine = NoSlot
  /\ counters = [forwarded |-> 0, injected |-> 0, txFail |-> 0, txOk |-> 0]
  /\ refused = FALSE

-----------------------------------------------------------------------------
(* The driver, as the contract on OutstandingTracker states it.            *)

DriverAccepts == state # "busoff" /\ Len(fifo) <= TxQueueDepth

(* twai_node_transmit: takes the slot, or refuses it with a log line.      *)
DriverTransmit(s, f) ==
  /\ fifo' = IF DriverAccepts THEN Append(fifo, s) ELSE fifo
  /\ handed' = IF DriverAccepts THEN [handed EXCEPT ![s] = f] ELSE handed
  /\ refused' = (refused \/ ~DriverAccepts)

-----------------------------------------------------------------------------
(* OutstandingTracker.                                                     *)

TrackerCapacity == Cardinality(Slots)

Pushed(s) ==
  IF Len(outstanding) < TrackerCapacity THEN Append(outstanding, s) ELSE outstanding

Tracked(s) == \E i \in 1..Len(outstanding) : outstanding[i] = s

(* Position of the oldest tracked entry for s.                             *)
PositionOf(s) ==
  CHOOSE i \in 1..Len(outstanding) :
    /\ outstanding[i] = s
    /\ \A j \in 1..(i - 1) : outstanding[j] # s

(* Mutant: a completion pops the tracker's head only, without the sweep.   *)
PoppedHeadOnly(k) == IF k = 0 THEN outstanding ELSE Tail(outstanding)

(* The first k entries leave the tracker; their slots return to the pools. *)
Popped(k) == SubSeq(outstanding, k + 1, Len(outstanding))
Released(k) ==
  [s \in Slots |-> used[s] /\ \A i \in 1..k : outstanding[i] # s]

(* The bound: frames handed over, and the one inject() is about to submit. *)
Room ==
  counters.forwarded + counters.injected + (IF mine = NoSlot THEN 0 ELSE 1) < MaxHandOffs

OccupancyGate == Len(outstanding) < TxQueueDepth

-----------------------------------------------------------------------------
(* handle_rx_isr on the peer port, for a frame routed to this port: it is  *)
(* received into a free slot of the route; a rule may then drop it, and    *)
(* the occupancy gate may refuse it, which leaves the slot free; otherwise *)
(* the slot goes to the driver and to the tracker.                         *)
HandOver(s, f) ==
  /\ OccupancyGate
  /\ DriverTransmit(s, f)
  /\ IF DriverAccepts
       THEN /\ used' = [used EXCEPT ![s] = TRUE]
            /\ outstanding' = Pushed(s)
            /\ counters' = [counters EXCEPT !.forwarded = @ + 1]
       ELSE UNCHANGED <<used, outstanding, counters>>

RxForward ==
  /\ state # "busoff"
  /\ Room
  /\ \E s \in FwdSlots, f \in Frames :
       /\ ~used[s]
       /\ content' = [content EXCEPT ![s] = f]
       /\ \/ HandOver(s, f)
          \/ UNCHANGED <<used, outstanding, counters, fifo, handed, refused>>
  /\ UNCHANGED <<state, recovering, healthy, pc, mine, loopVars>>

(* The counters after one completion that reclaimed some orphans.          *)
Completed(orphans, ok) ==
  [forwarded |-> counters.forwarded, injected |-> counters.injected,
   txFail |-> counters.txFail + orphans + (IF ok THEN 0 ELSE 1),
   txOk |-> counters.txOk + (IF ok THEN 1 ELSE 0)]

(* handle_tx_done_isr: the driver reports its oldest frame.  Whatever the  *)
(* tracker holds ahead of it was orphaned by a bus-off and is reclaimed;   *)
(* an untracked slot is left alone.                                        *)
TxDone(ok) ==
  /\ state # "busoff"
  /\ fifo # <<>>
  /\ ok => healthy
  /\ LET s == Head(fifo)
         k == PositionOf(s)
     IN  IF Tracked(s)
           THEN /\ used' = Released(k)
                /\ outstanding' = Popped(k)
                /\ counters' = Completed(k - 1, ok)
           ELSE /\ counters' = Completed(0, ok)
                /\ UNCHANGED <<used, outstanding>>
  /\ fifo' = Tail(fifo)
  /\ UNCHANGED <<state, content, handed, recovering, healthy, pc, mine, refused,
                 loopVars>>

(* handle_state_change_isr stores the new state; the four actions are the  *)
(* transitions the driver reports.  Error counters rise only while this    *)
(* port transmits on a bus that does not acknowledge.                      *)
ErrorPassive ==
  /\ state = "active" /\ fifo # <<>> /\ ~healthy
  /\ state' = "degraded"
  /\ UNCHANGED <<used, content, outstanding, driverVars, healthy, pc, mine,
                 counters, refused, loopVars>>

ErrorCleared ==
  /\ state = "degraded" /\ healthy
  /\ state' = "active"
  /\ UNCHANGED <<used, content, outstanding, driverVars, healthy, pc, mine,
                 counters, refused, loopVars>>

(* Entering bus-off halts the mounted frame for good.                      *)
BusOff ==
  /\ state # "busoff" /\ fifo # <<>> /\ ~healthy
  /\ state' = "busoff"
  /\ fifo' = Tail(fifo)
  /\ UNCHANGED <<used, content, outstanding, handed, recovering, healthy, pc, mine,
                 counters, refused, loopVars>>

(* A completed recovery mounts the oldest frame still queued.              *)
Recovered ==
  /\ state = "busoff" /\ recovering
  /\ state' = "active"
  /\ recovering' = FALSE
  /\ UNCHANGED <<used, content, outstanding, fifo, handed, healthy, pc, mine,
                 counters, refused, loopVars>>

StateChange == ErrorPassive \/ ErrorCleared \/ BusOff \/ Recovered

(* The wire breaks or heals.                                               *)
BusChange ==
  /\ healthy' = ~healthy
  /\ UNCHANGED <<state, used, content, outstanding, driverVars, pc, mine,
                 counters, refused, loopVars>>

-----------------------------------------------------------------------------
(* loop_(): one pass of the control plane.                                 *)

(* Read the state once and handle an edge against the last pass.           *)
LoopState ==
  /\ pc = "idle"
  /\ seen' = state
  /\ lastLoopState' = state
  /\ LET edge == state # lastLoopState
         fell == edge /\ state = "busoff"
         rose == edge /\ lastLoopState = "busoff" /\ state = "active"
     IN  /\ headReclaimed' = (headReclaimed /\ ~fell)
         /\ pending' = ((pending \/ fell) /\ ~rose)
  /\ pc' = "reclaim"
  /\ UNCHANGED <<state, used, content, outstanding, driverVars, healthy, mine,
                 counters, refused>>

(* Mutant: the reclaim is not latched and repeats while the port stays     *)
(* bus-off.                                                                *)
LoopReclaimNoLatch ==
  /\ pc = "reclaim"
  /\ pc' = "recover"
  /\ IF seen = "busoff" /\ state = "busoff" /\ outstanding # <<>>
       THEN /\ used' = Released(1)
            /\ outstanding' = Popped(1)
            /\ counters' = [counters EXCEPT !.txFail = @ + 1]
       ELSE UNCHANGED <<used, outstanding, counters>>
  /\ UNCHANGED <<state, content, driverVars, healthy, mine, refused, seen,
                 lastLoopState, headReclaimed, pending>>

(* The eager reclaim of the halted head, in a critical section that reads  *)
(* the state again.                                                        *)
LoopReclaim ==
  /\ pc = "reclaim"
  /\ pc' = "recover"
  /\ IF seen = "busoff" /\ ~headReclaimed
       THEN /\ headReclaimed' = TRUE
            /\ IF state = "busoff" /\ outstanding # <<>>
                 THEN /\ used' = Released(1)
                      /\ outstanding' = Popped(1)
                      /\ counters' = [counters EXCEPT !.txFail = @ + 1]
                 ELSE UNCHANGED <<used, outstanding, counters>>
       ELSE UNCHANGED <<headReclaimed, used, outstanding, counters>>
  /\ UNCHANGED <<state, content, driverVars, healthy, mine, refused, seen,
                 lastLoopState, pending>>

(* Mutant: a recovery is asked for only in the pass that saw the fall.     *)
LoopRecoverOnEdgeOnly(due) ==
  /\ pc = "recover"
  /\ pc' = "idle"
  /\ due => seen = "busoff" /\ pending
  /\ recovering' = (recovering \/ (due /\ state = "busoff" /\ ~headReclaimed))
  /\ UNCHANGED <<state, used, content, outstanding, fifo, handed, healthy, mine,
                 counters, refused, loopVars>>

(* should_attempt() is due, or not yet; a due attempt re-arms itself.  The *)
(* driver accepts a recovery only in bus-off.                              *)
LoopRecover(due) ==
  /\ pc = "recover"
  /\ pc' = "idle"
  /\ due => seen = "busoff" /\ pending
  /\ recovering' = (recovering \/ (due /\ state = "busoff"))
  /\ UNCHANGED <<state, used, content, outstanding, fifo, handed, healthy, mine,
                 counters, refused, loopVars>>

-----------------------------------------------------------------------------
(* inject(), called from loop context.                                     *)

(* The early bus-off test, a slot of the pool, and the frame written to it.*)
(* A pass that finds the port bus-off or no slot free only logs.           *)
InjectAcquire ==
  /\ pc = "idle"
  /\ state # "busoff"
  /\ Room
  /\ \E s \in InjectSlots, f \in Frames :
       /\ ~used[s]
       /\ used' = [used EXCEPT ![s] = TRUE]
       /\ content' = [content EXCEPT ![s] = f]
       /\ mine' = s
  /\ pc' = "inject"
  /\ UNCHANGED <<state, outstanding, driverVars, healthy, counters, refused, loopVars>>

(* Mutant: no second bus-off test in the critical section.                 *)
InjectSubmitNoRecheck ==
  /\ pc = "inject"
  /\ IF OccupancyGate
       THEN /\ DriverTransmit(mine, content[mine])
            /\ IF DriverAccepts
                 THEN /\ outstanding' = Pushed(mine)
                      /\ counters' = [counters EXCEPT !.injected = @ + 1]
                      /\ pc' = "idle"
                      /\ mine' = NoSlot
                 ELSE pc' = "reject" /\ UNCHANGED <<outstanding, counters, mine>>
       ELSE pc' = "reject" /\ UNCHANGED <<outstanding, counters, mine, fifo, handed, refused>>
  /\ UNCHANGED <<state, used, content, recovering, healthy, loopVars>>

(* The critical section: bus-off again, occupancy, transmit and push.  The *)
(* injected count that follows it is taken in the same step.               *)
InjectSubmit ==
  /\ pc = "inject"
  /\ IF state # "busoff" /\ OccupancyGate
       THEN /\ DriverTransmit(mine, content[mine])
            /\ IF DriverAccepts
                 THEN /\ outstanding' = Pushed(mine)
                      /\ counters' = [counters EXCEPT !.injected = @ + 1]
                      /\ pc' = "idle"
                      /\ mine' = NoSlot
                 ELSE pc' = "reject" /\ UNCHANGED <<outstanding, counters, mine>>
       ELSE pc' = "reject" /\ UNCHANGED <<outstanding, counters, mine, fifo, handed, refused>>
  /\ UNCHANGED <<state, used, content, recovering, healthy, loopVars>>

InjectReject ==
  /\ pc = "reject"
  /\ used' = [used EXCEPT ![mine] = FALSE]
  /\ mine' = NoSlot
  /\ pc' = "idle"
  /\ UNCHANGED <<state, content, outstanding, driverVars, healthy, counters,
                 refused, loopVars>>

-----------------------------------------------------------------------------
Loop == LoopState \/ LoopReclaim \/ (\E due \in BOOLEAN : LoopRecover(due))
Inject == InjectAcquire \/ InjectSubmit \/ InjectReject
Isr == RxForward \/ (\E ok \in BOOLEAN : TxDone(ok)) \/ StateChange

Next == Isr \/ Loop \/ Inject \/ BusChange

Spec == Init /\ [][Next]_vars

(* The loop keeps running and an inject() it entered returns; a scheduled  *)
(* recovery attempt comes due (the delay is capped at 3.2 s); the driver   *)
(* finishes a recovery it began and transmits on a bus that acknowledges.  *)
Fairness ==
  /\ WF_vars(Loop)
  /\ WF_vars(InjectSubmit \/ InjectReject)
  /\ SF_vars(LoopRecover(TRUE))
  /\ WF_vars(Recovered)
  /\ WF_vars(TxDone(TRUE))

FairSpec == Spec /\ Fairness

-----------------------------------------------------------------------------
(* Properties.                                                             *)

(* What the driver still owns is the youngest part of what the tracker     *)
(* holds, in the same order: completions arrive in submission order and    *)
(* every tracked entry ahead of the driver's oldest is an orphan           *)
(* (OutstandingTracker's contract).                                        *)
TrackerMirrorsDriver ==
  /\ Len(fifo) <= Len(outstanding)
  /\ \A i \in 1..Len(fifo) :
       fifo[i] = outstanding[Len(outstanding) - Len(fifo) + i]

(* A slot has one owner: it is in use exactly while the tracker holds it,  *)
(* once, or inject() is filling it.  A slot released twice would be handed *)
(* to two frames; one never released is lost to the pool.                  *)
SlotsHaveOneOwner ==
  /\ \A i, j \in 1..Len(outstanding) : outstanding[i] = outstanding[j] => i = j
  /\ \A s \in Slots : used[s] <=> Tracked(s) \/ mine = s
  /\ mine \in Slots => ~Tracked(mine)

(* In bus-off, until the loop has reclaimed the halted head, the tracker's *)
(* oldest entry is one the driver has given up: loop_() never releases a   *)
(* slot whose frame is still queued and will be sent after the recovery.   *)
ReclaimedHeadIsOrphan ==
  state = "busoff" /\ (~headReclaimed \/ lastLoopState # "busoff")
    => Len(fifo) < Len(outstanding)

(* A slot the driver owns still carries the frame that was handed over:    *)
(* what reaches the wire is what the route or the caller submitted.        *)
WireCarriesWhatWasHanded ==
  \A i \in 1..Len(fifo) : content[fifo[i]] = handed[fifo[i]]

(* No call reaches the driver that it refuses: each refusal logs from an   *)
(* ISR or a critical section, which stalls both buses or aborts.           *)
DriverNeverRefuses == ~refused

(* Every frame handed over is accounted for once: it completed, it counts  *)
(* as tx_fail, or it is still tracked.                                     *)
EveryFrameAccounted ==
  counters.forwarded + counters.injected
    = counters.txOk + counters.txFail + Len(outstanding)

(* Once the bus stays healthy, a frame the driver owns leaves it.          *)
OwnedFramesLeave ==
  (<>[]healthy) => \A s \in Slots : <>[](\A i \in 1..Len(fifo) : fifo[i] # s)

(* Once the bus stays healthy the port accepts frames again: "free its     *)
(* slot now so a fully-orphaned pool cannot leave the port mute"           *)
(* (can_gateway.cpp, loop_).                                               *)
PortNotMute == (<>[]healthy) => []<>OccupancyGate

=============================================================================
