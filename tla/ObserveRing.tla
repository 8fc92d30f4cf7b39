---------------------------- MODULE ObserveRing -----------------------------
(***************************************************************************)
(* ObserveRing (components/can_gateway/gateway_core.h): the single-        *)
(* producer single-consumer queue between an interrupt and the loop (or    *)
(* the sd_logger writer task), and the bounded drain of                    *)
(* drain_observations_.  push() runs to completion in the interrupt; pop() *)
(* can be interrupted between any two of its accesses.                     *)
(*                                                                         *)
(* head_ and tail_ are free-running uint32_t counters: here they run       *)
(* modulo Wrap.                                                            *)
(***************************************************************************)
EXTENDS Integers, Sequences

CONSTANTS
  Records,     \* frame records
  Depth,       \* the ring's depth
  Wrap,        \* 2^32 in the code: the counters' modulus
  MaxPerLoop,  \* max_frames_per_loop_
  NoRecord,    \* an entry never written
  MaxShed      \* bound on the refused records that are counted

ASSUME RingAssumption ==
  /\ Depth \in Nat \ {0, 1}
  /\ Wrap \in Nat /\ Depth < Wrap
  /\ MaxPerLoop \in 1..Depth
  /\ NoRecord \notin Records
  /\ MaxShed \in Nat

VARIABLES
  entries,    \* entries_
  head,       \* head_, the consumer's counter
  tail,       \* tail_, the producer's counter
  ringPc,     \* the consumer's next step
  h,          \* pop(): the head it loaded
  copied,     \* pop(): the record it copied
  drained,    \* drain_observations_: records dispatched in this pass
  delivered,  \* the last record dispatched
  shed,       \* observe_overflow
  accepted    \* (history) records accepted and not yet dispatched, in order

ringVars == <<entries, head, tail, ringPc, h, copied, drained, delivered, shed, accepted>>

RingSlots == 0..(Depth - 1)
Counters == 0..(Wrap - 1)

RingTypeOK ==
  /\ entries \in [RingSlots -> Records \cup {NoRecord}]
  /\ head \in Counters
  /\ tail \in Counters
  /\ ringPc \in {"idle", "load", "copy", "advance", "dispatch"}
  /\ h \in Counters
  /\ copied \in Records \cup {NoRecord}
  /\ drained \in 0..MaxPerLoop
  /\ delivered \in {<<>>} \cup {<<r>> : r \in Records \cup {NoRecord}}
  /\ shed \in Nat
  /\ accepted \in Seq(Records)

RingInit ==
  /\ entries = [i \in RingSlots |-> NoRecord]
  /\ head = 0
  /\ tail = 0
  /\ ringPc = "idle"
  /\ h = 0
  /\ copied = NoRecord
  /\ drained = 0
  /\ delivered = <<>>
  /\ shed = 0
  /\ accepted = <<>>

-----------------------------------------------------------------------------

Plus1(c) == (c + 1) % Wrap
Occupancy == (tail - head) % Wrap

(* Mutant: the ring takes one record more than it has slots.               *)
PushOverfull(r) ==
  /\ IF Occupancy > Depth
       THEN /\ shed < MaxShed
            /\ shed' = shed + 1
            /\ UNCHANGED <<entries, tail, accepted>>
       ELSE /\ entries' = [entries EXCEPT ![tail % Depth] = r]
            /\ tail' = Plus1(tail)
            /\ accepted' = Append(accepted, r)
            /\ UNCHANGED shed
  /\ UNCHANGED <<head, ringPc, h, copied, drained, delivered>>

(* push() in the interrupt, and what observe_frame_ counts.                *)
RingPush(r) ==
  /\ IF Occupancy >= Depth
       THEN /\ shed < MaxShed
            /\ shed' = shed + 1
            /\ UNCHANGED <<entries, tail, accepted>>
       ELSE /\ entries' = [entries EXCEPT ![tail % Depth] = r]
            /\ tail' = Plus1(tail)
            /\ accepted' = Append(accepted, r)
            /\ UNCHANGED shed
  /\ UNCHANGED <<head, ringPc, h, copied, drained, delivered>>

(* drain_observations_ begins a pass.                                      *)
DrainBegin ==
  /\ ringPc = "idle"
  /\ drained' = 0
  /\ ringPc' = "load"
  /\ UNCHANGED <<entries, head, tail, h, copied, delivered, shed, accepted>>

(* The loop condition and pop()'s test for empty, on one load of tail_.    *)
PopLoad ==
  /\ ringPc = "load"
  /\ h' = head
  /\ ringPc' = IF drained < MaxPerLoop /\ head # tail THEN "copy" ELSE "idle"
  /\ UNCHANGED <<entries, head, tail, copied, drained, delivered, shed, accepted>>

(* The record is copied out before its slot is freed.                      *)
PopCopy ==
  /\ ringPc = "copy"
  /\ copied' = entries[h % Depth]
  /\ ringPc' = "advance"
  /\ UNCHANGED <<entries, head, tail, h, drained, delivered, shed, accepted>>

PopAdvance ==
  /\ ringPc = "advance"
  /\ head' = Plus1(h)
  /\ delivered' = <<copied>>
  /\ accepted' = Tail(accepted)
  /\ ringPc' = "dispatch"
  /\ UNCHANGED <<entries, tail, h, copied, drained, shed>>

(* dispatch_record hands the record to the subscribers.                    *)
Dispatch ==
  /\ ringPc = "dispatch"
  /\ drained' = drained + 1
  /\ ringPc' = "load"
  /\ UNCHANGED <<entries, head, tail, h, copied, delivered, shed, accepted>>

Consume == DrainBegin \/ PopLoad \/ PopCopy \/ PopAdvance \/ Dispatch

RingNext == (\E r \in Records : RingPush(r)) \/ Consume

RingSpec == RingInit /\ [][RingNext]_ringVars

-----------------------------------------------------------------------------
(* What is in the ring, oldest first: the content of the slots from head_  *)
(* up to tail_.                                                            *)
RingContent == [i \in 1..Occupancy |-> entries[((head + i - 1) % Wrap) % Depth]]

(* The ring holds exactly the accepted records, in arrival order, even     *)
(* across a wrap of the counters: an unread record is never overwritten    *)
(* (ObserveRing::push: "Never overwrites an unread record").               *)
HoldsAccepted == RingContent = accepted

(* A record copied out is the oldest one, although the interrupt may have  *)
(* pushed any number of records between the load, the copy and the store.  *)
CopyIsOldest == ringPc = "advance" => accepted # <<>> /\ copied = Head(accepted)

(* The ring implements the bounded FIFO.                                   *)
Abstract == INSTANCE BoundedFifo WITH queue <- RingContent, Depth <- Depth
RefinesFifo == Abstract!Spec

=============================================================================
