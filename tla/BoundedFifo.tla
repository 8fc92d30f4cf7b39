---------------------------- MODULE BoundedFifo -----------------------------
(***************************************************************************)
(* What ObserveRing promises (gateway_core.h): a bounded queue that keeps  *)
(* arrival order, sheds the newest record when it is full and never loses  *)
(* or changes an accepted one.                                             *)
(***************************************************************************)
EXTENDS Naturals, Sequences

CONSTANTS Records, Depth

VARIABLES
  queue,      \* accepted and not yet delivered
  delivered,  \* the record the consumer got last; <<>> before the first
  shed        \* how many records were refused

Init == queue = <<>> /\ delivered = <<>> /\ shed = 0

Accept ==
  /\ Len(queue) < Depth
  /\ \E r \in Records : queue' = Append(queue, r)
  /\ UNCHANGED <<delivered, shed>>

Refuse ==
  /\ Len(queue) = Depth
  /\ shed' = shed + 1
  /\ UNCHANGED <<queue, delivered>>

Deliver ==
  /\ queue # <<>>
  /\ delivered' = <<Head(queue)>>
  /\ queue' = Tail(queue)
  /\ UNCHANGED shed

Next == Accept \/ Refuse \/ Deliver

Spec == Init /\ [][Next]_<<queue, delivered, shed>>

=============================================================================
