---------------------------- MODULE SnapshotRing ----------------------------
(***************************************************************************)
(* SnapshotRing (components/can_gateway/gateway_core.h): the newest frame  *)
(* of a port for the last_frame sensor.  The producer overwrites and never *)
(* waits; the reader validates its copy with the entry's sequence stamp.   *)
(* Both sides are split into their single accesses, which covers the       *)
(* interrupt (where push runs to completion) and two real threads (the     *)
(* host test).  The snapshot stored under ticket t is represented by t, in *)
(* two halves that are written and copied one after the other.             *)
(***************************************************************************)
EXTENDS Naturals

CONSTANTS
  SnapSize,  \* the ring's size
  Attempts,  \* copy attempts of one read_latest()
  MaxPush    \* bound on the pushes of a behaviour

ASSUME SnapshotAssumption ==
  /\ SnapSize \in Nat \ {0}
  /\ Attempts \in Nat \ {0}
  /\ MaxPush \in Nat

SnapSlots == 0..(SnapSize - 1)
Nothing == MaxPush  \* no ticket: tickets are below MaxPush

VARIABLES
  stamp, lo, hi,     \* the entries: stamp and the two halves of the value
  headTicket,        \* head_
  wpc,               \* the producer's next store
  rpc,               \* the reader's next access
  attempt,           \* read_latest: the loop variable
  seenHead,          \* the head it loaded
  before,            \* seq_before
  snapCopy,          \* the copied halves
  lastSeen, missed,  \* last_seen_, missed_
  shown,             \* the snapshot returned last
  reads              \* (history) successful reads

snapWriter == <<stamp, lo, hi, headTicket, wpc>>
snapReader == <<rpc, attempt, seenHead, before, snapCopy, lastSeen, missed, shown, reads>>
snapVars == <<snapWriter, snapReader>>

Tickets == 0..MaxPush

SnapTypeOK ==
  /\ stamp \in [SnapSlots -> Nat]
  /\ lo \in [SnapSlots -> Tickets]
  /\ hi \in [SnapSlots -> Tickets]
  /\ headTicket \in 0..MaxPush
  /\ wpc \in {"idle", "lo", "hi", "even", "head"}
  /\ rpc \in {"idle", "head", "before", "lo", "hi", "after"}
  /\ attempt \in 0..Attempts
  /\ seenHead \in 0..MaxPush
  /\ before \in Nat
  /\ snapCopy \in [lo : Tickets, hi : Tickets]
  /\ lastSeen \in 0..MaxPush
  /\ missed \in Nat
  /\ shown \in [lo : Tickets, hi : Tickets]
  /\ reads \in Nat

SnapInit ==
  /\ stamp = [i \in SnapSlots |-> 0]
  /\ lo = [i \in SnapSlots |-> Nothing]
  /\ hi = [i \in SnapSlots |-> Nothing]
  /\ headTicket = 0
  /\ wpc = "idle"
  /\ rpc = "idle"
  /\ attempt = 0
  /\ seenHead = 0
  /\ before = 0
  /\ snapCopy = [lo |-> Nothing, hi |-> Nothing]
  /\ lastSeen = 0
  /\ missed = 0
  /\ shown = [lo |-> Nothing, hi |-> Nothing]
  /\ reads = 0

-----------------------------------------------------------------------------
(* push(): odd stamp, the value, even stamp, head.                         *)
PushSlot == headTicket % SnapSize

PushOdd ==
  /\ wpc = "idle" /\ headTicket < MaxPush
  /\ stamp' = [stamp EXCEPT ![PushSlot] = headTicket * 2 + 1]
  /\ wpc' = "lo"
  /\ UNCHANGED <<lo, hi, headTicket, snapReader>>

PushLo ==
  /\ wpc = "lo"
  /\ lo' = [lo EXCEPT ![PushSlot] = headTicket]
  /\ wpc' = "hi"
  /\ UNCHANGED <<stamp, hi, headTicket, snapReader>>

PushHi ==
  /\ wpc = "hi"
  /\ hi' = [hi EXCEPT ![PushSlot] = headTicket]
  /\ wpc' = "even"
  /\ UNCHANGED <<stamp, lo, headTicket, snapReader>>

PushEven ==
  /\ wpc = "even"
  /\ stamp' = [stamp EXCEPT ![PushSlot] = headTicket * 2 + 2]
  /\ wpc' = "head"
  /\ UNCHANGED <<lo, hi, headTicket, snapReader>>

PushHead ==
  /\ wpc = "head"
  /\ headTicket' = headTicket + 1
  /\ wpc' = "idle"
  /\ UNCHANGED <<stamp, lo, hi, snapReader>>

SnapPush == PushOdd \/ PushLo \/ PushHi \/ PushEven \/ PushHead

-----------------------------------------------------------------------------
(* read_latest().                                                          *)
ReadBegin ==
  /\ rpc = "idle"
  /\ attempt' = 0
  /\ rpc' = "head"
  /\ UNCHANGED <<snapWriter, seenHead, before, snapCopy, lastSeen, missed, shown, reads>>

ReadHead ==
  /\ rpc = "head"
  /\ seenHead' = headTicket
  /\ rpc' = IF headTicket = 0 \/ headTicket = lastSeen THEN "idle" ELSE "before"
  /\ UNCHANGED <<snapWriter, attempt, before, snapCopy, lastSeen, missed, shown, reads>>

ReadSlot == (seenHead - 1) % SnapSize

ReadBefore ==
  /\ rpc = "before"
  /\ before' = stamp[ReadSlot]
  /\ rpc' = "lo"
  /\ UNCHANGED <<snapWriter, attempt, seenHead, snapCopy, lastSeen, missed, shown, reads>>

ReadLo ==
  /\ rpc = "lo"
  /\ snapCopy' = [snapCopy EXCEPT !.lo = lo[ReadSlot]]
  /\ rpc' = "hi"
  /\ UNCHANGED <<snapWriter, attempt, seenHead, before, lastSeen, missed, shown, reads>>

ReadHi ==
  /\ rpc = "hi"
  /\ snapCopy' = [snapCopy EXCEPT !.hi = hi[ReadSlot]]
  /\ rpc' = "after"
  /\ UNCHANGED <<snapWriter, attempt, seenHead, before, lastSeen, missed, shown, reads>>

(* Mutant: no second look at the stamp.                                    *)
ReadAfterNoRecheck ==
  /\ rpc = "after"
  /\ \/ /\ before = (seenHead - 1) * 2 + 2
        /\ missed' = missed + (seenHead - lastSeen) - 1
        /\ lastSeen' = seenHead
        /\ shown' = snapCopy
        /\ reads' = reads + 1
        /\ rpc' = "idle"
        /\ UNCHANGED attempt
     \/ /\ before # (seenHead - 1) * 2 + 2
        /\ attempt' = attempt + 1
        /\ rpc' = IF attempt + 1 < Attempts THEN "head" ELSE "idle"
        /\ UNCHANGED <<lastSeen, missed, shown, reads>>
  /\ UNCHANGED <<snapWriter, seenHead, before, snapCopy>>

(* The stamp again, the validation, and the next attempt if it fails.      *)
ReadAfter ==
  /\ rpc = "after"
  /\ \/ /\ before = stamp[ReadSlot] /\ before = (seenHead - 1) * 2 + 2
        /\ missed' = missed + (seenHead - lastSeen) - 1
        /\ lastSeen' = seenHead
        /\ shown' = snapCopy
        /\ reads' = reads + 1
        /\ rpc' = "idle"
        /\ UNCHANGED attempt
     \/ /\ ~(before = stamp[ReadSlot] /\ before = (seenHead - 1) * 2 + 2)
        /\ attempt' = attempt + 1
        /\ rpc' = IF attempt + 1 < Attempts THEN "head" ELSE "idle"
        /\ UNCHANGED <<lastSeen, missed, shown, reads>>
  /\ UNCHANGED <<snapWriter, seenHead, before, snapCopy>>

SnapRead == ReadBegin \/ ReadHead \/ ReadBefore \/ ReadLo \/ ReadHi \/ ReadAfter

SnapNext == SnapPush \/ SnapRead

SnapSpec == SnapInit /\ [][SnapNext]_snapVars

-----------------------------------------------------------------------------

(* A snapshot that is returned was stored by one push, the one the reader  *)
(* accounts for, and every push up to it was returned or counted missed.   *)
SnapshotIsExact ==
  /\ SnapTypeOK
  /\ reads > 0 => shown.lo = lastSeen - 1 /\ shown.hi = lastSeen - 1
  /\ missed + reads = lastSeen

=============================================================================
