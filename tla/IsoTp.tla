------------------------------- MODULE IsoTp -------------------------------
(***************************************************************************)
(* One direction of an ISO-TP session of components/isotp: the send        *)
(* machine (TxTransfer) of one node and the receive machine (RxTransfer)   *)
(* of another, each driven by its component (isotp.cpp), over a CAN bus    *)
(* that keeps the order of frames but may lose them, and ports that may    *)
(* refuse an inject() for as long as they like.                            *)
(*                                                                         *)
(* A message is Size[m] frames long; the i-th frame carries <<m, i>>.      *)
(* Timers count down in units of IsoTick; a frame on the bus arrives       *)
(* within one unit.  The frames of one transmit pass are separate steps.   *)
(***************************************************************************)
EXTENDS Naturals, Sequences

CONSTANTS Messages, NoMsg,
          Size,             \* [Messages -> Nat \ {0}], in frames
          RxCapacity,       \* the receiver's max_message_size, in frames
          BlockSize,        \* frames per block the receiver grants
          SnRange,          \* 16: consecutive frame numbers wrap here
          NBs, NCr,         \* n_bs_timeout_ms, n_cr_timeout_ms
          StallTicks,       \* tx_stall_timeout_ms
          MaxWaits,         \* bound: FC WAIT frames a slow peer sends
          BusBound          \* bound: frames under way in each direction

ASSUME IsoTpAssumption ==
  /\ NoMsg \notin Messages /\ Size \in [Messages -> Nat \ {0}]
  /\ RxCapacity \in Nat /\ BlockSize \in Nat \ {0} /\ SnRange \in Nat \ {0, 1}
  /\ {NBs, NCr, StallTicks} \subseteq Nat \ {0}
  /\ MaxWaits \in Nat /\ BusBound \in Nat

VARIABLES
  snd,        \* TxTransfer
  rcv,        \* RxTransfer and the component's has_pending_fc_/pending_fc_
  dataBus,    \* frames under way to the receiver
  fcBus,      \* flow control frames under way to the sender
  delivered,  \* what was handed to on_message since the last begin()
  reports,    \* completions and failures the sender has reported and not
              \* begun: 0 while a transfer is under way
  waits,      \* FC WAIT frames sent for this transfer
  lost,       \* some frame was lost
  crossed     \* some transfer began before the last one had drained

isoVars == <<snd, rcv, dataBus, fcBus, delivered, reports, waits, lost, crossed>>

Content(m) == [i \in 1..Size[m] |-> <<m, i>>]
FlowStatus == {"continue", "wait", "overflow"}

IsoTypeOK ==
  /\ snd \in [state : {"idle", "first", "wait_fc", "cf", "done", "failed"},
              pending : {"none", "single", "first", "cf"},
              msg : Messages \cup {NoMsg}, sent : Nat, seq : 0..(SnRange - 1),
              block : 0..BlockSize, timer : 0..(NBs + StallTicks),
              error : {"none", "fc_timeout", "stalled", "overflow_remote"}]
  /\ rcv.busy \in BOOLEAN /\ rcv.fc \in FlowStatus \cup {"none"}
  /\ rcv.expected \in 0..RxCapacity /\ Len(rcv.buf) <= RxCapacity
  /\ rcv.timer \in 0..NCr /\ rcv.seq \in 0..(SnRange - 1) /\ rcv.block \in 0..BlockSize
  /\ Len(dataBus) <= BusBound /\ Len(fcBus) <= BusBound

IdleSender == [state |-> "idle", pending |-> "none", msg |-> NoMsg, sent |-> 0,
               seq |-> 0, block |-> 0, timer |-> 0, error |-> "none"]

IsoInit ==
  /\ snd = IdleSender
  /\ rcv = [busy |-> FALSE, buf |-> <<>>, expected |-> 0, seq |-> 0, block |-> 0,
            timer |-> 0, error |-> "none", fc |-> "none"]
  /\ dataBus = <<>> /\ fcBus = <<>> /\ delivered = <<>>
  /\ reports = 1 /\ waits = 0 /\ lost = FALSE /\ crossed = FALSE

-----------------------------------------------------------------------------
(* The sender.                                                             *)

Quiet == dataBus = <<>> /\ fcBus = <<>> /\ ~rcv.busy /\ rcv.fc = "none"

(* begin(): one transfer at a time.                                        *)
Begin(m) ==
  /\ snd.state = "idle"
  /\ snd' = [snd EXCEPT !.state = "first", !.msg = m, !.sent = 0, !.seq = 0,
                        !.block = 0, !.error = "none"]
  /\ reports' = 0 /\ waits' = 0
  /\ crossed' = (crossed \/ ~Quiet)
  /\ delivered' = <<>>
  /\ UNCHANGED <<rcv, dataBus, fcBus, lost>>

Offering == snd.state \in {"first", "cf"}
Kind == IF snd.state = "cf" THEN "cf" ELSE IF Size[snd.msg] = 1 THEN "single" ELSE "first"
NextSeq(s) == (s.seq + 1) % SnRange
Frame == [type |-> Kind, msg |-> snd.msg, seq |-> NextSeq(snd),
          body |-> <<snd.msg, snd.sent + 1>>]

(* confirm_sent(): what an accepted frame commits.                         *)
AfterCf(s) ==
  LET c == [s EXCEPT !.pending = "none", !.timer = 0, !.seq = NextSeq(s), !.sent = @ + 1]
  IN  CASE c.sent >= Size[c.msg] -> [c EXCEPT !.state = "done"]
        [] c.sent < Size[c.msg] /\ c.block = 1 ->
             [c EXCEPT !.block = 0, !.state = "wait_fc", !.timer = NBs]
        [] c.sent < Size[c.msg] /\ c.block # 1 ->
             [c EXCEPT !.block = IF @ = 0 THEN 0 ELSE @ - 1]

ConfirmSent(s) ==
  CASE Kind = "single" -> [s EXCEPT !.pending = "none", !.timer = 0, !.state = "done"]
    [] Kind = "first"  -> [s EXCEPT !.pending = "none", !.sent = 1,
                                    !.state = "wait_fc", !.timer = NBs]
    [] Kind = "cf"     -> AfterCf(s)

(* offer_(): a refused frame stays pending; its stall timer starts when it *)
(* is offered first.                                                       *)
Refused(s) ==
  [s EXCEPT !.pending = Kind, !.timer = IF s.pending = Kind THEN @ ELSE StallTicks]

Stalled == Offering /\ snd.pending = Kind /\ snd.timer = 0

TxAccepted ==
  /\ Offering /\ ~Stalled /\ Len(dataBus) < BusBound
  /\ dataBus' = Append(dataBus, Frame)
  /\ snd' = ConfirmSent(snd)
  /\ UNCHANGED <<rcv, fcBus, delivered, reports, waits, lost, crossed>>

TxRefused ==
  /\ Offering /\ ~Stalled
  /\ snd' = Refused(snd)
  /\ UNCHANGED <<rcv, dataBus, fcBus, delivered, reports, waits, lost, crossed>>

(* fail_() followed by take_failure_(): poll() returns FAILED and the      *)
(* component reports it.  What begin() overwrites is forgotten at once.    *)
Fails(error) ==
  /\ snd' = [IdleSender EXCEPT !.error = error]
  /\ reports' = reports + 1
  /\ UNCHANGED <<rcv, dataBus, fcBus, delivered, waits, lost, crossed>>

TxStalls == Stalled /\ Fails("stalled")

FcOverdue == snd.state = "wait_fc" /\ snd.timer = 0

TxTimeout == FcOverdue /\ Fails("fc_timeout")

(* poll() delivers a failure parked by on_flow_control(), and completion.  *)
TxParkedFailure == snd.state = "failed" /\ Fails(snd.error)
TxComplete == snd.state = "done" /\ Fails("none")

(* Mutant: a remote overflow drops the transfer and tells nobody.          *)
Overflowed(s) == [s EXCEPT !.state = "failed", !.error = "overflow_remote",
                           !.pending = "none", !.timer = 0]

(* on_flow_control(): ignored unless one is awaited.                       *)
OnFlowControl ==
  /\ fcBus # <<>>
  /\ fcBus' = Tail(fcBus)
  /\ snd' = CASE snd.state # "wait_fc"                             -> snd
              [] snd.state = "wait_fc" /\ Head(fcBus) = "continue" ->
                   [snd EXCEPT !.state = "cf", !.block = BlockSize, !.timer = 0]
              [] snd.state = "wait_fc" /\ Head(fcBus) = "wait"     ->
                   [snd EXCEPT !.timer = NBs]
              [] snd.state = "wait_fc" /\ Head(fcBus) = "overflow" -> Overflowed(snd)
  /\ UNCHANGED <<rcv, dataBus, delivered, reports, waits, lost, crossed>>

-----------------------------------------------------------------------------
(* The receiver.                                                           *)

(* A flow control frame is sent inline; a refused one is kept and replaces *)
(* one already kept.                                                       *)
SendsFc(r, status) ==
  \/ /\ Len(fcBus) < BusBound
     /\ fcBus' = Append(fcBus, status)
     /\ rcv' = r
  \/ /\ fcBus' = fcBus
     /\ rcv' = [r EXCEPT !.fc = status]

(* Mutant: a first frame keeps what an earlier one had collected.          *)
FirstKeepsBuffer(r, f) ==
  [r EXCEPT !.busy = TRUE, !.buf = IF r.busy THEN r.buf ELSE <<f.body>>,
            !.expected = Size[f.msg], !.seq = 0, !.block = BlockSize, !.timer = NCr]

FirstAccepted(r, f) ==
  [r EXCEPT !.busy = TRUE, !.buf = <<f.body>>, !.expected = Size[f.msg], !.seq = 0,
            !.block = BlockSize, !.timer = NCr, !.error = "none"]

Idle(r) == [r EXCEPT !.busy = FALSE, !.timer = 0, !.block = 0, !.seq = 0]

OnSingle(f) ==
  /\ f.type = "single"
  /\ rcv' = [Idle(rcv) EXCEPT !.buf = <<>>, !.expected = 0]
  /\ delivered' = <<f.body>>
  /\ UNCHANGED fcBus

OnFirst(f) ==
  /\ f.type = "first"
  /\ IF Size[f.msg] > RxCapacity
       THEN SendsFc([Idle(rcv) EXCEPT !.error = "overflow_local"], "overflow")
       ELSE SendsFc(FirstAccepted(rcv, f), "continue")
  /\ UNCHANGED delivered

InSequence(f) == f.seq = NextSeq(rcv)

OnConsecutive(f) ==
  /\ f.type = "cf"
  /\ LET got == [rcv EXCEPT !.seq = NextSeq(rcv), !.buf = Append(@, f.body), !.timer = NCr]
     IN  \/ /\ ~rcv.busy
            /\ UNCHANGED <<rcv, fcBus, delivered>>
         \/ /\ rcv.busy /\ ~InSequence(f)
            /\ rcv' = [Idle(rcv) EXCEPT !.error = "wrong_sequence"]
            /\ UNCHANGED <<fcBus, delivered>>
         \/ /\ rcv.busy /\ InSequence(f) /\ Len(got.buf) >= rcv.expected
            /\ delivered' = got.buf
            /\ rcv' = [Idle(got) EXCEPT !.buf = <<>>, !.expected = 0]
            /\ UNCHANGED fcBus
         \/ /\ rcv.busy /\ InSequence(f) /\ Len(got.buf) < rcv.expected
            /\ IF rcv.block = 1
                 THEN SendsFc([got EXCEPT !.block = BlockSize], "continue")
                 ELSE rcv' = [got EXCEPT !.block = @ - 1] /\ UNCHANGED fcBus
            /\ UNCHANGED delivered

OnFrame ==
  /\ dataBus # <<>>
  /\ dataBus' = Tail(dataBus)
  /\ LET f == Head(dataBus) IN OnSingle(f) \/ OnFirst(f) \/ OnConsecutive(f)
  /\ UNCHANGED <<snd, reports, waits, lost, crossed>>

(* loop(): a refused flow control frame goes out first; N_Cr is policed.   *)
SendPendingFc ==
  /\ rcv.fc # "none" /\ Len(fcBus) < BusBound
  /\ fcBus' = Append(fcBus, rcv.fc)
  /\ rcv' = [rcv EXCEPT !.fc = "none"]
  /\ UNCHANGED <<snd, dataBus, delivered, reports, waits, lost, crossed>>

CfOverdue == rcv.busy /\ rcv.timer = 0

RxTimeout ==
  /\ CfOverdue
  /\ rcv' = [Idle(rcv) EXCEPT !.error = "cf_timeout"]
  /\ UNCHANGED <<snd, dataBus, fcBus, delivered, reports, waits, lost, crossed>>

-----------------------------------------------------------------------------
(* The bus, a slow peer and the clock.                                     *)

LoseData ==
  /\ dataBus # <<>>
  /\ dataBus' = Tail(dataBus) /\ lost' = TRUE
  /\ UNCHANGED <<snd, rcv, fcBus, delivered, reports, waits, crossed>>

LoseFc ==
  /\ fcBus # <<>>
  /\ fcBus' = Tail(fcBus) /\ lost' = TRUE
  /\ UNCHANGED <<snd, rcv, dataBus, delivered, reports, waits, crossed>>

PeerWaits ==
  /\ rcv.busy /\ rcv.fc # "none" /\ waits < MaxWaits /\ Len(fcBus) < BusBound
  /\ fcBus' = Append(fcBus, "wait") /\ waits' = waits + 1
  /\ UNCHANGED <<snd, rcv, dataBus, delivered, reports, lost, crossed>>

Elapse(t) == IF t = 0 THEN 0 ELSE t - 1

IsoTick ==
  /\ dataBus = <<>> /\ fcBus = <<>>
  /\ ~Stalled /\ ~FcOverdue /\ ~CfOverdue
  /\ snd.timer > 0 \/ rcv.timer > 0
  /\ snd' = [snd EXCEPT !.timer = Elapse(@)]
  /\ rcv' = [rcv EXCEPT !.timer = Elapse(@)]
  /\ UNCHANGED <<dataBus, fcBus, delivered, reports, waits, lost, crossed>>

(* The sender's loop pass, and what the bus does with a frame.             *)
SenderPoll == TxAccepted \/ TxRefused \/ TxStalls \/ TxTimeout \/ TxParkedFailure \/ TxComplete
BusMoves == OnFlowControl \/ LoseFc \/ OnFrame \/ LoseData

IsoNext ==
  \/ \E m \in Messages : Begin(m)
  \/ SenderPoll \/ BusMoves \/ SendPendingFc \/ RxTimeout \/ PeerWaits \/ IsoTick

IsoSpec == IsoInit /\ [][IsoNext]_isoVars

(* Both nodes' loops run, the bus delivers or loses, time passes.          *)
IsoFairness ==
  WF_isoVars(SenderPoll) /\ WF_isoVars(BusMoves) /\ WF_isoVars(RxTimeout \/ IsoTick)

IsoFairSpec == IsoSpec /\ IsoFairness

-----------------------------------------------------------------------------
(* A delivered message is one that was sent, whole and in order, whatever  *)
(* the ports refuse and however late a flow control frame is; and whatever *)
(* the bus loses, as long as no transfer starts into the leftovers of the  *)
(* one before (the identical frame is offered again, numbers are checked,  *)
(* a first frame restarts reassembly).  Backpressure costs throughput,     *)
(* never correctness: a bus that refuses frames but loses none never makes *)
(* the receiver see a sequence gap (confirm_sent commits, offer_ does      *)
(* not).  And every transfer is reported exactly once, not before it is    *)
(* over (fail_ parks, take_failure_ is the single exit).                   *)
DeliveredIsWhole ==
  /\ IsoTypeOK
  /\ delivered # <<>> /\ ~(lost /\ crossed) => \E m \in Messages : delivered = Content(m)
  /\ rcv.error = "wrong_sequence" => lost
  /\ reports = IF snd.state = "idle" THEN 1 ELSE 0

(* A refused frame holds the sender for tx_stall_timeout_ms at most, a     *)
(* silent peer for N_Bs: every transfer ends.                              *)
TransferEnds == snd.state # "idle" ~> snd.state = "idle"

=============================================================================
