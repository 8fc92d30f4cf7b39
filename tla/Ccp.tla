-------------------------------- MODULE Ccp --------------------------------
(***************************************************************************)
(* The CCP 2.1 master of components/ccp (CcpHub): one command outstanding, *)
(* memory reads and writes that chain commands, and the DAQ read, which    *)
(* configures a list in the ECU, samples it and takes it down again.       *)
(*                                                                         *)
(* Every handler runs in the main loop.  What makes it hard is that        *)
(* finish_() calls the user's on_response or on_error automation before    *)
(* the command's own continuation, so an automation can take the slot the  *)
(* continuation needs; and that the port may refuse any frame.  A handler  *)
(* is therefore a function from a state to the set of states it can leave. *)
(*                                                                         *)
(* A read is ReadChunks UPLOADs, a write WriteChunks DNLOADs.  The ECU     *)
(* executes commands in order at its memory pointer (mta), and may execute *)
(* without its answer arriving.  "user" is any command without a           *)
(* continuation; it moves the pointer elsewhere.                           *)
(***************************************************************************)
EXTENDS Naturals, Sequences, FiniteSets

CONSTANTS ReadChunks, WriteChunks,
          Layout,           \* fields of a DAQ read, the anchor included
          Samples,          \* frames a DAQ read collects
          CtrRange,         \* 256: the command counter wraps here
          RespTicks,        \* response_timeout
          CollectTicks,     \* collect_timeout
          EcuBound,         \* bound: commands waiting in the ECU
          Calls             \* bound: user calls

ASSUME CcpAssumption ==
  /\ {ReadChunks, WriteChunks, Layout, Samples, RespTicks, CollectTicks} \subseteq Nat \ {0}
  /\ CtrRange \in Nat /\ EcuBound \in Nat /\ CtrRange > EcuBound /\ Calls \in Nat

VARIABLES
  ccp,      \* CcpHub
  ecu,      \* the ECU: commands received, pointer, memory, DAQ list running
  daq,      \* the DAQ read: state, result and the commands of its setup
  seen,     \* history: what the last read, write and DAQ read reported, how
            \* old the answer was that completed the last command, nested: an
            \* automation began a memory sequence in the middle of another,
            \* stuck: the read under way had a command refused
  calls

ccpVars == <<ccp, ecu, daq, seen, calls>>

NoFlight == [cmd |-> "none", ctr |-> 0, arg |-> 0, timer |-> 0]
Elsewhere == 0
MemoryCommands == {"rd_mta", "rd_up", "wr_mta", "wr_dn"}
Setup == <<"dq_size", "dq_ptr">> \o [i \in 1..Layout |-> "dq_wr"] \o <<"dq_stat", "dq_start">>
Commands == {"user", "dq_stop", "dq_off"} \cup MemoryCommands
              \cup {Setup[i] : i \in 1..Len(Setup)}

CcpTypeOK ==
  /\ ccp.enabled \in BOOLEAN /\ ccp.ctr \in 0..(CtrRange - 1)
  /\ ccp.flight \in [cmd : Commands, ctr : 0..(CtrRange - 1), arg : 0..WriteChunks,
                     timer : 0..RespTicks] \cup {NoFlight}
  /\ ccp.readLeft \in 0..ReadChunks /\ Len(ccp.readData) <= ReadChunks
  /\ ccp.writeSize \in {0, WriteChunks} /\ ccp.writeOff \in 0..WriteChunks
  /\ Len(ecu.queue) <= EcuBound /\ ecu.running \in BOOLEAN
  /\ daq.active \in BOOLEAN /\ daq.collecting \in BOOLEAN
  /\ daq.timer \in 0..CollectTicks /\ daq.frames \in 0..Samples
  /\ daq.step \in 0..Len(Setup) /\ Len(daq.sent) <= Len(Setup)

NoDaq == [active |-> FALSE, collecting |-> FALSE, step |-> 0, timer |-> 0,
          frames |-> 0, valid |-> FALSE, anchored |-> FALSE, failed |-> FALSE, sent |-> <<>>]

CcpInit ==
  /\ ccp = [enabled |-> TRUE, ctr |-> 0, flight |-> NoFlight,
            readLeft |-> 0, readData |-> <<>>, wanted |-> FALSE,
            writeSize |-> 0, writeOff |-> 0, reporting |-> FALSE]
  /\ ecu = [queue |-> <<>>, mta |-> Elsewhere, mem |-> <<>>, running |-> FALSE]
  /\ daq = NoDaq
  /\ seen = [read |-> <<>>, write |-> FALSE, result |-> NoDaq, ok |-> FALSE, age |-> 0,
             nested |-> FALSE, stuck |-> FALSE]
  /\ calls = 0

-----------------------------------------------------------------------------
(* A state of the four variables as one value, for the handlers.           *)
Now == [ccp |-> ccp, ecu |-> ecu, daq |-> daq, seen |-> seen]
Becomes(s) == ccp' = s.ccp /\ ecu' = s.ecu /\ daq' = s.daq /\ seen' = s.seen

(* An ECU forgets a command long before the counter comes round to it; the *)
(* oldest one is at the head.                                              *)
Aged(queue) ==
  LET older == [i \in 1..Len(queue) |-> [queue[i] EXCEPT !.age = @ + 1]]
  IN  IF older # <<>> /\ Head(older).age = CtrRange THEN Tail(older) ELSE older

(* What an accepted frame leaves behind.                                   *)
Handed(s, cmd, arg) ==
  [s EXCEPT !.ccp.flight = [cmd |-> cmd, ctr |-> s.ccp.ctr, arg |-> arg, timer |-> RespTicks],
            !.ccp.ctr = (@ + 1) % CtrRange,
            !.daq.sent = IF s.daq.active /\ ~s.daq.collecting /\ Len(@) < Len(Setup)
                           THEN Append(@, cmd) ELSE @,
            !.ecu.queue = Aged(@)]

(* send_(): the counter advances even when the port refuses the frame; an  *)
(* accepted frame reaches the ECU or is lost.                              *)
Send(s, cmd, arg) ==
  IF ~s.ccp.enabled \/ s.ccp.flight # NoFlight
    THEN {[sent |-> FALSE, to |-> s]}
    ELSE LET h == Handed(s, cmd, arg)
         IN  {[sent |-> FALSE, to |-> [s EXCEPT !.ccp.ctr = (@ + 1) % CtrRange,
                                                !.ecu.queue = Aged(@)]],
              [sent |-> TRUE, to |-> h]}
             \cup (IF Len(h.ecu.queue) = EcuBound THEN {}
                   ELSE {[sent |-> TRUE,
                          to |-> [h EXCEPT !.ecu.queue =
                            Append(@, [cmd |-> cmd, ctr |-> s.ccp.ctr, arg |-> arg, age |-> 0])]]})

Sent(s, cmd, arg) == {r.to : r \in Send(s, cmd, arg)}

(* A refused continuation of a read leaves it waiting for nothing.         *)
ReadSends(s) ==
  {[r.to EXCEPT !.seen.stuck = @ \/ ~r.sent] : r \in Send(s, "rd_up", 0)}

-----------------------------------------------------------------------------
(* The end of a DAQ read.                                                  *)

(* fire_daq_read_().                                                       *)
Fire(s) ==
  IF ~s.daq.active THEN s
  ELSE [s EXCEPT !.daq = NoDaq, !.seen.result = s.daq, !.seen.ok = ~s.daq.failed]

(* teardown_daq_read_(): START_STOP_ALL, then SET_S_STATUS; a refused one  *)
(* is skipped.                                                             *)
ClearStatus(s) == {IF r.sent THEN r.to ELSE Fire(r.to) : r \in Send(s, "dq_off", 0)}

Teardown(s) ==
  UNION {IF r.sent THEN {r.to} ELSE ClearStatus(r.to) : r \in Send(s, "dq_stop", 0)}

(* complete_daq_read_().                                                   *)
Complete(s, failed) ==
  IF ~s.daq.active THEN {s}
  ELSE Teardown([s EXCEPT !.daq.collecting = FALSE, !.daq.timer = 0,
                          !.daq.failed = @ \/ failed \/ ~s.daq.anchored \/ ~s.daq.valid])

(* send_daq_step_().                                                       *)
Step(s, n) ==
  UNION {IF r.sent THEN {r.to} ELSE Complete(r.to, TRUE)
           : r \in Send([s EXCEPT !.daq.step = n], Setup[n], 0)}

-----------------------------------------------------------------------------
(* Continuations.                                                          *)

(* fail_sequence_(): whatever of a read or a write is under way is dropped.*)
FailSequence(s) ==
  [s EXCEPT !.ccp.readLeft = 0, !.ccp.readData = <<>>, !.ccp.wanted = FALSE,
            !.ccp.writeSize = 0,
            !.ccp.writeOff = IF s.ccp.writeSize = 0 THEN @ ELSE 0,
            !.ccp.reporting = FALSE]

ContinueRead(s, ok, data) ==
  LET got == [s EXCEPT !.ccp.readData = Append(@, data), !.ccp.readLeft = @ - 1]
  IN  CASE ~ok -> {FailSequence(s)}
        [] ok /\ s.ccp.readLeft = 0 -> {s}
        [] ok /\ s.ccp.readLeft = 1 ->
             {[got EXCEPT !.ccp.readData = <<>>, !.ccp.wanted = FALSE,
                          !.seen.read = IF s.ccp.wanted THEN got.ccp.readData ELSE @]}
        [] ok /\ s.ccp.readLeft > 1 -> ReadSends(got)

(* continue_write_(): the offset moves before the frame is offered.        *)
ContinueWrite(s, ok) ==
  CASE ~ok -> {FailSequence(s)}
    [] ok /\ s.ccp.writeOff = s.ccp.writeSize ->
         {[s EXCEPT !.ccp.writeSize = 0, !.ccp.reporting = FALSE,
                    !.seen.write = @ \/ s.ccp.reporting]}
    [] ok /\ s.ccp.writeOff # s.ccp.writeSize ->
         Sent([s EXCEPT !.ccp.writeOff = @ + 1], "wr_dn", s.ccp.writeOff + 1)

(* The callback send_() was given with the command.                        *)
Continue(s, cmd, ok, data) ==
  CASE cmd = "user"                 -> {s}
    [] cmd = "rd_mta" /\ ~ok        -> {FailSequence(s)}
    [] cmd = "rd_mta" /\ ok         -> ReadSends(s)
    [] cmd = "rd_up"                -> ContinueRead(s, ok, data)
    [] cmd \in {"wr_mta", "wr_dn"}  -> ContinueWrite(s, ok)
    [] cmd = "dq_stop"              -> ClearStatus(s)
    [] cmd = "dq_off"               -> {Fire(s)}
    [] cmd = "dq_start" /\ ok       -> {[s EXCEPT !.daq.collecting = TRUE, !.daq.timer = CollectTicks]}
    [] cmd \in {"dq_size", "dq_ptr", "dq_wr", "dq_stat"} /\ ok -> Step(s, s.daq.step + 1)
    [] OTHER                        -> Complete(s, TRUE)

-----------------------------------------------------------------------------
(* User calls, from the loop or from an automation inside finish_().       *)
Free(s) == s.ccp.flight = NoFlight

ReadMemory(s) ==
  IF ~Free(s) \/ s.ccp.readLeft # 0 THEN {s}
  ELSE {[r.to EXCEPT !.seen.stuck = ~r.sent] : r \in
          Send([s EXCEPT !.ccp.readLeft = ReadChunks, !.ccp.readData = <<>>, !.ccp.wanted = TRUE,
                         !.seen.read = <<>>], "rd_mta", 0)}

WriteMemory(s) ==
  IF ~Free(s) THEN {s}
  ELSE Sent([s EXCEPT !.ccp.writeSize = WriteChunks, !.ccp.writeOff = 0, !.ccp.reporting = TRUE,
                      !.seen.write = FALSE, !.ecu.mem = <<>>], "wr_mta", 0)

DaqRead(s) ==
  IF ~Free(s) \/ s.daq.active THEN {s}
  ELSE {IF r.sent THEN r.to ELSE [r.to EXCEPT !.daq = NoDaq] : r \in
          Send([s EXCEPT !.daq = [NoDaq EXCEPT !.active = TRUE, !.step = 1]], "dq_size", 0)}

UserCalls == {"user", "read", "write", "daq"}

Call(s, what) ==
  CASE what = "none"  -> {s}
    [] what = "user"  -> Sent(s, "user", 0)
    [] what = "read"  -> ReadMemory(s)
    [] what = "write" -> WriteMemory(s)
    [] what = "daq"   -> DaqRead(s)

(* A user call costs one of the bounded Calls.                             *)
Spends(what) ==
  /\ calls' = IF what = "none" THEN calls ELSE calls + 1
  /\ calls' <= Calls

(* finish_(): the slot is freed, the automation runs, then the callback.   *)
Finished(s, what, ok, data) ==
  UNION {Continue(t, s.ccp.flight.cmd, ok, data)
           : t \in Call([s EXCEPT !.ccp.flight = NoFlight, !.seen.nested = @ \/
                            (what \in {"read", "write"} /\ s.ccp.flight.cmd \in MemoryCommands)], what)}

UserCall(what) ==
  /\ Spends(what)
  /\ \E s \in Call(Now, what) : Becomes(s)

CcpSetEnabled ==
  /\ calls < Calls /\ calls' = calls + 1
  /\ ccp' = [ccp EXCEPT !.enabled = ~@]
  /\ UNCHANGED <<ecu, daq, seen>>

-----------------------------------------------------------------------------
(* The ECU executes its oldest command.                                    *)
Executed(e) ==
  LET rest == [ecu EXCEPT !.queue = Tail(@)]
  IN  CASE e.cmd \in {"rd_mta", "wr_mta"} -> [rest EXCEPT !.mta = 1]
        [] e.cmd = "user"                 -> [rest EXCEPT !.mta = Elsewhere]
        [] e.cmd = "rd_up" /\ ecu.mta # Elsewhere -> [rest EXCEPT !.mta = @ + 1]
        [] e.cmd = "wr_dn" /\ ecu.mta # Elsewhere ->
             [rest EXCEPT !.mta = @ + 1, !.mem = Append(@, <<ecu.mta, e.arg>>)]
        [] e.cmd = "dq_start"             -> [rest EXCEPT !.running = TRUE]
        [] e.cmd = "dq_stop"              -> [rest EXCEPT !.running = FALSE]
        [] OTHER                          -> rest

(* Mutant: any response completes the command in flight.                   *)
MatchesAny(e) == ccp.flight # NoFlight

(* on_frame(): a response counts only under the counter in flight.         *)
Matches(e) == ccp.flight # NoFlight /\ e.ctr = ccp.flight.ctr

OnResponse(ok, what) ==
  /\ ecu.queue # <<>>
  /\ LET e == Head(ecu.queue)
         s == [Now EXCEPT !.ecu = Executed(e), !.seen.age = e.age]
     IN  IF Matches(e)
           THEN Spends(what) /\ \E t \in Finished(s, what, ok, ecu.mta) : Becomes(t)
           ELSE /\ what = "none" /\ ok
                /\ ecu' = s.ecu /\ UNCHANGED <<ccp, daq, seen, calls>>

(* The answer is lost, or the command is.                                  *)
NoAnswer ==
  /\ ecu.queue # <<>>
  /\ ecu' = Executed(Head(ecu.queue))
  /\ UNCHANGED <<ccp, daq, seen, calls>>

(* handle_daq_frame_(): a frame may lack the anchor or be short.           *)
OnDaqFrame(anchored, whole) ==
  /\ ecu.running
  /\ IF ~daq.collecting
       THEN UNCHANGED ccpVars
       ELSE /\ UNCHANGED calls
            /\ LET d == [daq EXCEPT !.frames = @ + 1, !.anchored = @ \/ anchored,
                                    !.valid = @ \/ (anchored /\ whole)]
                   s == [Now EXCEPT !.daq = d]
               IN  IF d.frames >= Samples
                     THEN \E t \in Complete(s, FALSE) : Becomes(t)
                     ELSE Becomes(s)

RespOverdue == ccp.flight # NoFlight /\ ccp.flight.timer = 0
CollectOverdue == daq.collecting /\ daq.timer = 0

(* loop(): the response timeout, then the collection's.                    *)
OnTimeout(what) ==
  /\ RespOverdue /\ Spends(what)
  /\ \E s \in Finished(Now, what, FALSE, 0) : Becomes(s)

OnCollectTimeout ==
  /\ CollectOverdue /\ ~RespOverdue
  /\ \E s \in Complete(Now, TRUE) : Becomes(s)
  /\ UNCHANGED calls

CcpTick ==
  /\ ~RespOverdue /\ ~CollectOverdue
  /\ ccp.flight # NoFlight \/ daq.collecting
  /\ ccp' = [ccp EXCEPT !.flight.timer = IF ccp.flight = NoFlight THEN @ ELSE @ - 1]
  /\ daq' = [daq EXCEPT !.timer = IF daq.collecting THEN @ - 1 ELSE @]
  /\ UNCHANGED <<ecu, seen, calls>>

(* loop() with no deadline reached.                                        *)
CcpIdle == ccp.flight = NoFlight /\ ~daq.collecting /\ UNCHANGED ccpVars

CcpLoop == OnCollectTimeout \/ \E what \in UserCalls \cup {"none"} : OnTimeout(what)

CcpNext ==
  \/ \E what \in UserCalls : UserCall(what)
  \/ CcpSetEnabled
  \/ \E ok \in BOOLEAN, what \in UserCalls \cup {"none"} : OnResponse(ok, what)
  \/ NoAnswer
  \/ \E anchored, whole \in BOOLEAN : OnDaqFrame(anchored, whole)
  \/ CcpLoop \/ CcpTick \/ CcpIdle

CcpSpec == CcpInit /\ [][CcpNext]_ccpVars

(* The loop polices its deadlines and time passes.                         *)
CcpFairness == WF_ccpVars(CcpLoop \/ CcpTick)

CcpFairSpec == CcpSpec /\ CcpFairness

-----------------------------------------------------------------------------

(* A command is completed by its own answer, never by the late answer to   *)
(* one that timed out (the counter of matches_response); so a delivered    *)
(* read is the requested range, every chunk once and in order, and a write *)
(* reported as done is in the ECU, every chunk at its place, whatever      *)
(* automations send in between (continue_read_ and continue_write_ stop    *)
(* when their slot is taken), unless an automation starts one memory       *)
(* sequence in the middle of another.  While samples are collected the     *)
(* ECU's list was set up by this read alone, with no foreign command       *)
(* between its steps (send_daq_step_ gives up when the slot is taken), and *)
(* a good result rests on enough frames, one of them whole and anchored    *)
(* (complete_daq_read_).                                                   *)
MemoryIsWhole ==
  /\ CcpTypeOK
  /\ seen.age = 0
  /\ seen.read # <<>> /\ ~seen.nested => seen.read = [i \in 1..ReadChunks |-> i]
  /\ seen.write /\ ~seen.nested =>
       \A i \in 1..WriteChunks : \E k \in 1..Len(ecu.mem) : ecu.mem[k] = <<i, i>>
  /\ daq.collecting => daq.sent = Setup
  /\ seen.ok => /\ seen.result.sent = Setup
                /\ seen.result.frames >= Samples
                /\ seen.result.anchored /\ seen.result.valid

(* A DAQ read always ends and reports, whatever is refused, lost or sent   *)
(* in between (every path of its steps leads to fire_daq_read_), and so    *)
(* does a memory read, unless one of its own commands was refused: then    *)
(* nothing is left that would end it (read_remaining_).                    *)
ReadsEnd ==
  /\ daq.active ~> ~daq.active
  /\ ccp.readLeft # 0 ~> ccp.readLeft = 0 \/ seen.stuck

=============================================================================
