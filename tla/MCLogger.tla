------------------------------ MODULE MCLogger ------------------------------
(***************************************************************************)
(* The logger for TLC: the life of its chunks and its clock.  They share   *)
(* the card but neither reads what the other writes, so a behaviour        *)
(* exercises one of them (aspect) and leaves the other in its initial      *)
(* state.                                                                  *)
(***************************************************************************)
EXTENDS ChunkCollection, LogClock

(* After a sleep the clock is behind by more than the slack, or ahead.     *)
MCSleepErrors == {-2, 1}

VARIABLE aspect

loggerVars == <<vars, clockVars, aspect>>

LoggerInit == Init /\ ClockInit /\ aspect \in {"chunks", "clock"}

LoggerNext ==
  \/ aspect = "chunks" /\ Next /\ UNCHANGED <<clockVars, aspect>>
  \/ aspect = "clock" /\ ClockNext /\ UNCHANGED <<vars, aspect>>

LoggerSpec == LoggerInit /\ [][LoggerNext]_loggerVars

=============================================================================
