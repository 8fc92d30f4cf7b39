------------------------------ MODULE LogClock ------------------------------
(***************************************************************************)
(* The wall-clock basis of the log files (components/sd_logger:            *)
(* clock_basis.h, torn_seal.h and their use in sd_logger.cpp): what the    *)
(* device believes about UTC, what it writes into its files, and what the  *)
(* next boot concludes from the tails of those files, across syncs, deep   *)
(* sleep, warm resets and power cuts.  learn_clock_ runs on the writer     *)
(* task when the card came up late and is split where a sync callback of   *)
(* the main loop can fall.                                                 *)
(*                                                                         *)
(* A file is the sequence of those of its lines that matter here, after    *)
(* its header.  A complete line parses to what was formatted; a torn one   *)
(* is read by neither scanner and is not represented.  How much of a file  *)
(* a reset takes is left open.  The restatement every 32 KiB keeps the     *)
(* newest statement inside the 64 KiB that are read, so a tail is the file.*)
(***************************************************************************)
EXTENDS Integers, Sequences, SequencesExt

CONSTANTS
  Start,        \* true UTC at the first boot
  Build,        \* App.get_build_time()
  MinEpoch,     \* SD_LOG_CLOCK_MIN_EPOCH_US
  Slack,        \* SD_LOG_CLOCK_SLACK_US
  SleepErrors,  \* by how much the slow clock may be off after a deep sleep
  TailFiles,    \* SD_LOG_CLOCK_TAIL_FILES
  MaxNow,       \* bound: the last instant
  MaxBoots,     \* bound: restarts
  MaxLines,     \* bound: lines of a file
  MaxLogs       \* bound: files opened in a behaviour

ASSUME ClockAssumption ==
  /\ Start \in Nat /\ MaxNow \in Nat /\ Start <= MaxNow
  /\ MinEpoch \in Nat /\ 0 < MinEpoch /\ MaxNow - Start < MinEpoch  \* a lost clock is implausible
  /\ Build \in Nat /\ 0 < Build /\ Build <= Start /\ Slack \in Nat
  /\ SleepErrors \subseteq Int
  /\ TailFiles \in Nat \ {0}
  /\ MaxBoots \in Nat /\ MaxLines \in Nat /\ MaxLogs \in Nat

NoPoint == [t |-> 0, utc |-> 0, basis |-> "none", src |-> "none"]
NoDecision == [best |-> NoPoint, floor |-> NoPoint]

VARIABLES
  now,     \* (environment) true UTC
  bootAt,  \* (environment) true UTC at this boot's microsecond 0
  sys,     \* (environment) what gettimeofday() reads
  rtc,     \* s_clock_state, in RTC memory
  wake,    \* the reset reason of this boot
  dev,     \* RAM: the step of the logger; setup_clock_, the clock as boot found
           \* it; the boot's decision;
           \* clock_best_, clock_floor_, utc_anchor_ (NoPoint: not valid),
           \* unsaid (an anchor not yet written), marking (set_utc_anchor has
           \* still to note the sync in rtc), back (clock_back_ is not zero)
  logs,    \* (card) the newest files, oldest first
  past     \* history: slept, the system clock ran through a deep sleep since
           \* it was last set; forgot, and a reset came while rtc did not say
           \* so; ahead, some sleep made it run ahead; boots and logs so far

clockVars == <<now, bootAt, sys, rtc, wake, dev, logs, past>>

Up == now - bootAt
Steps == {"unmounted", "decided", "published", "ready", "open"}
Bases == {"none", "est", "drift", "utc"}

ClockTypeOK ==
  /\ now \in Start..MaxNow /\ bootAt \in Start..now /\ sys \in Nat
  /\ rtc \in {"unknown", "synced", "drifted"}
  /\ wake \in {"power_on", "deep_sleep", "other"}
  /\ dev.step \in Steps
  /\ \A p \in {dev.best, dev.floor, dev.anchor} : p.basis \in Bases /\ p.utc \in Nat
  /\ Len(logs) <= TailFiles /\ \A i \in DOMAIN logs : Len(logs[i]) <= MaxLines + 4

(* RAM as setup() leaves it: the clock is sampled before any callback.     *)
FreshRam(utc) ==
  [step |-> "unmounted", setup |-> utc, decided |-> NoDecision,
   best |-> NoPoint, floor |-> NoPoint, anchor |-> NoPoint, unsaid |-> FALSE,
   marking |-> FALSE, back |-> FALSE]

ClockInit ==
  /\ now = Start /\ bootAt = Start /\ sys = 0
  /\ rtc = "unknown" /\ wake = "power_on"
  /\ dev = FreshRam(0)
  /\ logs = <<>>
  /\ past = [slept |-> FALSE, forgot |-> FALSE, ahead |-> FALSE, boots |-> 0,
             logs |-> 0]

-----------------------------------------------------------------------------
(* clock_project and clock_at.                                             *)
Project(p, t) == p.utc + (t - p.t)
At(p, t) == [t |-> t, utc |-> Project(p, t), basis |-> p.basis, src |-> p.src]

Line(kind, p) == [kind |-> kind, t |-> p.t, utc |-> p.utc, basis |-> p.basis]
Meta(kind, t) == [kind |-> kind, t |-> t, utc |-> 0, basis |-> "none"]
Statements(lines) == {i \in DOMAIN lines : lines[i].kind \in {"clock", "utc"}}
Stamps(lines, from) ==
  {lines[i].t : i \in {j \in from..Len(lines) : lines[j].kind \in {"clock", "meta", "close"}}}

(* ClockTailScanner: the newest statement, at the latest timed line after  *)
(* it.                                                                     *)
End(f) ==
  IF Statements(f) = {} THEN NoPoint
  ELSE LET c == Max(Statements(f))
           l == f[c]
           p == [t |-> l.t, utc |-> l.utc, basis |-> l.basis, src |-> "card"]
       IN  At(p, Max({l.t} \cup Stamps(f, c + 1)))

(* read_card_tails_: the newest file that states a clock.                  *)
CardEnd ==
  LET stating == {i \in DOMAIN logs : End(logs[i]) # NoPoint}
  IN  IF stating = {} THEN NoPoint ELSE End(logs[Max(stating)])

(* TornTailScanner: a file is closed when its last complete line says so.  *)
EndsClosed(f) == f # <<>> /\ Last(f).kind = "close"

(* Of a closed file only what follows the newest statement is ever read.   *)
Trimmed(f) == IF Statements(f) = {} THEN f ELSE SubSeq(f, Max(Statements(f)), Len(f))

(* Mutant: the seal is stamped with this boot's clock.                     *)
SealStampNow(lines) == Up + Len(lines)

SealStamp(lines) == Max({0} \cup Stamps(lines, 1))

(* seal_torn_tail: cut back to the last complete line, then #close.  When  *)
(* a step fails, no complete line is gained or lost.                       *)
Sealed(f) == IF EndsClosed(f) THEN {f} ELSE {f, Trimmed(Append(f, Meta("close", SealStamp(f))))}

(* decide_boot_clock: the floor the card and the build prove, and whether  *)
(* the system clock is past both.                                          *)
Floor(card) ==
  IF card # NoPoint /\ card.utc >= Build
  THEN [t |-> 0, utc |-> card.utc, basis |-> "est", src |-> "card"]
  ELSE [t |-> 0, utc |-> Build, basis |-> "est", src |-> "build"]

Plausible(floor) == sys >= Max({Build, MinEpoch}) /\ sys + Slack >= Project(floor, Up)

Decide(floor) ==
  IF wake = "power_on" \/ ~Plausible(floor) THEN floor
  ELSE IF wake = "deep_sleep" \/ rtc = "drifted"
       THEN [t |-> Up, utc |-> sys, basis |-> "drift", src |-> "sleep"]
       ELSE [t |-> Up, utc |-> sys, basis |-> "utc", src |-> "warm"]

(* learn_clock_, once per boot and before the first file: sample, read     *)
(* the tails and seal the torn ones, decide.                               *)
LearnBegin ==
  /\ dev.step = "unmounted"
  /\ LET floor == Floor(CardEnd)
     IN  dev' = [dev EXCEPT !.step = "decided",
                            !.decided = [best |-> Decide(floor), floor |-> floor]]
  /\ logs' \in {fs \in [DOMAIN logs -> UNION {Sealed(logs[i]) : i \in DOMAIN logs}] :
                  \A i \in DOMAIN logs : fs[i] \in Sealed(logs[i])}
  /\ UNCHANGED <<now, bootAt, sys, rtc, wake, past>>

Synced == dev.anchor # NoPoint

(* Its locked section: a sync that came first keeps its word.              *)
LearnPublish ==
  /\ dev.step = "decided"
  /\ LET d == dev.decided
         reading == ~Synced /\ d.best.basis = "utc"
     IN  dev' = [dev EXCEPT !.step = IF Synced THEN "ready" ELSE "published",
                            !.floor = d.floor,
                            !.best = IF Synced THEN @ ELSE d.best,
                            !.anchor = IF reading THEN d.best ELSE @,
                            !.unsaid = @ \/ reading,
                            !.decided = IF Synced THEN NoDecision ELSE @]
  /\ UNCHANGED <<now, bootAt, sys, rtc, wake, logs, past>>

(* And what it leaves in RTC memory for the next boot.                     *)
LearnRecord ==
  /\ dev.step = "published"
  /\ rtc' = IF dev.decided.best.basis = "drift" THEN "drifted"
            ELSE IF wake = "power_on" THEN "unknown" ELSE rtc
  /\ dev' = [dev EXCEPT !.step = "ready", !.decided = NoDecision]
  /\ UNCHANGED <<now, bootAt, sys, wake, logs, past>>

-----------------------------------------------------------------------------
(* clock_unstepped_since: a callback that finds the clock where it would   *)
(* be had nobody set it is no sync.  (No sample: the clock read 0.)        *)
Unstepped(utc) == dev.setup # 0 /\ utc = dev.setup + Up

(* set_utc_anchor, its locked section and the alarm of a sync that lands   *)
(* before the floor.                                                       *)
SetUtcAnchor(utc) ==
  LET p == [t |-> Up, utc |-> utc, basis |-> "utc", src |-> "sync"]
  IN  dev' = [dev EXCEPT !.anchor = p, !.best = p, !.unsaid = TRUE, !.marking = TRUE,
                         !.back = @ \/ (dev.floor # NoPoint
                                          /\ utc + Slack < Project(dev.floor, Up))]

(* Mutant: every callback is taken for a sync.                             *)
OnTimeSyncTrusting(utc) == utc # 0 /\ SetUtcAnchor(utc)

OnTimeSync(utc) ==
  /\ utc # 0
  /\ \/ Unstepped(utc) /\ UNCHANGED dev
     \/ ~Unstepped(utc) /\ SetUtcAnchor(utc)

(* A time platform sets the system clock and calls back.                   *)
RealSync ==
  /\ ~dev.marking
  /\ sys' = now /\ OnTimeSync(now)
  /\ past' = [past EXCEPT !.slept = FALSE, !.forgot = FALSE]
  /\ UNCHANGED <<now, bootAt, rtc, wake, logs>>

(* One calls back because the clock already reads as valid.                *)
EmptySync ==
  /\ ~dev.marking /\ sys >= MinEpoch
  /\ OnTimeSync(sys)
  /\ UNCHANGED <<now, bootAt, sys, rtc, wake, logs, past>>

(* The rest of set_utc_anchor, outside the lock.                           *)
MarkSynced ==
  /\ dev.marking
  /\ rtc' = "synced"
  /\ dev' = [dev EXCEPT !.marking = FALSE]
  /\ UNCHANGED <<now, bootAt, sys, wake, logs, past>>

-----------------------------------------------------------------------------
(* write_clock_line_: what best says, restated at this instant.            *)
ClockLine == IF dev.best = NoPoint THEN <<>> ELSE <<Line("clock", At(dev.best, Up))>>
UtcLine == IF dev.anchor = NoPoint THEN <<>> ELSE <<Line("utc", dev.anchor)>>

Written(lines) == [logs EXCEPT ![Len(logs)] = @ \o lines]
Roomy == dev.step = "open" /\ Len(Last(logs)) < MaxLines

(* open_next_file_, write_file_header_: the anchor and the clock in every  *)
(* header.                                                                 *)
OpenLog ==
  /\ dev.step = "ready" /\ past.logs < MaxLogs
  /\ logs' = Append(IF Len(logs) = TailFiles THEN Tail(logs) ELSE logs, UtcLine \o ClockLine)
  /\ dev' = [dev EXCEPT !.step = "open", !.unsaid = FALSE]
  /\ past' = [past EXCEPT !.logs = @ + 1]
  /\ UNCHANGED <<now, bootAt, sys, rtc, wake>>

(* write_utc_marker_, at the start of a pass.                              *)
WriteUtcMarker ==
  /\ Roomy /\ dev.unsaid
  /\ logs' = Written(UtcLine \o ClockLine)
  /\ dev' = [dev EXCEPT !.unsaid = FALSE]
  /\ UNCHANGED <<now, bootAt, sys, rtc, wake, past>>

(* A due restatement; #drop and #gap lines, which carry a stamp.           *)
WriteMeta(lines) ==
  /\ Roomy
  /\ ToSet(lines) \cap ToSet(Last(logs)) = {}  \* bound: nothing is said twice in an instant
  /\ logs' = Written(lines)
  /\ UNCHANGED <<now, bootAt, sys, rtc, wake, dev, past>>

(* close_file_, by rotation or by on_shutdown().                           *)
CloseLog ==
  /\ dev.step = "open"
  /\ logs' = [logs EXCEPT ![Len(logs)] = Trimmed(@ \o ClockLine \o <<Meta("close", Up)>>)]
  /\ dev' = [dev EXCEPT !.step = "ready"]
  /\ UNCHANGED <<now, bootAt, sys, rtc, wake, past>>

-----------------------------------------------------------------------------
ClockTick ==
  /\ now < MaxNow
  /\ now' = now + 1 /\ sys' = sys + 1
  /\ UNCHANGED <<bootAt, rtc, wake, dev, logs, past>>

(* What a reset leaves of the open file.                                   *)
AfterCut ==
  IF dev.step # "open" THEN {logs}
  ELSE {[logs EXCEPT ![Len(logs)] = SubSeq(@, 1, n)] : n \in 0..Len(Last(logs))}

(* The chip restarts.  A power-on clears the RTC timer and its memory;     *)
(* deep sleep takes time and keeps both, on the slow clock; any other      *)
(* reset keeps the memory and perhaps the timer.                           *)
Restart(kind, asleep, error, kept) ==
  /\ past.boots < MaxBoots /\ now + asleep <= MaxNow
  /\ now' = now + asleep /\ bootAt' = now'
  /\ sys' = IF kept THEN Max({0, sys + asleep + error}) ELSE 0
  /\ rtc' = IF kind = "power_on" THEN "unknown" ELSE rtc
  /\ wake' = kind
  /\ dev' = FreshRam(sys')
  /\ logs' \in AfterCut
  /\ LET slept == kept /\ (past.slept \/ kind = "deep_sleep")
     IN  past' = [past EXCEPT
           !.slept = slept, !.boots = @ + 1,
           !.forgot = slept /\ (@ \/ (past.slept /\ rtc # "drifted")),
           !.ahead = @ \/ error > 0]

ClockRestart ==
  \/ \E off \in {0, 1} : Restart("power_on", off, 0, FALSE)
  \/ \E error \in SleepErrors : Restart("deep_sleep", 1, error, TRUE)
  \/ \E kept \in BOOLEAN : Restart("other", 0, 0, kept)

ClockNext ==
  \/ LearnBegin \/ LearnPublish \/ LearnRecord
  \/ RealSync \/ EmptySync \/ MarkSynced
  \/ OpenLog \/ WriteUtcMarker \/ CloseLog
  \/ dev.best # NoPoint /\ WriteMeta(ClockLine)
  \/ WriteMeta(<<Meta("meta", Up)>>)
  \/ ClockTick \/ ClockRestart

ClockSpec == ClockInit /\ [][ClockNext]_clockVars

-----------------------------------------------------------------------------
(* The clock the files state is honest.  An estimate is a lower bound:     *)
(* whatever was cut, sealed and re-read, the floor never passes the true   *)
(* time and never raises the alarm against a right clock, unless a sleep   *)
(* clock once ran ahead and wrote it down (clock_basis.h, ClockBasis::EST).*)
(* And what is labelled utc is a reading, right to the tick: no callback,  *)
(* no chain of wakes and resets passes a slept or estimated clock off as   *)
(* one, unless the wake itself was never recorded (learn_clock_, C12).     *)
ClockIsHonest ==
  /\ ClockTypeOK
  /\ ~past.ahead =>
       /\ ~dev.back
       /\ \A p \in {dev.floor, dev.best} : p.basis = "est" => Project(p, Up) <= now
  /\ dev.best.basis = "utc" /\ ~past.forgot => Project(dev.best, Up) = now

(* A warm reset that follows a wake before any sync keeps the drift label  *)
(* (docs/sd_logger-clock-spec.md, C1).                                     *)
WarmResetKeepsDrift == dev.best.src = "warm" => ~past.slept

(* Sealing a torn file does not move the floor the next boot reads from it *)
(* (torn_seal.h, stamp()), whichever of its steps failed, unless the cut   *)
(* fell between a #utc line and the #clock line that goes with it.         *)
SealKeepsFloor ==
  [][\A i \in DOMAIN logs :
       LET ls == logs[i]
       IN  dev.step = "unmounted" /\ dev'.step = "decided"
             /\ (Statements(ls) # {} => ls[Max(Statements(ls))].kind = "clock")
           => End(logs'[i]) = End(logs[i])]_clockVars

=============================================================================
