-------------------------------- MODULE Fleet --------------------------------
(***************************************************************************)
(* script/sdlog_fleet.py: the unattended passes over every device.  A run  *)
(* (the timer's, or one started by hand) puts one thread per device to     *)
(* work; a device's thread holds that device's flock, starts the collector *)
(* as a child process, records the outcome in the heartbeat file and tells *)
(* the push monitor.  The collector is its exit status here; Collector     *)
(* models what it does.                                                    *)
(***************************************************************************)
EXTENDS HostCommon, Integers, FiniteSets

CONSTANTS Runs,        \* fleet processes that may be alive together
          Devices,
          Tokens,      \* states of a token file (path and mtime), "none" included
          StaleAfter,  \* stale_after_days
          MaxTime,     \* bound: days
          MaxFaults    \* bound: heartbeats lost and fleets killed

\* what a heartbeat file may hold
Heartbeats == [created : 0..MaxTime, success : (0..MaxTime) \cup {None},
               verdict : {"ok", "error"}, locked : Tokens \cup {None}]

ASSUME FleetAssumption ==
    /\ StaleAfter \in Nat \ {0} /\ MaxTime \in Nat /\ MaxFaults \in Nat
    /\ None \notin Runs \cup Tokens /\ None \notin 0..MaxTime /\ None \notin Heartbeats
    /\ None \notin {"ok", "offline", "error", "refused", "locked"}

VARIABLES
    now,        \* days
    lowSpace,   \* _disk_problem would say no
    token,      \* [Devices -> Tokens]: the state of the token file
    hb,         \* <state>/<device>.json, or None
    holder,     \* which run holds <state>/<device>.lock
    pass,       \* [Runs -> [Devices -> the thread of that device]]
    orphan,     \* devices with a collector whose fleet died
    monitor,    \* what the push monitor was last told: "up", "down" or None
    faults,     \* bound on the faults
    trouble,    \* history: the last pass that met the device and was not
                \* offline ended in an error, as far as anyone could record it
    refusals,   \* history: refusals of the present token file
    excused     \* history: those that no heartbeat could hold against it
fleetVars == <<now, lowSpace, token, hb, holder, pass, orphan, monitor, faults,
               trouble, refusals, excused>>

\* a device's thread: where it is, when it began, the credential it is keyed
\* on, the one the collector read, the result and the heartbeat it made of it
Quiet == [pc |-> "idle", at |-> 0, key |-> None, used |-> None, result |-> None, mem |-> None]

Thread(r, d) == pass[r][d]
SetThread(r, d, t) == pass' = [pass EXCEPT ![r][d] = t]
Working(r) == \E d \in Devices : Thread(r, d).pc # "idle"

\* a heartbeat that does not exist yet
Fresh(at) == [created |-> at, success |-> None, verdict |-> "ok", locked |-> None]
Load(d, at) == IF hb[d] = None THEN Fresh(at) ELSE hb[d]

-----------------------------------------------------------------------------
\* run_once: the disk pre-flight, then every device's thread; the pass is over
\* when the last thread is
RunOnce(r) ==
    /\ ~Working(r)
    /\ pass' = [pass EXCEPT ![r] = [d \in Devices |->
                    [Quiet EXCEPT !.pc = "start", !.result = IF lowSpace THEN "error" ELSE None]]]
    /\ UNCHANGED <<now, lowSpace, token, hb, holder, orphan, monitor, faults, trouble, refusals, excused>>

\* _pass: the lock is held -> busy; a blocked disk -> error; refused before with
\* this credential -> locked; otherwise the collector runs
PassBegins(r, d) ==
    LET t   == Thread(r, d)
        key == token[d]
        dec == IF t.result = "error" THEN "error"
               ELSE IF Load(d, now).locked = key THEN "locked" ELSE None
    IN
    /\ t.pc = "start"
    /\ \/ /\ holder[d] # None
          /\ SetThread(r, d, Quiet) /\ UNCHANGED <<holder, trouble>>
       \/ /\ holder[d] = None
          /\ holder' = [holder EXCEPT ![d] = r]
          /\ SetThread(r, d, [t EXCEPT !.pc = IF dec = None THEN "collect" ELSE "record",
                                       !.at = now, !.key = key, !.result = dec])
          /\ trouble' = [trouble EXCEPT ![d] = @ \/ dec = "error"]
    /\ UNCHANGED <<now, lowSpace, token, hb, orphan, monitor, faults, refusals, excused>>

\* the child reads the token file itself, later than the fleet looked at it
CollectorReadsToken(r, d) ==
    /\ Thread(r, d).pc = "collect" /\ Thread(r, d).used = None
    /\ SetThread(r, d, [Thread(r, d) EXCEPT !.used = token[d]])
    /\ UNCHANGED <<now, lowSpace, token, hb, holder, orphan, monitor, faults, trouble, refusals, excused>>

\* _collect: 0, 75, 77, and everything else, the timeout that kills the child
\* included, is an error
CollectorEnds(r, d) ==
    LET t == Thread(r, d) IN
    /\ t.pc = "collect" /\ t.used # None
    /\ \E result \in {"ok", "offline", "error", "refused"} :
        /\ SetThread(r, d, [t EXCEPT !.pc = "record", !.result = result])
        /\ trouble' = [trouble EXCEPT ![d] = IF result = "offline" THEN @ ELSE result # "ok"]
        /\ LET counts == result = "refused" /\ t.used = token[d] IN
           /\ refusals' = [refusals EXCEPT ![d] = CASE counts -> @ + 1 [] result = "ok" -> 0 [] OTHER -> @]
           /\ excused'  = [excused EXCEPT ![d] = CASE counts /\ t.key # t.used -> @ + 1
                                                   [] result = "ok" -> 0 [] OTHER -> @]
    /\ UNCHANGED <<now, lowSpace, token, hb, holder, orphan, monitor, faults>>

\* mutant: any pass that is not an error clears the lock
RecordedForgets(s, t) ==
    LET error == t.result \in {"error", "refused"} IN
    [s EXCEPT !.success = IF t.result = "ok" THEN t.at ELSE @,
              !.verdict = CASE t.result = "ok" -> "ok" [] error -> "error" [] OTHER -> @,
              !.locked  = IF t.result = "refused" THEN t.key ELSE None]
\* mutant: any pass that is not an error clears the verdict
RecordedClears(s, t) ==
    LET error == t.result \in {"error", "refused"} IN
    [s EXCEPT !.success = IF t.result = "ok" THEN t.at ELSE @,
              !.verdict = IF error THEN "error" ELSE "ok",
              !.locked  = CASE t.result = "ok" -> None [] t.result = "refused" -> t.key [] OTHER -> @]
\* _record on a loaded heartbeat: ok clears the verdict and the lock, a refusal
\* locks, an error is remembered, offline and locked change nothing else
Recorded(s, t) ==
    LET error == t.result \in {"error", "refused"} IN
    [s EXCEPT !.success = IF t.result = "ok" THEN t.at ELSE @,
              !.verdict = CASE t.result = "ok" -> "ok" [] error -> "error" [] OTHER -> @,
              !.locked  = CASE t.result = "ok" -> None [] t.result = "refused" -> t.key [] OTHER -> @]

\* _record and _write: replaced atomically; a write that fails is only printed,
\* and the push still goes out from what is in memory
Record(r, d) ==
    LET t == Thread(r, d)
        s == Recorded(Load(d, t.at), t)
    IN
    /\ t.pc = "record"
    /\ SetThread(r, d, [t EXCEPT !.pc = "push", !.mem = s])
    /\ \/ hb' = [hb EXCEPT ![d] = s] /\ UNCHANGED <<faults, excused>>
       \/ /\ faults < MaxFaults /\ faults' = faults + 1
          /\ excused' = [excused EXCEPT ![d] = IF t.result = "refused" /\ t.key = token[d] THEN @ + 1 ELSE @]
          /\ UNCHANGED hb
    /\ UNCHANGED <<now, lowSpace, token, holder, orphan, monitor, trouble, refusals>>

\* _status_of: in alarm on an unresolved error, or when the last success (or
\* the first pass) is too long ago
Age(s, at) == at - (IF s.success = None THEN s.created ELSE s.success)
Alarm(s, at) == s # None /\ (s.verdict = "error" \/ Age(s, at) > StaleAfter)

\* _push: a dead monitor does not fail the pass; the file closes, the lock goes
Push(r, d) ==
    LET t == Thread(r, d) IN
    /\ t.pc = "push"
    /\ \/ monitor' = [monitor EXCEPT ![d] = IF Alarm(t.mem, t.at) THEN "down" ELSE "up"]
       \/ UNCHANGED monitor
    /\ holder' = [holder EXCEPT ![d] = None]
    /\ SetThread(r, d, Quiet)
    /\ UNCHANGED <<now, lowSpace, token, hb, orphan, faults, trouble, refusals, excused>>

\* the fleet is killed: the kernel drops its locks, a collector it had started
\* is not its child's concern and goes on
FleetDies(r) ==
    LET had == {d \in Devices : Thread(r, d).pc = "collect"}
        unsaid == {d \in Devices : Thread(r, d).pc = "record" /\ Thread(r, d).result = "refused"
                                   /\ Thread(r, d).key = token[d]}
    IN
    /\ Working(r) /\ faults < MaxFaults /\ faults' = faults + 1
    /\ pass' = [pass EXCEPT ![r] = [d \in Devices |-> Quiet]]
    /\ holder' = [d \in Devices |-> IF holder[d] = r THEN None ELSE holder[d]]
    /\ orphan' = orphan \cup had
    /\ excused' = [d \in Devices |-> excused[d] + (IF d \in unsaid THEN 1 ELSE 0)]
    /\ UNCHANGED <<now, lowSpace, token, hb, monitor, trouble, refusals>>

OrphanEnds(d) ==
    /\ d \in orphan /\ orphan' = orphan \ {d}
    /\ UNCHANGED <<now, lowSpace, token, hb, holder, pass, monitor, faults, trouble, refusals, excused>>

\* the owner replaces, touches, adds or removes the token file
ReplaceToken(d) ==
    /\ \E v \in Tokens \ {token[d]} : token' = [token EXCEPT ![d] = v]
    /\ refusals' = [refusals EXCEPT ![d] = 0] /\ excused' = [excused EXCEPT ![d] = 0]
    /\ UNCHANGED <<now, lowSpace, hb, holder, pass, orphan, monitor, faults, trouble>>

World == /\ \/ now < MaxTime /\ now' = now + 1 /\ UNCHANGED lowSpace
            \/ lowSpace' = ~lowSpace /\ UNCHANGED now
         /\ UNCHANGED <<token, hb, holder, pass, orphan, monitor, faults, trouble, refusals, excused>>

FleetInit ==
    /\ now = 0 /\ lowSpace = FALSE /\ faults = 0 /\ orphan = {}
    /\ token \in [Devices -> Tokens]
    /\ hb = [d \in Devices |-> None] /\ holder = [d \in Devices |-> None]
    /\ pass = [r \in Runs |-> [d \in Devices |-> Quiet]]
    /\ monitor = [d \in Devices |-> None]
    /\ trouble = [d \in Devices |-> FALSE]
    /\ refusals = [d \in Devices |-> 0] /\ excused = [d \in Devices |-> 0]

ThreadStep(r, d) == PassBegins(r, d) \/ CollectorReadsToken(r, d) \/ CollectorEnds(r, d)
                    \/ Record(r, d) \/ Push(r, d)
FleetNext == \/ \E r \in Runs : RunOnce(r) \/ FleetDies(r) \/ \E d \in Devices : ThreadStep(r, d)
             \/ \E d \in Devices : OrphanEnds(d) \/ ReplaceToken(d)
             \/ World
FleetSpec == FleetInit /\ [][FleetNext]_fleetVars

-----------------------------------------------------------------------------
(* Properties *)
FleetTypeOK ==
    /\ \A d \in Devices : hb[d] # None => hb[d] \in Heartbeats
    /\ \A r \in Runs, d \in Devices :
         Thread(r, d).pc \in {"idle", "start", "collect", "record", "push"}

\* A device that is not asked any more is in alarm, whatever passes (offline,
\* locked, blocked) came after the refusal: "a refusal is loud".
LockedIsLoud == \A d \in Devices : hb[d] # None /\ hb[d].locked # None => hb[d].verdict = "error"

\* F18/F19: a credential the device refused is not offered again until the
\* token file changes, and the device is in alarm meanwhile.  Every refusal of
\* the present token file beyond the first is one no heartbeat could hold: the
\* file was replaced between the fleet's look and the collector's, the
\* heartbeat was not written, or the fleet was killed before it was.
NotAskedAgain ==
    /\ FleetTypeOK
    /\ LockedIsLoud
    /\ \A d \in Devices : refusals[d] <= 1 + excused[d]

\* The monitor hears "up" only when the last word on the device is a success
\* (an unwritten heartbeat or a killed fleet apart) and the last success, or
\* the first pass, is not older than the limit when the pass begins.
UpIsEarned ==
    [][\A d \in Devices : \A r \in Runs :
        /\ Thread(r, d).pc = "push" /\ pass'[r][d].pc = "idle" /\ monitor'[d] # monitor[d]
        /\ monitor'[d] = "up"
        => (~trouble[d] \/ faults > 0) /\ Age(Thread(r, d).mem, Thread(r, d).at) <= StaleAfter]_fleetVars
=============================================================================
