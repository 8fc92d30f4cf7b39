------------------------------- MODULE Publish -------------------------------
(***************************************************************************)
(* script/sdlog_publish.py: every interval it reads the database, the free *)
(* space and every device's heartbeat, one after the other while all of    *)
(* them go on changing, and publishes one retained state to Home Assistant.*)
(* A button press leaves as the trigger file that starts the fleet's       *)
(* service.  Of the fleet this module sees what Fleet promises of it: a    *)
(* heartbeat file replaced atomically, whose verdict is "ok" or "error".   *)
(***************************************************************************)
EXTENDS HostCommon, Integers, FiniteSets

CONSTANTS Loggers,   \* the devices of the fleet
          Picks      \* the conditions a cycle may pick to watch (history)

VARIABLES
    dbUp,      \* the database answers
    diskLow,  \* the archive has less than archive_min_free_mb
    verdict,   \* the verdict of each heartbeat; None: no such file
    defect,    \* devices with a defect chunk on record
    cycle,     \* the collect() in progress
    retained,  \* the reasons in <node>/state on the broker, None before the first
    trigger,   \* the trigger file exists
    service,   \* the fleet's service is running
    watch      \* history: one condition picked at the start of a cycle, and
               \* whether it held all the time and at any time since
world == <<dbUp, diskLow, verdict, defect>>
publishVars == <<world, cycle, retained, trigger, service, watch>>

\* what P4 calls a problem
Conditions == {<<"clickhouse", None>>, <<"space", None>>}
              \cup ({"collect", "defect"} \X Loggers)
Holds(x, up, low, vd, bad) == CASE x[1] = "clickhouse" -> ~up
                                [] x[1] = "space"      -> low
                                [] x[1] = "collect"    -> vd[x[2]] = "error"
                                [] x[1] = "defect"     -> x[2] \in bad

ASSUME PublishAssumption == Picks \subseteq Conditions

\* the bookkeeping of watch, a conjunct of every step
Watched == LET h == Holds(watch.x, dbUp', diskLow', verdict', defect') IN
           watch' = IF watch = None THEN None
                    ELSE [watch EXCEPT !.all = @ /\ h, !.any = @ \/ h]

Resting == [pc |-> "sleep", todo |-> {}, dev |-> None, dbOk |-> TRUE, reasons |-> {}]
Reasons(cond, x) == IF cond THEN cycle.reasons \cup {x} ELSE cycle.reasons

-----------------------------------------------------------------------------
\* collect: the ping.  A database that fails here is not asked again
Ping == /\ cycle.pc = "sleep"
        /\ cycle' = [pc |-> "space", todo |-> Loggers, dev |-> None, dbOk |-> dbUp,
                     reasons |-> IF dbUp THEN {} ELSE {<<"clickhouse", None>>}]
        /\ \/ Picks = {} /\ watch' = None
           \/ \E x \in Picks : LET h == Holds(x, dbUp, diskLow, verdict, defect)
                               IN  watch' = [x |-> x, all |-> h, any |-> h]
        /\ UNCHANGED <<world, retained, trigger, service>>

\* the archive's free space; an archive that cannot be read raises, the cycle
\* ends unpublished, and the loop of cmd_run goes on
Space == /\ cycle.pc = "space"
         /\ cycle' = [cycle EXCEPT !.pc = "beat", !.reasons = Reasons(diskLow, <<"space", None>>)]
         /\ UNCHANGED <<world, retained, trigger, service>> /\ Watched
SpaceFails == /\ cycle.pc = "space"
              /\ cycle' = Resting /\ watch' = None
              /\ UNCHANGED <<world, retained, trigger, service>>

\* mutant: the reasons of the cycle before are kept
PublishStateKeeps ==
    /\ cycle.pc = "beat" /\ cycle.todo = {}
    /\ retained' = cycle.reasons \cup (IF retained = None THEN {} ELSE retained)
    /\ cycle' = Resting /\ watch' = None
    /\ UNCHANGED <<world, trigger, service>>
\* _fleet: the heartbeat as it is on disk now, device after device
ReadBeat ==
    /\ cycle.pc = "beat"
    /\ \E d \in cycle.todo :
        cycle' = [cycle EXCEPT !.pc = IF cycle.dbOk THEN "status" ELSE "beat", !.dev = d, !.todo = @ \ {d},
                     !.reasons = Reasons(verdict[d] = "error", <<"collect", d>>)]
    /\ UNCHANGED <<world, retained, trigger, service>> /\ Watched

\* the decode tables of that device: device_status, then last_utc and
\* gaps_since; a database found gone at either is not asked again this cycle
ReadTables ==
    /\ cycle.pc \in {"status", "rest"}
    /\ cycle' = [cycle EXCEPT
            !.pc = IF dbUp /\ cycle.pc = "status" THEN "rest" ELSE "beat", !.dbOk = dbUp,
            !.reasons = IF dbUp THEN Reasons(cycle.pc = "status" /\ cycle.dev \in defect, <<"defect", cycle.dev>>)
                        ELSE @ \cup {<<"clickhouse", None>>}]
    /\ UNCHANGED <<world, retained, trigger, service>> /\ Watched

\* the vehicles' values (null when the database is gone, without a reason) and
\* the one retained message; the problem is ON iff there is a reason
PublishState ==
    /\ cycle.pc = "beat" /\ cycle.todo = {}
    /\ retained' = cycle.reasons /\ cycle' = Resting /\ watch' = None
    /\ UNCHANGED <<world, trigger, service>>

\* on_message: the button touches the trigger, and nothing else
OnMessage == /\ trigger' = TRUE
             /\ UNCHANGED <<world, cycle, retained, service>> /\ Watched

\* systemd: the timer or the trigger starts the service, which first removes
\* the trigger; one instance at a time, and it ends
ServiceStarts == /\ ~service /\ service' = TRUE /\ trigger' = FALSE
                 /\ UNCHANGED <<world, cycle, retained>> /\ Watched
ServiceEnds == /\ service /\ service' = FALSE
               /\ UNCHANGED <<world, cycle, retained, trigger>> /\ Watched

\* a fleet pass replaces a heartbeat; the disk fills, the database comes and
\* goes, the decoder finds and repairs defect chunks
WorldChanges ==
    /\ \/ \E d \in Loggers, v \in {"ok", "error"} :
              verdict' = [verdict EXCEPT ![d] = v] /\ UNCHANGED <<dbUp, diskLow, defect>>
       \/ diskLow' = ~diskLow /\ UNCHANGED <<dbUp, verdict, defect>>
       \/ dbUp' = ~dbUp /\ UNCHANGED <<diskLow, verdict, defect>>
       \/ \E d \in Loggers : defect' = (defect \ {d}) \cup ({d} \ defect) /\ UNCHANGED <<dbUp, diskLow, verdict>>
    /\ UNCHANGED <<cycle, retained, trigger, service>> /\ Watched

PublishInit == /\ dbUp = TRUE /\ diskLow = FALSE /\ defect = {} /\ verdict = [d \in Loggers |-> None]
        /\ cycle = Resting /\ retained = None /\ trigger = FALSE /\ service = FALSE /\ watch = None

PublishNext == \/ Ping \/ Space \/ SpaceFails \/ ReadBeat \/ ReadTables \/ PublishState
               \/ OnMessage \/ ServiceStarts \/ ServiceEnds \/ WorldChanges

\* cmd_run loops for ever and survives a bad cycle, and the archive is assumed
\* readable again and again; systemd starts the service while the trigger
\* exists, and every pass ends (Fleet kills the collector at timeout_s)
PublishFairness ==
    /\ WF_publishVars(Ping) /\ SF_publishVars(Space) /\ WF_publishVars(ReadBeat)
    /\ WF_publishVars(ReadTables) /\ WF_publishVars(PublishState)
    /\ WF_publishVars(ServiceStarts) /\ WF_publishVars(ServiceEnds)
PublishSpec == PublishInit /\ [][PublishNext]_publishVars /\ PublishFairness

-----------------------------------------------------------------------------
(* Properties *)
\* P4, over a cycle in which everything moves: a condition that held from the
\* first read to the message is among the published reasons (a defect behind a
\* database that is itself reported gone excepted), and every reason published
\* held at some moment of that cycle: no problem is missed, invented or left
\* over from an earlier cycle.
ProblemIsHonest ==
    [][retained' # retained /\ cycle.pc = "beat" /\ watch # None =>
         /\ watch.all => \/ watch.x \in retained'
                         \/ watch.x[1] = "defect" /\ <<"clickhouse", None>> \in retained'
         /\ watch.x \in retained' => watch.any]_publishVars

\* A defect the fleet recorded reaches Home Assistant unless a pass succeeded
\* first; nothing the database, the disk or the button does keeps it back.
ErrorReachesHome ==
    \A d \in Loggers : verdict[d] = "error" ~> \/ retained # None /\ <<"collect", d>> \in retained
                                               \/ verdict[d] = "ok"

\* P9: a press, also one in the middle of a pass, is consumed by a pass that
\* starts after it.
PressIsServed == trigger ~> ~trigger /\ service
=============================================================================
