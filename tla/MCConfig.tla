------------------------------- MODULE MCConfig -------------------------------
(***************************************************************************)
(* For TLC, what is computed off the device: a factory database compiled   *)
(* into a catalog, the catalog written to flash and read back, the gateway *)
(* and the logger turned into code, and logged diagnostics read with the   *)
(* catalog.  A behaviour is one of them (task) and leaves the others in an *)
(* initial state.                                                          *)
(***************************************************************************)
EXTENDS CatalogFormat, CatalogCompiler, GatewayConfig, LoggerConfig, UdsLog

(* Every name collides, except the empty string.                           *)
MCHash == [x \in {"a", "b", "e", "", "on"} |-> IF x = "" THEN 0 ELSE 1]
MCRequests == {<<34, 1>>, <<34>>}

Row(low, high, text) == [low |-> low, high |-> high, text |-> text, invalid |-> FALSE]
Shape(pos, count, stride, scales) ==
    [pos |-> pos, size |-> 8, count |-> count, stride |-> stride, block |-> FALSE,
     unit |-> "", scales |-> scales]
MCShapes == {Shape(0, 1, 0, <<Row(0, 9, "on"), Row(0, 9, "")>>),
             Shape(8, 2, 8, <<Row(0, 9, "")>>)}

(* Fields of a run x, numbered 1 to 3 or not at all; two of them are dumps,*)
(* of which one is wider than the format holds.                            *)
Prep(stem, no, pres, size) == [svc |-> [stem |-> stem, no |-> no], pres |-> pres, size |-> size]
MCPreps == {Prep("x", -1, "p", 1), Prep("x", 1, "p", 1), Prep("x", 2, "p", 1),
            Prep("x", 3, "q", 3), Prep("x", 1, "q", 4)}

(* Conversion rows with bounds of both signs: no bounds, linear, a text.   *)
Conv(low, high, text, invalid, value) ==
    [low |-> low, high |-> high, text |-> text, invalid |-> invalid, value |-> value]
MCRows == {Conv(0, 0, "", FALSE, 1), Conv(0, 3, "", FALSE, 1), Conv(1, -1, "", FALSE, 2),
           Conv(-4, -1, "", FALSE, 2), Conv(2, 2, "sna", TRUE, 3), Conv(2, -1, "sna", TRUE, 3),
           Conv(-1, -1, "sna", TRUE, 3), Conv(1, 1, "on", FALSE, 4)}

(* Chips with one, two and three controllers, and one with the newer HAL.  *)
Chip(n, fd) == [controllers |-> n, fd |-> fd]
MCVariants == [s3 |-> Chip(1, FALSE), c6 |-> Chip(2, FALSE), p4 |-> Chip(3, FALSE),
               c5 |-> Chip(2, TRUE)]
Port(id, listen, selfTest, log, logTx, depth, frames) ==
    [id |-> id, listen |-> listen, selfTest |-> selfTest, log |-> log, logTx |-> logTx,
     depth |-> depth, observe |-> 4, frames |-> frames]
MCPorts == {Port("p", FALSE, FALSE, FALSE, FALSE, 1, <<>>), Port("q", FALSE, TRUE, TRUE, TRUE, 5, <<4>>),
            Port("q", TRUE, FALSE, FALSE, FALSE, 1, <<>>), Port("q", TRUE, TRUE, TRUE, FALSE, 1, <<>>),
            Port("r", FALSE, FALSE, FALSE, TRUE, 1, <<>>), Port("r", FALSE, FALSE, FALSE, FALSE, 1, <<5>>),
            Port("r", FALSE, FALSE, FALSE, FALSE, 1, <<>>)}
Positions1 == {<<>>} \cup {<<[at |-> a, len |-> l]>> : a \in 0 .. 2, l \in 1 .. 3}
MCSensors ==
    [byte : Positions1, bit : Positions1, big : BOOLEAN, signed : BOOLEAN,
     sna : {<<>>, <<"all_ones">>} \cup {<<"raw", v>> : v \in {1, 7}}]

MCMasks == {{0}, {0, 1}}
MCSignalValues == {-1, 0, 2, 5}

(* Ladders with and without a switch, some the validation refuses.         *)
Ladder(enabled, delay, maxDelay, budget, power, pin, inBand, busy, maxBusy) ==
    [enabled |-> enabled, delay |-> delay, maxDelay |-> maxDelay, budget |-> budget,
     power |-> power, pin |-> pin, inBand |-> inBand, busy |-> busy, maxBusy |-> maxBusy]
MCRecoveries ==
    {Ladder(TRUE, 1, 4, 0, <<>>, TRUE, TRUE, 1, 3), Ladder(TRUE, 2, 3, 3, <<FALSE>>, TRUE, TRUE, 2, 2),
     Ladder(TRUE, 1, 2, 2, <<>>, FALSE, FALSE, 1, 4), Ladder(TRUE, 3, 2, 0, <<>>, FALSE, TRUE, 1, 2),
     Ladder(TRUE, 1, 1, 0, <<TRUE>>, FALSE, TRUE, 1, 1), Ladder(TRUE, 1, 2, 0, <<TRUE>>, TRUE, TRUE, 2, 1),
     Ladder(FALSE, 1, 2, 0, <<TRUE>>, TRUE, TRUE, 1, 1)}
MCDefaultLabel == <<"C1", "C2", "C3">>
MCTags == 0 .. 2
MCToken == [t \in MCTags |-> <<"U0", "U1", "U2">>[t + 1]]

VARIABLE task

configVars == <<catVars, compilerVars, gatewayVars, loggerConfigVars, udsLogVars, task>>

ConfigInit ==
    /\ CatInit /\ CompilerInit /\ GatewayInit /\ LoggerConfigInit /\ UdsLogInit
    /\ task \in {"catalog", "compiler", "rule", "node", "names", "card", "log"}
    /\ task = "rule" \/ rule = Plain(FALSE, {}, <<>>, FALSE, FALSE)
    /\ task = "node" \/ node.variant = "c6"
    /\ task = "card" \/ sdl.recovery = Ladder(TRUE, 1, 4, 0, <<>>, TRUE, TRUE, 1, 3)

Format(A) ==
    task = "catalog" /\ A /\ UNCHANGED <<compilerVars, gatewayVars, loggerConfigVars, udsLogVars, task>>
Compiler(A) ==
    task = "compiler" /\ A /\ UNCHANGED <<catVars, gatewayVars, loggerConfigVars, udsLogVars, task>>
Gateway(t, A) ==
    task = t /\ A /\ UNCHANGED <<catVars, compilerVars, loggerConfigVars, udsLogVars, task>>
Logger(t, A) ==
    task = t /\ A /\ UNCHANGED <<catVars, compilerVars, gatewayVars, udsLogVars, task>>
Log(A) == task = "log" /\ A /\ UNCHANGED <<catVars, compilerVars, gatewayVars, loggerConfigVars, task>>

ConfigNext ==
    \/ Format(CatNext)
    \/ Compiler(CompilerNext)
    \/ Gateway("rule", RuleNext /\ live = <<>> /\ UNCHANGED <<node, live, said, played>>)
    \/ Gateway("rule", RuleActions)
    \/ Gateway("node", Assemble)
    \/ Logger("names", Configure)
    \/ Logger("card", RunLogger)
    \/ Log(UdsLogNext)

ConfigSpec == ConfigInit /\ [][ConfigNext]_configVars

-----------------------------------------------------------------------------
(* A configuration the validation lets through does on the device what its *)
(* author wrote: a rule changes the bits it declares, the gateway has the  *)
(* slots and the ports it transmits with, a decode sensor reads its field, *)
(* the logger writes each producer under its name and climbs its ladder of *)
(* retries.                                                                *)
AcceptedConfigWorks == AcceptedGatewayWorks /\ AcceptedLoggerWorks
=============================================================================
