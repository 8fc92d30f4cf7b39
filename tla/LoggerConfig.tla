----------------------------- MODULE LoggerConfig -----------------------------
(***************************************************************************)
(* components/sd_logger/__init__.py: who writes to the card and under what *)
(* name, the collection server and the recovery of a lost card, from the   *)
(* validation of the configuration to what the firmware and the reader of  *)
(* its files (script/sdlog.py) make of it.  recovery_policy.h is the       *)
(* ladder of retries that the configuration sets up.                       *)
(***************************************************************************)
EXTENDS Binary, Integers, Sequences

CONSTANTS
  TapPorts,        \* ports of the gateway; LogTapped of them have log_tap
  LogTapped,
  Tags,            \* tags of a producer, 0 .. CountMod - 1
  Labels,          \* labels an author writes
  DefaultLabel,    \* what a tapped port without one is called: C1, C2 ...
  Token,           \* what an undeclared tag reads as: U0, U1 ...
  DefaultSources,  \* entries of the source table unless more are declared (16)
  CountMod,        \* the table counts in a uint8_t
  MaxDeclared,     \* taps and sources of a configuration
  HttpPorts,
  Recoveries,      \* recovery blocks an author writes, with card_power_pin
  ClockMod,        \* millis() wraps
  MaxLag,          \* the writer looks at the clock at least so often
  MaxTries         \* attempts of an outage

VARIABLES
  sdl,      \* the configuration
  ladder,   \* RecoveryPolicy and the writer around it
  tried     \* (history) the attempts of the present outage

loggerConfigVars == <<sdl, ladder, tried>>

ASSUME LoggerConfigAssumption == CountMod \in Nat \ {0} /\ Tags = 0 .. CountMod - 1

(* The schema keeps every delay below half a turn of the clock (300 s in   *)
(* 2^31 ms), and the writer is never away so long.                         *)
ASSUME RecoveryAssumption ==
    /\ MaxLag \in Nat /\ ClockMod \in Nat /\ MaxLag < ClockMod \div 2
    /\ \A r \in Recoveries :
         /\ {r.delay, r.maxDelay, r.busy, r.maxBusy, r.budget} \subseteq Nat
         /\ r.maxDelay <= ClockMod \div 2
         /\ {r.enabled, r.pin, r.inBand} \subseteq BOOLEAN
         /\ r.power \in {<<>>, <<TRUE>>, <<FALSE>>}

-----------------------------------------------------------------------------
(* Producers.  A tap may leave its tag and its label to its position.      *)
TapTag(i) == IF sdl.taps[i].source = <<>> THEN i ELSE sdl.taps[i].source[1]
TapLabel(i) == IF sdl.taps[i].label = <<>> THEN DefaultLabel[i] ELSE sdl.taps[i].label[1]
Taps == [i \in DOMAIN sdl.taps |-> [tag |-> TapTag(i), kind |-> "C", label |-> TapLabel(i)]]
Declared == Taps \o sdl.sources

TapsOk ==
    /\ \A i, j \in DOMAIN sdl.taps : i # j => sdl.taps[i].port # sdl.taps[j].port
    /\ \A i \in DOMAIN sdl.taps : sdl.taps[i].port \in LogTapped
NamedOnce ==
    \A i, j \in DOMAIN Declared : i # j =>
        Declared[i].tag # Declared[j].tag /\ Declared[i].label # Declared[j].label

(* The table of the firmware, sized by code generation.  Its count wraps.  *)
TableSize == IF Len(Declared) > DefaultSources THEN Len(Declared) ELSE DefaultSources
SourceTable ==
    LET fits == IF Len(Declared) > TableSize THEN TableSize ELSE Len(Declared)
    IN  SubSeq(Declared, 1, fits % CountMod)
FindSource(table, tag) ==     \* <<>> or the first entry of the tag
    LET at == {i \in DOMAIN table : table[i].tag = tag}
    IN  IF at = {} THEN <<>> ELSE <<table[CHOOSE i \in at : \A j \in at : i <= j]>>

(* The header states the taps, then the entries of the table whose tag no  *)
(* tap has; a record carries its tag and the letter of its kind; the       *)
(* reader takes the name from the header, or the record's own token.       *)
HeaderLine(tag) ==     \* <<>> or the first line of the tag
    LET tap == FindSource(Taps, tag)
    IN  IF tap # <<>> THEN tap ELSE FindSource(SourceTable, tag)
RecordKind(tag) ==
    LET e == FindSource(SourceTable, tag) IN IF e = <<>> THEN "U" ELSE e[1].kind
ShownAs(tag) ==
    LET e == HeaderLine(tag) IN IF e = <<>> THEN Token[tag] ELSE e[1].label

(* sd_logger.log names its source by tag or by a declared label.           *)
ResolveSource(label) ==
    LET at == {i \in DOMAIN Declared : Declared[i].label = label}
    IN  IF at = {} THEN <<>> ELSE <<Declared[CHOOSE i \in at : \A j \in at : i <= j].tag>>

-----------------------------------------------------------------------------
(* Collection: the rules for a server bind where the block asks for one;   *)
(* the firmware starts it on serve alone (setup(), set_collection()).      *)
CollectionOk ==
    \A i \in DOMAIN sdl.collection :
        LET c == sdl.collection[i]
        IN  c.enabled /\ c.serve => sdl.wifi /\ c.port \notin sdl.web
ServerStarts == \E i \in DOMAIN sdl.collection : sdl.collection[i].serve

RecoveryOk ==
    LET r == sdl.recovery IN
    /\ r.power = <<TRUE>> => r.pin
    /\ r.maxDelay >= r.delay /\ r.maxBusy >= r.busy
PowerCycles == IF sdl.recovery.power = <<>> THEN sdl.recovery.pin ELSE sdl.recovery.power[1]

SdLoggerOk == TapsOk /\ NamedOnce /\ CollectionOk /\ RecoveryOk

-----------------------------------------------------------------------------
(* The ladder.  Past is decided by the sign of the difference of the two.  *)
Idle == [state |-> "idle", attempts |-> 0, delay |-> sdl.recovery.delay, deadline |-> 0,
         busy |-> sdl.recovery.busy]
Past(now, t) == (now - t) % ClockMod < ClockMod \div 2
(* Mutant: the two times are compared as they are.                         *)
DueDirect(l) == l.state = "waiting" /\ l.now >= l.deadline
Due(l) == l.state = "waiting" /\ Past(l.now, l.deadline)
Twice(x, cap) == IF x >= cap \div 2 THEN cap ELSE 2 * x

With(l, r) == [f \in DOMAIN l |-> IF f \in DOMAIN r THEN r[f] ELSE l[f]]
Arm(l) == IF ~l.on \/ l.state # "idle" THEN l
          ELSE [l EXCEPT !.state = "waiting", !.delay = sdl.recovery.delay,
                         !.deadline = (l.now + sdl.recovery.delay) % ClockMod, !.since = 0]
NoteAttempt(l) ==
    LET r == sdl.recovery
        n == l.attempts + 1
        next == Twice(l.delay, r.maxDelay)
    IN  IF r.budget # 0 /\ n >= r.budget THEN [l EXCEPT !.attempts = n, !.state = "exhausted"]
        ELSE [l EXCEPT !.attempts = n, !.delay = next, !.deadline = (l.now + next) % ClockMod,
                       !.busy = IF n > 2 THEN Twice(@, r.maxBusy) ELSE @, !.since = 0]
ResetDue(l) == sdl.recovery.inBand /\ l.attempts >= 2

(* Boot: set_recovery(), and the card mounts or does not.                  *)
StartLogger ==
    /\ ladder.card = "off" /\ SdLoggerOk /\ Declared = <<>> /\ sdl.collection = <<>>
    /\ \E now \in 0 .. ClockMod - 1, mounts \in BOOLEAN :
         LET l == With([ladder EXCEPT !.now = now, !.on = sdl.recovery.enabled], Idle)
         IN  ladder' = IF mounts THEN [l EXCEPT !.card = "logging"]
                       ELSE Arm([l EXCEPT !.card = "lost"])
    /\ UNCHANGED <<sdl, tried>>

(* enter_failed_(): a file is lost; a refusal the card never saw is final. *)
LoseFile ==
    /\ ladder.card = "logging"
    /\ \/ ladder' = Arm([ladder EXCEPT !.card = "lost"])
       \/ ladder' = [ladder EXCEPT !.card = "stopped"]
    /\ UNCHANGED <<sdl, tried>>

(* Time passes; the writer is never away for half a turn of the clock.     *)
PassTime ==
    /\ ladder.card = "lost" /\ ladder.state = "waiting"
    /\ ~Past(ladder.now, (ladder.deadline + MaxLag) % ClockMod)
    /\ ladder' = [ladder EXCEPT !.now = (@ + 1) % ClockMod, !.since = @ + 1]
    /\ UNCHANGED <<sdl, tried>>

(* The writer's pass: note_attempt(), then try_recover_(), which takes its *)
(* time; a card that comes back, to write on or only to read, clears the   *)
(* ladder.                                                                 *)
AttemptRecovery ==
    /\ ladder.card = "lost" /\ Due(ladder) /\ Len(tried) < MaxTries
    /\ LET l == NoteAttempt(ladder)
           try == [wait |-> ladder.since, reset |-> ResetDue(l), busy |-> l.busy,
                   power |-> PowerCycles /\ sdl.recovery.pin]
       IN  \/ \E back \in {"logging", "readonly"} :
                ladder' = With([l EXCEPT !.card = back], Idle) /\ tried' = <<>>
           \/ \E took \in 0 .. MaxLag :
                /\ ladder' = [l EXCEPT !.now = (@ + took) % ClockMod, !.since = @ + took]
                /\ tried' = Append(tried, try)
    /\ UNCHANGED sdl

(* Shutdown or emergency close: disable().                                 *)
StopLogger ==
    /\ ladder.card \in {"logging", "lost"}
    /\ ladder' = With([ladder EXCEPT !.on = FALSE, !.card = "closed"], Idle) /\ tried' = <<>>
    /\ UNCHANGED sdl

-----------------------------------------------------------------------------
(* The author: producers, or a collection block, or a recovery block.      *)
BeforeBoot == sdl.collection = <<>> /\ ladder.card = "off"
AddTap == \E p \in TapPorts, t \in {<<>>} \cup {<<n>> : n \in Tags \ {0}},
             l \in {<<>>} \cup {<<x>> : x \in Labels} :
    sdl' = [sdl EXCEPT !.taps = Append(@, [port |-> p, source |-> t, label |-> l])]
AddSource == \E t \in Tags, k \in {"C", "L", "U"}, l \in Labels :
    sdl' = [sdl EXCEPT !.sources = Append(@, [tag |-> t, kind |-> k, label |-> l])]
SetCollection == \E e, s, w \in BOOLEAN, p \in HttpPorts, web \in SUBSET HttpPorts :
    /\ Declared = <<>>
    /\ sdl' = [sdl EXCEPT !.collection = <<[enabled |-> e, serve |-> s, port |-> p]>>,
                          !.wifi = w, !.web = web]

Configure ==
    /\ BeforeBoot /\ Len(Declared) < MaxDeclared
    /\ AddTap \/ AddSource \/ SetCollection
    /\ UNCHANGED <<ladder, tried>>

LoggerConfigInit ==
    /\ \E r \in Recoveries :
         sdl = [taps |-> <<>>, sources |-> <<>>, collection |-> <<>>, wifi |-> FALSE, web |-> {},
                recovery |-> r]
    /\ ladder = [state |-> "idle", attempts |-> 0, delay |-> 0, deadline |-> 0, busy |-> 0,
                 on |-> FALSE, card |-> "off", now |-> 0, since |-> 0]
    /\ tried = <<>>

RunLogger == StartLogger \/ LoseFile \/ PassTime \/ AttemptRecovery \/ StopLogger
LoggerConfigNext == RunLogger \/ Configure

-----------------------------------------------------------------------------
(* Every record reads under the name of its producer: each declared one    *)
(* under its own label, by its kind, whether a tap or an action wrote it,  *)
(* and no two tags under one name, unless a label imitates the token of a  *)
(* tag nobody declared (sdlog.py:447-459).  A table of 256 entries would   *)
(* count to 0 (log_format.h:219-247).                                      *)
Complete == Len(Declared) < CountMod
ProducersKeepTheirNames ==
    TapsOk /\ NamedOnce /\ Complete =>
        /\ \A i \in DOMAIN Declared :
              LET d == Declared[i]
              IN  ShownAs(d.tag) = d.label /\ RecordKind(d.tag) = d.kind
                  /\ ResolveSource(d.label) = <<d.tag>>
                  /\ \A t \in Tags \ {d.tag} : ShownAs(t) = d.label => d.label = Token[t]

(* The server of an enabled block has an interface and a port of its own.  *)
ServerHasItsPort ==
    SdLoggerOk /\ ServerStarts /\ sdl.collection[1].enabled =>
        sdl.wifi /\ sdl.collection[1].port \notin sdl.web

(* What the schema says of a block that is declared and down: "nothing is  *)
(* indexed, retained or served" (__init__.py:690-692).  It is served.      *)
ParkedIsClosed == SdLoggerOk /\ ServerStarts => sdl.collection[1].enabled

(* In an outage the waits and the patience with the card never shrink nor  *)
(* pass their limit, each wait is at least what the ladder says, the card  *)
(* is talked to only from the second attempt on, its supply is cut only    *)
(* where there is a switch, and the budget is kept, across a wrap of the   *)
(* clock and however long an attempt takes (recovery_policy.h:45-135).     *)
Least(a, b) == IF a < b THEN a ELSE b
LadderNeverStepsBack ==
    LET r == sdl.recovery IN
    \A i \in DOMAIN tried :
        /\ tried[i].wait >= Least(r.delay * Pow2[i - 1], r.maxDelay)
        /\ tried[i].wait <= r.maxDelay + 2 * MaxLag
        /\ tried[i].reset = (r.inBand /\ i >= 2) /\ (tried[i].power => r.pin)
        /\ r.busy <= tried[i].busy /\ tried[i].busy <= r.maxBusy
        /\ i > 1 => tried[i - 1].busy <= tried[i].busy
        /\ r.budget # 0 => i <= r.budget

(* A lost card is never forgotten: with recovery on, a try is due within   *)
(* the longest delay, or the budget is spent; a card in use has no ladder. *)
LostIsRetried ==
    /\ ladder.card = "lost" /\ sdl.recovery.enabled =>
         \/ ladder.state = "exhausted" /\ Len(tried) = sdl.recovery.budget
         \/ /\ ladder.state = "waiting"
            /\ Due(ladder) \/ (ladder.deadline - ladder.now) % ClockMod <= sdl.recovery.maxDelay
    /\ ladder.card # "lost" => ladder.state = "idle"

(* An accepted logger block is the logger its author wrote down.           *)
AcceptedLoggerWorks ==
    ProducersKeepTheirNames /\ ServerHasItsPort /\ LadderNeverStepsBack /\ LostIsRetried
=============================================================================
