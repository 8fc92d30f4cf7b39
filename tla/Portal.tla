---- MODULE Portal ----
(***************************************************************************)
(* The portal on the device: the main loop samples the bound entities and  *)
(* performs queued actions, the web server's task copies the samples under *)
(* the mutex and writes the envelope from the copy, and validates and      *)
(* queues actions (components/portal/portal.cpp, portal_core.h).           *)
(*                                                                         *)
(* An entity's state is an input of the loop pass that samples it, except  *)
(* the sources of absent_when, which are read live, outside the mutex.     *)
(* seq is kept only as far as a client can tell: whether the body it holds *)
(* has the current seq (the wrap of 2^32 changes is out of reach).         *)
(***************************************************************************)
EXTENDS PortalConfig

CONSTANTS Configs,    \* the configurations tried
          Sources,    \* the entities absent_when reads
          Readings,   \* what a sensor can read; NaN among them
          Texts,      \* what a text sensor can read; "long" overflows
          Bodies      \* what a POST can carry

\* What the schema of an entry lets through (identifiers are not empty, decimals at most 6), and
\* what the entities' own schemas do (ESPHome's select has options, its number min <= max).
ValueFormed(v) ==
    /\ v.key # "" /\ v.entities \subseteq {"sensor", "text_sensor", "binary_sensor"}
    /\ v.cadence \subseteq Nat /\ \A x, y \in v.cadence : x = y
ActionFormed(a) ==
    /\ a.decimals \subseteq 0 .. 6
    /\ a.control = "select" => a.options # {}
    /\ a.control = "number" => {a.min, a.max} \subseteq Int /\ a.min <= a.max /\ a.step \in Nat
NodeFormed(tree, n) ==
    LET node == tree[n] IN
    /\ node.parent \in 0 .. n - 1 /\ node.budget \in Int
    /\ "" \notin node.absent \cup {u.why : u \in node.unknown_when}
    /\ node.values \in Seq(Range(node.values)) /\ \A v \in Range(node.values) : ValueFormed(v)
    /\ \A a \in Range(node.actions) : ActionFormed(a)

\* The tree of a configuration, the values of a node and the owned ids are lists.
ASSUME PortalAssumption ==
    \A c \in Configs :
        /\ c.tree \in Seq(Range(c.tree)) /\ \A n \in DOMAIN c.tree : NodeFormed(c.tree, n)
        /\ c.owns \in Seq(Range(c.owns))

NaN == 9

VARIABLES config,   \* the configuration the device was built from
          table,    \* the node table generated from it
          on,       \* source -> it is on (switch_off: absent while it is not)
          sampled,  \* the loop has sampled at least once
          vals,     \* samples_: node -> value -> [has, num, text, age]
          acts,     \* action_samples_: node -> action -> [enabled, value]
          rt,       \* action_rt_: node -> action -> [result, pending, value]
          have,     \* have_fingerprint_
          seen,     \* the absent_when verdicts in the last fingerprint
          loop,     \* the action the loop is performing, <<>> when none
          owed,     \* the actions accepted and not yet performed
          req,      \* the copy the web server's task is writing from
          client    \* what the client's body of the current seq shows, if it has one

vars == <<config, table, on, sampled, vals, acts, rt, have, seen, loop, owed, req, client>>

Kind(v) == Opt(v.entities)
NoSample == [has |-> FALSE, num |-> 0, text |-> "", age |-> 0]
NoResult == [state |-> None, code |-> None, value |-> Null]
IdleAction == [result |-> NoResult, pending |-> FALSE, value |-> Null]
ActionRefs == UNION {{<<n, k>> : k \in DOMAIN table[n].actions} : n \in DOMAIN table}
NotHeld == [keyed |-> FALSE, body |-> <<>>]

-----------------------------------------------------------------------------
(* Verdicts                                                                *)

ClassifyValue(v, s, budget) ==
    IF ~s.has \/ (Kind(v) = "sensor" /\ s.num = NaN)
        THEN [class |-> "sna", state |-> "absent", code |-> "value_not_available"]
    ELSE IF Kind(v) = "text_sensor" /\ s.text = "long"
        THEN [class |-> "sna", state |-> "degraded", code |-> "value_not_available"]
    ELSE IF budget # NoBudget /\ Kind(v) # "binary_sensor" /\ s.age > budget
        THEN [class |-> "real", state |-> "stale", code |-> "stale_data"]
    ELSE [class |-> "real", state |-> "ok", code |-> ""]

BoundHit(bounds, x) ==
    \E b \in bounds : (\E y \in b.below : x < y) \/ (\E y \in b.above : x > y)

\* limit_hit(): the level of a reading, bad before warn.
Level(v, s) ==
    LET hit(bounds, when) == IF Kind(v) = "binary_sensor" THEN s.num \in when
                             ELSE BoundHit(bounds, s.num)
    IN IF \/ v.warn \cup v.bad = {} /\ v.warn_when \cup v.bad_when = {}
          \/ Kind(v) = "text_sensor" \/ ~s.has
          \/ Kind(v) = "sensor" /\ s.num = NaN THEN None
       ELSE IF hit(v.bad, v.bad_when) THEN "bad"
       ELSE IF hit(v.warn, v.warn_when) THEN "warn" ELSE "ok"

\* worst_limit(): the node's first value at bad, else its first at warn, else 0.
WorstLimit(node, ss) ==
    LET at(level) == {k \in DOMAIN node.values : Level(node.values[k], ss[k]) = level}
        first(ks) == CHOOSE k \in ks : \A j \in ks : k <= j
    IN IF at("bad") # {} THEN first(at("bad"))
       ELSE IF at("warn") # {} THEN first(at("warn")) ELSE 0

NotRequested(node, ss) ==
    node.on_demand /\ node.values # <<>> /\ \A k \in DOMAIN ss : ~ss[k].has

\* find_value(): the first value of that key.
FindValue(node, key) ==
    {k \in DOMAIN node.values : /\ node.values[k].key = key
                                /\ \A j \in 1 .. k - 1 : node.values[j].key # key}

\* It is a live text reading, whole, and reads this.
Reads(node, ss, key, text) ==
    \E k \in FindValue(node, key) :
        Kind(node.values[k]) = "text_sensor" /\ ss[k].has /\ ss[k].text = text

UnknownWhenMatches(node, ss) ==
    \E u \in node.unknown_when : Reads(node, ss, u.value, u.equals)
TrustConfirmed(node, ss) ==
    \E key \in node.trust_from : Reads(node, ss, key, "CONFIRMED")

IsAbsent(node) ==
    node.absent_why # {} /\ (node.absent_fn = {} \/ \E src \in node.absent_fn : ~on[src])

Verdicts(node, ss) ==
    {ClassifyValue(node.values[k], ss[k], node.budget) : k \in DOMAIN node.values}

OwnState(node, ss) ==
    IF IsAbsent(node) THEN "absent"
    ELSE IF UnknownWhenMatches(node, ss) \/ NotRequested(node, ss) THEN "unknown"
    ELSE IF (\E r \in Verdicts(node, ss) : r.class = "sna") \/ WorstLimit(node, ss) # 0
        THEN "degraded"
    ELSE IF \E r \in Verdicts(node, ss) : r.state = "stale" THEN "stale" ELSE "ok"

\* A child's trouble degrades a parent that is ok or stale, unless it was never asked for.
Settle(tree, own, idle) ==
    LET troubles(m, state) == state # "ok" /\ ~(state = "unknown" /\ m \in idle)
        final[n \in DOMAIN tree] ==
            IF /\ own[n] \in {"ok", "stale"}
               /\ \E m \in DOMAIN tree : tree[m].parent = n /\ troubles(m, final[m])
            THEN "degraded" ELSE own[n]
    IN final

Resolve(ss) ==
    Settle(table, [n \in DOMAIN table |-> OwnState(table[n], ss[n])],
           {n \in DOMAIN table : NotRequested(table[n], ss[n])})

NodeAge(node, ss) ==
    LET ages == {ss[k].age : k \in {j \in DOMAIN ss : ss[j].has}}
        oldest(set) == IF set = {} THEN NoAge ELSE CHOOSE a \in set : \A b \in set : b <= a
    IN IF IsAbsent(node) THEN NoAge
       ELSE IF UnknownWhenMatches(node, ss)
           THEN oldest({ss[k].age : k \in FindValue(node, Opt(node.unknown_when).value)})
       ELSE IF NotRequested(node, ss) THEN NoAge ELSE oldest(ages)

-----------------------------------------------------------------------------
(* The envelope                                                            *)

\* describe_node_reason() and its evidence.
NodeWhy(node, ss, state) ==
    LET because(code, evidence) == [code |-> code, evidence |-> evidence]
        worst == WorstLimit(node, ss)
    IN IF state = "ok" THEN NoWhy
       ELSE IF state = "absent" THEN because(Opt(node.absent_why), node.absent_evidence)
       ELSE IF UnknownWhenMatches(node, ss) THEN because(Opt(node.unknown_when).why, {})
       ELSE IF state = "unknown" THEN because("not_requested", {})
       ELSE IF \E r \in Verdicts(node, ss) : r.class = "sna"
           THEN because("entities_unavailable", {})
       ELSE IF worst # 0
           THEN because("limit", {<<"value", node.values[worst].key>>,
                                  <<"level", Level(node.values[worst], ss[worst])>>})
       ELSE IF \E r \in Verdicts(node, ss) : r.state = "stale" THEN because("stale_data", {})
       ELSE because("child_degraded", {})

\* Until the first sample the keys and labels of the values are empty strings.
WriteValue(v, s, budget, keyed) ==
    LET verdict == ClassifyValue(v, s, budget) IN
    [key |-> IF keyed THEN v.key ELSE "", label |-> IF keyed THEN "label" ELSE "",
     level |-> Level(v, s), class |-> verdict.class,
     value |-> IF verdict.class = "sna" THEN Null
               ELSE CASE Kind(v) = "sensor" -> Json("number", s.num, "")
                      [] Kind(v) = "text_sensor" -> Json("string", 0, s.text)
                      [] OTHER -> Json("bool", s.num, ""),
     state |-> verdict.state,
     why |-> IF verdict.state = "ok" THEN NoWhy ELSE [code |-> verdict.code, evidence |-> {}]]

IdentityComplete == config.identity = {"board", "node_id", "mac"}

\* A strict ancestor of a node the configuration says the board owns.
IsSkeletonNode(n) ==
    \E o \in Range(config.owns) : \E m \in Subtree(table, n) \ {n} :
        table[m].id = o /\ \A j \in 1 .. m - 1 : table[j].id # o

WriteProvenance(n, ss) ==
    IF IsSkeletonNode(n) THEN NoProvenance
    ELSE [board |-> IF "board" \in config.identity THEN "board" ELSE None,
          age |-> NodeAge(table[n], ss), budget |-> table[n].budget,
          trust |-> IF TrustConfirmed(table[n], ss) THEN "confirmed" ELSE "assumed"]

\* An element as the callback answered it: only r and i with a value are kept with one.
WriteElement(raw) ==
    [cls |-> IF ~raw.answered \/ raw.cls \notin {"r", "s", "i"} \/ (raw.cls # "s" /\ ~raw.has)
             THEN "-" ELSE raw.cls,
     value |-> IF raw.answered /\ raw.cls \in {"r", "i"} /\ raw.has
               THEN Json("number", 1, "") ELSE Null]

NodeEmitsSeries(n, state) == table[n].series # {} /\ state # "absent"

\* number_float(): thousandths printed with that many decimals, the magnitude rounded half up.
POW10 == <<1, 10, 100, 1000, 10000, 100000, 1000000>>
Printed(x, decimals) ==
    LET scaled(magnitude) == (magnitude * POW10[decimals + 1] + 500) \div 1000
    IN IF x < 0 THEN -scaled(-x) ELSE scaled(x)
Decimals(a) == IF a.decimals = {} THEN 2 ELSE Opt(a.decimals)

WriteAction(node, a, sample, result, keyed) ==
    LET enabled == sample.enabled \/ a.control \in {"switch", "button"}
        number(x) == IF a.control = "number" /\ keyed
                     THEN Json("number", Printed(x, Decimals(a)), "") ELSE Null
    IN [key |-> a.key, path |-> <<node.id, a.key>>, control |-> a.control,
        enabled |-> enabled,
        why |-> IF enabled THEN NoWhy ELSE [code |-> "entity_unavailable", evidence |-> {}],
        value |-> sample.value, options |-> a.options,
        min |-> number(1000 * a.min), max |-> number(1000 * a.max), step |-> number(a.step),
        result |-> result]

WriteNode(n, parent, copy, states, raws) ==
    LET node == table[n] ss == copy.vals[n] IN
    [id |-> node.id, parent |-> parent, state |-> states[n],
     why |-> NodeWhy(node, ss, states[n]), provenance |-> WriteProvenance(n, ss),
     values |-> [k \in DOMAIN ss |-> WriteValue(node.values[k], ss[k], node.budget, copy.keyed)],
     series |-> IF NodeEmitsSeries(n, states[n])
                THEN [key |-> "series", elements |-> [i \in DOMAIN raws |-> WriteElement(raws[i])]]
                ELSE [key |-> None, elements |-> <<>>],
     actions |-> [k \in DOMAIN node.actions |->
                    WriteAction(node, node.actions[k], copy.acts[n][k], copy.results[n][k],
                                copy.keyed)],
     role |-> IF node.role = {} THEN None ELSE Opt(node.role), roles |-> node.roles]

WriteServedBy ==
    [board |-> IF IdentityComplete THEN "board" ELSE None,
     state |-> IF IdentityComplete THEN "ok" ELSE "unknown",
     why |-> IF IdentityComplete THEN NoWhy ELSE [code |-> "no_identity", evidence |-> {}],
     owns |-> IF IdentityComplete THEN Range(config.owns) ELSE {}]

\* The nearest strict ancestor that declares a role.
WriteAncestorRole(root) ==
    LET up[n \in 0 .. Len(table)] ==
            IF n = 0 THEN <<>> ELSE IF table[n].role # {} THEN table[n].id ELSE up[table[n].parent]
    IN up[table[root].parent]

\* The positions in pre-order, and a position's place in it.
Place(served, n) == Cardinality({m \in served : m <= n})
InOrder(served) ==
    [i \in 1 .. Cardinality(served) |-> CHOOSE n \in served : Place(served, n) = i]

\* The envelope of the copy, narrowed to the subtree of position root unless path is empty.
WriteEnvelope(copy, path, raws) ==
    LET root == IF path = <<>> THEN 1
                ELSE CHOOSE n \in DOMAIN table :
                        table[n].id = path /\ \A m \in 1 .. n - 1 : table[m].id # path
        served == Subtree(table, root)
        order == InOrder(served)
        at(n) == IF n = root THEN 0 ELSE Place(served, table[n].parent)
        states == Resolve(copy.vals)
    IN [path |-> path, servedBy |-> WriteServedBy,
        legend |-> \E n \in served : NodeEmitsSeries(n, states[n]),
        ancestorRole |-> IF path = <<>> THEN <<>> ELSE WriteAncestorRole(root),
        tree |-> [i \in DOMAIN order |-> WriteNode(order[i], at(order[i]), copy, states, raws)]]
-----------------------------------------------------------------------------
(* The fingerprint, and what a client sees of a body                       *)

\* mutant: a reading that only grew old does not move it
FingerprintOfReadings(vs, as, results, absent) ==
    [readings |-> [n \in DOMAIN table |-> [k \in DOMAIN vs[n] |-> [vs[n][k] EXCEPT !.age = 0]]],
     absent |-> absent, actions |-> as, results |-> results]
FingerprintOf(vs, as, results, absent) ==
    [verdicts |-> [n \in DOMAIN table |-> [k \in DOMAIN vs[n] |->
                     ClassifyValue(table[n].values[k], vs[n][k], table[n].budget).state]],
     readings |-> [n \in DOMAIN table |-> [k \in DOMAIN vs[n] |-> [vs[n][k] EXCEPT !.age = 0]]],
     absent |-> absent, actions |-> as,
     results |-> [n \in DOMAIN table |-> [k \in DOMAIN results[n] |->
                    <<results[n][k].state, results[n][k].code>>]]]

AbsentNow == {n \in DOMAIN table : table[n].absent_fn # {} /\ IsAbsent(table[n])}
Results(runtime) == [n \in DOMAIN table |-> [k \in DOMAIN runtime[n] |-> runtime[n][k].result]]

\* What a body shows, ages and the value of a result left out: the nodes' own states too, unless
\* a node's presence is read live.
Shown(env, live) ==
    [i \in DOMAIN env.tree |->
        LET node == env.tree[i] IN
        [state |-> IF live THEN None ELSE node.state, why |-> IF live THEN NoWhy ELSE node.why,
         values |-> node.values,
         actions |-> [k \in DOMAIN node.actions |->
                        [node.actions[k] EXCEPT !.result.value = Null]]]]

Live == \E n \in DOMAIN table : table[n].absent_fn # {}
Copy == [on |-> TRUE, vals |-> vals, acts |-> acts, results |-> Results(rt), keyed |-> sampled,
         current |-> TRUE]
NoCopy == [on |-> FALSE]

-----------------------------------------------------------------------------
(* Steps                                                                   *)

Init ==
    /\ config \in {c \in Configs : Accepted(c)}
    /\ table = NodeTable(config)
    /\ on \in [Sources -> BOOLEAN]
    /\ sampled = FALSE
    /\ vals = [n \in DOMAIN table |-> [k \in DOMAIN table[n].values |-> NoSample]]
    /\ acts = [n \in DOMAIN table |-> [k \in DOMAIN table[n].actions |->
                 [enabled |-> TRUE, value |-> Null]]]
    /\ rt = [n \in DOMAIN table |-> [k \in DOMAIN table[n].actions |-> IdleAction]]
    /\ have = FALSE
    /\ seen = {}
    /\ loop = <<>>
    /\ owed = {}
    /\ req = NoCopy
    /\ client = NotHeld

\* update_seq_locked_(): when the fingerprint moved, no body has the current seq any more.  The
\* first fingerprint only sets the reference.
UpdateSeq(vs, as, runtime) ==
    LET moved == /\ have
                 /\ FingerprintOf(vs, as, Results(runtime), AbsentNow)
                        # FingerprintOf(vals, acts, Results(rt), seen)
    IN /\ have' = TRUE
       /\ seen' = AbsentNow
       /\ client' = IF moved THEN NotHeld ELSE client
       /\ req' = IF moved /\ req.on THEN [req EXCEPT !.current = FALSE] ELSE req

\* A source of absent_when changes; not one of a configuration that reads none.
Toggle(src) ==
    /\ \E n \in DOMAIN table : \/ src \in table[n].absent_fn
                               \/ \E a \in Range(table[n].actions) : a.entity = src
    /\ on' = [on EXCEPT ![src] = ~on[src]]
    /\ UNCHANGED <<config, table, sampled, vals, acts, rt, have, seen, loop, owed, req, client>>

\* What sample_() may find of a value: no state, a state just published, or the one it had, older.
\* A boolean calls back only when it changes.  Ages past every budget are one age.
NextSamples(v, s, budget) ==
    LET cap == IF budget = NoBudget THEN 1 ELSE budget + 1
        fresh == CASE Kind(v) = "sensor" -> {[num |-> x, text |-> ""] : x \in Readings}
                   [] Kind(v) = "text_sensor" -> {[num |-> 0, text |-> x] : x \in Texts}
                   [] OTHER -> {[num |-> x, text |-> ""] : x \in {0, 1}}
        published == {[has |-> TRUE, num |-> f.num, text |-> f.text, age |-> 0] : f \in fresh}
    IN {NoSample}
          \cup {p \in published : ~(Kind(v) = "binary_sensor" /\ s.has /\ p.num = s.num)}
          \cup {[s EXCEPT !.age = a] : a \in IF s.has THEN s.age .. cap ELSE {}}

\* What sample_action_() may find of the action's entity.
NextActionSamples(a) ==
    LET disabled == [enabled |-> FALSE, value |-> Null]
        with(json) == [enabled |-> TRUE, value |-> json]
    IN CASE a.control = "button" -> {with(Null)}
         [] a.control = "switch" -> {with(Json("bool", IF on[a.entity] THEN 1 ELSE 0, ""))}
         [] a.control = "select" -> {disabled} \cup {with(Json("string", 0, o)) : o \in a.options}
         [] OTHER -> {disabled, with(Json("number", a.min, ""))}

\* sample_(): every value and action.  At most one value's entity did something since the last
\* pass: passes with two differ from two passes with one by an extra seq only.
Sample ==
    /\ loop = <<>>
    /\ \E n \in DOMAIN table :
         \/ \E k \in DOMAIN table[n].values :
              \E s \in NextSamples(table[n].values[k], vals[n][k], table[n].budget) :
                 vals' = [vals EXCEPT ![n][k] = s]
         \/ vals' = vals
    /\ \E pick \in [ActionRefs -> UNION {NextActionSamples(table[r[1]].actions[r[2]])
                                         : r \in ActionRefs}] :
         /\ \A r \in ActionRefs : pick[r] \in NextActionSamples(table[r[1]].actions[r[2]])
         /\ acts' = [n \in DOMAIN table |-> [k \in DOMAIN acts[n] |-> pick[<<n, k>>]]]
    /\ UpdateSeq(vals', acts', rt)
    /\ sampled' = TRUE
    /\ UNCHANGED <<config, table, on, rt, loop, owed>>

\* run_actions_(): take a pending action and perform it, outside the mutex.
Perform(r) ==
    LET a == table[r[1]].actions[r[2]] IN
    /\ loop = <<>>
    /\ rt[r[1]][r[2]].pending
    /\ loop' = r
    /\ owed' = owed \ {<<r, rt[r[1]][r[2]].value>>}
    /\ on' = IF a.control = "switch"
             THEN [on EXCEPT ![a.entity] = rt[r[1]][r[2]].value.n = 1] ELSE on
    /\ UNCHANGED <<config, table, sampled, vals, acts, rt, have, seen, req, client>>

\* mutant: the slot stays pending
RecordedPending(slot) == [slot EXCEPT !.result.state = "accepted", !.result.code = "applied"]
Recorded(slot) ==
    [slot EXCEPT !.pending = FALSE, !.result.state = "accepted", !.result.code = "applied"]

\* run_actions_(): record it, under the mutex again.
Record ==
    LET n == loop[1] k == loop[2] IN
    /\ loop # <<>>
    /\ loop' = <<>>
    /\ rt' = [rt EXCEPT ![n][k] = Recorded(@)]
    /\ UpdateSeq(vals, acts, rt')
    /\ UNCHANGED <<config, table, on, sampled, vals, acts, owed>>

\* evaluate_action_json(), evaluate_action_text(): the code of the refusal, "queued" when accepted.
Evaluate(a, sample, busy, body) ==
    IF a.control \in {"select", "number"} /\ ~sample.enabled THEN "disabled"
    ELSE IF busy THEN "busy"
    ELSE IF body.t = "too large" THEN "body_too_large"
    ELSE IF body.t = "garbage" THEN "invalid_body"
    ELSE IF a.control = "button" THEN "queued"
    ELSE IF body.t = "missing" THEN "invalid_body"
    ELSE IF ~ValueMatchesControl(a.control, body) THEN "wrong_type"
    ELSE IF a.control = "select" /\ body.s \notin a.options THEN "unknown_option"
    ELSE IF a.control = "number" /\ sampled /\ body.n \notin a.min .. a.max THEN "out_of_range"
    ELSE "queued"

\* The value a result carries: what parsed as a scalar, whatever the control.
ParsedValue(a, code, body) ==
    IF a.control = "button" \/ code \in {"disabled", "body_too_large", "invalid_body"} THEN Null
    ELSE body

\* serve_action_()
Post(r, body) ==
    LET a == table[r[1]].actions[r[2]]
        code == Evaluate(a, acts[r[1]][r[2]], rt[r[1]][r[2]].pending, body)
        value == ParsedValue(a, code, body)
        result == [state |-> IF code = "queued" THEN "running" ELSE "refused",
                   code |-> code, value |-> value]
    IN /\ code # "busy"
       /\ rt' = [rt EXCEPT ![r[1]][r[2]] =
                   IF code = "queued" THEN [result |-> result, pending |-> TRUE, value |-> value]
                   ELSE [@ EXCEPT !.result = result]]
       /\ owed' = owed \cup IF code = "queued" THEN {<<r, value>>} ELSE {}
       /\ UpdateSeq(vals, acts, rt')
       /\ UNCHANGED <<config, table, on, sampled, vals, acts, loop>>

\* serve_state_(): copy the samples under the mutex ...
CopySnapshot ==
    /\ ~req.on
    /\ client = NotHeld        \* a client that holds the current seq is answered 204
    /\ req' = Copy
    /\ UNCHANGED <<config, table, on, sampled, vals, acts, rt, have, seen, loop, owed, client>>

\* ... and write the body from the copy; the client keeps it with the seq of the copy.
Answer ==
    /\ req.on
    /\ client' = IF req.current
                 THEN [keyed |-> req.keyed, body |-> Shown(WriteEnvelope(req, <<>>, <<>>), Live)]
                 ELSE NotHeld
    /\ req' = NoCopy
    /\ UNCHANGED <<config, table, on, sampled, vals, acts, rt, have, seen, loop, owed>>

Next ==
    \/ \E src \in Sources : Toggle(src)
    \/ Sample
    \/ \E r \in ActionRefs : Perform(r) \/ (\E body \in Bodies : Post(r, body))
    \/ Record
    \/ CopySnapshot
    \/ Answer

Spec == Init /\ [][Next]_vars

-----------------------------------------------------------------------------
(* Properties                                                              *)

Raws == [answered : {TRUE}, cls : {"r", "s", "i", "-", "?"}, has : BOOLEAN]
            \cup {[answered |-> FALSE, cls |-> "r", has |-> TRUE]}
Elements == UNION {[1 .. s.count -> Raws] : s \in UNION {node.series : node \in Range(table)}}
Paths == {<<>>} \cup {node.id : node \in Range(table)}

\* Every envelope the task can write from its copy, narrowed or not.
Envelopes ==
    {WriteEnvelope(req, path, raws) :
        path \in Paths, raws \in IF Elements = {} THEN {<<>>} ELSE Elements}

\* Configurations and requests the code lets through and the validator then objects to.
Declares(code) ==
    \E node \in Range(table) : code \in node.absent_why \cup {u.why : u \in node.unknown_when}
Excused ==
    If(Declares("limit"), "limit_evidence_mismatch")
      \cup If(Declares("not_requested"), "not_requested_inconsistent")
      \cup If(Declares("switched_off"), "switched_off_inconsistent")
      \cup If(\E node \in Range(table) : \E j, k \in DOMAIN node.values :
                 j # k /\ node.values[j].key = node.values[k].key, "limit_evidence_mismatch")
      \cup If(~IdentityComplete /\ config.owns # <<>>, "provenance_null_unmounted")
      \cup If(~IdentityComplete /\ "board" \in config.identity,
              "provenance_names_board_without_identity")
      \cup If(\E o, q \in Range(config.owns) : o # q /\ IsPrefix(o, q),
              "provenance_null_inside_mount")
      \cup (IF \E n \in 2 .. Len(table) : table[n].id = <<"car">>
             THEN {"duplicate_id", "provenance_null_inside_mount"} ELSE {})
      \cup If(\E node \in Range(table) : \E a \in Range(node.actions) :
                 a.control = "number" /\ Printed(a.step, Decimals(a)) = 0,
              "action_step_not_positive")
      \cup If(\E r \in ActionRefs : req.results[r[1]][r[2]].code = "wrong_type",
              "result_value_type")
      \cup If(~req.keyed, "action_value_mismatch")
      \cup If(~req.keyed, "wrong_type") \cup If(~req.keyed, "empty_label")

\* Every envelope the device writes -- for every accepted configuration, every history of its
\* entities and every request -- is one the schema validator accepts, but for the listed cases.
EnvelopeIsValid ==
    req.on => \A env \in Envelopes : ValidateEnvelope(env) \subseteq Excused

\* The same without the list, once the samples are there: what portal_core.h says of
\* write_envelope().
EveryEnvelopeIsValid ==
    req.on /\ req.keyed => \A env \in Envelopes : ValidateEnvelope(env) = {}

\* A client whose body has the current seq, and which is therefore answered 204, holds the
\* readings, states, reasons and action results of the samples now, unless it asked before the
\* first sample: the first fingerprint does not advance seq.
NotModifiedIsHonest ==
    client.keyed => client.body = Shown(WriteEnvelope(Copy, <<>>, <<>>), Live)

\* An accepted action is performed once and only then recorded as accepted, however the two tasks
\* interleave; while it is owed, its slot holds the value that was accepted.
AcceptedIsPerformedOnce ==
    \A r \in ActionRefs :
        LET slot == rt[r[1]][r[2]]
            owing == {o \in owed : o[1] = r}
        IN /\ slot.pending /\ loop # r => owing = {<<r, slot.value>>}
           /\ ~slot.pending \/ loop = r => owing = {}
           /\ slot.result.state = "accepted" => ~slot.pending
           /\ slot.result.state = "running" => slot.pending

\* A value the page is told to set before an action is one the action accepts, whenever the
\* target's own configuration was in sight when the portal's was checked.
BeforeIsAccepted ==
    \A pair \in BeforeEntries(config.tree) :
        \A n \in DOMAIN table : \A k \in DOMAIN table[n].actions :
            LET a == table[n].actions[k] IN
            a.in_sight /\ acts[n][k].enabled /\ pair[1].action = <<table[n].id, a.key>> =>
                \A v \in BeforeValue(a.control, pair[1].value) :
                    Evaluate(a, acts[n][k], FALSE, v) = "queued"
====
