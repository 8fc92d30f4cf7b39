---- MODULE PortalConfig ----
(***************************************************************************)
(* What the portal's configuration accepts and what it generates           *)
(* (components/portal/__init__.py).                                        *)
(*                                                                         *)
(* A configuration is a record; its tree is the pre-order sequence of its  *)
(* node configurations, each with the position of its parent (0 at the top *)
(* level).  An optional scalar is a set with at most one element; a list   *)
(* key that must not be empty when given is the empty sequence when it is  *)
(* not.  A budget is NoBudget for an explicit null and Omitted for no key. *)
(* The validators of spelling (identifiers, MAC, port, node id) have no    *)
(* case here: the model's names are well-formed.                           *)
(***************************************************************************)
EXTENDS PortalSchema

CONSTANT ABSENT_PROVIDERS   \* name -> [evidence, for_why, default_why, action_evidence]

Omitted == -2
Opt(set) == CHOOSE x \in set : TRUE
EvidenceGatedWhyCodes == {"never_announced", "no_transfer", "crc_fail", "negative_response"}

\* What a component registers with a provider, which is code outside the portal (docs/portal-spec.md
\* 4.6): for the codes that need evidence it names, evidence of that kind, and never evidence that
\* what is absent was heard.
ASSUME ProviderAssumption ==
    \A name \in DOMAIN ABSENT_PROVIDERS :
        LET spec == ABSENT_PROVIDERS[name] IN
        /\ "" \notin spec.default_why
        /\ \A code \in spec.for_why \cap EvidenceGatedWhyCodes :
              spec.evidence # {} =>
                  /\ ~spec.action_evidence
                  /\ \E pair \in spec.evidence : pair[1] \in EvidenceDiscriminators(code)
        /\ \A pair \in spec.evidence :
              pair # <<"announced", "true">> /\ (pair[1] = "rx_frames" => pair[2] = "0")

ControlKeys == {"switch", "button", "select", "number"}

\* The dotted id of position n of the tree.
IdOf(tree, n) ==
    LET id[m \in 0 .. Len(tree)] ==
            IF m = 0 THEN <<>> ELSE Append(id[tree[m].parent], tree[m].segment)
    IN id[n]

-----------------------------------------------------------------------------
(* One node                                                                *)

RequireOneEntity(v) == Cardinality(v.entities) = 1
NoCadenceOnBinarySensor(v) == ~("binary_sensor" \in v.entities /\ v.cadence # {})

LimitsFitEntity(v) ==
    LET numeric == v.warn # {} \/ v.bad # {}
        boolean == v.warn_when # {} \/ v.bad_when # {}
    IN /\ "text_sensor" \in v.entities => ~numeric /\ ~boolean
       /\ "binary_sensor" \in v.entities => ~numeric
       /\ "sensor" \in v.entities => ~boolean

\* A limit is [below, above], at least one given.
LimitBound(v) == \A b \in v.warn \cup v.bad : b.below # {} \/ b.above # {}

ValueAccepted(v) ==
    RequireOneEntity(v) /\ NoCadenceOnBinarySensor(v) /\ LimitsFitEntity(v) /\ LimitBound(v)

\* unknown_when.why: the codes that need evidence are refused outright.
ConfigWhyCode(code) == code \notin EvidenceGatedWhyCodes

\* absent_when: a registered provider.
AbsentWhenSchema(node) == \A w \in node.absent_when : w.provider \in DOMAIN ABSENT_PROVIDERS

ProviderBacksWhy(spec, code) == spec.evidence # {} /\ code \in spec.for_why

ValidateAbsentEvidence(node, code) ==
    \/ code \notin EvidenceGatedWhyCodes
    \/ \E w \in node.absent_when : ProviderBacksWhy(ABSENT_PROVIDERS[w.provider], code)

\* series: a source and a provider come together.
ValidateSeriesProvider(node) == \A s \in node.series : s.source = s.provider

ValidateActionConf(a) == a.control \in ControlKeys /\ (a.decimals # {} => a.control = "number")

\* The why code absent_when brings along when the node declares none.
AbsentWhy(node) ==
    IF node.absent # {} THEN node.absent
    ELSE UNION {ABSENT_PROVIDERS[w.provider].default_why : w \in node.absent_when}

HasChildren(tree, n) == \E m \in DOMAIN tree : tree[m].parent = n

\* A binary sensor publishes changes only: its node has no budget.
\* mutant: it may have one
BooleansMayHaveBudget(node) == TRUE
BooleansHaveNoBudget(node) ==
    (\E v \in Range(node.values) : "binary_sensor" \in v.entities) =>
        node.budget \in {Omitted, NoBudget}

ValidateNodeCrossFields(tree, n) ==
    LET node == tree[n]
        ownKeys == {v.key : v \in Range(node.values)}
    IN /\ node.absent_when # {} => AbsentWhy(node) # {}
       /\ node.on_demand => node.values # <<>>
       /\ AbsentWhy(node) # {} =>
             /\ node.role = {} /\ node.unknown_when = {}
             /\ node.absent_when = {} =>
                   /\ node.values = <<>> /\ node.series = {} /\ node.actions = <<>>
                   /\ ~HasChildren(tree, n)
             /\ ValidateAbsentEvidence(node, Opt(AbsentWhy(node)))
       /\ node.role \subseteq node.roles_available
       /\ \A s \in node.series : s.key \notin ownKeys
       /\ \A i, j \in DOMAIN node.actions :
             i # j => node.actions[i].key # node.actions[j].key
       /\ \A u \in node.unknown_when : ~HasChildren(tree, n) /\ u.value \in ownKeys
       /\ node.trust_from \subseteq ownKeys
       /\ BooleansHaveNoBudget(node)

\* Omitted: three times the slowest cadence, and none unless every value has one.
ApplyDerivedBudget(node) ==
    LET cadences == UNION {v.cadence : v \in Range(node.values)} IN
    IF node.budget # Omitted THEN node.budget
    ELSE IF node.values = <<>> \/ \E v \in Range(node.values) : v.cadence = {} THEN NoBudget
    ELSE 3 * (CHOOSE c \in cadences : \A d \in cadences : d <= c)

NodeAccepted(tree, n) ==
    /\ \A v \in Range(tree[n].values) : ValueAccepted(v)
    /\ \A a \in Range(tree[n].actions) : ValidateActionConf(a)
    /\ \A u \in tree[n].unknown_when : ConfigWhyCode(u.why)
    /\ AbsentWhenSchema(tree[n])
    /\ ValidateSeriesProvider(tree[n])
    /\ ValidateNodeCrossFields(tree, n)

-----------------------------------------------------------------------------
(* The whole tree                                                          *)

UniqueSegments(tree) ==
    \A m, n \in DOMAIN tree :
        m # n /\ tree[m].parent = tree[n].parent => tree[m].segment # tree[n].segment

ValidateOwns(c) ==
    /\ \A o \in Range(c.owns) : \E n \in DOMAIN c.tree : IdOf(c.tree, n) = o
    /\ Cardinality(Range(c.owns)) = Len(c.owns)
    /\ c.identity = {"board", "node_id", "mac"} => c.owns # <<>>

\* The submodule position declared nearest at or above position n.
NearestPosition(tree, n) ==
    LET at[m \in 0 .. Len(tree)] ==
            IF m = 0 THEN {} ELSE IF tree[m].position # {} THEN tree[m].position
            ELSE at[tree[m].parent]
    IN at[n]

SubmodulePositionsAccepted(c) ==
    LET placed == {n \in DOMAIN c.tree : c.tree[n].position # {}} IN
    /\ \A m, n \in placed : m # n => c.tree[m].position # c.tree[n].position
    /\ placed # {} => c.submodule_size # {}
    /\ \A n \in DOMAIN c.tree : \A s \in c.tree[n].series :
          NearestPosition(c.tree, n) # {} => s.index_frame # {}

\* pack_index_base of the series s of node n: only a frame of submodule cells is offset.
PackIndexBase(c, n, s) ==
    IF s.index_frame = {"submodule_cell"}
    THEN {(p - 1) * Opt(c.submodule_size) + s.index_base : p \in NearestPosition(c.tree, n)}
    ELSE {}

ValueRefs(tree) == UNION {{<<IdOf(tree, n), v.key>> : v \in Range(tree[n].values)}
                          : n \in DOMAIN tree}
\* Reference -> action: the refs name the actions of the tree.
ActionsAt(tree, ref) ==
    UNION {{a \in Range(tree[n].actions) : a.key = ref[2]}
           : n \in {m \in DOMAIN tree : IdOf(tree, m) = ref[1]}}

\* A value given for a control, as the control's own validator reads it (the strings of the model
\* spell no number): anything is a string, "on" is a boolean; a boolean fits only a switch.
BeforeValue(control, given) ==
    IF given.t = "bool" THEN IF control = "switch" THEN {given} ELSE {}
    ELSE IF control = "select" THEN {Json("string", 0, given.s)}
    ELSE IF control = "number" /\ given.t = "number" THEN {Json("number", given.n, "")}
    ELSE IF control = "switch" /\ given.t = "string" /\ given.s = "on" THEN {Json("bool", 1, "")}
    ELSE {}

CheckBefore(tree, entry, ownRef) ==
    /\ ActionsAt(tree, entry.action) # {}
    /\ entry.action # ownRef
    /\ \A a \in ActionsAt(tree, entry.action) :
          a.control # "button" /\ BeforeValue(a.control, entry.value) # {}

\* Where the target's own configuration is in sight, the value fits it.
\* mutant: the target's own configuration is not looked at
BeforeUnchecked(tree, entry) == TRUE
CheckBeforeAgainstEntities(tree, entry) ==
    \A a \in ActionsAt(tree, entry.action) : \A v \in BeforeValue(a.control, entry.value) :
        a.in_sight =>
            /\ a.control = "select" => v.s \in a.options
            /\ a.control = "number" => v.n \in a.min .. a.max

BeforeEntries(tree) ==
    UNION {(UNION {{<<e, <<IdOf(tree, n), a.key>>>> : e \in a.before} : a \in Range(tree[n].actions)})
               \cup (UNION {{<<e, <<>>>> : e \in b.before} : b \in tree[n].borrow})
           : n \in DOMAIN tree}

CheckUiRefs(c) ==
    /\ c.glance \subseteq ValueRefs(c.tree)
    /\ \A id \in c.tab_nodes : \E n \in DOMAIN c.tree : IdOf(c.tree, n) = id
    /\ \A pair \in BeforeEntries(c.tree) : CheckBefore(c.tree, pair[1], pair[2])
    /\ \A n \in DOMAIN c.tree : \A b \in c.tree[n].borrow : ActionsAt(c.tree, b.action) # {}

\* The configuration is accepted.
CheckTree(c) == ValidateOwns(c) /\ SubmodulePositionsAccepted(c) /\ CheckUiRefs(c)
FinalValidate(c) ==
    /\ ~c.web_server
    /\ CheckTree(c)
    /\ \A pair \in BeforeEntries(c.tree) : CheckBeforeAgainstEntities(c.tree, pair[1])
Accepted(c) ==
    /\ c.tree # <<>>
    /\ \A n \in DOMAIN c.tree : NodeAccepted(c.tree, n)
    /\ UniqueSegments(c.tree)
    /\ FinalValidate(c)

-----------------------------------------------------------------------------
(* The generated node table                                                *)

\* The first action of the tree bound to the switch, as the evidence of its absence.
ActionOfSwitch(tree, source) ==
    LET bound == {x \in (1 .. Len(tree)) \X (1 .. 2) :
                    /\ x[2] \in DOMAIN tree[x[1]].actions
                    /\ tree[x[1]].actions[x[2]].control = "switch"
                    /\ tree[x[1]].actions[x[2]].entity = source}
        first == CHOOSE x \in bound : \A y \in bound :
                    x[1] < y[1] \/ (x[1] = y[1] /\ x[2] <= y[2])
    IN IF bound = {} THEN {}
       ELSE {<<"action", IdOf(tree, first[1]), tree[first[1]].actions[first[2]].key>>}

AbsentEvidence(tree, node) ==
    UNION {LET spec == ABSENT_PROVIDERS[w.provider] IN
           IF spec.action_evidence THEN ActionOfSwitch(tree, w.source) ELSE spec.evidence
           : w \in node.absent_when}

\* emit(): one entry of the table per node, its children's after it.
Emit(c, n) ==
    LET node == c.tree[n] IN
    [id |-> IdOf(c.tree, n), parent |-> node.parent + 1, budget |-> ApplyDerivedBudget(node),
     absent_why |-> AbsentWhy(node), absent_fn |-> {w.source : w \in node.absent_when},
     absent_evidence |-> AbsentEvidence(c.tree, node),
     role |-> node.role, roles |-> node.roles_available,
     unknown_when |-> node.unknown_when, trust_from |-> node.trust_from,
     on_demand |-> node.on_demand, values |-> node.values,
     series |-> {[s EXCEPT !.pack = PackIndexBase(c, n, s)] : s \in node.series},
     actions |-> node.actions]

Root ==
    [id |-> <<"car">>, parent |-> 0, budget |-> NoBudget, absent_why |-> {}, absent_fn |-> {},
     absent_evidence |-> {}, role |-> {}, roles |-> {}, unknown_when |-> {}, trust_from |-> {},
     on_demand |-> FALSE, values |-> <<>>, series |-> {}, actions |-> <<>>]

\* The synthetic root, then the configured tree.
NodeTable(c) == <<Root>> \o [n \in 1 .. Len(c.tree) |-> Emit(c, n)]
====
