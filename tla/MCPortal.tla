------------------------------- MODULE MCPortal -------------------------------
(***************************************************************************)
(* For TLC: portals of every shape the properties tell apart.  A shape is  *)
(* a tuple naming its family and its parameters; Of...(shape) is the       *)
(* configuration, one member of Configs.  A behaviour serves one of them.  *)
(***************************************************************************)
EXTENDS Portal

\* A node, a value and an action with nothing optional.
Node == [segment |-> "a", parent |-> 0, values |-> <<>>, budget |-> Omitted, role |-> {},
         roles_available |-> {}, absent |-> {}, absent_when |-> {}, unknown_when |-> {},
         trust_from |-> {}, series |-> {}, position |-> {}, on_demand |-> FALSE,
         actions |-> <<>>, borrow |-> {}]
Value == [key |-> "v", entities |-> {"sensor"}, cadence |-> {}, warn |-> {}, bad |-> {},
          warn_when |-> {}, bad_when |-> {}]
Text == [Value EXCEPT !.entities = {"text_sensor"}]
Flag == [Value EXCEPT !.entities = {"binary_sensor"}]
Action == [key |-> "act", control |-> "switch", entity |-> "sw", decimals |-> {}, options |-> {},
           min |-> 0, max |-> 1, step |-> 1000, in_sight |-> TRUE, before |-> {}]
Select == [Action EXCEPT !.control = "select", !.options = {"x", "y"}]
Number == [Action EXCEPT !.control = "number"]
Config0 == [tree |-> <<Node>>, identity |-> {"board", "node_id", "mac"}, owns |-> <<<<"a">>>>,
            submodule_size |-> {}, glance |-> {}, tab_nodes |-> {}, web_server |-> FALSE]
Child == [Node EXCEPT !.segment = "b", !.parent = 1]
With(tree) == [Config0 EXCEPT !.tree = tree]
Above(x) == [below |-> {}, above |-> {x}]
Below(x) == [below |-> {x}, above |-> {}]

\* One value, its kind, limits, cadence and the node's budget.
ValueShapes ==
    {<<"value", e, b, c, l>> : e \in {{"sensor"}, {"text_sensor"}, {"binary_sensor"}, {}},
        b \in {Omitted, NoBudget, 1}, c \in {{}, {1}}, l \in {"none", "warn", "both", "when"}}
OfValue(x) ==
    LET v == [Value EXCEPT !.entities = x[2], !.cadence = x[4],
                !.warn = IF x[5] \in {"warn", "both"} THEN {Above(0)} ELSE {},
                !.bad = IF x[5] = "both" THEN {Below(1)} ELSE {},
                !.warn_when = IF x[5] = "when" THEN {1} ELSE {},
                !.bad_when = IF x[5] = "when" THEN {0} ELSE {}]
    IN With(<<[Node EXCEPT !.values = <<v>>, !.budget = x[3]]>>)

\* Absence, unknown_when, trust and on_demand of a child with one text value.
CodeShapes ==
    {<<"code", absent, when, why, dem>> :
        absent \in {{}, {"dead"}, {"never_announced"}, {"limit"}, {"switched_off"}},
        when \in {{}, {"switch_off"}, {"announce"}}, why \in {{}, {"crc_fail"}, {"lost"}, {"not_requested"}, {"switched_off"}},
        dem \in BOOLEAN}
OfCode(x) ==
    With(<<Node, [Child EXCEPT !.values = IF x[2] # {} /\ x[3] = {} THEN <<>> ELSE <<Text>>,
                   !.absent = x[2],
                   !.absent_when = {[provider |-> p, source |-> "sw"] : p \in x[3]},
                   !.unknown_when = {[value |-> "v", equals |-> "gone", why |-> w] : w \in x[4]},
                   !.trust_from = IF x[2] # {} /\ x[3] = {} THEN {} ELSE {"v"},
                   !.on_demand = x[5]]>>)

\* Two values on one node: two limits, a shared key, a mixed node with a budget.
PairShapes ==
    {<<"pair", "v", "sensor", NoBudget>>, <<"pair", "w", "flag", Omitted>>,
     <<"pair", "w", "flag", 1>>, <<"pair", "w", "sensor", 1>>}
OfPair(x) ==
    LET second == IF x[3] = "flag" THEN [Flag EXCEPT !.bad_when = {1}]
                  ELSE [Value EXCEPT !.bad = {Above(1)}]
    IN With(<<[Node EXCEPT !.budget = x[4],
                !.values = <<[Value EXCEPT !.warn = {Above(0)}], [second EXCEPT !.key = x[2]]>>]>>)

\* Who owns what, and how much of its identity the board knows.
OwnsShapes ==
    {<<"owns", id, o, seg>> : id \in {{}, {"board"}, {"board", "node_id", "mac"}},
        o \in {<<>>, <<<<"a">>>>, <<<<"a", "b">>>>, <<<<"a">>, <<"a", "b">>>>, <<<<"z">>>>},
        seg \in {"a", "car"}}
OfOwns(x) ==
    [With(<<[Node EXCEPT !.segment = x[4], !.role = {"lead"}, !.roles_available = {"lead", "aux"}],
            [Child EXCEPT !.values = <<Value>>, !.budget = 1]>>)
     EXCEPT !.identity = x[2], !.owns = x[3]]

\* A series below a submodule position, on a node that can be absent.
SeriesShapes ==
    {<<"series", f, p, s, w>> : f \in {{}, {"submodule_cell"}, {"group"}}, p \in {{}, {2}},
                                s \in {{}, {4}}, w \in BOOLEAN}
OfSeries(x) ==
    [With(<<[Node EXCEPT !.position = x[3]],
            [Child EXCEPT !.series = {[key |-> "s", index_frame |-> x[2], index_base |-> 1, count |-> 1,
                                       source |-> {}, provider |-> {}, pack |-> {}]},
                          !.absent_when = IF x[5] THEN {[provider |-> "switch_off", source |-> "sw"]}
                                          ELSE {}]>>)
     EXCEPT !.submodule_size = x[4]]

\* An action of each control, and a switch whose node it turns absent.
ActionShapes ==
    {<<"action", c, d, s>> : c \in {"switch", "button", "select", "number"},
                             d \in {{}, {0}}, s \in {1, 1000}}
OfAction(x) ==
    With(<<[Node EXCEPT !.actions =
              <<[Action EXCEPT !.control = x[2], !.decimals = x[3], !.step = x[4],
                   !.options = IF x[2] = "select" THEN {"x", "y"} ELSE {}]>>],
           IF x[2] = "switch"
           THEN [Child EXCEPT !.absent_when = {[provider |-> "switch_off", source |-> "sw"]}]
           ELSE Child>>)

\* A value to set before the action of the child.
BeforeShapes ==
    {<<"before", c, v, own>> : c \in {"switch", "button", "select", "number"},
        v \in {Json("bool", 1, "True"), Json("string", 0, "x"), Json("string", 0, "on"),
               Json("number", 1, "1"), Json("number", 2, "2")},
        own \in BOOLEAN}
OfBefore(x) ==
    With(<<[Node EXCEPT !.actions =
              <<[Action EXCEPT !.control = x[2],
                   !.options = IF x[2] = "select" THEN {"x", "y", "1"} ELSE {}]>>],
           IF x[4] THEN [Child EXCEPT !.actions = <<[Action EXCEPT !.control = "button",
                   !.before = {[action |-> <<<<"a", "b">>, "act">>, value |-> x[3]]}]>>]
           ELSE [Child EXCEPT !.borrow = {[action |-> <<<<"a">>, "act">>,
                   before |-> {[action |-> <<<<"a">>, "act">>, value |-> x[3]]}]}]>>)

OfShape(x) ==
    CASE x[1] = "value" -> OfValue(x) [] x[1] = "code" -> OfCode(x)
      [] x[1] = "pair" -> OfPair(x) [] x[1] = "owns" -> OfOwns(x)
      [] x[1] = "series" -> OfSeries(x) [] x[1] = "action" -> OfAction(x)
      [] x[1] = "before" -> OfBefore(x)
MCConfigs ==
    {OfShape(x) : x \in ValueShapes \cup CodeShapes \cup PairShapes \cup OwnsShapes \cup SeriesShapes
                      \cup ActionShapes \cup BeforeShapes}
MCProviders ==
    [switch_off |-> [evidence |-> {}, for_why |-> {}, default_why |-> {"switched_off"},
                     action_evidence |-> TRUE],
     announce |-> [evidence |-> {<<"announced", "false">>}, for_why |-> {"never_announced"},
                   default_why |-> {}, action_evidence |-> FALSE]]
MCReadings == {0, 1, 2, NaN}
MCBodies == {Json("bool", 1, ""), Json("string", 0, "x"), Json("string", 0, "z"), Json("number", 1, ""),
             Json("number", 5, ""), Json("missing", 0, ""), Json("garbage", 0, ""),
             Json("too large", 0, "")}
====
