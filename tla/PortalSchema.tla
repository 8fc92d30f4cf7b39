---- MODULE PortalSchema ----
(***************************************************************************)
(* The schema validator of the portal's state envelope                    *)
(* (script/portal_schema.py), as the set of violation codes it reports.   *)
(*                                                                         *)
(* An envelope is a record whose tree is the pre-order sequence of its     *)
(* node objects, each with the position of its parent in that sequence (0  *)
(* for the served root).  A dotted id is the sequence of its segments, so  *)
(* "starts with r + '.'" is a proper prefix.  A JSON scalar keeps its type *)
(* and its content.  The emitter writes every key of every object, so the  *)
(* missing-key, unknown-key and wrong-container checks have no case here;  *)
(* peers is always [] (write_envelope), so the peer rules have none either.*)
(***************************************************************************)
EXTENDS Integers, Sequences, SequencesExt, FiniteSets

None == "none"
NoAge == -1
NoBudget == -1

\* A JSON scalar: its type, and its content as a number or a string.
Json(t, n, s) == [t |-> t, n |-> n, s |-> s]
Null == Json("null", 0, "")

\* No why object; a why object has a code and its evidence as key/content pairs.
NoWhy == [code |-> "", evidence |-> {}]
NoProvenance == [board |-> "absent", age |-> NoAge, budget |-> NoBudget, trust |-> ""]

\* The violation code, when the condition that reports it holds.
If(condition, violation) == IF condition THEN {violation} ELSE {}

EvidenceKeys(why) == {pair[1] : pair \in why.evidence}

\* What must be in evidence before one of these verdicts may be given.
EvidenceDiscriminators(code) ==
    CASE code \in {"never_announced", "no_transfer"} -> {"rx_frames", "announced"}
      [] code = "crc_fail" -> {"crc_fail_count"}
      [] code = "negative_response" -> {"nrc_hex", "nrc_code_hex", "nrc_name"}
      [] OTHER -> {}

ValidateWhyBlock(why) ==
    LET needed == EvidenceDiscriminators(why.code) IN
    If(needed # {} /\ needed \cap EvidenceKeys(why) = {}, "evidence_without_discriminator")

CheckWhy(isOk, why) ==
    If(isOk # (why = NoWhy), "why_state_mismatch")
        \cup (IF why = NoWhy THEN {} ELSE ValidateWhyBlock(why))

CheckFramesEvidence(state, why) ==
    If(state = "silent" /\ <<"rx_frames", "0">> \in why.evidence, "silent_without_frames")
        \cup If(/\ state = "absent"
                /\ \E pair \in why.evidence : pair[1] = "rx_frames" /\ pair[2] # "0",
                "absent_with_frames")

CheckAnnouncedEvidence(state, why) ==
    IF <<"announced", "true">> \notin why.evidence THEN {}
    ELSE If(why.code = "never_announced", "never_announced_with_announced")
             \cup If(state = "absent", "absent_with_announced")

ValidateProvenance(prov, state) ==
    LET known == prov.age # NoAge /\ prov.budget # NoBudget IN
    IF prov = NoProvenance THEN If(state = "down", "down_not_confirmed")
    ELSE If(state = "down" /\ prov.trust # "confirmed", "down_not_confirmed")
            \cup If(state = "ok" /\ known /\ prov.age > prov.budget, "ok_past_budget")
            \cup If(state = "stale" /\ prov.age = NoAge, "stale_without_age")
            \cup If(state = "stale" /\ known /\ prov.age <= prov.budget, "stale_within_budget")

\* The positions of the nodes at or below position i of the tree.
Subtree(tree, i) ==
    LET path[n \in 0 .. Len(tree)] ==
            IF n = 0 THEN {} ELSE {n} \cup path[tree[n].parent]
    IN {n \in 1 .. Len(tree) : i \in path[n]}

Inside(id, roots) == \E r \in roots : IsPrefix(r, id)

ValidateProvenancePlacement(tree, roots, board) ==
    UNION {LET prov == tree[n].provenance
               inside == Inside(tree[n].id, roots)
               above == \E m \in Subtree(tree, n) \ {n} : Inside(tree[m].id, roots)
           IN If(inside /\ prov = NoProvenance, "provenance_null_inside_mount")
                 \cup If(~inside /\ above /\ prov # NoProvenance, "provenance_on_skeleton_node")
                 \cup If(~inside /\ ~above /\ prov = NoProvenance, "provenance_null_unmounted")
                 \cup If(prov # NoProvenance /\ board = None /\ prov.board # None,
                         "provenance_names_board_without_identity")
           : n \in 1 .. Len(tree)}

ValidateValue(v) ==
    If(v.key = "", "wrong_type") \cup If(v.label = "", "empty_label")
        \cup If(v.level # None /\ v.value = Null, "level_without_reading")
        \cup If((v.value = Null) # (v.class = "sna"), "sna_value_mismatch")
        \cup CheckWhy(v.state = "ok", v.why)

\* A series carries one class character and one value per element.
ValidateSeries(series) ==
    UNION {LET e == series.elements[i] IN
           If(e.cls \notin {"r", "s", "i", "-"}, "unknown_class_char")
               \cup If(\/ e.cls \in {"s", "-"} /\ e.value # Null
                       \/ e.cls \in {"r", "i"} /\ e.value = Null, "class_element_mismatch")
           : i \in DOMAIN series.elements}

ValueMatchesControl(control, json) ==
    json.t = CASE control = "switch" -> "bool"
               [] control = "select" -> "string"
               [] control = "number" -> "number"
               [] OTHER -> "nothing"

RefusedCodes == {"invalid_body", "wrong_type", "out_of_range", "unknown_option", "disabled",
                 "body_too_large"}

ValidateActionResult(result, control) ==
    IF result.state = None THEN {}
    ELSE If(result.code \notin CASE result.state = "running" -> {"queued"}
                                 [] result.state = "accepted" -> {"applied"}
                                 [] result.state = "refused" -> RefusedCodes, "result_why_mismatch")
            \cup If(result.value # Null /\ ~ValueMatchesControl(control, result.value),
                    "result_value_type")

ValidateActionExtension(a) ==
    LET stateful == a.control \in {"select", "number"}
        bounds == {a.min, a.max, a.step}
        numeric == a.control = "number" /\ \A b \in bounds : b.t = "number"
    IN If(~stateful /\ ~a.enabled, "action_always_enabled")
          \cup If(stateful /\ a.enabled # (a.value # Null), "action_value_mismatch")
          \cup If(stateful /\ ~a.enabled /\ a.why.code # "entity_unavailable", "action_why_code")
          \cup If(a.value # Null /\ ~ValueMatchesControl(a.control, a.value), "action_value_type")
          \cup If(a.control = "select" /\ a.options = {}, "wrong_type")
          \cup If(\E b \in bounds : (b.t = "number") # (a.control = "number"), "wrong_type")
          \cup If(numeric /\ a.min.n > a.max.n, "action_range_inverted")
          \cup If(numeric /\ a.step.n <= 0, "action_step_not_positive")
          \cup ValidateActionResult(a.result, a.control)

ValidateAction(a, id) ==
    If(a.path # <<id, a.key>>, "bad_action_path")
        \cup If(a.enabled # (a.why = NoWhy), "action_why_mismatch")
        \cup (IF a.why = NoWhy THEN {} ELSE ValidateWhyBlock(a.why))
        \cup ValidateActionExtension(a)

\* A child's id is its parent's and one segment; below the served root "car", one segment.
CheckHierarchicalId(tree, n) ==
    LET p == tree[n].parent
        above == IF p = 1 /\ tree[1].id = <<"car">> THEN <<>> ELSE tree[p].id
    IN If(/\ p # 0
          /\ ~(Len(tree[n].id) = Len(above) + 1 /\ IsPrefix(above, tree[n].id)),
          "id_not_hierarchical")

CheckV15Why(node) ==
    LET why == node.why
        given(key) == {pair[2] : pair \in {q \in why.evidence : q[1] = key}}
        named == {k \in DOMAIN node.values :
                    /\ node.values[k].key \in given("value")
                    /\ \A j \in 1 .. k - 1 : node.values[j].key \notin given("value")}
        agrees == /\ given("value") # {}
                  /\ given("level") \in {{"warn"}, {"bad"}}
                  /\ \A k \in named : node.values[k].level \in given("level")
    IN If(why.code = "limit" /\ ~agrees, "limit_evidence_mismatch")
          \cup If(/\ why.code = "not_requested"
                  /\ node.state # "unknown" \/ \E v \in Range(node.values) : v.value # Null,
                  "not_requested_inconsistent")
          \cup If(why.code = "switched_off" /\ node.state # "absent", "switched_off_inconsistent")

ValidateNode(tree, n) ==
    LET node == tree[n]
        values == Range(node.values)
    IN If(\E m \in 1 .. n - 1 : tree[m].id = node.id, "duplicate_id")
          \cup CheckHierarchicalId(tree, n)
          \cup CheckWhy(node.state = "ok", node.why)
          \cup ValidateProvenance(node.provenance, node.state)
          \cup CheckFramesEvidence(node.state, node.why)
          \cup CheckAnnouncedEvidence(node.state, node.why)
          \cup (UNION {ValidateValue(v) : v \in values})
          \cup If(node.state = "ok" /\ \E v \in values : v.state # "ok",
                  "node_ok_with_failing_value")
          \cup If(node.state = "ok" /\ \E v \in values : v.level \in {"warn", "bad"},
                  "node_ok_with_limit")
          \cup CheckV15Why(node)
          \cup (IF node.series.key = None THEN {} ELSE ValidateSeries(node.series))
          \cup (UNION {ValidateAction(a, node.id) : a \in Range(node.actions)})
          \cup If(node.role # None /\ node.role \notin node.roles, "role_not_available")

ValidateServedBy(s) ==
    LET named == s.board # None IN
    CheckWhy(s.state = "ok", s.why)
        \cup If(/\ s.state = "unknown"
                /\ ~(~named /\ s.owns = {} /\ s.why.code = "no_identity"),
                "no_identity_inconsistent")
        \cup If(s.state = "ok" /\ ~(named /\ s.owns # {}), "identity_incomplete")

ValidateAncestorRole(role, tree) ==
    If(role # <<>> /\ \E n \in DOMAIN tree : tree[n].id = role, "ancestor_role_in_tree")

\* The legend is the whole closed vocabulary or null: named or not.
ValidateSeriesLegend(env) ==
    LET present == \E n \in DOMAIN env.tree : env.tree[n].series.key # None IN
    If(present /\ ~env.legend, "series_legend_missing")
        \cup If(~present /\ env.legend, "series_legend_without_series")

ValidateEnvelope(env) ==
    LET tree == env.tree IN
    (UNION {ValidateNode(tree, n) : n \in DOMAIN tree})
        \cup ValidateServedBy(env.servedBy)
        \cup If(env.path # <<>> /\ env.path # tree[1].id, "path_mismatch")
        \cup If(env.path = <<>> /\ Len(tree[1].id) > 1, "root_id_dotted")
        \cup If(/\ env.path = <<>>
                /\ \E m \in env.servedBy.owns : \A n \in DOMAIN tree : tree[n].id # m,
                "mount_unresolved")
        \cup ValidateProvenancePlacement(tree, env.servedBy.owns, env.servedBy.board)
        \cup ValidateAncestorRole(env.ancestorRole, tree)
        \cup ValidateSeriesLegend(env)
====
