------------------------------ MODULE MCGateway ------------------------------
(***************************************************************************)
(* The gateway for TLC: a route in front of its destination port, and the  *)
(* primitives interrupt and loop share.  They have no state in common, so  *)
(* a behaviour exercises one of them (part) and leaves the others in their *)
(* initial state.                                                          *)
(***************************************************************************)
EXTENDS GatewayRoute, ObserveRing, SnapshotRing, RulePatch

CONSTANTS raw, bad

(* A frame that is dropped, and one that is patched to the like of it.     *)
MCFrames == {raw, bad}
MCRewrite == [f \in MCFrames |-> bad]
MCFiltered == {bad}

(* A port that consumes nothing, one that only observes, a logged one.     *)
MCConsumers == {{}, {"other"}, {"log"}}
MCMaxFrames == [c \in MCConsumers |-> IF c = {"log"} THEN 2 ELSE 1]

(* A payload byte, declared in part, and a replaced CAN ID, of two bits.   *)
MCDeclared == [i \in {"byte", "id"} |-> IF i = "byte" THEN {0} ELSE {0, 1}]
MCStartPatch == [i \in {"byte", "id"} |-> IF i = "byte" THEN [and |-> {0, 1}, or |-> {}]
                                                        ELSE [and |-> {}, or |-> {1}]]

VARIABLE part

partVars == <<allVars, ringVars, snapVars, patchVars, part>>

PartInit ==
  /\ RouteInit /\ RingInit /\ SnapInit /\ PatchInit
  /\ part \in {"route", "ring", "snapshot", "patch"}

Route(A) == part = "route" /\ A /\ UNCHANGED <<ringVars, snapVars, patchVars, part>>
Ring(A) == part = "ring" /\ A /\ UNCHANGED <<allVars, snapVars, patchVars, part>>
Snapshot(A) == part = "snapshot" /\ A /\ UNCHANGED <<allVars, ringVars, patchVars, part>>
Patch(A) == part = "patch" /\ A /\ UNCHANGED <<allVars, ringVars, snapVars, part>>

PartNext == Route(RouteNext) \/ Ring(RingNext) \/ Snapshot(SnapNext) \/ Patch(PatchNext)

PartSpec == PartInit /\ [][PartNext]_partVars

=============================================================================
