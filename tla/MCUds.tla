------------------------------- MODULE MCUds -------------------------------
(* The UDS client for TLC: four groups of one service.  The third cannot   *)
(* be assembled; the fourth is a raw request that echoes what the first    *)
(* does.  In one configuration no entity has an update interval and        *)
(* everything is on demand.                                                *)
EXTENDS UdsHub

MCSid == [g \in Groups |-> 34]
MCIdent == <<1, 2, 3, 1>>
MCInterval == <<1, 2, 1, 1>>
MCBGroup == <<1, 2, 2>>
MCTables == {{1, 2}, {1, 3}, {}}
MCOps == [t \in Tables |-> CASE 2 \in t -> 0 [] 3 \in t -> 1 [] OTHER -> 2]

=============================================================================
