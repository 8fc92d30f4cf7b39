---------------------------- MODULE GatewayConfig -----------------------------
(***************************************************************************)
(* components/can_gateway/__init__.py and sensor.py: a gateway's ports,    *)
(* routes, periodic and one-shot senders and decode sensors against the    *)
(* chip it is built for, and the set_patch and set_signal actions on a     *)
(* rule (RuleConfig), from validation to what the device does with them.   *)
(***************************************************************************)
EXTENDS RuleConfig, FiniteSetsExt

CONSTANTS
  Variants,     \* the chips: [name -> [controllers, fd]]
  PortShapes,   \* ports an author writes
  PortNames,    \* names of ports in references, declared or not
  Sensors,      \* decode sensors an author writes
  MaxBytes,     \* widest byte-aligned signal (4)
  MinSlots,     \* smallest pool of slots (4)
  MaxParts,     \* parts of the configuration
  MaxActions    \* actions played on a rule

VARIABLES
  node,    \* the configuration of the gateway
  live,    \* the rule's patch on the running device, or <<>>
  said,    \* (history) what configuration and actions last said of a cell
  played   \* actions played

gatewayVars == <<rule, node, live, said, played>>

MaxOf(S) == Max(S \cup {0})

(* What the schemas of a port and of a decode sensor let through: a field  *)
(* has a place and at least one bit, a marked raw value is a natural.      *)
FieldShape(f) == f = <<>> \/ (f = <<f[1]>> /\ f[1].at \in Nat /\ f[1].len \in Nat \ {0})
SensorShape(d) ==
    /\ FieldShape(d.byte) /\ FieldShape(d.bit) /\ d.big \in BOOLEAN
    /\ d.sna \in {<<>>, <<"all_ones">>} \/ (d.sna = <<"raw", d.sna[2]>> /\ d.sna[2] \in Nat)

ASSUME GatewayAssumption ==
    /\ MaxParts \in Nat /\ MaxActions \in Nat /\ MinSlots \in Nat
    /\ \A v \in DOMAIN Variants : Variants[v].controllers \in Nat
    /\ \A p \in PortShapes : p.depth \in Nat
    /\ \A d \in Sensors : SensorShape(d)

-----------------------------------------------------------------------------
(* Ports.  frames is max_frames_per_loop: <<>> takes the ring's depth.     *)
MAX_PORTS == 2
Controllers == IF Variants[node.variant].controllers > MAX_PORTS THEN MAX_PORTS
               ELSE Variants[node.variant].controllers

PortOk(p) ==
    /\ ~(p.selfTest /\ p.listen)
    /\ p.logTx => p.log
    /\ p.frames # <<>> => p.frames[1] <= p.observe

PortIds == {node.ports[i].id : i \in DOMAIN node.ports}
ListenOnly == {node.ports[i].id : i \in {i \in DOMAIN node.ports : node.ports[i].listen}}
RouteSources == {node.routes[i].from : i \in DOMAIN node.routes}
RouteTargets == {node.routes[i].to : i \in DOMAIN node.routes}

Transmits(name) == name \in PortIds \ ListenOnly

RoutesOk ==
    /\ node.routes # <<>> => Len(node.ports) >= 2
    /\ \A i, j \in DOMAIN node.routes : i # j => node.routes[i].from # node.routes[j].from
    /\ \A i \in DOMAIN node.routes :
          LET r == node.routes[i] IN r.from \in PortIds /\ r.from # r.to /\ Transmits(r.to)
    /\ \A i \in DOMAIN node.cyclics : Transmits(node.cyclics[i])

(* An action without a port takes the only one there is; a port that is    *)
(* named is one of the gateway's, since use_id resolves it.                *)
SendPort(s) == IF s = <<>> THEN node.ports[1].id ELSE s[1]
SendsOk == \A i \in DOMAIN node.sends :
    LET s == node.sends[i]
    IN  /\ IF s = <<>> THEN Len(node.ports) = 1 ELSE s[1] \in PortIds
        /\ SendPort(s) \notin ListenOnly

(* _final_validate: at most one switch, and something it gates; a gauge of *)
(* the bus load where frames reach the gateway.                            *)
SwitchOk == node.switches <= 1 /\ (node.switches = 1 => node.routes # <<>>)
GaugesOk ==
    node.loads \subseteq PortIds /\ node.loads \cap (RouteTargets \ RouteSources) = {}

ChipOk ==
    /\ 1 <= Len(node.ports) /\ Len(node.ports) <= MAX_PORTS
    /\ Controllers > 0 /\ Len(node.ports) <= Controllers
    /\ ~Variants[node.variant].fd

NodeOk ==
    /\ \A i \in DOMAIN node.ports : PortOk(node.ports[i])
    /\ ChipOk /\ RoutesOk /\ SendsOk /\ SwitchOk /\ GaugesOk

(* Code generation: the sizes of the static pools.                         *)
MaxDepth == MaxOf({node.ports[i].depth : i \in DOMAIN node.ports})
CyclicsOn(name) == Cardinality({i \in DOMAIN node.cyclics : node.cyclics[i] = name})
InjectSlotCount ==
    MaxOf({MinSlots, MaxOf({CyclicsOn(n) : n \in PortIds}) + 2, MaxDepth + 2})
TxSlotCount == MaxDepth + 2

-----------------------------------------------------------------------------
(* A decode sensor: byte and bit are <<>> or the position in that form;    *)
(* sna is <<>>, <<"all_ones">> or <<"raw", value>>.                        *)
PositionOk(d) ==
    /\ (d.byte = <<>>) # (d.bit = <<>>)
    /\ d.byte # <<>> => d.byte[1].at + d.byte[1].len <= NBytes /\ d.byte[1].len <= MaxBytes
    /\ d.bit # <<>> => SignalFits([start |-> d.bit[1].at, len |-> d.bit[1].len, big |-> d.big])
Width(d) == IF d.bit # <<>> THEN d.bit[1].len ELSE NBits * d.byte[1].len
AllOnes(w) == Pow2[w] - 1
SnaOk(d) == d.sna # <<>> /\ d.sna[1] = "raw" => d.sna[2] <= AllOnes(Width(d))
SensorOk(d) == PositionOk(d) /\ SnaOk(d)

(* CanGatewayDecodeSensor::on_frame: bit k of the value is this cell.      *)
ByteCell(p, big, k) ==
    <<IF big THEN p.at + p.len - 1 - (k \div NBits) ELSE p.at + (k \div NBits), k % NBits>>
ValueCell(d, k) ==
    IF d.byte # <<>> THEN ByteCell(d.byte[1], d.big, k)
    ELSE SignalCell([start |-> d.bit[1].at, len |-> d.bit[1].len, big |-> d.big], k)
Raw(d, payload) == ValueOf({k \in 0 .. Width(d) - 1 : ValueCell(d, k) \in payload}, Width(d))
LastByte(d) == Max({ValueCell(d, k)[1] : k \in 0 .. Width(d) - 1})
IsSna(d, raw) ==
    d.sna # <<>> /\ raw = IF d.sna[1] = "raw" THEN d.sna[2] ELSE AllOnes(Width(d))
SignExtend(raw, w) == IF raw >= Pow2[w - 1] THEN raw - Pow2[w] ELSE raw

(* What one frame with dlc bytes publishes: nothing, unknown or a value.   *)
Published(d, payload, dlc) ==
    IF LastByte(d) >= dlc THEN <<"nothing">>
    ELSE LET raw == Raw(d, payload)
         IN  IF IsSna(d, raw) THEN <<"unknown">>
             ELSE <<"value", IF d.signed THEN SignExtend(raw, Width(d)) ELSE raw>>

-----------------------------------------------------------------------------
(* The running rule.  _final_validate admits an action on what the rule    *)
(* declares; a value computed at run time is not seen by it.               *)
Field(s) == <<s.start, s.len, s.big>>
DeclaredFields == {Field(rule.modify.signals[i]) : i \in DOMAIN rule.modify.signals}
PatchedBytes == {rule.modify.data[i].index : i \in DOMAIN rule.modify.data}

SignalActionOk(s) == Field(s) \in DeclaredFields
ByteActionOk(index) == index \in PatchedBytes
IdActionOk == rule.modify.id # <<>>

Through == -1      \* the received bit passes
BitOf(v, k) == IF Has(v, k) THEN 1 ELSE 0
Keeps(f, S, g(_)) == [c \in Cells |-> IF c \in S THEN g(c) ELSE f[c]]

Boot ==
    /\ live = <<>> /\ rule.named /\ Accepted(rule) /\ rule.modify.e2e = <<>>
    /\ LET g == Generated(rule)
           claimed == Cells \ g.and
       IN  /\ live' = <<[and |-> g.and, or |-> g.or, id |-> g.newId]>>
           /\ said' = [c \in Cells |-> IF c \notin claimed THEN Through
                                       ELSE IF Wanted(rule.modify, c, {}) THEN 1 ELSE 0]
    /\ UNCHANGED <<rule, node, played>>

(* set_byte: the value, in the bits the mask does not let through.         *)
SetPatchByte(index, v) ==
    /\ live # <<>> /\ played < MaxActions /\ ByteActionOk(index)
    /\ LET p == live[1]
           byte == {<<index, b>> : b \in Bit}
           set == {c \in byte : Has(v, c[2])}
           mine == UNION {PatchCells(rule.modify.data[i]) :
                            i \in {i \in DOMAIN rule.modify.data : rule.modify.data[i].index = index}}
       IN  /\ live' = <<[p EXCEPT !.or = (@ \ byte) \cup (set \ p.and)]>>
           /\ said' = Keeps(said, mine, LAMBDA c : BitOf(v, c[2]))
    /\ played' = played + 1
    /\ UNCHANGED <<rule, node>>

(* set_can_id: cut to the width of the rule's output frame type.           *)
SetPatchId(id) ==
    /\ live # <<>> /\ played < MaxActions /\ IdActionOk
    /\ live' = <<[live[1] EXCEPT !.id = id \cap IdBits(OutExtended(rule))]>>
    /\ played' = played + 1
    /\ UNCHANGED <<rule, node, said>>

(* set_signal, and without a value (raw = -1: disabled, or NaN) back to    *)
(* the bits received.  The rule's fence is what it declared.               *)
SetSignal(s, raw) ==
    /\ live # <<>> /\ played < MaxActions /\ SignalFits(s) /\ SignalActionOk(s)
    /\ LET p == live[1]
           m == SignalBits(s) \cap Generated(rule).fence
           bits == {SignalCell(s, k) : k \in {k \in 0 .. s.len - 1 : raw # -1 /\ Has(raw, k)}}
           on == [p EXCEPT !.and = @ \ m, !.or = (@ \ m) \cup (bits \cap m)]
           off == [p EXCEPT !.and = @ \cup m, !.or = @ \ m]
       IN  /\ live' = <<IF raw = -1 THEN off ELSE on>>
           /\ said' = Keeps(said, SignalBits(s), LAMBDA c :
                          IF raw = -1 THEN Through ELSE IF c \in bits THEN 1 ELSE 0)
    /\ played' = played + 1
    /\ UNCHANGED <<rule, node>>

RuleActions ==
    \/ Boot
    \/ \E i \in Byte, v \in 0 .. AllOnes(NBits) : SetPatchByte(i, v)
    \/ \E id \in SUBSET IdBits(TRUE) : SetPatchId(id)
    \/ \E st \in 0 .. NBytes * NBits - 1, l \in 1 .. NBits + 1, b \in BOOLEAN :
          \E raw \in -1 .. AllOnes(l) : SetSignal([start |-> st, len |-> l, big |-> b], raw)

-----------------------------------------------------------------------------
(* The gateway as an author puts it together, one part after the other.    *)
Empty(v) == [variant |-> v, ports |-> <<>>, routes |-> <<>>, cyclics |-> <<>>, sends |-> <<>>,
             sensors |-> <<>>, switches |-> 0, loads |-> {}]
Parts == Len(node.ports) + Len(node.routes) + Len(node.cyclics) + Len(node.sends)
         + Len(node.sensors) + node.switches + Cardinality(node.loads)
Add(n) == node' = n /\ UNCHANGED <<rule, live, said, played>>

AddPort == \E p \in PortShapes :
    p.id \notin PortIds /\ Add([node EXCEPT !.ports = Append(@, p)])
AddRoute == \E f, t \in PortNames : Add([node EXCEPT !.routes = Append(@, [from |-> f, to |-> t])])
AddCyclic == \E n \in PortNames : Add([node EXCEPT !.cyclics = Append(@, n)])
AddSend == \E s \in {<<>>} \cup {<<n>> : n \in PortNames} : Add([node EXCEPT !.sends = Append(@, s)])
AddSensor == \E d \in Sensors : Parts = 0 /\ Add([node EXCEPT !.sensors = <<d>>])
AddSwitch == Add([node EXCEPT !.switches = @ + 1])
AddLoad == \E n \in PortNames \ node.loads : Add([node EXCEPT !.loads = @ \cup {n}])

Assemble ==     \* a sensor stands alone: nothing else bears on it
    /\ Parts < MaxParts /\ node.sensors = <<>>
    /\ AddPort \/ AddRoute \/ AddCyclic \/ AddSend \/ AddSensor \/ AddSwitch \/ AddLoad

GatewayInit ==
    /\ RuleInit
    /\ \E v \in DOMAIN Variants : node = Empty(v)
    /\ live = <<>> /\ said = [c \in Cells |-> Through] /\ played = 0

GatewayNext ==
    \/ live = <<>> /\ RuleNext /\ UNCHANGED <<node, live, said, played>>
    \/ RuleActions
    \/ Assemble
GatewaySpec == GatewayInit /\ [][GatewayNext]_gatewayVars

-----------------------------------------------------------------------------
(* The bit the running rule sends in a cell, as said of it.                *)
Obeyed(c) ==
    IF said[c] = Through THEN c \in live[1].and /\ c \notin live[1].or
    ELSE c \notin live[1].and /\ (c \in live[1].or <=> said[c] = 1)

(* Bytes of both data and a signal: there set_byte also writes the signal. *)
Mixed == {c \in Cells : c[1] \in PatchedBytes
                        /\ \E i \in DOMAIN rule.modify.signals : c \in SignalBits(rule.modify.signals[i])}

(* Every bit of a running rule carries what configuration or the last      *)
(* action on its own entry said: set_patch leaves a stamped signal alone,  *)
(* "config validation guarantees only declared entries are touched, and    *)
(* the byte's codegen-fixed mask is re-applied on every stage"             *)
(* (can_gateway.h:85-88).                                                  *)
EveryBitKeepsItsOwner == live # <<>> => \A c \in Cells : Obeyed(c)

(* The same with the cells apart that the code does not keep, over any     *)
(* sequence of set_patch and set_signal, and the identifier always fits    *)
(* the frame type the rule sends (__init__.py:1142-1223).                  *)
ActionsKeepTheirBits ==
    live # <<>> =>
        /\ \A c \in Cells \ Mixed : Obeyed(c)
        /\ rule.modify.id # <<>> => live[1].id \subseteq IdBits(OutExtended(rule))

(* An accepted gateway starts and nothing it sends is refused for reasons  *)
(* that are not the bus: every port finds a verified controller and at     *)
(* most one route leaves it, whoever transmits does so on a port that may, *)
(* and the queue is full before the pool of slots is (CanTxPort, inject(), *)
(* __init__.py:343-531, 1142-1284).                                        *)
NodeWorks ==
    NodeOk =>
        /\ Len(node.ports) <= Variants[node.variant].controllers /\ ~Variants[node.variant].fd
        /\ \A n \in RouteTargets \cup {node.cyclics[i] : i \in DOMAIN node.cyclics}
                    \cup {SendPort(node.sends[i]) : i \in DOMAIN node.sends} :
              \E i \in DOMAIN node.ports : node.ports[i].id = n /\ ~node.ports[i].listen
        /\ \A i, j \in DOMAIN node.routes :
              node.routes[i].from = node.routes[j].from => i = j
        /\ \A i \in DOMAIN node.ports :
              /\ node.ports[i].depth < InjectSlotCount /\ node.ports[i].depth < TxSlotCount
              /\ CyclicsOn(node.ports[i].id) < InjectSlotCount

(* A decode sensor reads what a stamped signal of the same place carries,  *)
(* in either form and byte order, publishes nothing from a frame that does *)
(* not reach to the field, and takes exactly the marked raw value, which   *)
(* some frame carries, for "not available" (__init__.py:796-924).          *)
Stamp(s, raw) == {SignalCell(s, k) : k \in {k \in 0 .. s.len - 1 : Has(raw, k)}}
AsSignal(d) ==
    IF d.bit # <<>> THEN [start |-> d.bit[1].at, len |-> d.bit[1].len, big |-> d.big]
    ELSE [start |-> NBits * d.byte[1].at + (IF d.big THEN NBits - 1 ELSE 0),
          len |-> NBits * d.byte[1].len, big |-> d.big]
DecodeWorks ==
    \A i \in DOMAIN node.sensors :
        LET d == node.sensors[i] IN
        SensorOk(d) =>
            /\ \A raw \in 0 .. AllOnes(Width(d)) :
                  \A around \in {{}, Cells \ SignalBits(AsSignal(d))} :
                     LET p == Stamp(AsSignal(d), raw) \cup around
                     IN  /\ Raw(d, p) = raw
                         /\ Published(d, p, NBytes) = <<"unknown">> <=> IsSna(d, raw)
            /\ d.sna # <<>> => \E raw \in 0 .. AllOnes(Width(d)) : IsSna(d, raw)
            /\ \A dlc \in 0 .. NBytes :
                  Published(d, {}, dlc) = <<"nothing">>
                    <=> (\E c \in SignalBits(AsSignal(d)) : c[1] >= dlc)

(* A configuration the validation lets through does on the device what its *)
(* author wrote.                                                           *)
AcceptedGatewayWorks == AcceptedRuleWorks /\ ActionsKeepTheirBits /\ NodeWorks /\ DecodeWorks
=============================================================================
