------------------------------ MODULE RuleConfig ------------------------------
(***************************************************************************)
(* components/can_gateway/__init__.py: one filter rule of a route, from    *)
(* the configuration to the numbers the generated code hands to            *)
(* GatewayRoute::add_rule: identifier and mask, the flags, the AND and OR  *)
(* masks of the payload and the fence set_signal may not cross.            *)
(*                                                                         *)
(* A payload is NBytes bytes of NBits bits (8 and 8); a bit is the cell    *)
(* <<byte, bit>>, and masks are sets of cells.  An identifier is a set of  *)
(* bits below StdBits (11) or ExtBits (29).                                *)
(***************************************************************************)
EXTENDS Binary, Integers, Sequences, FiniteSets

CONSTANTS NBytes, NBits, StdBits, ExtBits,
          Values,        \* values a byte patch may carry
          Masks,         \* masks of a byte patch, as sets of bits
          SignalValues,  \* raw values of a signal; -1: none, driven at runtime
          MaxEntries     \* byte patches and signals of the rule

VARIABLES rule   \* the rule as written

Byte == 0 .. NBytes - 1
Bit  == 0 .. NBits - 1
Cells == Byte \X Bit

ASSUME RuleAssumption ==
    /\ NBytes \in Nat /\ NBits \in Nat \ {0} /\ Masks \subseteq SUBSET Bit
    /\ StdBits \in Nat /\ ExtBits \in Nat /\ StdBits <= ExtBits

IdBits(extended) == 0 .. (IF extended THEN ExtBits ELSE StdBits) - 1

-----------------------------------------------------------------------------
(* signal_bits: the cells of a field, least significant first; a field     *)
(* that leaves the payload has none.  Intel counts up from its lowest bit, *)
(* Motorola starts at its highest and walks down a byte and on at the top  *)
(* of the next one.                                                        *)
IntelCell(s, k) == <<(s.start + k) \div NBits, (s.start + k) % NBits>>
MotorolaCell(s, n) ==      \* the n-th cell from the most significant one
    LET b0 == s.start % NBits
        past == n - (b0 + 1)     \* cells walked behind the first byte
    IN  IF past < 0 THEN <<s.start \div NBits, b0 - n>>
        ELSE <<(s.start \div NBits) + 1 + (past \div NBits), NBits - 1 - (past % NBits)>>
SignalCell(s, k) == IF s.big THEN MotorolaCell(s, s.len - 1 - k) ELSE IntelCell(s, k)
SignalBits(s) == {SignalCell(s, k) : k \in 0 .. s.len - 1}
SignalFits(s) == SignalBits(s) \subseteq Cells

(* _payload_cells: what each entry of the modify block claims.             *)
PatchCells(p) == {<<p.index, b>> : b \in p.mask}
Claims(m) ==
    [i \in DOMAIN m.data |-> PatchCells(m.data[i])]
    \o [i \in DOMAIN m.signals |-> SignalBits(m.signals[i])]
PayloadCells(m) == UNION {Claims(m)[i] : i \in DOMAIN Claims(m)}

(* _validate_patch_bytes, _validate_signal_patch, _validate_modify,        *)
(* _validate_e2e.                                                          *)
Disjoint(claims) == \A i, j \in DOMAIN claims : i # j => claims[i] \cap claims[j] = {}

EntriesOk(m) ==
    /\ \A i, j \in DOMAIN m.data : i # j => m.data[i].index # m.data[j].index
    /\ \A i \in DOMAIN m.signals :
          /\ SignalFits(m.signals[i])
          /\ m.signals[i].value < Pow2[m.signals[i].len]
    /\ Disjoint(Claims(m))

E2eOk(m) ==
    m.e2e # <<>> =>
        LET crc == m.e2e[1].crc
            last == IF m.e2e[1].last = -1 THEN crc - 1 ELSE m.e2e[1].last
        IN  /\ m.e2e[1].first <= last
            /\ ~(m.e2e[1].first <= crc /\ crc <= last)
            /\ PayloadCells(m) # {}
            /\ \A c \in PayloadCells(m) : c[1] # crc

(* _validate_rule.  A mask or a new identifier that is not given is <<>>.  *)
MaskOf(r) == IF r.mask = <<>> THEN IdBits(r.extended) ELSE r.mask[1]
OutExtended(r) == IF r.modify.extended = <<>> THEN r.extended ELSE r.modify.extended[1]

IdOk(r) ==
    /\ r.id \subseteq IdBits(r.extended)
    /\ MaskOf(r) \subseteq IdBits(r.extended)
    /\ r.id \subseteq MaskOf(r)

ModifyOk(r) ==
    /\ ~r.drop
    /\ (\E i \in DOMAIN r.modify.signals : r.modify.signals[i].value = -1) => r.named
    /\ IF r.modify.id # <<>> THEN r.modify.id[1] \subseteq IdBits(OutExtended(r))
       ELSE /\ ~(r.extended /\ ~OutExtended(r))
            /\ OutExtended(r) # r.extended => MaskOf(r) = IdBits(r.extended)
    /\ EntriesOk(r.modify) /\ E2eOk(r.modify)

Accepted(r) ==
    /\ IdOk(r)
    /\ IF r.modifies THEN ModifyOk(r) ELSE ~r.named

-----------------------------------------------------------------------------
(* Code generation: _packed_patch_masks, _declared_mask, _rule_flags and   *)
(* the call of add_rule.                                                   *)
Stamped(m) == {i \in DOMAIN m.signals : m.signals[i].value # -1}
AndMask(m) ==
    Cells \ ((UNION {PatchCells(m.data[i]) : i \in DOMAIN m.data})
              \cup (UNION {SignalBits(m.signals[i]) : i \in Stamped(m)}))
OrValue(m) ==
    (UNION {{<<m.data[i].index, b>> : b \in {b \in m.data[i].mask : Has(m.data[i].value, b)}} :
               i \in DOMAIN m.data})
    \cup (UNION {{SignalCell(m.signals[i], k) :
                     k \in {k \in 0 .. m.signals[i].len - 1 : Has(m.signals[i].value, k)}} :
                   i \in Stamped(m)})

Generated(r) ==
    [id |-> r.id, mask |-> MaskOf(r), extended |-> r.extended, drop |-> r.drop,
     outExt  |-> r.modifies /\ OutExtended(r),
     replace |-> r.modifies /\ (r.modify.id # <<>> \/ OutExtended(r) # r.extended),
     newId   |-> IF r.modifies /\ r.modify.id # <<>> THEN r.modify.id[1] ELSE r.id,
     and |-> IF r.modifies THEN AndMask(r.modify) ELSE Cells,
     or  |-> IF r.modifies THEN OrValue(r.modify) ELSE {},
     fence |-> IF r.modifies THEN PayloadCells(r.modify) ELSE {}]

(* What the gateway does with a frame of that rule (gateway_core.h): the   *)
(* rule matches on the masked bits, and replaces the identifier or not.    *)
Match(g, id, extended) == extended = g.extended /\ id \cap g.mask = g.id
OutId(g, id) == IF g.replace THEN g.newId ELSE id
OutPayload(g, payload) == (payload \cap g.and) \cup g.or

-----------------------------------------------------------------------------
(* The rule as an author puts it together.                                 *)
Plain(x, id, mask, drop, named) ==
    [extended |-> x, id |-> id, mask |-> mask, drop |-> drop, named |-> named,
     modifies |-> FALSE,
     modify |-> [id |-> <<>>, extended |-> <<>>, data |-> <<>>, signals |-> <<>>, e2e |-> <<>>]]

RuleInit ==
    \E x \in BOOLEAN, id \in SUBSET IdBits(TRUE), drop \in BOOLEAN, named \in BOOLEAN,
       mask \in {<<>>} \cup {<<m>> : m \in SUBSET IdBits(TRUE)} :
        rule = Plain(x, id, mask, drop, named)

Entries == Len(rule.modify.data) + Len(rule.modify.signals)
Simple ==     \* the payload entries are combined with the plainest matching part
    /\ rule.id = {} /\ rule.mask = <<>> /\ ~rule.drop /\ ~rule.extended
    /\ rule.modify.id = <<>> /\ rule.modify.extended = <<>>

ChangeId ==
    /\ Entries = 0 /\ ~rule.modifies
    /\ \E new \in {<<>>} \cup {<<i>> : i \in SUBSET IdBits(TRUE)},
          x \in {<<>>, <<TRUE>>, <<FALSE>>} :
          rule' = [rule EXCEPT !.modifies = TRUE, !.modify.id = new, !.modify.extended = x]

PatchByte ==
    /\ Simple /\ Entries < MaxEntries /\ rule.modify.e2e = <<>>
    /\ \E i \in Byte, v \in Values, m \in Masks :
          rule' = [rule EXCEPT !.modifies = TRUE,
                     !.modify.data = Append(@, [index |-> i, value |-> v, mask |-> m])]

PatchSignal ==
    /\ Simple /\ Entries < MaxEntries /\ rule.modify.e2e = <<>>
    /\ \E s \in 0 .. NBytes * NBits - 1, l \in 1 .. NBits + 1, big \in BOOLEAN, v \in SignalValues :
          rule' = [rule EXCEPT !.modifies = TRUE,
                     !.modify.signals = Append(@, [start |-> s, len |-> l, big |-> big, value |-> v])]

AddE2e ==
    /\ Simple /\ rule.modifies /\ rule.modify.e2e = <<>>
    /\ \E c \in Byte, f \in Byte, l \in Byte \cup {-1} :
          rule' = [rule EXCEPT !.modify.e2e = <<[crc |-> c, first |-> f, last |-> l]>>]

RuleNext == ChangeId \/ PatchByte \/ PatchSignal \/ AddE2e
RuleSpec == RuleInit /\ [][RuleNext]_rule

-----------------------------------------------------------------------------
(* Who claims a cell, and the bit written there.                           *)
Wanted(m, c, payload) ==
    LET p == {i \in DOMAIN m.data : c \in PatchCells(m.data[i])}
        s == {i \in Stamped(m) : \E k \in 0 .. m.signals[i].len - 1 : SignalCell(m.signals[i], k) = c}
    IN  IF p # {} THEN \A i \in p : Has(m.data[i].value, c[2])
        ELSE IF s # {}
        THEN \A i \in s : \A k \in 0 .. m.signals[i].len - 1 :
                SignalCell(m.signals[i], k) = c => Has(m.signals[i].value, k)
        ELSE c \in payload

(* Nothing writes the CRC byte, and there is something to protect.         *)
CrcIsKeptApart(g, e) ==
    /\ \A b \in Bit : <<e.crc, b>> \in g.and /\ <<e.crc, b>> \notin g.or \cup g.fence
    /\ g.fence # {}

(* Every rule the validation lets through works as written: it matches     *)
(* some frame; whatever it matches leaves with an identifier that fits its *)
(* frame type, and a range of identifiers is never squeezed into one       *)
(* unless the author named the new one; each declared bit gets exactly the *)
(* value written for it and no other bit of the payload changes; the CRC   *)
(* byte e2e repairs is written by nobody else                              *)
(* (can_gateway/__init__.py:264-329, 571-636, 834-858, 1287-1354).         *)
AcceptedRuleWorks ==
    Accepted(rule) =>
        LET g == Generated(rule)
            ids == {id \in SUBSET IdBits(rule.extended) : Match(g, id, rule.extended)}
        IN  /\ ids # {}
            /\ ~g.drop /\ rule.modifies =>
                 /\ \A id \in ids : OutId(g, id) \subseteq IdBits(g.outExt)
                 /\ rule.modify.id = <<>> =>
                       \A i, j \in ids : i # j => OutId(g, i) # OutId(g, j)
            /\ rule.modifies => \A payload \in {{}, Cells} : \A c \in Cells :
                 /\ c \in OutPayload(g, payload) <=> Wanted(rule.modify, c, payload)
                 /\ (c \in OutPayload(g, payload)) # (c \in payload) => c \in g.fence
            /\ rule.modify.e2e # <<>> => CrcIsKeptApart(g, rule.modify.e2e[1])
=============================================================================
