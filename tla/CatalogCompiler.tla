--------------------------- MODULE CatalogCompiler ---------------------------
(***************************************************************************)
(* script/uds_catalog.py: one group of a factory database compiled into a  *)
(* catalog.  The database lists services and, under each, the fields of    *)
(* its response; the compiler sorts the fields of one request by their bit *)
(* position, folds runs of like fields into arrays, gives every record a   *)
(* name of its own, and turns conversion rows with 32-bit bounds of either *)
(* sign into rows with signed bounds.                                      *)
(*                                                                         *)
(* A service qualifier is [stem, no]: what is left without its numbers,    *)
(* and the last number in it, -1 if it has none.  A presentation stands for*)
(* everything two array elements must share (name, unit, signs, scales).   *)
(***************************************************************************)
EXTENDS Integers, SequencesExt

CONSTANTS
    Preps,       \* fields a database may list: [svc, pres, size], the width 0
                 \* when the export does not know it
    Positions,   \* bit positions
    MaxPreps,    \* fields of the group
    MaxRepeat,   \* MAX_REPEAT_COUNT: elements of an array record (255)
    MaxNumeric,  \* MAX_NUMERIC_BITS (64)
    Dumps,       \* presentations decoded as text or as a hex dump
    MaxDump,     \* MAX_BLOCK_BITS (248)
    IMax,        \* the largest signed bound (2^31 - 1)
    Rows,        \* conversion rows a database may hold for a field
    MaxTable      \* rows of the one field whose conversion is compiled

VARIABLES
    preps,   \* the group's output preparations, in file order
    table    \* the conversion rows of one unsigned field, in file order

compilerVars == <<preps, table>>

(* A field has a width and a position; a row's bounds are signed.          *)
ASSUME CompilerAssumption ==
    /\ IMax \in Nat /\ Positions \subseteq Int
    /\ MaxDump \in Nat /\ \A p \in Preps : p.size \in Nat
    /\ Rows \subseteq [low : -(IMax + 1) .. IMax, high : -(IMax + 1) .. IMax,
                       text : STRING, invalid : BOOLEAN, value : Int]

-----------------------------------------------------------------------------
(* Lists built element by element.                                         *)
Only(s, keep(_)) ==
    LET part[i \in 0 .. Len(s)] ==
          IF i = 0 THEN <<>>
          ELSE IF keep(s[i]) THEN Append(part[i - 1], s[i]) ELSE part[i - 1]
    IN  part[Len(s)]

(* _build_field: a field without a width, and a dump the format cannot     *)
(* hold, are skipped.                                                      *)
Fits(p) == p.size # 0 /\ (p.pres \in Dumps => p.size <= MaxDump)
Built(ps) == Only(ps, Fits)

(* A numeric field wider than the extraction accumulator stops the compiler.*)
TooWide(ps) == \E i \in DOMAIN ps : ps[i].pres \notin Dumps /\ ps[i].size > MaxNumeric

(* sorted(..., key = bit_pos): stable, ties stay in file order.            *)
Insert(done, p) ==
    InsertAt(done, 1 + Cardinality({i \in DOMAIN done : done[i].pos <= p.pos}), p)
ByPosition(ps) ==
    LET sorted[i \in 0 .. Len(ps)] == IF i = 0 THEN <<>> ELSE Insert(sorted[i - 1], ps[i])
    IN  sorted[Len(ps)]

-----------------------------------------------------------------------------
(* Arrays: _find_array_runs and _collapse_arrays.                          *)

SameShape(a, b) == a.pres = b.pres /\ a.size = b.size
(* Mutant: the elements of a run may lie at any distances.                 *)
ContinuesUnevenly(fs, i, j) ==
    /\ SameShape(fs[j - 1], fs[j]) /\ fs[j].svc.stem = fs[j - 1].svc.stem
    /\ fs[j].pos - fs[j - 1].pos >= fs[j].size
Continues(fs, i, j) ==     \* field j goes on with the run that begins at i
    LET step == fs[j].pos - fs[j - 1].pos IN
    /\ SameShape(fs[j - 1], fs[j])
    /\ fs[j].svc.stem = fs[j - 1].svc.stem
    /\ step >= fs[j].size
    /\ j > i + 1 => step = fs[i + 1].pos - fs[i].pos

(* Where the run that begins at i ends.                                    *)
RunEnd(fs, i) ==
    CHOOSE e \in i .. Len(fs) :
        /\ \A j \in i + 1 .. e : Continues(fs, i, j)
        /\ e < Len(fs) => ~Continues(fs, i, e + 1)

(* _reads_as_indices: a majority of the numbers are the positions, counted *)
(* from 0 or from 1.                                                       *)
Matches(fs, i, e, base) ==
    Cardinality({j \in i .. e : fs[j].svc.no = j - i + base})
ReadsAsIndices(fs, i, e) ==
    \E base \in {0, 1} : 2 * Matches(fs, i, e, base) > e - i + 1

IsArray(fs, i) ==
    LET e == RunEnd(fs, i) IN e - i + 1 >= 3 /\ ReadsAsIndices(fs, i, e)

(* The records left: an array takes its fields with it, a field that opens *)
(* no array stays, and the search goes on behind either.                   *)
Starts(fs) ==
    LET f[i \in 0 .. Len(fs)] ==       \* starts among the first i fields
            IF i = 0 THEN {}
            ELSE LET before == f[i - 1] IN
                 IF \E s \in before : i <= RunEnd(fs, s) /\ IsArray(fs, s)
                 THEN before ELSE before \cup {i}
    IN  f[Len(fs)]

Nth(S, k) == CHOOSE s \in S : Cardinality({t \in S : t < s}) = k - 1
Collapse(fs) ==
    LET starts == Starts(fs)
    IN  [k \in 1 .. Cardinality(starts) |->
            LET s == Nth(starts, k) IN
            IF IsArray(fs, s)
            THEN [pres |-> fs[s].pres, pos |-> fs[s].pos, size |-> fs[s].size,
                  svc |-> [stem |-> fs[s].svc.stem, no |-> -1],
                  count |-> RunEnd(fs, s) - s + 1, stride |-> fs[s + 1].pos - fs[s].pos,
                  from |-> SubSeq(fs, s, RunEnd(fs, s))]
            ELSE [pres |-> fs[s].pres, pos |-> fs[s].pos, size |-> fs[s].size,
                  svc |-> fs[s].svc, count |-> 1, stride |-> 0, from |-> <<fs[s]>>]]

-----------------------------------------------------------------------------
(* Names: _assign_unique_names.  A name is <<rule, what>>: the presentation*)
(* where it is the only one, else the service where that tells the fields  *)
(* apart, else the presentation and the position.                          *)
Alone(rs, i) == \A j \in DOMAIN rs : j # i => rs[j].pres # rs[i].pres
Named(rs) ==
    LET pending == {i \in DOMAIN rs : ~Alone(rs, i)}
        bySvc(i) == \A j \in pending : j # i => rs[j].svc # rs[i].svc
    IN  [i \in DOMAIN rs |->
            IF i \notin pending THEN <<"presentation", rs[i].pres>>
            ELSE IF bySvc(i) THEN <<"service", rs[i].svc>>
            ELSE <<"position", <<rs[i].pres, rs[i].pos>>>>]

(* The compiler gives up when a name is already taken.                     *)
Collide(names) == \E i, j \in DOMAIN names : i # j /\ names[i] = names[j]

(* compile_catalog, for one group.                                         *)
Records(ps) == Collapse(ByPosition(Built(ps)))
Refused(ps) ==
    LET rs == Records(ps) IN
    \/ TooWide(Built(ps))
    \/ \E i \in DOMAIN rs : rs[i].count > MaxRepeat
    \/ Collide(Named(rs))

-----------------------------------------------------------------------------
(* Conversion rows: _build_scales for an unsigned field.  A row is         *)
(* [low, high, text, invalid, value]: text "" makes it a linear one, and   *)
(* value stands for its factor and offset.                                 *)
Unsigned(b) == b % (2 * (IMax + 1))

NoBounds(r) == r.text = "" /\ r.low = 0 /\ r.high = 0 /\ r.value # 0
Unfit(r) == r.low < 0 \/ r.high < 0
Dropped(r) == ~NoBounds(r) /\ Unfit(r) /\ r.text # ""

Clamp(b) == IF b >= 0 THEN b ELSE IF Unsigned(b) > IMax THEN IMax ELSE Unsigned(b)
Scale(r) ==
    IF NoBounds(r) THEN [r EXCEPT !.high = IMax]
    ELSE [r EXCEPT !.low = Clamp(@), !.high = Clamp(@)]
BuildScales(t) ==
    LET kept == Only(t, LAMBDA r : ~Dropped(r))
    IN  [i \in DOMAIN kept |-> Scale(kept[i])]

(* catalog.evaluate: the first row that holds the raw value decides; an    *)
(* invalid one, or none, is "not available", here 0.                       *)
Decides(t, raw, holds(_, _)) ==
    LET hits == {i \in DOMAIN t : holds(t[i], raw)}
    IN  IF hits = {} THEN 0
        ELSE LET r == t[CHOOSE i \in hits : \A j \in hits : i <= j]
             IN  IF r.invalid THEN 0 ELSE r.value
Evaluate(t, raw) == Decides(t, raw, LAMBDA r, x : r.low <= x /\ x <= r.high)

(* What the database says: bounds of an unsigned field are unsigned, and a *)
(* linear row without bounds holds everything.                             *)
Meaning(t, raw) ==
    Decides(t, raw, LAMBDA r, x : NoBounds(r) \/ (Unsigned(r.low) <= x /\ x <= Unsigned(r.high)))

-----------------------------------------------------------------------------
CompilerInit == preps = <<>> /\ table = <<>>

AddPrep ==
    /\ Len(preps) < MaxPreps /\ table = <<>>
    /\ \E p \in Preps, b \in Positions :
          preps' = Append(preps, [svc |-> p.svc, pres |-> p.pres, pos |-> b, size |-> p.size])
    /\ UNCHANGED table

AddRow ==
    /\ Len(table) < MaxTable /\ preps = <<>>
    /\ \E r \in Rows : table' = Append(table, r)
    /\ UNCHANGED preps

CompilerNext == AddPrep \/ AddRow
CompilerSpec == CompilerInit /\ [][CompilerNext]_compilerVars

-----------------------------------------------------------------------------
(* Below the largest signed bound a raw value is decoded to what the       *)
(* database says of it, as long as no row with a text reaches from a bound *)
(* the format can hold to one it cannot (uds_catalog.py:144-205).          *)
Straddles(r) == Dropped(r) /\ Unsigned(r.low) <= IMax
DecodedAsDeclared ==
    (\A i \in DOMAIN table : ~Straddles(table[i])) =>
        \A raw \in 0 .. IMax - 1 :
            Evaluate(BuildScales(table), raw) = Meaning(table, raw)

(* Every field that is not skipped is in exactly one record, and element k *)
(* of the record lies where the k-th of its fields lies.                   *)
HoldsAll(rs, fs) ==
    /\ FlattenSeq([i \in DOMAIN rs |-> rs[i].from]) = fs
    /\ \A i \in DOMAIN rs :
          /\ Len(rs[i].from) = rs[i].count
          /\ \A k \in DOMAIN rs[i].from :
                /\ rs[i].from[k].pos = rs[i].pos + (k - 1) * rs[i].stride
                /\ rs[i].from[k].size = rs[i].size /\ rs[i].from[k].pres = rs[i].pres
Twins(rs) ==
    \E i, j \in DOMAIN rs : i # j /\ rs[i].pres = rs[j].pres /\ rs[i].pos = rs[j].pos
(* Folding fields into arrays loses and moves none (HoldsAll).  The        *)
(* compiler gives up over names only where the database leaves it no       *)
(* choice: two records with one presentation at one position               *)
(* (uds_catalog.py:327-516).  And what is kept of a field's conversion     *)
(* still says what it said.                                                *)
GroupIsWhole ==
    LET fs == ByPosition(Built(preps))
        rs == Collapse(fs)
    IN  DecodedAsDeclared /\ HoldsAll(rs, fs) /\ (Collide(Named(rs)) => Twins(rs))

(* Two claims of the sources that the compiler does not keep; no run       *)
(* checks them (README, "Where the code and its documents differ").        *)

(* "dropping is lossless": a raw value a dropped row speaks of is "not     *)
(* available" (uds_catalog.py:165-170).                                    *)
DroppingIsLossless ==
    \A i \in DOMAIN table : Dropped(table[i]) =>
        \A raw \in Unsigned(table[i].low) .. Unsigned(table[i].high) :
            Meaning(table, raw) = 0 => Evaluate(BuildScales(table), raw) = 0

(* A reading without a number, such as an average stored before the cells, *)
(* is no element of an array (docs/uds-catalog-format.md:262-266).         *)
AverageIsNoElement ==
    \A i \in DOMAIN Records(preps) :
        LET r == Records(preps)[i] IN
        r.count > 1 => \A k \in DOMAIN r.from : r.from[k].svc.no # -1
=============================================================================
