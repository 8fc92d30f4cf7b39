---------------------------- MODULE CatalogFormat ----------------------------
(***************************************************************************)
(* components/uds/catalog.py: the diagnostic catalog as a structure, the   *)
(* blob write_catalog lays it out as, and read_catalog, which trusts none  *)
(* of it.  A blob is its tables, pools and offsets; a record refers to     *)
(* others by index and to strings by their place in the pool.  The device  *)
(* looks a name up in the blob's index (Catalog::find), the code generator *)
(* in the structure (Catalog.resolve).                                     *)
(*                                                                         *)
(* Abstracted: the strings' bytes (a pool entry is one string), the CRC    *)
(* (a damaged blob is one whose CRC is right again: a compiler's mistake), *)
(* and the numbers a record carries without another one depending on them  *)
(* (CAN ids, timings, factor, offset).                                     *)
(***************************************************************************)
EXTENDS Integers, SequencesExt

CONSTANTS
    EcuNames,     \* names of ECUs
    Names,        \* qualifiers of groups, services and fields
    HashOf,       \* fnv1a32: a number per name; two names may collide
    Requests,     \* request bytes of a group, as sequences
    Levels,       \* security levels a database may ask for
    Shapes,       \* what a field may be: [pos, size, count, stride, block, unit, scales]
    MaxEcus, MaxGroups, MaxFields,      \* bounds of the instance
    MaxRecords, MaxReqLen, MaxRepeatCount, MaxNumericBits, MaxBlockBits,
    MaxBitEnd, MaxRows                  \* the limits of the format (section 8)

VARIABLES
    cat,   \* the catalog being put together: a sequence of ECUs
    blob,  \* what is on flash: Absent, or a blob
    intact \* history: the blob is as write_catalog made it

catVars == <<cat, blob, intact>>
Absent  == [total |-> 0]

(* What a database may hold: a conversion row and a field without its name.*)
RowShapes == [low : Int, high : Int, text : STRING, invalid : BOOLEAN]
FieldShapes ==
    [pos : Nat, size : Nat, count : Nat, stride : Nat, block : BOOLEAN, unit : STRING,
     scales : Seq(RowShapes)]
ASSUME CatalogAssumption ==
    /\ EcuNames \subseteq STRING /\ Names \subseteq STRING /\ IsFiniteSet(Names)
    /\ \A n \in EcuNames \cup Names : HashOf[n] \in Int
    /\ Requests \subseteq Seq(Nat) /\ Levels \subseteq Nat /\ Shapes \subseteq FieldShapes
    /\ {MaxRecords, MaxReqLen, MaxRepeatCount, MaxNumericBits, MaxBlockBits, MaxBitEnd,
        MaxRows} \subseteq Nat

-----------------------------------------------------------------------------
(* The structure.                                                          *)

Groups(c) == FlattenSeq([e \in DOMAIN c |-> c[e].groups])
FieldsIn(gs) == FlattenSeq([g \in DOMAIN gs |-> gs[g].fields])
Fields(c) == FieldsIn(Groups(c))

BitEnd(f) == f.pos + (f.count - 1) * f.stride + f.size

(* _targets: every name and the records it stands for; an alias stands for *)
(* its group, the empty name for nothing.                                  *)
Kinds == {"ecu", "group", "field"}
Targets(c) ==
    LET gs == Groups(c)
        fs == Fields(c)
        all == {<<c[i].name, "ecu", i>> : i \in DOMAIN c}
               \cup {<<gs[i].name, "group", i>> : i \in DOMAIN gs}
               \cup (UNION {{<<a, "group", i>> : a \in gs[i].aliases} : i \in DOMAIN gs})
               \cup {<<fs[i].name, "field", i>> : i \in DOMAIN fs}
    IN  {t \in all : t[1] # ""}

(* Catalog.resolve for a kind: the one record, 0 if none, -1 if several.   *)
Resolve(c, name, kind) ==
    LET hits == {t[3] : t \in {t \in Targets(c) : t[1] = name /\ t[2] = kind}}
    IN  IF hits = {} THEN 0 ELSE IF Cardinality(hits) > 1 THEN -1
        ELSE CHOOSE i \in hits : TRUE

(* _check_limits.                                                          *)
FieldFits(f) ==
    /\ f.count \in 1 .. MaxRepeatCount
    /\ IF f.count = 1 THEN f.stride = 0 ELSE f.stride >= f.size
    /\ IF f.block THEN f.size % 8 = 0 /\ f.size \in 8 .. MaxBlockBits /\ f.pos % 8 = 0
                  ELSE f.size \in 1 .. MaxNumericBits
    /\ BitEnd(f) <= MaxBitEnd
    /\ Len(f.scales) <= MaxRows

GroupFits(g) ==
    /\ Len(g.request) \in 1 .. MaxReqLen
    /\ g.level \in 0 .. 15
    /\ \A i, j \in DOMAIN g.fields :
          i < j => g.fields[i].name # g.fields[j].name /\ g.fields[i].pos <= g.fields[j].pos
    /\ \A i \in DOMAIN g.fields : FieldFits(g.fields[i])

Limits(c) ==
    /\ Len(c) <= MaxRecords /\ Len(Groups(c)) <= MaxRecords /\ Len(Fields(c)) <= MaxRecords
    /\ \A i \in DOMAIN Groups(c) : GroupFits(Groups(c)[i])
    /\ Len(FlattenSeq([i \in DOMAIN Fields(c) |-> Fields(c)[i].scales])) <= MaxRecords

-----------------------------------------------------------------------------
(* write_catalog.                                                          *)

(* Interning: a pool holds what a walk met, first seen first.              *)
Distinct(s) ==
    LET pool[i \in 0 .. Len(s)] ==
          IF i = 0 THEN <<>>
          ELSE IF s[i] \in ToSet(pool[i - 1]) THEN pool[i - 1] ELSE Append(pool[i - 1], s[i])
    IN  pool[Len(s)]
At(pool, x) == CHOOSE i \in DOMAIN pool : pool[i] = x

(* Where item i of a concatenation of sequences begins, counted from 0.    *)
Begin(seqs, i) == Len(FlattenSeq(SubSeq(seqs, 1, i - 1)))

FieldStrings(f) == <<f.name, f.unit>> \o [r \in DOMAIN f.scales |-> f.scales[r].text]
GroupStrings(g) ==
    <<g.name>> \o SetToSeq(g.aliases)
    \o FlattenSeq([i \in DOMAIN g.fields |-> FieldStrings(g.fields[i])])
Strings(c) ==
    FlattenSeq([e \in DOMAIN c |->
        <<c[e].name>> \o FlattenSeq([g \in DOMAIN c[e].groups |-> GroupStrings(c[e].groups[g])])])

Pad4(n) == n + ((-n) % 4)

(* The entries of the name index, sorted by hash, then by target (kind in  *)
(* its high bits).                                                         *)
KindNo(k) == CASE k = "ecu" -> 1 [] k = "group" -> 2 [] OTHER -> 3
Before(a, b) ==
    \/ a.hash < b.hash
    \/ a.hash = b.hash /\ KindNo(a.kind) < KindNo(b.kind)
    \/ a.hash = b.hash /\ a.kind = b.kind /\ a.idx < b.idx
    \/ a.hash = b.hash /\ a.kind = b.kind /\ a.idx = b.idx /\ a.name < b.name
NameIndex(c, pool) ==
    LET S == {[hash |-> HashOf[t[1]], name |-> At(pool, t[1]), kind |-> t[2], idx |-> t[3]] :
                 t \in Targets(c)}
    IN  [i \in 1 .. Cardinality(S) |->
            CHOOSE e \in S : Cardinality({x \in S : Before(x, e)}) = i - 1]

(* The layout: header, tables, request pool padded to four, index, strings.*)
Layout(n) ==
    LET groups == 80 + n.ecus * 24
        fields == groups + n.groups * 20
        scales == fields + n.fields * 20
        req    == scales + n.scales * 24
        index  == Pad4(req + n.req)
        strings == index + n.index * 12
    IN  [ecus |-> 80, groups |-> groups, fields |-> fields, scales |-> scales,
         req |-> req, index |-> index, strings |-> strings, total |-> strings + n.strings]

Write(c) ==
    LET gs   == Groups(c)
        fs   == Fields(c)
        pool == Distinct(<<"">> \o Strings(c))
        reqs == Distinct([g \in DOMAIN gs |-> gs[g].request])
        runs == Distinct([f \in DOMAIN fs |-> fs[f].scales])   \* an empty run takes no row
        rows == FlattenSeq(runs)
        ix   == NameIndex(c, pool)
        gOf  == FlattenSeq([g \in DOMAIN gs |-> [f \in DOMAIN gs[g].fields |-> g]])
        off  == Layout([ecus |-> Len(c), groups |-> Len(gs), fields |-> Len(fs),
                        scales |-> Len(rows), req |-> Len(FlattenSeq(reqs)),
                        index |-> Len(ix), strings |-> Len(pool)])
    IN  [ecus |-> [e \in DOMAIN c |->
            [name |-> At(pool, c[e].name), n |-> Len(c[e].groups),
             first |-> Begin([i \in DOMAIN c |-> c[i].groups], e)]],
         groups |-> [g \in DOMAIN gs |->
            [name |-> At(pool, gs[g].name), level |-> gs[g].level % 16,
             req |-> Begin(reqs, At(reqs, gs[g].request)), reqLen |-> Len(gs[g].request),
             sid |-> Head(gs[g].request), n |-> Len(gs[g].fields),
             first |-> Begin([i \in DOMAIN gs |-> gs[i].fields], g)]],
         fields |-> [f \in DOMAIN fs |->
            [name |-> At(pool, fs[f].name), unit |-> At(pool, fs[f].unit),
             pos |-> fs[f].pos, size |-> fs[f].size, block |-> fs[f].block,
             first |-> IF fs[f].scales = <<>> THEN 0 ELSE Begin(runs, At(runs, fs[f].scales)),
             n |-> Len(fs[f].scales), count |-> fs[f].count, stride |-> fs[f].stride,
             group |-> gOf[f]]],
         scales |-> [r \in DOMAIN rows |-> [rows[r] EXCEPT !.text = At(pool, rows[r].text)]],
         req |-> FlattenSeq(reqs), index |-> ix, strings |-> pool,
         off |-> off, total |-> off.total]

-----------------------------------------------------------------------------
(* read_catalog: each check refuses, and comes before what it protects.    *)

Inside(b, off, len) == 80 <= off /\ off + len <= b.total
TableOk(b, off, n, size) == n = 0 \/ (off % 4 = 0 /\ Inside(b, off, n * size))

LayoutOk(b) ==
    /\ TableOk(b, b.off.ecus, Len(b.ecus), 24)
    /\ TableOk(b, b.off.groups, Len(b.groups), 20)
    /\ TableOk(b, b.off.fields, Len(b.fields), 20)
    /\ TableOk(b, b.off.scales, Len(b.scales), 24)
    /\ TableOk(b, b.off.index, Len(b.index), 12)
    /\ Inside(b, b.off.req, Len(b.req)) /\ Inside(b, b.off.strings, Len(b.strings))
    /\ Len(b.strings) >= 1

RefOk(b, ref) == ref \in DOMAIN b.strings

FieldOk(b, f) ==
    /\ f.first + f.n <= Len(b.scales)
    /\ f.group \in DOMAIN b.groups
    /\ IF f.block THEN f.size % 8 = 0 /\ f.size \in 8 .. MaxBlockBits /\ f.pos % 8 = 0
                  ELSE f.size \in 1 .. MaxNumericBits
    /\ RefOk(b, f.name) /\ RefOk(b, f.unit)

IndexOk(b) ==
    \A i \in DOMAIN b.index :
        LET e == b.index[i] IN
        /\ i > 1 => ~Before([e EXCEPT !.name = 0], [b.index[i - 1] EXCEPT !.name = 0])
        /\ RefOk(b, e.name) /\ HashOf[b.strings[e.name]] = e.hash
        /\ e.idx \in CASE e.kind = "ecu" -> DOMAIN b.ecus [] e.kind = "group" -> DOMAIN b.groups
                       [] OTHER -> DOMAIN b.fields

(* A group's fields are a run of the field table, and each of them names   *)
(* that group as its own.                                                  *)
RunOk(b, g) == b.groups[g].first + b.groups[g].n <= Len(b.fields)
(* Mutant: a field's word for its group is not asked for.                  *)
ParentTrusted(b, g) == TRUE
ParentOk(b, g) ==
    \A f \in b.groups[g].first + 1 .. b.groups[g].first + b.groups[g].n : b.fields[f].group = g
GroupOk(b, g) ==
    LET r == b.groups[g] IN
    /\ RunOk(b, g)
    /\ r.req + r.reqLen <= Len(b.req) /\ r.reqLen >= 1
    /\ b.req[r.req + 1] = r.sid
    /\ RefOk(b, r.name)
    /\ ParentOk(b, g)

(* Python's slice: what of a run lies inside the table.                    *)
Slice(s, first, n) == SubSeq(s, first + 1, IF first + n > Len(s) THEN Len(s) ELSE first + n)

ReadFields(b, first, n) ==
    LET fs == Slice(b.fields, first, n) IN
    [i \in DOMAIN fs |->
        LET rows == Slice(b.scales, fs[i].first, fs[i].n) IN
        [name |-> b.strings[fs[i].name], unit |-> b.strings[fs[i].unit], pos |-> fs[i].pos,
         size |-> fs[i].size, block |-> fs[i].block, stride |-> fs[i].stride,
         count |-> IF fs[i].count > 1 THEN fs[i].count ELSE 1,
         scales |-> [r \in DOMAIN rows |-> [rows[r] EXCEPT !.text = b.strings[rows[r].text]]]]]

(* The aliases of a group live in the index and nowhere else.              *)
ReadGroup(b, g) ==
    LET r == b.groups[g]
        name == b.strings[r.name]
        entries == {i \in DOMAIN b.index : b.index[i].kind = "group" /\ b.index[i].idx = g}
    IN  [name |-> name, level |-> r.level, request |-> Slice(b.req, r.req, r.reqLen),
         aliases |-> {b.strings[b.index[i].name] : i \in entries} \ {name},
         fields |-> ReadFields(b, r.first, r.n)]

EcuOk(b, e) == b.ecus[e].first + b.ecus[e].n <= Len(b.groups) /\ RefOk(b, b.ecus[e].name)

Accepts(b) ==
    /\ LayoutOk(b)
    /\ \A r \in DOMAIN b.scales : RefOk(b, b.scales[r].text)
    /\ \A f \in DOMAIN b.fields : FieldOk(b, b.fields[f])
    /\ IndexOk(b)
    /\ \A g \in DOMAIN b.groups : GroupOk(b, g)
    /\ \A e \in DOMAIN b.ecus : EcuOk(b, e)

Read(b) ==
    [e \in DOMAIN b.ecus |->
        [name |-> b.strings[b.ecus[e].name],
         groups |-> [i \in 1 .. Len(Slice(b.groups, b.ecus[e].first, b.ecus[e].n)) |->
                       ReadGroup(b, b.ecus[e].first + i)]]]

(* The device's lookup: the first entry of that hash by binary search,     *)
(* then along the equal hashes until the name and the kind agree.          *)
Find(b, name, kind) ==
    LET from == {i \in DOMAIN b.index : b.index[i].hash >= HashOf[name]}
        same == {i \in from : /\ b.index[i].hash = HashOf[name] /\ b.index[i].kind = kind
                              /\ b.strings[b.index[i].name] = name}
    IN  IF same = {} THEN 0 ELSE b.index[CHOOSE i \in same : \A j \in same : i <= j].idx

-----------------------------------------------------------------------------
CatInit == cat = <<>> /\ blob = Absent /\ intact = TRUE

AddEcu ==
    /\ blob = Absent /\ Len(cat) < MaxEcus
    /\ \E n \in EcuNames : cat' = Append(cat, [name |-> n, groups |-> <<>>])
    /\ UNCHANGED <<blob, intact>>

(* The aliases are the qualifiers of merged services, which have one.      *)
AddGroup ==
    /\ blob = Absent /\ cat # <<>> /\ Len(Groups(cat)) < MaxGroups
    /\ \E n \in Names, r \in Requests, l \in Levels, a \in SUBSET Names :
          cat' = [cat EXCEPT ![Len(cat)].groups =
                    Append(@, [name |-> n, request |-> r, level |-> l,
                               aliases |-> a \ {n, ""}, fields |-> <<>>])]
    /\ UNCHANGED <<blob, intact>>

AddField ==
    /\ blob = Absent /\ cat # <<>> /\ cat[Len(cat)].groups # <<>> /\ Len(Fields(cat)) < MaxFields
    /\ \E n \in Names, s \in Shapes :
          cat' = [cat EXCEPT ![Len(cat)].groups[Len(cat[Len(cat)].groups)].fields =
                    Append(@, [name |-> n, pos |-> s.pos, size |-> s.size, count |-> s.count,
                               stride |-> s.stride, block |-> s.block, unit |-> s.unit,
                               scales |-> s.scales])]
    /\ UNCHANGED <<blob, intact>>

(* write_catalog refuses, or the blob goes to flash.                       *)
Compile == blob = Absent /\ cat # <<>> /\ Limits(cat) /\ blob' = Write(cat) /\ UNCHANGED <<cat, intact>>

(* One number of one record is another one than the writer meant.          *)
Damage ==
    /\ blob # Absent /\ intact /\ intact' = FALSE
    /\ \/ \E f \in DOMAIN blob.fields, v \in 0 .. 2 :
             \E r \in LET old == blob.fields[f] IN
                       {[old EXCEPT !.name = v], [old EXCEPT !.first = v],
                        [old EXCEPT !.n = v], [old EXCEPT !.group = v]} :
                blob' = [blob EXCEPT !.fields[f] = r]
       \/ \E g \in DOMAIN blob.groups, v \in 0 .. 2 :
             \E r \in LET old == blob.groups[g] IN
                       {[old EXCEPT !.name = v], [old EXCEPT !.first = v], [old EXCEPT !.n = v],
                        [old EXCEPT !.req = v], [old EXCEPT !.reqLen = v]} :
                blob' = [blob EXCEPT !.groups[g] = r]
       \/ \E e \in DOMAIN blob.ecus, v \in 0 .. 2 :
             \E r \in LET old == blob.ecus[e] IN
                       {[old EXCEPT !.name = v], [old EXCEPT !.first = v], [old EXCEPT !.n = v]} :
                blob' = [blob EXCEPT !.ecus[e] = r]
       \/ \E i \in DOMAIN blob.index, v \in 0 .. 2 :
             \E r \in LET old == blob.index[i] IN
                       {[old EXCEPT !.name = v], [old EXCEPT !.idx = v]} :
                blob' = [blob EXCEPT !.index[i] = r]
       \/ \E cut \in {1, 12} : blob' = [blob EXCEPT !.total = @ - cut]
    /\ UNCHANGED cat

CatNext == AddEcu \/ AddGroup \/ AddField \/ Compile \/ Damage
CatSpec == CatInit /\ [][CatNext]_catVars

-----------------------------------------------------------------------------
(* A name the code generator accepts for a kind is found by the device and *)
(* is the same record; one it does not know the device does not find       *)
(* either, colliding hashes or not (catalog.py:414-458, uds_catalog.h:377).*)
ResolvedIsFound ==
    blob # Absent /\ intact =>
        \A n \in EcuNames \cup Names, k \in Kinds :
            Resolve(cat, n, k) # -1 => Find(blob, n, k) = Resolve(cat, n, k)

(* Whatever one number of a blob is changed to, a blob that is accepted is *)
(* read in full: no run is silently cut at the end of its table and every  *)
(* field comes under the group its own record names, never under another   *)
(* one (catalog.py:940-946, 1033-1076).                                    *)
AcceptedIsComplete ==
    blob # Absent /\ Accepts(blob) => LET c == Read(blob) IN
        \A e \in DOMAIN c :
            /\ Len(c[e].groups) = blob.ecus[e].n
            /\ \A i \in DOMAIN c[e].groups :
                  LET g == blob.ecus[e].first + i
                      fs == c[e].groups[i].fields
                  IN  /\ Len(fs) = blob.groups[g].n
                      /\ \A k \in DOMAIN fs :
                            /\ Len(fs[k].scales) = blob.fields[blob.groups[g].first + k].n
                            /\ blob.fields[blob.groups[g].first + k].group = g

(* A catalog survives the way to flash and back: shared strings, requests  *)
(* and scale rows, aliases kept only in the index, padding and offsets     *)
(* included (catalog.py:609-830, 836-1107); names resolve alike on both     *)
(* sides, and a blob that is not intact is refused or read in full.        *)
RoundTrip ==
    /\ blob # Absent /\ intact => Accepts(blob) /\ Read(blob) = cat
    /\ ResolvedIsFound
    /\ AcceptedIsComplete
=============================================================================
