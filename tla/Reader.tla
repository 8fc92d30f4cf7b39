-------------------------------- MODULE Reader -------------------------------
(***************************************************************************)
(* script/sdlog.py: the two ways a card file is read.  parse_file reports  *)
(* on a whole file (`check`, and the gate of the collector and the         *)
(* decoder); StreamReader yields its records with their times (`extract`,  *)
(* the decoder).  The file grows line by line here, and both readers take  *)
(* each line as it comes; the writer's true times are kept beside them.    *)
(*                                                                         *)
(* A line is what the readers can tell of it: its head, its stamp, its     *)
(* values and whether its remaining fields are well formed.  Any line may  *)
(* come back from the card garbled, and the last one may be cut.           *)
(***************************************************************************)
EXTENDS HostCommon, Integers, Sequences, FiniteSets

CONSTANTS MaxLines, MaxStamp,  \* bounds: lines of a file, boot time
          Modulus,             \* SEQ_MODULUS
          Garbles              \* the card may return garbled lines

ASSUME ReaderAssumption ==
    /\ MaxLines \in Nat /\ MaxStamp \in Nat /\ Modulus \in Nat \ {0} /\ Garbles \in BOOLEAN
    /\ None \notin Nat /\ None # "name" /\ None \notin [width : Nat, lost : Int]
    /\ None \notin [t : Nat, utc : Int, basis : {"utc", "drift", "est"}]

VARIABLES written,      \* the writer's boot time
          prev,     \* the stamp column's last value, None at the start of a file
          lines,    \* lines so far
          ended,    \* the last line was cut
          truth,    \* history: true time of the last record StreamReader yielded
          offers,   \* history: the clock statements so far, well formed ones
          gap,      \* history: the seqs the last #gap is about
          rep,      \* parse_file's Report
          str       \* StreamReader (with estimates) and what it yielded last
readerVars == <<written, prev, lines, ended, truth, offers, gap, rep, str>>

-----------------------------------------------------------------------------
(* Values *)
U0 == 10                       \* the true difference of UTC and boot time
CLOCK_BASES == [utc |-> 3, drift |-> 2, est |-> 1]

\* Chain.read: "@" is an anchor, "+" a step; None stands for ValueError
ReadStamp(chain, s) == CASE s.mark = "@" -> s.v
                         [] s.mark = "+" /\ chain # None -> chain + s.v
                         [] OTHER -> None

\* ClockPoint.resolve, UtcAnchor.resolve
Resolve(point, t) == IF point = None THEN None
                     ELSE IF point.utc + (t - point.t) < 0 THEN 0 ELSE point.utc + (t - point.t)

\* ClockState: a later line overrides one of the same or a worse basis; a
\* reading after a worse statement is a correction of it
NoClock == [current |-> None, correction |-> None]
\* mutant: the latest line counts, whatever its basis
OfferLatest(clock, p) == [clock EXCEPT !.current = p]
Offer(clock, p) ==
    LET cur == clock.current IN
    IF cur # None /\ CLOCK_BASES[p.basis] < CLOCK_BASES[cur.basis] THEN clock
    ELSE [current |-> p,
          correction |-> IF cur # None /\ p.basis = "utc" /\ cur.basis # "utc"
                         THEN [was |-> cur.basis, delta |-> p.utc - Resolve(cur, p.t)]
                         ELSE clock.correction]

\* Gap.span and Gap.punctured
Span(g) == IF g.last >= g.first THEN g.last - g.first + 1 ELSE Modulus - g.first + g.last + 1
Punctured(g) == g.chunks # Span(g)

-----------------------------------------------------------------------------
(* parse_file, one line at a time.  A ValueError is a bad line, except on a *)
(* line without terminator; what was assigned before it was raised stays.   *)
NoReport == [done |-> FALSE, bad |-> 0, torn |-> FALSE, close |-> None, chain |-> None,
             anchor |-> None, clock |-> NoClock, label |-> None, count |-> 0, last |-> None,
             utc |-> None, gap |-> None]

\* _parse_meta: a truncated or malformed line is a ValueError before anything
\* is kept, an unknown head is no error
ParseMeta(r, l) ==
    CASE l.k = "sdlog" -> [r EXCEPT !.done = l.version # 2]
      [] l.k = "src"   -> [r EXCEPT !.label = IF @ = None THEN l.label ELSE @]
      [] l.k = "utc"   -> [r EXCEPT !.anchor = l.point, !.clock = Offer(@, l.point)]
      [] l.k = "clock" -> [r EXCEPT !.clock = Offer(@, l.point)]
      [] l.k = "gap"   -> [r EXCEPT !.gap = l.gap]
      [] l.k = "close" -> [r EXCEPT !.close = "reason"]
      [] OTHER         -> r

\* the stamp comes first, off every stream line; then the token and the fields
ParseRecord(r, l) ==
    LET t == ReadStamp(r.chain, l.stamp) IN
    IF l.k = "stub" \/ t = None THEN [r EXCEPT !.bad = @ + 1]
    ELSE IF ~l.ok THEN [r EXCEPT !.chain = t, !.bad = @ + 1]
    ELSE [r EXCEPT !.chain = t, !.last = t, !.count = @ + 1, !.utc = Resolve(r.anchor, t)]

ParseLine(r, l, cut) ==
    LET x == IF l.k = "pad" THEN r
             ELSE IF l.k \in {"record", "stub"} THEN ParseRecord(r, l)
             ELSE IF l.k # "other" /\ ~l.ok THEN [r EXCEPT !.bad = @ + 1]
             ELSE ParseMeta(r, l)
    IN  IF r.done THEN r
        ELSE [x EXCEPT !.torn = cut, !.bad = IF cut THEN r.bad ELSE @]

-----------------------------------------------------------------------------
(* StreamReader: the line without terminator is dropped, an unreadable      *)
(* stamp, #utc or #clock raises ReadError, anything else it does not know   *)
(* is passed over.                                                          *)
NoStream == [pc |-> "reading", chain |-> None, anchor |-> None, clock |-> NoClock, label |-> None,
             count |-> 0, t |-> None, utc |-> None, best |-> None]

StreamRecord(s, l) ==
    LET t == ReadStamp(s.chain, l.stamp) IN
    CASE l.k = "stub" -> s
      [] l.k # "stub" /\ t = None -> [s EXCEPT !.pc = "error"]
      [] OTHER -> [s EXCEPT !.chain = t, !.t = t, !.count = @ + 1, !.utc = Resolve(s.anchor, t),
                            !.best = IF s.clock.current = None THEN None
                                     ELSE <<Resolve(s.clock.current, t), s.clock.current.basis>>]

StreamLine(s, l, cut) ==
    CASE s.pc # "reading"              -> s
      [] s.pc = "reading" /\ cut       -> [s EXCEPT !.pc = "end"]
      [] OTHER ->
         CASE l.k \in {"record", "stub"}            -> StreamRecord(s, l)
           [] l.k = "sdlog" /\ (~l.ok \/ l.version # 2) -> [s EXCEPT !.pc = "error"]
           [] l.k \in {"utc", "clock"} /\ ~l.ok     -> [s EXCEPT !.pc = "error"]
           [] l.k = "src" /\ l.ok                   -> [s EXCEPT !.label = l.label]
           [] l.k = "utc" /\ l.ok                   -> [s EXCEPT !.anchor = l.point, !.clock = Offer(@, l.point)]
           [] l.k = "clock" /\ l.ok                 -> [s EXCEPT !.clock = Offer(@, l.point)]
           [] OTHER                                 -> s

-----------------------------------------------------------------------------
(* The file.  Take(l) gives one line to both readers; a garbled line is one *)
(* that lost its fields, its stamp, its second field or its type letter.    *)
Point(basis, err) == [t |-> written', utc |-> written' + U0 + err, basis |-> basis]
Garbled(l) == {[l EXCEPT !.ok = FALSE], [k |-> "junk", ok |-> FALSE]}
              \cup (IF l.k = "record" THEN {[l EXCEPT !.stamp.mark = "?"], [l EXCEPT !.k = "stub"]} ELSE {})

Take(l) ==
    /\ lines < MaxLines /\ ~ended /\ lines' = lines + 1
    /\ \E cut \in BOOLEAN, x \in IF Garbles THEN {l} \cup Garbled(l) ELSE {l} :
        /\ ended' = cut
        /\ rep' = ParseLine(rep, x, cut)
        /\ str' = StreamLine(str, x, cut)
        /\ truth' = IF str'.count # str.count THEN written' ELSE truth
        /\ offers' = IF x.ok /\ x.k \in {"utc", "clock"} THEN Append(offers, x.point) ELSE offers

\* the writer's clock goes on between two lines
Later == written' \in {t \in written..(written + 1) : t <= MaxStamp}

\* a stream line: the first of a chunk is an anchor, later ones may be
WriteRecord ==
    /\ Later /\ prev' = written'
    /\ \E anchored \in BOOLEAN :
        /\ prev = None => anchored
        /\ Take([k |-> "record", ok |-> TRUE,
                 stamp |-> IF anchored THEN [mark |-> "@", v |-> written'] ELSE [mark |-> "+", v |-> written' - prev]])
    /\ UNCHANGED gap

\* #utc is a reading, #clock a reading, one that ran through deep sleep, or a
\* lower bound
WriteClock ==
    /\ Later
    /\ \/ Take([k |-> "utc", ok |-> TRUE, point |-> Point("utc", 0)])
       \/ \E p \in {Point("utc", 0), Point("drift", 1), Point("est", -2)} :
             Take([k |-> "clock", ok |-> TRUE, point |-> p])
    /\ UNCHANGED <<prev, gap>>

\* #gap: retention emptied a window of seqs, without those already collected;
\* both ends of the window were discarded.  One per file is enough
WriteGap ==
    /\ gap = None
    /\ \E first \in 0..(Modulus - 1), width \in 1..(Modulus - 1), holes \in SUBSET (1..(Modulus - 3)) :
        LET inside == {i \in holes : i < width - 1} IN
        /\ gap' = [width |-> width, lost |-> width - Cardinality(inside)]
        /\ Take([k |-> "gap", ok |-> TRUE,
                 gap |-> [first |-> first, last |-> (first + width - 1) % Modulus, chunks |-> width - Cardinality(inside)]])
    /\ UNCHANGED <<written, prev>>

WriteMeta ==
    /\ \E l \in {[k |-> "sdlog", ok |-> TRUE, version |-> 2], [k |-> "src", ok |-> TRUE, label |-> "name"],
                 [k |-> "close", ok |-> TRUE], [k |-> "pad", ok |-> TRUE], [k |-> "other", ok |-> TRUE]} : Take(l)
    /\ UNCHANGED <<written, prev, gap>>
\* a file of another format version
ForeignFile == /\ lines = 0 /\ \E v \in {1, 3} : Take([k |-> "sdlog", ok |-> TRUE, version |-> v])
               /\ UNCHANGED <<written, prev, gap>>

ReaderInit == /\ written = 0 /\ prev = None /\ lines = 0 /\ ended = FALSE /\ truth = None /\ offers = <<>> /\ gap = None
        /\ rep = NoReport /\ str = NoStream
ReaderNext == WriteRecord \/ WriteClock \/ WriteGap \/ WriteMeta \/ ForeignFile
ReaderSpec == ReaderInit /\ [][ReaderNext]_readerVars

-----------------------------------------------------------------------------
(* Properties *)
Clean == rep.bad = 0

\* While parse_file finds nothing wrong, every time either reader gives is the
\* time the writer meant, `utc` is a reading projected from it and never an
\* estimate, and an estimate is a lower bound; so a decoder that refuses files
\* with bad lines stores no wrong time.
CleanTimesAreTrue ==
    Clean /\ ~rep.done =>
        /\ str.count > 0 /\ str.pc = "reading" => str.t = truth
        /\ rep.count > 0 /\ ~ended => rep.last = truth
        /\ str.utc # None => str.utc = str.t + U0
        /\ rep.utc # None => rep.utc = rep.last + U0
        /\ str.best # None /\ str.best[2] = "est" => str.best[1] < str.t + U0

\* The clock in use is the latest statement of the best basis seen, and a
\* correction states how far the replaced one was off.
ClockIsBest ==
    /\ LET Best == {i \in DOMAIN offers : \A j \in DOMAIN offers :
                        LET bi == CLOCK_BASES[offers[i].basis] bj == CLOCK_BASES[offers[j].basis]
                        IN  bi > bj \/ (bi = bj /\ i >= j)}
       IN  rep.done \/ rep.clock.current = IF offers = <<>> THEN None ELSE offers[CHOOSE i \in Best : TRUE]
    /\ LET k == rep.clock.correction IN k # None => k.delta = IF k.was = "est" THEN 2 ELSE -1

\* A #gap window is called punctured exactly when a seq inside it survived,
\* also across the wrap of seq; its width is never read as a loss.
GapIsRead == Clean /\ rep.gap # None => Punctured(rep.gap) = (gap.lost # gap.width)

\* `check` and `extract` agree on a clean, terminated file: as many records, the
\* same last time, label and clock; and what they agree on is true.
ReadersAgree ==
    /\ CleanTimesAreTrue
    /\ ClockIsBest
    /\ GapIsRead
    /\ Clean /\ ~rep.done /\ ~ended =>
        /\ str.pc = "reading" /\ str.count = rep.count /\ str.label = rep.label
        /\ str.chain = rep.chain /\ str.anchor = rep.anchor /\ str.clock = rep.clock
=============================================================================
