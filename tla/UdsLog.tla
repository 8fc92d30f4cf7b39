------------------------------- MODULE UdsLog -------------------------------
(***************************************************************************)
(* script/sdlog_uds.py: the diagnostic conversation of one ECU read back   *)
(* from one log chunk.  On the car's bus a tester asks, the ECU answers in *)
(* one frame or in a first frame and consecutive frames; the log holds the *)
(* frames of both in order, except those the logger lost.  UdsChunk.feed   *)
(* puts the answers together again and turns them into events: ISO-TP      *)
(* faults, negative responses, changes of a state and of the faults stored.*)
(***************************************************************************)
EXTENDS HostCommon, Integers, SequencesExt

CONSTANTS
    StatusMasks,      \* the status masks a tester reads the fault memory with
    Codes,      \* trouble codes
    States,     \* texts of the one state field of the one catalogued group
    MaxAsks,    \* requests in the chunk
    MaxFrames,  \* the longest answer, in frames
    SnModulus   \* consecutive frames are numbered modulo this (16)

(* A request: the fault memory under a mask, or the catalogued group.  Its *)
(* service identifier is what a negative response repeats.                 *)
FaultReads == [sid : {"19"}, mask : StatusMasks]
GroupReads == [sid : {"22"}, mask : {None}]
Questions == FaultReads \cup GroupReads

Answers ==
    [id : Nat, kind : {"pending", "refused"}, of : Questions, val : {{}}]
    \cup [id : Nat, kind : {"dtcs"}, of : FaultReads, val : SUBSET Codes]
    \cup [id : Nat, kind : {"group"}, of : GroupReads, val : States \cup {"unavailable", "short"}]
LogFrames == [pci : {"single", "first", "consecutive"}, sn : Nat, need : Nat, part : Nat,
              msg : Answers]

ASSUME UdsLogAssumption ==
    /\ MaxFrames \in Nat /\ SnModulus \in Nat \ {0}
    /\ IsFiniteSet(Codes)
    /\ None \notin Questions /\ (\A cs \in SUBSET Codes : cs # None) /\ None \notin Seq(LogFrames)

VARIABLES
    asked,    \* the car: the request the ECU is working on, None if none
    bus,      \* the frames of the answer still to go out
    asks,     \* requests made so far, also the number of the current one
    rx,       \* _Rx: what feed() holds between two frames
    state,    \* UdsChunk.states: the state field as last decoded, None before
    dtcs,     \* UdsChunk.dtcs: request (or None) -> codes last listed
    events,   \* what was written to the events table, in order
    counts,   \* the names UdsChunk.counts holds, never reset
    missed,   \* history: the kinds of frames the log lost
    answered, \* history: request -> what the last logged answer to it listed
    seen      \* history: how much of the current answer the log has; whether its
              \* last frame was thrown away, and whether that was told

udsLogVars == <<asked, bus, asks, rx, state, dtcs, events, counts,
                missed, answered, seen>>

NothingHeld == [started |-> FALSE, buf |-> None, need |-> 0, sn |-> 0,
          quiet |-> FALSE, request |-> None]

UdsLogInit ==
    /\ asked = None /\ bus = <<>> /\ asks = 0
    /\ rx = NothingHeld /\ state = None
    /\ dtcs = [r \in {} |-> {}]
    /\ events = <<>> /\ counts = {} /\ missed = {}
    /\ answered = [r \in {} |-> {}]
    /\ seen = [parts |-> 0, loose |-> FALSE, told |-> TRUE]

-----------------------------------------------------------------------------
(* The car.                                                                *)

(* The log misses a frame: the tap was off, the queue was full, the record *)
(* was garbled.                                                            *)
Lose(what) == missed' = missed \cup {what}

(* feed(), role "tx": a logged single-frame request is remembered until an *)
(* answer closes it.                                                       *)
Ask ==
    /\ asked = None /\ bus = <<>> /\ asks < MaxAsks
    /\ asks' = asks + 1
    /\ \E r \in Questions :
          /\ asked' = r
          /\ \/ rx' = [rx EXCEPT !.request = r] /\ UNCHANGED missed
             \/ Lose("request") /\ UNCHANGED rx
    /\ UNCHANGED <<bus, state, dtcs, events, counts, answered, seen>>

Frames(msg, n) ==
    IF n = 1
    THEN <<[pci |-> "single", sn |-> 0, need |-> 1, part |-> 1, msg |-> msg]>>
    ELSE [i \in 1 .. n |->
            [pci |-> IF i = 1 THEN "first" ELSE "consecutive",
             sn |-> (i - 1) % SnModulus, need |-> n, part |-> i, msg |-> msg]]

(* What an ECU says: "not yet", "no", the codes the mask shows, or the     *)
(* group's state, which may be unavailable or missing from a short answer. *)
Answer ==
    /\ asked # None /\ bus = <<>>
    /\ \/ /\ \E kind \in {"pending", "refused"} :
                bus' = Frames([id |-> asks, kind |-> kind, of |-> asked, val |-> {}], 1)
       \/ /\ asked.sid = "19"
          /\ \E n \in 1 .. MaxFrames, stored \in SUBSET Codes :
                bus' = Frames([id |-> asks, kind |-> "dtcs", of |-> asked, val |-> stored], n)
       \/ /\ asked.sid = "22"
          /\ \E n \in 1 .. MaxFrames, v \in States \cup {"unavailable", "short"} :
                bus' = Frames([id |-> asks, kind |-> "group", of |-> asked, val |-> v], n)
    /\ UNCHANGED <<asked, asks, rx, state, dtcs, events, counts,
                   missed, answered, seen>>

-----------------------------------------------------------------------------
(* UdsChunk._message and what it calls, on a reader's state s =            *)
(* [rx, state, dtcs, events, counts].  An event is [kind, name, text].     *)

Ev(kind, name, text) == [kind |-> kind, name |-> name, text |-> text]
Raise(s, e) == [s EXCEPT !.events = Append(@, e)]
Count(s, what) == [s EXCEPT !.counts = @ \cup {what}]

(* What an assembled answer says.  Joined of two answers it would carry the *)
(* bytes of both: it is read as the one its head belongs to.               *)
Said(parts) == parts[1].msg

(* _dtcs: the codes listed are compared with those the same request listed *)
(* before; a request the log does not show is "the same" as any other one. *)
DtcEvents(previous, current) ==
    LET detail(c) == IF previous = None THEN "initial" ELSE "new"
        news == {Ev("dtc", c, detail(c)) :
                   c \in {c \in current : previous = None \/ c \notin previous}}
        gone == IF previous = None THEN {}
                ELSE {Ev("dtc", c, "cleared") : c \in previous \ current}
    IN  news \cup gone

DtcAnswer(s, msg) ==
    LET request  == IF s.rx.request # None /\ s.rx.request.sid = "19"
                    THEN s.rx.request ELSE None
        previous == IF request \in DOMAIN s.dtcs THEN s.dtcs[request] ELSE None
    IN  [s EXCEPT !.events = @ \o SetToSeq(DtcEvents(previous, msg.val)),
                  !.dtcs = [r \in DOMAIN @ \cup {request} |->
                               IF r = request THEN msg.val ELSE @[r]],
                  !.rx.request = None]

(* _state: an event only when the state is another one than before.        *)
StateAnswer(s, v) ==
    IF s.state = v THEN s
    ELSE Raise([s EXCEPT !.state = v],
               Ev("state", v, IF s.state = None THEN "initial" ELSE s.state))

(* _group: a field past the answer's end is left out; a numeric field that *)
(* is unavailable is a state of its own, and an event when all of them are.*)
GroupAnswer(s, v) ==
    CASE v = "short"       -> Count(s, "partial answers")
      [] v = "unavailable" -> Raise(StateAnswer(Count(s, "unavailable values"), v),
                                    Ev("unavailable", v, ""))
      [] OTHER             -> StateAnswer(s, v)

Message(s, msg) ==
    CASE msg.kind = "pending" -> Count(s, "pending")
      [] msg.kind = "refused" ->
            LET same == s.rx.request # None /\ s.rx.request.sid = msg.of.sid
            IN  Raise([s EXCEPT !.rx.request = None],
                      Ev("nrc", IF same THEN s.rx.request ELSE None, msg.of))
      [] msg.kind = "dtcs"    -> DtcAnswer(s, msg)
      [] OTHER                -> GroupAnswer([s EXCEPT !.rx.request = None], msg.val)

-----------------------------------------------------------------------------
(* UdsChunk.feed, role "rx".                                               *)

(* _abandon: a new message while another is incomplete.                    *)
Abandon(s) ==
    IF s.rx.buf = None THEN s
    ELSE Raise([s EXCEPT !.rx.buf = None], Ev("isotp", "incomplete", Len(s.rx.buf)))

Single(s, f) ==
    Message([Abandon(s) EXCEPT !.rx.started = TRUE, !.rx.quiet = FALSE], f.msg)

First(s, f) ==
    [Abandon(s) EXCEPT !.rx.started = TRUE, !.rx.quiet = FALSE,
                       !.rx.buf = <<f>>, !.rx.need = f.need, !.rx.sn = 1 % SnModulus]

\* mutant: the sequence number is not compared
ConsecutiveUnchecked(s, f) ==
    IF s.rx.buf = None THEN Raise(s, Ev("isotp", "orphan", 1))
    ELSE LET parts == Append(s.rx.buf, f)
         IN  IF Len(parts) >= s.rx.need
             THEN Message([s EXCEPT !.rx.buf = None,
                                    !.rx.sn = (@ + 1) % SnModulus], Said(parts))
             ELSE [s EXCEPT !.rx.buf = parts, !.rx.sn = (@ + 1) % SnModulus]
Consecutive(s, f) ==
    IF s.rx.buf = None
    THEN CASE ~s.rx.started -> Count(s, "frames cut at the start")
           [] s.rx.started /\ s.rx.quiet -> s
           [] OTHER -> Raise([s EXCEPT !.rx.quiet = TRUE], Ev("isotp", "orphan", 1))
    ELSE IF f.sn # s.rx.sn
    THEN Raise([s EXCEPT !.rx.buf = None, !.rx.quiet = TRUE],
               Ev("isotp", "sequence", Len(s.rx.buf)))
    ELSE LET parts == Append(s.rx.buf, f)
         IN  IF Len(parts) >= s.rx.need
             THEN Message([s EXCEPT !.rx.buf = None,
                                    !.rx.sn = (@ + 1) % SnModulus], Said(parts))
             ELSE [s EXCEPT !.rx.buf = parts, !.rx.sn = (@ + 1) % SnModulus]

Feed(s, f) ==
    CASE f.pci = "single" -> Single(s, f)
      [] f.pci = "first"  -> First(s, f)
      [] OTHER            -> Consecutive(s, f)

ChunkRead == [rx |-> rx, state |-> state, dtcs |-> dtcs, events |-> events, counts |-> counts]

Goes(s) ==
    /\ rx' = s.rx /\ state' = s.state /\ dtcs' = s.dtcs
    /\ events' = s.events /\ counts' = s.counts

(* The frames of an answer whose last frame is out end the request, except *)
(* "not yet".                                                              *)
Sent(f) ==
    /\ bus' = Tail(bus)
    /\ asked' = IF Len(bus) = 1 /\ f.msg.kind # "pending" THEN None ELSE asked
    /\ UNCHANGED asks

(* A frame the reader threw away: it is in no message and not held for one.*)
Thrown(f) == f.pci = "consecutive" /\ (rx.buf = None \/ f.sn # rx.sn)

Logged ==
    /\ bus # <<>>
    /\ LET f == Head(bus)
           s == Feed(ChunkRead, f)
       IN  /\ Goes(s)
           /\ answered' = IF f.msg.kind = "dtcs" /\ seen.parts + 1 = f.need
                          THEN [r \in DOMAIN answered \cup {f.msg.of} |->
                                  IF r = f.msg.of THEN f.msg.val ELSE answered[r]]
                          ELSE answered
           /\ seen' = [parts |-> IF Len(bus) = 1 THEN 0 ELSE seen.parts + 1,
                       loose |-> Thrown(f),
                       told  |-> \/ Len(s.events) > Len(events)
                                 \/ "frames cut at the start" \in s.counts /\ ~s.rx.started
                                 \/ f.pci = "consecutive" /\ seen.loose /\ seen.told]
           /\ Sent(f)
    /\ UNCHANGED missed

Missed ==
    /\ bus # <<>>
    /\ Lose(Head(bus).pci)
    /\ seen' = [seen EXCEPT !.parts = IF Len(bus) = 1 THEN 0 ELSE @]
    /\ Sent(Head(bus))
    /\ UNCHANGED <<rx, state, dtcs, events, counts, answered>>

UdsLogNext == Ask \/ Answer \/ Logged \/ Missed
UdsLogSpec == UdsLogInit /\ [][UdsLogNext]_udsLogVars

-----------------------------------------------------------------------------
(* A frame of an answer that ends up in no answer is never passed over in  *)
(* silence: it raised an event, was counted, or follows, with no new       *)
(* answer in between, a frame that did (sdlog_uds.py:351-367, 376-388).    *)
NothingDroppedSilently == seen.loose => seen.told

(* With every request in the log, what is known of the fault memory under  *)
(* a mask is what the ECU last answered to a request with that mask: no    *)
(* refusal, "not yet" or lost answer in between makes one mask's answer be *)
(* compared with another's.  And when only one mask was used, replaying    *)
(* the fault events from nothing gives those codes: "initial" and "new"    *)
(* add, "cleared" removes (sdlog_uds.py:403-414, 472-493).                 *)
Replayed(c) ==
    LET about == {i \in DOMAIN events : events[i].kind = "dtc" /\ events[i].name = c}
    IN  \E i \in about : (\A j \in about : j <= i) /\ events[i].text # "cleared"
FaultEventsReplay ==
    missed \cap {"request", "first"} = {} =>
        /\ dtcs = answered
        /\ Cardinality(DOMAIN dtcs) = 1 =>
              \A r \in DOMAIN dtcs : dtcs[r] = {c \in Codes : Replayed(c)}

(* A negative response is named after a request only if the ECU refused    *)
(* that very request, whatever answers the log lost, as long as it holds   *)
(* every request (sdlog_uds.py:403-407).                                   *)
RefusalNamesItsRequest ==
    "request" \notin missed =>
        \A i \in DOMAIN events :
            events[i].kind = "nrc" => events[i].name \in {None, events[i].text}

(* An answer is put together of the frames of one answer of the ECU, as    *)
(* long as the log did not lose the first frame of a long one: sequence    *)
(* numbers wrap, so a longer hole that hides a first frame can join the    *)
(* head of one answer to the tail of the next (sdlog_uds.py:345-372).  And *)
(* nothing of it is lost, replayed or named wrongly.                       *)
HeldIsOneAnswer ==
    /\ NothingDroppedSilently
    /\ FaultEventsReplay
    /\ RefusalNamesItsRequest
    /\ rx.buf # None /\ "first" \notin missed =>
        \A i, j \in DOMAIN rx.buf : rx.buf[i].msg = rx.buf[j].msg
=============================================================================
