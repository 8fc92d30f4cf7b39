------------------------------- MODULE UdsHub -------------------------------
(***************************************************************************)
(* The UDS client of components/uds: the hub (uds.cpp) and its poll        *)
(* scheduler (uds_sched.h) above one ISO-TP session.  Everything in the    *)
(* hub runs in the main loop, so a handler is one step; what interleaves   *)
(* is the loop pass, the transport's callbacks (a message, an error), the  *)
(* operator's actions, the clock and an ECU that answers late, with        *)
(* "response pending", negatively, in part or not at all.                  *)
(*                                                                         *)
(* A group is one catalog request; Sid and Ident are the bytes a response  *)
(* echoes (a negative response echoes the SID alone).  Ident is only what  *)
(* echo_len() looks at: the first DID of a 0x22, the byte after a 0x1A,    *)
(* 0x21 or 0x19, nothing of any other service; groups may share it, and a  *)
(* late answer to one is then an answer to the other.  A slot of the poll  *)
(* table is its group.  The code reads the millisecond counter only as a   *)
(* difference to a stored time; a stored time is therefore kept as how far *)
(* ahead it lies, and the clock moves by shrinking them all.  Among groups *)
(* already due only who came first matters: hub.before.                    *)
(***************************************************************************)
EXTENDS Integers, Sequences, FiniteSets

CONSTANTS Groups,        \* catalog groups: 1..n, in poll-table order
          Tables,        \* poll tables: the groups some entity gives an update
                         \* interval, one set per configuration considered
          Readable,      \* groups uds.read and uds.execute may name
          RawRequests,   \* the groups whose bytes uds.raw is given
          Unsendable,    \* groups build_request() refuses to assemble
          Sid, Ident,    \* [Groups -> _]: service of a request and what its answer echoes
          Interval,      \* [Groups -> Nat]: update interval
          Bindings,      \* entities: 1..m, in binding order
          BGroup,        \* [Bindings -> Groups]
          Uncovered,     \* the bindings past the end of a partial answer
          P2, P2Ext,     \* response deadlines
          BackoffCap,    \* SCHED_BACKOFF_CAP_MS
          MaxFailures,   \* max_consecutive_failures
          FailCap,       \* 0xFF: where the failure count saturates
          MaxPending,    \* UDS_MAX_PENDING
          QueueSize,     \* UDS_ONDEMAND_QUEUE
          PerLoop,       \* UDS_PUBLISH_PER_LOOP
          AskedBound,    \* bound: requests the ECU remembers
          Ops            \* bound: [Tables -> Nat], reads and raw requests asked for;
                         \* where it is 0 the operator is away

ASSUME UdsAssumption ==
  /\ Groups \subseteq Nat \ {0} /\ Tables \subseteq SUBSET Groups
  /\ Readable \subseteq Groups /\ RawRequests \subseteq Groups /\ Unsendable \subseteq Groups
  /\ Interval \in [Groups -> 1..BackoffCap] /\ BackoffCap \in Nat
  /\ IsFiniteSet(Bindings) /\ Bindings # {} /\ Bindings = 1..Cardinality(Bindings)
  /\ BGroup \in [Bindings -> Groups]
  /\ P2 \in Nat \ {0} /\ P2Ext \in Nat \ {0}
  /\ MaxFailures \in Nat /\ FailCap \in Nat /\ MaxPending \in Nat
  /\ QueueSize \in Nat /\ PerLoop \in Nat /\ AskedBound \in Nat
  /\ Ops \in [Tables -> Nat]

NoGroup == 0
Less(n) == IF n > 0 THEN n - 1 ELSE 0
More(n, cap) == IF n < cap THEN n + 1 ELSE n

(* Table order: who goes first among groups that come due together.        *)
InTableOrder(S) == {p \in S \X S : p[1] < p[2]}

VARIABLES
  polled,    \* the poll table's groups, fixed by setup()
  looped,    \* a loop pass ran since the clock last moved
  hub,       \* UdsHub and its GroupScheduler; two fields are history only:
             \* missed, the polled failures of a group since its last decode,
             \* and revived, the groups that an on-demand answer filled while
             \* they were unavailable or suspended
  tx,        \* the group whose request isotp is sending, or NoGroup
  asked,     \* requests the ECU has received and not yet answered
  rx,        \* the multi-frame answer isotp is reassembling
  ops,       \* reads and raw requests asked for so far
  gaveUp     \* (history) the hub gave up on a request, and whenever it sent one
             \* since, the ECU still owed it an answer

udsVars == <<polled, looped, hub, tx, asked, rx, ops, gaveUp>>

NoRx == [group |-> NoGroup, kind |-> "none"]
MessageKinds == {"full", "short"}
NegativeKinds == {"pending", "unsupported", "busy"}

(* The groups that are due, and the order in which they became it.         *)
Overdue(h) == {g \in DOMAIN h.due : h.due[g] = 0}
OverdueInOrder(h) ==
  /\ h.before \subseteq Overdue(h) \X Overdue(h)
  /\ \A g, k \in Overdue(h) : <<g, k>> \in h.before <=> g # k /\ <<k, g>> \notin h.before
  /\ \A g, k, l \in Overdue(h) :
       <<g, k>> \in h.before /\ <<k, l>> \in h.before => <<g, l>> \in h.before

UdsTypeOK ==
  /\ polled \in Tables /\ looped \in BOOLEAN
  /\ hub.due \in [polled -> 0..BackoffCap]
  /\ OverdueInOrder(hub)
  /\ hub.backoff \in [polled -> 0..BackoffCap]
  /\ hub.fails \in [polled -> 0..FailCap]
  /\ hub.suspended \subseteq polled /\ hub.unavailable \subseteq polled
  /\ hub.slot \in polled \cup {NoGroup}
  /\ hub.kind \in {"none", "polled", "ondemand", "raw"}
  /\ hub.group \in Groups \cup {NoGroup}
  /\ hub.deadline \in (0..P2) \cup (0..P2Ext)
  /\ hub.pend \in 0..MaxPending
  /\ hub.queue \in Seq(Groups) /\ Len(hub.queue) <= QueueSize
  /\ hub.raw \in Groups \cup {NoGroup}
  /\ hub.enabled \in BOOLEAN
  /\ hub.cursor \in 0..(Cardinality(Bindings) - 1)
  /\ hub.valid \subseteq Bindings /\ hub.dirty \subseteq Bindings
  /\ hub.uncovered \subseteq Bindings
  /\ hub.missed \in [Groups -> 0..MaxFailures] /\ hub.revived \subseteq Groups
  /\ tx \in Groups \cup {NoGroup}
  /\ asked \in Seq(Groups) /\ Len(asked) <= AskedBound
  /\ rx \in [group : Groups, kind : MessageKinds] \cup {NoRx}
  /\ ops \in 0..Ops[polled] /\ gaveUp \in BOOLEAN

(* setup(): every polled group is due at once; every entity starts         *)
(* unpublished.                                                            *)
UdsInit ==
  /\ polled \in Tables /\ looped = FALSE
  /\ hub = [due |-> [g \in polled |-> 0], before |-> InTableOrder(polled),
            backoff |-> [g \in polled |-> 0],
            fails |-> [g \in polled |-> 0], suspended |-> {}, unavailable |-> {},
            slot |-> NoGroup, kind |-> "none", group |-> NoGroup, deadline |-> 0,
            pend |-> 0, queue |-> <<>>, raw |-> NoGroup, enabled |-> TRUE,
            cursor |-> 0, valid |-> {}, dirty |-> {}, uncovered |-> {},
            missed |-> [g \in Groups |-> 0], revived |-> {}]
  /\ tx = NoGroup /\ asked = <<>> /\ rx = NoRx /\ ops = 0 /\ gaveUp = FALSE

-----------------------------------------------------------------------------
(* The scheduler.                                                          *)

(* next(): the group that has been due longest, in table order for those   *)
(* that came due together, among the ones not suspended; none while a slot *)
(* is in flight.                                                           *)
MostOverdue(h) ==
  LET due == Overdue(h) \ h.suspended
  IN  {g \in due : h.slot = NoGroup /\ \A k \in due : <<k, g>> \notin h.before}

(* A judged group is due again n later.                                    *)
Again(h, g, n) == [h EXCEPT !.due[g] = n, !.before = {p \in @ : p[1] # g /\ p[2] # g}]

(* Mutant: on_success() leaves the slot in flight.                         *)
OnSuccessKeepsSlot(h, g) ==
  [Again(h, g, Interval[g]) EXCEPT
            !.fails[g] = 0, !.backoff[g] = 0, !.unavailable = @ \ {g},
            !.revived = @ \ {g}]
OnSuccess(h, g) ==
  [Again(h, g, Interval[g]) EXCEPT
            !.slot = NoGroup, !.fails[g] = 0, !.backoff[g] = 0, !.unavailable = @ \ {g},
            !.revived = @ \ {g}]

Doubled(h, g) ==
  LET base == IF h.backoff[g] # 0 THEN h.backoff[g] ELSE Interval[g]
  IN  IF base > BackoffCap \div 2 THEN BackoffCap ELSE 2 * base

Crosses(h, g) == g \notin h.unavailable /\ h.fails[g] + 1 >= MaxFailures

(* publish_group_unavailable_().                                           *)
MarkUnavailable(h, g) ==
  LET of == {b \in Bindings : BGroup[b] = g}
  IN  [h EXCEPT !.valid = @ \ of, !.dirty = @ \cup of, !.revived = @ \ {g}]

(* on_failure() with the publication its caller owes when it returns true. *)
OnFailure(h, g) ==
  LET f == [Again(h, g, Doubled(h, g)) EXCEPT
            !.slot = NoGroup, !.fails[g] = More(@, FailCap),
                     !.backoff[g] = Doubled(h, g),
                     !.missed[g] = More(@, MaxFailures),
                     !.unavailable = IF Crosses(h, g) THEN @ \cup {g} ELSE @]
  IN  IF Crosses(h, g) THEN MarkUnavailable(f, g) ELSE f

Suspend(h, g) == [h EXCEPT !.slot = NoGroup, !.suspended = @ \cup {g}]

-----------------------------------------------------------------------------
(* The hub's handlers as functions of its state.                           *)

(* finish_in_flight_(); the deadline means nothing once nothing is in      *)
(* flight and is normalised to 0.                                          *)
Finish(h) ==
  [h EXCEPT !.kind = "none", !.group = NoGroup, !.pend = 0, !.deadline = 0]

(* fail_in_flight_(), and loop()'s expiry: only a polled request is judged.*)
FailInFlight(h) ==
  Finish(IF h.kind = "polled" THEN OnFailure(h, h.slot) ELSE h)

(* suspend_in_flight_(): a raw request belongs to no group (0xFFFF).       *)
SuspendInFlight(h) ==
  LET s == IF h.kind = "polled" THEN Suspend(h, h.slot) ELSE h
  IN  Finish(IF h.kind = "raw" THEN s ELSE MarkUnavailable(s, h.group))

(* decode_group_() with note_uncovered_().                                 *)
Decode(h, kind) ==
  LET of   == {b \in Bindings : BGroup[b] = h.group}
      past == IF kind = "short" THEN of \cap Uncovered ELSE {}
      new  == past \ h.uncovered
  IN  [h EXCEPT !.valid = (@ \cup (of \ past)) \ new,
                !.dirty = @ \cup (of \ past) \cup new,
                !.uncovered = (@ \ (of \ past)) \cup new,
                !.missed[h.group] = 0,
                !.revived = IF h.group \in h.unavailable \cup h.suspended
                               THEN @ \cup {h.group} ELSE @]

(* Mutant of on_message(): the answer to another identifier is accepted.   *)
OursBySid(h, ans) == h.kind # "none" /\ Sid[ans.group] = Sid[h.group]

(* classify_response(): a positive answer echoes service and identifier,   *)
(* a negative one the service alone.                                       *)
Ours(h, ans) ==
  /\ h.kind # "none"
  /\ Sid[ans.group] = Sid[h.group]
  /\ ans.kind \in MessageKinds => Ident[ans.group] = Ident[h.group]

HandlePending(h) ==
  IF h.pend + 1 > MaxPending
    THEN FailInFlight(h)
    ELSE [h EXCEPT !.pend = @ + 1, !.deadline = P2Ext]

Accept(h, ans) ==
  LET d == IF h.kind = "raw" THEN h ELSE Decode(h, ans.kind)
  IN  Finish(IF h.kind = "polled" THEN OnSuccess(d, h.slot) ELSE d)

OnMessage(h, ans) ==
  IF ~Ours(h, ans) THEN h
  ELSE CASE ans.kind = "pending"       -> HandlePending(h)
         [] ans.kind = "unsupported"   -> SuspendInFlight(h)
         [] ans.kind = "busy"          -> FailInFlight(h)
         [] ans.kind \in MessageKinds  -> Accept(h, ans)

OnError(h) == IF h.kind = "none" THEN h ELSE FailInFlight(h)

(* The deadline has passed.                                                *)
Expired(h) == h.kind # "none" /\ rx = NoRx /\ h.deadline = 0

(* The ECU has a request it did not answer in full yet.                    *)
Owed == asked # <<>> \/ rx # NoRx

(* loop(): the deadline slides while an answer is being reassembled, then  *)
(* expires.                                                                *)
Deadlines(h) ==
  LET slid == IF h.kind # "none" /\ rx # NoRx
                THEN [h EXCEPT !.deadline = P2] ELSE h
  IN  IF Expired(slid) THEN FailInFlight(slid) ELSE slid

Issued(h, kind, g) ==
  [h EXCEPT !.kind = kind, !.group = g, !.deadline = P2]

(* Mutant: a refused send leaves the slot in flight.                       *)
IssuePolledKeepsSlot(h) ==
  LET due == MostOverdue(h)
      g == CHOOSE g \in due : TRUE
  IN  CASE due = {} -> [hub |-> h, send |-> NoGroup]
        [] due # {} /\ g \in Unsendable ->
             [hub |-> MarkUnavailable(Suspend(h, g), g), send |-> NoGroup]
        [] due # {} /\ g \notin Unsendable /\ tx # NoGroup ->
             [hub |-> [h EXCEPT !.slot = g, !.deadline = P2], send |-> NoGroup]
        [] OTHER -> [hub |-> [Issued(h, "polled", g) EXCEPT !.slot = g], send |-> g]

(* The poller's turn: next(), then send_group_(), which isotp refuses      *)
(* while a transfer is in flight; the slot is then released unjudged.      *)
IssuePolled(h) ==
  LET due == MostOverdue(h)
      g == CHOOSE g \in due : TRUE
  IN  CASE due = {} -> [hub |-> h, send |-> NoGroup]
        [] due # {} /\ g \in Unsendable ->
             [hub |-> MarkUnavailable(Suspend(h, g), g), send |-> NoGroup]
        [] due # {} /\ g \notin Unsendable /\ tx # NoGroup ->
             [hub |-> h, send |-> NoGroup]
        [] OTHER -> [hub |-> [Issued(h, "polled", g) EXCEPT !.slot = g], send |-> g]

(* The operator's queue: an unsendable request is dropped, a refused one   *)
(* offered again.                                                          *)
IssueQueued(h) ==
  LET g == Head(h.queue)
      popped == [h EXCEPT !.queue = Tail(@)]
  IN  CASE g \in Unsendable                    -> [hub |-> popped, send |-> NoGroup]
        [] g \notin Unsendable /\ tx # NoGroup -> [hub |-> h, send |-> NoGroup]
        [] OTHER -> [hub |-> Issued(popped, "ondemand", g), send |-> g]

IssueRaw(h) ==
  IF tx # NoGroup
    THEN [hub |-> h, send |-> NoGroup]
    ELSE [hub |-> [Issued(h, "raw", h.raw) EXCEPT !.raw = NoGroup], send |-> h.raw]

(* issue_next_(): raw before queued before polled.                         *)
IssueNext(h) ==
  CASE ~(h.kind = "none" /\ h.enabled) -> [hub |-> h, send |-> NoGroup]
    [] h.kind = "none" /\ h.enabled /\ h.raw # NoGroup -> IssueRaw(h)
    [] h.kind = "none" /\ h.enabled /\ h.raw = NoGroup /\ h.queue # <<>> -> IssueQueued(h)
    [] OTHER -> IssuePolled(h)

At(h, k) == 1 + ((h.cursor + k) % Cardinality(Bindings))

(* publish_dirty_(): at most PerLoop entities, from the cursor on; the     *)
(* cursor stops behind the last one published when the budget is spent.    *)
PublishDirty(h) ==
  LET offsets == {k \in 0..(Cardinality(Bindings) - 1) : At(h, k) \in h.dirty}
      nth(k)  == Cardinality({j \in offsets : j <= k})
      out     == {At(h, k) : k \in {j \in offsets : nth(j) <= PerLoop}}
      last    == {At(h, k) : k \in {j \in offsets : nth(j) = PerLoop}}
  IN  [h EXCEPT !.dirty = @ \ out,
                !.cursor = IF last = {} THEN @
                           ELSE (CHOOSE b \in last : TRUE) % Cardinality(Bindings)]

-----------------------------------------------------------------------------
Loop ==
  LET d == Deadlines(hub)
      i == IssueNext(d)
  IN  /\ hub' = PublishDirty(i.hub)
      /\ tx' = IF i.send = NoGroup THEN tx ELSE i.send
      /\ looped' = TRUE
      /\ gaveUp' = ((gaveUp \/ Expired(hub)) /\ (i.send = NoGroup \/ Owed))
      /\ UNCHANGED <<polled, asked, rx, ops>>

(* Time moves only past a loop pass: the loop runs far more often than any *)
(* deadline.                                                               *)
Tick ==
  /\ looped
  /\ looped' = FALSE
  /\ LET new == {g \in polled : hub.due[g] = 1} IN
     hub' = [hub EXCEPT !.due = [g \in polled |-> Less(@[g])],
                        !.before = @ \cup (Overdue(hub) \X new) \cup InTableOrder(new),
                        !.deadline = Less(@)]
  /\ UNCHANGED <<polled, tx, asked, rx, ops, gaveUp>>

(* isotp finishes sending; the ECU receives the request or does not.       *)
TxDone ==
  /\ tx # NoGroup
  /\ \/ asked' = asked
     \/ Len(asked) < AskedBound /\ asked' = Append(asked, tx)
  /\ tx' = NoGroup
  /\ UNCHANGED <<polled, looped, hub, rx, ops, gaveUp>>

TxFails ==
  /\ tx # NoGroup
  /\ tx' = NoGroup
  /\ hub' = OnError(hub)
  /\ UNCHANGED <<polled, looped, asked, rx, ops, gaveUp>>

(* The ECU answers its oldest request in one frame; "response pending"     *)
(* keeps the request open.                                                 *)
EcuAnswers(kind) ==
  /\ asked # <<>> /\ rx = NoRx
  /\ asked' = IF kind = "pending" THEN asked ELSE Tail(asked)
  /\ hub' = OnMessage(hub, [group |-> Head(asked), kind |-> kind])
  /\ gaveUp' = (gaveUp \/ (kind = "pending" /\ hub'.kind = "none"))
  /\ UNCHANGED <<polled, looped, tx, rx, ops>>

(* The ECU starts a segmented answer, or never answers at all.             *)
EcuStarts(kind) ==
  /\ asked # <<>> /\ rx = NoRx
  /\ rx' = [group |-> Head(asked), kind |-> kind]
  /\ asked' = Tail(asked)
  /\ UNCHANGED <<polled, looped, hub, tx, ops, gaveUp>>

EcuForgets ==
  /\ asked # <<>>
  /\ asked' = Tail(asked)
  /\ UNCHANGED <<polled, looped, hub, tx, rx, ops, gaveUp>>

RxComplete ==
  /\ rx # NoRx
  /\ rx' = NoRx
  /\ hub' = OnMessage(hub, rx)
  /\ UNCHANGED <<polled, looped, tx, asked, ops, gaveUp>>

RxFails ==
  /\ rx # NoRx
  /\ rx' = NoRx
  /\ hub' = OnError(hub)
  /\ UNCHANGED <<polled, looped, tx, asked, ops, gaveUp>>

(* The operator: uds.read and uds.execute, uds.raw, and the switch.        *)
RequestRead(g) ==
  /\ ops < Ops[polled] /\ ops' = ops + 1
  /\ Len(hub.queue) < QueueSize
  /\ hub' = [hub EXCEPT !.queue = Append(@, g)]
  /\ UNCHANGED <<polled, looped, tx, asked, rx, gaveUp>>

SendRaw(g) ==
  /\ ops < Ops[polled] /\ ops' = ops + 1
  /\ hub.raw = NoGroup
  /\ hub' = [hub EXCEPT !.raw = g]
  /\ UNCHANGED <<polled, looped, tx, asked, rx, gaveUp>>

SetEnabled ==
  /\ Ops[polled] > 0
  /\ hub' = [hub EXCEPT !.enabled = ~@]
  /\ UNCHANGED <<polled, looped, tx, asked, rx, ops, gaveUp>>

UdsNext ==
  \/ Loop \/ Tick \/ TxDone \/ TxFails \/ RxComplete \/ RxFails \/ EcuForgets
  \/ \E kind \in MessageKinds \cup NegativeKinds : EcuAnswers(kind)
  \/ \E kind \in MessageKinds : EcuStarts(kind)
  \/ \E g \in Readable : RequestRead(g)
  \/ \E g \in RawRequests : SendRaw(g)
  \/ SetEnabled

UdsSpec == UdsInit /\ [][UdsNext]_udsVars

(* The loop keeps running and the clock keeps moving; isotp ends what it   *)
(* started, because its stall, N_Bs and N_Cr timers do.                    *)
UdsFairness ==
  /\ []<>looped /\ []<>~looped
  /\ []<>(tx = NoGroup) /\ []<>(rx = NoRx)

UdsFairSpec == UdsSpec /\ UdsFairness

-----------------------------------------------------------------------------
(* Hub and scheduler agree on what is in flight: a slot taken without a    *)
(* polled request has no deadline anyone polls, and stops every group      *)
(* (uds_sched.h, "the wedge").  And a group whose polls failed             *)
(* max_consecutive_failures times, or that was suspended, shows no value,  *)
(* unless an on-demand read revived it (publish_group_unavailable_ is      *)
(* called on every path that gives up).                                    *)
SlotsAgree ==
  /\ UdsTypeOK
  /\ hub.kind = "polled" <=> hub.slot # NoGroup
  /\ hub.kind = "polled" => hub.group = hub.slot
  /\ \A b \in Bindings :
       LET g == BGroup[b]
       IN  g \in hub.unavailable \cup hub.suspended /\ g \notin hub.revived
             => b \notin hub.valid

(* max_consecutive_failures: after this many failures in a row a group's   *)
(* entities publish unavailable (docs/uds-user-guide.md).                  *)
SilentGroupReadsUnavailable ==
  \A b \in Bindings : hub.missed[BGroup[b]] >= MaxFailures => b \notin hub.valid

(* The group whose request an arriving message answers.                    *)
AnsweredGroup == IF rx # NoRx THEN rx.group ELSE Head(asked)

(* A late answer never fills entities of a request with another service or *)
(* echo (classify_response, "the stale-answer trap").  What is not told    *)
(* apart by these (echo_len: "the SID check alone then guards those        *)
(* responses") is told apart by time: one request is in flight at once, so *)
(* an answer fills another group's entities only after the hub gave up on  *)
(* a request whose answer the ECU still owed.                              *)
ValuesMatchTheirEcho ==
  [][\A b \in hub'.valid \ hub.valid :
       /\ Sid[AnsweredGroup] = Sid[BGroup[b]] /\ Ident[AnsweredGroup] = Ident[BGroup[b]]
       /\ AnsweredGroup # BGroup[b] => gaveUp]_udsVars

(* Polling never stops for good: every enabled, supported group is asked   *)
(* again and again, across failures and back-off.                          *)
PolledForever ==
  \A g \in UNION Tables :
    g \in polled \ hub.suspended /\ hub.enabled
      ~> hub.slot = g \/ g \in hub.suspended \/ ~hub.enabled

(* Every change reaches its entity although only UDS_PUBLISH_PER_LOOP are  *)
(* published per pass.                                                     *)
DirtyIsPublished == \A b \in Bindings : b \in hub.dirty ~> b \notin hub.dirty

=============================================================================
