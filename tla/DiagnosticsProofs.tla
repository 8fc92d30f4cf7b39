-------------------------- MODULE DiagnosticsProofs --------------------------
(***************************************************************************)
(* The diagnostic clients.  UDS, for any catalog, poll table, limits and   *)
(* answers: hub and scheduler agree about what is in flight, a group that  *)
(* was given up shows no value, an answer fills entities of its own echo,  *)
(* and of its own group as long as the hub waits for every answer.         *)
(* ISO-TP, for any messages, block size, numbering, limits and losses: what*)
(* is delivered is a message that was sent.  CCP, for any lengths of reads,*)
(* writes and DAQ lists: each command is completed by its own answer, and  *)
(* what is reported as read, written or sampled was.                       *)
(***************************************************************************)
EXTENDS UdsHub, IsoTp, Ccp, SequenceTheorems, FiniteSetTheorems, TLAPS

-----------------------------------------------------------------------------
(* UdsHub.  The hub as a record, for the poll table p.  The sets of values *)
(* of its fields are named so that they can stay folded in proofs.         *)
Delays(p) == [p -> 0..BackoffCap]
Orders(p) == SUBSET (p \X p)
FailCounts(p) == [p -> 0..FailCap]
Deadline == (0..P2) \cup (0..P2Ext)
Queues == {q \in Seq(Groups) : Len(q) <= QueueSize}
Cursors == 0..(Cardinality(Bindings) - 1)
Missed == [Groups -> 0..MaxFailures]
Slots(p) == p \cup {NoGroup}
Some(p) == SUBSET p
Pendings == 0..MaxPending
Maybe == Groups \cup {NoGroup}
Flights == {"none", "polled", "ondemand", "raw"}
Entities == SUBSET Bindings
Hubs(p) ==
  [due : Delays(p), before : Orders(p), backoff : Delays(p), fails : FailCounts(p),
   suspended : Some(p), unavailable : Some(p), slot : Slots(p), kind : Flights,
   group : Maybe, deadline : Deadline, pend : Pendings, queue : Queues, raw : Maybe,
   enabled : BOOLEAN, cursor : Cursors, valid : Entities, dirty : Entities,
   uncovered : Entities, missed : Missed, revived : Some(Groups)]

(* The line of the overdue groups, and the entities of silent groups.      *)
Line(due, before) ==
  LET now == {g \in DOMAIN due : due[g] = 0}
  IN  /\ before \subseteq now \X now
      /\ \A g, k \in now : <<g, k>> \in before <=> g # k /\ <<k, g>> \notin before
      /\ \A g, k, l \in now : <<g, k>> \in before /\ <<k, l>> \in before => <<g, l>> \in before
Blank(valid, silent, revived) ==
  \A b \in Bindings : BGroup[b] \in silent /\ BGroup[b] \notin revived => b \notin valid
Core(h, p) ==
  /\ h \in Hubs(p) /\ Line(h.due, h.before)
  /\ Blank(h.valid, h.unavailable \cup h.suspended, h.revived)
Flight(h) ==
  /\ h.kind = "polled" <=> h.slot # NoGroup
  /\ h.kind = "polled" => h.group = h.slot /\ h.slot \notin h.suspended
  /\ h.kind # "none" => h.group \in Groups
HubInv(h, p) == p \subseteq Groups /\ Core(h, p) /\ Flight(h)

(* A judged group leaves the line.                                         *)
LEMMA LeavesLine ==
  ASSUME NEW p, NEW due \in Delays(p), NEW before \in Orders(p), Line(due, before),
         NEW g \in p, NEW n \in 1..BackoffCap
  PROVE  LET due1 == [due EXCEPT ![g] = n]
             before1 == {q \in before : q[1] # g /\ q[2] # g}
         IN  due1 \in Delays(p) /\ before1 \in Orders(p) /\ Line(due1, before1)
<1> DEFINE due1 == [due EXCEPT ![g] = n]
           before1 == {q \in before : q[1] # g /\ q[2] # g}
           now == {k \in DOMAIN due : due[k] = 0}
           now1 == {k \in DOMAIN due1 : due1[k] = 0}
<1>0. BackoffCap \in Nat
  BY UdsAssumption
<1>1. due1 \in Delays(p) /\ before1 \in Orders(p)
  BY <1>0 DEF Delays, Orders
<1>2. now1 = now \ {g}
  BY <1>0 DEF Delays
<1>3. \A a, b : <<a, b>> \in before1 <=> <<a, b>> \in before /\ a # g /\ b # g
  OBVIOUS
<1>4. before1 \subseteq now1 \X now1
  BY <1>2 DEF Line
<1> HIDE DEF before1
<1>5. \A a, b \in now1 : <<a, b>> \in before1 <=> a # b /\ <<b, a>> \notin before1
  BY <1>2, <1>3 DEF Line
<1>6. \A a, b, c \in now1 : <<a, b>> \in before1 /\ <<b, c>> \in before1 => <<a, c>> \in before1
  BY <1>2, <1>3 DEF Line
<1>7. Line(due1, before1)
  BY <1>4, <1>5, <1>6 DEF Line
<1> QED BY <1>1, <1>7 DEF before1

(* Time passes: the groups that become due go to the end of the line.      *)
LEMMA JoinsLine ==
  ASSUME NEW p, p \subseteq Groups,
         NEW due \in Delays(p), NEW before \in Orders(p), Line(due, before)
  PROVE  LET due1 == [g \in p |-> Less(due[g])]
             new == {g \in p : due[g] = 1}
             before1 == before \cup ({g \in DOMAIN due : due[g] = 0} \X new) \cup InTableOrder(new)
         IN  due1 \in Delays(p) /\ before1 \in Orders(p) /\ Line(due1, before1)
<1> DEFINE due1 == [g \in p |-> Less(due[g])]
           new == {g \in p : due[g] = 1}
           now == {k \in DOMAIN due : due[k] = 0}
           now1 == {k \in DOMAIN due1 : due1[k] = 0}
           before1 == before \cup (now \X new) \cup InTableOrder(new)
<1>0. BackoffCap \in Nat /\ p \subseteq Nat
  BY UdsAssumption
<1>1. due1 \in Delays(p)
  BY <1>0 DEF Delays, Less
<1>2. now1 = now \cup new /\ now \cap new = {} /\ now \subseteq p /\ new \subseteq p
  <2>1. DOMAIN due = p /\ DOMAIN due1 = p /\ \A g \in p : due[g] \in Nat
    BY <1>0 DEF Delays
  <2>2. \A g \in p : due1[g] = 0 <=> due[g] = 0 \/ due[g] = 1
    BY <2>1 DEF Less
  <2> HIDE DEF due1
  <2> QED BY <2>1, <2>2
<1>3. \A a, b : <<a, b>> \in InTableOrder(new) <=> a \in new /\ b \in new /\ a < b
  BY DEF InTableOrder
<1>4. \A a, b : <<a, b>> \in before1 <=>
        <<a, b>> \in before \/ (a \in now /\ b \in new) \/ (a \in new /\ b \in new /\ a < b)
  BY <1>3
<1>5. before1 \subseteq now1 \X now1
  BY <1>2 DEF Line, InTableOrder
<1>6. before1 \in Orders(p)
  BY <1>5, <1>2 DEF Orders
<1>7. \A a, b : <<a, b>> \in before => a \in now /\ b \in now
  BY DEF Line
<1> HIDE DEF before1
<1>8. ASSUME NEW a \in now1, NEW b \in now1
      PROVE  <<a, b>> \in before1 <=> a # b /\ <<b, a>> \notin before1
  <2>1. a \in Nat /\ b \in Nat
    BY <1>0, <1>2
  <2>2. CASE a \in now /\ b \in now
    <3>1. <<a, b>> \in before <=> a # b /\ <<b, a>> \notin before
      BY <2>2 DEF Line
    <3> QED BY <3>1, <2>2, <1>2, <1>4
  <2>3. CASE a \in new /\ b \in new
    BY <2>3, <2>1, <1>2, <1>4, <1>7
  <2>4. CASE a \in now /\ b \in new
    BY <2>4, <1>2, <1>4, <1>7
  <2>5. CASE a \in new /\ b \in now
    BY <2>5, <1>2, <1>4, <1>7
  <2> QED BY <2>2, <2>3, <2>4, <2>5, <1>2
<1>9. ASSUME NEW a \in now1, NEW b \in now1, NEW c \in now1,
             <<a, b>> \in before1, <<b, c>> \in before1
      PROVE  <<a, c>> \in before1
  <2>1. a \in Nat /\ b \in Nat /\ c \in Nat
    BY <1>0, <1>2
  <2>2. CASE a \in now /\ b \in now /\ c \in now
    <3>1. <<a, b>> \in before /\ <<b, c>> \in before
      BY <2>2, <1>2, <1>4, <1>9
    <3>2. <<a, c>> \in before
      BY <2>2, <3>1 DEF Line
    <3> QED BY <3>2, <1>4
  <2>3. CASE a \in now /\ c \in new
    BY <2>3, <1>4
  <2>4. CASE a \in new
    BY <2>4, <2>1, <1>2, <1>4, <1>7, <1>9
  <2>5. CASE a \in now /\ c \in now /\ b \in new
    BY <2>5, <1>2, <1>4, <1>7, <1>9
  <2> QED BY <2>2, <2>3, <2>4, <2>5, <1>2
<1>10. Line(due1, before1)
  BY <1>5, <1>8, <1>9 DEF Line
<1> QED BY <1>1, <1>6, <1>10 DEF before1

(* The operators of the hub, on a record that satisfies Core.              *)
Moved(h, due, before) == [h EXCEPT !.due = due, !.before = before]

(* A group judged again leaves the line; nothing else changes.             *)
LEMMA AgainCore ==
  ASSUME NEW p, NEW h, Core(h, p), NEW g \in p, NEW n \in 1..BackoffCap
  PROVE  \E due1 \in Delays(p), before1 \in Orders(p) :
           Line(due1, before1) /\ Again(h, g, n) = Moved(h, due1, before1)
<1> DEFINE due1 == [h.due EXCEPT ![g] = n]
           before1 == {q \in h.before : q[1] # g /\ q[2] # g}
<1>1. h \in Hubs(p) /\ h.due \in Delays(p) /\ h.before \in Orders(p) /\ Line(h.due, h.before)
  BY DEF Core, Hubs
<1>2. due1 \in Delays(p) /\ before1 \in Orders(p) /\ Line(due1, before1)
  BY <1>1, LeavesLine
<1>3. Again(h, g, n) = [h EXCEPT !.due = due1, !.before = before1]
  BY <1>1 DEF Again, Hubs
<1>4. Again(h, g, n) = Moved(h, due1, before1)
  BY <1>3 DEF Moved
<1> HIDE DEF due1, before1
<1> QED BY <1>2, <1>4

(* publish_group_unavailable_(): the values of a silent group are blank.   *)
LEMMA UnavailableCore ==
  ASSUME NEW p, p \subseteq Groups, NEW h \in Hubs(p), Line(h.due, h.before), NEW g \in Groups,
         NEW silent \in SUBSET p, silent \subseteq h.unavailable \cup h.suspended,
         h.unavailable \cup h.suspended \subseteq silent \cup {g},
         Blank(h.valid, silent, h.revived)
  PROVE  LET m == MarkUnavailable(h, g)
         IN  /\ Core(m, p)
             /\ m.slot = h.slot /\ m.kind = h.kind /\ m.group = h.group /\ m.suspended = h.suspended
             /\ m.valid \subseteq h.valid
<1> DEFINE of == {b \in Bindings : BGroup[b] = g}
           valid1 == h.valid \ of
           dirty1 == h.dirty \cup of
           revived1 == h.revived \ {g}
<1>1. valid1 \in Entities /\ dirty1 \in Entities /\ revived1 \in Some(Groups)
  BY DEF Hubs, Entities, Some
<1>2. Blank(valid1, h.unavailable \cup h.suspended, revived1)
  BY DEF Blank
<1>3. MarkUnavailable(h, g) = [h EXCEPT !.valid = valid1, !.dirty = dirty1, !.revived = revived1]
  BY DEF MarkUnavailable, Hubs
<1>5. valid1 \subseteq h.valid
  OBVIOUS
<1> HIDE DEF valid1, dirty1, revived1
<1>4. LET m == MarkUnavailable(h, g)
      IN  /\ m \in Hubs(p) /\ m.valid = valid1 /\ m.revived = revived1
          /\ m.unavailable = h.unavailable /\ m.suspended = h.suspended
          /\ m.due = h.due /\ m.before = h.before
          /\ m.slot = h.slot /\ m.kind = h.kind /\ m.group = h.group
  BY <1>1, <1>3 DEF Hubs
<1> QED BY <1>2, <1>4, <1>5 DEF Core

(* A record with the fields of a judged group exchanged is one of Hubs.    *)
LEMMA JudgedIsHub ==
  ASSUME NEW p, NEW h \in Hubs(p), NEW d \in Delays(p), NEW b \in Orders(p), NEW s \in Slots(p),
         NEW f \in FailCounts(p), NEW w \in Delays(p), NEW u \in Some(p), NEW r \in Some(Groups),
         NEW m \in Missed
  PROVE  [h EXCEPT !.due = d, !.before = b, !.slot = s, !.fails = f, !.backoff = w,
                   !.unavailable = u, !.revived = r, !.missed = m] \in Hubs(p)
BY DEF Hubs

(* on_success() on a slot in flight: the group shows its values again.     *)
LEMMA SuccessCore ==
  ASSUME NEW p, p \subseteq Groups, NEW h, Core(h, p), NEW g \in p, g \notin h.suspended
  PROVE  LET s == OnSuccess(h, g)
         IN  /\ Core(s, p)
             /\ s.slot = NoGroup /\ s.kind = h.kind /\ s.group = h.group /\ s.suspended = h.suspended
             /\ s.valid = h.valid
<1> DEFINE n == Interval[g]
           fails1 == [h.fails EXCEPT ![g] = 0]
           backoff1 == [h.backoff EXCEPT ![g] = 0]
           unavailable1 == h.unavailable \ {g}
           revived1 == h.revived \ {g}
<1>0. n \in 1..BackoffCap /\ BackoffCap \in Nat /\ FailCap \in Nat
  BY UdsAssumption
<1>1. h \in Hubs(p)
  BY DEF Core
<1>2. PICK due1 \in Delays(p), before1 \in Orders(p) :
           Line(due1, before1) /\ Again(h, g, n) = Moved(h, due1, before1)
  <2> HIDE DEF n
  <2> QED BY <1>0, AgainCore
<1>3. /\ fails1 \in FailCounts(p) /\ backoff1 \in Delays(p) /\ unavailable1 \in Some(p)
      /\ revived1 \in Some(Groups)
  BY <1>0, <1>1 DEF Hubs, FailCounts, Delays, Some
<1>4. OnSuccess(h, g) = [h EXCEPT !.due = due1, !.before = before1,
           !.slot = NoGroup, !.fails = fails1, !.backoff = backoff1,
           !.unavailable = unavailable1, !.revived = revived1, !.missed = h.missed]
  BY <1>1, <1>2 DEF OnSuccess, Moved, Hubs
<1>5. Blank(h.valid, unavailable1 \cup h.suspended, revived1)
  BY DEF Core, Blank
<1> HIDE DEF n, fails1, backoff1, unavailable1, revived1
<1>6. NoGroup \in Slots(p) /\ h.missed \in Missed
  BY <1>1 DEF Slots, Hubs
<1>7. OnSuccess(h, g) \in Hubs(p)
  <2>1. /\ due1 \in Delays(p) /\ before1 \in Orders(p) /\ h \in Hubs(p)
        /\ fails1 \in FailCounts(p) /\ backoff1 \in Delays(p) /\ unavailable1 \in Some(p)
        /\ revived1 \in Some(Groups) /\ NoGroup \in Slots(p) /\ h.missed \in Missed
    BY <1>1, <1>3, <1>6
  <2>2. [h EXCEPT !.due = due1, !.before = before1,
           !.slot = NoGroup, !.fails = fails1, !.backoff = backoff1,
           !.unavailable = unavailable1, !.revived = revived1, !.missed = h.missed] \in Hubs(p)
    BY <2>1, JudgedIsHub
  <2> QED BY <2>2, <1>4
<1>8. LET s == OnSuccess(h, g)
      IN  /\ s.valid = h.valid /\ s.revived = revived1
          /\ s.unavailable = unavailable1 /\ s.suspended = h.suspended
          /\ s.due = due1 /\ s.before = before1
          /\ s.slot = NoGroup /\ s.kind = h.kind /\ s.group = h.group
  BY <1>1, <1>4 DEF Hubs
<1> QED BY <1>2, <1>5, <1>7, <1>8 DEF Core

(* on_failure() on a slot in flight: the group that crosses the limit      *)
(* turns blank.                                                            *)
LEMMA FailureCore ==
  ASSUME NEW p, p \subseteq Groups, NEW h, Core(h, p), NEW g \in p
  PROVE  LET s == OnFailure(h, g)
         IN  /\ Core(s, p)
             /\ s.slot = NoGroup /\ s.kind = h.kind /\ s.group = h.group
             /\ s.valid \subseteq h.valid
<1> DEFINE n == Doubled(h, g)
           fails1 == [h.fails EXCEPT ![g] = More(@, FailCap)]
           backoff1 == [h.backoff EXCEPT ![g] = Doubled(h, g)]
           missed1 == [h.missed EXCEPT ![g] = More(@, MaxFailures)]
           unavailable1 == IF Crosses(h, g) THEN h.unavailable \cup {g} ELSE h.unavailable
<1>0. BackoffCap \in Nat /\ FailCap \in Nat /\ MaxFailures \in Nat /\ g \in Groups
  BY UdsAssumption
<1>1. h \in Hubs(p) /\ Blank(h.valid, h.unavailable \cup h.suspended, h.revived)
  BY DEF Core
<1>2. /\ h.fails \in [p -> 0..FailCap] /\ h.backoff \in [p -> 0..BackoffCap]
      /\ h.missed \in [Groups -> 0..MaxFailures] /\ h.unavailable \subseteq p
      /\ h.revived \in Some(Groups) /\ h.suspended \subseteq p
  BY <1>1 DEF Hubs, FailCounts, Delays, Some, Missed
<1>3. n \in 1..BackoffCap
  <2>1. h.backoff[g] \in 0..BackoffCap /\ Interval[g] \in 1..BackoffCap
    BY <1>0, <1>2, UdsAssumption
  <2> QED BY <2>1, <1>0 DEF Doubled
<1>4. PICK due1 \in Delays(p), before1 \in Orders(p) :
           Line(due1, before1) /\ Again(h, g, n) = Moved(h, due1, before1)
  <2> HIDE DEF n
  <2> QED BY <1>3, AgainCore
<1>5. fails1 \in FailCounts(p)
  <2>1. More(h.fails[g], FailCap) \in 0..FailCap
    BY <1>0, <1>2 DEF More
  <2> QED BY <1>2, <2>1 DEF FailCounts
<1>6. backoff1 \in Delays(p)
  <2> HIDE DEF n
  <2>1. n \in 0..BackoffCap
    BY <1>0, <1>3
  <2>2. [h.backoff EXCEPT ![g] = n] \in [p -> 0..BackoffCap]
    BY <1>2, <2>1
  <2> QED BY <2>2 DEF Delays, n
<1>7. missed1 \in Missed
  <2>1. More(h.missed[g], MaxFailures) \in 0..MaxFailures
    BY <1>0, <1>2 DEF More
  <2> QED BY <1>2, <2>1 DEF Missed
<1>8. unavailable1 \in Some(p)
  BY <1>2 DEF Some
<1> DEFINE f == [Again(h, g, n) EXCEPT
            !.slot = NoGroup, !.fails[g] = More(@, FailCap),
                     !.backoff[g] = n,
                     !.missed[g] = More(@, MaxFailures),
                     !.unavailable = IF Crosses(h, g) THEN @ \cup {g} ELSE @]
<1>9. OnFailure(h, g) = IF Crosses(h, g) THEN MarkUnavailable(f, g) ELSE f
  BY DEF OnFailure
<1>10. f = [h EXCEPT !.due = due1, !.before = before1, !.slot = NoGroup,
              !.fails = fails1, !.backoff = backoff1, !.unavailable = unavailable1,
              !.revived = h.revived, !.missed = missed1]
  BY <1>1, <1>4 DEF Moved, Hubs
<1>11. Crosses(h, g) \/ unavailable1 = h.unavailable
  OBVIOUS
<1>12. h.unavailable \subseteq unavailable1 /\ unavailable1 \subseteq h.unavailable \cup {g}
  OBVIOUS
<1>13. NoGroup \in Slots(p)
  BY DEF Slots
<1> HIDE DEF n, fails1, backoff1, missed1, unavailable1, f
<1>14. f \in Hubs(p)
  <2>1. /\ due1 \in Delays(p) /\ before1 \in Orders(p) /\ h \in Hubs(p)
        /\ fails1 \in FailCounts(p) /\ backoff1 \in Delays(p) /\ unavailable1 \in Some(p)
        /\ h.revived \in Some(Groups) /\ NoGroup \in Slots(p) /\ missed1 \in Missed
    BY <1>1, <1>2, <1>5, <1>6, <1>7, <1>8, <1>13
  <2>2. [h EXCEPT !.due = due1, !.before = before1, !.slot = NoGroup,
              !.fails = fails1, !.backoff = backoff1, !.unavailable = unavailable1,
              !.revived = h.revived, !.missed = missed1] \in Hubs(p)
    BY <2>1, JudgedIsHub
  <2> QED BY <2>2, <1>10
<1>15. /\ f.valid = h.valid /\ f.revived = h.revived /\ f.unavailable = unavailable1
       /\ f.suspended = h.suspended /\ f.due = due1 /\ f.before = before1
       /\ f.slot = NoGroup /\ f.kind = h.kind /\ f.group = h.group
  BY <1>1, <1>10 DEF Hubs
<1>16. CASE ~Crosses(h, g)
  BY <1>1, <1>4, <1>9, <1>11, <1>14, <1>15, <1>16 DEF Core
<1>17. CASE Crosses(h, g)
  <2> DEFINE silent == h.unavailable \cup h.suspended
  <2>1. /\ silent \in SUBSET p /\ silent \subseteq f.unavailable \cup f.suspended
        /\ f.unavailable \cup f.suspended \subseteq silent \cup {g}
    BY <1>2, <1>12, <1>15
  <2>2. Blank(f.valid, silent, f.revived) /\ Line(f.due, f.before)
    BY <1>1, <1>4, <1>15
  <2> HIDE DEF silent
  <2>3. LET m == MarkUnavailable(f, g)
        IN  /\ Core(m, p)
            /\ m.slot = f.slot /\ m.kind = f.kind /\ m.group = f.group
            /\ m.valid \subseteq f.valid
    BY <1>0, <1>14, <2>1, <2>2, UnavailableCore
  <2> QED BY <2>3, <1>9, <1>15, <1>17
<1> QED BY <1>16, <1>17

(* A suspended group turns blank and its slot is free.                     *)
LEMMA SuspendCore ==
  ASSUME NEW p, p \subseteq Groups, NEW h, Core(h, p), NEW g \in p
  PROVE  LET s == MarkUnavailable(Suspend(h, g), g)
         IN  /\ Core(s, p)
             /\ s.slot = NoGroup /\ s.kind = h.kind /\ s.group = h.group
             /\ s.valid \subseteq h.valid
<1> DEFINE suspended1 == h.suspended \cup {g}
           silent == h.unavailable \cup h.suspended
           s == Suspend(h, g)
<1>1. h \in Hubs(p) /\ Blank(h.valid, silent, h.revived) /\ Line(h.due, h.before)
  BY DEF Core
<1>2. suspended1 \in Some(p) /\ NoGroup \in Slots(p) /\ silent \in SUBSET p
  BY <1>1 DEF Hubs, Some, Slots
<1>3. s = [h EXCEPT !.slot = NoGroup, !.suspended = suspended1]
  BY <1>1 DEF Suspend, Hubs
<1>4. silent \subseteq h.unavailable \cup suspended1 /\ h.unavailable \cup suspended1 \subseteq silent \cup {g}
  OBVIOUS
<1> HIDE DEF suspended1, s, silent
<1>5. [h EXCEPT !.slot = NoGroup, !.suspended = suspended1] \in Hubs(p)
  BY <1>1, <1>2 DEF Hubs
<1>6. s \in Hubs(p)
  BY <1>3, <1>5
<1>7. /\ s.valid = h.valid /\ s.revived = h.revived /\ s.unavailable = h.unavailable
      /\ s.suspended = suspended1 /\ s.due = h.due /\ s.before = h.before
      /\ s.slot = NoGroup /\ s.kind = h.kind /\ s.group = h.group
  BY <1>1, <1>3 DEF Hubs
<1>8. LET m == MarkUnavailable(s, g)
      IN  /\ Core(m, p)
          /\ m.slot = s.slot /\ m.kind = s.kind /\ m.group = s.group
          /\ m.valid \subseteq s.valid
  BY <1>1, <1>2, <1>4, <1>6, <1>7, UnavailableCore
<1> QED BY <1>7, <1>8 DEF s

(* Once the slot is free, finish_in_flight_() keeps hub and scheduler      *)
(* agreed.                                                                 *)
LEMMA FinishInv ==
  ASSUME NEW p, p \subseteq Groups, NEW h, Core(h, p), h.slot = NoGroup
  PROVE  HubInv(Finish(h), p) /\ Finish(h).valid = h.valid /\ Finish(h).kind = "none"
<1>1. h \in Hubs(p)
  BY DEF Core
<1>2. "none" \in Flights /\ NoGroup \in Maybe /\ 0 \in Pendings /\ 0 \in Deadline
  BY UdsAssumption DEF Flights, Maybe, Pendings, Deadline
<1>3. Finish(h) \in Hubs(p)
  BY <1>1, <1>2 DEF Finish, Hubs
<1>4. LET f == Finish(h)
      IN  /\ f.valid = h.valid /\ f.revived = h.revived /\ f.unavailable = h.unavailable
          /\ f.suspended = h.suspended /\ f.due = h.due /\ f.before = h.before
          /\ f.slot = h.slot /\ f.kind = "none"
  BY <1>1 DEF Finish, Hubs
<1> QED BY <1>3, <1>4 DEF HubInv, Core, Flight

(* fail_in_flight_() from any state makes nothing valid.                   *)
LEMMA FailInv ==
  ASSUME NEW p, NEW h, HubInv(h, p)
  PROVE  /\ HubInv(FailInFlight(h), p) /\ FailInFlight(h).valid \subseteq h.valid
         /\ FailInFlight(h).kind = "none"
<1>1. p \subseteq Groups /\ Core(h, p) /\ Flight(h)
  BY DEF HubInv
<1>2. CASE h.kind = "polled"
  <2>1. h.slot \in p
    BY <1>1, <1>2 DEF Core, Flight, Hubs, Slots
  <2> DEFINE g == h.slot
             f == OnFailure(h, g)
  <2>2. Core(f, p) /\ f.slot = NoGroup /\ f.valid \subseteq h.valid
    <3>1. g \in p
      BY <2>1
    <3> HIDE DEF g
    <3> QED BY <1>1, <3>1, FailureCore
  <2>3. FailInFlight(h) = Finish(f)
    BY <1>2 DEF FailInFlight
  <2> HIDE DEF f
  <2> QED BY <1>1, <2>2, <2>3, FinishInv
<1>3. CASE h.kind # "polled"
  <2>1. h.slot = NoGroup
    BY <1>1, <1>3 DEF Flight
  <2> QED BY <1>1, <1>3, <2>1, FinishInv DEF FailInFlight
<1> QED BY <1>2, <1>3

(* suspend_in_flight_() from any state makes nothing valid.                *)
LEMMA SuspendInv ==
  ASSUME NEW p, NEW h, HubInv(h, p), h.kind # "none"
  PROVE  /\ HubInv(SuspendInFlight(h), p) /\ SuspendInFlight(h).valid \subseteq h.valid
         /\ SuspendInFlight(h).kind = "none"
<1>1. p \subseteq Groups /\ Core(h, p) /\ Flight(h) /\ h.group \in Groups
  BY DEF HubInv, Flight
<1>2. CASE h.kind = "polled"
  <2>1. h.slot \in p /\ h.group = h.slot
    BY <1>1, <1>2 DEF Core, Flight, Hubs, Slots
  <2> DEFINE g == h.slot
             f == MarkUnavailable(Suspend(h, g), g)
  <2>2. Core(f, p) /\ f.slot = NoGroup /\ f.valid \subseteq h.valid
    <3>1. g \in p
      BY <2>1
    <3> HIDE DEF g
    <3> QED BY <1>1, <3>1, SuspendCore
  <2>3. SuspendInFlight(h) = Finish(f)
    BY <1>2, <2>1 DEF SuspendInFlight
  <2> HIDE DEF f
  <2> QED BY <1>1, <2>2, <2>3, FinishInv
<1>3. CASE h.kind = "raw"
  <2>1. h.slot = NoGroup
    BY <1>1, <1>3 DEF Flight
  <2> QED BY <1>1, <1>3, <2>1, FinishInv DEF SuspendInFlight
<1>4. CASE h.kind # "polled" /\ h.kind # "raw"
  <2>1. h.slot = NoGroup
    BY <1>1, <1>4 DEF Flight
  <2> DEFINE f == MarkUnavailable(h, h.group)
             silent == h.unavailable \cup h.suspended
  <2>2. silent \in SUBSET p /\ Blank(h.valid, silent, h.revived) /\ h \in Hubs(p) /\ Line(h.due, h.before)
    BY <1>1 DEF Core, Hubs, Some
  <2>3. /\ silent \subseteq h.unavailable \cup h.suspended
        /\ h.unavailable \cup h.suspended \subseteq silent \cup {h.group}
    OBVIOUS
  <2> HIDE DEF silent
  <2>4. Core(f, p) /\ f.slot = h.slot /\ f.valid \subseteq h.valid
    BY <1>1, <2>2, <2>3, UnavailableCore
  <2>5. SuspendInFlight(h) = Finish(f)
    BY <1>4 DEF SuspendInFlight
  <2> HIDE DEF f
  <2> QED BY <1>1, <2>1, <2>4, <2>5, FinishInv
<1> QED BY <1>2, <1>3, <1>4

(* The request in flight, if any, is the same.                             *)
SameFlight(f, h) == f.kind = h.kind /\ (h.kind # "none" => f.group = h.group)

(* Response pending: the deadline moves, or the request has failed.        *)
LEMMA PendingInv ==
  ASSUME NEW p, NEW h, HubInv(h, p)
  PROVE  /\ HubInv(HandlePending(h), p) /\ HandlePending(h).valid \subseteq h.valid
         /\ HandlePending(h).kind = "none" \/ SameFlight(HandlePending(h), h)
<1>1. CASE h.pend + 1 > MaxPending
  BY <1>1, FailInv DEF HandlePending
<1>2. CASE ~(h.pend + 1 > MaxPending)
  <2> DEFINE f == [h EXCEPT !.pend = @ + 1, !.deadline = P2Ext]
  <2>0. h \in Hubs(p)
    BY DEF HubInv, Core
  <2>1. h.pend + 1 \in Pendings /\ P2Ext \in Deadline
    BY <1>2, <2>0, UdsAssumption DEF Hubs, Pendings, Deadline
  <2>2. f \in Hubs(p)
    BY <2>0, <2>1 DEF Hubs
  <2>3. /\ f.valid = h.valid /\ f.revived = h.revived /\ f.unavailable = h.unavailable
        /\ f.suspended = h.suspended /\ f.due = h.due /\ f.before = h.before
        /\ f.slot = h.slot /\ f.kind = h.kind /\ f.group = h.group
    BY <2>0 DEF Hubs
  <2>4. HandlePending(h) = f
    BY <1>2 DEF HandlePending
  <2> HIDE DEF f
  <2> QED BY <2>2, <2>3, <2>4 DEF HubInv, Core, Flight, SameFlight
<1> QED BY <1>1, <1>2

(* decode_group_(): only entities of the group in flight become valid.     *)
LEMMA DecodeCore ==
  ASSUME NEW p, p \subseteq Groups, NEW h, Core(h, p), h.group \in Groups, NEW kind
  PROVE  LET d == Decode(h, kind)
         IN  /\ Core(d, p)
             /\ d.slot = h.slot /\ d.kind = h.kind /\ d.group = h.group /\ d.suspended = h.suspended
             /\ \A b \in d.valid \ h.valid : BGroup[b] = h.group
<1> DEFINE of   == {b \in Bindings : BGroup[b] = h.group}
           past == IF kind = "short" THEN of \cap Uncovered ELSE {}
           new  == past \ h.uncovered
           valid1 == (h.valid \cup (of \ past)) \ new
           dirty1 == h.dirty \cup (of \ past) \cup new
           uncovered1 == (h.uncovered \ (of \ past)) \cup new
           missed1 == [h.missed EXCEPT ![h.group] = 0]
           revived1 == IF h.group \in h.unavailable \cup h.suspended
                         THEN h.revived \cup {h.group} ELSE h.revived
<1>1. h \in Hubs(p) /\ Line(h.due, h.before) /\ Blank(h.valid, h.unavailable \cup h.suspended, h.revived)
  BY DEF Core
<1>2. past \subseteq of /\ of \subseteq Bindings
  OBVIOUS
<1>3. /\ h.valid \subseteq Bindings /\ h.dirty \subseteq Bindings /\ h.uncovered \subseteq Bindings
      /\ h.missed \in [Groups -> 0..MaxFailures] /\ h.revived \subseteq Groups
  BY <1>1 DEF Hubs, Entities, Missed, Some
<1>4. valid1 \in Entities /\ dirty1 \in Entities /\ uncovered1 \in Entities
  BY <1>2, <1>3 DEF Entities
<1>5. missed1 \in Missed /\ revived1 \in Some(Groups)
  BY <1>3, UdsAssumption DEF Missed, Some
<1>6. Blank(valid1, h.unavailable \cup h.suspended, revived1)
  BY <1>1 DEF Blank
<1>7. \A b \in valid1 \ h.valid : BGroup[b] = h.group
  OBVIOUS
<1>8. Decode(h, kind) = [h EXCEPT !.valid = valid1, !.dirty = dirty1, !.uncovered = uncovered1,
                                  !.missed = missed1, !.revived = revived1]
  BY <1>1 DEF Decode, Hubs
<1> HIDE DEF valid1, dirty1, uncovered1, missed1, revived1
<1>9. [h EXCEPT !.valid = valid1, !.dirty = dirty1, !.uncovered = uncovered1,
                                  !.missed = missed1, !.revived = revived1] \in Hubs(p)
  BY <1>1, <1>4, <1>5 DEF Hubs
<1>10. Decode(h, kind) \in Hubs(p)
  BY <1>8, <1>9
<1>11. LET d == Decode(h, kind)
       IN  /\ d.valid = valid1 /\ d.revived = revived1 /\ d.unavailable = h.unavailable
           /\ d.suspended = h.suspended /\ d.due = h.due /\ d.before = h.before
           /\ d.slot = h.slot /\ d.kind = h.kind /\ d.group = h.group
  BY <1>1, <1>8 DEF Hubs
<1> QED BY <1>1, <1>6, <1>7, <1>10, <1>11 DEF Core

(* A positive answer is decoded, judged and finished.                      *)
LEMMA AcceptInv ==
  ASSUME NEW p, NEW h, HubInv(h, p), h.kind # "none", NEW ans
  PROVE  /\ HubInv(Accept(h, ans), p) /\ Accept(h, ans).kind = "none"
         /\ \A b \in Accept(h, ans).valid \ h.valid : BGroup[b] = h.group
<1>1. p \subseteq Groups /\ Core(h, p) /\ Flight(h) /\ h.group \in Groups
  BY DEF HubInv, Flight
<1>2. CASE h.kind = "raw"
  <2>1. h.slot = NoGroup /\ Accept(h, ans) = Finish(h)
    BY <1>1, <1>2 DEF Flight, Accept
  <2> QED BY <1>1, <2>1, FinishInv
<1>3. CASE h.kind # "raw"
  <2> DEFINE d == Decode(h, ans.kind)
  <2>1. /\ Core(d, p)
        /\ d.slot = h.slot /\ d.kind = h.kind /\ d.group = h.group /\ d.suspended = h.suspended
        /\ \A b \in d.valid \ h.valid : BGroup[b] = h.group
    BY <1>1, DecodeCore
  <2>2. Accept(h, ans) = Finish(IF h.kind = "polled" THEN OnSuccess(d, h.slot) ELSE d)
    BY <1>3 DEF Accept
  <2> HIDE DEF d
  <2>3. CASE h.kind = "polled"
    <3>1. h.slot \in p /\ h.slot \notin d.suspended
      BY <1>1, <2>1, <2>3 DEF Core, Flight, Hubs, Slots
    <3> DEFINE s == OnSuccess(d, h.slot)
    <3>2. Core(s, p) /\ s.slot = NoGroup /\ s.valid = d.valid
      BY <1>1, <2>1, <3>1, SuccessCore
    <3>3. Accept(h, ans) = Finish(s)
      BY <2>2, <2>3
    <3> HIDE DEF s
    <3> QED BY <1>1, <2>1, <3>2, <3>3, FinishInv
  <2>4. CASE h.kind # "polled"
    <3>1. d.slot = NoGroup /\ Accept(h, ans) = Finish(d)
      BY <1>1, <2>1, <2>2, <2>4 DEF Flight
    <3> QED BY <1>1, <2>1, <3>1, FinishInv
  <2> QED BY <2>3, <2>4
<1> QED BY <1>2, <1>3

(* on_message(): whatever arrives, and only an answer to the request in    *)
(* flight makes values valid, those of its group.                          *)
LEMMA MessageInv ==
  ASSUME NEW p, NEW h, HubInv(h, p), NEW ans, ans.kind \in MessageKinds \cup NegativeKinds
  PROVE  /\ HubInv(OnMessage(h, ans), p)
         /\ \A b \in OnMessage(h, ans).valid \ h.valid :
               Ours(h, ans) /\ ans.kind \in MessageKinds /\ BGroup[b] = h.group
         /\ OnMessage(h, ans).kind = "none" \/ SameFlight(OnMessage(h, ans), h)
         /\ Ours(h, ans) /\ ans.kind # "pending" => OnMessage(h, ans).kind = "none"
<1>1. CASE ~Ours(h, ans)
  BY <1>1 DEF OnMessage, SameFlight
<1>2. CASE Ours(h, ans)
  <2>0. h.kind # "none"
    BY <1>2 DEF Ours
  <2>1. CASE ans.kind = "pending"
    <3>1. OnMessage(h, ans) = HandlePending(h)
      BY <1>2, <2>1 DEF OnMessage, MessageKinds
    <3> QED BY <2>1, <3>1, PendingInv, <1>2 DEF MessageKinds
  <2>2. CASE ans.kind = "unsupported"
    <3>1. OnMessage(h, ans) = SuspendInFlight(h)
      BY <1>2, <2>2 DEF OnMessage, MessageKinds
    <3> QED BY <3>1, <2>0, SuspendInv
  <2>3. CASE ans.kind = "busy"
    <3>1. OnMessage(h, ans) = FailInFlight(h)
      BY <1>2, <2>3 DEF OnMessage, MessageKinds
    <3> QED BY <3>1, FailInv
  <2>4. CASE ans.kind \in MessageKinds
    <3>1. OnMessage(h, ans) = Accept(h, ans)
      BY <1>2, <2>4 DEF OnMessage, MessageKinds
    <3> QED BY <3>1, <1>2, <2>0, <2>4, AcceptInv
  <2> QED BY <2>1, <2>2, <2>3, <2>4 DEF NegativeKinds
<1> QED BY <1>1, <1>2

(* on_error(): what isotp reports fails the request in flight, if any.     *)
LEMMA ErrorInv ==
  ASSUME NEW p, NEW h, HubInv(h, p)
  PROVE  HubInv(OnError(h), p) /\ OnError(h).valid \subseteq h.valid /\ OnError(h).kind = "none"
BY FailInv DEF OnError

(* A change of fields that the invariant relates to nothing.               *)
Same(f, h) ==
  /\ f.valid = h.valid /\ f.revived = h.revived /\ f.unavailable = h.unavailable
  /\ f.suspended = h.suspended /\ f.due = h.due /\ f.before = h.before

(* Records that agree on the fields of Core agree on Core.                 *)
LEMMA SameCore ==
  ASSUME NEW p, NEW h, Core(h, p), NEW f \in Hubs(p), Same(f, h)
  PROVE  Core(f, p)
BY DEF Core, Same

(* loop(): the deadline slides or expires.                                 *)
LEMMA DeadlinesInv ==
  ASSUME NEW p, NEW h, HubInv(h, p)
  PROVE  /\ HubInv(Deadlines(h), p) /\ Deadlines(h).valid \subseteq h.valid
         /\ IF Expired(h) THEN Deadlines(h).kind = "none" ELSE SameFlight(Deadlines(h), h)
<1> DEFINE slid == IF h.kind # "none" /\ rx # NoRx THEN [h EXCEPT !.deadline = P2] ELSE h
<1>1. h \in Hubs(p) /\ P2 \in Deadline
  BY UdsAssumption DEF HubInv, Core, Deadline
<1>2. /\ slid \in Hubs(p) /\ Same(slid, h)
      /\ slid.slot = h.slot /\ slid.kind = h.kind /\ slid.group = h.group
  BY <1>1 DEF Hubs, Same
<1>3. Deadlines(h) = IF Expired(slid) THEN FailInFlight(slid) ELSE slid
  BY DEF Deadlines
<1>30. Expired(slid) <=> Expired(h)
  <2>1. CASE h.kind # "none" /\ rx # NoRx
    BY <2>1 DEF Expired
  <2>2. CASE ~(h.kind # "none" /\ rx # NoRx)
    BY <2>2
  <2> QED BY <2>1, <2>2
<1> HIDE DEF slid
<1>4. HubInv(slid, p) /\ slid.valid = h.valid
  BY <1>2, SameCore DEF HubInv, Flight, Same
<1> QED BY <1>2, <1>3, <1>30, <1>4, FailInv DEF SameFlight

(* A request goes out: raw, queued or polled; or what was in flight, if    *)
(* anything, still is.                                                     *)
Sends(i, h, p) ==
  /\ HubInv(i.hub, p) /\ i.hub.valid \subseteq h.valid /\ i.send \in Maybe
  /\ \/ i.send = NoGroup /\ SameFlight(i.hub, h)
     \/ /\ i.send # NoGroup /\ h.kind = "none" /\ tx = NoGroup
        /\ i.hub.kind # "none" /\ i.hub.group = i.send

(* Nothing is sent.                                                        *)
LEMMA StaysSends ==
  ASSUME NEW p, NEW h, HubInv(h, p)
  PROVE  Sends([hub |-> h, send |-> NoGroup], h, p)
BY DEF Sends, Maybe, SameFlight

(* The raw request goes out, or waits for isotp.                           *)
LEMMA RawSends ==
  ASSUME NEW p, NEW h, HubInv(h, p), h.kind = "none", h.raw # NoGroup
  PROVE  Sends(IssueRaw(h), h, p)
<1>1. CASE tx # NoGroup
  BY <1>1, StaysSends DEF IssueRaw
<1>2. CASE tx = NoGroup
  <2> DEFINE f == [Issued(h, "raw", h.raw) EXCEPT !.raw = NoGroup]
  <2>1. h \in Hubs(p) /\ h.raw \in Groups /\ h.slot = NoGroup
    BY DEF HubInv, Core, Flight, Hubs, Maybe
  <2>2. "raw" \in Flights /\ h.raw \in Maybe /\ NoGroup \in Maybe /\ P2 \in Deadline
    BY <2>1, UdsAssumption DEF Flights, Maybe, Deadline
  <2>3. f \in Hubs(p)
    BY <2>1, <2>2 DEF Issued, Hubs
  <2>4. Same(f, h) /\ f.slot = NoGroup /\ f.kind = "raw" /\ f.group \in Groups /\ f.group = h.raw
    BY <2>1 DEF Issued, Hubs, Same
  <2>5. IssueRaw(h) = [hub |-> f, send |-> h.raw]
    BY <1>2 DEF IssueRaw
  <2> HIDE DEF f
  <2>6. HubInv(f, p) /\ f.valid = h.valid
    BY <2>3, <2>4, SameCore DEF HubInv, Flight, Same
  <2> QED BY <1>2, <2>2, <2>4, <2>5, <2>6 DEF Sends
<1> QED BY <1>1, <1>2

(* The oldest queued request goes out, waits or is dropped.                *)
LEMMA QueuedSends ==
  ASSUME NEW p, NEW h, HubInv(h, p), h.kind = "none", h.queue # <<>>
  PROVE  Sends(IssueQueued(h), h, p)
<1> DEFINE g == Head(h.queue)
           rest == Tail(h.queue)
           popped == [h EXCEPT !.queue = rest]
<1>1. h \in Hubs(p) /\ h.slot = NoGroup /\ h.queue \in Seq(Groups) /\ Len(h.queue) <= QueueSize
  BY DEF HubInv, Core, Flight, Hubs, Queues
<1>2. g \in Groups /\ rest \in Seq(Groups) /\ Len(rest) <= QueueSize
  BY <1>1, HeadTailProperties, UdsAssumption
<1>3. "ondemand" \in Flights /\ g \in Maybe /\ rest \in Queues /\ P2 \in Deadline /\ NoGroup \in Maybe
  BY <1>2, UdsAssumption DEF Flights, Maybe, Queues, Deadline
<1> HIDE DEF g, rest
<1>4. popped \in Hubs(p) /\ Same(popped, h) /\ popped.slot = h.slot /\ popped.kind = h.kind
  BY <1>1, <1>3 DEF Hubs, Same
<1>5. HubInv(popped, p) /\ popped.valid = h.valid
  BY <1>1, <1>4, SameCore DEF HubInv, Flight, Same
<1> DEFINE f == Issued(popped, "ondemand", g)
<1>6. f \in Hubs(p) /\ Same(f, h) /\ f.slot = NoGroup /\ f.kind = "ondemand" /\ f.group = g
  BY <1>1, <1>3 DEF Issued, Hubs, Same
<1>7. HubInv(f, p) /\ f.valid = h.valid
  BY <1>2, <1>6, SameCore DEF HubInv, Flight, Same
<1> HIDE DEF popped, f
<1>8. CASE g \in Unsendable
  <2>1. IssueQueued(h) = [hub |-> popped, send |-> NoGroup]
    BY <1>8 DEF IssueQueued, g, rest, popped, f
  <2> QED BY <1>3, <1>4, <1>5, <2>1 DEF Sends, SameFlight
<1>9. CASE g \notin Unsendable /\ tx # NoGroup
  <2>1. IssueQueued(h) = [hub |-> h, send |-> NoGroup]
    BY <1>9 DEF IssueQueued, g, rest, popped, f
  <2>2. Sends([hub |-> h, send |-> NoGroup], h, p)
    BY StaysSends
  <2> QED BY <2>1, <2>2
<1>10. CASE g \notin Unsendable /\ tx = NoGroup
  <2>1. IssueQueued(h) = [hub |-> f, send |-> g]
    BY <1>10 DEF IssueQueued, g, rest, popped, f
  <2>2. g # NoGroup
    BY <1>2, UdsAssumption DEF NoGroup
  <2> QED BY <1>3, <1>6, <1>7, <1>10, <2>1, <2>2 DEF Sends
<1> QED BY <1>8, <1>9, <1>10

(* The group that has been due longest goes out, waits or is suspended.    *)
LEMMA PolledSends ==
  ASSUME NEW p, NEW h, HubInv(h, p), h.kind = "none"
  PROVE  Sends(IssuePolled(h), h, p)
<1> DEFINE due == MostOverdue(h)
           g == CHOOSE k \in due : TRUE
<1>1. h \in Hubs(p) /\ h.slot = NoGroup /\ Core(h, p) /\ p \subseteq Groups
  BY DEF HubInv, Core, Flight
<1>2. due # {} => g \in p /\ g \notin h.suspended
  <2>1. h.due \in Delays(p)
    BY <1>1 DEF Hubs
  <2>2. due \subseteq p \ h.suspended
    BY <2>1 DEF MostOverdue, Overdue, Delays
  <2> HIDE DEF due
  <2> QED BY <2>2
<1> HIDE DEF due, g
<1>3. CASE due = {}
  <2>1. IssuePolled(h) = [hub |-> h, send |-> NoGroup]
    BY <1>3 DEF IssuePolled, due
  <2> QED BY <2>1, StaysSends
<1>4. CASE due # {} /\ g \in Unsendable
  <2> DEFINE f == MarkUnavailable(Suspend(h, g), g)
  <2>1. IssuePolled(h) = [hub |-> f, send |-> NoGroup]
    BY <1>4 DEF IssuePolled, due, g
  <2>2. Core(f, p) /\ f.slot = NoGroup /\ f.kind = "none" /\ f.valid \subseteq h.valid
    <3>1. g \in p
      BY <1>2, <1>4
    <3> QED BY <1>1, <3>1, SuspendCore
  <2> HIDE DEF f
  <2>3. HubInv(f, p)
    BY <1>1, <2>2 DEF HubInv, Flight
  <2> QED BY <2>1, <2>2, <2>3 DEF Sends, Maybe, SameFlight
<1>5. CASE due # {} /\ g \notin Unsendable /\ tx # NoGroup
  <2>1. IssuePolled(h) = [hub |-> h, send |-> NoGroup]
    BY <1>5 DEF IssuePolled, due, g
  <2> QED BY <2>1, StaysSends
<1>6. CASE due # {} /\ g \notin Unsendable /\ tx = NoGroup
  <2> DEFINE f == [Issued(h, "polled", g) EXCEPT !.slot = g]
  <2>1. IssuePolled(h) = [hub |-> f, send |-> g]
    BY <1>6 DEF IssuePolled, due, g
  <2>0. g \in p
    BY <1>2, <1>6
  <2>2. g \in Groups /\ g \in Maybe /\ g \in Slots(p) /\ "polled" \in Flights /\ P2 \in Deadline
    BY <1>1, <2>0, UdsAssumption DEF Maybe, Slots, Flights, Deadline
  <2>3. /\ f \in Hubs(p) /\ Same(f, h) /\ f.kind = "polled" /\ f.slot = g /\ f.group = g
        /\ f.suspended = h.suspended
    BY <1>1, <2>2 DEF Issued, Hubs, Same
  <2>4. g # NoGroup
    BY <2>2, UdsAssumption DEF NoGroup
  <2> HIDE DEF f
  <2>5. HubInv(f, p) /\ f.valid = h.valid
    BY <1>1, <1>2, <1>6, <2>2, <2>3, <2>4, SameCore DEF HubInv, Flight, Same
  <2> QED BY <1>6, <2>1, <2>2, <2>3, <2>4, <2>5 DEF Sends
<1> QED BY <1>3, <1>4, <1>5, <1>6

(* issue_next_(): one of the three.                                        *)
LEMMA NextSends ==
  ASSUME NEW p, NEW h, HubInv(h, p)
  PROVE  Sends(IssueNext(h), h, p)
<1>1. CASE ~(h.kind = "none" /\ h.enabled)
  BY <1>1, StaysSends DEF IssueNext
<1>2. CASE h.kind = "none" /\ h.enabled /\ h.raw # NoGroup
  BY <1>2, RawSends DEF IssueNext
<1>3. CASE h.kind = "none" /\ h.enabled /\ h.raw = NoGroup /\ h.queue # <<>>
  BY <1>3, QueuedSends DEF IssueNext
<1>4. CASE h.kind = "none" /\ h.enabled /\ h.raw = NoGroup /\ h.queue = <<>>
  BY <1>4, PolledSends DEF IssueNext
<1> QED BY <1>1, <1>2, <1>3, <1>4

(* publish_dirty_(): the cursor stays on an entity.                        *)
LEMMA PublishInv ==
  ASSUME NEW p, NEW h, HubInv(h, p)
  PROVE  /\ HubInv(PublishDirty(h), p) /\ PublishDirty(h).valid = h.valid
         /\ PublishDirty(h).kind = h.kind /\ PublishDirty(h).group = h.group
<1> DEFINE n == Cardinality(Bindings)
           offsets == {k \in 0..(n - 1) : At(h, k) \in h.dirty}
           nth(k)  == Cardinality({j \in offsets : j <= k})
           out     == {At(h, k) : k \in {j \in offsets : nth(j) <= PerLoop}}
           last    == {At(h, k) : k \in {j \in offsets : nth(j) = PerLoop}}
           dirty1  == h.dirty \ out
           b       == CHOOSE x \in last : TRUE
           cursor1 == IF last = {} THEN h.cursor ELSE b % n
<1>1. h \in Hubs(p) /\ h.cursor \in 0..(n - 1) /\ h.dirty \subseteq Bindings
  BY DEF HubInv, Core, Hubs, Cursors, Entities
<1>2. n \in Nat /\ n > 0
  BY UdsAssumption, FS_CardinalityType, FS_EmptySet
<1>3. dirty1 \in Entities
  BY <1>1 DEF Entities
<1>4. cursor1 \in Cursors
  <2>1. \A k \in offsets : At(h, k) \in Nat
    <3> TAKE k \in offsets
    <3>1. k \in Nat /\ h.cursor \in Nat
      BY <1>1, <1>2
    <3> HIDE DEF n, offsets
    <3>2. (h.cursor + k) % n \in 0..(n - 1)
      BY <1>2, <3>1
    <3> QED BY <1>2, <3>1, <3>2 DEF At, n
  <2>2. last # {} => b \in Nat
    <3>1. last \subseteq Nat
      BY <2>1
    <3> HIDE DEF last
    <3> QED BY <3>1
  <2> HIDE DEF n, last, b
  <2> QED BY <1>1, <1>2, <2>2 DEF Cursors, n
<1>5. PublishDirty(h) = [h EXCEPT !.dirty = dirty1, !.cursor = cursor1]
  BY <1>1 DEF PublishDirty, Hubs
<1> HIDE DEF dirty1, cursor1
<1>6. LET f == PublishDirty(h)
      IN  f \in Hubs(p) /\ Same(f, h) /\ f.slot = h.slot /\ f.kind = h.kind /\ f.group = h.group
  BY <1>1, <1>3, <1>4, <1>5 DEF Hubs, Same
<1> QED BY <1>6, SameCore DEF HubInv, Flight, Same
-----------------------------------------------------------------------------
(* The client: its types beyond the hub, and the invariant.                *)
Answers == [group : Groups, kind : MessageKinds]
UdsOuter ==
  /\ polled \in Tables /\ looped \in BOOLEAN
  /\ tx \in Maybe /\ asked \in Seq(Groups) /\ Len(asked) <= AskedBound
  /\ rx \in Answers \cup {NoRx} /\ ops \in 0..Ops[polled] /\ gaveUp \in BOOLEAN

(* One request is open at a time, that of the group in flight, until the   *)
(* hub gives up on one.                                                    *)
Alone(h) ==
  IF h.kind = "none" THEN tx = NoGroup /\ asked = <<>> /\ rx = NoRx
  ELSE /\ tx \in {NoGroup, h.group} /\ asked \in {<<>>, <<h.group>>}
       /\ rx = NoRx \/ rx.group = h.group
       /\ tx # NoGroup => asked = <<>> /\ rx = NoRx
       /\ asked # <<>> => rx = NoRx
UdsInv == UdsOuter /\ HubInv(hub, polled) /\ (~gaveUp => Alone(hub))

(* The invariant says what SlotsAgree says.                                *)
LEMMA UdsInvMeans == UdsInv => SlotsAgree
<1> SUFFICES ASSUME UdsInv PROVE SlotsAgree
  OBVIOUS
<1>1. UdsOuter /\ Core(hub, polled) /\ Flight(hub) /\ polled \subseteq Groups
  BY DEF UdsInv, HubInv
<1>2. hub \in Hubs(polled) /\ Line(hub.due, hub.before)
  BY <1>1 DEF Core
<1>3. /\ hub.due \in [polled -> 0..BackoffCap]
      /\ hub.backoff \in [polled -> 0..BackoffCap]
      /\ hub.fails \in [polled -> 0..FailCap]
      /\ hub.suspended \subseteq polled /\ hub.unavailable \subseteq polled
      /\ hub.slot \in polled \cup {NoGroup}
      /\ hub.kind \in {"none", "polled", "ondemand", "raw"}
      /\ hub.group \in Groups \cup {NoGroup}
      /\ hub.deadline \in (0..P2) \cup (0..P2Ext)
      /\ hub.pend \in 0..MaxPending
      /\ hub.queue \in Seq(Groups) /\ Len(hub.queue) <= QueueSize
      /\ hub.raw \in Groups \cup {NoGroup}
      /\ hub.enabled \in BOOLEAN
      /\ hub.cursor \in 0..(Cardinality(Bindings) - 1)
      /\ hub.valid \subseteq Bindings /\ hub.dirty \subseteq Bindings
      /\ hub.uncovered \subseteq Bindings
      /\ hub.missed \in [Groups -> 0..MaxFailures] /\ hub.revived \subseteq Groups
  BY <1>2 DEF Hubs, Delays, FailCounts, Deadline, Queues, Cursors, Missed, Slots, Some, Pendings,
              Maybe, Flights, Entities
<1>4. OverdueInOrder(hub)
  BY <1>2 DEF Line, OverdueInOrder, Overdue
<1>5. UdsTypeOK
  BY <1>1, <1>3, <1>4 DEF UdsTypeOK, UdsOuter, Answers, Maybe
<1> QED BY <1>1, <1>5 DEF SlotsAgree, Flight, Core, Blank

(* setup() establishes it.                                                 *)
LEMMA InitUds == UdsInit => UdsInv
<1> SUFFICES ASSUME UdsInit PROVE UdsInv
  OBVIOUS
<1> DEFINE zero == [g \in polled |-> 0]
           before1 == InTableOrder(polled)
           never == [g \in Groups |-> 0]
<1>0. polled \subseteq Groups /\ polled \subseteq Nat /\ polled \in Tables
  BY UdsAssumption DEF UdsInit
<1>1. zero \in Delays(polled) /\ zero \in FailCounts(polled) /\ never \in Missed
  BY UdsAssumption DEF Delays, FailCounts, Missed
<1>2. before1 \in Orders(polled)
  BY DEF Orders, InTableOrder
<1>3. Line(zero, before1)
  <2>1. \A a, b : <<a, b>> \in before1 <=> a \in polled /\ b \in polled /\ a < b
    BY DEF InTableOrder
  <2>2. DOMAIN zero = polled /\ {g \in DOMAIN zero : zero[g] = 0} = polled
    OBVIOUS
  <2>3. before1 \subseteq polled \X polled
    BY DEF InTableOrder
  <2> HIDE DEF zero, before1
  <2>4. \A a, b \in polled : a \in Nat /\ b \in Nat
    BY <1>0
  <2>5. ASSUME NEW a \in polled, NEW b \in polled
        PROVE  <<a, b>> \in before1 <=> a # b /\ <<b, a>> \notin before1
    <3>1. a \in Nat /\ b \in Nat
      BY <2>4
    <3>2. (<<a, b>> \in before1 <=> a < b) /\ (<<b, a>> \in before1 <=> b < a)
      BY <2>1
    <3> QED BY <3>1, <3>2
  <2>6. ASSUME NEW a \in polled, NEW b \in polled, NEW c \in polled,
               <<a, b>> \in before1, <<b, c>> \in before1
        PROVE  <<a, c>> \in before1
    <3>1. a \in Nat /\ b \in Nat /\ c \in Nat
      BY <2>4
    <3>2. a < b /\ b < c
      BY <2>1, <2>6
    <3>3. a < c
      BY <3>1, <3>2
    <3> QED BY <2>1, <3>3
  <2> QED BY <2>2, <2>3, <2>5, <2>6 DEF Line
<1>4. /\ {} \in Some(polled) /\ {} \in Some(Groups) /\ {} \in Entities
      /\ NoGroup \in Slots(polled) /\ NoGroup \in Maybe /\ "none" \in Flights
      /\ 0 \in Deadline /\ 0 \in Pendings /\ <<>> \in Queues /\ 0 \in Cursors
  <2>1. Cardinality(Bindings) \in Nat /\ Cardinality(Bindings) > 0
    BY UdsAssumption, FS_CardinalityType, FS_EmptySet
  <2> QED BY <2>1, UdsAssumption DEF Some, Entities, Slots, Maybe, Flights, Deadline, Pendings, Queues, Cursors
<1>5. hub = [due |-> zero, before |-> before1,
            backoff |-> zero,
            fails |-> zero, suspended |-> {}, unavailable |-> {},
            slot |-> NoGroup, kind |-> "none", group |-> NoGroup, deadline |-> 0,
            pend |-> 0, queue |-> <<>>, raw |-> NoGroup, enabled |-> TRUE,
            cursor |-> 0, valid |-> {}, dirty |-> {}, uncovered |-> {},
            missed |-> never, revived |-> {}]
  BY DEF UdsInit
<1> HIDE DEF zero, before1, never
<1>6. hub \in Hubs(polled)
  BY <1>1, <1>2, <1>4, <1>5 DEF Hubs
<1>7. hub.due = zero /\ hub.before = before1 /\ hub.valid = {} /\ hub.kind = "none" /\ hub.slot = NoGroup
  BY <1>5
<1>8. HubInv(hub, polled)
  BY <1>0, <1>3, <1>6, <1>7 DEF HubInv, Core, Flight, Blank
<1>9. UdsOuter
  <2>1. Ops[polled] \in Nat
    BY <1>0, UdsAssumption
  <2>2. asked = <<>> /\ ops = 0 /\ tx = NoGroup /\ rx = NoRx /\ looped = FALSE /\ gaveUp = FALSE
    BY DEF UdsInit
  <2>3. asked \in Seq(Groups) /\ Len(asked) = 0 /\ 0 <= AskedBound
    BY <2>2, UdsAssumption
  <2>4. asked \in Seq(Groups) /\ Len(asked) <= AskedBound
    BY <2>3, UdsAssumption
  <2>5. ops \in 0..Ops[polled]
    BY <2>1, <2>2
  <2>6. tx \in Maybe /\ rx \in Answers \cup {NoRx} /\ looped \in BOOLEAN /\ gaveUp \in BOOLEAN
    BY <2>2 DEF Maybe
  <2> QED BY <2>4, <2>5, <2>6, <1>0 DEF UdsOuter
<1>10. Alone(hub)
  BY <1>7 DEF Alone, UdsInit
<1> QED BY <1>8, <1>9, <1>10 DEF UdsInv

(* The steps.  Each says what it may make valid.                           *)
Fresh == {b \in Bindings : /\ Sid[AnsweredGroup] = Sid[BGroup[b]]
                           /\ Ident[AnsweredGroup] = Ident[BGroup[b]]
                           /\ AnsweredGroup # BGroup[b] => gaveUp}
Keeps == UdsInv' /\ hub'.valid \ hub.valid \subseteq Fresh

(* What every step starts from.                                            *)
LEMMA HubFacts ==
  ASSUME UdsInv
  PROVE  /\ UdsOuter /\ HubInv(hub, polled) /\ hub \in Hubs(polled) /\ polled \subseteq Groups
         /\ hub.valid \subseteq Bindings /\ (~gaveUp => Alone(hub))
BY DEF UdsInv, HubInv, Core, Hubs, Entities

(* A loop pass.                                                            *)
LEMMA StepLoop == ASSUME UdsInv, Loop PROVE Keeps
<1> DEFINE d == Deadlines(hub)
           i == IssueNext(d)
<1>1. /\ HubInv(d, polled) /\ d.valid \subseteq hub.valid
      /\ IF Expired(hub) THEN d.kind = "none" ELSE SameFlight(d, hub)
  BY HubFacts, DeadlinesInv
<1>2. /\ hub' = PublishDirty(i.hub) /\ tx' = IF i.send = NoGroup THEN tx ELSE i.send
      /\ gaveUp' = ((gaveUp \/ Expired(hub)) /\ (i.send = NoGroup \/ Owed))
      /\ asked' = asked /\ rx' = rx
  BY DEF Loop
<1> HIDE DEF d
<1>3. Sends(i, d, polled)
  BY <1>1, NextSends
<1> HIDE DEF i
<1>4. /\ HubInv(hub', polled) /\ hub'.valid \subseteq hub.valid
      /\ hub'.kind = i.hub.kind /\ hub'.group = i.hub.group
  BY <1>1, <1>2, <1>3, PublishInv DEF Sends
<1>5. tx' \in Maybe
  BY <1>2, <1>3, HubFacts DEF Sends, UdsOuter
<1>6. ASSUME ~gaveUp' PROVE Alone(hub)'
  <2>1. CASE i.send = NoGroup
    <3>1. Alone(hub) /\ SameFlight(d, hub) /\ SameFlight(i.hub, d) /\ tx' = tx
      BY <1>1, <1>2, <1>3, <1>6, <2>1, HubFacts DEF Sends
    <3> QED BY <1>2, <1>4, <3>1 DEF Alone, SameFlight
  <2>2. CASE i.send # NoGroup
    <3>1. tx = NoGroup /\ tx' = i.send /\ hub'.kind # "none" /\ hub'.group = i.send
          /\ d.kind = "none"
      BY <1>2, <1>3, <1>4, <2>2 DEF Sends
    <3>2. asked = <<>> /\ rx = NoRx
      <4>1. CASE ~Owed
        BY <4>1 DEF Owed
      <4>2. CASE Owed
        <5>1. Alone(hub) /\ SameFlight(d, hub)
          BY <1>1, <1>2, <1>6, <4>2, HubFacts
        <5> QED BY <3>1, <5>1 DEF Alone, SameFlight
      <4> QED BY <4>1, <4>2
    <3> QED BY <1>2, <3>1, <3>2 DEF Alone
  <2> QED BY <2>1, <2>2
<1>7. gaveUp' \in BOOLEAN
  BY <1>2
<1> QED BY <1>4, <1>5, <1>6, <1>7, HubFacts DEF Keeps, UdsInv, UdsOuter, Loop

(* The clock: what becomes due goes to the end of the line.                *)
LEMMA StepTick == ASSUME UdsInv, Tick PROVE Keeps
<1> DEFINE due1 == [g \in polled |-> Less(hub.due[g])]
           new == {g \in polled : hub.due[g] = 1}
           before1 == hub.before \cup ({g \in DOMAIN hub.due : hub.due[g] = 0} \X new) \cup InTableOrder(new)
           deadline1 == Less(hub.deadline)
<1>1. /\ hub \in Hubs(polled) /\ hub.due \in Delays(polled) /\ hub.before \in Orders(polled)
      /\ Line(hub.due, hub.before) /\ polled \subseteq Groups /\ hub.deadline \in Deadline
  BY HubFacts DEF HubInv, Core, Hubs
<1>2. due1 \in Delays(polled) /\ before1 \in Orders(polled) /\ Line(due1, before1)
  BY <1>1, JoinsLine
<1>3. deadline1 \in Deadline
  BY <1>1, UdsAssumption DEF Deadline, Less
<1>4. hub' = [hub EXCEPT !.due = due1, !.before = before1, !.deadline = deadline1]
  BY <1>1 DEF Tick, Overdue, Hubs
<1> HIDE DEF due1, before1, deadline1
<1>5. [hub EXCEPT !.due = due1, !.before = before1, !.deadline = deadline1] \in Hubs(polled)
  BY <1>1, <1>2, <1>3 DEF Hubs
<1>6. hub' \in Hubs(polled)
  BY <1>4, <1>5
<1>7. /\ hub'.due = due1 /\ hub'.before = before1 /\ hub'.valid = hub.valid
      /\ hub'.unavailable = hub.unavailable /\ hub'.suspended = hub.suspended
      /\ hub'.revived = hub.revived /\ hub'.kind = hub.kind /\ hub'.slot = hub.slot
      /\ hub'.group = hub.group
  BY <1>1, <1>4 DEF Hubs
<1>8. HubInv(hub', polled)
  BY <1>2, <1>6, <1>7, HubFacts DEF HubInv, Core, Flight
<1>9. ~gaveUp' => Alone(hub)'
  BY <1>7, HubFacts DEF Alone, Tick
<1> QED BY <1>7, <1>8, <1>9, HubFacts DEF Keeps, UdsInv, UdsOuter, Tick

(* The ECU takes a request, forgets one or starts to answer: the hub sees  *)
(* nothing.                                                                *)
LEMMA StepSame ==
  ASSUME UdsInv, TxDone \/ EcuForgets \/ (\E kind \in MessageKinds : EcuStarts(kind))
  PROVE  Keeps
<1>0. UdsOuter /\ AskedBound \in Nat
  BY HubFacts, UdsAssumption
<1>1. CASE TxDone
  <2>1. asked' \in Seq(Groups) /\ Len(asked') <= AskedBound
    <3>1. CASE asked' = asked
      BY <1>0, <3>1 DEF UdsOuter
    <3>2. CASE Len(asked) < AskedBound /\ asked' = Append(asked, tx)
      <4>1. tx \in Groups /\ asked \in Seq(Groups)
        BY <1>0, <1>1 DEF UdsOuter, TxDone, Maybe
      <4>2. Append(asked, tx) \in Seq(Groups) /\ Len(Append(asked, tx)) = Len(asked) + 1
        BY <4>1, AppendProperties
      <4> QED BY <1>0, <3>2, <4>1, <4>2
    <3> QED BY <1>1, <3>1, <3>2 DEF TxDone
  <2>2. ~gaveUp' => Alone(hub)'
    <3> SUFFICES ASSUME ~gaveUp' PROVE Alone(hub)'
      OBVIOUS
    <3>1. Alone(hub) /\ tx # NoGroup
      BY <1>1, HubFacts DEF TxDone
    <3>2. hub.kind # "none" /\ tx = hub.group /\ asked = <<>> /\ rx = NoRx
      BY <3>1 DEF Alone
    <3>3. asked' \in {<<>>, <<hub.group>>}
      BY <1>1, <3>2 DEF TxDone
    <3>4. tx' = NoGroup /\ rx' = NoRx /\ hub' = hub
      BY <1>1, <3>2 DEF TxDone
    <3> QED BY <3>2, <3>3, <3>4 DEF Alone
  <2> QED BY <1>1, <2>1, <2>2, HubFacts DEF Keeps, UdsInv, UdsOuter, TxDone, Maybe
<1>2. CASE EcuForgets
  <2>1. asked' \in Seq(Groups) /\ Len(asked') <= AskedBound
    BY <1>0, <1>2, HeadTailProperties DEF UdsOuter, EcuForgets
  <2>2. ~gaveUp' => Alone(hub)'
    <3> SUFFICES ASSUME ~gaveUp' PROVE Alone(hub)'
      OBVIOUS
    <3>1. Alone(hub) /\ asked # <<>> /\ asked' = Tail(asked)
          /\ tx' = tx /\ rx' = rx /\ hub' = hub
      BY <1>2, HubFacts DEF EcuForgets
    <3>2. hub.kind # "none" /\ asked = <<hub.group>> /\ tx = NoGroup /\ rx = NoRx
      BY <3>1 DEF Alone
    <3>3. asked' = <<>>
      BY <3>1, <3>2
    <3> QED BY <3>1, <3>2, <3>3 DEF Alone
  <2> QED BY <1>2, <2>1, <2>2, HubFacts DEF Keeps, UdsInv, UdsOuter, EcuForgets
<1>3. ASSUME NEW kind \in MessageKinds, EcuStarts(kind) PROVE Keeps
  <2>1. asked' \in Seq(Groups) /\ Len(asked') <= AskedBound /\ Head(asked) \in Groups
    BY <1>0, <1>3, HeadTailProperties DEF UdsOuter, EcuStarts
  <2>2. rx' \in Answers
    BY <1>3, <2>1 DEF EcuStarts, Answers
  <2>3. ~gaveUp' => Alone(hub)'
    <3> SUFFICES ASSUME ~gaveUp' PROVE Alone(hub)'
      OBVIOUS
    <3>1. Alone(hub) /\ asked # <<>> /\ asked' = Tail(asked)
          /\ rx' = [group |-> Head(asked), kind |-> kind] /\ tx' = tx /\ hub' = hub
      BY <1>3, HubFacts DEF EcuStarts
    <3>2. hub.kind # "none" /\ asked = <<hub.group>> /\ tx = NoGroup
      BY <3>1 DEF Alone
    <3>3. asked' = <<>> /\ rx'.group = hub.group
      BY <3>1, <3>2
    <3> QED BY <3>1, <3>2, <3>3 DEF Alone
  <2> QED BY <1>3, <2>1, <2>2, <2>3, HubFacts DEF Keeps, UdsInv, UdsOuter, EcuStarts
<1> QED BY <1>1, <1>2, <1>3

(* isotp gives up on a request or on an answer.                            *)
LEMMA StepErrors == ASSUME UdsInv, TxFails \/ RxFails PROVE Keeps
<1>1. HubInv(hub', polled) /\ hub'.valid \subseteq hub.valid /\ hub'.kind = "none"
  BY HubFacts, ErrorInv DEF TxFails, RxFails
<1>2. ~gaveUp' => Alone(hub)'
  <2> SUFFICES ASSUME ~gaveUp' PROVE Alone(hub)'
    OBVIOUS
  <2>1. Alone(hub) /\ (tx # NoGroup \/ rx # NoRx)
    BY HubFacts DEF TxFails, RxFails
  <2>2. asked = <<>> /\ (tx # NoGroup => rx = NoRx)
    BY <2>1 DEF Alone
  <2>3. tx' = NoGroup /\ rx' = NoRx /\ asked' = <<>>
    BY <2>2 DEF TxFails, RxFails
  <2> QED BY <1>1, <2>3 DEF Alone
<1> QED BY <1>1, <1>2, HubFacts DEF Keeps, UdsInv, UdsOuter, TxFails, RxFails, Maybe

(* An answer the hub takes carries the service and echo of the group in    *)
(* flight, and is that group's as long as one request is open at a time.   *)
LEMMA OursIsFresh ==
  ASSUME UdsInv, NEW ans, ans.kind \in MessageKinds, Ours(hub, ans), ans.group = AnsweredGroup,
         ~gaveUp => AnsweredGroup = hub.group, NEW b \in Bindings, BGroup[b] = hub.group
  PROVE  b \in Fresh
BY DEF Ours, Fresh

(* A single-frame answer arrives, of whatever kind, to whatever was asked. *)
LEMMA StepAnswers ==
  ASSUME UdsInv, NEW kind \in MessageKinds \cup NegativeKinds, EcuAnswers(kind)
  PROVE  Keeps
<1> DEFINE ans == [group |-> Head(asked), kind |-> kind]
<1>1. /\ asked \in Seq(Groups) /\ asked # <<>> /\ rx = NoRx /\ hub' = OnMessage(hub, ans)
      /\ asked' = (IF kind = "pending" THEN asked ELSE Tail(asked)) /\ tx' = tx /\ rx' = rx
      /\ gaveUp' = (gaveUp \/ (kind = "pending" /\ hub'.kind = "none"))
  BY HubFacts DEF UdsOuter, EcuAnswers
<1>2. Head(asked) \in Groups /\ Tail(asked) \in Seq(Groups) /\ Len(Tail(asked)) <= Len(asked)
  BY <1>1, HeadTailProperties
<1>3. ans.kind = kind /\ ans.group = Head(asked) /\ AnsweredGroup = Head(asked)
  BY <1>1 DEF AnsweredGroup
<1> HIDE DEF ans
<1>4. /\ HubInv(hub', polled)
      /\ \A b \in hub'.valid \ hub.valid :
            Ours(hub, ans) /\ ans.kind \in MessageKinds /\ BGroup[b] = hub.group
      /\ hub'.kind = "none" \/ SameFlight(hub', hub)
      /\ Ours(hub, ans) /\ ans.kind # "pending" => hub'.kind = "none"
  BY <1>1, <1>3, HubFacts, MessageInv
<1>5. ~gaveUp => hub.kind # "none" /\ asked = <<hub.group>> /\ tx = NoGroup
  BY <1>1, HubFacts DEF Alone
<1>6. ~gaveUp => AnsweredGroup = hub.group
  BY <1>3, <1>5
<1>7. ~gaveUp' => Alone(hub)'
  <2> SUFFICES ASSUME ~gaveUp' PROVE Alone(hub)'
    OBVIOUS
  <2>1. ~gaveUp /\ hub.kind # "none" /\ asked = <<hub.group>> /\ tx' = NoGroup /\ rx' = NoRx
    BY <1>1, <1>5
  <2>2. Ours(hub, ans)
    BY <1>3, <1>6, <2>1 DEF Ours
  <2>3. CASE kind = "pending"
    <3>1. hub'.kind # "none" /\ asked' = asked
      BY <1>1, <2>3
    <3>2. hub'.group = hub.group
      BY <1>4, <2>1, <3>1 DEF SameFlight
    <3> QED BY <2>1, <3>1, <3>2 DEF Alone
  <2>4. CASE kind # "pending"
    <3>1. hub'.kind = "none"
      BY <1>3, <1>4, <2>2, <2>4
    <3>2. asked' = <<>>
      BY <1>1, <2>1, <2>4
    <3> QED BY <2>1, <3>1, <3>2 DEF Alone
  <2> QED BY <2>3, <2>4
<1>8. UdsInv'
  <2>1. asked' \in Seq(Groups) /\ Len(asked') <= AskedBound
    BY <1>1, <1>2, HubFacts, UdsAssumption DEF UdsOuter
  <2>2. gaveUp' \in BOOLEAN
    BY <1>1, HubFacts DEF UdsOuter
  <2> QED BY <1>4, <1>7, <2>1, <2>2, HubFacts DEF UdsInv, UdsOuter, EcuAnswers
<1>9. ASSUME NEW b \in hub'.valid \ hub.valid PROVE b \in Fresh
  <2>1. Ours(hub, ans) /\ ans.kind \in MessageKinds /\ BGroup[b] = hub.group
    BY <1>4
  <2>2. b \in Bindings
    BY <1>4 DEF HubInv, Core, Hubs, Entities
  <2> QED BY <1>3, <1>6, <2>1, <2>2, OursIsFresh
<1> QED BY <1>8, <1>9 DEF Keeps

(* A multi-frame answer is complete.                                       *)
LEMMA StepComplete == ASSUME UdsInv, RxComplete PROVE Keeps
<1>1. /\ rx \in Answers /\ rx # NoRx /\ hub' = OnMessage(hub, rx)
      /\ rx' = NoRx /\ tx' = tx /\ asked' = asked /\ gaveUp' = gaveUp
  BY HubFacts DEF UdsOuter, RxComplete
<1>2. rx.group \in Groups /\ rx.kind \in MessageKinds /\ AnsweredGroup = rx.group
  BY <1>1 DEF Answers, AnsweredGroup
<1>3. /\ HubInv(hub', polled)
      /\ \A b \in hub'.valid \ hub.valid : Ours(hub, rx) /\ BGroup[b] = hub.group
      /\ Ours(hub, rx) /\ rx.kind # "pending" => hub'.kind = "none"
  BY <1>1, <1>2, HubFacts, MessageInv
<1>4. ~gaveUp => hub.kind # "none" /\ rx.group = hub.group /\ tx = NoGroup /\ asked = <<>>
  BY <1>1, HubFacts DEF Alone
<1>5. ~gaveUp' => Alone(hub)'
  <2> SUFFICES ASSUME ~gaveUp' PROVE Alone(hub)'
    OBVIOUS
  <2>1. hub.kind # "none" /\ rx.group = hub.group /\ tx' = NoGroup /\ asked' = <<>>
    BY <1>1, <1>4
  <2>2. Ours(hub, rx) /\ rx.kind # "pending"
    BY <1>2, <2>1 DEF Ours, MessageKinds
  <2> QED BY <1>1, <1>3, <2>1, <2>2 DEF Alone
<1>6. UdsInv'
  BY <1>3, <1>5, HubFacts DEF UdsInv, UdsOuter, RxComplete
<1>7. ASSUME NEW b \in hub'.valid \ hub.valid PROVE b \in Fresh
  <2>1. Ours(hub, rx) /\ BGroup[b] = hub.group
    BY <1>3
  <2>2. b \in Bindings
    BY <1>3 DEF HubInv, Core, Hubs, Entities
  <2>3. ~gaveUp => AnsweredGroup = hub.group
    BY <1>2, <1>4
  <2> QED BY <1>2, <2>1, <2>2, <2>3, OursIsFresh
<1> QED BY <1>6, <1>7 DEF Keeps

(* The operator's read, raw request and switch.                            *)
LEMMA StepOperator ==
  ASSUME UdsInv,
         (\E g \in Readable : RequestRead(g)) \/ (\E g \in RawRequests : SendRaw(g)) \/ SetEnabled
  PROVE  Keeps
<1>0. /\ hub \in Hubs(polled) /\ UdsOuter /\ hub.queue \in Seq(Groups) /\ hub.enabled \in BOOLEAN
      /\ Ops[polled] \in Nat /\ QueueSize \in Nat
  BY HubFacts, UdsAssumption DEF Hubs, Queues, UdsOuter
<1>01. ASSUME hub'.kind = hub.kind, hub'.group = hub.group, ~gaveUp' PROVE Alone(hub)'
  BY <1>01, HubFacts DEF Alone, RequestRead, SendRaw, SetEnabled
<1>1. ASSUME NEW g \in Readable, RequestRead(g) PROVE Keeps
  <2> DEFINE queue1 == Append(hub.queue, g)
  <2>1. g \in Groups /\ Len(hub.queue) < QueueSize
    BY <1>1, UdsAssumption DEF RequestRead
  <2>2. queue1 \in Queues
    <3>1. queue1 \in Seq(Groups) /\ Len(queue1) = Len(hub.queue) + 1
      BY <1>0, <2>1, AppendProperties
    <3> QED BY <1>0, <2>1, <3>1 DEF Queues
  <2>3. hub' = [hub EXCEPT !.queue = queue1]
    BY <1>0, <1>1 DEF RequestRead, Hubs
  <2> HIDE DEF queue1
  <2>4. /\ hub' \in Hubs(polled) /\ Same(hub', hub)
        /\ hub'.kind = hub.kind /\ hub'.slot = hub.slot /\ hub'.group = hub.group
    BY <1>0, <2>2, <2>3 DEF Hubs, Same
  <2>5. HubInv(hub', polled) /\ hub'.valid = hub.valid
    BY <2>4, HubFacts, SameCore DEF HubInv, Flight, Same
  <2> QED BY <1>0, <1>1, <1>01, <2>4, <2>5, HubFacts DEF Keeps, UdsInv, UdsOuter, RequestRead
<1>2. ASSUME NEW g \in RawRequests, SendRaw(g) PROVE Keeps
  <2>1. g \in Maybe
    BY UdsAssumption DEF Maybe
  <2>2. hub' = [hub EXCEPT !.raw = g]
    BY <1>2 DEF SendRaw
  <2>4. /\ hub' \in Hubs(polled) /\ Same(hub', hub)
        /\ hub'.kind = hub.kind /\ hub'.slot = hub.slot /\ hub'.group = hub.group
    BY <1>0, <2>1, <2>2 DEF Hubs, Same
  <2>5. HubInv(hub', polled) /\ hub'.valid = hub.valid
    BY <2>4, HubFacts, SameCore DEF HubInv, Flight, Same
  <2> QED BY <1>0, <1>2, <1>01, <2>4, <2>5, HubFacts DEF Keeps, UdsInv, UdsOuter, SendRaw
<1>3. CASE SetEnabled
  <2> DEFINE enabled1 == ~hub.enabled
  <2>1. enabled1 \in BOOLEAN
    BY <1>0
  <2>2. hub' = [hub EXCEPT !.enabled = enabled1]
    BY <1>0, <1>3 DEF SetEnabled, Hubs
  <2> HIDE DEF enabled1
  <2>4. /\ hub' \in Hubs(polled) /\ Same(hub', hub)
        /\ hub'.kind = hub.kind /\ hub'.slot = hub.slot /\ hub'.group = hub.group
    BY <1>0, <2>1, <2>2 DEF Hubs, Same
  <2>5. HubInv(hub', polled) /\ hub'.valid = hub.valid
    BY <2>4, HubFacts, SameCore DEF HubInv, Flight, Same
  <2> QED BY <1>3, <1>01, <2>4, <2>5, HubFacts DEF Keeps, UdsInv, UdsOuter, SetEnabled
<1> QED BY <1>1, <1>2, <1>3

(* No step breaks the invariant.                                           *)
LEMMA StepUds == UdsInv /\ [UdsNext]_udsVars => UdsInv'
<1> SUFFICES ASSUME UdsInv, [UdsNext]_udsVars PROVE UdsInv'
  OBVIOUS
<1>1. CASE UNCHANGED udsVars
  BY <1>1 DEF udsVars, UdsInv, UdsOuter, Alone
<1>2. CASE UdsNext
  BY <1>2, StepLoop, StepTick, StepSame, StepErrors, StepComplete, StepAnswers, StepOperator
     DEF UdsNext, Keeps
<1> QED BY <1>1, <1>2

(* Hence it always holds.                                                  *)
LEMMA UdsInvariant == UdsSpec => []UdsInv
BY InitUds, StepUds, PTL DEF UdsSpec

(* Hub and scheduler never disagree about what is in flight, and a group   *)
(* that was given up shows no value, for any catalog, poll table, limits   *)
(* and answers: late, partial, negative, or none at all.                   *)
THEOREM AgreeTheorem == UdsSpec => []SlotsAgree
BY UdsInvariant, UdsInvMeans, PTL

(* Whatever the services and echoes of the catalog, what an answer makes   *)
(* valid belongs to a group of the same service and echo, and to the group *)
(* it answers unless the hub had given up on a request whose answer the    *)
(* ECU still owed.                                                         *)
THEOREM ValuesTheorem == UdsSpec => ValuesMatchTheirEcho
<1> DEFINE A == \A b \in hub'.valid \ hub.valid :
                  /\ Sid[AnsweredGroup] = Sid[BGroup[b]] /\ Ident[AnsweredGroup] = Ident[BGroup[b]]
                  /\ AnsweredGroup # BGroup[b] => gaveUp
<1>1. UdsInv /\ [UdsNext]_udsVars => [A]_udsVars
  <2> SUFFICES ASSUME UdsInv, UdsNext PROVE A
    OBVIOUS
  <2>1. Keeps
    BY StepLoop, StepTick, StepSame, StepErrors, StepComplete, StepAnswers, StepOperator DEF UdsNext
  <2> QED BY <2>1 DEF Keeps, Fresh
<1> QED BY <1>1, UdsInvariant, PTL DEF UdsSpec, ValuesMatchTheirEcho

-----------------------------------------------------------------------------
(* IsoTp.  The types of sender, receiver and frames.  Two arguments carry  *)
(* the buffer: without loss every frame follows the one before it, from    *)
(* the buffer over the bus to the sender (Chain); within one transfer the  *)
(* positions only rise, so a full buffer has skipped none (Order).         *)
Cells == Messages \X Nat
Numbers == 0..(SnRange - 1)
SendStates == {"idle", "first", "wait_fc", "cf", "done", "failed"}
Offers == {"none", "single", "first", "cf"}
Blocks == 0..BlockSize
SendTimes == 0..(NBs + StallTicks)
SendErrors == {"none", "fc_timeout", "stalled", "overflow_remote"}
Senders == [state : SendStates, pending : Offers, msg : Messages \cup {NoMsg}, sent : Nat,
            seq : Numbers, block : Blocks, timer : SendTimes, error : SendErrors]
Lengths == 0..RxCapacity
RecvTimes == 0..NCr
RecvErrors == {"none", "overflow_local", "wrong_sequence", "cf_timeout"}
Statuses == FlowStatus \cup {"none"}
Receivers == [busy : BOOLEAN, buf : Seq(Cells), expected : Lengths, seq : Numbers,
              block : Blocks, timer : RecvTimes, error : RecvErrors, fc : Statuses]
Frames == [type : {"single", "first", "cf"}, msg : Messages, seq : Numbers, body : Cells]

Segmented(s) == s.state \in {"wait_fc", "cf"}
SenderOK(s, n) ==
  /\ s \in Senders
  /\ s.state # "idle" => s.msg \in Messages
  /\ s.state = "first" => s.sent = 0 /\ s.seq = 0
  /\ Segmented(s) => s.sent \in 1..(Size[s.msg] - 1) /\ s.seq = (s.sent - 1) % SnRange
  /\ s.state = "cf" => s.block >= 1
  /\ n = IF s.state = "idle" THEN 1 ELSE 0

Held(r) == r.buf[1][1]
ReceiverOK(r) ==
  /\ r \in Receivers /\ Len(r.buf) <= RxCapacity
  /\ r.busy => /\ Len(r.buf) \in 1..(r.expected - 1) /\ r.expected = Size[Held(r)]
               /\ r.block >= 1 /\ r.seq = (Len(r.buf) - 1) % SnRange

WellFormed(f) ==
  /\ f \in Frames /\ f.body[1] = f.msg /\ f.body[2] \in 1..Size[f.msg]
  /\ f.type = "single" => Size[f.msg] = 1
  /\ f.type = "first" => Size[f.msg] > 1 /\ f.body[2] = 1
  /\ f.type = "cf" => f.body[2] >= 2 /\ f.seq = (f.body[2] - 1) % SnRange
BusOK(d, c) ==
  /\ d \in Seq(Frames) /\ Len(d) <= BusBound
  /\ \A i \in 1..Len(d) : WellFormed(d[i])
  /\ c \in Seq(FlowStatus) /\ Len(c) <= BusBound

Exact(b, m) == \A j \in 1..Len(b) : b[j] = <<m, j>>
Follows(f, g) == f.type # "single" /\ f.msg = g.msg /\ g.body[2] = f.body[2] + 1
Linked(d) == \A i \in 2..Len(d) : d[i].type = "cf" => Follows(d[i - 1], d[i])
NextIs(r, m, n) == Held(r) = m /\ n = Len(r.buf) + 1
Chain(s, r, d) ==
  /\ r.busy => Exact(r.buf, Held(r))
  /\ Linked(d)
  /\ r.busy /\ d # <<>> /\ Head(d).type = "cf" => NextIs(r, Head(d).msg, Head(d).body[2])
  /\ Segmented(s) /\ d # <<>> => /\ d[Len(d)].type # "single" /\ d[Len(d)].msg = s.msg
                                 /\ d[Len(d)].body[2] = s.sent
  /\ Segmented(s) /\ d = <<>> /\ r.busy => NextIs(r, s.msg, s.sent + 1)
  /\ r.error # "wrong_sequence"

Top(b) == b[Len(b)][2]
Rising(b, m) ==
  \A j \in 1..Len(b) : b[j][1] = m /\ j <= b[j][2] /\ b[j][2] + (Len(b) - j) <= Top(b)
Sorted(d, m) ==
  /\ \A i \in 1..Len(d) : d[i].msg = m
  /\ \A i, j \in 1..Len(d) : i < j => d[i].body[2] < d[j].body[2]
Order(s, r, d, m) ==
  /\ s.state # "idle" => s.msg = m
  /\ Sorted(d, m)
  /\ r.busy => Rising(r.buf, m)
  /\ s.state = "first" => d = <<>> /\ ~r.busy
  /\ r.busy => \A i \in 1..Len(d) : Top(r.buf) < d[i].body[2]
  /\ Segmented(s) => \A i \in 1..Len(d) : d[i].body[2] <= s.sent
  /\ Segmented(s) /\ r.busy => Top(r.buf) <= s.sent

IsoInv ==
  /\ SenderOK(snd, reports) /\ ReceiverOK(rcv) /\ BusOK(dataBus, fcBus)
  /\ lost \in BOOLEAN /\ crossed \in BOOLEAN
  /\ ~lost => Chain(snd, rcv, dataBus)
  /\ ~crossed => \E m \in Messages \cup {NoMsg} : Order(snd, rcv, dataBus, m)
  /\ delivered # <<>> /\ ~(lost /\ crossed) => \E m \in Messages : delivered = Content(m)

-----------------------------------------------------------------------------
(* The frame numbers.                                                      *)
LEMMA NumberAfter ==
  ASSUME NEW n \in Nat
  PROVE  ((n % SnRange) + 1) % SnRange = (n + 1) % SnRange
<1> DEFINE q == n \div SnRange
           r == n % SnRange
<1>0. SnRange \in Nat \ {0, 1}
  BY IsoTpAssumption
<1>1. q \in Int /\ r \in 0..(SnRange - 1) /\ n = SnRange * q + r
  BY <1>0
<1> HIDE DEF q, r
<1>2. CASE r + 1 < SnRange
  <2>1. n + 1 = SnRange * q + (r + 1)
    BY <1>0, <1>1
  <2>2. (n + 1) % SnRange = r + 1
    BY <1>0, <1>1, <1>2, <2>1
  <2>3. (r + 1) % SnRange = r + 1
    BY <1>0, <1>1, <1>2
  <2> QED BY <2>2, <2>3 DEF r
<1>3. CASE r + 1 = SnRange
  <2>1. n + 1 = SnRange * (q + 1)
    BY <1>0, <1>1, <1>3
  <2>2. (n + 1) % SnRange = 0
    BY <1>0, <1>1, <2>1
  <2>3. (r + 1) % SnRange = 0
    BY <1>0, <1>3
  <2> QED BY <2>2, <2>3 DEF r
<1> QED BY <1>0, <1>1, <1>2, <1>3

(* A frame number is a number.                                             *)
LEMMA NumberRange == ASSUME NEW n \in Nat PROVE n % SnRange \in Numbers
BY IsoTpAssumption DEF Numbers

(* What the receiver has collected.                                        *)
LEMMA ExactAppend ==
  ASSUME NEW b \in Seq(Cells), NEW m, Exact(b, m), NEW c \in Cells, c = <<m, Len(b) + 1>>
  PROVE  Exact(Append(b, c), m)
BY DEF Exact

(* As many frames as the message has, each at its place, are the message.  *)
LEMMA ExactWhole ==
  ASSUME NEW m \in Messages, NEW b \in Seq(Cells), Exact(b, m), Len(b) = Size[m]
  PROVE  b = Content(m)
<1>1. b = [j \in 1..Len(b) |-> b[j]]
  OBVIOUS
<1>2. Content(m) = [j \in 1..Len(b) |-> <<m, j>>]
  BY DEF Content
<1> QED BY <1>1, <1>2 DEF Exact

(* A later frame at the end keeps the positions rising.                    *)
LEMMA RisingAppend ==
  ASSUME NEW m, NEW b \in Seq(Cells), b # <<>>, Rising(b, m),
         NEW c \in Cells, c[1] = m, Top(b) < c[2]
  PROVE  Rising(Append(b, c), m) /\ Top(Append(b, c)) = c[2]
<1> DEFINE a == Append(b, c)
           n == Len(b)
           t == Top(b)
<1>1. /\ a \in Seq(Cells) /\ Len(a) = n + 1 /\ a[n + 1] = c /\ n \in Nat /\ n >= 1
      /\ \A j \in 1..n : a[j] = b[j] /\ b[j] \in Cells
  BY EmptySeq
<1>2. \A j \in 1..n : b[j][1] = m /\ j <= b[j][2] /\ b[j][2] + (n - j) <= t /\ b[j][2] \in Nat
  BY <1>1 DEF Rising, Cells
<1>3. t \in Nat /\ c[2] \in Nat /\ n <= t
  BY <1>1, <1>2 DEF Top, Cells
<1>4. Top(a) = c[2]
  BY <1>1 DEF Top
<1> HIDE DEF a, n, t
<1>5. ASSUME NEW j \in 1..Len(a)
      PROVE a[j][1] = m /\ j <= a[j][2] /\ a[j][2] + (Len(a) - j) <= Top(a)
  <2>1. CASE j \in 1..n
    <3>1. a[j] = b[j] /\ j <= b[j][2] /\ b[j][2] + (n - j) <= t /\ b[j][1] = m /\ b[j][2] \in Nat
      BY <1>1, <1>2, <2>1
    <3>2. t < c[2]
      BY DEF t
    <3>3. b[j][2] + ((n + 1) - j) <= c[2]
      BY <1>1, <1>3, <2>1, <3>1, <3>2
    <3> QED BY <1>1, <3>1, <3>3, <1>4
  <2>2. CASE j = n + 1
    BY <1>1, <1>3, <1>4, <2>2 DEF t
  <2> QED BY <1>1, <2>1, <2>2
<1>7. Rising(a, m)
  BY <1>5 DEF Rising
<1> QED BY <1>4, <1>7 DEF a

(* Positions that rise and end at the last one skip none.                  *)
LEMMA RisingWhole ==
  ASSUME NEW m \in Messages, NEW b \in Seq(Cells), Rising(b, m), Len(b) = Size[m],
         Top(b) <= Size[m]
  PROVE  b = Content(m)
<1>1. Size[m] \in Nat \ {0}
  BY IsoTpAssumption
<1>2. ASSUME NEW j \in 1..Len(b) PROVE b[j] = <<m, j>>
  <2>1. b[j] \in Cells /\ b[Len(b)] \in Cells
    BY <1>1
  <2>2. b[j][2] \in Nat /\ Top(b) \in Nat
    BY <2>1 DEF Top, Cells
  <2>3. j <= b[j][2] /\ b[j][2] + (Len(b) - j) <= Top(b) /\ b[j][1] = m
    BY DEF Rising
  <2>4. b[j][2] = j
    BY <1>1, <2>2, <2>3
  <2> QED BY <2>1, <2>3, <2>4 DEF Cells
<1> QED BY <1>2, ExactWhole DEF Exact

(* What is on the bus.                                                     *)
LEMMA TailBus ==
  ASSUME NEW d \in Seq(Frames), d # <<>>
  PROVE  /\ Tail(d) \in Seq(Frames) /\ Len(Tail(d)) = Len(d) - 1 /\ Head(d) = d[1]
         /\ Len(d) \in Nat \ {0} /\ d[1] \in Frames
         /\ \A i \in 1..Len(Tail(d)) : Tail(d)[i] = d[i + 1] /\ i + 1 \in 1..Len(d)
BY HeadTailProperties, EmptySeq

(* What sending does to the bus.                                           *)
LEMMA AppendBus ==
  ASSUME NEW d \in Seq(Frames), NEW f \in Frames
  PROVE  /\ Append(d, f) \in Seq(Frames) /\ Len(Append(d, f)) = Len(d) + 1 /\ Len(d) \in Nat
         /\ Append(d, f)[Len(d) + 1] = f /\ \A i \in 1..Len(d) : Append(d, f)[i] = d[i]
BY AppendProperties

(* Taking the first frame keeps the chain.                                 *)
LEMMA TailLinked ==
  ASSUME NEW d \in Seq(Frames), d # <<>>, Linked(d)
  PROVE  /\ Linked(Tail(d))
         /\ Tail(d) # <<>> /\ Head(Tail(d)).type = "cf" => Follows(Head(d), Head(Tail(d)))
         /\ Tail(d) # <<>> => Tail(d)[Len(Tail(d))] = d[Len(d)]
         /\ Tail(d) = <<>> => d[Len(d)] = Head(d)
<1> DEFINE t == Tail(d)
<1>1. /\ t \in Seq(Frames) /\ Len(t) = Len(d) - 1 /\ Head(d) = d[1] /\ Len(d) \in Nat \ {0}
      /\ \A i \in 1..Len(t) : t[i] = d[i + 1] /\ i + 1 \in 1..Len(d)
  BY TailBus
<1>2. t # <<>> => Head(t) = t[1] /\ Len(t) >= 1
  BY <1>1, EmptySeq
<1> HIDE DEF t
<1>3. t = <<>> => Len(t) = 0
  OBVIOUS
<1>4. Linked(t)
  <2> SUFFICES ASSUME NEW i \in 2..Len(t), t[i].type = "cf" PROVE Follows(t[i - 1], t[i])
    BY DEF Linked
  <2>1. t[i] = d[i + 1] /\ t[i - 1] = d[i] /\ i + 1 \in 2..Len(d) /\ (i + 1) - 1 = i
    <3>1. i - 1 \in 1..Len(t) /\ i \in 1..Len(t) /\ (i - 1) + 1 = i
      BY <1>1
    <3> QED BY <3>1, <1>1
  <2> QED BY <2>1 DEF Linked
<1>5. t # <<>> /\ Head(t).type = "cf" => Follows(Head(d), Head(t))
  <2> SUFFICES ASSUME t # <<>>, Head(t).type = "cf" PROVE Follows(Head(d), Head(t))
    OBVIOUS
  <2>1. Head(t) = d[2] /\ Head(d) = d[1] /\ 2 \in 2..Len(d)
    BY <1>1, <1>2
  <2>2. d[2].type = "cf" => Follows(d[2 - 1], d[2])
    BY <2>1 DEF Linked
  <2> QED BY <2>1, <2>2
<1>6. t # <<>> => t[Len(t)] = d[Len(d)]
  <2> SUFFICES ASSUME t # <<>> PROVE t[Len(t)] = d[Len(d)]
    OBVIOUS
  <2>1. Len(t) \in 1..Len(t) /\ Len(t) + 1 = Len(d)
    BY <1>1, <1>2
  <2> QED BY <2>1, <1>1
<1>7. t = <<>> => d[Len(d)] = Head(d)
  <2> SUFFICES ASSUME t = <<>> PROVE d[Len(d)] = Head(d)
    OBVIOUS
  <2>1. Len(d) = 1
    BY <1>1, <1>3
  <2> QED BY <1>1, <2>1
<1> QED BY <1>4, <1>5, <1>6, <1>7 DEF t

(* Sending the frame that follows keeps the chain.                         *)
LEMMA AppendLinked ==
  ASSUME NEW d \in Seq(Frames), Linked(d), NEW f \in Frames,
         f.type = "cf" /\ d # <<>> => Follows(d[Len(d)], f)
  PROVE  Linked(Append(d, f))
<1> DEFINE a == Append(d, f)
<1>1. /\ Len(a) = Len(d) + 1 /\ Len(d) \in Nat /\ a[Len(d) + 1] = f
      /\ \A i \in 1..Len(d) : a[i] = d[i]
  BY AppendBus
<1> HIDE DEF a
<1>2. ASSUME NEW i \in 2..Len(a), a[i].type = "cf" PROVE Follows(a[i - 1], a[i])
  <2>1. CASE i <= Len(d)
    <3>1. i \in 2..Len(d) /\ i \in 1..Len(d) /\ i - 1 \in 1..Len(d)
      BY <1>1, <2>1
    <3> QED BY <1>1, <1>2, <3>1 DEF Linked
  <2>2. CASE i = Len(d) + 1
    <3>1. i - 1 = Len(d) /\ Len(d) \in 1..Len(d) /\ d # <<>>
      BY <1>1, <2>2
    <3> QED BY <1>1, <1>2, <2>2, <3>1
  <2> QED BY <1>1, <2>1, <2>2
<1>3. Linked(a)
  BY <1>2 DEF Linked
<1> QED BY <1>3 DEF a

(* Taking the first frame keeps the order.                                 *)
LEMMA TailSorted ==
  ASSUME NEW d \in Seq(Frames), d # <<>>, NEW m, Sorted(d, m)
  PROVE  /\ Sorted(Tail(d), m) /\ Head(d).msg = m
         /\ \A i \in 1..Len(Tail(d)) : Head(d).body[2] < Tail(d)[i].body[2]
<1> DEFINE t == Tail(d)
<1>1. /\ Len(t) = Len(d) - 1 /\ Head(d) = d[1] /\ Len(d) \in Nat \ {0}
      /\ \A i \in 1..Len(t) : t[i] = d[i + 1] /\ i + 1 \in 1..Len(d)
  BY TailBus
<1> HIDE DEF t
<1>2. \A i \in 1..Len(t) : t[i].msg = m
  BY <1>1 DEF Sorted
<1>3. ASSUME NEW i \in 1..Len(t), NEW j \in 1..Len(t), i < j PROVE t[i].body[2] < t[j].body[2]
  <2>1. i + 1 \in 1..Len(d) /\ j + 1 \in 1..Len(d) /\ i + 1 < j + 1
    BY <1>1, <1>3
  <2> QED BY <1>1, <2>1 DEF Sorted
<1>4. ASSUME NEW i \in 1..Len(t) PROVE Head(d).body[2] < t[i].body[2]
  <2>1. 1 \in 1..Len(d) /\ i + 1 \in 1..Len(d) /\ 1 < i + 1
    BY <1>1
  <2> QED BY <1>1, <2>1 DEF Sorted
<1>5. Head(d).msg = m
  BY <1>1 DEF Sorted
<1> QED BY <1>2, <1>3, <1>4, <1>5 DEF Sorted, t

(* Sending a later frame keeps the order.                                  *)
LEMMA AppendSorted ==
  ASSUME NEW d \in Seq(Frames), NEW m, Sorted(d, m), NEW f \in Frames, f.msg = m,
         \A i \in 1..Len(d) : d[i].body[2] < f.body[2]
  PROVE  Sorted(Append(d, f), m)
<1> DEFINE a == Append(d, f)
<1>1. /\ Len(a) = Len(d) + 1 /\ Len(d) \in Nat /\ a[Len(d) + 1] = f
      /\ \A i \in 1..Len(d) : a[i] = d[i]
  BY AppendBus
<1> HIDE DEF a
<1>2. \A i \in 1..Len(a) : a[i].msg = m
  BY <1>1 DEF Sorted
<1>3. ASSUME NEW i \in 1..Len(a), NEW j \in 1..Len(a), i < j PROVE a[i].body[2] < a[j].body[2]
  <2>1. i \in 1..Len(d)
    BY <1>1, <1>3
  <2>2. CASE j \in 1..Len(d)
    BY <1>1, <1>3, <2>1, <2>2 DEF Sorted
  <2>3. CASE j = Len(d) + 1
    BY <1>1, <2>1, <2>3
  <2> QED BY <1>1, <2>2, <2>3
<1> QED BY <1>2, <1>3 DEF Sorted, a

(* A step that leaves the data bus alone and neither sends nor receives.   *)
Rests(s, t) ==
  /\ Segmented(t) => Segmented(s) /\ t.sent = s.sent
  /\ t.state # "idle" => s.state # "idle" /\ t.msg = s.msg
  /\ t.state = "first" => s.state = "first"
Drops(r, q) == q.busy => r.busy /\ q.buf = r.buf

(* What such a step leaves true.                                           *)
LEMMA Undisturbed ==
  ASSUME NEW s, NEW t, NEW r, NEW q, NEW d, Rests(s, t), Drops(r, q), q.error = "wrong_sequence" => r.error = q.error
  PROVE  /\ Chain(s, r, d) => Chain(t, q, d)
         /\ \A m : Order(s, r, d, m) => Order(t, q, d, m)
<1>1. Segmented(t) => t.state # "idle"
  BY DEF Segmented
<1>2. Chain(s, r, d) => Chain(t, q, d)
  BY <1>1 DEF Chain, Rests, Drops, NextIs, Held
<1>3. ASSUME NEW m, Order(s, r, d, m) PROVE Order(t, q, d, m)
  BY <1>3 DEF Order, Rests, Drops
<1> QED BY <1>2, <1>3

(* Such a step keeps the invariant if it keeps the types.                  *)
LEMMA StepRests ==
  ASSUME IsoInv, SenderOK(snd', reports'), ReceiverOK(rcv'), BusOK(dataBus', fcBus'),
         Rests(snd, snd'), Drops(rcv, rcv'), rcv'.error = "wrong_sequence" => rcv.error = rcv'.error,
         dataBus' = dataBus, delivered' = delivered, lost' \in BOOLEAN, lost => lost', crossed' = crossed
  PROVE  IsoInv'
<1>1. /\ ~lost' => Chain(snd', rcv', dataBus')
      /\ ~crossed' => \E m \in Messages \cup {NoMsg} : Order(snd', rcv', dataBus', m)
  BY Undisturbed DEF IsoInv
<1> QED BY <1>1 DEF IsoInv

(* The constants and the sets they span.                                   *)
LEMMA IsoConstants ==
  /\ SnRange \in Nat /\ SnRange >= 2 /\ BlockSize \in Nat /\ BlockSize >= 1 /\ RxCapacity \in Nat
  /\ NBs \in Nat /\ NBs >= 1 /\ NCr \in Nat /\ NCr >= 1 /\ StallTicks \in Nat /\ StallTicks >= 1
  /\ BusBound \in Nat /\ 0 \in Numbers /\ 0 \in Blocks /\ BlockSize \in Blocks
  /\ 0 \in SendTimes /\ NBs \in SendTimes /\ StallTicks \in SendTimes
  /\ 0 \in Lengths /\ 0 \in RecvTimes /\ NCr \in RecvTimes
  /\ \A m \in Messages : Size[m] \in Nat /\ Size[m] >= 1
BY IsoTpAssumption DEF Numbers, Blocks, SendTimes, Lengths, RecvTimes

(* Both sides idle.                                                        *)
LEMMA InitIso == IsoInit => IsoInv
<1> SUFFICES ASSUME IsoInit PROVE IsoInv
  OBVIOUS
<1>1. SenderOK(snd, reports)
  BY IsoConstants DEF IsoInit, IdleSender, SenderOK, Senders, SendStates, Offers, SendErrors, Segmented
<1>2. rcv.buf = <<>> /\ <<>> \in Seq(Cells)
  BY DEF IsoInit
<1>3. ReceiverOK(rcv)
  BY <1>2, IsoConstants DEF IsoInit, ReceiverOK, Receivers, RecvErrors, Statuses, FlowStatus
<1>4. BusOK(dataBus, fcBus)
  BY IsoConstants DEF IsoInit, BusOK
<1>5. Chain(snd, rcv, dataBus)
  BY DEF IsoInit, IdleSender, Chain, Linked, Segmented
<1>6. Order(snd, rcv, dataBus, NoMsg)
  BY DEF IsoInit, IdleSender, Order, Sorted, Segmented
<1> QED BY <1>1, <1>3, <1>4, <1>5, <1>6 DEF IsoInv, IsoInit

(* A transfer begins: unless it is crossed nothing is under way.           *)
LEMMA StepBegin == ASSUME IsoInv, NEW m \in Messages, Begin(m) PROVE IsoInv'
<1>0. snd \in Senders /\ reports = 1 /\ snd.state = "idle"
  BY DEF IsoInv, SenderOK, Begin
<1>1. snd' = [snd EXCEPT !.state = "first", !.msg = m, !.sent = 0, !.seq = 0,
                        !.block = 0, !.error = "none"]
  BY DEF Begin
<1>2. snd' \in Senders /\ snd'.state = "first" /\ snd'.msg = m /\ snd'.sent = 0 /\ snd'.seq = 0
  BY <1>0, <1>1, IsoConstants DEF Senders, SendStates, SendErrors
<1>3. SenderOK(snd', reports')
  BY <1>2 DEF SenderOK, Segmented, Begin
<1>4. Chain(snd, rcv, dataBus) => Chain(snd', rcv', dataBus')
  BY <1>2 DEF Chain, Segmented, Begin, NextIs, Held
<1>5. ~crossed' => Order(snd', rcv', dataBus', m)
  <2> SUFFICES ASSUME ~crossed' PROVE Order(snd', rcv', dataBus', m)
    OBVIOUS
  <2>1. dataBus' = <<>> /\ Len(dataBus') = 0 /\ ~rcv'.busy
    BY DEF Begin, Quiet
  <2> HIDE DEF Begin
  <2> QED BY <1>2, <2>1 DEF Order, Sorted, Segmented
<1> QED BY <1>3, <1>4, <1>5 DEF IsoInv, Begin

(* A refused frame stays as it was offered.                                *)
LEMMA StepRefused == ASSUME IsoInv, TxRefused PROVE IsoInv'
<1> DEFINE k == Kind
           t == IF snd.pending = Kind THEN snd.timer ELSE StallTicks
<1>0. snd \in Senders /\ k \in Offers /\ t \in SendTimes
  BY IsoConstants DEF IsoInv, SenderOK, Kind, Offers, Senders
<1>1. snd' = [snd EXCEPT !.pending = k, !.timer = t]
  BY DEF TxRefused, Refused
<1> HIDE DEF k, t
<1>2. snd' \in Senders
  BY <1>0, <1>1 DEF Senders
<1>3. /\ snd'.state = snd.state /\ snd'.msg = snd.msg /\ snd'.sent = snd.sent
      /\ snd'.seq = snd.seq /\ snd'.block = snd.block
  BY <1>0, <1>1 DEF Senders
<1>4. SenderOK(snd', reports') /\ Rests(snd, snd')
  BY <1>2, <1>3 DEF IsoInv, SenderOK, Segmented, Rests, TxRefused
<1> QED BY <1>4, StepRests DEF IsoInv, TxRefused, Drops

(* A transfer is over, and reported once.                                  *)
LEMMA StepFails ==
  ASSUME IsoInv, snd.state # "idle", NEW error \in SendErrors, Fails(error) PROVE IsoInv'
<1>1. snd' = [IdleSender EXCEPT !.error = error]
  BY DEF Fails
<1>2. snd' \in Senders /\ snd'.state = "idle"
  BY <1>1, IsoConstants DEF IdleSender, Senders, SendStates, Offers, SendErrors
<1>3. reports' = 1
  BY DEF Fails, IsoInv, SenderOK
<1>4. SenderOK(snd', reports') /\ Rests(snd, snd')
  BY <1>2, <1>3 DEF SenderOK, Segmented, Rests
<1> QED BY <1>4, StepRests DEF IsoInv, Fails, Drops

(* The bus of flow control frames.                                         *)
LEMMA FlowBus ==
  ASSUME NEW c \in Seq(FlowStatus), Len(c) <= BusBound
  PROVE  /\ c # <<>> => /\ Tail(c) \in Seq(FlowStatus) /\ Len(Tail(c)) <= BusBound
                        /\ Head(c) \in FlowStatus
         /\ \A x \in FlowStatus : Len(c) < BusBound =>
               Append(c, x) \in Seq(FlowStatus) /\ Len(Append(c, x)) <= BusBound
<1>1. c # <<>> => Tail(c) \in Seq(FlowStatus) /\ Len(Tail(c)) = Len(c) - 1 /\ Head(c) \in FlowStatus
  BY HeadTailProperties
<1>2. \A x \in FlowStatus : Append(c, x) \in Seq(FlowStatus) /\ Len(Append(c, x)) = Len(c) + 1
  BY AppendProperties
<1>3. Len(c) \in Nat
  OBVIOUS
<1> QED BY <1>1, <1>2, <1>3, IsoConstants

(* A flow control frame arrives.                                           *)
LEMMA StepFlow == ASSUME IsoInv, OnFlowControl PROVE IsoInv'
<1>0. /\ snd \in Senders /\ fcBus # <<>> /\ fcBus' = Tail(fcBus) /\ Head(fcBus) \in FlowStatus
      /\ BusOK(dataBus', fcBus')
  BY FlowBus DEF IsoInv, SenderOK, BusOK, OnFlowControl
<1>1. SenderOK(snd', reports') /\ Rests(snd, snd')
  <2>1. CASE snd.state # "wait_fc"
    BY <2>1 DEF OnFlowControl, IsoInv, Rests
  <2>2. CASE snd.state = "wait_fc" /\ Head(fcBus) = "continue"
    <3>1. snd' = [snd EXCEPT !.state = "cf", !.block = BlockSize, !.timer = 0]
      BY <2>2 DEF OnFlowControl
    <3>2. /\ snd' \in Senders /\ snd'.state = "cf" /\ snd'.block = BlockSize
          /\ snd'.msg = snd.msg /\ snd'.sent = snd.sent /\ snd'.seq = snd.seq
      BY <1>0, <3>1, IsoConstants DEF Senders, SendStates
    <3> QED BY <2>2, <3>2, IsoConstants DEF IsoInv, SenderOK, Segmented, Rests, OnFlowControl
  <2>3. CASE snd.state = "wait_fc" /\ Head(fcBus) = "wait"
    <3>1. snd' = [snd EXCEPT !.timer = NBs]
      BY <2>3 DEF OnFlowControl
    <3>2. /\ snd' \in Senders /\ snd'.state = snd.state
          /\ snd'.msg = snd.msg /\ snd'.sent = snd.sent /\ snd'.seq = snd.seq /\ snd'.block = snd.block
      BY <1>0, <3>1, IsoConstants DEF Senders
    <3> QED BY <2>3, <3>2 DEF IsoInv, SenderOK, Segmented, Rests, OnFlowControl
  <2>4. CASE snd.state = "wait_fc" /\ Head(fcBus) = "overflow"
    <3>1. snd' = [snd EXCEPT !.state = "failed", !.error = "overflow_remote",
                           !.pending = "none", !.timer = 0]
      BY <2>4 DEF OnFlowControl, Overflowed
    <3>2. /\ snd' \in Senders /\ snd'.state = "failed" /\ snd'.msg = snd.msg
      BY <1>0, <3>1, IsoConstants DEF Senders, SendStates, SendErrors, Offers
    <3> QED BY <2>4, <3>2 DEF IsoInv, SenderOK, Segmented, Rests, OnFlowControl
  <2> QED BY <1>0, <2>1, <2>2, <2>3, <2>4 DEF FlowStatus
<1> QED BY <1>0, <1>1, StepRests DEF IsoInv, OnFlowControl, Drops

(* A flow control frame is lost, goes out late or is a WAIT.               *)
LEMMA StepFcBus == ASSUME IsoInv, LoseFc \/ SendPendingFc \/ PeerWaits PROVE IsoInv'
<1>0. fcBus \in Seq(FlowStatus) /\ Len(fcBus) <= BusBound /\ rcv \in Receivers
  BY DEF IsoInv, BusOK, ReceiverOK
<1>1. CASE LoseFc
  BY <1>0, <1>1, FlowBus, StepRests DEF IsoInv, LoseFc, BusOK, Drops, Rests
<1>2. CASE SendPendingFc
  <2>1. rcv' = [rcv EXCEPT !.fc = "none"] /\ rcv.fc \in FlowStatus
    BY <1>0, <1>2 DEF SendPendingFc, Receivers, Statuses
  <2>2. /\ rcv' \in Receivers /\ rcv'.busy = rcv.busy /\ rcv'.buf = rcv.buf
        /\ rcv'.expected = rcv.expected /\ rcv'.seq = rcv.seq /\ rcv'.block = rcv.block
        /\ rcv'.error = rcv.error
    BY <1>0, <2>1 DEF Receivers, Statuses
  <2>3. ReceiverOK(rcv') /\ Drops(rcv, rcv')
    BY <2>2 DEF IsoInv, ReceiverOK, Held, Drops
  <2>4. fcBus' \in Seq(FlowStatus) /\ Len(fcBus') <= BusBound
    BY <1>0, <1>2, <2>1, FlowBus DEF SendPendingFc
  <2> QED BY <1>2, <2>2, <2>3, <2>4, StepRests DEF IsoInv, BusOK, SendPendingFc, Rests
<1>3. CASE PeerWaits
  <2>1. "wait" \in FlowStatus
    BY DEF FlowStatus
  <2>2. fcBus' \in Seq(FlowStatus) /\ Len(fcBus') <= BusBound
    BY <1>0, <1>3, <2>1, FlowBus DEF PeerWaits
  <2> QED BY <1>3, <2>2, StepRests DEF IsoInv, BusOK, PeerWaits, Rests, Drops
<1> QED BY <1>1, <1>2, <1>3

(* The receiver after a complete message.                                  *)
LEMMA IdleReceiver ==
  ASSUME NEW r \in Receivers, NEW q, q = [Idle(r) EXCEPT !.buf = <<>>, !.expected = 0]
  PROVE  ReceiverOK(q) /\ q.busy = FALSE /\ q.error = r.error
<1>1. <<>> \in Seq(Cells) /\ 0 \in Lengths /\ Len(<<>>) <= RxCapacity
  BY IsoConstants
<1>2. q \in Receivers
  BY <1>1, IsoConstants DEF Idle, Receivers
<1>3. q.busy = FALSE /\ q.error = r.error /\ q.buf = <<>>
  BY DEF Idle, Receivers
<1> QED BY <1>1, <1>2, <1>3 DEF ReceiverOK

(* The receiver after a failure keeps its buffer and forgets its state.    *)
LEMMA IdleKeeps ==
  ASSUME NEW r \in Receivers, NEW e \in RecvErrors, Len(r.buf) <= RxCapacity
  PROVE  LET q == [Idle(r) EXCEPT !.error = e]
         IN  ReceiverOK(q) /\ q.busy = FALSE /\ q.error = e
BY IsoConstants DEF Idle, Receivers, ReceiverOK

(* Time passes, or N_Cr is over.                                           *)
LEMMA StepTimes == ASSUME IsoInv, RxTimeout \/ IsoTick PROVE IsoInv'
<1>0. snd \in Senders /\ rcv \in Receivers
  BY DEF IsoInv, SenderOK, ReceiverOK
<1>1. CASE RxTimeout
  <2>1. "cf_timeout" \in RecvErrors
    BY DEF RecvErrors
  <2>2. ReceiverOK(rcv') /\ rcv'.busy = FALSE /\ rcv'.error = "cf_timeout"
    BY <1>0, <1>1, <2>1, IdleKeeps DEF RxTimeout, IsoInv, ReceiverOK
  <2> QED BY <1>1, <2>2, StepRests DEF IsoInv, RxTimeout, Rests, Drops
<1>2. CASE IsoTick
  <2> DEFINE t == Elapse(snd.timer)
             u == Elapse(rcv.timer)
  <2>1. t \in SendTimes /\ u \in RecvTimes
    BY <1>0, IsoConstants DEF Senders, Receivers, SendTimes, RecvTimes, Elapse
  <2>2. snd' = [snd EXCEPT !.timer = t] /\ rcv' = [rcv EXCEPT !.timer = u]
    BY <1>0, <1>2 DEF IsoTick, Senders, Receivers
  <2> HIDE DEF t, u
  <2>3. /\ snd' \in Senders /\ snd'.state = snd.state /\ snd'.msg = snd.msg
        /\ snd'.sent = snd.sent /\ snd'.seq = snd.seq /\ snd'.block = snd.block
    BY <1>0, <2>1, <2>2 DEF Senders
  <2>4. /\ rcv' \in Receivers /\ rcv'.busy = rcv.busy /\ rcv'.buf = rcv.buf
        /\ rcv'.expected = rcv.expected /\ rcv'.seq = rcv.seq /\ rcv'.block = rcv.block
        /\ rcv'.error = rcv.error
    BY <1>0, <2>1, <2>2 DEF Receivers
  <2>5. SenderOK(snd', reports') /\ Rests(snd, snd')
    BY <1>2, <2>3 DEF IsoInv, SenderOK, Segmented, Rests, IsoTick
  <2>6. ReceiverOK(rcv') /\ Drops(rcv, rcv')
    BY <2>4 DEF IsoInv, ReceiverOK, Held, Drops
  <2> QED BY <1>2, <2>4, <2>5, <2>6, StepRests DEF IsoInv, IsoTick
<1> QED BY <1>1, <1>2

(* The frame that is offered.                                              *)
LEMMA OfferedFrame ==
  ASSUME IsoInv, Offering
  PROVE  /\ WellFormed(Frame) /\ Frame \in Frames /\ Frame.type = Kind /\ Frame.msg = snd.msg
         /\ Frame.body[2] = snd.sent + 1 /\ snd.msg \in Messages /\ snd.sent \in Nat
<1>0. snd \in Senders /\ snd.msg \in Messages /\ snd.sent \in Nat /\ snd.seq \in Numbers
  BY DEF IsoInv, SenderOK, Offering, Senders
<1>1. /\ Frame.type = Kind /\ Frame.msg = snd.msg /\ Frame.body = <<snd.msg, snd.sent + 1>>
      /\ Frame.seq = (snd.seq + 1) % SnRange /\ Frame.seq \in Numbers
      /\ Frame = [type |-> Frame.type, msg |-> Frame.msg, seq |-> Frame.seq, body |-> Frame.body]
  BY <1>0, NumberRange DEF Frame, NextSeq, Numbers
<1>2. Frame \in Frames
  <2>1. Frame.type \in {"single", "first", "cf"} /\ Frame.body \in Cells
    BY <1>0, <1>1 DEF Kind, Cells
  <2> QED BY <1>0, <1>1, <2>1 DEF Frames
<1>3. Size[snd.msg] \in Nat /\ Size[snd.msg] >= 1
  BY <1>0, IsoConstants
<1>4. CASE snd.state = "cf"
  <2>1. snd.sent \in 1..(Size[snd.msg] - 1) /\ snd.seq = (snd.sent - 1) % SnRange
    BY <1>4 DEF IsoInv, SenderOK, Segmented
  <2>2. snd.sent - 1 \in Nat /\ (snd.sent - 1) + 1 = (snd.sent + 1) - 1
    BY <2>1, <1>3
  <2>3. Frame.seq = ((snd.sent + 1) - 1) % SnRange
    BY <1>1, <2>1, <2>2, NumberAfter
  <2>4. Kind = "cf" /\ snd.sent + 1 \in 1..Size[snd.msg] /\ snd.sent + 1 >= 2
    BY <1>3, <1>4, <2>1 DEF Kind
  <2> QED BY <1>0, <1>1, <1>2, <2>3, <2>4 DEF WellFormed
<1>5. CASE snd.state = "first"
  <2>1. snd.sent = 0
    BY <1>5 DEF IsoInv, SenderOK
  <2>2. Kind = IF Size[snd.msg] = 1 THEN "single" ELSE "first"
    BY <1>5 DEF Kind
  <2> QED BY <1>0, <1>1, <1>2, <1>3, <2>1, <2>2 DEF WellFormed
<1> QED BY <1>4, <1>5 DEF Offering

(* What its acceptance makes of the sender.                                *)
LEMMA AcceptedSender ==
  ASSUME IsoInv, TxAccepted
  PROVE  /\ SenderOK(snd', reports') /\ snd'.msg = snd.msg /\ snd'.state # "first"
         /\ Segmented(snd') => Frame.type # "single" /\ snd'.sent = snd.sent + 1
<1>0. /\ snd \in Senders /\ Offering /\ snd.msg \in Messages /\ snd.sent \in Nat
      /\ snd.seq \in Numbers /\ snd.block \in Blocks /\ Frame.type = Kind
      /\ reports' = 0 /\ snd' = ConfirmSent(snd) /\ Size[snd.msg] \in Nat /\ Size[snd.msg] >= 1
  BY OfferedFrame, IsoConstants DEF TxAccepted, IsoInv, SenderOK, Senders, Offering
<1>1. CASE Kind = "single"
  <2>1. snd' = [snd EXCEPT !.pending = "none", !.timer = 0, !.state = "done"]
    BY <1>0, <1>1 DEF ConfirmSent
  <2>2. snd' \in Senders /\ snd'.state = "done" /\ snd'.msg = snd.msg
    BY <1>0, <2>1, IsoConstants DEF Senders, SendStates, Offers
  <2> QED BY <1>0, <2>2 DEF SenderOK, Segmented
<1>2. CASE Kind = "first"
  <2>0. snd.state = "first" /\ Size[snd.msg] # 1
    BY <1>0, <1>2 DEF Kind, Offering
  <2>1. snd' = [snd EXCEPT !.pending = "none", !.sent = 1, !.state = "wait_fc", !.timer = NBs]
    BY <1>0, <1>2 DEF ConfirmSent
  <2>2. snd' \in Senders
    <3>1. NBs \in SendTimes /\ "none" \in Offers /\ "wait_fc" \in SendStates /\ 1 \in Nat
      BY IsoConstants DEF Offers, SendStates
    <3>2. [snd EXCEPT !.pending = "none", !.sent = 1, !.state = "wait_fc", !.timer = NBs] \in Senders
      BY <1>0, <3>1 DEF Senders
    <3> QED BY <2>1, <3>2
  <2>3. snd'.state = "wait_fc" /\ snd'.msg = snd.msg /\ snd'.sent = 1 /\ snd'.seq = snd.seq
    BY <1>0, <2>1 DEF Senders
  <2>4. snd.sent = 0 /\ snd.seq = 0
    BY <2>0 DEF IsoInv, SenderOK
  <2>5. (1 - 1) % SnRange = 0
    BY IsoConstants
  <2>6. snd'.sent \in 1..(Size[snd'.msg] - 1) /\ snd'.seq = (snd'.sent - 1) % SnRange
    BY <1>0, <2>0, <2>3, <2>4, <2>5
  <2> QED BY <1>0, <1>2, <2>2, <2>3, <2>4, <2>6 DEF SenderOK, Segmented
<1>3. CASE Kind = "cf"
  <2>0. snd.state = "cf" /\ snd.block >= 1 /\ snd.sent \in 1..(Size[snd.msg] - 1)
    BY <1>0, <1>3 DEF Kind, Offering, IsoInv, SenderOK, Segmented
  <2> DEFINE n == NextSeq(snd)
             k == snd.sent + 1
             c == [snd EXCEPT !.pending = "none", !.timer = 0, !.seq = n, !.sent = k]
             b == snd.block - 1
  <2>1. n = (k - 1) % SnRange /\ n \in Numbers /\ k \in Nat /\ b \in Blocks
    <3>1. snd.seq = (snd.sent - 1) % SnRange /\ snd.sent - 1 \in Nat
      BY <1>0, <2>0 DEF IsoInv, SenderOK, Segmented
    <3>2. (snd.sent - 1) + 1 = k - 1 /\ k - 1 \in Nat
      BY <1>0, <2>0
    <3>3. n = (k - 1) % SnRange
      BY <3>1, <3>2, NumberAfter DEF NextSeq
    <3>4. k \in Nat /\ b \in Blocks
      BY <1>0, <2>0, IsoConstants DEF Blocks
    <3> HIDE DEF n, k
    <3>5. n \in Numbers
      BY <3>2, <3>3, NumberRange
    <3> QED BY <3>3, <3>4, <3>5
  <2>2. c = [snd EXCEPT !.pending = "none", !.timer = 0, !.seq = NextSeq(snd), !.sent = @ + 1]
    BY <1>0 DEF Senders
  <2>3. snd' = AfterCf(snd)
    BY <1>0, <1>3 DEF ConfirmSent
  <2>4. snd' = CASE c.sent >= Size[c.msg] -> [c EXCEPT !.state = "done"]
        [] c.sent < Size[c.msg] /\ c.block = 1 ->
             [c EXCEPT !.block = 0, !.state = "wait_fc", !.timer = NBs]
        [] c.sent < Size[c.msg] /\ c.block # 1 ->
             [c EXCEPT !.block = IF @ = 0 THEN 0 ELSE @ - 1]
    BY <2>2, <2>3 DEF AfterCf
  <2> HIDE DEF n, k, c
  <2>5. /\ c \in Senders /\ c.sent = k /\ c.msg = snd.msg /\ c.block = snd.block
        /\ c.state = "cf" /\ c.seq = n
    BY <1>0, <2>0, <2>1, IsoConstants DEF c, Senders, Offers
  <2>6. CASE k >= Size[snd.msg]
    <3>1. snd' = [c EXCEPT !.state = "done"]
      BY <1>0, <2>1, <2>4, <2>5, <2>6
    <3>2. snd' \in Senders /\ snd'.state = "done" /\ snd'.msg = snd.msg
      BY <2>5, <3>1 DEF Senders, SendStates
    <3> QED BY <1>0, <3>2 DEF SenderOK, Segmented
  <2>7. CASE k < Size[snd.msg] /\ snd.block = 1
    <3>1. snd' = [c EXCEPT !.block = 0, !.state = "wait_fc", !.timer = NBs]
      BY <1>0, <2>1, <2>4, <2>5, <2>7
    <3>2. /\ snd' \in Senders /\ snd'.state = "wait_fc" /\ snd'.msg = snd.msg
          /\ snd'.sent = k /\ snd'.seq = n
      BY <2>5, <3>1, IsoConstants DEF Senders, SendStates
    <3>3. k \in 1..(Size[snd.msg] - 1)
      BY <1>0, <2>0, <2>7 DEF k
    <3> QED BY <1>0, <1>3, <2>1, <3>2, <3>3 DEF SenderOK, Segmented, k
  <2>8. CASE k < Size[snd.msg] /\ snd.block # 1
    <3>1. snd' = [c EXCEPT !.block = b]
      <4>1. snd' = [c EXCEPT !.block = IF c.block = 0 THEN 0 ELSE c.block - 1]
        BY <1>0, <2>1, <2>4, <2>5, <2>8
      <4> QED BY <4>1, <2>5, <2>0, <1>0 DEF Blocks
    <3> HIDE DEF b
    <3>2. /\ snd' \in Senders /\ snd'.state = "cf" /\ snd'.msg = snd.msg
          /\ snd'.sent = k /\ snd'.seq = n /\ snd'.block = b
      BY <2>1, <2>5, <3>1 DEF Senders
    <3>3. k \in 1..(Size[snd.msg] - 1) /\ b >= 1
      BY <1>0, <2>0, <2>8 DEF k, b, Blocks
    <3> QED BY <1>0, <1>3, <2>1, <3>2, <3>3 DEF SenderOK, Segmented, k
  <2> QED BY <1>0, <2>1, <2>6, <2>7, <2>8
<1> QED BY <1>0, <1>1, <1>2, <1>3 DEF Kind

(* A frame is accepted: it follows what is on the bus.                     *)
LEMMA StepAccepted == ASSUME IsoInv, TxAccepted PROVE IsoInv'
<1> DEFINE d == dataBus
           f == Frame
<1>0. /\ Offering /\ Len(d) < BusBound /\ dataBus' = Append(d, f) /\ d \in Seq(Frames)
      /\ rcv' = rcv /\ fcBus' = fcBus /\ lost' = lost /\ crossed' = crossed
      /\ \A i \in 1..Len(d) : WellFormed(d[i]) /\ d[i] \in Frames
  BY DEF TxAccepted, IsoInv, BusOK
<1>1. /\ WellFormed(f) /\ f \in Frames /\ f.type = Kind /\ f.msg = snd.msg
      /\ f.body[2] = snd.sent + 1 /\ snd.msg \in Messages /\ snd.sent \in Nat
  BY <1>0, OfferedFrame
<1>2. /\ SenderOK(snd', reports') /\ snd'.msg = snd.msg /\ snd'.state # "first"
      /\ Segmented(snd') => f.type # "single" /\ snd'.sent = snd.sent + 1
  BY AcceptedSender
<1>3. f.type = "cf" => Segmented(snd) /\ snd.state = "cf"
  BY <1>0, <1>1 DEF Kind, Segmented, Offering
<1>4. f.type # "cf" => snd.state = "first" /\ snd.sent = 0
  BY <1>0, <1>1 DEF Kind, Offering, IsoInv, SenderOK
<1> HIDE DEF f, d
<1>5. /\ dataBus' \in Seq(Frames) /\ Len(dataBus') = Len(d) + 1 /\ Len(d) \in Nat
      /\ dataBus'[Len(d) + 1] = f /\ \A i \in 1..Len(d) : dataBus'[i] = d[i]
  BY <1>0, <1>1, AppendBus
<1>6. BusOK(dataBus', fcBus')
  BY <1>0, <1>1, <1>5, IsoConstants DEF BusOK, IsoInv
<1>7. ASSUME ~lost PROVE Chain(snd', rcv', dataBus')
  <2>1. Chain(snd, rcv, d)
    BY <1>7 DEF IsoInv, d
  <2>2. f.type = "cf" /\ d # <<>> => Follows(d[Len(d)], f)
    BY <1>1, <1>3, <2>1 DEF Chain, Follows
  <2>3. Linked(dataBus')
    BY <1>0, <1>1, <2>1, <2>2, AppendLinked DEF Chain
  <2>4. dataBus' # <<>> /\ Head(dataBus') = dataBus'[1]
    BY <1>5, EmptySeq
  <2>5. ASSUME rcv.busy, dataBus'[1].type = "cf"
        PROVE  NextIs(rcv, dataBus'[1].msg, dataBus'[1].body[2])
    <3>1. CASE d = <<>>
      <4>1. dataBus'[1] = f
        BY <1>5, <3>1, EmptySeq
      <4> QED BY <1>1, <1>3, <2>1, <2>5, <3>1, <4>1 DEF Chain
    <3>2. CASE d # <<>>
      <4>1. 1 \in 1..Len(d) /\ Head(d) = d[1]
        BY <1>0, <1>5, <3>2, EmptySeq
      <4> QED BY <1>5, <2>1, <2>5, <3>2, <4>1 DEF Chain
    <3> QED BY <3>1, <3>2
  <2>6. dataBus'[Len(dataBus')] = f
    BY <1>5
  <2> QED BY <1>0, <1>1, <1>2, <2>1, <2>3, <2>4, <2>5, <2>6 DEF Chain
<1>8. ASSUME NEW m \in Messages \cup {NoMsg}, Order(snd, rcv, d, m)
      PROVE  Order(snd', rcv', dataBus', m)
  <2>0. snd.msg = m /\ Sorted(d, m) /\ \A i \in 1..Len(d) : d[i].body[2] \in Nat
    <3>1. snd.state # "idle"
      BY <1>0 DEF Offering
    <3> QED BY <1>0, <1>8, <3>1 DEF Order, Frames, Cells
  <2>1. \A i \in 1..Len(d) : d[i].body[2] < f.body[2]
    <3>1. CASE f.type = "cf"
      BY <1>1, <1>3, <1>8, <2>0, <3>1 DEF Order
    <3>2. CASE f.type # "cf"
      <4>1. d = <<>> /\ Len(d) = 0
        BY <1>4, <1>8, <3>2 DEF Order
      <4> QED BY <4>1
    <3> QED BY <3>1, <3>2
  <2>2. Sorted(dataBus', m)
    BY <1>0, <1>1, <2>0, <2>1, AppendSorted
  <2>3. rcv.busy => f.type = "cf" /\ Top(rcv.buf) < f.body[2] /\ Top(rcv.buf) \in Nat
    <3> SUFFICES ASSUME rcv.busy PROVE f.type = "cf" /\ Top(rcv.buf) < f.body[2] /\ Top(rcv.buf) \in Nat
      OBVIOUS
    <3>1. f.type = "cf"
      BY <1>4, <1>8 DEF Order
    <3>2. Top(rcv.buf) \in Nat
      <4>1. rcv.buf \in Seq(Cells) /\ Len(rcv.buf) \in 1..Len(rcv.buf)
        BY DEF IsoInv, ReceiverOK, Receivers
      <4> QED BY <4>1 DEF Top, Cells
    <3>3. Top(rcv.buf) <= snd.sent
      BY <1>3, <1>8, <3>1 DEF Order
    <3> QED BY <1>1, <3>1, <3>2, <3>3
  <2>4. rcv.busy => \A i \in 1..Len(dataBus') : Top(rcv.buf) < dataBus'[i].body[2]
    BY <1>5, <1>8, <2>3 DEF Order
  <2>5. Segmented(snd') => \A i \in 1..Len(dataBus') : dataBus'[i].body[2] <= snd'.sent
    BY <1>1, <1>2, <1>5, <2>0, <2>1
  <2>6. Segmented(snd') /\ rcv.busy => Top(rcv.buf) <= snd'.sent
    BY <1>1, <1>2, <2>3
  <2>7. rcv.busy => Rising(rcv.buf, m)
    BY <1>8 DEF Order
  <2> QED BY <1>0, <1>2, <2>0, <2>2, <2>4, <2>5, <2>6, <2>7 DEF Order
<1> QED
  <2>1. ~crossed => \E m \in Messages \cup {NoMsg} : Order(snd, rcv, d, m)
    BY DEF IsoInv, d
  <2> QED BY <1>0, <1>2, <1>6, <1>7, <1>8, <2>1 DEF IsoInv, TxAccepted

(* The frame at the head of the bus.                                       *)
LEMMA HeadFrame ==
  ASSUME IsoInv, dataBus # <<>>
  PROVE  /\ Head(dataBus) \in Frames /\ WellFormed(Head(dataBus))
         /\ Head(dataBus).msg \in Messages /\ Head(dataBus).body \in Cells
         /\ Head(dataBus).body = <<Head(dataBus).msg, Head(dataBus).body[2]>>
         /\ Head(dataBus).body[2] \in Nat
         /\ dataBus \in Seq(Frames) /\ Tail(dataBus) \in Seq(Frames)
         /\ Len(Tail(dataBus)) <= BusBound
         /\ \A i \in 1..Len(Tail(dataBus)) : WellFormed(Tail(dataBus)[i])
<1> DEFINE f == Head(dataBus)
<1>1. /\ dataBus \in Seq(Frames) /\ Len(dataBus) <= BusBound
      /\ \A i \in 1..Len(dataBus) : WellFormed(dataBus[i])
  BY DEF IsoInv, BusOK
<1>2. /\ Tail(dataBus) \in Seq(Frames) /\ Len(Tail(dataBus)) = Len(dataBus) - 1 /\ f = dataBus[1]
      /\ Len(dataBus) \in Nat \ {0} /\ dataBus[1] \in Frames
      /\ \A i \in 1..Len(Tail(dataBus)) : Tail(dataBus)[i] = dataBus[i + 1] /\ i + 1 \in 1..Len(dataBus)
  BY <1>1, TailBus
<1> HIDE DEF f
<1>3. WellFormed(f) /\ f \in Frames /\ f.msg \in Messages /\ f.body \in Cells
  BY <1>1, <1>2 DEF Frames
<1>4. f.body = <<f.msg, f.body[2]>> /\ f.body[2] \in Nat
  BY <1>3 DEF WellFormed, Cells
<1>5. Len(Tail(dataBus)) <= BusBound /\ \A i \in 1..Len(Tail(dataBus)) : WellFormed(Tail(dataBus)[i])
  BY <1>1, <1>2, IsoConstants
<1> QED BY <1>1, <1>2, <1>3, <1>4, <1>5 DEF f

(* A receiver q that took frame f, if it is reassembling at all.           *)
Took(q, f) ==
  q.busy => /\ ~lost => Exact(q.buf, f.msg) /\ Held(q) = f.msg /\ Len(q.buf) = f.body[2]
            /\ \A m : ~crossed /\ Order(snd, rcv, dataBus, m) =>
                  Rising(q.buf, m) /\ Top(q.buf) = f.body[2]
            /\ f.type # "single"

(* A frame leaves the bus: the part common to arrival and loss.            *)
LEMMA StepReceived ==
  ASSUME IsoInv, dataBus # <<>>, dataBus' = Tail(dataBus), UNCHANGED <<snd, reports, crossed>>,
         ReceiverOK(rcv'), fcBus' \in Seq(FlowStatus), Len(fcBus') <= BusBound,
         lost' \in BOOLEAN, lost => lost',
         lost' \/ Took(rcv', Head(dataBus)), ~crossed => Took(rcv', Head(dataBus)) \/ rcv' = rcv,
         rcv'.error = "wrong_sequence" => lost',
         \/ delivered' = delivered
         \/ ~(lost /\ crossed) => \E m \in Messages : delivered' = Content(m)
  PROVE  IsoInv'
<1> DEFINE d == dataBus
           t == Tail(dataBus)
           f == Head(dataBus)
<1>1. BusOK(dataBus', fcBus')
  BY HeadFrame DEF BusOK
<1>2. d # <<>> /\ d \in Seq(Frames) /\ dataBus' = t
  BY DEF IsoInv, BusOK
<1>3. ASSUME ~lost' PROVE Chain(snd', rcv', dataBus')
  <2>1. Chain(snd, rcv, d) /\ ~lost
    BY <1>3 DEF IsoInv
  <2>2. /\ Linked(t)
        /\ t # <<>> /\ Head(t).type = "cf" => Follows(f, Head(t))
        /\ t # <<>> => t[Len(t)] = d[Len(d)]
        /\ t = <<>> => d[Len(d)] = f
    BY <1>2, <2>1, TailLinked DEF Chain
  <2>3. rcv'.busy => /\ Exact(rcv'.buf, f.msg) /\ Held(rcv') = f.msg /\ Len(rcv'.buf) = f.body[2]
    BY <1>3, <2>1 DEF Took
  <2>4. rcv'.error # "wrong_sequence" /\ snd' = snd
    BY <1>3
  <2> HIDE DEF d, t, f
  <2> QED BY <1>2, <2>1, <2>2, <2>3, <2>4 DEF Chain, Follows, NextIs
<1>4. ASSUME NEW m \in Messages \cup {NoMsg}, ~crossed, Order(snd, rcv, d, m)
      PROVE  Order(snd', rcv', dataBus', m)
  <2>1. /\ Sorted(t, m) /\ f.msg = m
        /\ \A i \in 1..Len(t) : f.body[2] < t[i].body[2]
    BY <1>2, <1>4, TailSorted DEF Order
  <2>2. /\ Len(t) = Len(d) - 1 /\ Len(d) \in Nat \ {0} /\ f = d[1]
        /\ \A i \in 1..Len(t) : t[i] = d[i + 1] /\ i + 1 \in 1..Len(d)
    BY <1>2, TailBus
  <2>3. snd.state # "first" /\ snd' = snd
    BY <1>2, <1>4 DEF Order
  <2>4. CASE Took(rcv', Head(dataBus))
    <3>1. rcv'.busy => Rising(rcv'.buf, m) /\ Top(rcv'.buf) = f.body[2]
      BY <1>4, <2>4 DEF Took
    <3>2. 1 \in 1..Len(d)
      BY <2>2
    <3> HIDE DEF d, t, f
    <3> QED BY <1>2, <1>4, <2>1, <2>2, <2>3, <3>1, <3>2 DEF Order
  <2>5. CASE rcv' = rcv
    <3> HIDE DEF d, t, f
    <3> QED BY <1>2, <1>4, <2>1, <2>2, <2>3, <2>5 DEF Order
  <2> QED BY <1>4, <2>4, <2>5
<1>5. ~crossed' => \E m \in Messages \cup {NoMsg} : Order(snd', rcv', dataBus', m)
  BY <1>4 DEF IsoInv
<1>6. SenderOK(snd', reports') /\ crossed' \in BOOLEAN
  BY DEF IsoInv
<1>7. delivered' # <<>> /\ ~(lost' /\ crossed') => \E m \in Messages : delivered' = Content(m)
  BY DEF IsoInv
<1> HIDE DEF d, t, f
<1> QED BY <1>1, <1>3, <1>5, <1>6, <1>7 DEF IsoInv

(* A data frame is lost.                                                   *)
LEMMA StepLose == ASSUME IsoInv, LoseData PROVE IsoInv'
BY StepReceived DEF LoseData, IsoInv, BusOK

(* A flow control frame goes out or is kept.                               *)
LEMMA SendsFcOK ==
  ASSUME IsoInv, NEW r, ReceiverOK(r), NEW status \in FlowStatus, SendsFc(r, status)
  PROVE  /\ ReceiverOK(rcv') /\ rcv'.busy = r.busy /\ rcv'.buf = r.buf /\ rcv'.error = r.error
         /\ fcBus' \in Seq(FlowStatus) /\ Len(fcBus') <= BusBound
<1>1. fcBus' \in Seq(FlowStatus) /\ Len(fcBus') <= BusBound
  BY FlowBus DEF SendsFc, IsoInv, BusOK
<1>2. CASE rcv' = r
  BY <1>1, <1>2
<1>3. CASE rcv' = [r EXCEPT !.fc = status]
  <2>1. r \in Receivers /\ status \in Statuses
    BY DEF ReceiverOK, Statuses
  <2>2. /\ rcv' \in Receivers /\ rcv'.busy = r.busy /\ rcv'.buf = r.buf
        /\ rcv'.expected = r.expected /\ rcv'.seq = r.seq /\ rcv'.block = r.block
        /\ rcv'.error = r.error
    BY <1>3, <2>1 DEF Receivers
  <2>3. ReceiverOK(rcv')
    BY <2>2 DEF ReceiverOK, Held
  <2> QED BY <1>1, <2>2, <2>3
<1> QED BY <1>2, <1>3 DEF SendsFc

(* A receiver that reassembles nothing has nothing to show.                *)
LEMMA NotBusy ==
  ASSUME NEW q, NEW f, q.busy = FALSE PROVE Took(q, f)
BY DEF Took

(* A buffer of one frame.                                                  *)
LEMMA OneFrame ==
  ASSUME NEW m \in Messages, NEW c, c = <<m, 1>>
  PROVE  <<c>> \in Seq(Cells) /\ Len(<<c>>) = 1 /\ Exact(<<c>>, m) /\ Rising(<<c>>, m) /\ Top(<<c>>) = 1
BY DEF Cells, Exact, Rising, Top

(* A single frame is a message.                                            *)
LEMMA StepSingle == ASSUME IsoInv, OnFrame, OnSingle(Head(dataBus)) PROVE IsoInv'
<1> DEFINE f == Head(dataBus)
<1>1. f.msg \in Messages /\ f.body = <<f.msg, 1>> /\ Size[f.msg] = 1 /\ f.type = "single"
  <2>1. f.type = "single"
    BY DEF OnSingle
  <2> HIDE DEF f
  <2> QED BY <2>1, HeadFrame DEF OnFrame, WellFormed, f
<1>2. rcv' = [Idle(rcv) EXCEPT !.buf = <<>>, !.expected = 0] /\ delivered' = <<f.body>> /\ fcBus' = fcBus
  BY DEF OnSingle
<1> HIDE DEF f
<1>3. ReceiverOK(rcv') /\ rcv'.busy = FALSE /\ rcv'.error = rcv.error
  <2>1. rcv \in Receivers
    BY DEF IsoInv, ReceiverOK
  <2> QED BY <1>2, <2>1, IdleReceiver
<1>4. delivered' = Content(f.msg)
  <2>1. Exact(<<f.body>>, f.msg) /\ <<f.body>> \in Seq(Cells) /\ Len(<<f.body>>) = 1
    BY <1>1, OneFrame
  <2> QED BY <1>1, <1>2, <2>1, ExactWhole
<1>5. rcv'.error = "wrong_sequence" => lost
  BY <1>3 DEF IsoInv, Chain
<1>6. Took(rcv', Head(dataBus))
  BY <1>3, NotBusy
<1> QED BY <1>1, <1>2, <1>3, <1>4, <1>5, <1>6, StepReceived DEF IsoInv, BusOK, OnFrame

(* A first frame starts reassembly over, or is too large.                  *)
LEMMA StepFirst == ASSUME IsoInv, OnFrame, OnFirst(Head(dataBus)) PROVE IsoInv'
<1> DEFINE f == Head(dataBus)
<1>1. /\ f.msg \in Messages /\ f.body = <<f.msg, 1>> /\ Size[f.msg] > 1 /\ f.type = "first"
      /\ Size[f.msg] \in Nat /\ f.body[2] = 1
  <2>1. f.type = "first"
    BY DEF OnFirst
  <2> HIDE DEF f
  <2> QED BY <2>1, HeadFrame, IsoConstants DEF OnFrame, WellFormed, f
<1>2. rcv \in Receivers /\ Len(rcv.buf) <= RxCapacity
  BY DEF IsoInv, ReceiverOK
<1>3. CASE Size[f.msg] > RxCapacity
  <2> DEFINE r == [Idle(rcv) EXCEPT !.error = "overflow_local"]
  <2>1. SendsFc(r, "overflow") /\ "overflow" \in FlowStatus
    BY <1>3 DEF OnFirst, FlowStatus
  <2>2. ReceiverOK(r) /\ r.busy = FALSE /\ r.error = "overflow_local"
    <3>1. "overflow_local" \in RecvErrors
      BY DEF RecvErrors
    <3> QED BY <1>2, <3>1, IdleKeeps
  <2> HIDE DEF r, f
  <2>3. /\ ReceiverOK(rcv') /\ rcv'.busy = FALSE /\ rcv'.error = "overflow_local"
        /\ fcBus' \in Seq(FlowStatus) /\ Len(fcBus') <= BusBound
    BY <2>1, <2>2, SendsFcOK
  <2>4. Took(rcv', Head(dataBus))
    BY <2>3, NotBusy
  <2> QED BY <2>3, <2>4, StepReceived DEF OnFrame, OnFirst, IsoInv
<1>4. CASE ~(Size[f.msg] > RxCapacity)
  <2> DEFINE r == FirstAccepted(rcv, f)
             b == <<f.body>>
             x == Size[f.msg]
  <2>1. SendsFc(r, "continue") /\ "continue" \in FlowStatus
    BY <1>4 DEF OnFirst, FlowStatus
  <2>2. b \in Seq(Cells) /\ Len(b) = 1 /\ Exact(b, f.msg) /\ Rising(b, f.msg) /\ Top(b) = 1
    BY <1>1, OneFrame
  <2>3. x \in Lengths /\ x > 1 /\ x \in Nat /\ b[1][1] = f.msg
    BY <1>1, <1>4, IsoConstants DEF Lengths
  <2>4. r = [rcv EXCEPT !.busy = TRUE, !.buf = b, !.expected = x, !.seq = 0,
                        !.block = BlockSize, !.timer = NCr, !.error = "none"]
    BY DEF FirstAccepted
  <2> HIDE DEF r, b
  <2>5. r \in Receivers
    <3>1. "none" \in RecvErrors
      BY DEF RecvErrors
    <3> HIDE DEF x
    <3>2. [rcv EXCEPT !.busy = TRUE, !.buf = b, !.expected = x, !.seq = 0,
                        !.block = BlockSize, !.timer = NCr, !.error = "none"] \in Receivers
      BY <1>2, <2>2, <2>3, <3>1, IsoConstants DEF Receivers
    <3> QED BY <2>4, <3>2
  <2>6. /\ r.busy = TRUE /\ r.buf = b /\ r.expected = x /\ r.seq = 0 /\ r.block = BlockSize
        /\ r.error = "none"
    <3> HIDE DEF x
    <3> QED BY <1>2, <2>4 DEF Receivers
  <2>7. ReceiverOK(r)
    <3>1. (1 - 1) % SnRange = 0 /\ 1 <= RxCapacity
      BY <1>1, <1>4, IsoConstants
    <3> HIDE DEF x, f
    <3>2. Len(r.buf) \in 1..(r.expected - 1)
      <4>1. 1 \in 1..(x - 1)
        BY <2>3
      <4>2. Len(r.buf) = 1 /\ r.expected = x
        BY <2>2, <2>6
      <4> QED BY <4>1, <4>2
    <3>3. Held(r) = f.msg
      BY <2>3, <2>6 DEF Held
    <3> QED BY <2>2, <2>3, <2>5, <2>6, <3>1, <3>2, <3>3, IsoConstants DEF ReceiverOK, x
  <2>8. /\ ReceiverOK(rcv') /\ rcv'.busy = TRUE /\ rcv'.buf = b /\ rcv'.error = "none"
        /\ fcBus' \in Seq(FlowStatus) /\ Len(fcBus') <= BusBound
    BY <2>1, <2>6, <2>7, SendsFcOK
  <2>9. ASSUME NEW m, Order(snd, rcv, dataBus, m) PROVE m = f.msg
    <3>1. dataBus \in Seq(Frames) /\ dataBus # <<>>
      BY DEF OnFrame, IsoInv, BusOK
    <3> QED BY <2>9, <3>1, TailSorted DEF Order
  <2>10. Took(rcv', f)
    BY <1>1, <2>2, <2>3, <2>8, <2>9 DEF Took, Held
  <2>11. Took(rcv', Head(dataBus))
    BY <2>10
  <2> HIDE DEF f, x
  <2> QED BY <2>8, <2>11, StepReceived DEF OnFrame, OnFirst, IsoInv
<1> QED BY <1>3, <1>4

(* What appending a consecutive frame makes of the buffer.                 *)
LEMMA GotFrame ==
  ASSUME IsoInv, dataBus # <<>>, NEW f, f = Head(dataBus), f.type = "cf", rcv.busy
  PROVE  /\ Append(rcv.buf, f.body) \in Seq(Cells) /\ Len(Append(rcv.buf, f.body)) = Len(rcv.buf) + 1
         /\ Append(rcv.buf, f.body)[1] = rcv.buf[1] /\ Len(rcv.buf) \in Nat
         /\ Len(rcv.buf) >= 1 /\ Len(rcv.buf) < Size[Held(rcv)]
         /\ NextSeq(rcv) = Len(rcv.buf) % SnRange /\ NextSeq(rcv) \in Numbers
         /\ ~lost => /\ Exact(Append(rcv.buf, f.body), f.msg) /\ Held(rcv) = f.msg
                     /\ Len(rcv.buf) + 1 = f.body[2] /\ InSequence(f)
         /\ \A m : Order(snd, rcv, dataBus, m) =>
               /\ Rising(Append(rcv.buf, f.body), m) /\ Top(Append(rcv.buf, f.body)) = f.body[2]
               /\ Held(rcv) = m /\ f.msg = m
<1> DEFINE b == rcv.buf
           n == Len(b)
<1>1. /\ f \in Frames /\ WellFormed(f) /\ f.msg \in Messages /\ f.body \in Cells
      /\ f.body = <<f.msg, f.body[2]>> /\ f.body[2] \in Nat /\ dataBus \in Seq(Frames)
  BY HeadFrame
<1>2. /\ rcv \in Receivers /\ b \in Seq(Cells) /\ n \in 1..(rcv.expected - 1) /\ rcv.expected = Size[Held(rcv)]
      /\ rcv.seq = (n - 1) % SnRange /\ rcv.expected \in Nat
  BY DEF IsoInv, ReceiverOK, Receivers, Lengths
<1>3. n \in Nat /\ n >= 1 /\ n < Size[Held(rcv)] /\ n - 1 \in Nat /\ (n - 1) + 1 = n
  BY <1>2
<1>4. NextSeq(rcv) = n % SnRange /\ NextSeq(rcv) \in Numbers
  <2> HIDE DEF n
  <2> QED BY <1>2, <1>3, NumberAfter, NumberRange DEF NextSeq
<1>5. Append(b, f.body) \in Seq(Cells) /\ Len(Append(b, f.body)) = n + 1 /\ Append(b, f.body)[1] = b[1] /\ b # <<>>
  BY <1>1, <1>2, <1>3, AppendProperties
<1>6. ASSUME ~lost PROVE Exact(Append(b, f.body), f.msg) /\ Held(rcv) = f.msg /\ n + 1 = f.body[2] /\ InSequence(f)
  <2>1. Exact(b, Held(rcv)) /\ Held(rcv) = f.msg /\ f.body[2] = n + 1
    BY <1>6 DEF IsoInv, Chain, NextIs
  <2>2. f.body = <<f.msg, n + 1>>
    BY <1>1, <2>1
  <2>3. Exact(Append(b, f.body), f.msg)
    BY <1>1, <1>2, <2>1, <2>2, ExactAppend
  <2>4. f.seq = (f.body[2] - 1) % SnRange /\ f.body[2] - 1 = n
    BY <1>1, <1>3, <2>1 DEF WellFormed
  <2> HIDE DEF n
  <2>5. InSequence(f)
    BY <1>4, <2>4 DEF InSequence
  <2> QED BY <2>1, <2>3, <2>5
<1>7. ASSUME NEW m, Order(snd, rcv, dataBus, m)
      PROVE  /\ Rising(Append(b, f.body), m) /\ Top(Append(b, f.body)) = f.body[2]
             /\ Held(rcv) = m /\ f.msg = m
  <2>1. f.msg = m
    BY <1>1, <1>7, TailSorted DEF Order
  <2>2. Rising(b, m) /\ Top(b) < f.body[2]
    <3>1. f = dataBus[1] /\ 1 \in 1..Len(dataBus)
      BY <1>1, TailBus
    <3> QED BY <1>7, <3>1 DEF Order
  <2>3. Held(rcv) = m
    BY <1>3, <2>2 DEF Rising, Held
  <2>4. f.body[1] = m
    BY <1>1, <2>1
  <2> HIDE DEF b, n
  <2> QED BY <1>1, <1>2, <1>5, <2>1, <2>2, <2>3, <2>4, RisingAppend
<1> QED BY <1>3, <1>4, <1>5, <1>6, <1>7

(* A consecutive frame: ignored, out of sequence, the last one, or one of  *)
(* several.                                                                *)
LEMMA StepConsecutive == ASSUME IsoInv, OnFrame, OnConsecutive(Head(dataBus)) PROVE IsoInv'
<1> DEFINE f == Head(dataBus)
           b == Append(rcv.buf, f.body)
           n == NextSeq(rcv)
           got == [rcv EXCEPT !.seq = n, !.buf = b, !.timer = NCr]
<1>1. /\ dataBus # <<>> /\ f.type = "cf" /\ dataBus' = Tail(dataBus)
      /\ UNCHANGED <<snd, reports, lost, crossed>>
  BY DEF OnFrame, OnConsecutive
<1>2. /\ rcv \in Receivers /\ Len(rcv.buf) <= RxCapacity /\ fcBus \in Seq(FlowStatus)
      /\ Len(fcBus) <= BusBound /\ lost \in BOOLEAN /\ ReceiverOK(rcv)
      /\ rcv.error = "wrong_sequence" => lost
  BY DEF IsoInv, ReceiverOK, BusOK, Chain
<1>3. \/ ~rcv.busy /\ UNCHANGED <<rcv, fcBus, delivered>>
      \/ /\ rcv.busy /\ ~InSequence(f)
         /\ rcv' = [Idle(rcv) EXCEPT !.error = "wrong_sequence"]
         /\ UNCHANGED <<fcBus, delivered>>
      \/ /\ rcv.busy /\ Len(got.buf) >= rcv.expected /\ delivered' = got.buf
         /\ rcv' = [Idle(got) EXCEPT !.buf = <<>>, !.expected = 0] /\ fcBus' = fcBus
      \/ /\ rcv.busy /\ Len(got.buf) < rcv.expected /\ delivered' = delivered
         /\ \/ SendsFc([got EXCEPT !.block = BlockSize], "continue")
            \/ rcv.block # 1 /\ rcv' = [got EXCEPT !.block = @ - 1] /\ fcBus' = fcBus
  BY DEF OnConsecutive
<1> HIDE DEF got
<1>4. CASE ~rcv.busy /\ UNCHANGED <<rcv, fcBus, delivered>>
  <2>1. Took(rcv', Head(dataBus))
    <3>1. rcv'.busy = FALSE
      BY <1>2, <1>4 DEF Receivers
    <3> QED BY <3>1, NotBusy
  <2> QED BY <1>1, <1>2, <1>4, <2>1, StepReceived
<1>5. CASE /\ rcv.busy /\ ~InSequence(f)
           /\ rcv' = [Idle(rcv) EXCEPT !.error = "wrong_sequence"]
           /\ UNCHANGED <<fcBus, delivered>>
  <2>1. ReceiverOK(rcv') /\ rcv'.busy = FALSE /\ rcv'.error = "wrong_sequence"
    <3>1. "wrong_sequence" \in RecvErrors
      BY DEF RecvErrors
    <3> QED BY <1>2, <1>5, <3>1, IdleKeeps
  <2>2. lost
    BY <1>1, <1>5, GotFrame
  <2>3. Took(rcv', Head(dataBus))
    BY <2>1, NotBusy
  <2> QED BY <1>1, <1>2, <1>5, <2>1, <2>2, <2>3, StepReceived
<1> HIDE DEF f
<1>6. ASSUME rcv.busy
      PROVE  /\ b \in Seq(Cells) /\ Len(b) = Len(rcv.buf) + 1
             /\ b[1] = rcv.buf[1] /\ Len(rcv.buf) \in Nat
             /\ Len(rcv.buf) >= 1 /\ Len(rcv.buf) < Size[Held(rcv)]
             /\ n = Len(rcv.buf) % SnRange /\ n \in Numbers
             /\ ~lost => Exact(b, f.msg) /\ Held(rcv) = f.msg /\ Len(rcv.buf) + 1 = f.body[2]
             /\ \A m : Order(snd, rcv, dataBus, m) =>
                   Rising(b, m) /\ Top(b) = f.body[2] /\ Held(rcv) = m /\ f.msg = m
  BY <1>1, <1>6, GotFrame DEF f
<1>7. rcv.busy => /\ rcv.expected = Size[Held(rcv)] /\ rcv.expected \in Nat /\ rcv.expected <= RxCapacity
                  /\ rcv.block \in Nat /\ rcv.block >= 1 /\ rcv.block <= BlockSize
  BY <1>2, IsoConstants DEF ReceiverOK, Receivers, Lengths, Blocks
<1> HIDE DEF b, n
<1>8. ASSUME rcv.busy
      PROVE  /\ got \in Receivers /\ got.busy = TRUE /\ got.buf = b /\ got.expected = rcv.expected
             /\ got.seq = n /\ got.block = rcv.block /\ got.error = rcv.error
  <2>1. rcv.busy = TRUE
    BY <1>2, <1>8 DEF Receivers
  <2>2. [rcv EXCEPT !.seq = n, !.buf = b, !.timer = NCr] \in Receivers
    BY <1>2, <1>6, <1>8, IsoConstants DEF Receivers
  <2> QED BY <1>2, <2>1, <2>2 DEF got, Receivers
<1>9. CASE /\ rcv.busy /\ Len(got.buf) >= rcv.expected /\ delivered' = got.buf
           /\ rcv' = [Idle(got) EXCEPT !.buf = <<>>, !.expected = 0] /\ fcBus' = fcBus
  <2>1. ReceiverOK(rcv') /\ rcv'.busy = FALSE /\ rcv'.error = rcv.error
    <3>1. got \in Receivers /\ got.error = rcv.error
      BY <1>8, <1>9
    <3> QED BY <1>9, <3>1, IdleReceiver
  <2>2. Len(b) = Size[Held(rcv)]
    BY <1>6, <1>7, <1>8, <1>9
  <2>3. f.msg \in Messages /\ f.body[2] <= Size[f.msg]
    BY <1>1, HeadFrame, IsoConstants DEF f, WellFormed
  <2>4. ~lost => delivered' = Content(f.msg)
    BY <1>6, <1>8, <1>9, <2>2, <2>3, ExactWhole
  <2>5. ~crossed => delivered' = Content(f.msg)
    <3> SUFFICES ASSUME ~crossed PROVE delivered' = Content(f.msg)
      OBVIOUS
    <3>1. PICK m \in Messages \cup {NoMsg} : Order(snd, rcv, dataBus, m)
      BY DEF IsoInv
    <3>2. Rising(b, m) /\ Top(b) = f.body[2] /\ Held(rcv) = m /\ f.msg = m
      BY <1>6, <1>9, <3>1
    <3> QED BY <1>6, <1>8, <1>9, <2>2, <2>3, <3>2, RisingWhole
  <2>6. Took(rcv', Head(dataBus))
    BY <2>1, NotBusy
  <2> QED BY <1>1, <1>2, <1>9, <2>1, <2>3, <2>4, <2>5, <2>6, StepReceived
<1>10. ASSUME rcv.busy, NEW r, r.busy = TRUE, r.buf = b PROVE Took(r, Head(dataBus))
  <2>1. Held(r) = Held(rcv)
    BY <1>6, <1>10 DEF Held
  <2> QED BY <1>1, <1>6, <1>10, <2>1 DEF Took, f
<1>11. ASSUME rcv.busy, Len(got.buf) < rcv.expected, NEW k \in Blocks, k >= 1
       PROVE  /\ ReceiverOK([got EXCEPT !.block = k]) /\ [got EXCEPT !.block = k].busy = TRUE
              /\ [got EXCEPT !.block = k].buf = b /\ [got EXCEPT !.block = k].error = rcv.error
  <2> DEFINE q == [got EXCEPT !.block = k]
  <2>1. q \in Receivers
    BY <1>8, <1>11 DEF Receivers
  <2>2. /\ q.busy = TRUE /\ q.buf = b /\ q.expected = rcv.expected /\ q.seq = n
        /\ q.block = k /\ q.error = rcv.error
    BY <1>8, <1>11 DEF Receivers
  <2> HIDE DEF q
  <2>3. Held(q) = Held(rcv) /\ Len(b) \in 1..(rcv.expected - 1) /\ Len(b) <= RxCapacity
    BY <1>6, <1>7, <1>8, <1>11, <2>2, IsoConstants DEF Held
  <2>4. n = (Len(b) - 1) % SnRange
    <3>1. Len(b) - 1 = Len(rcv.buf)
      BY <1>6, <1>11
    <3> QED BY <1>6, <1>11, <3>1
  <2>5. ReceiverOK(q)
    BY <1>7, <1>11, <2>1, <2>2, <2>3, <2>4 DEF ReceiverOK
  <2> QED BY <2>2, <2>5 DEF q
<1>12. CASE /\ rcv.busy /\ Len(got.buf) < rcv.expected /\ delivered' = delivered
            /\ SendsFc([got EXCEPT !.block = BlockSize], "continue")
  <2> DEFINE q == [got EXCEPT !.block = BlockSize]
  <2>1. ReceiverOK(q) /\ q.busy = TRUE /\ q.buf = b /\ q.error = rcv.error
    BY <1>11, <1>12, IsoConstants
  <2>2. "continue" \in FlowStatus /\ SendsFc(q, "continue")
    BY <1>12 DEF FlowStatus
  <2> HIDE DEF q
  <2>3. /\ ReceiverOK(rcv') /\ rcv'.busy = TRUE /\ rcv'.buf = b /\ rcv'.error = rcv.error
        /\ fcBus' \in Seq(FlowStatus) /\ Len(fcBus') <= BusBound
    BY <2>1, <2>2, SendsFcOK
  <2>4. Took(rcv', Head(dataBus))
    BY <1>10, <1>12, <2>3
  <2> QED BY <1>1, <1>2, <1>12, <2>3, <2>4, StepReceived
<1>13. CASE /\ rcv.busy /\ Len(got.buf) < rcv.expected /\ delivered' = delivered
            /\ rcv.block # 1 /\ rcv' = [got EXCEPT !.block = @ - 1] /\ fcBus' = fcBus
  <2> DEFINE k == rcv.block - 1
             q == [got EXCEPT !.block = k]
  <2>1. k \in Blocks /\ k >= 1
    BY <1>7, <1>13, IsoConstants DEF Blocks
  <2>2. rcv' = q
    BY <1>8, <1>13
  <2> HIDE DEF k
  <2>3. ReceiverOK(q) /\ q.busy = TRUE /\ q.buf = b /\ q.error = rcv.error
    BY <1>11, <1>13, <2>1
  <2> HIDE DEF q
  <2>4. ReceiverOK(rcv') /\ rcv'.busy = TRUE /\ rcv'.buf = b /\ rcv'.error = rcv.error
    BY <2>2, <2>3
  <2>5. Took(rcv', Head(dataBus))
    BY <1>10, <1>13, <2>4
  <2> QED BY <1>1, <1>2, <1>13, <2>4, <2>5, StepReceived
<1> QED BY <1>3, <1>4, <1>5, <1>9, <1>12, <1>13

(* The invariant says what DeliveredIsWhole says.                          *)
LEMMA IsoInvMeans == IsoInv => DeliveredIsWhole
<1> SUFFICES ASSUME IsoInv PROVE DeliveredIsWhole
  OBVIOUS
<1>1. snd \in Senders /\ rcv \in Receivers
  BY DEF IsoInv, SenderOK, ReceiverOK
<1>2. IsoTypeOK
  <2>1. Senders = [state : {"idle", "first", "wait_fc", "cf", "done", "failed"},
              pending : {"none", "single", "first", "cf"},
              msg : Messages \cup {NoMsg}, sent : Nat, seq : 0..(SnRange - 1),
              block : 0..BlockSize, timer : 0..(NBs + StallTicks),
              error : {"none", "fc_timeout", "stalled", "overflow_remote"}]
    BY DEF Senders, SendStates, Offers, Numbers, Blocks, SendTimes, SendErrors
  <2>2. /\ rcv.busy \in BOOLEAN /\ rcv.fc \in FlowStatus \cup {"none"}
        /\ rcv.expected \in 0..RxCapacity /\ rcv.timer \in 0..NCr
        /\ rcv.seq \in 0..(SnRange - 1) /\ rcv.block \in 0..BlockSize
    BY <1>1 DEF Receivers, Statuses, Lengths, RecvTimes, Numbers, Blocks
  <2> QED BY <1>1, <2>1, <2>2 DEF IsoTypeOK, IsoInv, ReceiverOK, BusOK
<1>3. rcv.error = "wrong_sequence" => lost
  BY DEF IsoInv, Chain
<1>4. reports = IF snd.state = "idle" THEN 1 ELSE 0
  BY DEF IsoInv, SenderOK
<1> QED BY <1>2, <1>3, <1>4 DEF IsoInv, DeliveredIsWhole

(* No step breaks the invariant.                                           *)
LEMMA StepIso == IsoInv /\ [IsoNext]_isoVars => IsoInv'
<1> SUFFICES ASSUME IsoInv, [IsoNext]_isoVars PROVE IsoInv'
  OBVIOUS
<1>1. CASE UNCHANGED isoVars
  BY <1>1 DEF isoVars, IsoInv, Content
<1>2. CASE \E m \in Messages : Begin(m)
  BY <1>2, StepBegin
<1>3. CASE SenderPoll
  <2>1. "stalled" \in SendErrors /\ "fc_timeout" \in SendErrors /\ "none" \in SendErrors /\ snd.error \in SendErrors
    BY DEF SendErrors, IsoInv, SenderOK, Senders
  <2>2. CASE TxStalls
    BY <2>1, <2>2, StepFails DEF TxStalls, Stalled, Offering
  <2>3. CASE TxTimeout
    BY <2>1, <2>3, StepFails DEF TxTimeout, FcOverdue
  <2>4. CASE TxParkedFailure
    BY <2>1, <2>4, StepFails DEF TxParkedFailure
  <2>5. CASE TxComplete
    BY <2>1, <2>5, StepFails DEF TxComplete
  <2> QED BY <1>3, <2>2, <2>3, <2>4, <2>5, StepAccepted, StepRefused DEF SenderPoll
<1>4. CASE BusMoves
  <2>1. CASE OnFrame
    BY <2>1, StepSingle, StepFirst, StepConsecutive DEF OnFrame
  <2> QED BY <1>4, <2>1, StepFlow, StepFcBus, StepLose DEF BusMoves
<1> QED BY <1>1, <1>2, <1>3, <1>4, StepFcBus, StepTimes DEF IsoNext

(* Hence it always holds.                                                  *)
LEMMA IsoInvariant == IsoSpec => []IsoInv
BY InitIso, StepIso, PTL DEF IsoSpec

(* However frames are refused, delayed or lost and whatever the limits are: *)
(* a delivered message is one that was sent, whole and in order, unless    *)
(* frames were lost while a transfer started into what another had left;   *)
(* without loss the receiver never sees a gap; and every transfer is       *)
(* reported exactly once, when it is over.                                 *)
THEOREM DeliveryTheorem == IsoSpec => []DeliveredIsWhole
BY IsoInvariant, IsoInvMeans, PTL

-----------------------------------------------------------------------------
(* Ccp.  The sets of values of the parts of a state, named so that they    *)
(* can stay folded.                                                        *)
Counters == 0..(CtrRange - 1)
Args == 0..WriteChunks
RespTimes == 0..RespTicks
Flying == [cmd : Commands, ctr : Counters, arg : Args, timer : RespTimes] \cup {NoFlight}
Ups == 0..ReadChunks
Sizes == {0, WriteChunks}
Masters ==
  [enabled : BOOLEAN, ctr : Counters, flight : Flying, readLeft : Ups, readData : Seq(Nat),
   wanted : BOOLEAN, writeSize : Sizes, writeOff : Args, reporting : BOOLEAN]
Entries == [cmd : Commands, ctr : Counters, arg : Args, age : Counters]
Chunks == Nat \X Nat
Ecus == [queue : Seq(Entries), mta : Nat, mem : Seq(Chunks), running : BOOLEAN]
Steps == 0..Len(Setup)
CollectTimes == 0..CollectTicks
Counts == 0..Samples
Daqs == [active : BOOLEAN, collecting : BOOLEAN, step : Steps, timer : CollectTimes,
         frames : Counts, valid : BOOLEAN, anchored : BOOLEAN, failed : BOOLEAN,
         sent : Seq(Commands)]
Views == [read : Seq(Nat), write : BOOLEAN, result : Daqs, ok : BOOLEAN, age : Nat,
          nested : BOOLEAN, stuck : BOOLEAN]
Worlds == [ccp : Masters, ecu : Ecus, daq : Daqs, seen : Views]

(* The kinds of commands.                                                  *)
WriteCommands == {"wr_mta", "wr_dn"}
SetupCommands == {"dq_size", "dq_ptr", "dq_wr", "dq_stat", "dq_start"}
Teardowns == {"dq_stop", "dq_off"}
DaqCommands == SetupCommands \cup Teardowns

(* The commands in the ECU: the older the further ahead, their counters a  *)
(* whole number of commands behind, and those of age zero are the command  *)
(* in flight.                                                              *)
Falling(q) == \A i, j \in 1..Len(q) : i < j => q[i].age > q[j].age
Dated(q, n) == \A i \in 1..Len(q) : (q[i].ctr + q[i].age + 1) % CtrRange = n
Youngest(q, f) == \A i \in 1..Len(q) : q[i].age = 0 => q[i].cmd = f.cmd /\ q[i].arg = f.arg
Numbered(c, e) ==
  /\ Len(e.queue) <= EcuBound /\ Falling(e.queue) /\ Dated(e.queue, c.ctr)
  /\ c.flight # NoFlight =>
       (c.flight.ctr + 1) % CtrRange = c.ctr /\ Youngest(e.queue, c.flight)

(* A read: the chunks so far are the first ones, and the next UPLOAD finds *)
(* the pointer behind them.                                                *)
UpTo(n) == [i \in 1..n |-> i]
AllNew(q) == \A i \in 1..Len(q) : q[i].age = 0
Reading(c, e, n) ==
  /\ c.readLeft + Len(c.readData) <= ReadChunks
  /\ ~n.nested =>
       /\ n.read # <<>> => n.read = UpTo(ReadChunks)
       /\ c.readLeft # 0 => c.readData = UpTo(ReadChunks - c.readLeft)
       /\ c.flight.cmd = "rd_mta" => c.readLeft = ReadChunks
       /\ c.flight.cmd = "rd_up" =>
            /\ c.readLeft # 0 /\ AllNew(e.queue)
            /\ e.queue # <<>> => e.mta = ReadChunks - c.readLeft + 1

(* A write: the chunks before the offset are in place, and the next DNLOAD *)
(* finds the pointer at the offset.                                        *)
Stored(mem, n) == \A i \in 1..n : \E k \in 1..Len(mem) : mem[k] = <<i, i>>
Writing(c, e, n) ==
  /\ c.flight.cmd \in WriteCommands => c.writeOff <= c.writeSize
  /\ ~n.nested =>
       /\ n.write => Stored(e.mem, WriteChunks)
       /\ c.flight.cmd = "wr_mta" => c.writeOff = 0 /\ c.writeSize = WriteChunks
       /\ c.flight.cmd = "wr_dn" =>
            /\ c.writeSize = WriteChunks /\ c.writeOff >= 1 /\ c.flight.arg = c.writeOff
            /\ Stored(e.mem, c.writeOff - 1) /\ AllNew(e.queue)
            /\ e.queue # <<>> => e.mta = c.writeOff

(* A DAQ read: each step of the setup follows the one before it, and a     *)
(* read that is taken down without having failed is a good one.            *)
Good(d) == d.sent = Setup /\ d.frames >= Samples /\ d.anchored /\ d.valid
SettingUp(d, cmd) ==
  /\ d.active /\ ~d.collecting /\ ~d.failed /\ d.frames = 0
  /\ d.step \in 1..Len(Setup) /\ Setup[d.step] = cmd
TakingDown(d) == d.active /\ ~d.collecting /\ (d.failed \/ Good(d))
Sampling(c, d, n) ==
  /\ Len(d.sent) <= Len(Setup)
  /\ ~d.active => d = NoDaq
  /\ c.flight.cmd \in SetupCommands =>
       SettingUp(d, c.flight.cmd) /\ d.sent = SubSeq(Setup, 1, d.step)
  /\ c.flight.cmd \in Teardowns => TakingDown(d)
  /\ d.collecting => d.active /\ ~d.failed /\ d.sent = Setup /\ d.frames < Samples
  /\ n.ok => Good(n.result)

(* The invariant of the whole.                                             *)
CcpInv(s) ==
  /\ s \in Worlds /\ s.seen.age = 0
  /\ Numbered(s.ccp, s.ecu) /\ Reading(s.ccp, s.ecu, s.seen)
  /\ Writing(s.ccp, s.ecu, s.seen) /\ Sampling(s.ccp, s.daq, s.seen)

-----------------------------------------------------------------------------
(* The constants are numbers.                                              *)
LEMMA CcpConstants ==
  /\ ReadChunks \in Nat \ {0} /\ WriteChunks \in Nat \ {0} /\ Layout \in Nat \ {0}
  /\ Samples \in Nat \ {0} /\ RespTicks \in Nat \ {0} /\ CollectTicks \in Nat \ {0}
  /\ CtrRange \in Nat \ {0} /\ EcuBound \in Nat /\ Calls \in Nat
BY CcpAssumption

(* The setup of a DAQ read is one command for the list, one for the        *)
(* pointer, one for each field, and two that start it; only the last one   *)
(* starts.                                                                 *)
LEMMA SetupFacts ==
  /\ Setup \in Seq(Commands) /\ Setup \in Seq(SetupCommands) /\ Len(Setup) = Layout + 4
  /\ Setup[1] = "dq_size" /\ Setup[Layout + 4] = "dq_start"
  /\ \A i \in 1..(Layout + 3) : Setup[i] # "dq_start"
  /\ Commands \subseteq {"user"} \cup MemoryCommands \cup DaqCommands
  /\ {"user", "dq_size"} \cup MemoryCommands \cup Teardowns \subseteq Commands
<1> DEFINE A == <<"dq_size", "dq_ptr">>
           B == [i \in 1..Layout |-> "dq_wr"]
           C == <<"dq_stat", "dq_start">>
           X == SetupCommands
<1>0. Layout \in Nat \ {0}
  BY CcpConstants
<1>1. A \in Seq(X) /\ C \in Seq(X) /\ Len(A) = 2 /\ Len(C) = 2
  BY DEF SetupCommands
<1>2. B \in Seq(X) /\ Len(B) = Layout
  <2>1. B \in [1..Layout -> X]
    BY DEF SetupCommands
  <2> QED BY <2>1, <1>0
<1>3. Setup = A \o B \o C
  BY DEF Setup
<1>4. A[1] = "dq_size" /\ A[2] = "dq_ptr" /\ C[1] = "dq_stat" /\ C[2] = "dq_start"
      /\ \A i \in 1..Layout : B[i] = "dq_wr"
  OBVIOUS
<1> HIDE DEF A, B, C
<1> HIDE DEF X
<1>5. A \o B \in Seq(X) /\ Len(A \o B) = Layout + 2
      /\ \A i \in 1..(Layout + 2) : (A \o B)[i] = IF i <= 2 THEN A[i] ELSE B[i - 2]
  <2>1. /\ A \o B \in Seq(X) /\ Len(A \o B) = Len(A) + Len(B)
        /\ \A i \in 1..(Len(A) + Len(B)) : (A \o B)[i] = IF i <= Len(A) THEN A[i] ELSE B[i - Len(A)]
    BY <1>1, <1>2, ConcatProperties
  <2>2. Len(A) + Len(B) = Layout + 2
    BY <1>0, <1>1, <1>2
  <2> QED BY <2>1, <2>2, <1>1
<1>6. Setup \in Seq(X) /\ Len(Setup) = Layout + 4
      /\ \A i \in 1..(Layout + 4) : Setup[i] = IF i <= Layout + 2 THEN (A \o B)[i] ELSE C[i - (Layout + 2)]
  <2> DEFINE D == A \o B
  <2>0. D \in Seq(X) /\ Setup = D \o C /\ Len(D) = Layout + 2
    BY <1>5, <1>3
  <2> HIDE DEF D
  <2>1. /\ D \o C \in Seq(X) /\ Len(D \o C) = Len(D) + Len(C)
        /\ \A i \in 1..(Len(D) + Len(C)) : (D \o C)[i] = IF i <= Len(D) THEN D[i] ELSE C[i - Len(D)]
    BY <1>1, <2>0, ConcatProperties
  <2>2. Len(D) + Len(C) = Layout + 4
    BY <1>0, <1>1, <2>0
  <2>3. Setup \in Seq(X) /\ Len(Setup) = Layout + 4
      /\ \A i \in 1..(Layout + 4) : Setup[i] = IF i <= Layout + 2 THEN D[i] ELSE C[i - (Layout + 2)]
    BY <2>0, <2>1, <2>2
  <2> QED BY <2>3 DEF D
<1>7. Setup[1] = "dq_size"
  <2>1. Setup[1] = (A \o B)[1]
    <3>1. 1 \in 1..(Layout + 4) /\ 1 <= Layout + 2
      BY <1>0
    <3> QED BY <3>1, <1>6
  <2>2. (A \o B)[1] = A[1]
    BY <1>0, <1>5
  <2> QED BY <2>1, <2>2, <1>4
<1>8. Setup[Layout + 4] = "dq_start"
  <2>1. Setup[Layout + 4] = C[2]
    BY <1>0, <1>6
  <2> QED BY <2>1, <1>4
<1>9. ASSUME NEW i \in 1..(Layout + 3) PROVE Setup[i] # "dq_start"
  <2>0. i \in 1..(Layout + 4) /\ i \in Nat
    BY <1>0
  <2>1. CASE i <= 2
    <3>1. i = 1 \/ i = 2
      BY <2>0, <2>1
    <3>2. i \in 1..(Layout + 2) /\ i <= Layout + 2
      BY <1>0, <3>1
    <3>3. Setup[i] = (A \o B)[i]
      BY <1>6, <2>0, <3>2
    <3>4. (A \o B)[i] = A[i]
      BY <1>5, <2>1, <3>2
    <3> QED BY <1>4, <3>1, <3>3, <3>4
  <2>2. CASE i > 2 /\ i <= Layout + 2
    <3>1. i \in 1..(Layout + 2) /\ i - 2 \in 1..Layout /\ ~(i <= 2)
      BY <1>0, <2>0, <2>2
    <3>2. Setup[i] = (A \o B)[i]
      BY <1>6, <2>0, <2>2
    <3>3. (A \o B)[i] = B[i - 2]
      BY <1>5, <3>1
    <3> QED BY <1>4, <3>1, <3>2, <3>3
  <2>3. CASE i = Layout + 3
    <3>1. ~(i <= Layout + 2) /\ i - (Layout + 2) = 1
      BY <1>0, <2>3
    <3>2. Setup[i] = C[1]
      BY <1>6, <2>0, <3>1
    <3> QED BY <3>2, <1>4
  <2> QED BY <2>0, <2>1, <2>2, <2>3, <1>0
<1> USE DEF X
<1>10. \A i \in 1..Len(Setup) : Setup[i] \in Commands /\ Setup[i] \in SetupCommands
  BY <1>6, ElementOfSeq DEF Commands
<1>11. Setup \in Seq(Commands)
  <2>1. Setup \in [1..(Layout + 4) -> Commands]
    BY <1>10, <1>6, LenProperties
  <2> QED BY <2>1, <1>0
<1>12. Commands \subseteq {"user"} \cup MemoryCommands \cup DaqCommands
  BY <1>10 DEF Commands, DaqCommands, Teardowns
<1>13. {"user", "dq_size"} \cup MemoryCommands \cup Teardowns \subseteq Commands
  <2>1. 1 \in 1..Len(Setup)
    BY <1>0, <1>6
  <2> QED BY <2>1, <1>7, <1>10 DEF Commands, Teardowns
<1> QED BY <1>6, <1>7, <1>8, <1>9, <1>11, <1>12, <1>13

(* Nothing is in flight exactly when the command is "none".                *)
LEMMA CommandKinds ==
  ASSUME NEW f \in Flying
  PROVE  /\ f = NoFlight \/ f.cmd \in Commands
         /\ f = NoFlight <=> f.cmd = "none"
         /\ f.cmd \in {"none", "user"} \cup MemoryCommands \cup DaqCommands
<1>1. "none" \notin Commands
  BY SetupFacts DEF MemoryCommands, DaqCommands, SetupCommands, Teardowns
<1> QED BY <1>1, SetupFacts DEF Flying, NoFlight

(* Counting modulo the range of the counter.                               *)
LEMMA CounterAfter ==
  ASSUME NEW n \in Nat, NEW m \in Nat \ {0}
  PROVE  ((n % m) + 1) % m = (n + 1) % m
<1> DEFINE q == n \div m
           r == n % m
<1>1. q \in Int /\ r \in 0..(m - 1) /\ n = m * q + r
  OBVIOUS
<1> HIDE DEF q, r
<1>2. CASE r + 1 < m
  <2>1. n + 1 = m * q + (r + 1)
    BY <1>1
  <2>2. (n + 1) % m = r + 1
    BY <1>1, <1>2, <2>1
  <2>3. (r + 1) % m = r + 1
    BY <1>1, <1>2
  <2> QED BY <2>2, <2>3 DEF r
<1>3. CASE r + 1 = m
  <2>1. n + 1 = m * (q + 1)
    BY <1>1, <1>3
  <2>2. (n + 1) % m = 0
    BY <1>1, <2>1
  <2>3. (r + 1) % m = 0
    BY <1>3
  <2> QED BY <2>2, <2>3 DEF r
<1> QED BY <1>1, <1>2, <1>3

(* A command whose age is a multiple of the range away is the newest.      *)
LEMMA SameCounter ==
  ASSUME NEW c \in Counters, NEW a \in Counters, (c + a + 1) % CtrRange = (c + 1) % CtrRange
  PROVE  a = 0
<1> DEFINE m == CtrRange
<1>0. m \in Nat \ {0} /\ c \in 0..(m - 1) /\ a \in 0..(m - 1)
  BY CcpConstants DEF Counters
<1>a. (c + a + 1) % m = (c + 1) % m
  OBVIOUS
<1> HIDE DEF m
<1>1. CASE c + 1 < m
  <2>1. (c + 1) % m = c + 1
    BY <1>0, <1>1
  <2>2. CASE c + a + 1 < m
    <3>1. (c + a + 1) % m = c + a + 1
      BY <1>0, <2>2
    <3> QED BY <3>1, <2>1, <1>a, <1>0
  <2>3. CASE c + a + 1 >= m
    <3>1. (c + a + 1) = m * 1 + (c + a + 1 - m) /\ c + a + 1 - m \in 0..(m - 1)
      BY <1>0, <1>1, <2>3
    <3>2. (c + a + 1) % m = c + a + 1 - m
      BY <1>0, <3>1
    <3> QED BY <3>2, <2>1, <1>a, <1>0
  <2> QED BY <2>2, <2>3, <1>0
<1>2. CASE c + 1 = m
  <2>1. (c + 1) % m = 0
    BY <1>0, <1>2
  <2>2. c + a + 1 = m * 1 + a
    BY <1>0, <1>2
  <2>3. (c + a + 1) % m = a
    BY <1>0, <2>2
  <2> QED BY <2>1, <2>3, <1>a
<1> QED BY <1>0, <1>1, <1>2

-----------------------------------------------------------------------------
Up(e) == [e EXCEPT !.age = @ + 1]
Older(q) == [i \in 1..Len(q) |-> Up(q[i])]
Keep(q) == IF Older(q) # <<>> /\ Head(Older(q)).age = CtrRange THEN 1 ELSE 0

(* Ageing the queue drops at most its oldest command, keeps the order and  *)
(* the dates, and leaves no command of age zero.                           *)
LEMMA AgedQueue ==
  ASSUME NEW q \in Seq(Entries), Falling(q), NEW n \in Counters, Dated(q, n)
  PROVE  /\ Aged(q) \in Seq(Entries) /\ Len(Aged(q)) <= Len(q)
         /\ Falling(Aged(q)) /\ Dated(Aged(q), (n + 1) % CtrRange)
         /\ \A i \in 1..Len(Aged(q)) : Aged(q)[i].age # 0
         /\ q = <<>> => Aged(q) = <<>>
<1> DEFINE old == Older(q)
           a == Aged(q)
           k == Keep(q)
<1>0. CtrRange \in Nat \ {0} /\ Len(q) \in Nat /\ \A i \in 1..Len(q) : q[i] \in Entries
  BY CcpConstants, ElementOfSeq
<1>1. ASSUME NEW e \in Entries
      PROVE  /\ Up(e).age = e.age + 1 /\ Up(e).cmd = e.cmd /\ Up(e).ctr = e.ctr /\ Up(e).arg = e.arg
             /\ e.age \in 0..(CtrRange - 1) /\ e.ctr \in Nat
             /\ e.age + 1 < CtrRange => Up(e) \in Entries
  <2>1. e.age \in 0..(CtrRange - 1) /\ e.ctr \in Nat
    BY <1>0 DEF Entries, Counters
  <2>2. Up(e).age = e.age + 1 /\ Up(e).cmd = e.cmd /\ Up(e).ctr = e.ctr /\ Up(e).arg = e.arg
    BY DEF Up, Entries
  <2>3. ASSUME e.age + 1 < CtrRange PROVE Up(e) \in Entries
    <3> DEFINE n1 == e.age + 1
    <3>1. n1 \in Counters
      BY <2>1, <2>3, <1>0 DEF Counters
    <3>2. Up(e) = [e EXCEPT !.age = n1]
      BY DEF Up, Entries
    <3> HIDE DEF n1
    <3> QED BY <3>1, <3>2 DEF Entries
  <2> QED BY <2>1, <2>2, <2>3
<1>2. Len(old) = Len(q) /\ DOMAIN old = 1..Len(q) /\ \A i \in 1..Len(q) : old[i] = Up(q[i])
  BY <1>0 DEF Older
<1>3. k \in {0, 1} /\ Len(a) = Len(q) - k /\ (k = 1 => Len(q) >= 1) /\ a \in Seq({Up(q[i]) : i \in 1..Len(q)})
      /\ (\A i \in 1..Len(a) : a[i] = Up(q[i + k])) /\ DOMAIN a = 1..Len(a)
      /\ (k = 1 <=> Len(q) # 0 /\ old[1].age = CtrRange)
  <2> DEFINE U == {Up(q[i]) : i \in 1..Len(q)}
  <2>1. old \in Seq(U)
    <3>1. old \in [1..Len(q) -> U]
      BY DEF Older
    <3> QED BY <3>1, <1>0
  <2>2. a = IF old # <<>> /\ Head(old).age = CtrRange THEN Tail(old) ELSE old
    BY DEF Aged, Older, Up
  <2>3. k = IF old # <<>> /\ Head(old).age = CtrRange THEN 1 ELSE 0
    BY DEF Keep
  <2>4. old # <<>> <=> Len(q) # 0
    BY <2>1, <1>2
  <2> HIDE DEF old, a, k, U
  <2>5. CASE old # <<>> /\ Head(old).age = CtrRange
    <3>1. a = Tail(old) /\ k = 1 /\ Head(old) = old[1]
      BY <2>5, <2>2, <2>3, <2>1
    <3>2. Len(a) = Len(old) - 1 /\ a \in Seq(U) /\ \A i \in 1..Len(a) : a[i] = old[i + 1]
      BY <3>1, <2>5, <2>1, HeadTailProperties
    <3>3. \A i \in 1..Len(a) : i + 1 \in 1..Len(q)
      BY <3>2, <1>2, <1>0
    <3>4. DOMAIN a = 1..Len(a) /\ Len(a) \in Nat
      BY <3>2, LenProperties
    <3>5. \A i \in 1..Len(a) : a[i] = Up(q[i + 1])
      BY <3>2, <3>3, <1>2
    <3> QED BY <3>1, <3>2, <3>4, <3>5, <2>4, <2>5, <1>2, <1>0 DEF U
  <2>6. CASE ~(old # <<>> /\ Head(old).age = CtrRange)
    <3>1. a = old /\ k = 0
      BY <2>6, <2>2, <2>3
    <3>2. old # <<>> => Head(old) = old[1]
      BY <2>1
    <3>3. \A i \in 1..Len(q) : i + 0 = i
      OBVIOUS
    <3> QED BY <3>1, <3>2, <3>3, <2>1, <2>4, <2>6, <1>2, <1>0 DEF U
  <2> QED BY <2>5, <2>6
<1> HIDE DEF old, a, k
<1>4. ASSUME NEW i \in 1..Len(a)
      PROVE  i + k \in 1..Len(q) /\ q[i + k] \in Entries /\ a[i] = Up(q[i + k])
  BY <1>0, <1>3
<1>5. ASSUME NEW i \in 1..Len(a) PROVE q[i + k].age + 1 < CtrRange
  <2>1. i + k \in 1..Len(q) /\ q[i + k].age \in 0..(CtrRange - 1)
    BY <1>1, <1>4
  <2>2. CASE k = 1
    <3>1. 1 \in 1..Len(q) /\ i + 1 \in 1..Len(q) /\ 1 < i + 1
      BY <2>2, <2>1, <1>0
    <3>2. q[1].age > q[i + 1].age /\ q[1].age \in 0..(CtrRange - 1)
      BY <3>1, <1>0, <1>1 DEF Falling
    <3> QED BY <3>2, <2>1, <2>2, <1>0
  <2>3. CASE k = 0
    <3>1. 1 \in 1..Len(q) /\ i \in 1..Len(q) /\ Len(q) # 0
      BY <2>3, <2>1, <1>0
    <3>2. old[1].age = q[1].age + 1 /\ q[1].age \in 0..(CtrRange - 1)
      BY <3>1, <1>0, <1>1, <1>2
    <3>3. q[1].age + 1 # CtrRange
      BY <3>1, <3>2, <1>3, <2>3
    <3>4. q[i].age <= q[1].age
      <4>1. CASE i = 1
        BY <4>1, <3>2, <1>0
      <4>2. CASE 1 < i
        BY <4>2, <3>1, <3>2, <2>1, <2>3, <1>0 DEF Falling
      <4> QED BY <4>1, <4>2, <3>1
    <3> QED BY <3>2, <3>3, <3>4, <2>1, <2>3, <1>0
  <2> QED BY <2>2, <2>3, <1>3
<1>6. a \in Seq(Entries)
  <2>1. \A i \in 1..Len(a) : a[i] \in Entries
    BY <1>1, <1>4, <1>5
  <2>2. Len(a) \in Nat /\ DOMAIN a = 1..Len(a)
    BY <1>3, <1>0
  <2>3. \E n1 \in Nat : a \in [1..n1 -> Entries]
    <3>1. a \in Seq({Up(q[i]) : i \in 1..Len(q)})
      BY <1>3
    <3>2. a = [i \in 1..Len(a) |-> a[i]]
      BY <3>1, LenProperties
    <3> QED BY <2>1, <2>2, <3>2
  <2> QED BY <2>3
<1>7. \A i \in 1..Len(a) : a[i].age = q[i + k].age + 1 /\ a[i].ctr = q[i + k].ctr
  BY <1>1, <1>4
<1>8. Falling(a)
  <2> SUFFICES ASSUME NEW i \in 1..Len(a), NEW j \in 1..Len(a), i < j PROVE a[i].age > a[j].age
    BY DEF Falling
  <2>1. i + k \in 1..Len(q) /\ j + k \in 1..Len(q) /\ i + k < j + k
    BY <1>3, <1>4, <1>0
  <2>2. q[i + k].age > q[j + k].age
    BY <2>1 DEF Falling
  <2>3. q[i + k].age \in Nat /\ q[j + k].age \in Nat
    BY <1>4, <1>1, <1>0
  <2>4. a[i].age = q[i + k].age + 1 /\ a[j].age = q[j + k].age + 1
    BY <1>7
  <2> QED BY <2>2, <2>3, <2>4
<1>9. Dated(a, (n + 1) % CtrRange)
  <2> SUFFICES ASSUME NEW i \in 1..Len(a)
               PROVE  (a[i].ctr + a[i].age + 1) % CtrRange = (n + 1) % CtrRange
    BY DEF Dated
  <2>1. PICK e \in Entries : e = q[i + k]
    BY <1>4
  <2>2. e.ctr \in Nat /\ e.age \in Nat
    BY <1>1, <1>0
  <2>3. a[i].ctr = e.ctr /\ a[i].age = e.age + 1
    BY <2>1, <1>7
  <2>4. (e.ctr + e.age + 1) % CtrRange = n
    BY <2>1, <1>4 DEF Dated
  <2> DEFINE x == e.ctr + e.age + 1
  <2>5. x \in Nat /\ e.ctr + (e.age + 1) + 1 = x + 1
    BY <2>2
  <2> HIDE DEF x
  <2>6. (x + 1) % CtrRange = ((x % CtrRange) + 1) % CtrRange
    BY <2>5, <1>0, CounterAfter
  <2>7. (x + 1) % CtrRange = (n + 1) % CtrRange
    BY <2>4, <2>6 DEF x
  <2> QED BY <2>3, <2>5, <2>7
<1>10. \A i \in 1..Len(a) : a[i].age # 0
  BY <1>7, <1>4, <1>1, <1>0
<1>11. Len(a) <= Len(q)
  BY <1>3, <1>0
<1>12. q = <<>> => a = <<>>
  <2>1. q = <<>> => Len(a) = 0
    BY <1>3, <1>0
  <2> QED BY <2>1, <1>6
<1> QED BY <1>6, <1>8, <1>9, <1>10, <1>11, <1>12 DEF a

-----------------------------------------------------------------------------
(* What send_() leaves alone, and what it does.                            *)
SameMaster(c, b) ==
  /\ c.readLeft = b.readLeft /\ c.readData = b.readData /\ c.wanted = b.wanted
  /\ c.writeSize = b.writeSize /\ c.writeOff = b.writeOff /\ c.reporting = b.reporting
SameDaq(d, b) ==
  /\ d.active = b.active /\ d.collecting = b.collecting /\ d.step = b.step /\ d.timer = b.timer
  /\ d.frames = b.frames /\ d.valid = b.valid /\ d.anchored = b.anchored /\ d.failed = b.failed
Logged(d, cmd) ==
  IF d.active /\ ~d.collecting /\ Len(d.sent) < Len(Setup) THEN Append(d.sent, cmd) ELSE d.sent
Offered(s, t, cmd, arg, sent) ==
  /\ t \in Worlds /\ t.seen = s.seen
  /\ SameMaster(t.ccp, s.ccp) /\ SameDaq(t.daq, s.daq)
  /\ t.ecu.mta = s.ecu.mta /\ t.ecu.mem = s.ecu.mem
  /\ Numbered(t.ccp, t.ecu)
  /\ t.daq.sent = s.daq.sent => t.daq = s.daq
  /\ ~Free(s) => t = s
  /\ sent => /\ Free(s)
             /\ t.ccp.flight.cmd = cmd /\ t.ccp.flight.arg = arg
             /\ t.daq.sent = Logged(s.daq, cmd)
             /\ s.ecu.queue = <<>> => AllNew(t.ecu.queue)
  /\ ~sent => /\ t.ccp.flight = s.ccp.flight /\ t.daq = s.daq
              /\ s.ecu.queue = <<>> => t.ecu.queue = <<>>

Flown(s, cmd, arg) == [cmd |-> cmd, ctr |-> s.ccp.ctr, arg |-> arg, timer |-> RespTicks]
Turned(n) == (n + 1) % CtrRange
Entry(s, cmd, arg) == [cmd |-> cmd, ctr |-> s.ccp.ctr, arg |-> arg, age |-> 0]

(* The counter stays in its range.                                         *)
LEMMA CounterTurns == ASSUME NEW n \in Counters PROVE Turned(n) \in Counters
BY CcpConstants DEF Turned, Counters

(* A new command behind an aged queue is the only one of age zero.         *)
LEMMA AppendQueue ==
  ASSUME NEW q \in Seq(Entries), Falling(q), NEW n \in Counters, Dated(q, Turned(n)),
         \A i \in 1..Len(q) : q[i].age # 0, Len(q) # EcuBound, Len(q) <= EcuBound,
         NEW e \in Entries, e.age = 0, e.ctr = n
  PROVE  /\ Append(q, e) \in Seq(Entries) /\ Len(Append(q, e)) <= EcuBound
         /\ Falling(Append(q, e)) /\ Dated(Append(q, e), Turned(n))
         /\ \A f : f.cmd = e.cmd /\ f.arg = e.arg => Youngest(Append(q, e), f)
         /\ Len(q) = 0 => AllNew(Append(q, e))
<1> DEFINE a == Append(q, e)
<1>0. Len(q) \in Nat /\ EcuBound \in Nat /\ CtrRange \in Nat /\ n \in Nat
  BY CcpConstants DEF Counters
<1>1. a \in Seq(Entries) /\ Len(a) = Len(q) + 1 /\ a[Len(q) + 1] = e
      /\ \A i \in 1..Len(q) : a[i] = q[i]
  OBVIOUS
<1>2. \A i \in 1..Len(q) : q[i] \in Entries /\ q[i].age \in Nat
  <2>1. \A x \in Entries : x.age \in Counters
    BY DEF Entries
  <2>2. Counters \subseteq Nat
    BY <1>0 DEF Counters
  <2> QED BY <2>1, <2>2, ElementOfSeq
<1> HIDE DEF a
<1>3. Falling(a)
  <2> SUFFICES ASSUME NEW i \in 1..Len(a), NEW j \in 1..Len(a), i < j PROVE a[i].age > a[j].age
    BY DEF Falling
  <2>1. i \in 1..Len(q) /\ a[i] = q[i]
    BY <1>0, <1>1
  <2>2. CASE j \in 1..Len(q)
    <3>1. q[i].age > q[j].age /\ a[j] = q[j]
      BY <2>1, <2>2, <1>1 DEF Falling
    <3> QED BY <3>1, <2>1
  <2>3. CASE j = Len(q) + 1
    <3>1. a[j].age = 0 /\ q[i].age \in Nat /\ q[i].age # 0
      BY <2>1, <2>3, <1>1, <1>2
    <3> QED BY <3>1, <2>1
  <2> QED BY <2>2, <2>3, <1>0, <1>1
<1>4. Dated(a, Turned(n))
  <2> SUFFICES ASSUME NEW i \in 1..Len(a) PROVE (a[i].ctr + a[i].age + 1) % CtrRange = Turned(n)
    BY DEF Dated
  <2>1. CASE i \in 1..Len(q)
    BY <2>1, <1>1 DEF Dated
  <2>2. CASE i = Len(q) + 1
    <3>1. a[i].ctr = n /\ a[i].age = 0
      BY <2>2, <1>1
    <3>2. n + 0 + 1 = n + 1
      BY <1>0
    <3> QED BY <3>1, <3>2 DEF Turned
  <2> QED BY <2>1, <2>2, <1>0, <1>1
<1>5. ASSUME NEW i \in 1..Len(a), a[i].age = 0 PROVE a[i] = e
  <2>1. CASE i \in 1..Len(q)
    BY <2>1, <1>1, <1>5
  <2>2. CASE i = Len(q) + 1
    BY <2>2, <1>1
  <2> QED BY <2>1, <2>2, <1>0, <1>1
<1>6. Len(a) <= EcuBound
  BY <1>0, <1>1
<1>7. Len(q) = 0 => AllNew(a)
  <2>1. Len(q) = 0 => \A i \in 1..Len(a) : a[i] = e
    BY <1>0, <1>1
  <2> QED BY <2>1 DEF AllNew
<1> QED BY <1>1, <1>3, <1>4, <1>5, <1>6, <1>7 DEF a, Youngest

(* A world after send_().                                                  *)
Put(s, f, n, l, q) ==
  [s EXCEPT !.ccp.flight = f, !.ccp.ctr = n, !.daq.sent = l, !.ecu.queue = q]

(* What a frame that is sent leaves as it was.                             *)
LEMMA PutFacts ==
  ASSUME NEW s \in Worlds, NEW f \in Flying, NEW n \in Counters, NEW q \in Seq(Entries),
         NEW l \in Seq(Commands), NEW t, t = Put(s, f, n, l, q)
  PROVE  /\ t \in Worlds /\ t.seen = s.seen
         /\ SameMaster(t.ccp, s.ccp) /\ SameDaq(t.daq, s.daq)
         /\ t.ecu.mta = s.ecu.mta /\ t.ecu.mem = s.ecu.mem
         /\ t.ccp.flight = f /\ t.ccp.ctr = n /\ t.daq.sent = l /\ t.ecu.queue = q
         /\ t.daq.sent = s.daq.sent => t.daq = s.daq
<1> DEFINE c == [s.ccp EXCEPT !.flight = f, !.ctr = n]
           d == [s.daq EXCEPT !.sent = l]
           e == [s.ecu EXCEPT !.queue = q]
<1>1. s.ccp \in Masters /\ s.daq \in Daqs /\ s.ecu \in Ecus /\ s.seen \in Views
  BY DEF Worlds
<1>2. c \in Masters /\ SameMaster(c, s.ccp) /\ c.flight = f /\ c.ctr = n
  BY <1>1 DEF Masters, SameMaster
<1>3. d \in Daqs /\ SameDaq(d, s.daq) /\ d.sent = l /\ (l = s.daq.sent => d = s.daq)
  BY <1>1 DEF Daqs, SameDaq
<1>4. e \in Ecus /\ e.mta = s.ecu.mta /\ e.mem = s.ecu.mem /\ e.queue = q
  BY <1>1 DEF Ecus
<1>5. t = [s EXCEPT !.ccp = c, !.daq = d, !.ecu = e]
  BY DEF Worlds, Put
<1> HIDE DEF c, d, e
<1>6. t \in Worlds /\ t.ccp = c /\ t.daq = d /\ t.ecu = e /\ t.seen = s.seen
  BY <1>1, <1>2, <1>3, <1>4, <1>5 DEF Worlds
<1> QED BY <1>2, <1>3, <1>4, <1>6

(* send_() in every outcome.                                               *)
LEMMA SendFacts ==
  ASSUME NEW s \in Worlds, Numbered(s.ccp, s.ecu), NEW cmd \in Commands, NEW arg \in Args,
         NEW r \in Send(s, cmd, arg)
  PROVE  Offered(s, r.to, cmd, arg, r.sent) /\ r.sent \in BOOLEAN
<1> DEFINE n == Turned(s.ccp.ctr)
           a == Aged(s.ecu.queue)
           f == Flown(s, cmd, arg)
           e == Entry(s, cmd, arg)
           l == Logged(s.daq, cmd)
           refused == Put(s, s.ccp.flight, n, s.daq.sent, a)
           handed == Put(s, f, n, l, a)
           taken == Put(s, f, n, l, Append(a, e))
<1>1. s.ccp \in Masters /\ s.daq \in Daqs /\ s.ecu \in Ecus /\ s.seen \in Views
  BY DEF Worlds
<1>2. s.ccp.ctr \in Counters /\ s.ccp.flight \in Flying /\ s.daq.sent \in Seq(Commands)
      /\ s.ecu.queue \in Seq(Entries) /\ n \in Counters
  BY <1>1, CounterTurns DEF Masters, Daqs, Ecus
<1>3. f \in Flying /\ f.cmd = cmd /\ f.arg = arg /\ f.ctr = s.ccp.ctr /\ f # NoFlight
  <2>1. RespTicks \in RespTimes
    BY CcpConstants DEF RespTimes
  <2>2. f \in Flying /\ f.cmd = cmd /\ f.arg = arg /\ f.ctr = s.ccp.ctr
    BY <1>2, <2>1 DEF Flown, Flying
  <2> QED BY <2>2, CommandKinds, SetupFacts DEF MemoryCommands, DaqCommands, SetupCommands, Teardowns
<1>4. e \in Entries /\ e.age = 0 /\ e.ctr = s.ccp.ctr /\ e.cmd = cmd /\ e.arg = arg
  <2>1. 0 \in Counters
    BY CcpConstants DEF Counters
  <2> QED BY <1>2, <2>1 DEF Entry, Entries
<1>5. l \in Seq(Commands)
  BY <1>2 DEF Logged
<1>6. /\ Falling(s.ecu.queue) /\ Dated(s.ecu.queue, s.ccp.ctr) /\ Len(s.ecu.queue) <= EcuBound
      /\ Len(s.ecu.queue) \in Nat
  BY <1>2 DEF Numbered
<1>7. /\ a \in Seq(Entries) /\ Len(a) <= Len(s.ecu.queue)
      /\ Falling(a) /\ Dated(a, n)
      /\ \A i \in 1..Len(a) : a[i].age # 0
      /\ s.ecu.queue = <<>> => a = <<>>
  BY <1>2, <1>6, AgedQueue DEF Turned
<1>8. /\ Len(a) \in Nat /\ Len(a) <= EcuBound /\ EcuBound \in Nat
  BY <1>6, <1>7, CcpConstants
<1>9. Handed(s, cmd, arg) = handed
  BY <1>1 DEF Handed, Flown, Turned, Logged, Worlds, Masters, Daqs, Ecus, Put
<1>10. [s EXCEPT !.ccp.ctr = (@ + 1) % CtrRange, !.ecu.queue = Aged(@)] = refused
  <2> DEFINE c1 == [s.ccp EXCEPT !.ctr = n]
             e1 == [s.ecu EXCEPT !.queue = a]
  <2>1. [s.ccp EXCEPT !.flight = s.ccp.flight, !.ctr = n] = c1
    BY <1>1 DEF Masters
  <2>2. [s.daq EXCEPT !.sent = s.daq.sent] = s.daq
    BY <1>1 DEF Daqs
  <2>3. refused = [s EXCEPT !.ccp = [s.ccp EXCEPT !.flight = s.ccp.flight, !.ctr = n],
                            !.daq = [s.daq EXCEPT !.sent = s.daq.sent], !.ecu = e1]
    BY DEF Put, Worlds
  <2>4. [s EXCEPT !.ccp.ctr = (@ + 1) % CtrRange, !.ecu.queue = Aged(@)]
          = [s EXCEPT !.ccp = c1, !.ecu = e1]
    BY DEF Worlds, Turned
  <2> HIDE DEF c1, e1, a
  <2>5. [s EXCEPT !.ccp = c1, !.daq = s.daq, !.ecu = e1] = [s EXCEPT !.ccp = c1, !.ecu = e1]
    BY DEF Worlds
  <2> QED BY <2>1, <2>2, <2>3, <2>4, <2>5
<1>11. handed.ecu.queue = a /\ [handed EXCEPT !.ecu.queue = Append(@, e)] = taken
  <2> DEFINE c1 == [s.ccp EXCEPT !.flight = f, !.ctr = n]
             d1 == [s.daq EXCEPT !.sent = l]
             e1 == [s.ecu EXCEPT !.queue = a]
             q == Append(a, e)
             e2 == [s.ecu EXCEPT !.queue = q]
  <2>1. handed = [s EXCEPT !.ccp = c1, !.daq = d1, !.ecu = e1]
    BY DEF Put, Worlds
  <2>2. taken = [s EXCEPT !.ccp = c1, !.daq = d1, !.ecu = e2]
    BY DEF Put, Worlds
  <2>3. e1.queue = a /\ [e1 EXCEPT !.queue = q] = e2
    BY <1>1 DEF Ecus
  <2>4. e1 = [s.ecu EXCEPT !.queue = a]
    OBVIOUS
  <2> HIDE DEF c1, d1, e1, e2, handed, taken, a, e, q
  <2>5. handed.ecu = e1 /\ [handed EXCEPT !.ecu = e2] = taken
    BY <2>1, <2>2 DEF Worlds
  <2>6. [handed EXCEPT !.ecu.queue = q] = [handed EXCEPT !.ecu = [e1 EXCEPT !.queue = q]]
    BY <2>1, <2>5 DEF Worlds
  <2>7. handed.ecu.queue = a
    BY <2>3, <2>5
  <2> QED BY <2>3, <2>5, <2>6, <2>7 DEF q
<1> HIDE DEF refused, handed, taken, a, e, f, l, n
<1>12. \/ r = [sent |-> FALSE, to |-> s]
       \/ Free(s) /\ r = [sent |-> FALSE, to |-> refused]
       \/ Free(s) /\ r = [sent |-> TRUE, to |-> handed]
       \/ Free(s) /\ Len(a) # EcuBound /\ r = [sent |-> TRUE, to |-> taken]
  <2>1. CASE ~s.ccp.enabled \/ s.ccp.flight # NoFlight
    BY <2>1 DEF Send
  <2>2. CASE ~(~s.ccp.enabled \/ s.ccp.flight # NoFlight)
    <3>1. r \in {[sent |-> FALSE, to |-> refused], [sent |-> TRUE, to |-> handed]}
                \cup (IF Len(handed.ecu.queue) = EcuBound THEN {}
                      ELSE {[sent |-> TRUE, to |-> [handed EXCEPT !.ecu.queue = Append(@, e)]]})
      BY <2>2, <1>9, <1>10 DEF Send, e, Entry
    <3> QED BY <3>1, <2>2, <1>11 DEF Free
  <2> QED BY <2>1, <2>2
<1>13. CASE r = [sent |-> FALSE, to |-> s]
  BY <1>13 DEF Offered, SameMaster, SameDaq
<1>14. CASE Free(s) /\ r = [sent |-> FALSE, to |-> refused]
  <2> DEFINE t == r.to
  <2>1. /\ t \in Worlds /\ t.seen = s.seen
        /\ SameMaster(t.ccp, s.ccp) /\ SameDaq(t.daq, s.daq)
        /\ t.ecu.mta = s.ecu.mta /\ t.ecu.mem = s.ecu.mem
        /\ t.ccp.flight = s.ccp.flight /\ t.ccp.ctr = n /\ t.ecu.queue = a /\ t.daq = s.daq
    BY <1>14, <1>2, <1>7, PutFacts DEF refused
  <2>2. r.sent = FALSE
    BY <1>14
  <2> HIDE DEF t
  <2>3. Numbered(t.ccp, t.ecu)
    BY <2>1, <1>7, <1>8, <1>14 DEF Numbered, Free
  <2> QED BY <2>1, <2>2, <2>3, <1>7, <1>14 DEF Offered, t
<1>15. CASE Free(s) /\ r = [sent |-> TRUE, to |-> handed]
  <2> DEFINE t == r.to
  <2>1. /\ t \in Worlds /\ t.seen = s.seen
        /\ SameMaster(t.ccp, s.ccp) /\ SameDaq(t.daq, s.daq)
        /\ t.ecu.mta = s.ecu.mta /\ t.ecu.mem = s.ecu.mem
        /\ t.ccp.flight = f /\ t.ccp.ctr = n /\ t.ecu.queue = a /\ t.daq.sent = l
        /\ t.daq.sent = s.daq.sent => t.daq = s.daq
    BY <1>15, <1>2, <1>3, <1>5, <1>7, PutFacts DEF handed
  <2>2. r.sent = TRUE
    BY <1>15
  <2> HIDE DEF t
  <2>3. Youngest(a, f)
    BY <1>7 DEF Youngest
  <2>4. Numbered(t.ccp, t.ecu)
    BY <2>1, <2>3, <1>3, <1>7, <1>8 DEF Numbered, n, Turned
  <2>5. s.ecu.queue = <<>> => AllNew(t.ecu.queue)
    BY <2>1, <1>7 DEF AllNew
  <2> QED BY <2>1, <2>2, <2>4, <2>5, <1>3, <1>15 DEF Offered, t, l
<1>16. CASE Free(s) /\ Len(a) # EcuBound /\ r = [sent |-> TRUE, to |-> taken]
  <2> DEFINE t == r.to
             q == Append(a, e)
  <2>0. /\ q \in Seq(Entries) /\ Len(q) <= EcuBound
        /\ Falling(q) /\ Dated(q, n) /\ Youngest(q, f)
        /\ Len(a) = 0 => AllNew(q)
    BY <1>2, <1>3, <1>4, <1>7, <1>8, <1>16, AppendQueue DEF n
  <2>2. r.sent = TRUE /\ t = Put(s, f, n, l, q)
    BY <1>16 DEF taken
  <2> HIDE DEF t, q
  <2>1. /\ t \in Worlds /\ t.seen = s.seen
        /\ SameMaster(t.ccp, s.ccp) /\ SameDaq(t.daq, s.daq)
        /\ t.ecu.mta = s.ecu.mta /\ t.ecu.mem = s.ecu.mem
        /\ t.ccp.flight = f /\ t.ccp.ctr = n /\ t.ecu.queue = q /\ t.daq.sent = l
        /\ t.daq.sent = s.daq.sent => t.daq = s.daq
    BY <2>0, <2>2, <1>2, <1>3, <1>5, PutFacts
  <2>4. Numbered(t.ccp, t.ecu)
    BY <2>0, <2>1, <1>3 DEF Numbered, n, Turned
  <2>5. s.ecu.queue = <<>> => AllNew(t.ecu.queue)
    BY <2>0, <2>1, <1>7
  <2> QED BY <2>1, <2>2, <2>4, <2>5, <1>3, <1>16 DEF Offered, t, l
<1> QED BY <1>12, <1>13, <1>14, <1>15, <1>16

-----------------------------------------------------------------------------
(* What a command needs, where it takes the slot.                          *)
ReadReady(s, cmd) ==
  Free(s) /\ ~s.seen.nested =>
    /\ cmd = "rd_mta" => s.ccp.readLeft = ReadChunks
    /\ cmd = "rd_up" => /\ s.ccp.readLeft # 0 /\ s.ecu.queue = <<>>
                        /\ s.ecu.mta = ReadChunks - s.ccp.readLeft + 1
WriteReady(s, cmd, arg) ==
  Free(s) =>
    /\ cmd \in WriteCommands => s.ccp.writeOff <= s.ccp.writeSize
    /\ ~s.seen.nested =>
         /\ cmd = "wr_mta" => s.ccp.writeOff = 0 /\ s.ccp.writeSize = WriteChunks
         /\ cmd = "wr_dn" =>
              /\ s.ccp.writeSize = WriteChunks /\ s.ccp.writeOff >= 1 /\ arg = s.ccp.writeOff
              /\ Stored(s.ecu.mem, s.ccp.writeOff - 1)
              /\ s.ecu.queue = <<>> /\ s.ecu.mta = s.ccp.writeOff
DaqReady(s, cmd) ==
  Free(s) =>
    /\ cmd \in SetupCommands =>
         SettingUp(s.daq, cmd) /\ s.daq.sent = SubSeq(Setup, 1, s.daq.step - 1)
    /\ cmd \in Teardowns => TakingDown(s.daq)

(* An offered frame keeps the read in order.                               *)
LEMMA SendReading ==
  ASSUME NEW s, NEW t, NEW cmd, NEW arg, NEW sent \in BOOLEAN, Offered(s, t, cmd, arg, sent),
         Reading(s.ccp, s.ecu, s.seen), ReadReady(s, cmd)
  PROVE  Reading(t.ccp, t.ecu, t.seen)
<1>1. CASE sent
  BY <1>1 DEF Offered, SameMaster, Reading, ReadReady, AllNew
<1>2. CASE ~sent /\ ~Free(s)
  BY <1>2 DEF Offered
<1>3. CASE ~sent /\ Free(s)
  <2>1. t.ccp.flight.cmd = "none"
    BY <1>3 DEF Offered, Free, NoFlight
  <2> QED BY <1>3, <2>1 DEF Offered, SameMaster, Reading
<1> QED BY <1>1, <1>2, <1>3

(* An offered frame keeps the write in order.                              *)
LEMMA SendWriting ==
  ASSUME NEW s, NEW t, NEW cmd, NEW arg, NEW sent \in BOOLEAN, Offered(s, t, cmd, arg, sent),
         Writing(s.ccp, s.ecu, s.seen), WriteReady(s, cmd, arg)
  PROVE  Writing(t.ccp, t.ecu, t.seen)
<1>1. CASE sent
  BY <1>1 DEF Offered, SameMaster, Writing, WriteReady, AllNew
<1>2. CASE ~sent /\ ~Free(s)
  BY <1>2 DEF Offered
<1>3. CASE ~sent /\ Free(s)
  <2>1. t.ccp.flight.cmd = "none"
    BY <1>3 DEF Offered, Free, NoFlight
  <2> QED BY <1>3, <2>1 DEF Offered, SameMaster, Writing, WriteCommands
<1> QED BY <1>1, <1>2, <1>3

(* The log of the setup grows by the step just sent.                       *)
LEMMA LoggedSetup ==
  ASSUME NEW d \in Daqs, NEW cmd, SettingUp(d, cmd), d.sent = SubSeq(Setup, 1, d.step - 1)
  PROVE  Logged(d, cmd) = SubSeq(Setup, 1, d.step)
<1> DEFINE n == d.step
           p == SubSeq(Setup, 1, n - 1)
<1>0. Setup \in Seq(Commands) /\ n \in 1..Len(Setup) /\ Setup[n] = cmd /\ Len(Setup) \in Nat
      /\ 1 \in 1..Len(Setup)
  BY SetupFacts, LenProperties DEF SettingUp
<1> HIDE DEF n
<1>1. SubSeq(Setup, 1, n) = p \o <<Setup[n]>>
  BY <1>0, SubSeqRecursiveSecond
<1>2. \A i \in 1..(n - 1) : Setup[i] \in Commands
  BY <1>0, ElementOfSeq
<1>3. p \in Seq(Commands) /\ Len(p) = IF 1 <= n - 1 THEN n - 1 - 1 + 1 ELSE 0
  BY <1>0, <1>2, SubSeqProperties
<1>4. Len(p) = n - 1
  BY <1>0, <1>3
<1>5. Append(p, cmd) = p \o <<cmd>>
  BY <1>0, <1>3, AppendIsConcat
<1>6. Len(p) < Len(Setup)
  BY <1>0, <1>4
<1> HIDE DEF p
<1>7. d.sent = p
  BY DEF p, n
<1>8. Logged(d, cmd) = Append(p, cmd)
  BY <1>6, <1>7 DEF Logged, SettingUp
<1> QED BY <1>0, <1>1, <1>5, <1>8 DEF n

(* An offered frame keeps the DAQ read in order.                           *)
LEMMA SendSampling ==
  ASSUME NEW s \in Worlds, NEW t, NEW cmd \in Commands, NEW arg, NEW sent \in BOOLEAN,
         Offered(s, t, cmd, arg, sent), Sampling(s.ccp, s.daq, s.seen), DaqReady(s, cmd)
  PROVE  Sampling(t.ccp, t.daq, t.seen)
<1>0. s.daq \in Daqs /\ s.daq.sent \in Seq(Commands) /\ Len(s.daq.sent) \in Nat /\ Len(Setup) \in Nat
  BY SetupFacts, LenProperties DEF Worlds, Daqs
<1>1. CASE sent
  <2>1. /\ Free(s) /\ t.ccp.flight.cmd = cmd /\ t.daq.sent = Logged(s.daq, cmd)
        /\ SameDaq(t.daq, s.daq) /\ t.seen = s.seen
        /\ t.daq.sent = s.daq.sent => t.daq = s.daq
    BY <1>1 DEF Offered
  <2>2. /\ Len(s.daq.sent) <= Len(Setup)
        /\ ~s.daq.active => s.daq = NoDaq
        /\ s.daq.collecting => s.daq.active /\ ~s.daq.failed /\ s.daq.sent = Setup /\ s.daq.frames < Samples
        /\ s.seen.ok => Good(s.seen.result)
    BY DEF Sampling
  <2>3. Len(t.daq.sent) <= Len(Setup)
    <3>1. Len(Append(s.daq.sent, cmd)) = Len(s.daq.sent) + 1
      BY <1>0
    <3> QED BY <1>0, <2>1, <2>2, <3>1 DEF Logged
  <2>4. ~t.daq.active => t.daq = NoDaq
    BY <2>1, <2>2 DEF Logged, SameDaq
  <2>5. t.daq.collecting =>
          t.daq.active /\ ~t.daq.failed /\ t.daq.sent = Setup /\ t.daq.frames < Samples
    BY <2>1, <2>2 DEF Logged, SameDaq
  <2>6. ASSUME cmd \in SetupCommands
        PROVE  SettingUp(t.daq, cmd) /\ t.daq.sent = SubSeq(Setup, 1, t.daq.step)
    <3>1. SettingUp(s.daq, cmd) /\ s.daq.sent = SubSeq(Setup, 1, s.daq.step - 1)
      BY <2>1, <2>6 DEF DaqReady
    <3>2. t.daq.sent = SubSeq(Setup, 1, s.daq.step)
      BY <3>1, <2>1, <1>0, LoggedSetup
    <3> QED BY <3>1, <3>2, <2>1 DEF SettingUp, SameDaq
  <2>7. ASSUME cmd \in Teardowns PROVE TakingDown(t.daq)
    <3>1. TakingDown(s.daq)
      BY <2>1, <2>7 DEF DaqReady
    <3>2. Good(s.daq) => t.daq = s.daq
      BY <1>0, <2>1 DEF Good, Logged
    <3> QED BY <3>1, <3>2, <2>1 DEF TakingDown, SameDaq
  <2> QED BY <2>1, <2>2, <2>3, <2>4, <2>5, <2>6, <2>7 DEF Sampling
<1>2. CASE ~sent
  BY <1>2 DEF Offered, Sampling
<1> QED BY <1>1, <1>2

(* A handler that may send a command keeps the invariant by sending it.    *)
LEMMA SendInv ==
  ASSUME NEW s, CcpInv(s), NEW cmd \in Commands, NEW arg \in Args, NEW r \in Send(s, cmd, arg),
         ReadReady(s, cmd), WriteReady(s, cmd, arg), DaqReady(s, cmd)
  PROVE  CcpInv(r.to) /\ Offered(s, r.to, cmd, arg, r.sent) /\ r.sent \in BOOLEAN
<1>1. Offered(s, r.to, cmd, arg, r.sent) /\ r.sent \in BOOLEAN
  BY SendFacts DEF CcpInv
<1>2. r.to \in Worlds /\ r.to.seen = s.seen /\ Numbered(r.to.ccp, r.to.ecu)
  BY <1>1 DEF Offered
<1>3. s \in Worlds /\ s.seen.age = 0 /\ Reading(s.ccp, s.ecu, s.seen)
      /\ Writing(s.ccp, s.ecu, s.seen) /\ Sampling(s.ccp, s.daq, s.seen)
  BY DEF CcpInv
<1>4. Reading(r.to.ccp, r.to.ecu, r.to.seen)
  BY <1>1, <1>3, SendReading
<1>5. Writing(r.to.ccp, r.to.ecu, r.to.seen)
  BY <1>1, <1>3, SendWriting
<1>6. Sampling(r.to.ccp, r.to.daq, r.to.seen)
  BY <1>1, <1>3, SendSampling
<1> QED BY <1>1, <1>2, <1>3, <1>4, <1>5, <1>6 DEF CcpInv

-----------------------------------------------------------------------------
(* The end of a DAQ read.  What the handlers need while it is on its way.  *)
CcpQuiet(s) ==
  /\ s \in Worlds /\ s.seen.age = 0
  /\ Numbered(s.ccp, s.ecu) /\ Reading(s.ccp, s.ecu, s.seen)
  /\ Writing(s.ccp, s.ecu, s.seen)
  /\ s.ccp.flight.cmd \notin DaqCommands
  /\ Len(s.daq.sent) <= Len(Setup)
  /\ s.seen.ok => Good(s.seen.result)

(* No command of the DAQ read in flight: the invariant asks only for a     *)
(* sound state of the read itself.                                         *)
LEMMA QuietInv ==
  ASSUME NEW s, CcpQuiet(s), ~s.daq.active => s.daq = NoDaq,
         s.daq.collecting => /\ s.daq.active /\ ~s.daq.failed
                             /\ s.daq.sent = Setup /\ s.daq.frames < Samples
  PROVE  CcpInv(s)
BY DEF CcpQuiet, CcpInv, Sampling, DaqCommands

(* The converse.                                                           *)
LEMMA InvQuiet ==
  ASSUME NEW s, CcpInv(s), s.ccp.flight.cmd \notin DaqCommands
  PROVE  CcpQuiet(s)
BY DEF CcpQuiet, CcpInv, Sampling

(* No DAQ read.                                                            *)
LEMMA NoDaqFacts ==
  /\ NoDaq \in Daqs /\ NoDaq.sent = <<>> /\ ~NoDaq.active /\ ~NoDaq.collecting /\ Len(NoDaq.sent) = 0
  /\ NoDaq.frames = 0 /\ ~NoDaq.failed /\ NoDaq.step = 0
<1>1. 0 \in Steps /\ 0 \in CollectTimes /\ 0 \in Counts /\ <<>> \in Seq(Commands)
  BY CcpConstants, SetupFacts, LenProperties DEF Steps, CollectTimes, Counts
<1> QED BY <1>1 DEF NoDaq, Daqs

(* Another DAQ read, or another report of one.                             *)
LEMMA WithDaq ==
  ASSUME NEW s \in Worlds, NEW d \in Daqs
  PROVE  LET t == [s EXCEPT !.daq = d]
         IN t \in Worlds /\ t.ccp = s.ccp /\ t.ecu = s.ecu /\ t.seen = s.seen /\ t.daq = d
BY DEF Worlds

(* While no command of the DAQ read is in flight its state may change.     *)
LEMMA WithDaqQuiet ==
  ASSUME NEW s, CcpQuiet(s), NEW d \in Daqs, Len(d.sent) <= Len(Setup)
  PROVE  CcpQuiet([s EXCEPT !.daq = d]) /\ [s EXCEPT !.daq = d].daq = d
<1>1. s \in Worlds
  BY DEF CcpQuiet
<1> QED BY <1>1, WithDaq DEF CcpQuiet

(* fire_daq_read_() on a read that has failed or has all it needs.         *)
LEMMA FireInv ==
  ASSUME NEW s, CcpInv(s), s.ccp.flight.cmd \notin DaqCommands, TakingDown(s.daq)
  PROVE  CcpInv(Fire(s))
<1> DEFINE ok == ~s.daq.failed
           v == [s.seen EXCEPT !.result = s.daq, !.ok = ok]
           t == [s EXCEPT !.daq = NoDaq, !.seen = v]
<1>1. s \in Worlds /\ s.seen \in Views /\ s.daq \in Daqs /\ s.daq.failed \in BOOLEAN
  BY DEF CcpInv, Worlds, Daqs
<1>2. ok \in BOOLEAN
  BY <1>1
<1>3. Fire(s) = t
  BY DEF Fire, TakingDown, CcpInv, Worlds
<1> HIDE DEF ok
<1>4. v \in Views /\ v.result = s.daq /\ v.ok = ok /\ v.read = s.seen.read /\ v.write = s.seen.write
      /\ v.nested = s.seen.nested /\ v.age = s.seen.age
  BY <1>1, <1>2 DEF Views
<1> HIDE DEF v
<1>5. t \in Worlds /\ t.ccp = s.ccp /\ t.ecu = s.ecu /\ t.daq = NoDaq /\ t.seen = v
  BY <1>1, <1>4, NoDaqFacts DEF Worlds
<1> HIDE DEF t
<1>6. v.ok => Good(v.result)
  BY <1>4 DEF TakingDown, ok
<1>7. Reading(t.ccp, t.ecu, t.seen) /\ Writing(t.ccp, t.ecu, t.seen)
  BY <1>4, <1>5 DEF CcpInv, Reading, Writing
<1>8. CcpQuiet(t)
  BY <1>4, <1>5, <1>6, <1>7, NoDaqFacts, SetupFacts, CcpConstants DEF CcpInv, CcpQuiet
<1>9. CcpInv(t)
  BY <1>5, <1>8, NoDaqFacts, QuietInv
<1> QED BY <1>3, <1>9

(* The commands that take a list down need no more than a read that is     *)
(* ending.                                                                 *)
LEMMA Ready ==
  ASSUME NEW s, NEW cmd, TakingDown(s.daq), cmd \in Teardowns
  PROVE  ReadReady(s, cmd) /\ WriteReady(s, cmd, 0) /\ DaqReady(s, cmd)
BY DEF ReadReady, WriteReady, DaqReady, Teardowns, SetupCommands, WriteCommands

(* Commands without an argument.                                           *)
LEMMA ZeroArg == 0 \in Args
BY CcpConstants DEF Args

(* The second command of the teardown, or the report.                      *)
LEMMA ClearStatusInv ==
  ASSUME NEW s, CcpInv(s), s.ccp.flight.cmd \notin DaqCommands, TakingDown(s.daq),
         NEW u \in ClearStatus(s)
  PROVE  CcpInv(u)
<1>1. PICK r \in Send(s, "dq_off", 0) : u = IF r.sent THEN r.to ELSE Fire(r.to)
  BY DEF ClearStatus
<1>2. CcpInv(r.to) /\ Offered(s, r.to, "dq_off", 0, r.sent) /\ r.sent \in BOOLEAN
  BY SendInv, Ready, SetupFacts, ZeroArg DEF Teardowns
<1>3. CASE r.sent
  BY <1>1, <1>2, <1>3
<1>4. CASE ~r.sent
  <2>1. r.to.ccp.flight.cmd \notin DaqCommands /\ TakingDown(r.to.daq)
    BY <1>2, <1>4 DEF Offered
  <2> QED BY <1>1, <1>2, <1>4, <2>1, FireInv
<1> QED BY <1>2, <1>3, <1>4

(* The first command of the teardown, or the second, or the report.        *)
LEMMA TeardownInv ==
  ASSUME NEW s, CcpInv(s), s.ccp.flight.cmd \notin DaqCommands, TakingDown(s.daq),
         NEW u \in Teardown(s)
  PROVE  CcpInv(u)
<1>1. PICK r \in Send(s, "dq_stop", 0) : u \in IF r.sent THEN {r.to} ELSE ClearStatus(r.to)
  BY DEF Teardown
<1>2. CcpInv(r.to) /\ Offered(s, r.to, "dq_stop", 0, r.sent) /\ r.sent \in BOOLEAN
  BY SendInv, Ready, SetupFacts, ZeroArg DEF Teardowns
<1>3. CASE r.sent
  BY <1>1, <1>2, <1>3
<1>4. CASE ~r.sent
  <2>1. r.to.ccp.flight.cmd \notin DaqCommands /\ TakingDown(r.to.daq)
    BY <1>2, <1>4 DEF Offered
  <2> QED BY <1>1, <1>2, <1>4, <2>1, ClearStatusInv
<1> QED BY <1>2, <1>3, <1>4

(* complete_daq_read_(): a read that did not fail has every step of its    *)
(* setup and enough samples behind it.                                     *)
LEMMA CompleteInv ==
  ASSUME NEW s, CcpQuiet(s), s.daq.active, NEW failed \in BOOLEAN,
         failed \/ (s.daq.sent = Setup /\ s.daq.frames >= Samples),
         NEW u \in Complete(s, failed)
  PROVE  CcpInv(u)
<1> DEFINE bad == s.daq.failed \/ failed \/ ~s.daq.anchored \/ ~s.daq.valid
           d == [s.daq EXCEPT !.collecting = FALSE, !.timer = 0, !.failed = bad]
           t == [s EXCEPT !.daq = d]
<1>1. s \in Worlds /\ s.daq \in Daqs
  BY DEF CcpQuiet, Worlds
<1>2. bad \in BOOLEAN /\ 0 \in CollectTimes
  BY <1>1, CcpConstants DEF CollectTimes, Daqs
<1>3. u \in Teardown(t)
  BY <1>1 DEF Complete, Worlds
<1>a. ~bad => s.daq.sent = Setup /\ s.daq.frames >= Samples /\ s.daq.anchored /\ s.daq.valid
  BY <1>1 DEF Daqs
<1> HIDE DEF bad
<1>4. /\ d \in Daqs /\ d.sent = s.daq.sent /\ d.active /\ ~d.collecting /\ d.failed = bad
      /\ d.frames = s.daq.frames /\ d.anchored = s.daq.anchored /\ d.valid = s.daq.valid
  BY <1>1, <1>2 DEF Daqs
<1> HIDE DEF d
<1>5. CcpQuiet(t) /\ t.daq = d
  BY <1>4, WithDaqQuiet DEF CcpQuiet
<1> HIDE DEF t
<1>6. TakingDown(d)
  BY <1>2, <1>4, <1>a DEF TakingDown, Good
<1>7. CcpInv(t)
  BY <1>4, <1>5, QuietInv
<1> QED BY <1>3, <1>5, <1>6, <1>7, TeardownInv DEF CcpQuiet

(* Giving up needs none of that.                                           *)
LEMMA GiveUpInv ==
  ASSUME NEW s, CcpQuiet(s), s.daq.active, NEW u \in Complete(s, TRUE)
  PROVE  CcpInv(u)
BY CompleteInv

(* send_daq_step_(): the next command of the setup, or the end of it.      *)
LEMMA StepInv ==
  ASSUME NEW s, CcpQuiet(s), NEW n \in 1..Len(Setup),
         s.daq.active, ~s.daq.collecting, ~s.daq.failed, s.daq.frames = 0,
         Free(s) => s.daq.sent = SubSeq(Setup, 1, n - 1),
         NEW u \in Step(s, n)
  PROVE  CcpInv(u)
<1> DEFINE d == [s.daq EXCEPT !.step = n]
           t == [s EXCEPT !.daq = d]
           cmd == Setup[n]
<1>1. s \in Worlds /\ s.daq \in Daqs
  BY DEF CcpQuiet, Worlds
<1>2. n \in Steps /\ cmd \in Commands /\ cmd \in SetupCommands
  BY SetupFacts, ElementOfSeq, LenProperties DEF Steps
<1>3. PICK r \in Send(t, cmd, 0) : u \in IF r.sent THEN {r.to} ELSE Complete(r.to, TRUE)
  BY <1>1 DEF Step, Worlds
<1>4. /\ d \in Daqs /\ d.sent = s.daq.sent /\ d.active /\ ~d.collecting /\ ~d.failed
      /\ d.frames = 0 /\ d.step = n
  BY <1>1, <1>2 DEF Daqs
<1> HIDE DEF d
<1>5. CcpQuiet(t) /\ t.daq = d
  BY <1>4, WithDaqQuiet DEF CcpQuiet
<1>6. t.ccp = s.ccp
  BY <1>1, <1>4, WithDaq
<1> HIDE DEF t
<1>7. CcpInv(t)
  BY <1>4, <1>5, QuietInv
<1>8. ReadReady(t, cmd) /\ WriteReady(t, cmd, 0)
  BY <1>2 DEF ReadReady, WriteReady, SetupCommands, WriteCommands
<1>9. DaqReady(t, cmd)
  <2>1. SettingUp(d, cmd)
    BY <1>4 DEF SettingUp
  <2>2. Free(t) => d.sent = SubSeq(Setup, 1, d.step - 1)
    BY <1>4, <1>6 DEF Free
  <2>3. cmd \notin Teardowns
    BY <1>2 DEF SetupCommands, Teardowns
  <2> QED BY <2>1, <2>2, <2>3, <1>5 DEF DaqReady
<1> HIDE DEF cmd
<1>10. CcpInv(r.to) /\ Offered(t, r.to, cmd, 0, r.sent) /\ r.sent \in BOOLEAN
  BY <1>2, <1>3, <1>7, <1>8, <1>9, SendInv, ZeroArg
<1>11. CASE r.sent
  BY <1>3, <1>10, <1>11
<1>12. CASE ~r.sent
  <2>1. r.to.ccp.flight.cmd \notin DaqCommands /\ r.to.daq.active
    BY <1>4, <1>5, <1>10, <1>12 DEF Offered, CcpQuiet
  <2>2. CcpQuiet(r.to) /\ u \in Complete(r.to, TRUE)
    BY <1>3, <1>10, <1>12, <2>1, InvQuiet
  <2> QED BY <2>1, <2>2, GiveUpInv
<1> QED BY <1>10, <1>11, <1>12

-----------------------------------------------------------------------------
(* Between the automation and the continuation of finish_(): what remains  *)
(* true of the command c that has just been completed, or has failed.      *)
PendMemory(s, c) ==
  ~s.seen.nested /\ c \in MemoryCommands => s.ccp.flight.cmd \notin MemoryCommands
PendRead(s, c, ok, data) ==
  ok /\ ~s.seen.nested =>
    /\ c = "rd_mta" => /\ s.ccp.readLeft = ReadChunks
                       /\ Free(s) => s.ecu.queue = <<>> /\ s.ecu.mta = 1
    /\ c = "rd_up" => /\ s.ccp.readLeft # 0 /\ data = ReadChunks - s.ccp.readLeft + 1
                      /\ Free(s) => s.ecu.queue = <<>> /\ s.ecu.mta = data + 1
PendWrite(s, c, ok) ==
  /\ c \in WriteCommands =>
       /\ s.ccp.writeOff <= s.ccp.writeSize
       /\ s.ccp.flight.cmd \in WriteCommands => s.ccp.writeOff < s.ccp.writeSize
  /\ ok /\ ~s.seen.nested =>
       /\ c = "wr_mta" => /\ s.ccp.writeOff = 0 /\ s.ccp.writeSize = WriteChunks
                          /\ Free(s) => s.ecu.queue = <<>> /\ s.ecu.mta = 1
       /\ c = "wr_dn" => /\ s.ccp.writeSize = WriteChunks /\ s.ccp.writeOff >= 1
                         /\ Stored(s.ecu.mem, s.ccp.writeOff)
                         /\ Free(s) => s.ecu.queue = <<>> /\ s.ecu.mta = s.ccp.writeOff + 1
PendDaq(s, c) ==
  /\ c \in DaqCommands => s.ccp.flight.cmd \notin DaqCommands
  /\ c \in SetupCommands =>
       /\ SettingUp(s.daq, c)
       /\ Free(s) \/ c = "dq_start" => s.daq.sent = SubSeq(Setup, 1, s.daq.step)
  /\ c \in Teardowns => TakingDown(s.daq)
Pending(s, c, ok, data) ==
  PendMemory(s, c) /\ PendRead(s, c, ok, data) /\ PendWrite(s, c, ok) /\ PendDaq(s, c)

(* The master changes but for counter and flight, or the report does.      *)
LEMMA WithMaster ==
  ASSUME NEW s, CcpInv(s), NEW c \in Masters, c.ctr = s.ccp.ctr, c.flight = s.ccp.flight,
         Reading(c, s.ecu, s.seen), Writing(c, s.ecu, s.seen), NEW t, t = [s EXCEPT !.ccp = c]
  PROVE  CcpInv(t) /\ t.ccp = c /\ t.ecu = s.ecu /\ t.daq = s.daq /\ t.seen = s.seen
<1>1. s \in Worlds
  BY DEF CcpInv
<1>2. t \in Worlds /\ t.ccp = c /\ t.ecu = s.ecu /\ t.daq = s.daq /\ t.seen = s.seen
  BY <1>1 DEF Worlds
<1> QED BY <1>2 DEF CcpInv, Numbered, Sampling

(* The history changes, but for the DAQ result.                            *)
LEMMA WithSeen ==
  ASSUME NEW s, CcpInv(s), NEW v \in Views, v.ok = s.seen.ok, v.result = s.seen.result, v.age = 0,
         Reading(s.ccp, s.ecu, v), Writing(s.ccp, s.ecu, v), NEW t, t = [s EXCEPT !.seen = v]
  PROVE  CcpInv(t) /\ t.ccp = s.ccp /\ t.ecu = s.ecu /\ t.daq = s.daq /\ t.seen = v
<1>1. s \in Worlds
  BY DEF CcpInv
<1>2. t \in Worlds /\ t.ccp = s.ccp /\ t.ecu = s.ecu /\ t.daq = s.daq /\ t.seen = v
  BY <1>1 DEF Worlds
<1> QED BY <1>2 DEF CcpInv, Sampling

(* The mark of a refused read is only history.                             *)
LEMMA StuckInv ==
  ASSUME NEW s, CcpInv(s), NEW b \in BOOLEAN, NEW t, t = [s EXCEPT !.seen.stuck = b]
  PROVE  CcpInv(t) /\ t.ccp = s.ccp /\ t.ecu = s.ecu /\ t.daq = s.daq
         /\ t.seen.nested = s.seen.nested
<1> DEFINE v == [s.seen EXCEPT !.stuck = b]
           w == [s EXCEPT !.seen = v]
<1>1. s \in Worlds /\ s.seen \in Views
  BY DEF CcpInv, Worlds
<1>2. t = w
  BY <1>1 DEF Worlds
<1>3. v \in Views /\ v.ok = s.seen.ok /\ v.result = s.seen.result /\ v.age = s.seen.age
      /\ v.read = s.seen.read /\ v.write = s.seen.write /\ v.nested = s.seen.nested
  BY <1>1 DEF Views
<1> HIDE DEF v
<1>4. Reading(s.ccp, s.ecu, v) /\ Writing(s.ccp, s.ecu, v) /\ v.age = 0
  BY <1>3 DEF CcpInv, Reading, Writing
<1>5. v.ok = s.seen.ok /\ v.result = s.seen.result /\ v.age = 0 /\ v \in Views
  BY <1>3, <1>4
<1>6. CcpInv(w) /\ w.ccp = s.ccp /\ w.ecu = s.ecu /\ w.daq = s.daq /\ w.seen = v
  BY <1>5, <1>4, WithSeen
<1> QED BY <1>2, <1>3, <1>6

(* The types of the parts.                                                 *)
LEMMA WorldFacts ==
  ASSUME NEW s, CcpInv(s)
  PROVE  /\ s \in Worlds /\ s.ccp \in Masters /\ s.ecu \in Ecus /\ s.daq \in Daqs /\ s.seen \in Views
         /\ s.ccp.flight \in Flying /\ s.ccp.enabled \in BOOLEAN
         /\ s.ccp.readLeft \in Ups /\ s.ccp.readLeft \in Nat /\ s.ccp.readLeft <= ReadChunks
         /\ s.ccp.readData \in Seq(Nat) /\ s.ccp.wanted \in BOOLEAN
         /\ s.ccp.writeSize \in Sizes /\ s.ccp.writeSize \in Nat
         /\ s.ccp.writeOff \in Args /\ s.ccp.writeOff \in Nat
         /\ s.ccp.reporting \in BOOLEAN /\ s.ecu.mta \in Nat /\ s.ecu.mem \in Seq(Chunks)
         /\ s.ecu.queue \in Seq(Entries) /\ s.seen.write \in BOOLEAN /\ s.seen.read \in Seq(Nat)
         /\ s.seen.nested \in BOOLEAN /\ s.seen.stuck \in BOOLEAN
<1>1. s \in Worlds /\ s.ccp \in Masters /\ s.ecu \in Ecus /\ s.daq \in Daqs /\ s.seen \in Views
  BY DEF CcpInv, Worlds
<1>2. \A n \in Ups : n \in Nat /\ n <= ReadChunks
  BY CcpConstants DEF Ups
<1>3. (\A n \in Sizes : n \in Nat) /\ (\A n \in Args : n \in Nat)
  BY CcpConstants DEF Sizes, Args
<1>4. /\ s.ccp.flight \in Flying /\ s.ccp.enabled \in BOOLEAN /\ s.ccp.readLeft \in Ups
      /\ s.ccp.readData \in Seq(Nat) /\ s.ccp.wanted \in BOOLEAN /\ s.ccp.writeSize \in Sizes
      /\ s.ccp.writeOff \in Args /\ s.ccp.reporting \in BOOLEAN
  BY <1>1 DEF Masters
<1>5. s.ecu.mta \in Nat /\ s.ecu.mem \in Seq(Chunks) /\ s.ecu.queue \in Seq(Entries)
  BY <1>1 DEF Ecus
<1>6. /\ s.seen.write \in BOOLEAN /\ s.seen.read \in Seq(Nat) /\ s.seen.nested \in BOOLEAN
      /\ s.seen.stuck \in BOOLEAN
  BY <1>1 DEF Views
<1> QED BY <1>1, <1>2, <1>3, <1>4, <1>5, <1>6

(* One chunk more in order.                                                *)
LEMMA UpToNext ==
  ASSUME NEW n \in Nat
  PROVE  Append(UpTo(n), n + 1) = UpTo(n + 1) /\ UpTo(n) \in Seq(Nat) /\ Len(UpTo(n)) = n
BY DEF UpTo

(* fail_sequence_() leaves no memory sequence behind, except the one that  *)
(* an automation has just begun.                                           *)
LEMMA FailSequenceInv ==
  ASSUME NEW s, CcpInv(s), s.seen.nested \/ s.ccp.flight.cmd \notin MemoryCommands
  PROVE  CcpInv(FailSequence(s))
<1> DEFINE off == IF s.ccp.writeSize = 0 THEN s.ccp.writeOff ELSE 0
           c == [s.ccp EXCEPT !.readLeft = 0, !.readData = <<>>, !.wanted = FALSE,
                              !.writeSize = 0, !.writeOff = off, !.reporting = FALSE]
<1>1. FailSequence(s) = [s EXCEPT !.ccp = c]
  BY WorldFacts DEF FailSequence, Worlds
<1>2. off \in Args /\ 0 \in Ups /\ 0 \in Sizes /\ <<>> \in Seq(Nat)
  BY WorldFacts, CcpConstants DEF Args, Ups, Sizes
<1>3. s.ccp.flight.cmd \in WriteCommands => off <= 0
  BY WorldFacts DEF CcpInv, Writing
<1> HIDE DEF off
<1>4. /\ c \in Masters /\ c.ctr = s.ccp.ctr /\ c.flight = s.ccp.flight /\ c.readLeft = 0
      /\ c.readData = <<>> /\ c.writeSize = 0 /\ c.writeOff = off
  BY <1>2, WorldFacts DEF Masters
<1> HIDE DEF c
<1>5. Reading(c, s.ecu, s.seen)
  <2>1. c.readLeft + Len(c.readData) <= ReadChunks
    BY <1>4, CcpConstants
  <2> QED BY <2>1, <1>4 DEF CcpInv, Reading, MemoryCommands
<1>6. Writing(c, s.ecu, s.seen)
  BY <1>3, <1>4 DEF CcpInv, Writing, MemoryCommands
<1> QED BY <1>1, <1>4, <1>5, <1>6, WithMaster

(* A chunk of a read is asked for.                                         *)
LEMMA ReadSendsInv ==
  ASSUME NEW s, CcpInv(s), ReadReady(s, "rd_up"), NEW u \in ReadSends(s)
  PROVE  CcpInv(u)
<1>1. PICK r \in Send(s, "rd_up", 0) : u = [r.to EXCEPT !.seen.stuck = @ \/ ~r.sent]
  BY DEF ReadSends
<1>2. "rd_up" \in Commands /\ WriteReady(s, "rd_up", 0) /\ DaqReady(s, "rd_up")
  BY SetupFacts DEF WriteReady, DaqReady, MemoryCommands, WriteCommands, SetupCommands, Teardowns
<1>3. CcpInv(r.to) /\ r.sent \in BOOLEAN
  BY <1>2, SendInv, ZeroArg
<1>4. PICK b \in BOOLEAN : b = (r.to.seen.stuck \/ ~r.sent)
  BY <1>3, WorldFacts
<1>5. u = [r.to EXCEPT !.seen.stuck = b]
  BY <1>1, <1>4
<1> QED BY <1>3, <1>5, StuckInv

(* continue_read_().                                                       *)
LEMMA ContinueReadInv ==
  ASSUME NEW s, CcpInv(s), NEW ok \in BOOLEAN, NEW data \in Nat,
         PendMemory(s, "rd_up"), PendRead(s, "rd_up", ok, data),
         NEW u \in ContinueRead(s, ok, data)
  PROVE  CcpInv(u)
<1> DEFINE got == [s EXCEPT !.ccp.readData = Append(@, data), !.ccp.readLeft = @ - 1]
           more == Append(s.ccp.readData, data)
           left == s.ccp.readLeft - 1
           n == ReadChunks - s.ccp.readLeft
<1>0. /\ ReadChunks \in Nat /\ s.ccp.readLeft \in Nat /\ s.ccp.readLeft <= ReadChunks
      /\ Len(s.ccp.readData) \in Nat /\ s.ccp.readLeft + Len(s.ccp.readData) <= ReadChunks
      /\ n \in Nat
  BY WorldFacts, CcpConstants DEF CcpInv, Reading
<1>1. CASE ~ok
  <2>1. u = FailSequence(s)
    BY <1>1 DEF ContinueRead
  <2>2. s.seen.nested \/ s.ccp.flight.cmd \notin MemoryCommands
    BY DEF PendMemory, MemoryCommands
  <2> QED BY <2>1, <2>2, FailSequenceInv
<1>2. CASE ok /\ s.ccp.readLeft = 0
  BY <1>2 DEF ContinueRead
<1>3. ASSUME ok, s.ccp.readLeft # 0
      PROVE  /\ more \in Seq(Nat) /\ Len(more) = Len(s.ccp.readData) + 1 /\ left \in Ups
             /\ left + Len(more) <= ReadChunks
             /\ ~s.seen.nested => /\ more = UpTo(ReadChunks - left) /\ data = ReadChunks - left
                                  /\ s.ccp.flight.cmd \notin MemoryCommands
  <2>1. more \in Seq(Nat) /\ Len(more) = Len(s.ccp.readData) + 1 /\ left \in Ups
    BY <1>0, <1>3, WorldFacts DEF Ups
  <2>2. left + Len(more) <= ReadChunks
    BY <1>0, <2>1
  <2>3. ASSUME ~s.seen.nested
        PROVE  /\ more = UpTo(ReadChunks - left) /\ data = ReadChunks - left
               /\ s.ccp.flight.cmd \notin MemoryCommands
    <3>1. data = n + 1 /\ s.ccp.flight.cmd \notin MemoryCommands /\ s.ccp.readData = UpTo(n)
      BY <1>3, <2>3 DEF PendMemory, PendRead, MemoryCommands, CcpInv, Reading
    <3>2. ReadChunks - left = n + 1
      BY <1>0
    <3> QED BY <3>1, <3>2, <1>0, UpToNext
  <2> QED BY <2>1, <2>2, <2>3
<1>4. CASE ok /\ s.ccp.readLeft = 1
  <2> DEFINE c == [s.ccp EXCEPT !.readData = <<>>, !.readLeft = left, !.wanted = FALSE]
             read == IF s.ccp.wanted THEN more ELSE s.seen.read
             v == [s.seen EXCEPT !.read = read]
             t == [s EXCEPT !.seen = v]
  <2>1. u = [got EXCEPT !.ccp.readData = <<>>, !.ccp.wanted = FALSE,
                        !.seen.read = IF s.ccp.wanted THEN got.ccp.readData ELSE @]
    BY <1>4 DEF ContinueRead
  <2>2. u = [t EXCEPT !.ccp = c]
    BY <2>1, WorldFacts DEF Worlds, Masters
  <2>3. read \in Seq(Nat) /\ (~s.seen.nested => read = s.seen.read \/ read = UpTo(ReadChunks))
    <3>1. left = 0 /\ ReadChunks - left = ReadChunks
      BY <1>0, <1>4
    <3> QED BY <3>1, <1>3, <1>4, WorldFacts
  <2>4. left = 0 /\ left \in Ups /\ <<>> \in Seq(Nat)
    BY <1>3, <1>4
  <2> HIDE DEF read, left
  <2>5. /\ v \in Views /\ v.ok = s.seen.ok /\ v.result = s.seen.result /\ v.age = s.seen.age
        /\ v.read = read /\ v.write = s.seen.write /\ v.nested = s.seen.nested
    BY <2>3, WorldFacts DEF Views
  <2> HIDE DEF v
  <2>6. CcpInv(t) /\ t.ccp = s.ccp /\ t.ecu = s.ecu /\ t.seen = v
    <3>1. Reading(s.ccp, s.ecu, v) /\ Writing(s.ccp, s.ecu, v) /\ v.age = 0
      BY <2>3, <2>5 DEF CcpInv, Reading, Writing
    <3> QED BY <2>5, <3>1, WithSeen
  <2>7. /\ c \in Masters /\ c.ctr = s.ccp.ctr /\ c.flight = s.ccp.flight /\ c.readLeft = 0
        /\ c.readData = <<>> /\ c.writeSize = s.ccp.writeSize /\ c.writeOff = s.ccp.writeOff
    BY <2>4, WorldFacts DEF Masters
  <2> HIDE DEF c, t
  <2>8. Reading(c, t.ecu, t.seen)
    <3>1. c.readLeft + Len(c.readData) <= ReadChunks
      BY <2>7, <1>0
    <3>2. ~t.seen.nested => s.ccp.flight.cmd \notin MemoryCommands
      BY <2>5, <2>6, <1>3, <1>4
    <3> QED BY <3>1, <3>2, <2>6, <2>7 DEF CcpInv, Reading, MemoryCommands
  <2>9. Writing(c, t.ecu, t.seen)
    BY <2>6, <2>7 DEF CcpInv, Writing
  <2> QED BY <2>2, <2>6, <2>7, <2>8, <2>9, WithMaster
<1>5. CASE ok /\ s.ccp.readLeft > 1
  <2> DEFINE c == [s.ccp EXCEPT !.readData = more, !.readLeft = left]
  <2>1. u \in ReadSends(got)
    BY <1>5, <1>0 DEF ContinueRead
  <2>2. got = [s EXCEPT !.ccp = c]
    BY WorldFacts DEF Worlds, Masters
  <2>3. left # 0 /\ left \in Ups /\ more \in Seq(Nat) /\ left \in Nat
    BY <1>0, <1>3, <1>5
  <2>4. left + Len(more) <= ReadChunks
        /\ (~s.seen.nested => /\ more = UpTo(ReadChunks - left) /\ data = ReadChunks - left
                              /\ s.ccp.flight.cmd \notin MemoryCommands)
    BY <1>0, <1>3, <1>5
  <2> HIDE DEF got, more, left
  <2>5. /\ c \in Masters /\ c.ctr = s.ccp.ctr /\ c.flight = s.ccp.flight /\ c.readLeft = left
        /\ c.readData = more /\ c.writeSize = s.ccp.writeSize /\ c.writeOff = s.ccp.writeOff
    BY <2>3, WorldFacts DEF Masters
  <2> HIDE DEF c
  <2>6. Reading(c, s.ecu, s.seen)
    BY <2>4, <2>5 DEF CcpInv, Reading, MemoryCommands
  <2>7. Writing(c, s.ecu, s.seen)
    BY <2>5 DEF CcpInv, Writing
  <2>8. CcpInv(got) /\ got.ccp = c /\ got.ecu = s.ecu /\ got.seen = s.seen
    BY <2>2, <2>5, <2>6, <2>7, WithMaster
  <2>9. ReadReady(got, "rd_up")
    <3> SUFFICES ASSUME Free(got), ~got.seen.nested
                 PROVE  got.ecu.queue = <<>> /\ got.ecu.mta = ReadChunks - left + 1
      BY <2>3, <2>5, <2>8 DEF ReadReady
    <3>1. Free(s) /\ ~s.seen.nested
      BY <2>5, <2>8 DEF Free
    <3>2. s.ecu.queue = <<>> /\ s.ecu.mta = data + 1
      BY <3>1, <1>5 DEF PendRead
    <3> QED BY <3>1, <3>2, <2>4, <2>8
  <2> QED BY <2>1, <2>8, <2>9, ReadSendsInv
<1> QED BY <1>0, <1>1, <1>2, <1>4, <1>5

(* continue_write_().                                                      *)
LEMMA ContinueWriteInv ==
  ASSUME NEW s, CcpInv(s), NEW ok \in BOOLEAN, NEW cmd \in WriteCommands,
         PendMemory(s, cmd), PendWrite(s, cmd, ok), NEW u \in ContinueWrite(s, ok)
  PROVE  CcpInv(u)
<1>0. /\ s.ccp.writeOff \in Nat /\ s.ccp.writeSize \in Nat /\ s.ccp.writeOff <= s.ccp.writeSize
      /\ s.ccp.writeSize \in {0, WriteChunks} /\ WriteChunks \in Nat \ {0}
      /\ s.ccp.flight.cmd \in WriteCommands => s.ccp.writeOff < s.ccp.writeSize
      /\ ~s.seen.nested => s.ccp.flight.cmd \notin MemoryCommands
  BY WorldFacts, CcpConstants DEF PendWrite, PendMemory, WriteCommands, MemoryCommands, Sizes
<1>1. CASE ~ok
  <2>1. u = FailSequence(s)
    BY <1>1 DEF ContinueWrite
  <2> QED BY <2>1, <1>0, FailSequenceInv
<1>2. CASE ok /\ s.ccp.writeOff = s.ccp.writeSize
  <2> DEFINE c == [s.ccp EXCEPT !.writeSize = 0, !.reporting = FALSE]
             done == s.seen.write \/ s.ccp.reporting
             v == [s.seen EXCEPT !.write = done]
             t == [s EXCEPT !.seen = v]
  <2>1. u = [t EXCEPT !.ccp = c]
    BY <1>2, WorldFacts DEF ContinueWrite, Worlds
  <2>2. done \in BOOLEAN /\ 0 \in Sizes
    BY WorldFacts DEF Sizes
  <2> HIDE DEF done
  <2>3. /\ v \in Views /\ v.ok = s.seen.ok /\ v.result = s.seen.result /\ v.age = s.seen.age
        /\ v.read = s.seen.read /\ v.write = done /\ v.nested = s.seen.nested
    BY <2>2, WorldFacts DEF Views
  <2> HIDE DEF v
  <2>4. ~s.seen.nested => Stored(s.ecu.mem, WriteChunks)
    <3>1. ~s.seen.nested => cmd = "wr_dn"
      BY <1>0, <1>2 DEF PendWrite, WriteCommands
    <3> QED BY <3>1, <1>0, <1>2 DEF PendWrite
  <2>5. CcpInv(t) /\ t.ccp = s.ccp /\ t.ecu = s.ecu /\ t.seen = v
    <3>1. Reading(s.ccp, s.ecu, v) /\ Writing(s.ccp, s.ecu, v) /\ v.age = 0
      BY <2>3, <2>4 DEF CcpInv, Reading, Writing
    <3> QED BY <2>3, <3>1, WithSeen
  <2>6. /\ c \in Masters /\ c.ctr = s.ccp.ctr /\ c.flight = s.ccp.flight
        /\ c.readLeft = s.ccp.readLeft /\ c.readData = s.ccp.readData
    BY <2>2, WorldFacts DEF Masters
  <2> HIDE DEF c, t
  <2>7. Reading(c, t.ecu, t.seen)
    BY <2>5, <2>6 DEF CcpInv, Reading
  <2>8. Writing(c, t.ecu, t.seen)
    <3>1. s.ccp.flight.cmd \notin WriteCommands
      BY <1>0, <1>2
    <3> QED BY <3>1, <2>5, <2>6 DEF CcpInv, Writing, WriteCommands
  <2> QED BY <2>1, <2>5, <2>6, <2>7, <2>8, WithMaster
<1>3. CASE ok /\ s.ccp.writeOff # s.ccp.writeSize
  <2> DEFINE off == s.ccp.writeOff + 1
             c == [s.ccp EXCEPT !.writeOff = off]
             t == [s EXCEPT !.ccp = c]
  <2>1. PICK r \in Send(t, "wr_dn", off) : u = r.to
    BY <1>3, WorldFacts DEF ContinueWrite, Sent, Worlds
  <2>2. /\ off \in Args /\ off >= 1 /\ off <= s.ccp.writeSize /\ s.ccp.writeSize = WriteChunks
        /\ off \in Nat /\ off - 1 = s.ccp.writeOff
    BY <1>0, <1>3 DEF Args
  <2> HIDE DEF off
  <2>3. /\ c \in Masters /\ c.ctr = s.ccp.ctr /\ c.flight = s.ccp.flight /\ c.writeOff = off
        /\ c.writeSize = s.ccp.writeSize
        /\ c.readLeft = s.ccp.readLeft /\ c.readData = s.ccp.readData
    BY <2>2, WorldFacts DEF Masters
  <2> HIDE DEF c
  <2>4. Reading(c, s.ecu, s.seen)
    BY <2>3 DEF CcpInv, Reading
  <2>5. Writing(c, s.ecu, s.seen)
    BY <2>2, <2>3, <1>0 DEF CcpInv, Writing, MemoryCommands, WriteCommands
  <2>6. CcpInv(t) /\ t.ccp = c /\ t.ecu = s.ecu /\ t.seen = s.seen
    BY <2>3, <2>4, <2>5, WithMaster
  <2> HIDE DEF t
  <2>7. WriteReady(t, "wr_dn", off)
    <3>1. ASSUME Free(t), ~t.seen.nested
          PROVE  Stored(t.ecu.mem, off - 1) /\ t.ecu.queue = <<>> /\ t.ecu.mta = off
      <4>1. Free(s) /\ ~s.seen.nested
        BY <3>1, <2>3, <2>6 DEF Free
      <4>2. CASE cmd = "wr_mta"
        <5>1. s.ccp.writeOff = 0 /\ s.ecu.queue = <<>> /\ s.ecu.mta = 1
          BY <4>1, <4>2, <1>3 DEF PendWrite
        <5>2. off = 1 /\ Stored(s.ecu.mem, 0)
          BY <5>1, <2>2 DEF Stored
        <5> QED BY <5>1, <5>2, <2>2, <2>6
      <4>3. CASE cmd = "wr_dn"
        BY <4>1, <4>3, <1>3, <2>2, <2>6 DEF PendWrite
      <4> QED BY <4>2, <4>3 DEF WriteCommands
    <3> QED BY <3>1, <2>2, <2>3, <2>6 DEF WriteReady
  <2>8. "wr_dn" \in Commands /\ ReadReady(t, "wr_dn") /\ DaqReady(t, "wr_dn")
    BY SetupFacts DEF ReadReady, DaqReady, MemoryCommands, SetupCommands, Teardowns
  <2> QED BY <2>1, <2>2, <2>6, <2>7, <2>8, SendInv
<1> QED BY <1>1, <1>2, <1>3

(* The last command of the setup completes it.                             *)
LEMMA StartIsLast ==
  ASSUME NEW d, SettingUp(d, "dq_start")
  PROVE  SubSeq(Setup, 1, d.step) = Setup
<1>1. d.step \in 1..(Layout + 4) /\ Setup[d.step] = "dq_start" /\ Layout \in Nat
  BY SetupFacts, CcpConstants DEF SettingUp
<1>2. d.step \in 1..(Layout + 3) => FALSE
  BY <1>1, SetupFacts
<1>3. d.step = Len(Setup)
  BY <1>1, <1>2, SetupFacts
<1> QED BY <1>3, SetupFacts, SubSeqFull

(* The continuation of every command, after whatever the automation did.   *)
LEMMA ContinueInv ==
  ASSUME NEW s, CcpInv(s), NEW ok \in BOOLEAN, NEW data \in Nat, NEW cmd \in Commands,
         Pending(s, cmd, ok, data), NEW u \in Continue(s, cmd, ok, data)
  PROVE  CcpInv(u)
<1>0. /\ PendMemory(s, cmd) /\ PendRead(s, cmd, ok, data) /\ PendWrite(s, cmd, ok) /\ PendDaq(s, cmd)
      /\ cmd \in {"user"} \cup MemoryCommands \cup DaqCommands
  BY SetupFacts DEF Pending
<1>1. CASE cmd = "user"
  BY <1>1 DEF Continue
<1>2. CASE cmd = "rd_mta" /\ ~ok
  <2>1. u = FailSequence(s)
    BY <1>2 DEF Continue
  <2>2. s.seen.nested \/ s.ccp.flight.cmd \notin MemoryCommands
    BY <1>0, <1>2 DEF PendMemory, MemoryCommands
  <2> QED BY <2>1, <2>2, FailSequenceInv
<1>3. CASE cmd = "rd_mta" /\ ok
  <2>1. u \in ReadSends(s)
    BY <1>3 DEF Continue
  <2>2. ReadReady(s, "rd_up")
    <3>1. ReadChunks - ReadChunks + 1 = 1 /\ ReadChunks # 0
      BY CcpConstants
    <3> QED BY <3>1, <1>0, <1>3 DEF PendRead, ReadReady
  <2> QED BY <2>1, <2>2, ReadSendsInv
<1>4. CASE cmd = "rd_up"
  <2>1. u \in ContinueRead(s, ok, data)
    BY <1>4 DEF Continue
  <2> QED BY <2>1, <1>0, <1>4, ContinueReadInv
<1>5. CASE cmd \in WriteCommands
  <2>1. u \in ContinueWrite(s, ok)
    BY <1>5 DEF Continue, WriteCommands
  <2> QED BY <2>1, <1>0, <1>5, ContinueWriteInv
<1>6. CASE cmd \in DaqCommands
  <2>0. s.ccp.flight.cmd \notin DaqCommands /\ s.daq.active /\ s.daq \in Daqs
        /\ CcpQuiet(s) /\ Len(Setup) = Layout + 4 /\ Layout \in Nat \ {0}
    BY <1>0, <1>6, InvQuiet, WorldFacts, SetupFacts, CcpConstants
       DEF PendDaq, DaqCommands, SettingUp, TakingDown
  <2>1. CASE cmd \in Teardowns
    <3>1. TakingDown(s.daq)
      BY <2>1, <1>0 DEF PendDaq
    <3>2. CASE cmd = "dq_stop"
      <4>1. u \in ClearStatus(s)
        BY <3>2 DEF Continue
      <4> QED BY <4>1, <3>1, <2>0, ClearStatusInv
    <3>3. CASE cmd = "dq_off"
      <4>1. u = Fire(s)
        BY <3>3 DEF Continue
      <4> QED BY <4>1, <3>1, <2>0, FireInv
    <3> QED BY <3>2, <3>3, <2>1 DEF Teardowns
  <2>2. CASE cmd \in SetupCommands /\ ~ok
    <3>1. u \in Complete(s, TRUE)
      BY <2>2 DEF Continue, SetupCommands
    <3> QED BY <3>1, <2>0, GiveUpInv
  <2>3. CASE cmd \in SetupCommands \ {"dq_start"} /\ ok
    <3> DEFINE n == s.daq.step + 1
    <3>1. u \in Step(s, n)
      BY <2>3 DEF Continue, SetupCommands
    <3>2. SettingUp(s.daq, cmd) /\ (Free(s) => s.daq.sent = SubSeq(Setup, 1, s.daq.step))
      BY <2>3, <1>0 DEF PendDaq
    <3>3. s.daq.step \in 1..(Layout + 4) /\ Setup[s.daq.step] # "dq_start"
      BY <2>0, <2>3, <3>2 DEF SettingUp
    <3>4. s.daq.step # Layout + 4
      BY <3>3, SetupFacts
    <3>5. n \in 1..Len(Setup) /\ n - 1 = s.daq.step
      BY <3>3, <3>4, <2>0
    <3> HIDE DEF n
    <3> QED BY <3>1, <3>2, <3>5, <2>0, StepInv DEF SettingUp
  <2>4. CASE cmd = "dq_start" /\ ok
    <3> DEFINE d == [s.daq EXCEPT !.collecting = TRUE, !.timer = CollectTicks]
               t == [s EXCEPT !.daq = d]
    <3>1. u = t
      BY <2>0, <2>4, WorldFacts DEF Continue, Worlds
    <3>2. SettingUp(s.daq, cmd) /\ s.daq.sent = SubSeq(Setup, 1, s.daq.step)
      BY <2>4, <1>0 DEF PendDaq, SetupCommands
    <3>5. s.daq.sent = Setup
      BY <2>4, <3>2, StartIsLast
    <3>6. CollectTicks \in CollectTimes /\ 0 < Samples
      BY CcpConstants DEF CollectTimes
    <3>7. /\ d \in Daqs /\ d.sent = s.daq.sent /\ d.active /\ ~d.failed /\ d.frames = 0
      BY <2>0, <3>2, <3>6 DEF Daqs, SettingUp
    <3> HIDE DEF d
    <3>8. CcpQuiet(t) /\ t.daq = d
      BY <2>0, <3>7, WithDaqQuiet DEF CcpQuiet
    <3> HIDE DEF t
    <3> QED BY <3>1, <3>5, <3>6, <3>7, <3>8, QuietInv
  <2> QED BY <2>1, <2>2, <2>3, <2>4, <1>6 DEF DaqCommands
<1> QED BY <1>0, <1>1, <1>2, <1>3, <1>4, <1>5, <1>6 DEF MemoryCommands, WriteCommands

-----------------------------------------------------------------------------
(* The automation's calls.  A command it sends leaves what is pending as   *)
(* it is, apart from a memory sequence begun inside another.               *)
Outside(s, c) == c \in MemoryCommands => s.seen.nested

(* A frame the automation has sent leaves what is pending.                 *)
LEMMA OfferedPends ==
  ASSUME NEW s, CcpInv(s), NEW t, NEW cmd, NEW sent \in BOOLEAN, Offered(s, t, cmd, 0, sent), Free(s),
         NEW c \in Commands, NEW ok, NEW data, Pending(s, c, ok, data),
         cmd \in {"user", "dq_size", "rd_mta", "wr_mta"},
         cmd \in MemoryCommands => Outside(s, c),
         cmd = "dq_size" => c \notin DaqCommands,
         cmd = "wr_mta" => s.ccp.writeOff < s.ccp.writeSize
  PROVE  Pending(t, c, ok, data)
<1>0. /\ PendMemory(s, c) /\ PendRead(s, c, ok, data) /\ PendWrite(s, c, ok) /\ PendDaq(s, c)
  BY DEF Pending
<1>1. CASE ~sent
  <2>1. /\ t.ccp.flight = s.ccp.flight /\ t.daq = s.daq /\ t.seen = s.seen
        /\ SameMaster(t.ccp, s.ccp) /\ t.ecu.mta = s.ecu.mta /\ t.ecu.mem = s.ecu.mem
        /\ s.ecu.queue = <<>> => t.ecu.queue = <<>>
    BY <1>1 DEF Offered
  <2>2. PendMemory(t, c) /\ PendRead(t, c, ok, data) /\ PendWrite(t, c, ok) /\ PendDaq(t, c)
    BY <1>0, <2>1 DEF PendMemory, PendRead, PendWrite, PendDaq, SameMaster, Free
  <2> QED BY <2>2 DEF Pending
<1>2. CASE sent
  <2>1. /\ t.ccp.flight.cmd = cmd /\ t.daq.sent = Logged(s.daq, cmd) /\ t.seen = s.seen
        /\ SameMaster(t.ccp, s.ccp) /\ SameDaq(t.daq, s.daq) /\ t.ecu.mem = s.ecu.mem
        /\ t.daq.sent = s.daq.sent => t.daq = s.daq
    BY <1>2 DEF Offered
  <2>2. ~Free(t)
    BY <2>1 DEF Free, NoFlight
  <2>3. PendMemory(t, c)
    BY <1>0, <2>1 DEF PendMemory, Outside, MemoryCommands
  <2>4. PendRead(t, c, ok, data)
    BY <1>0, <2>1, <2>2 DEF PendRead, SameMaster
  <2>5. PendWrite(t, c, ok)
    <3>1. cmd \in WriteCommands => s.ccp.writeOff < s.ccp.writeSize
      BY DEF WriteCommands
    <3> QED BY <1>0, <2>1, <2>2, <3>1 DEF PendWrite, SameMaster
  <2>6. PendDaq(t, c)
    <3>1. ASSUME c \in DaqCommands PROVE cmd \notin DaqCommands
      BY <3>1 DEF DaqCommands, SetupCommands, Teardowns
    <3>2. ASSUME s.daq.sent = Setup PROVE t.daq = s.daq
      BY <2>1, <3>2, SetupFacts, LenProperties DEF Logged
    <3>3. ASSUME c \in SetupCommands
          PROVE  SettingUp(t.daq, c) /\ (c = "dq_start" => t.daq.sent = SubSeq(Setup, 1, t.daq.step))
      <4>1. SettingUp(s.daq, c) /\ (c = "dq_start" => s.daq.sent = SubSeq(Setup, 1, s.daq.step))
        BY <3>3, <1>0 DEF PendDaq
      <4>2. SettingUp(t.daq, c)
        BY <4>1, <2>1 DEF SettingUp, SameDaq
      <4>3. c = "dq_start" => s.daq.sent = Setup
        BY <4>1, StartIsLast
      <4> QED BY <4>1, <4>2, <4>3, <3>2
    <3>4. ASSUME c \in Teardowns PROVE TakingDown(t.daq)
      <4>1. TakingDown(s.daq)
        BY <3>4, <1>0 DEF PendDaq
      <4>2. Good(s.daq) => t.daq = s.daq
        BY <3>2 DEF Good
      <4> QED BY <4>1, <4>2, <2>1 DEF TakingDown, SameDaq
    <3> QED BY <2>1, <2>2, <3>1, <3>3, <3>4 DEF PendDaq
  <2> QED BY <2>3, <2>4, <2>5, <2>6 DEF Pending
<1> QED BY <1>1, <1>2

Passed(s, t, c, ok, data) == Free(s) /\ Pending(s, c, ok, data) => Pending(t, c, ok, data)

(* Any other command.                                                      *)
LEMMA CallUser ==
  ASSUME NEW s, CcpInv(s), NEW t \in Sent(s, "user", 0),
         NEW c \in Commands, NEW ok \in BOOLEAN, NEW data \in Nat
  PROVE  CcpInv(t) /\ Passed(s, t, c, ok, data)
<1>1. PICK r \in Send(s, "user", 0) : t = r.to
  BY DEF Sent
<1>2. "user" \in Commands /\ ReadReady(s, "user") /\ WriteReady(s, "user", 0) /\ DaqReady(s, "user")
  BY SetupFacts DEF ReadReady, WriteReady, DaqReady, WriteCommands, SetupCommands, Teardowns
<1>3. CcpInv(r.to) /\ Offered(s, r.to, "user", 0, r.sent) /\ r.sent \in BOOLEAN
  BY <1>2, SendInv, ZeroArg
<1>4. "user" \notin MemoryCommands
  BY DEF MemoryCommands
<1> QED BY <1>1, <1>3, <1>4, OfferedPends DEF Passed

(* read_memory().                                                          *)
LEMMA CallRead ==
  ASSUME NEW s, CcpInv(s), NEW t \in ReadMemory(s),
         NEW c \in Commands, NEW ok \in BOOLEAN, NEW data \in Nat
  PROVE  CcpInv(t) /\ (Outside(s, c) => Passed(s, t, c, ok, data))
<1>1. CASE ~Free(s) \/ s.ccp.readLeft # 0
  BY <1>1 DEF ReadMemory, Passed
<1>2. CASE Free(s) /\ s.ccp.readLeft = 0
  <2> DEFINE m == [s.ccp EXCEPT !.readLeft = ReadChunks, !.readData = <<>>, !.wanted = TRUE]
             v == [s.seen EXCEPT !.read = <<>>]
             w == [s EXCEPT !.seen = v]
             b == [w EXCEPT !.ccp = m]
  <2>0. s.ccp.flight.cmd = "none"
    BY <1>2 DEF Free, NoFlight
  <2>1. PICK r \in Send(b, "rd_mta", 0) : t = [r.to EXCEPT !.seen.stuck = ~r.sent]
    <3>1. [s EXCEPT !.ccp.readLeft = ReadChunks, !.ccp.readData = <<>>, !.ccp.wanted = TRUE,
                    !.seen.read = <<>>] = b
      BY WorldFacts DEF Worlds
    <3> QED BY <3>1, <1>2 DEF ReadMemory
  <2>2. ReadChunks \in Ups /\ <<>> \in Seq(Nat) /\ ReadChunks + 0 <= ReadChunks /\ ReadChunks - ReadChunks = 0
    BY CcpConstants DEF Ups
  <2>3. /\ v \in Views /\ v.ok = s.seen.ok /\ v.result = s.seen.result /\ v.age = s.seen.age
        /\ v.read = <<>> /\ v.write = s.seen.write /\ v.nested = s.seen.nested
    BY <2>2, WorldFacts DEF Views
  <2> HIDE DEF v
  <2>4. CcpInv(w) /\ w.ccp = s.ccp /\ w.ecu = s.ecu /\ w.seen = v /\ w.daq = s.daq
    <3>1. Reading(s.ccp, s.ecu, v) /\ Writing(s.ccp, s.ecu, v) /\ v.age = 0
      BY <2>3 DEF CcpInv, Reading, Writing
    <3> QED BY <2>3, <3>1, WithSeen
  <2>5. /\ m \in Masters /\ m.ctr = s.ccp.ctr /\ m.flight = s.ccp.flight
        /\ m.readLeft = ReadChunks /\ m.readData = <<>>
        /\ m.writeSize = s.ccp.writeSize /\ m.writeOff = s.ccp.writeOff
    BY <2>2, WorldFacts DEF Masters
  <2> HIDE DEF m, w
  <2>6. Reading(m, w.ecu, w.seen)
    <3>1. UpTo(0) = <<>> /\ Len(<<>>) = 0
      BY DEF UpTo
    <3> QED BY <2>0, <2>2, <2>3, <2>4, <2>5, <3>1 DEF Reading
  <2>7. Writing(m, w.ecu, w.seen)
    BY <2>4, <2>5 DEF CcpInv, Writing
  <2>8. CcpInv(b) /\ b.ccp = m /\ b.ecu = s.ecu /\ b.seen = v /\ b.daq = s.daq
    BY <2>4, <2>5, <2>6, <2>7, WithMaster
  <2> HIDE DEF b
  <2>9. "rd_mta" \in Commands /\ ReadReady(b, "rd_mta") /\ WriteReady(b, "rd_mta", 0) /\ DaqReady(b, "rd_mta")
    BY <2>5, <2>8, SetupFacts
       DEF ReadReady, WriteReady, DaqReady, MemoryCommands, WriteCommands, SetupCommands, Teardowns
  <2>10. CcpInv(r.to) /\ Offered(b, r.to, "rd_mta", 0, r.sent) /\ r.sent \in BOOLEAN
    BY <2>8, <2>9, SendInv, ZeroArg
  <2>11. PICK x \in BOOLEAN : x = ~r.sent
    BY <2>10
  <2>12. /\ CcpInv(t) /\ t.ccp = r.to.ccp /\ t.ecu = r.to.ecu /\ t.daq = r.to.daq
         /\ t.seen.nested = r.to.seen.nested
    <3>1. t = [r.to EXCEPT !.seen.stuck = x]
      BY <2>1, <2>11
    <3> QED BY <3>1, <2>10, StuckInv
  <2>13. ASSUME Outside(s, c), Pending(s, c, ok, data) PROVE Pending(t, c, ok, data)
    <3>1. Pending(b, c, ok, data) /\ Outside(b, c) /\ Free(b)
      BY <2>13, <2>3, <2>5, <2>8, <1>2
         DEF Pending, PendMemory, PendRead, PendWrite, PendDaq, Outside, MemoryCommands, Free
    <3>2. Pending(r.to, c, ok, data)
      BY <3>1, <2>8, <2>10, OfferedPends
    <3> QED BY <3>2, <2>12 DEF Pending, PendMemory, PendRead, PendWrite, PendDaq, Free
  <2> QED BY <2>12, <2>13 DEF Passed
<1> QED BY <1>1, <1>2

(* write_memory().                                                         *)
LEMMA CallWrite ==
  ASSUME NEW s, CcpInv(s), NEW t \in WriteMemory(s),
         NEW c \in Commands, NEW ok \in BOOLEAN, NEW data \in Nat
  PROVE  CcpInv(t) /\ (Outside(s, c) => Passed(s, t, c, ok, data))
<1>1. CASE ~Free(s)
  BY <1>1 DEF WriteMemory, Passed
<1>2. CASE Free(s)
  <2> DEFINE m == [s.ccp EXCEPT !.writeSize = WriteChunks, !.writeOff = 0, !.reporting = TRUE]
             v == [s.seen EXCEPT !.write = FALSE]
             e == [s.ecu EXCEPT !.mem = <<>>]
             b == [s EXCEPT !.ccp = m, !.ecu = e, !.seen = v]
  <2>0. s.ccp.flight.cmd = "none"
    BY <1>2 DEF Free, NoFlight
  <2>1. PICK r \in Send(b, "wr_mta", 0) : t = r.to
    <3>1. [s EXCEPT !.ccp.writeSize = WriteChunks, !.ccp.writeOff = 0, !.ccp.reporting = TRUE,
                    !.seen.write = FALSE, !.ecu.mem = <<>>] = b
      BY WorldFacts DEF Worlds
    <3> QED BY <3>1, <1>2 DEF WriteMemory, Sent
  <2>2. /\ WriteChunks \in Sizes /\ 0 \in Args /\ <<>> \in Seq(Chunks)
        /\ 0 < WriteChunks /\ 0 <= WriteChunks
    BY CcpConstants DEF Sizes, Args
  <2>3. /\ v \in Views /\ v.ok = s.seen.ok /\ v.result = s.seen.result /\ v.age = s.seen.age
        /\ v.read = s.seen.read /\ v.write = FALSE /\ v.nested = s.seen.nested
    BY WorldFacts DEF Views
  <2>4. e \in Ecus /\ e.queue = s.ecu.queue /\ e.mta = s.ecu.mta
    BY <2>2, WorldFacts DEF Ecus
  <2>5. /\ m \in Masters /\ m.ctr = s.ccp.ctr /\ m.flight = s.ccp.flight
        /\ m.readLeft = s.ccp.readLeft /\ m.readData = s.ccp.readData
        /\ m.writeSize = WriteChunks /\ m.writeOff = 0
    BY <2>2, WorldFacts DEF Masters
  <2> HIDE DEF m, v, e
  <2>6. b \in Worlds /\ b.ccp = m /\ b.ecu = e /\ b.seen = v /\ b.daq = s.daq
    <3>1. s \in Worlds
      BY WorldFacts
    <3> QED BY <3>1, <2>3, <2>4, <2>5 DEF Worlds
  <2> HIDE DEF b
  <2>7. CcpInv(b)
    <3>1. Numbered(b.ccp, b.ecu)
      BY <2>4, <2>5, <2>6 DEF CcpInv, Numbered
    <3>2. Reading(b.ccp, b.ecu, b.seen)
      BY <2>0, <2>3, <2>5, <2>6 DEF CcpInv, Reading
    <3>3. Writing(b.ccp, b.ecu, b.seen)
      BY <2>0, <2>3, <2>5, <2>6 DEF Writing, WriteCommands
    <3>4. Sampling(b.ccp, b.daq, b.seen)
      BY <2>3, <2>5, <2>6 DEF CcpInv, Sampling
    <3> QED BY <2>3, <2>6, <3>1, <3>2, <3>3, <3>4 DEF CcpInv
  <2>8. "wr_mta" \in Commands /\ ReadReady(b, "wr_mta") /\ WriteReady(b, "wr_mta", 0) /\ DaqReady(b, "wr_mta")
    BY <2>2, <2>5, <2>6, SetupFacts
       DEF ReadReady, WriteReady, DaqReady, MemoryCommands, WriteCommands, SetupCommands, Teardowns
  <2>9. CcpInv(r.to) /\ Offered(b, r.to, "wr_mta", 0, r.sent) /\ r.sent \in BOOLEAN
    BY <2>7, <2>8, SendInv, ZeroArg
  <2>10. ASSUME Outside(s, c), Pending(s, c, ok, data) PROVE Pending(t, c, ok, data)
    <3>1. Pending(b, c, ok, data) /\ Outside(b, c) /\ Free(b)
      <4>1. PendMemory(b, c) /\ PendRead(b, c, ok, data) /\ PendDaq(b, c) /\ Outside(b, c) /\ Free(b)
        BY <2>10, <2>3, <2>4, <2>5, <2>6, <1>2
           DEF Pending, PendMemory, PendRead, PendDaq, Outside, Free
      <4>2. PendWrite(b, c, ok)
        BY <2>0, <2>2, <2>3, <2>5, <2>6, <2>10 DEF PendWrite, WriteCommands, Outside, MemoryCommands
      <4> QED BY <4>1, <4>2 DEF Pending
    <3> QED BY <3>1, <2>1, <2>2, <2>5, <2>6, <2>7, <2>9, OfferedPends
  <2> QED BY <2>1, <2>9, <2>10 DEF Passed
<1> QED BY <1>1, <1>2

(* daq_read().                                                             *)
LEMMA CallDaq ==
  ASSUME NEW s, CcpInv(s), NEW t \in DaqRead(s),
         NEW c \in Commands, NEW ok \in BOOLEAN, NEW data \in Nat
  PROVE  CcpInv(t) /\ Passed(s, t, c, ok, data)
<1>1. CASE ~Free(s) \/ s.daq.active
  BY <1>1 DEF DaqRead, Passed
<1>2. CASE Free(s) /\ ~s.daq.active
  <2> DEFINE d == [NoDaq EXCEPT !.active = TRUE, !.step = 1]
             b == [s EXCEPT !.daq = d]
  <2>0. s.ccp.flight.cmd = "none" /\ s \in Worlds
    BY <1>2, WorldFacts DEF Free, NoFlight
  <2>1. PICK r \in Send(b, "dq_size", 0) : t = IF r.sent THEN r.to ELSE [r.to EXCEPT !.daq = NoDaq]
    BY <1>2 DEF DaqRead
  <2>2. 1 \in Steps /\ 1 \in 1..Len(Setup) /\ Setup[1] = "dq_size" /\ "dq_size" \in Commands
        /\ SubSeq(Setup, 1, 1 - 1) = <<>>
    <3>1. Len(Setup) \in Nat /\ 1 <= Len(Setup)
      BY SetupFacts, CcpConstants
    <3> QED BY <3>1, SetupFacts, SubSeqEmpty DEF Steps
  <2>3. /\ d \in Daqs /\ d.active /\ ~d.collecting /\ d.sent = <<>> /\ d.step = 1
        /\ d.frames = 0 /\ ~d.failed /\ Len(d.sent) <= Len(Setup)
    <3>1. d \in Daqs /\ d.active /\ d.step = 1 /\ d.sent = NoDaq.sent /\ d.collecting = NoDaq.collecting
          /\ d.frames = NoDaq.frames /\ d.failed = NoDaq.failed
      BY <2>2, NoDaqFacts DEF Daqs
    <3>2. 0 <= Len(Setup)
      BY SetupFacts, CcpConstants
    <3> QED BY <3>1, <3>2, NoDaqFacts
  <2> HIDE DEF d
  <2>4. s.ccp.flight.cmd \notin DaqCommands
    BY <2>0 DEF DaqCommands, SetupCommands, Teardowns
  <2>5. CcpQuiet(b) /\ b.daq = d
    BY <2>3, <2>4, InvQuiet, WithDaqQuiet
  <2>6. b.ccp = s.ccp /\ b.ecu = s.ecu /\ b.seen = s.seen
    BY <2>0, <2>3, WithDaq
  <2> HIDE DEF b
  <2>7. CcpInv(b)
    BY <2>3, <2>5, QuietInv
  <2>8. ReadReady(b, "dq_size") /\ WriteReady(b, "dq_size", 0) /\ DaqReady(b, "dq_size")
    BY <2>2, <2>3, <2>5 DEF ReadReady, WriteReady, DaqReady, WriteCommands, SetupCommands, Teardowns, SettingUp
  <2>9. CcpInv(r.to) /\ Offered(b, r.to, "dq_size", 0, r.sent) /\ r.sent \in BOOLEAN
    BY <2>2, <2>7, <2>8, SendInv, ZeroArg
  <2>10. ASSUME Pending(s, c, ok, data) PROVE Pending(r.to, c, ok, data) /\ c \notin DaqCommands
    <3>1. c \notin DaqCommands
      BY <2>10, <1>2 DEF Pending, PendDaq, SettingUp, TakingDown, DaqCommands
    <3>2. Pending(b, c, ok, data) /\ Free(b)
      BY <2>10, <2>6, <1>2, <3>1 DEF Pending, PendMemory, PendRead, PendWrite, PendDaq, Free, DaqCommands
    <3>3. "dq_size" \notin MemoryCommands
      BY DEF MemoryCommands
    <3> QED BY <3>1, <3>2, <3>3, <2>7, <2>9, OfferedPends
  <2>11. CASE r.sent
    BY <2>1, <2>9, <2>10, <2>11 DEF Passed
  <2>12. CASE ~r.sent
    <3> DEFINE w == [r.to EXCEPT !.daq = NoDaq]
    <3>1. t = w /\ r.to \in Worlds /\ r.to.ccp.flight.cmd \notin DaqCommands
      BY <2>1, <2>4, <2>6, <2>9, <2>12 DEF Offered
    <3>2. Len(NoDaq.sent) <= Len(Setup)
      BY NoDaqFacts, SetupFacts, CcpConstants
    <3>3. CcpQuiet(w) /\ w.daq = NoDaq
      BY <2>9, <3>1, <3>2, NoDaqFacts, InvQuiet, WithDaqQuiet
    <3>4. w.ccp = r.to.ccp /\ w.ecu = r.to.ecu /\ w.seen = r.to.seen
      BY <3>1, NoDaqFacts, WithDaq
    <3> HIDE DEF w
    <3>5. CcpInv(w)
      BY <3>3, NoDaqFacts, QuietInv
    <3>6. Pending(s, c, ok, data) => Pending(w, c, ok, data)
      BY <2>10, <3>4 DEF Pending, PendMemory, PendRead, PendWrite, PendDaq, Free, DaqCommands
    <3> QED BY <3>1, <3>5, <3>6 DEF Passed
  <2> QED BY <2>9, <2>11, <2>12
<1> QED BY <1>1, <1>2

Automations == UserCalls \cup {"none"}

(* Every call of an automation keeps the invariant and what is pending.    *)
LEMMA CallInv ==
  ASSUME NEW s, CcpInv(s), NEW what \in Automations, NEW t \in Call(s, what),
         NEW c \in Commands, NEW ok \in BOOLEAN, NEW data \in Nat
  PROVE  /\ CcpInv(t)
         /\ (what \in {"read", "write"} => Outside(s, c)) => Passed(s, t, c, ok, data)
<1>1. CASE what = "none"
  BY <1>1 DEF Call, Passed
<1>2. CASE what = "user"
  BY <1>2, CallUser DEF Call
<1>3. CASE what = "read"
  BY <1>3, CallRead DEF Call
<1>4. CASE what = "write"
  BY <1>4, CallWrite DEF Call
<1>5. CASE what = "daq"
  BY <1>5, CallDaq DEF Call
<1> QED BY <1>1, <1>2, <1>3, <1>4, <1>5 DEF Automations, UserCalls

-----------------------------------------------------------------------------
(* The invariant of the state.                                             *)
CcpHolds == CcpInv(Now)

(* The state as one value has the variables as its parts.                  *)
LEMMA NowFacts ==
  ASSUME CcpHolds
  PROVE  /\ CcpInv(Now) /\ Now \in Worlds
         /\ Now.ccp = ccp /\ Now.ecu = ecu /\ Now.daq = daq /\ Now.seen = seen
BY DEF CcpHolds, Now, CcpInv

(* A step to a state with the invariant.                                   *)
LEMMA Become ==
  ASSUME NEW t, CcpInv(t), Becomes(t)
  PROVE  CcpHolds'
<1>1. t \in Worlds
  BY DEF CcpInv
<1>2. t = [ccp |-> t.ccp, ecu |-> t.ecu, daq |-> t.daq, seen |-> t.seen]
  BY <1>1 DEF Worlds
<1>3. Now' = t
  BY <1>2 DEF Now, Becomes
<1> QED BY <1>3 DEF CcpHolds

(* The hub starts with the invariant.                                      *)
LEMMA InitCcp == CcpInit => CcpHolds
<1> SUFFICES ASSUME CcpInit PROVE CcpHolds
  OBVIOUS
<1>1. /\ 0 \in Counters /\ 0 \in Ups /\ 0 \in Sizes /\ 0 \in Args /\ <<>> \in Seq(Nat)
      /\ <<>> \in Seq(Entries) /\ <<>> \in Seq(Chunks) /\ 0 \in Nat /\ NoFlight \in Flying
      /\ 0 <= EcuBound /\ 0 <= ReadChunks /\ 0 <= Len(Setup)
  BY CcpConstants, SetupFacts DEF Counters, Ups, Sizes, Args, Flying
<1>2. ccp \in Masters
  BY <1>1 DEF CcpInit, Masters
<1>3. ecu \in Ecus
  BY <1>1 DEF CcpInit, Ecus, Elsewhere
<1>4. seen \in Views /\ daq \in Daqs
  BY <1>1, NoDaqFacts DEF CcpInit, Views
<1>5. Now \in Worlds /\ Now.ccp = ccp /\ Now.ecu = ecu /\ Now.daq = daq /\ Now.seen = seen
  BY <1>2, <1>3, <1>4 DEF Now, Worlds
<1>6. Numbered(ccp, ecu)
  BY <1>1 DEF CcpInit, Numbered, Falling, Dated
<1>7. Reading(ccp, ecu, seen) /\ Writing(ccp, ecu, seen)
  BY <1>1 DEF CcpInit, Reading, Writing, NoFlight, WriteCommands
<1>8. Sampling(ccp, daq, seen)
  BY <1>1, NoDaqFacts DEF CcpInit, Sampling, NoFlight, SetupCommands, Teardowns
<1> QED BY <1>5, <1>6, <1>7, <1>8 DEF CcpHolds, CcpInv, CcpInit

(* The slot is free: the automation runs, then the continuation.           *)
LEMMA ThenContinues ==
  ASSUME NEW f, CcpInv(f), Free(f), NEW what \in Automations, NEW c \in Commands,
         NEW ok \in BOOLEAN, NEW data \in Nat, Pending(f, c, ok, data),
         what \in {"read", "write"} => Outside(f, c),
         NEW t \in Call(f, what), NEW u \in Continue(t, c, ok, data)
  PROVE  CcpInv(u)
<1>1. CcpInv(t) /\ Passed(f, t, c, ok, data)
  BY CallInv
<1> QED BY <1>1, ContinueInv DEF Passed

(* What the completed command says of the ECU; a failed one says nothing.  *)
Answered(s, ok, data) ==
  LET c == s.ccp.flight.cmd
  IN  ok /\ ~s.seen.nested =>
        /\ s.ecu.queue = <<>>
        /\ c \in {"rd_mta", "wr_mta"} => s.ecu.mta = 1
        /\ c = "rd_up" => data = ReadChunks - s.ccp.readLeft + 1 /\ s.ecu.mta = data + 1
        /\ c = "wr_dn" => s.ecu.mta = s.ccp.writeOff + 1 /\ Stored(s.ecu.mem, s.ccp.writeOff)

(* finish_() on a slot in flight.                                          *)
LEMMA FinishedInv ==
  ASSUME NEW s, CcpInv(s), ~Free(s), NEW what \in Automations, NEW ok \in BOOLEAN, NEW data \in Nat,
         Answered(s, ok, data), NEW u \in Finished(s, what, ok, data)
  PROVE  CcpInv(u)
<1> DEFINE c == s.ccp.flight.cmd
           nested == s.seen.nested \/ (what \in {"read", "write"} /\ c \in MemoryCommands)
           m == [s.ccp EXCEPT !.flight = NoFlight]
           v == [s.seen EXCEPT !.nested = nested]
           f == [s EXCEPT !.ccp = m, !.seen = v]
<1>1. PICK t \in Call(f, what) : u \in Continue(t, c, ok, data)
  BY WorldFacts DEF Finished, Worlds
<1>2. c \in Commands /\ s \in Worlds
  BY CommandKinds, WorldFacts DEF Free
<1>3. nested \in BOOLEAN /\ (~nested => ~s.seen.nested)
      /\ (what \in {"read", "write"} /\ c \in MemoryCommands => nested)
  BY WorldFacts
<1> HIDE DEF nested
<1>4. /\ v \in Views /\ v.ok = s.seen.ok /\ v.result = s.seen.result /\ v.age = s.seen.age
      /\ v.read = s.seen.read /\ v.write = s.seen.write /\ v.nested = nested
  BY <1>3, WorldFacts DEF Views
<1>5. /\ m \in Masters /\ m.ctr = s.ccp.ctr /\ m.flight = NoFlight
      /\ m.readLeft = s.ccp.readLeft /\ m.readData = s.ccp.readData
      /\ m.writeSize = s.ccp.writeSize /\ m.writeOff = s.ccp.writeOff
  <2>1. NoFlight \in Flying
    BY DEF Flying
  <2> QED BY <2>1, WorldFacts DEF Masters
<1> HIDE DEF m, v
<1>6. f \in Worlds /\ f.ccp = m /\ f.seen = v /\ f.ecu = s.ecu /\ f.daq = s.daq
  BY <1>2, <1>4, <1>5 DEF Worlds
<1> HIDE DEF f
<1>a. NoFlight.cmd = "none"
  BY DEF NoFlight
<1>7. CcpInv(f)
  <2>1. Numbered(f.ccp, f.ecu)
    BY <1>5, <1>6 DEF CcpInv, Numbered
  <2>2. Reading(f.ccp, f.ecu, f.seen)
    BY <1>3, <1>4, <1>5, <1>6, <1>a DEF CcpInv, Reading
  <2>3. Writing(f.ccp, f.ecu, f.seen)
    BY <1>3, <1>4, <1>5, <1>6, <1>a DEF CcpInv, Writing, WriteCommands
  <2>4. Sampling(f.ccp, f.daq, f.seen)
    BY <1>4, <1>5, <1>6, <1>a DEF CcpInv, Sampling, SetupCommands, Teardowns
  <2> QED BY <1>4, <1>6, <2>1, <2>2, <2>3, <2>4 DEF CcpInv
<1>8. Free(f) /\ f.ccp.flight.cmd = "none"
  BY <1>5, <1>6, <1>a DEF Free
<1>9. Pending(f, c, ok, data)
  <2>0. /\ Reading(s.ccp, s.ecu, s.seen) /\ Writing(s.ccp, s.ecu, s.seen)
        /\ Sampling(s.ccp, s.daq, s.seen)
    BY DEF CcpInv
  <2>1. PendMemory(f, c)
    BY <1>8 DEF PendMemory, MemoryCommands
  <2>2. PendRead(f, c, ok, data)
    BY <1>3, <1>4, <1>5, <1>6, <2>0 DEF PendRead, Reading, Answered
  <2>3. PendWrite(f, c, ok)
    BY <1>3, <1>4, <1>5, <1>6, <1>8, <2>0 DEF PendWrite, Writing, WriteCommands, Answered
  <2>4. PendDaq(f, c)
    BY <1>6, <1>8, <2>0 DEF PendDaq, Sampling, DaqCommands, SetupCommands, Teardowns
  <2> QED BY <2>1, <2>2, <2>3, <2>4 DEF Pending
<1>10. what \in {"read", "write"} => Outside(f, c)
  BY <1>3, <1>4, <1>6 DEF Outside
<1> HIDE DEF c
<1> QED BY <1>1, <1>2, <1>7, <1>8, <1>9, <1>10, ThenContinues

(* What executing a command changes.                                       *)
Performs(e, x) ==
  /\ e \in Entries /\ e = ecu.queue[1] /\ 1 \in 1..Len(ecu.queue)
  /\ x \in Ecus /\ x.queue = Tail(ecu.queue)
  /\ Len(x.queue) = Len(ecu.queue) - 1 /\ Len(ecu.queue) \in Nat
  /\ \A i \in 1..Len(x.queue) : i + 1 \in 1..Len(ecu.queue) /\ x.queue[i] = ecu.queue[i + 1]
  /\ e.cmd \in {"rd_mta", "wr_mta"} => x.mta = 1
  /\ e.cmd \in {"rd_up", "wr_dn"} /\ ecu.mta # 0 => x.mta = ecu.mta + 1
  /\ IF e.cmd = "wr_dn" /\ ecu.mta # 0
       THEN x.mem = Append(ecu.mem, <<ecu.mta, e.arg>>) ELSE x.mem = ecu.mem

(* The ECU takes its oldest command and moves its pointer and its memory   *)
(* as the command says.                                                    *)
LEMMA ExecutedFacts ==
  ASSUME CcpHolds, ecu.queue # <<>>
  PROVE  Performs(Head(ecu.queue), Executed(Head(ecu.queue)))
<1> DEFINE e == Head(ecu.queue)
           x == Executed(e)
<1>0. /\ ecu \in Ecus /\ ecu.queue \in Seq(Entries) /\ ecu.mta \in Nat /\ ecu.mem \in Seq(Chunks)
      /\ ecu.running \in BOOLEAN
  BY NowFacts, WorldFacts DEF Ecus
<1> DEFINE q == Tail(ecu.queue)
           chunk == <<ecu.mta, e.arg>>
<1>1. /\ e \in Entries /\ q \in Seq(Entries) /\ Len(q) = Len(ecu.queue) - 1
      /\ \A i \in 1..Len(q) : q[i] = ecu.queue[i + 1]
  BY <1>0, HeadTailProperties
<1>2. Len(ecu.queue) \in Nat \ {0} /\ e = ecu.queue[1]
  BY <1>0
<1>3. \A i \in 1..Len(q) : i + 1 \in 1..Len(ecu.queue)
  BY <1>1, <1>2
<1>4. chunk \in Chunks /\ Append(ecu.mem, chunk) \in Seq(Chunks) /\ ecu.mta + 1 \in Nat
      /\ 0 \in Nat /\ 1 \in Nat
  <2>1. e.arg \in Nat
    BY <1>1, CcpConstants DEF Entries, Args
  <2> QED BY <2>1, <1>0 DEF Chunks
<1> DEFINE rest == [ecu EXCEPT !.queue = q]
<1>5. rest \in Ecus /\ rest.queue = q /\ rest.mta = ecu.mta /\ rest.mem = ecu.mem
  BY <1>0, <1>1 DEF Ecus
<1>6. x = CASE e.cmd \in {"rd_mta", "wr_mta"} -> [rest EXCEPT !.mta = 1]
            [] e.cmd = "user"                 -> [rest EXCEPT !.mta = 0]
            [] e.cmd = "rd_up" /\ ecu.mta # 0 -> [rest EXCEPT !.mta = ecu.mta + 1]
            [] e.cmd = "wr_dn" /\ ecu.mta # 0 ->
                 [rest EXCEPT !.mta = ecu.mta + 1, !.mem = Append(ecu.mem, chunk)]
            [] e.cmd = "dq_start"             -> [rest EXCEPT !.running = TRUE]
            [] e.cmd = "dq_stop"              -> [rest EXCEPT !.running = FALSE]
            [] OTHER                          -> rest
  BY <1>0 DEF Executed, Elsewhere, Ecus
<1> HIDE DEF rest, q, x
<1>7. /\ x \in Ecus /\ x.queue = q
      /\ e.cmd \in {"rd_mta", "wr_mta"} => x.mta = 1
      /\ e.cmd \in {"rd_up", "wr_dn"} /\ ecu.mta # 0 => x.mta = ecu.mta + 1
      /\ IF e.cmd = "wr_dn" /\ ecu.mta # 0
           THEN x.mem = Append(ecu.mem, chunk) ELSE x.mem = ecu.mem
  <2>1. CASE e.cmd \in {"rd_mta", "wr_mta"}
    <3>1. x = [rest EXCEPT !.mta = 1]
      BY <2>1, <1>6
    <3> QED BY <2>1, <3>1, <1>4, <1>5 DEF Ecus
  <2>2. CASE e.cmd = "user"
    <3>1. x = [rest EXCEPT !.mta = 0]
      BY <2>2, <1>6
    <3> QED BY <2>2, <3>1, <1>4, <1>5 DEF Ecus
  <2>3. CASE e.cmd = "rd_up" /\ ecu.mta # 0
    <3>1. x = [rest EXCEPT !.mta = ecu.mta + 1]
      BY <2>3, <1>6
    <3> QED BY <2>3, <3>1, <1>4, <1>5 DEF Ecus
  <2>4. CASE e.cmd = "wr_dn" /\ ecu.mta # 0
    <3>1. x = [rest EXCEPT !.mta = ecu.mta + 1, !.mem = Append(ecu.mem, chunk)]
      BY <2>4, <1>6
    <3> QED BY <2>4, <3>1, <1>4, <1>5 DEF Ecus
  <2>5. CASE e.cmd = "dq_start"
    <3>1. x = [rest EXCEPT !.running = TRUE]
      BY <2>5, <1>6
    <3> QED BY <2>5, <3>1, <1>5 DEF Ecus
  <2>6. CASE e.cmd = "dq_stop"
    <3>1. x = [rest EXCEPT !.running = FALSE]
      BY <2>6, <1>6
    <3> QED BY <2>6, <3>1, <1>5 DEF Ecus
  <2>7. CASE /\ e.cmd \notin {"rd_mta", "wr_mta", "user", "dq_start", "dq_stop"}
             /\ ~(e.cmd = "rd_up" /\ ecu.mta # 0) /\ ~(e.cmd = "wr_dn" /\ ecu.mta # 0)
    <3>1. x = rest
      BY <2>7, <1>6
    <3> QED BY <2>7, <3>1, <1>5
  <2> QED BY <2>1, <2>2, <2>3, <2>4, <2>5, <2>6, <2>7
<1> HIDE DEF e
<1>8. Performs(e, x)
  BY <1>1, <1>2, <1>3, <1>7 DEF q, Performs
<1> QED BY <1>8 DEF x, e

(* The ECU executes its oldest command: the master sees nothing.           *)
LEMMA ExecutedInv ==
  ASSUME CcpHolds, ecu.queue # <<>>, NEW x, x = Executed(Head(ecu.queue)),
         NEW s, s = [Now EXCEPT !.ecu = x]
  PROVE  CcpInv(s) /\ s.ccp = ccp /\ s.ecu = x /\ s.daq = daq /\ s.seen = seen
<1> DEFINE e == Head(ecu.queue)
<1>0. Performs(e, x)
  BY ExecutedFacts
<1>1. /\ e \in Entries /\ e = ecu.queue[1] /\ 1 \in 1..Len(ecu.queue)
      /\ x \in Ecus /\ x.queue = Tail(ecu.queue)
      /\ Len(x.queue) = Len(ecu.queue) - 1 /\ Len(ecu.queue) \in Nat
      /\ \A i \in 1..Len(x.queue) : i + 1 \in 1..Len(ecu.queue) /\ x.queue[i] = ecu.queue[i + 1]
      /\ IF e.cmd = "wr_dn" /\ ecu.mta # 0
           THEN x.mem = Append(ecu.mem, <<ecu.mta, e.arg>>) ELSE x.mem = ecu.mem
  BY <1>0 DEF Performs
<1> HIDE DEF e
<1>2. s \in Worlds /\ s.ccp = ccp /\ s.ecu = x /\ s.daq = daq /\ s.seen = seen
  BY <1>1, NowFacts DEF Worlds
<1>3. /\ Numbered(ccp, ecu) /\ Reading(ccp, ecu, seen) /\ Writing(ccp, ecu, seen)
      /\ Sampling(ccp, daq, seen) /\ seen.age = 0 /\ ecu.mem \in Seq(Chunks)
  BY NowFacts, WorldFacts DEF CcpInv
<1>4. Falling(x.queue) /\ Dated(x.queue, ccp.ctr) /\ Len(x.queue) <= EcuBound
      /\ (ccp.flight # NoFlight => Youngest(x.queue, ccp.flight))
  <2>1. Falling(x.queue)
    <3> SUFFICES ASSUME NEW i \in 1..Len(x.queue), NEW j \in 1..Len(x.queue), i < j
                 PROVE  x.queue[i].age > x.queue[j].age
      BY DEF Falling
    <3>1. i + 1 \in 1..Len(ecu.queue) /\ j + 1 \in 1..Len(ecu.queue) /\ i + 1 < j + 1
      BY <1>1
    <3>2. ecu.queue[i + 1].age > ecu.queue[j + 1].age
      BY <3>1, <1>3 DEF Numbered, Falling
    <3> QED BY <3>2, <1>1
  <2>2. Dated(x.queue, ccp.ctr)
    BY <1>1, <1>3 DEF Numbered, Dated
  <2>3. Len(x.queue) <= EcuBound
    BY <1>1, <1>3, CcpConstants DEF Numbered
  <2>4. ccp.flight # NoFlight => Youngest(x.queue, ccp.flight)
    BY <1>1, <1>3 DEF Numbered, Youngest
  <2> QED BY <2>1, <2>2, <2>3, <2>4
<1>5. ASSUME AllNew(ecu.queue) PROVE x.queue = <<>>
  <2>1. CASE Len(ecu.queue) >= 2
    <3>1. 1 \in 1..Len(ecu.queue) /\ 2 \in 1..Len(ecu.queue)
      BY <2>1, <1>1
    <3>2. ecu.queue[1].age > ecu.queue[2].age /\ ecu.queue[1].age = 0 /\ ecu.queue[2].age = 0
      BY <3>1, <1>3, <1>5 DEF Numbered, Falling, AllNew
    <3> QED BY <3>2
  <2>2. CASE Len(ecu.queue) = 1
    <3>1. Len(x.queue) = 0 /\ x.queue \in Seq(Entries)
      BY <2>2, <1>1 DEF Ecus
    <3> QED BY <3>1
  <2> QED BY <2>1, <2>2, <1>1
<1>6. Reading(ccp, x, seen)
  BY <1>3, <1>5 DEF Reading, AllNew
<1>7. \A n : Stored(ecu.mem, n) => Stored(x.mem, n)
  <2>1. \A k \in 1..Len(ecu.mem) : k \in 1..Len(x.mem) /\ x.mem[k] = ecu.mem[k]
    <3>1. CASE e.cmd = "wr_dn" /\ ecu.mta # 0
      <4> DEFINE chunk == <<ecu.mta, e.arg>>
      <4>1. chunk \in Chunks
        <5>1. e.arg \in Nat /\ ecu.mta \in Nat
          BY <1>1, CcpConstants, NowFacts, WorldFacts DEF Entries, Args
        <5> QED BY <5>1 DEF Chunks
      <4>2. x.mem = Append(ecu.mem, chunk)
        BY <3>1, <1>1
      <4> HIDE DEF chunk
      <4> QED BY <4>1, <4>2, <1>3
    <3>2. CASE ~(e.cmd = "wr_dn" /\ ecu.mta # 0)
      BY <3>2, <1>1
    <3> QED BY <3>1, <3>2
  <2> QED BY <2>1 DEF Stored
<1>8. Writing(ccp, x, seen)
  BY <1>3, <1>5, <1>7 DEF Writing, AllNew
<1>9. Numbered(ccp, x)
  BY <1>3, <1>4 DEF Numbered
<1> QED BY <1>2, <1>3, <1>6, <1>8, <1>9 DEF CcpInv

(* A response under the counter in flight is the answer to the command in  *)
(* flight, and nothing is behind it.                                       *)
LEMMA OwnAnswer ==
  ASSUME CcpHolds, ecu.queue # <<>>, NEW e, e = Head(ecu.queue), Matches(e),
         NEW x, x = Executed(e)
  PROVE  e.age = 0 /\ e.cmd = ccp.flight.cmd /\ e.arg = ccp.flight.arg /\ x.queue = <<>>
<1>1. /\ e \in Entries /\ e = ecu.queue[1] /\ 1 \in 1..Len(ecu.queue)
      /\ x \in Ecus /\ Len(x.queue) = Len(ecu.queue) - 1 /\ Len(ecu.queue) \in Nat
  <2>1. Performs(e, x)
    BY ExecutedFacts
  <2> QED BY <2>1 DEF Performs
<1>2. Numbered(ccp, ecu) /\ ccp.flight # NoFlight /\ e.ctr = ccp.flight.ctr /\ ccp.flight \in Flying
      /\ ecu.queue \in Seq(Entries)
  BY NowFacts, WorldFacts DEF CcpInv, Matches
<1>3. e.ctr \in Counters /\ e.age \in Counters
  BY <1>1 DEF Entries
<1>4. (e.ctr + e.age + 1) % CtrRange = (e.ctr + 1) % CtrRange
  BY <1>1, <1>2 DEF Numbered, Dated
<1>5. e.age = 0
  BY <1>3, <1>4, SameCounter
<1>6. e.cmd = ccp.flight.cmd /\ e.arg = ccp.flight.arg
  BY <1>1, <1>2, <1>5 DEF Numbered, Youngest
<1>7. CASE Len(ecu.queue) >= 2
  <2>1. 2 \in 1..Len(ecu.queue)
    BY <1>7, <1>1
  <2>2. ecu.queue[1].age > ecu.queue[2].age
    BY <2>1, <1>1, <1>2 DEF Numbered, Falling
  <2>3. ecu.queue[2] \in Entries
    BY <2>1, <1>2, ElementOfSeq
  <2>4. ecu.queue[2].age \in Nat
    BY <2>3, CcpConstants DEF Entries, Counters
  <2>5. ecu.queue[1].age = 0
    BY <1>1, <1>5
  <2> QED BY <2>2, <2>4, <2>5
<1>8. CASE Len(ecu.queue) = 1
  <2>1. Len(x.queue) = 0 /\ x.queue \in Seq(Entries)
    BY <1>8, <1>1 DEF Ecus
  <2>2. x.queue = <<>>
    BY <2>1
  <2> QED BY <2>2, <1>5, <1>6
<1>9. Len(ecu.queue) >= 2 \/ Len(ecu.queue) = 1
  <2> DEFINE n == Len(ecu.queue)
  <2>1. n \in Nat /\ 1 \in 1..n
    BY <1>1
  <2> HIDE DEF n
  <2>2. n >= 2 \/ n = 1
    BY <2>1
  <2> QED BY <2>2 DEF n
<1> QED BY <1>7, <1>8, <1>9

(* A response the ECU gives: it completes the command in flight, or is     *)
(* dropped.                                                                *)
LEMMA StepResponse ==
  ASSUME CcpHolds, NEW ok \in BOOLEAN, NEW what \in Automations, OnResponse(ok, what)
  PROVE  CcpHolds'
<1> DEFINE e == Head(ecu.queue)
           x == Executed(e)
           s == [Now EXCEPT !.ecu = x]
           r == [Now EXCEPT !.ecu = x, !.seen.age = e.age]
<1>1. ecu.queue # <<>>
  BY DEF OnResponse
<1>2. /\ Matches(e) => \E t \in Finished(r, what, ok, ecu.mta) : Becomes(t)
      /\ ~Matches(e) => ecu' = r.ecu /\ UNCHANGED <<ccp, daq, seen>>
  BY DEF OnResponse
<1>3. Performs(e, x)
  BY <1>1, ExecutedFacts
<1>4. x = Executed(Head(ecu.queue)) /\ s = [Now EXCEPT !.ecu = x] /\ e = Head(ecu.queue)
      /\ x = Executed(e)
  OBVIOUS
<1> HIDE DEF x
<1>5. r.ecu = x
  BY NowFacts DEF Worlds
<1>6. ASSUME e.age = 0 PROVE r = s
  <2>1. Now.seen \in Views /\ Now.seen.age = 0
    BY NowFacts, WorldFacts DEF CcpInv
  <2>2. [Now.seen EXCEPT !.age = e.age] = Now.seen
    BY <2>1, <1>6 DEF Views
  <2>3. r = [[Now EXCEPT !.ecu = x] EXCEPT !.seen = [Now.seen EXCEPT !.age = e.age]]
    BY NowFacts DEF Worlds
  <2> QED BY <2>2, <2>3, NowFacts DEF Worlds
<1> HIDE DEF s, r
<1>7. CcpInv(s) /\ s.ccp = ccp /\ s.ecu = x /\ s.daq = daq /\ s.seen = seen
  BY <1>1, <1>4, ExecutedInv
<1>8. CASE Matches(e)
  <2>1. PICK t \in Finished(r, what, ok, ecu.mta) : Becomes(t)
    BY <1>2, <1>8
  <2>2. e.age = 0 /\ e.cmd = ccp.flight.cmd /\ e.arg = ccp.flight.arg /\ x.queue = <<>>
    BY <1>1, <1>4, <1>8, OwnAnswer
  <2>3. r = s
    BY <2>2, <1>6
  <2>4. Answered(s, ok, ecu.mta)
    <3> SUFFICES ASSUME ok, ~seen.nested
                 PROVE  /\ x.queue = <<>>
                        /\ e.cmd \in {"rd_mta", "wr_mta"} => x.mta = 1
                        /\ e.cmd = "rd_up" =>
                             ecu.mta = ReadChunks - ccp.readLeft + 1 /\ x.mta = ecu.mta + 1
                        /\ e.cmd = "wr_dn" =>
                             x.mta = ccp.writeOff + 1 /\ Stored(x.mem, ccp.writeOff)
      BY <1>7, <2>2 DEF Answered
    <3>0. /\ Reading(ccp, ecu, seen) /\ Writing(ccp, ecu, seen)
          /\ ccp.readLeft \in Nat /\ ccp.readLeft <= ReadChunks /\ ccp.writeOff \in Nat
          /\ ecu.mem \in Seq(Chunks) /\ ecu.mta \in Nat
      BY NowFacts, WorldFacts DEF CcpInv
    <3>1. e.cmd \in {"rd_mta", "wr_mta"} => x.mta = 1
      BY <1>3 DEF Performs
    <3>2. ASSUME e.cmd = "rd_up"
          PROVE  ecu.mta = ReadChunks - ccp.readLeft + 1 /\ x.mta = ecu.mta + 1
      <4>1. ecu.mta = ReadChunks - ccp.readLeft + 1
        BY <1>1, <2>2, <3>0, <3>2 DEF Reading
      <4>2. ecu.mta # 0
        BY <4>1, <3>0, CcpConstants
      <4> QED BY <4>1, <4>2, <3>2, <1>3 DEF Performs
    <3>3. ASSUME e.cmd = "wr_dn"
          PROVE  x.mta = ccp.writeOff + 1 /\ Stored(x.mem, ccp.writeOff)
      <4> DEFINE n == ccp.writeOff
                 chunk == <<ecu.mta, e.arg>>
      <4>1. ecu.mta = n /\ n >= 1 /\ e.arg = n /\ Stored(ecu.mem, n - 1)
        BY <1>1, <2>2, <3>0, <3>3 DEF Writing
      <4>2. x.mta = n + 1 /\ x.mem = Append(ecu.mem, chunk)
        BY <4>1, <3>0, <3>3, <1>3 DEF Performs
      <4>3. chunk = <<n, n>> /\ chunk \in Chunks /\ n \in Nat
        BY <4>1, <3>0 DEF Chunks
      <4> HIDE DEF chunk, n
      <4>4. Len(x.mem) = Len(ecu.mem) + 1 /\ x.mem[Len(ecu.mem) + 1] = chunk /\ Len(ecu.mem) \in Nat
            /\ \A k \in 1..Len(ecu.mem) : x.mem[k] = ecu.mem[k]
        BY <4>2, <4>3, <3>0
      <4>5. ASSUME NEW i \in 1..n PROVE \E k \in 1..Len(x.mem) : x.mem[k] = <<i, i>>
        <5>1. CASE i = n
          <6>1. Len(ecu.mem) + 1 \in 1..Len(x.mem)
            BY <4>4
          <6> QED BY <6>1, <5>1, <4>3, <4>4
        <5>2. CASE i # n
          <6>1. i \in 1..(n - 1)
            BY <5>2, <4>3
          <6>2. PICK k \in 1..Len(ecu.mem) : ecu.mem[k] = <<i, i>>
            BY <6>1, <4>1 DEF Stored, n
          <6>3. k \in 1..Len(x.mem) /\ x.mem[k] = <<i, i>>
            BY <6>2, <4>4
          <6> QED BY <6>3
        <5> QED BY <5>1, <5>2
      <4>6. Stored(x.mem, n)
        BY <4>5 DEF Stored
      <4> QED BY <4>2, <4>6 DEF n
    <3> QED BY <2>2, <3>1, <3>2, <3>3
  <2>5. ~Free(s) /\ ecu.mta \in Nat
    BY <1>7, <1>8, NowFacts, WorldFacts DEF Free, Matches
  <2>6. CcpInv(t)
    BY <1>7, <2>1, <2>3, <2>4, <2>5, FinishedInv
  <2> QED BY <2>1, <2>6, Become
<1>9. CASE ~Matches(e)
  <2>1. Becomes(s)
    BY <1>2, <1>5, <1>7, <1>9 DEF Becomes
  <2> QED BY <2>1, <1>7, Become
<1> QED BY <1>8, <1>9

(* The ECU executes and its answer is handed, or the command was.          *)
LEMMA StepNoAnswer ==
  ASSUME CcpHolds, NoAnswer
  PROVE  CcpHolds'
<1> DEFINE x == Executed(Head(ecu.queue))
           s == [Now EXCEPT !.ecu = x]
<1>1. ecu.queue # <<>> /\ ecu' = x /\ UNCHANGED <<ccp, daq, seen>>
  BY DEF NoAnswer
<1>2. x = Executed(Head(ecu.queue)) /\ s = [Now EXCEPT !.ecu = x]
  OBVIOUS
<1> HIDE DEF x, s
<1>3. CcpInv(s) /\ s.ccp = ccp /\ s.ecu = x /\ s.daq = daq /\ s.seen = seen
  BY <1>1, <1>2, ExecutedInv
<1>4. Becomes(s)
  BY <1>1, <1>3 DEF Becomes
<1> QED BY <1>3, <1>4, Become

(* A user call from the main loop.                                         *)
LEMMA StepUserCall ==
  ASSUME CcpHolds, NEW what \in UserCalls, UserCall(what)
  PROVE  CcpHolds'
<1>1. PICK s \in Call(Now, what) : Becomes(s)
  BY DEF UserCall
<1>2. what \in Automations /\ "user" \in Commands /\ TRUE \in BOOLEAN /\ 0 \in Nat /\ CcpInv(Now)
  BY NowFacts, SetupFacts DEF Automations
<1>3. CcpInv(s)
  BY <1>1, <1>2, CallInv
<1> QED BY <1>1, <1>3, Become

(* The switch that stops the hub from sending.                             *)
LEMMA StepEnabled ==
  ASSUME CcpHolds, CcpSetEnabled
  PROVE  CcpHolds'
<1> DEFINE c == [ccp EXCEPT !.enabled = ~@]
           s == [Now EXCEPT !.ccp = c]
<1>1. ccp' = c /\ UNCHANGED <<ecu, daq, seen>>
  BY DEF CcpSetEnabled
<1>2. /\ c \in Masters /\ c.ctr = ccp.ctr /\ c.flight = ccp.flight
      /\ c.readLeft = ccp.readLeft /\ c.readData = ccp.readData
      /\ c.writeSize = ccp.writeSize /\ c.writeOff = ccp.writeOff
  BY NowFacts, WorldFacts DEF Masters
<1>3. s = [Now EXCEPT !.ccp = c]
  OBVIOUS
<1> HIDE DEF c, s
<1>4. Reading(c, ecu, seen) /\ Writing(c, ecu, seen)
  BY <1>2, NowFacts DEF CcpInv, Reading, Writing
<1>5. CcpInv(s) /\ s.ccp = c /\ s.ecu = ecu /\ s.daq = daq /\ s.seen = seen
  <2>1. Reading(c, Now.ecu, Now.seen) /\ Writing(c, Now.ecu, Now.seen)
    BY <1>4, NowFacts
  <2>2. c.ctr = Now.ccp.ctr /\ c.flight = Now.ccp.flight
    BY <1>2, NowFacts
  <2> QED BY <1>2, <1>3, <2>1, <2>2, NowFacts, WithMaster
<1>6. Becomes(s)
  BY <1>1, <1>5 DEF Becomes
<1> QED BY <1>5, <1>6, Become

(* While samples are collected no command of the read is in flight.        *)
LEMMA NowQuiet ==
  ASSUME CcpHolds, daq.collecting
  PROVE  CcpQuiet(Now) /\ daq.active /\ ~daq.failed /\ daq.sent = Setup /\ daq.frames < Samples
<1>1. Sampling(ccp, daq, seen) /\ CcpInv(Now) /\ daq \in Daqs
  BY NowFacts, WorldFacts DEF CcpInv
<1>2. ccp.flight.cmd \notin DaqCommands
  BY <1>1 DEF Sampling, SettingUp, TakingDown, DaqCommands
<1> QED BY <1>1, <1>2, NowFacts, InvQuiet DEF Sampling

(* A frame of the DAQ list: the last one ends the read.                    *)
LEMMA StepDaqFrame ==
  ASSUME CcpHolds, NEW anchored \in BOOLEAN, NEW whole \in BOOLEAN, OnDaqFrame(anchored, whole)
  PROVE  CcpHolds'
<1>1. CASE ~daq.collecting
  <2>1. Becomes(Now)
    BY <1>1, NowFacts DEF OnDaqFrame, Becomes, ccpVars
  <2> QED BY <2>1, NowFacts, Become
<1>2. CASE daq.collecting
  <2> DEFINE d == [daq EXCEPT !.frames = @ + 1, !.anchored = @ \/ anchored,
                              !.valid = @ \/ (anchored /\ whole)]
             s == [Now EXCEPT !.daq = d]
  <2>1. IF d.frames >= Samples THEN \E t \in Complete(s, FALSE) : Becomes(t) ELSE Becomes(s)
    BY <1>2 DEF OnDaqFrame
  <2>2. CcpQuiet(Now) /\ daq.active /\ ~daq.failed /\ daq.sent = Setup /\ daq.frames < Samples
    BY <1>2, NowQuiet
  <2>3. daq \in Daqs /\ daq.frames + 1 \in Counts /\ Len(Setup) <= Len(Setup)
    <3>1. daq \in Daqs /\ daq.frames \in Nat
      BY NowFacts, WorldFacts DEF Daqs, Counts
    <3> QED BY <2>2, <3>1, CcpConstants, SetupFacts DEF Counts
  <2>4. /\ d \in Daqs /\ d.active /\ ~d.failed /\ d.sent = Setup /\ d.frames = daq.frames + 1
        /\ Len(d.sent) <= Len(Setup) /\ d.frames \in Counts
    BY <2>2, <2>3 DEF Daqs
  <2>5. s = [Now EXCEPT !.daq = d]
    OBVIOUS
  <2> HIDE DEF d, s
  <2>6. CcpQuiet(s) /\ s.daq = d
    BY <2>2, <2>4, <2>5, WithDaqQuiet
  <2>7. CASE d.frames >= Samples
    <3>1. PICK t \in Complete(s, FALSE) : Becomes(t)
      BY <2>1, <2>7
    <3>2. CcpInv(t)
      BY <2>4, <2>6, <2>7, <3>1, CompleteInv
    <3> QED BY <3>1, <3>2, Become
  <2>8. CASE ~(d.frames >= Samples)
    <3>1. Becomes(s)
      BY <2>1, <2>8
    <3>2. d.frames < Samples
      BY <2>4, <2>8, CcpConstants DEF Counts
    <3>3. CcpInv(s)
      BY <2>4, <2>6, <3>2, QuietInv
    <3> QED BY <3>1, <3>3, Become
  <2> QED BY <2>7, <2>8
<1> QED BY <1>1, <1>2

(* The command in flight times out.                                        *)
LEMMA StepTimeout ==
  ASSUME CcpHolds, NEW what \in Automations, OnTimeout(what)
  PROVE  CcpHolds'
<1>1. PICK t \in Finished(Now, what, FALSE, 0) : Becomes(t)
  BY DEF OnTimeout
<1>2. ~Free(Now) /\ Answered(Now, FALSE, 0) /\ FALSE \in BOOLEAN /\ 0 \in Nat
  BY NowFacts DEF OnTimeout, RespOverdue, Free, Answered
<1>3. CcpInv(t)
  BY <1>1, <1>2, NowFacts, FinishedInv
<1> QED BY <1>1, <1>3, Become

(* The samples did not come in time.                                       *)
LEMMA StepCollectTimeout ==
  ASSUME CcpHolds, OnCollectTimeout
  PROVE  CcpHolds'
<1>1. PICK t \in Complete(Now, TRUE) : Becomes(t)
  BY DEF OnCollectTimeout
<1>2. CcpQuiet(Now) /\ Now.daq.active
  BY NowQuiet, NowFacts DEF OnCollectTimeout, CollectOverdue
<1>3. CcpInv(t)
  BY <1>1, <1>2, GiveUpInv
<1> QED BY <1>1, <1>3, Become

(* Time passes: no deadline is passed over.                                *)
LEMMA StepCcpTick ==
  ASSUME CcpHolds, CcpTick
  PROVE  CcpHolds'
<1>0. /\ ccp \in Masters /\ daq \in Daqs /\ ecu \in Ecus /\ seen \in Views
      /\ ccp.flight \in Flying /\ CcpInv(Now)
  BY NowFacts, WorldFacts
<1>1. PICK f \in Flying : /\ ccp' = [ccp EXCEPT !.flight = f]
                          /\ f = NoFlight <=> ccp.flight = NoFlight
                          /\ f.cmd = ccp.flight.cmd /\ f.ctr = ccp.flight.ctr /\ f.arg = ccp.flight.arg
  <2>1. CASE ccp.flight = NoFlight
    <3>1. ccp' = [ccp EXCEPT !.flight.timer = ccp.flight.timer]
      BY <2>1 DEF CcpTick
    <3>2. [ccp.flight EXCEPT !.timer = ccp.flight.timer] = ccp.flight
      BY <2>1 DEF NoFlight
    <3>3. ccp' = [ccp EXCEPT !.flight = ccp.flight]
      BY <1>0, <3>1, <3>2 DEF Masters
    <3> QED BY <1>0, <3>3
  <2>2. CASE ccp.flight # NoFlight
    <3> DEFINE time == ccp.flight.timer - 1
               f == [ccp.flight EXCEPT !.timer = time]
    <3>1. ccp' = [ccp EXCEPT !.flight = f]
      BY <2>2, <1>0 DEF CcpTick, Masters
    <3>2. time \in RespTimes
      <4>1. ccp.flight.timer \in RespTimes /\ ccp.flight.timer # 0
        BY <1>0, <2>2 DEF Flying, CcpTick, RespOverdue
      <4> QED BY <4>1, CcpConstants DEF RespTimes
    <3> HIDE DEF time
    <3>3. /\ f \in Flying /\ f.cmd = ccp.flight.cmd /\ f.ctr = ccp.flight.ctr
          /\ f.arg = ccp.flight.arg
      BY <1>0, <2>2, <3>2 DEF Flying
    <3> HIDE DEF f
    <3>4. f # NoFlight
      BY <1>0, <2>2, <3>3, CommandKinds
    <3> QED BY <2>2, <3>1, <3>3, <3>4
  <2> QED BY <2>1, <2>2
<1>2. PICK time \in CollectTimes : daq' = [daq EXCEPT !.timer = time]
  <2>1. CASE daq.collecting
    <3>1. daq' = [daq EXCEPT !.timer = daq.timer - 1] /\ daq.timer # 0
      BY <2>1, <1>0 DEF CcpTick, CollectOverdue, Daqs
    <3>2. daq.timer - 1 \in CollectTimes
      BY <1>0, <3>1, CcpConstants DEF Daqs, CollectTimes
    <3> QED BY <3>1, <3>2
  <2>2. CASE ~daq.collecting
    <3>1. daq' = [daq EXCEPT !.timer = daq.timer] /\ daq.timer \in CollectTimes
      BY <2>2, <1>0 DEF CcpTick, Daqs
    <3> QED BY <3>1
  <2> QED BY <2>1, <2>2
<1> DEFINE c == [ccp EXCEPT !.flight = f]
           d == [daq EXCEPT !.timer = time]
           s == [ccp |-> c, ecu |-> ecu, daq |-> d, seen |-> seen]
<1>3. /\ c \in Masters /\ c.flight = f /\ c.ctr = ccp.ctr
      /\ c.readLeft = ccp.readLeft /\ c.readData = ccp.readData
      /\ c.writeSize = ccp.writeSize /\ c.writeOff = ccp.writeOff
  BY <1>0 DEF Masters
<1>4. /\ d \in Daqs /\ d.sent = daq.sent /\ d.active = daq.active /\ d.collecting = daq.collecting
      /\ d.failed = daq.failed /\ d.frames = daq.frames /\ d.step = daq.step
      /\ d.anchored = daq.anchored /\ d.valid = daq.valid
  BY <1>0 DEF Daqs
<1>5. daq = NoDaq => d = NoDaq
  <2> SUFFICES ASSUME daq = NoDaq PROVE d = NoDaq
    OBVIOUS
  <2>1. ~daq.collecting
    BY NoDaqFacts
  <2>2. daq' = [daq EXCEPT !.timer = daq.timer]
    BY <2>1 DEF CcpTick
  <2>3. [daq EXCEPT !.timer = daq.timer] = daq
    BY <1>0 DEF Daqs
  <2> QED BY <1>2, <2>2, <2>3
<1>6. ccp' = c /\ daq' = d /\ UNCHANGED <<ecu, seen>>
  BY <1>1, <1>2 DEF CcpTick
<1> HIDE DEF c, d
<1>7. /\ Numbered(ccp, ecu) /\ Reading(ccp, ecu, seen) /\ Writing(ccp, ecu, seen)
      /\ Sampling(ccp, daq, seen) /\ seen.age = 0
  BY <1>0, NowFacts DEF CcpInv
<1>8. Numbered(c, ecu)
  BY <1>1, <1>3, <1>7 DEF Numbered, Youngest
<1>9. Reading(c, ecu, seen) /\ Writing(c, ecu, seen)
  BY <1>1, <1>3, <1>7 DEF Reading, Writing
<1>10. Sampling(c, d, seen)
  BY <1>1, <1>3, <1>4, <1>5, <1>7 DEF Sampling, SettingUp, TakingDown, Good
<1>11. s \in Worlds /\ s.ccp = c /\ s.ecu = ecu /\ s.daq = d /\ s.seen = seen
  BY <1>0, <1>3, <1>4 DEF Worlds
<1> HIDE DEF s
<1>12. CcpInv(s)
  BY <1>7, <1>8, <1>9, <1>10, <1>11 DEF CcpInv
<1>13. Becomes(s)
  BY <1>6, <1>11 DEF Becomes
<1> QED BY <1>12, <1>13, Become

(* A step that changes nothing.                                            *)
LEMMA StepCcpSame ==
  ASSUME CcpHolds, UNCHANGED ccpVars
  PROVE  CcpHolds'
<1>1. Becomes(Now)
  BY NowFacts DEF Becomes, ccpVars
<1> QED BY <1>1, NowFacts, Become

(* The invariant holds in every state.                                     *)
LEMMA CcpInvariant == CcpSpec => []CcpHolds
<1>1. ASSUME CcpHolds, [CcpNext]_ccpVars PROVE CcpHolds'
  <2>1. ASSUME NEW what \in UserCalls, UserCall(what) PROVE CcpHolds'
    BY <1>1, <2>1, StepUserCall
  <2>2. CASE CcpSetEnabled
    BY <1>1, <2>2, StepEnabled
  <2>3. ASSUME NEW ok \in BOOLEAN, NEW what \in Automations, OnResponse(ok, what) PROVE CcpHolds'
    BY <1>1, <2>3, StepResponse
  <2>4. CASE NoAnswer
    BY <1>1, <2>4, StepNoAnswer
  <2>5. ASSUME NEW anchored \in BOOLEAN, NEW whole \in BOOLEAN, OnDaqFrame(anchored, whole)
        PROVE  CcpHolds'
    BY <1>1, <2>5, StepDaqFrame
  <2>6. ASSUME NEW what \in Automations, OnTimeout(what) PROVE CcpHolds'
    BY <1>1, <2>6, StepTimeout
  <2>7. CASE OnCollectTimeout
    BY <1>1, <2>7, StepCollectTimeout
  <2>8. CASE CcpTick
    BY <1>1, <2>8, StepCcpTick
  <2>9. CASE CcpIdle
    BY <1>1, <2>9, StepCcpSame DEF CcpIdle
  <2>10. CASE UNCHANGED ccpVars
    BY <1>1, <2>10, StepCcpSame
  <2> QED BY <1>1, <2>1, <2>2, <2>3, <2>4, <2>5, <2>6, <2>7, <2>8, <2>9, <2>10
          DEF CcpNext, CcpLoop, Automations
<1> QED BY <1>1, InitCcp, PTL DEF CcpSpec

(* What the invariant says of the master, the ECU and the reports.         *)
LEMMA CcpInvMeans == CcpHolds => MemoryIsWhole
<1> SUFFICES ASSUME CcpHolds PROVE MemoryIsWhole
  OBVIOUS
<1>1. /\ ccp \in Masters /\ ecu \in Ecus /\ daq \in Daqs /\ seen \in Views /\ ccp.flight \in Flying
      /\ Numbered(ccp, ecu) /\ Reading(ccp, ecu, seen) /\ Writing(ccp, ecu, seen)
      /\ Sampling(ccp, daq, seen) /\ seen.age = 0
  BY NowFacts, WorldFacts DEF CcpInv
<1>2. Len(ccp.readData) <= ReadChunks
  BY <1>1, CcpConstants DEF Reading, Masters, Ups
<1>3. CcpTypeOK
  BY <1>1, <1>2 DEF CcpTypeOK, Masters, Ecus, Daqs, Flying, Numbered, Sampling, Counters, Args,
                    RespTimes, Ups, Sizes, Steps, CollectTimes, Counts
<1> QED BY <1>1, <1>3 DEF MemoryIsWhole, Reading, Writing, Sampling, Stored, UpTo, Good

(* A delivered read is the requested range in order, a write reported as   *)
(* done is in the ECU, a command is completed by its own answer, and a     *)
(* good DAQ result rests on this read's own setup and enough frames,       *)
(* whatever automations send in between (finish_, continue_read_,          *)
(* continue_write_, send_daq_step_, complete_daq_read_).                   *)
THEOREM MemoryTheorem == CcpSpec => []MemoryIsWhole
<1> QED BY CcpInvariant, CcpInvMeans, PTL

=============================================================================
