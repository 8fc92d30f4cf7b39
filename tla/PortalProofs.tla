---------------------------- MODULE PortalProofs ----------------------------
(***************************************************************************)
(* The portal, for every accepted configuration, every number of nodes,    *)
(* values and actions, and whatever the entities read: an accepted action  *)
(* is performed once, a client that is answered "not modified" holds what  *)
(* it would be sent, a value to set before an action is one it takes, and  *)
(* every envelope the device writes is one its schema accepts.             *)
(***************************************************************************)
EXTENDS Portal, FiniteSetTheorems, SequenceTheorems, WellFoundedInduction, TLAPS

-----------------------------------------------------------------------------
(* Actions.  A slot is a record whose result is one.                       *)
IsResult(x) == x = [state |-> x.state, code |-> x.code, value |-> x.value]
IsSlot(s) ==
    /\ s = [result |-> s.result, pending |-> s.pending, value |-> s.value]
    /\ IsResult(s.result) /\ s.pending \in BOOLEAN

(* Entries of a family f of functions, one for each node of the tree.      *)
SlotFamily(tree, f) ==
    /\ f = [n \in DOMAIN tree |-> f[n]]
    /\ \A n \in DOMAIN tree :
         /\ f[n] = [k \in DOMAIN tree[n].actions |-> f[n][k]]
         /\ \A k \in DOMAIN tree[n].actions : IsSlot(f[n][k])

OneSlot(tree, f, n, k, s, g) ==
    /\ SlotFamily(tree, g) /\ g[n][k] = s
    /\ \A m \in DOMAIN tree : \A j \in DOMAIN tree[m].actions :
         <<m, j>> # <<n, k>> => g[m][j] = f[m][j]

(* A changed slot leaves the others as they are.                           *)
LEMMA SlotChange ==
    ASSUME NEW tree, NEW f, SlotFamily(tree, f), NEW n \in DOMAIN tree,
           NEW k \in DOMAIN tree[n].actions, NEW s, IsSlot(s),
           NEW g, g = [f EXCEPT ![n][k] = s]
    PROVE  OneSlot(tree, f, n, k, s, g)
<1> DEFINE row == [f[n] EXCEPT ![k] = s]
<1>1. /\ f = [m \in DOMAIN tree |-> f[m]]
      /\ \A m \in DOMAIN tree : f[m] = [j \in DOMAIN tree[m].actions |-> f[m][j]]
      /\ \A m \in DOMAIN tree : \A j \in DOMAIN tree[m].actions : IsSlot(f[m][j])
  BY DEF SlotFamily
<1>2. DOMAIN f = DOMAIN tree /\ DOMAIN f[n] = DOMAIN tree[n].actions
  BY <1>1
<1>3. g = [f EXCEPT ![n] = row]
  OBVIOUS
<1>4. row = [j \in DOMAIN tree[n].actions |-> IF j = k THEN s ELSE f[n][j]]
  BY <1>2
<1> HIDE DEF row
<1>5. g = [m \in DOMAIN tree |-> IF m = n THEN row ELSE f[m]]
  BY <1>2, <1>3
<1>6. g[n] = row /\ \A m \in DOMAIN tree : m # n => g[m] = f[m]
  BY <1>5
<1>7. row[k] = s /\ \A j \in DOMAIN tree[n].actions : j # k => row[j] = f[n][j]
  BY <1>4
<1>8. g = [m \in DOMAIN tree |-> g[m]]
  BY <1>5
<1>9. ASSUME NEW m \in DOMAIN tree
      PROVE  /\ g[m] = [j \in DOMAIN tree[m].actions |-> g[m][j]]
             /\ \A j \in DOMAIN tree[m].actions : IsSlot(g[m][j])
  <2>1. CASE m = n
    <3>1. row = [j \in DOMAIN tree[n].actions |-> row[j]]
      BY <1>4
    <3> QED BY <2>1, <3>1, <1>1, <1>6, <1>7
  <2>2. CASE m # n
    <3>1. g[m] = f[m]
      BY <2>2, <1>6
    <3> QED BY <3>1, <1>1
  <2> QED BY <2>1, <2>2
<1>10. SlotFamily(tree, g)
  BY <1>8, <1>9 DEF SlotFamily
<1> QED BY <1>6, <1>7, <1>10 DEF OneSlot

(* While an action is performed its slot is taken, and nothing is owed.    *)
SlotInv ==
    /\ SlotFamily(table, rt)
    /\ loop = <<>> \/ (loop \in ActionRefs /\ rt[loop[1]][loop[2]].pending)
OwedInv == SlotInv /\ AcceptedIsPerformedOnce

(* The references are the ones of the table.                               *)
LEMMA RefFacts ==
    /\ \A r \in ActionRefs : /\ r = <<r[1], r[2]>> /\ r[1] \in DOMAIN table /\ r # <<>>
                             /\ r[2] \in DOMAIN table[r[1]].actions
    /\ \A n \in DOMAIN table : \A k \in DOMAIN table[n].actions : <<n, k>> \in ActionRefs
BY DEF ActionRefs

(* The device starts with idle slots.                                      *)
LEMMA InitOwed == Init => OwedInv
<1> SUFFICES ASSUME Init PROVE OwedInv
  OBVIOUS
<1>1. IsSlot(IdleAction) /\ ~IdleAction.pending /\ IdleAction.result.state = "none"
  BY DEF IsSlot, IsResult, IdleAction, NoResult, None
<1>2. rt = [n \in DOMAIN table |-> [k \in DOMAIN table[n].actions |-> IdleAction]]
      /\ loop = <<>> /\ owed = {}
  BY DEF Init
<1>3. SlotFamily(table, rt)
  BY <1>1, <1>2 DEF SlotFamily
<1>4. \A r \in ActionRefs : rt[r[1]][r[2]] = IdleAction
  BY <1>2, RefFacts
<1>5. AcceptedIsPerformedOnce
  BY <1>1, <1>2, <1>4 DEF AcceptedIsPerformedOnce
<1> QED BY <1>2, <1>3, <1>5 DEF OwedInv, SlotInv

(* What a post is answered depends on the slot, and a taken slot stays.    *)
LEMMA StepPost ==
    ASSUME OwedInv, NEW r \in ActionRefs, NEW body \in Bodies, Post(r, body)
    PROVE  OwedInv'
<1> DEFINE n == r[1]
           k == r[2]
           a == table[n].actions[k]
           slot == rt[n][k]
           code == Evaluate(a, acts[n][k], slot.pending, body)
           value == ParsedValue(a, code, body)
           result == [state |-> IF code = "queued" THEN "running" ELSE "refused",
                      code |-> code, value |-> value]
           s == IF code = "queued" THEN [result |-> result, pending |-> TRUE, value |-> value]
                ELSE [slot EXCEPT !.result = result]
<1>1. /\ code # "busy" /\ rt' = [rt EXCEPT ![n][k] = s]
      /\ owed' = owed \cup (IF code = "queued" THEN {<<r, value>>} ELSE {})
      /\ UNCHANGED <<table, loop>>
  BY DEF Post
<1>2. n \in DOMAIN table /\ k \in DOMAIN table[n].actions /\ r = <<n, k>>
  BY RefFacts
<1>3. IsSlot(slot) /\ SlotFamily(table, rt)
  BY <1>2 DEF OwedInv, SlotInv, SlotFamily
<1>4. code = "queued" => ~slot.pending
  <2> DEFINE busy == slot.pending
  <2> SUFFICES ASSUME busy PROVE code # "queued"
    OBVIOUS
  <2> HIDE DEF busy
  <2> QED BY DEF Evaluate, busy
<1>5. IsResult(result) /\ result.state \in {"running", "refused"}
      /\ (result.state = "running" <=> code = "queued")
  BY DEF IsResult
<1> HIDE DEF code, value, result
<1>6. /\ code = "queued" => s = [result |-> result, pending |-> TRUE, value |-> value]
      /\ code # "queued" => s = [result |-> result, pending |-> slot.pending, value |-> slot.value]
  <2>1. [slot EXCEPT !.result = result] = [result |-> result, pending |-> slot.pending, value |-> slot.value]
    BY <1>3 DEF IsSlot
  <2> QED BY <2>1
<1>7. slot.pending \in BOOLEAN
  BY <1>3 DEF IsSlot
<1> HIDE DEF s, slot
<1>8. /\ IsSlot(s) /\ s.result = result
      /\ code = "queued" => s.pending /\ s.value = value
      /\ code # "queued" => s.pending = slot.pending /\ s.value = slot.value
  <2>1. CASE code = "queued"
    <3>1. s = [result |-> result, pending |-> TRUE, value |-> value]
      BY <2>1, <1>6
    <3> QED BY <2>1, <3>1, <1>5 DEF IsSlot
  <2>2. CASE code # "queued"
    <3> DEFINE p == slot.pending
               v == slot.value
    <3>1. s = [result |-> result, pending |-> p, value |-> v] /\ p \in BOOLEAN
      BY <2>2, <1>6, <1>7
    <3> HIDE DEF p, v
    <3>2. IsSlot(s) /\ s.result = result /\ s.pending = p /\ s.value = v
      BY <3>1, <1>5 DEF IsSlot
    <3> QED BY <2>2, <3>2 DEF p, v
  <2> QED BY <2>1, <2>2
<1>9. /\ SlotFamily(table, rt') /\ rt'[n][k] = s
      /\ \A m \in DOMAIN table : \A j \in DOMAIN table[m].actions :
           <<m, j>> # <<n, k>> => rt'[m][j] = rt[m][j]
  <2> DEFINE g == rt'
  <2>1. g = [rt EXCEPT ![n][k] = s]
    BY <1>1
  <2>0. n \in DOMAIN table /\ k \in DOMAIN table[n].actions /\ SlotFamily(table, rt) /\ IsSlot(s)
    BY <1>2, <1>3, <1>8
  <2> HIDE DEF g, n, k
  <2>2. OneSlot(table, rt, n, k, s, g)
    BY <2>0, <2>1, SlotChange
  <2> QED BY <2>2 DEF g, OneSlot
<1>10. \A q \in ActionRefs : q # r => rt'[q[1]][q[2]] = rt[q[1]][q[2]]
  <2> SUFFICES ASSUME NEW q \in ActionRefs, q # r PROVE rt'[q[1]][q[2]] = rt[q[1]][q[2]]
    OBVIOUS
  <2>1. q = <<q[1], q[2]>> /\ q[1] \in DOMAIN table /\ q[2] \in DOMAIN table[q[1]].actions
    BY RefFacts
  <2>2. <<q[1], q[2]>> # <<n, k>>
    BY <2>1, <1>2
  <2> QED BY <2>1, <2>2, <1>9
<1>11. ActionRefs' = ActionRefs
  BY <1>1 DEF ActionRefs
<1>12. loop = r => slot.pending
  BY RefFacts DEF OwedInv, SlotInv, slot
<1>13. SlotInv'
  <2>1. SlotFamily(table', rt')
    BY <1>1, <1>9
  <2>2. loop # <<>> => loop \in ActionRefs /\ rt'[loop[1]][loop[2]].pending
    <3> SUFFICES ASSUME loop # <<>> PROVE loop \in ActionRefs /\ rt'[loop[1]][loop[2]].pending
      OBVIOUS
    <3>1. loop \in ActionRefs /\ rt[loop[1]][loop[2]].pending
      BY DEF OwedInv, SlotInv
    <3>2. CASE loop # r
      BY <3>1, <3>2, <1>10
    <3>3. CASE loop = r
      <4>1. s.pending
        BY <3>3, <1>8, <1>12
      <4> QED BY <3>1, <3>3, <4>1, <1>9
    <3> QED BY <3>2, <3>3
  <2> QED BY <2>1, <2>2, <1>1, <1>11 DEF SlotInv
<1>14. AcceptedIsPerformedOnce'
  <2> SUFFICES ASSUME NEW q \in ActionRefs
               PROVE  LET z == rt'[q[1]][q[2]]
                          owing == {o \in owed' : o[1] = q}
                      IN  /\ z.pending /\ loop # q => owing = {<<q, z.value>>}
                          /\ ~z.pending \/ loop = q => owing = {}
                          /\ z.result.state = "accepted" => ~z.pending
                          /\ z.result.state = "running" => z.pending
    BY <1>1, <1>11 DEF AcceptedIsPerformedOnce
  <2> DEFINE y == rt[q[1]][q[2]]
             z == rt'[q[1]][q[2]]
             was == {o \in owed : o[1] = q}
             owing == {o \in owed' : o[1] = q}
  <2>1. /\ y.pending /\ loop # q => was = {<<q, y.value>>}
        /\ ~y.pending \/ loop = q => was = {}
        /\ y.result.state = "accepted" => ~y.pending
        /\ y.result.state = "running" => y.pending
    BY DEF OwedInv, AcceptedIsPerformedOnce
  <2>2. CASE q # r
    <3>1. z = y
      BY <2>2, <1>10
    <3>2. owing = was
      BY <2>2, <1>1
    <3> QED BY <2>1, <3>1, <3>2
  <2>3. CASE q = r
    <3>1. y = slot /\ z = s
      BY <2>3, <1>9 DEF slot
    <3>2. CASE code = "queued"
      <4>1. ~slot.pending /\ loop # r
        BY <3>2, <1>4, <1>12
      <4>2. was = {}
        BY <2>1, <3>1, <4>1
      <4>3. owing = {<<r, value>>}
        BY <2>3, <3>2, <4>2, <1>1
      <4>4. z.pending /\ z.value = value /\ z.result.state = "running"
        BY <3>1, <3>2, <1>5, <1>8
      <4> QED BY <2>3, <4>1, <4>3, <4>4
    <3>3. CASE code # "queued"
      <4>1. owing = was
        BY <3>3, <1>1
      <4>2. z.pending = y.pending /\ z.value = y.value /\ z.result.state = "refused"
        BY <3>1, <3>3, <1>5, <1>8
      <4> QED BY <2>1, <4>1, <4>2
    <3> QED BY <3>2, <3>3
  <2> QED BY <2>2, <2>3
<1> QED BY <1>13, <1>14 DEF OwedInv

(* The action is taken: what was owed is being performed.                  *)
LEMMA StepPerform ==
    ASSUME OwedInv, NEW r \in ActionRefs, Perform(r)
    PROVE  OwedInv'
<1>1. /\ loop = <<>> /\ rt[r[1]][r[2]].pending /\ loop' = r
      /\ owed' = owed \ {<<r, rt[r[1]][r[2]].value>>} /\ UNCHANGED <<table, rt>>
  BY DEF Perform
<1>2. ActionRefs' = ActionRefs
  BY <1>1 DEF ActionRefs
<1>3. SlotInv'
  BY <1>1, <1>2 DEF OwedInv, SlotInv
<1>4. loop # r
  BY <1>1, RefFacts
<1>5. AcceptedIsPerformedOnce'
  <2> SUFFICES ASSUME NEW q \in ActionRefs
               PROVE  LET z == rt[q[1]][q[2]]
                          owing == {o \in owed' : o[1] = q}
                      IN  /\ z.pending /\ loop' # q => owing = {<<q, z.value>>}
                          /\ ~z.pending \/ loop' = q => owing = {}
                          /\ z.result.state = "accepted" => ~z.pending
                          /\ z.result.state = "running" => z.pending
    BY <1>1, <1>2 DEF AcceptedIsPerformedOnce
  <2> DEFINE z == rt[q[1]][q[2]]
             was == {o \in owed : o[1] = q}
             owing == {o \in owed' : o[1] = q}
  <2>1. /\ z.pending => was = {<<q, z.value>>}
        /\ ~z.pending => was = {}
        /\ z.result.state = "accepted" => ~z.pending
        /\ z.result.state = "running" => z.pending
    <3>1. q # <<>>
      BY RefFacts
    <3> QED BY <1>1, <3>1 DEF OwedInv, AcceptedIsPerformedOnce
  <2>2. CASE q = r
    <3>1. owing = {}
      BY <2>1, <2>2, <1>1
    <3> QED BY <2>1, <2>2, <3>1, <1>1
  <2>3. CASE q # r
    <3>1. owing = was
      BY <2>3, <1>1
    <3> QED BY <2>1, <2>3, <3>1, <1>1
  <2> QED BY <2>2, <2>3
<1> QED BY <1>3, <1>5 DEF OwedInv

(* What is recorded of a slot.                                             *)
LEMMA RecordedSlot ==
    ASSUME NEW st, NEW c, NEW w, NEW p, NEW v
    PROVE  Recorded([result |-> [state |-> st, code |-> c, value |-> w], pending |-> p, value |-> v])
             = [result |-> [state |-> "accepted", code |-> "applied", value |-> w],
                pending |-> FALSE, value |-> v]
<1> DEFINE no == FALSE
           r0 == [state |-> st, code |-> c, value |-> w]
           r1 == [state |-> "accepted", code |-> c, value |-> w]
           r2 == [state |-> "accepted", code |-> "applied", value |-> w]
           slot == [result |-> r0, pending |-> p, value |-> v]
           s0 == [result |-> r0, pending |-> no, value |-> v]
           s1 == [result |-> r1, pending |-> no, value |-> v]
           s2 == [result |-> r2, pending |-> no, value |-> v]
<1>1. [r0 EXCEPT !.state = "accepted"] = r1 /\ [r1 EXCEPT !.code = "applied"] = r2
  OBVIOUS
<1> HIDE DEF no, r0, r1, r2
<1>2. [slot EXCEPT !.pending = no] = s0
  OBVIOUS
<1>3. [s0 EXCEPT !.result.state = "accepted"] = s1
  <2>1. [s0 EXCEPT !.result = r1] = s1
    OBVIOUS
  <2>2. s0.result = r0
    OBVIOUS
  <2> QED BY <1>1, <2>1, <2>2
<1>4. [s1 EXCEPT !.result.code = "applied"] = s2
  <2>1. [s1 EXCEPT !.result = r2] = s2
    OBVIOUS
  <2>2. s1.result = r1
    OBVIOUS
  <2> QED BY <1>1, <2>1, <2>2
<1> HIDE DEF slot, s0, s1, s2
<1>5. Recorded(slot) = s2
  BY <1>2, <1>3, <1>4 DEF Recorded, no
<1> QED BY <1>5 DEF slot, s2, r0, r2, no

(* The action performed is recorded: its slot is free.                     *)
LEMMA StepRecord ==
    ASSUME OwedInv, Record
    PROVE  OwedInv'
<1> DEFINE n == loop[1]
           k == loop[2]
           slot == rt[n][k]
           s == Recorded(slot)
<1>1. loop # <<>> /\ loop' = <<>> /\ rt' = [rt EXCEPT ![n][k] = s] /\ UNCHANGED <<table, owed>>
  BY DEF Record
<1>2. loop \in ActionRefs /\ slot.pending
  BY <1>1 DEF OwedInv, SlotInv
<1>3. n \in DOMAIN table /\ k \in DOMAIN table[n].actions /\ loop = <<n, k>>
  BY <1>2, RefFacts
<1>4. IsSlot(slot) /\ SlotFamily(table, rt)
  BY <1>3 DEF OwedInv, SlotInv, SlotFamily
<1>5. IsSlot(s) /\ ~s.pending /\ s.result.state = "accepted"
  <2> DEFINE st == slot.result.state
             c == slot.result.code
             w == slot.result.value
             p == slot.pending
             v == slot.value
  <2>1. slot = [result |-> [state |-> st, code |-> c, value |-> w], pending |-> p, value |-> v]
    BY <1>4 DEF IsSlot, IsResult
  <2> HIDE DEF st, c, w, p, v, slot
  <2>2. s = [result |-> [state |-> "accepted", code |-> "applied", value |-> w],
             pending |-> FALSE, value |-> v]
    BY <2>1, RecordedSlot
  <2> HIDE DEF s
  <2> QED BY <2>2 DEF IsSlot, IsResult
<1>6. /\ SlotFamily(table, rt') /\ rt'[n][k] = s
      /\ \A m \in DOMAIN table : \A j \in DOMAIN table[m].actions :
           <<m, j>> # <<n, k>> => rt'[m][j] = rt[m][j]
  <2> DEFINE g == rt'
  <2>1. g = [rt EXCEPT ![n][k] = s]
    BY <1>1
  <2>2. n \in DOMAIN table /\ k \in DOMAIN table[n].actions /\ SlotFamily(table, rt) /\ IsSlot(s)
    BY <1>3, <1>4, <1>5
  <2> HIDE DEF g, n, k, s
  <2>3. OneSlot(table, rt, n, k, s, g)
    BY <2>1, <2>2, SlotChange
  <2> QED BY <2>3 DEF g, OneSlot
<1> HIDE DEF s
<1>7. \A q \in ActionRefs : q # loop => rt'[q[1]][q[2]] = rt[q[1]][q[2]]
  <2> SUFFICES ASSUME NEW q \in ActionRefs, q # loop PROVE rt'[q[1]][q[2]] = rt[q[1]][q[2]]
    OBVIOUS
  <2>1. q = <<q[1], q[2]>> /\ q[1] \in DOMAIN table /\ q[2] \in DOMAIN table[q[1]].actions
    BY RefFacts
  <2>2. <<q[1], q[2]>> # <<n, k>>
    BY <2>1, <1>3
  <2> QED BY <2>1, <2>2, <1>6
<1>8. ActionRefs' = ActionRefs
  BY <1>1 DEF ActionRefs
<1>9. SlotInv'
  BY <1>1, <1>6 DEF SlotInv
<1>10. AcceptedIsPerformedOnce'
  <2> SUFFICES ASSUME NEW q \in ActionRefs
               PROVE  LET z == rt'[q[1]][q[2]]
                          owing == {o \in owed : o[1] = q}
                      IN  /\ z.pending => owing = {<<q, z.value>>}
                          /\ ~z.pending => owing = {}
                          /\ z.result.state = "accepted" => ~z.pending
                          /\ z.result.state = "running" => z.pending
    <3>1. \A q \in ActionRefs : q # loop'
      BY <1>1, RefFacts
    <3> QED BY <1>1, <1>8, <3>1 DEF AcceptedIsPerformedOnce
  <2> DEFINE y == rt[q[1]][q[2]]
             was == {o \in owed : o[1] = q}
  <2>1. /\ y.pending /\ loop # q => was = {<<q, y.value>>}
        /\ ~y.pending \/ loop = q => was = {}
        /\ y.result.state = "accepted" => ~y.pending
        /\ y.result.state = "running" => y.pending
    BY DEF OwedInv, AcceptedIsPerformedOnce
  <2>2. CASE q # loop
    <3>1. rt'[q[1]][q[2]] = rt[q[1]][q[2]]
      BY <2>2, <1>7
    <3> QED BY <2>1, <2>2, <3>1
  <2>3. CASE q = loop
    <3>1. rt'[q[1]][q[2]] = s
      BY <2>3, <1>6
    <3> QED BY <2>1, <2>3, <3>1, <1>5
  <2> QED BY <2>2, <2>3
<1> QED BY <1>9, <1>10 DEF OwedInv

(* Every step keeps what is owed.                                          *)
LEMMA OwedStep ==
    ASSUME OwedInv, [Next]_vars
    PROVE  OwedInv'
<1>1. ASSUME UNCHANGED <<table, rt, loop, owed>> PROVE OwedInv'
  <2>1. ActionRefs' = ActionRefs
    BY <1>1 DEF ActionRefs
  <2> QED BY <1>1, <2>1 DEF OwedInv, SlotInv, AcceptedIsPerformedOnce
<1>2. ASSUME NEW src \in Sources, Toggle(src) PROVE OwedInv'
  BY <1>1, <1>2 DEF Toggle
<1>3. CASE Sample
  BY <1>1, <1>3 DEF Sample
<1>4. ASSUME NEW r \in ActionRefs, Perform(r) PROVE OwedInv'
  BY <1>4, StepPerform
<1>5. ASSUME NEW r \in ActionRefs, NEW body \in Bodies, Post(r, body) PROVE OwedInv'
  BY <1>5, StepPost
<1>6. CASE Record
  BY <1>6, StepRecord
<1>7. CASE CopySnapshot
  BY <1>1, <1>7 DEF CopySnapshot
<1>8. CASE Answer
  BY <1>1, <1>8 DEF Answer
<1>9. CASE UNCHANGED vars
  BY <1>1, <1>9 DEF vars
<1> QED BY <1>2, <1>3, <1>4, <1>5, <1>6, <1>7, <1>8, <1>9 DEF Next

(* An accepted action is performed once and only then recorded, however    *)
(* the loop and the task of the web server interleave (serve_action_,      *)
(* run_actions_): while it waits its slot holds the accepted value, and no *)
(* other post takes the slot before it is recorded.                        *)
THEOREM ActionTheorem == Spec => []AcceptedIsPerformedOnce
<1>1. OwedInv => AcceptedIsPerformedOnce
  BY DEF OwedInv
<1> QED BY <1>1, InitOwed, OwedStep, PTL DEF Spec

-----------------------------------------------------------------------------
(* Every nonempty set of naturals has a least element.                     *)
Below == {p \in Nat \X Nat : p[1] < p[2]}
LEMMA BelowIsWellFounded == IsWellFoundedOn(Below, Nat)
<1>1. OpToRel(<, Nat) = Below
  BY Zenon DEF OpToRel, Below
<1> QED BY <1>1, NatLessThanWellFounded, Zenon

LEMMA Least ==
    ASSUME NEW T, T \subseteq Nat, T # {}
    PROVE  \E x \in T : \A y \in T : x <= y
<1>1. PICK x \in T : \A y \in T : ~ (<<y, x>> \in Below)
  BY BelowIsWellFounded, WFMin
<1>2. ASSUME NEW y \in T PROVE x <= y
  <2>1. ~ (<<y, x>> \in Below) /\ x \in Nat /\ y \in Nat
    BY <1>1
  <2> QED BY <2>1 DEF Below
<1> QED BY <1>2

-----------------------------------------------------------------------------
(* What is shown of a node depends on its readings and verdicts, not on    *)
(* ages.  Samples are records.                                             *)
IsSample(s) == DOMAIN s = {"has", "num", "text", "age"}
SameReading(s, t) == s.has = t.has /\ s.num = t.num /\ s.text = t.text

(* Two samples that are equal but for their age read the same.             *)
LEMMA MaskedReading ==
    ASSUME NEW s, NEW t, IsSample(s), IsSample(t),
           [s EXCEPT !.age = 0] = [t EXCEPT !.age = 0]
    PROVE  SameReading(s, t)
<1> DEFINE sm == [s EXCEPT !.age = 0]
           tm == [t EXCEPT !.age = 0]
<1>1. DOMAIN s = {"has", "num", "text", "age"} /\ DOMAIN t = {"has", "num", "text", "age"}
  BY DEF IsSample
<1>2. sm.has = s.has /\ sm.num = s.num /\ sm.text = s.text
  BY <1>1
<1>3. tm.has = t.has /\ tm.num = t.num /\ tm.text = t.text
  BY <1>1
<1> QED BY <1>2, <1>3 DEF SameReading

(* The state of a verdict and the reading give the verdict and the level.  *)
LEMMA SameVerdict ==
    ASSUME NEW v, NEW s, NEW t, NEW budget, SameReading(s, t),
           ClassifyValue(v, s, budget).state = ClassifyValue(v, t, budget).state
    PROVE  /\ ClassifyValue(v, s, budget) = ClassifyValue(v, t, budget)
           /\ Level(v, s) = Level(v, t)
<1>1. s.has = t.has /\ s.num = t.num /\ s.text = t.text
  BY DEF SameReading
<1>2. Level(v, s) = Level(v, t)
  BY <1>1 DEF Level
<1>3. ClassifyValue(v, s, budget) = ClassifyValue(v, t, budget)
  <2> DEFINE none(x) == ~x.has \/ (Kind(v) = "sensor" /\ x.num = NaN)
             cut(x) == Kind(v) = "text_sensor" /\ x.text = "long"
             old(x) == budget # NoBudget /\ Kind(v) # "binary_sensor" /\ x.age > budget
             r1 == [class |-> "sna", state |-> "absent", code |-> "value_not_available"]
             r2 == [class |-> "sna", state |-> "degraded", code |-> "value_not_available"]
             r3 == [class |-> "real", state |-> "stale", code |-> "stale_data"]
             r4 == [class |-> "real", state |-> "ok", code |-> ""]
  <2>1. \A x : ClassifyValue(v, x, budget) =
                 IF none(x) THEN r1 ELSE IF cut(x) THEN r2 ELSE IF old(x) THEN r3 ELSE r4
    BY DEF ClassifyValue
  <2>2. (none(s) <=> none(t)) /\ (cut(s) <=> cut(t))
    BY <1>1
  <2>3. r3.state # r4.state
    OBVIOUS
  <2> HIDE DEF none, cut, old, r1, r2, r3, r4
  <2>4. CASE none(s)
    BY <2>1, <2>2, <2>4
  <2>5. CASE ~none(s) /\ cut(s)
    BY <2>1, <2>2, <2>5
  <2>6. CASE ~none(s) /\ ~cut(s)
    <3>1. /\ ClassifyValue(v, s, budget) = IF old(s) THEN r3 ELSE r4
          /\ ClassifyValue(v, t, budget) = IF old(t) THEN r3 ELSE r4
      BY <2>1, <2>2, <2>6
    <3> QED BY <3>1, <2>3
  <2> QED BY <2>4, <2>5, <2>6
<1> QED BY <1>2, <1>3

(* Rows of samples of one node that read the same.                         *)
AlikeRow(node, ss, ts) ==
    \A k \in DOMAIN node.values :
        /\ SameReading(ss[k], ts[k])
        /\ ClassifyValue(node.values[k], ss[k], node.budget).state
             = ClassifyValue(node.values[k], ts[k], node.budget).state

(* OwnState() of a node whose presence is not read live.                   *)
StaticState(node, ss) ==
    IF node.absent_why # {} THEN "absent"
    ELSE IF UnknownWhenMatches(node, ss) \/ NotRequested(node, ss) THEN "unknown"
    ELSE IF (\E r \in Verdicts(node, ss) : r.class = "sna") \/ WorstLimit(node, ss) # 0
        THEN "degraded"
    ELSE IF \E r \in Verdicts(node, ss) : r.state = "stale" THEN "stale" ELSE "ok"


(* Such rows give the node the same state and reasons, and the same values. *)
SameShown(node, ss, ts) ==
    /\ StaticState(node, ss) = StaticState(node, ts)
    /\ NotRequested(node, ss) = NotRequested(node, ts)
    /\ \A state : NodeWhy(node, ss, state) = NodeWhy(node, ts, state)
    /\ \A keyed : \A k \in DOMAIN node.values :
         WriteValue(node.values[k], ss[k], node.budget, keyed)
           = WriteValue(node.values[k], ts[k], node.budget, keyed)

(* The worst value depends on the levels, and is one of the node's.        *)
FirstOf(ks) == CHOOSE k \in ks : \A j \in ks : k <= j
AtLevel(node, ss, level) == {k \in DOMAIN node.values : Level(node.values[k], ss[k]) = level}
LEMMA WorstIs ==
    ASSUME NEW node, NEW ss
    PROVE  WorstLimit(node, ss) =
             IF AtLevel(node, ss, "bad") # {} THEN FirstOf(AtLevel(node, ss, "bad"))
             ELSE IF AtLevel(node, ss, "warn") # {} THEN FirstOf(AtLevel(node, ss, "warn")) ELSE 0
BY DEF WorstLimit, FirstOf, AtLevel

LEMMA SameWorst ==
    ASSUME NEW node, NEW ss, NEW ts,
           \A k \in DOMAIN node.values : Level(node.values[k], ss[k]) = Level(node.values[k], ts[k])
    PROVE  WorstLimit(node, ss) = WorstLimit(node, ts)
<1>1. \A level : AtLevel(node, ss, level) = AtLevel(node, ts, level)
  BY DEF AtLevel
<1> QED BY <1>1, WorstIs

LEMMA WorstIsOne ==
    ASSUME NEW node, NEW ss, DOMAIN node.values \subseteq Nat, WorstLimit(node, ss) # 0
    PROVE  WorstLimit(node, ss) \in DOMAIN node.values
<1>1. ASSUME NEW level, AtLevel(node, ss, level) # {}
      PROVE  FirstOf(AtLevel(node, ss, level)) \in DOMAIN node.values
  <2>1. AtLevel(node, ss, level) \subseteq Nat /\ AtLevel(node, ss, level) \subseteq DOMAIN node.values
    BY DEF AtLevel
  <2>2. \E x \in AtLevel(node, ss, level) : \A y \in AtLevel(node, ss, level) : x <= y
    BY <1>1, <2>1, Least
  <2>3. FirstOf(AtLevel(node, ss, level)) \in AtLevel(node, ss, level)
    BY <2>2 DEF FirstOf
  <2> QED BY <2>1, <2>3
<1> QED BY <1>1, WorstIs

LEMMA SameNode ==
    ASSUME NEW node, NEW ss, NEW ts, AlikeRow(node, ss, ts),
           DOMAIN ss = DOMAIN node.values, DOMAIN ts = DOMAIN node.values,
           DOMAIN node.values \subseteq Nat
    PROVE  SameShown(node, ss, ts)
<1>1. \A k \in DOMAIN node.values :
         /\ ss[k].has = ts[k].has /\ ss[k].num = ts[k].num /\ ss[k].text = ts[k].text
         /\ ClassifyValue(node.values[k], ss[k], node.budget)
              = ClassifyValue(node.values[k], ts[k], node.budget)
         /\ Level(node.values[k], ss[k]) = Level(node.values[k], ts[k])
  BY SameVerdict DEF AlikeRow, SameReading
<1>2. WorstLimit(node, ss) = WorstLimit(node, ts)
  BY <1>1, SameWorst
<1>3. NotRequested(node, ss) = NotRequested(node, ts)
  BY <1>1 DEF NotRequested
<1>4. UnknownWhenMatches(node, ss) = UnknownWhenMatches(node, ts)
  <2>1. \A key, text : Reads(node, ss, key, text) = Reads(node, ts, key, text)
    BY <1>1 DEF Reads, FindValue
  <2> QED BY <2>1 DEF UnknownWhenMatches
<1>5. Verdicts(node, ss) = Verdicts(node, ts)
  BY <1>1 DEF Verdicts
<1>6. StaticState(node, ss) = StaticState(node, ts)
  BY <1>2, <1>3, <1>4, <1>5 DEF StaticState
<1>7. ASSUME NEW state PROVE NodeWhy(node, ss, state) = NodeWhy(node, ts, state)
  <2> DEFINE worst == WorstLimit(node, ss)
  <2>1. worst # 0 => worst \in DOMAIN node.values
    BY WorstIsOne
  <2> QED BY <1>1, <1>2, <1>4, <1>5, <2>1 DEF NodeWhy
<1>8. ASSUME NEW keyed, NEW k \in DOMAIN node.values
      PROVE  WriteValue(node.values[k], ss[k], node.budget, keyed)
               = WriteValue(node.values[k], ts[k], node.budget, keyed)
  BY <1>1 DEF WriteValue
<1> QED BY <1>3, <1>6, <1>7, <1>8 DEF SameShown

(* An action shows the state and the code of its result.                   *)
ShownAction(node, a, sample, result, keyed) ==
    [WriteAction(node, a, sample, result, keyed) EXCEPT !.result.value = Null]

LEMMA ResultMasked ==
    ASSUME NEW k, NEW p, NEW c, NEW e, NEW w, NEW v, NEW o, NEW lo, NEW hi, NEW st, NEW r
    PROVE  [[key |-> k, path |-> p, control |-> c, enabled |-> e, why |-> w, value |-> v,
             options |-> o, min |-> lo, max |-> hi, step |-> st, result |-> r]
               EXCEPT !.result.value = Null]
             = [key |-> k, path |-> p, control |-> c, enabled |-> e, why |-> w, value |-> v,
                options |-> o, min |-> lo, max |-> hi, step |-> st,
                result |-> [r EXCEPT !.value = Null]]
<1> DEFINE q == [r EXCEPT !.value = Null]
           x == [key |-> k, path |-> p, control |-> c, enabled |-> e, why |-> w, value |-> v,
                 options |-> o, min |-> lo, max |-> hi, step |-> st, result |-> r]
           y == [key |-> k, path |-> p, control |-> c, enabled |-> e, why |-> w, value |-> v,
                 options |-> o, min |-> lo, max |-> hi, step |-> st, result |-> q]
<1>1. x.result = r
  OBVIOUS
<1>2. [x EXCEPT !.result = q] = y
  <2> HIDE DEF q
  <2> QED OBVIOUS
<1>3. [x EXCEPT !.result.value = Null] = [x EXCEPT !.result = q]
  <2> HIDE DEF x
  <2> QED BY <1>1
<1> QED BY <1>2, <1>3

LEMMA SameAction ==
    ASSUME NEW node, NEW a, NEW sample, NEW keyed, NEW r, NEW q, IsResult(r), IsResult(q),
           r.state = q.state, r.code = q.code
    PROVE  ShownAction(node, a, sample, r, keyed) = ShownAction(node, a, sample, q, keyed)
<1>1. [r EXCEPT !.value = Null] = [q EXCEPT !.value = Null]
  <2> DEFINE st == r.state
             c == r.code
             x == r.value
             y == q.value
             n == Null
  <2>1. r = [state |-> st, code |-> c, value |-> x] /\ q = [state |-> st, code |-> c, value |-> y]
    BY DEF IsResult
  <2> HIDE DEF st, c, x, y, n
  <2>2. /\ [r EXCEPT !.value = n] = [state |-> st, code |-> c, value |-> n]
        /\ [q EXCEPT !.value = n] = [state |-> st, code |-> c, value |-> n]
    BY <2>1
  <2> QED BY <2>2 DEF n
<1> DEFINE en == sample.enabled \/ a.control \in {"switch", "button"}
           why == IF en THEN NoWhy ELSE [code |-> "entity_unavailable", evidence |-> {}]
           number(x) == IF a.control = "number" /\ keyed
                        THEN Json("number", Printed(x, Decimals(a)), "") ELSE Null
           lo == number(1000 * a.min)
           hi == number(1000 * a.max)
           st == number(a.step)
           k == a.key
           p == <<node.id, a.key>>
           c == a.control
           v == sample.value
           o == a.options
           action(x) == [key |-> k, path |-> p, control |-> c, enabled |-> en, why |-> why,
                         value |-> v, options |-> o, min |-> lo, max |-> hi, step |-> st,
                         result |-> x]
<1>2. \A x : WriteAction(node, a, sample, x, keyed) = action(x)
  BY DEF WriteAction
<1> HIDE DEF en, why, number, lo, hi, st, k, p, c, v, o
<1>3. \A x : [action(x) EXCEPT !.result.value = Null] = action([x EXCEPT !.value = Null])
  BY ResultMasked
<1> HIDE DEF action
<1>4. \A x : ShownAction(node, a, sample, x, keyed) = action([x EXCEPT !.value = Null])
  BY <1>2, <1>3 DEF ShownAction
<1> QED BY <1>1, <1>4

(* Places number the positions of a set, and the order lists them.         *)
LEMMA OrderPlaces ==
    ASSUME NEW served, NEW len \in Nat, served \subseteq 1 .. len
    PROVE  LET size == Cardinality(served)
               order == InOrder(served)
           IN  /\ size \in Nat /\ DOMAIN order = 1 .. size
               /\ \A n \in served : Place(served, n) \in 1 .. size /\ order[Place(served, n)] = n
               /\ \A i \in 1 .. size : order[i] \in served /\ Place(served, order[i]) = i
               /\ \A m, n \in served : m < n => Place(served, m) < Place(served, n)
<1> DEFINE upto(n) == {m \in served : m <= n}
           size == Cardinality(served)
           place == [n \in served |-> Place(served, n)]
<1>1. IsFiniteSet(served) /\ size \in Nat
  <2>1. IsFiniteSet(1 .. len)
    BY FS_Interval
  <2> QED BY <2>1, FS_Subset, FS_CardinalityType
<1>2. \A n \in served : /\ IsFiniteSet(upto(n)) /\ Cardinality(upto(n)) \in Nat
                        /\ Cardinality(upto(n)) <= size
  <2> SUFFICES ASSUME NEW n \in served
               PROVE  /\ IsFiniteSet(upto(n)) /\ Cardinality(upto(n)) \in Nat
                      /\ Cardinality(upto(n)) <= size
    OBVIOUS
  <2>1. upto(n) \in SUBSET served
    OBVIOUS
  <2> HIDE DEF upto
  <2> QED BY <1>1, <2>1, FS_Subset, FS_CardinalityType
<1>3. \A n \in served : Place(served, n) \in 1 .. size
  <2> SUFFICES ASSUME NEW n \in served PROVE Place(served, n) \in 1 .. size
    OBVIOUS
  <2>1. n \in upto(n)
    OBVIOUS
  <2>2. Cardinality(upto(n)) # 0
    <3> HIDE DEF upto
    <3> QED BY <1>2, <2>1, FS_EmptySet
  <2> QED BY <1>1, <1>2, <2>2 DEF Place
<1>4. \A m, n \in served : m < n => Place(served, m) < Place(served, n)
  <2> SUFFICES ASSUME NEW m \in served, NEW n \in served, m < n
               PROVE  Place(served, m) < Place(served, n)
    OBVIOUS
  <2>0. m \in Int /\ n \in Int /\ \A x \in served : x \in Int
    OBVIOUS
  <2>1. upto(m) \in SUBSET upto(n) /\ n \in upto(n) /\ n \notin upto(m)
    <3>1. ASSUME NEW x \in upto(m) PROVE x \in upto(n)
      <4>1. x \in served /\ x <= m /\ x \in Int
        BY <2>0
      <4>2. x <= n
        BY <2>0, <4>1
      <4> QED BY <4>1, <4>2
    <3>2. n <= n /\ ~ (n <= m)
      BY <2>0
    <3> QED BY <3>1, <3>2
  <2>2. Cardinality(upto(m)) <= Cardinality(upto(n)) /\ Cardinality(upto(m)) # Cardinality(upto(n))
    <3> HIDE DEF upto
    <3> QED BY <1>2, <2>1, FS_Subset
  <2> QED BY <1>2, <2>2 DEF Place
<1>5. \A m, n \in served : Place(served, m) = Place(served, n) => m = n
  <2> SUFFICES ASSUME NEW m \in served, NEW n \in served, m # n
               PROVE  Place(served, m) # Place(served, n)
    OBVIOUS
  <2>1. m < n \/ n < m
    OBVIOUS
  <2> QED BY <2>1, <1>3, <1>4
<1>6. place \in Injection(served, 1 .. size)
  <2>1. place \in [served -> 1 .. size]
    BY <1>3
  <2>2. \A m, n \in served : place[m] = place[n] => m = n
    BY <1>5
  <2> HIDE DEF place
  <2> QED BY <2>1, <2>2 DEF Injection, IsInjective
<1>7. place \in Surjection(served, 1 .. size)
  <2>1. IsFiniteSet(1 .. size) /\ Cardinality(1 .. size) = size
    BY <1>1, FS_Interval
  <2> HIDE DEF place
  <2> QED BY <1>6, <2>1, FS_Injection
<1>8. ASSUME NEW i \in 1 .. size PROVE InOrder(served)[i] \in served /\ Place(served, InOrder(served)[i]) = i
  <2>1. \E n \in served : place[n] = i
    <3> HIDE DEF place
    <3> QED BY <1>7 DEF Surjection
  <2>2. \E n \in served : Place(served, n) = i
    BY <2>1
  <2>3. InOrder(served)[i] = CHOOSE n \in served : Place(served, n) = i
    BY DEF InOrder
  <2> QED BY <2>2, <2>3
<1>9. ASSUME NEW n \in served PROVE InOrder(served)[Place(served, n)] = n
  BY <1>3, <1>5, <1>8
<1>10. DOMAIN InOrder(served) = 1 .. size
  BY DEF InOrder
<1> QED BY <1>1, <1>3, <1>4, <1>8, <1>9, <1>10

(* What a client is shown, as a function of the table and of a copy.       *)
StaticStates(tree, vs) ==
    Settle(tree, [n \in DOMAIN tree |-> StaticState(tree[n], vs[n])],
           {n \in DOMAIN tree : NotRequested(tree[n], vs[n])})
ViewNode(node, ss, as, rs, keyed, state, live) ==
    [state |-> IF live THEN None ELSE state,
     why |-> IF live THEN NoWhy ELSE NodeWhy(node, ss, state),
     values |-> [k \in DOMAIN ss |-> WriteValue(node.values[k], ss[k], node.budget, keyed)],
     actions |-> [k \in DOMAIN node.actions |->
                    ShownAction(node, node.actions[k], as[k], rs[k], keyed)]]
ViewAt(tree, c, n, live) ==
    ViewNode(tree[n], c.vals[n], c.acts[n], c.results[n], c.keyed,
             StaticStates(tree, c.vals)[n], live)
View(tree, c, live) ==
    [i \in DOMAIN InOrder(Subtree(tree, 1)) |->
        ViewAt(tree, c, InOrder(Subtree(tree, 1))[i], live)]

(* Samples and results, one family for each node of the tree.              *)
IsTree(tree) ==
    /\ \E len \in Nat : DOMAIN tree = 1 .. len /\ Len(tree) = len
    /\ \A n \in DOMAIN tree : DOMAIN tree[n].values \subseteq Nat
SampleFamily(tree, vs) ==
    /\ DOMAIN vs = DOMAIN tree
    /\ \A n \in DOMAIN tree :
         /\ DOMAIN vs[n] = DOMAIN tree[n].values
         /\ \A k \in DOMAIN tree[n].values : IsSample(vs[n][k])
ResultFamily(tree, rs) ==
    \A n \in DOMAIN tree :
         /\ DOMAIN rs[n] = DOMAIN tree[n].actions
         /\ \A k \in DOMAIN tree[n].actions : IsResult(rs[n][k])
AlikeResults(tree, rs, qs) ==
    \A n \in DOMAIN tree : \A k \in DOMAIN tree[n].actions :
        rs[n][k].state = qs[n][k].state /\ rs[n][k].code = qs[n][k].code
Alike(tree, c, d) ==
    /\ \A n \in DOMAIN tree : AlikeRow(tree[n], c.vals[n], d.vals[n])
    /\ c.acts = d.acts /\ c.keyed = d.keyed
    /\ AlikeResults(tree, c.results, d.results)

(* Copies that are alike show the same.                                    *)
LEMMA SameView ==
    ASSUME NEW tree, NEW c, NEW d, NEW live, IsTree(tree), Alike(tree, c, d),
           SampleFamily(tree, c.vals), SampleFamily(tree, d.vals),
           ResultFamily(tree, c.results), ResultFamily(tree, d.results)
    PROVE  View(tree, c, live) = View(tree, d, live)
<1>1. ASSUME NEW n \in DOMAIN tree PROVE SameShown(tree[n], c.vals[n], d.vals[n])
  <2> DEFINE node == tree[n]
             ss == c.vals[n]
             ts == d.vals[n]
  <2>1. AlikeRow(node, ss, ts) /\ DOMAIN node.values \subseteq Nat
    BY DEF Alike, IsTree
  <2>2. DOMAIN ss = DOMAIN node.values /\ DOMAIN ts = DOMAIN node.values
    BY DEF SampleFamily
  <2> HIDE DEF node, ss, ts
  <2>3. SameShown(node, ss, ts)
    BY <2>1, <2>2, SameNode
  <2> QED BY <2>3 DEF node, ss, ts
<1>2. StaticStates(tree, c.vals) = StaticStates(tree, d.vals)
  <2>1. [n \in DOMAIN tree |-> StaticState(tree[n], c.vals[n])]
          = [n \in DOMAIN tree |-> StaticState(tree[n], d.vals[n])]
    BY <1>1 DEF SameShown
  <2>2. {n \in DOMAIN tree : NotRequested(tree[n], c.vals[n])}
          = {n \in DOMAIN tree : NotRequested(tree[n], d.vals[n])}
    BY <1>1 DEF SameShown
  <2> QED BY <2>1, <2>2 DEF StaticStates
<1>3. ASSUME NEW n \in DOMAIN tree PROVE ViewAt(tree, c, n, live) = ViewAt(tree, d, n, live)
  <2> DEFINE node == tree[n]
             ss == c.vals[n]
             ts == d.vals[n]
             state == StaticStates(tree, c.vals)[n]
             keyed == c.keyed
             as == c.acts[n]
             rs == c.results[n]
             qs == d.results[n]
  <2>1. SameShown(node, ss, ts)
    BY <1>1
  <2>2. DOMAIN ss = DOMAIN node.values /\ DOMAIN ts = DOMAIN node.values
    BY DEF SampleFamily
  <2>3. \A k \in DOMAIN node.actions :
          /\ IsResult(rs[k]) /\ IsResult(qs[k])
          /\ rs[k].state = qs[k].state /\ rs[k].code = qs[k].code
    BY DEF Alike, AlikeResults, ResultFamily
  <2>4. /\ ViewAt(tree, c, n, live) = ViewNode(node, ss, as, rs, keyed, state, live)
        /\ ViewAt(tree, d, n, live) = ViewNode(node, ts, as, qs, keyed, state, live)
    BY <1>2 DEF ViewAt, Alike
  <2> HIDE DEF node, ss, ts, state, keyed, as, rs, qs
  <2>5. [k \in DOMAIN ss |-> WriteValue(node.values[k], ss[k], node.budget, keyed)]
          = [k \in DOMAIN ts |-> WriteValue(node.values[k], ts[k], node.budget, keyed)]
    BY <2>1, <2>2 DEF SameShown
  <2>6. [k \in DOMAIN node.actions |-> ShownAction(node, node.actions[k], as[k], rs[k], keyed)]
          = [k \in DOMAIN node.actions |-> ShownAction(node, node.actions[k], as[k], qs[k], keyed)]
    <3>1. ASSUME NEW k \in DOMAIN node.actions
          PROVE  ShownAction(node, node.actions[k], as[k], rs[k], keyed)
                   = ShownAction(node, node.actions[k], as[k], qs[k], keyed)
      <4> DEFINE r == rs[k]
                 q == qs[k]
      <4>1. IsResult(r) /\ IsResult(q) /\ r.state = q.state /\ r.code = q.code
        BY <2>3
      <4> HIDE DEF r, q
      <4>2. ShownAction(node, node.actions[k], as[k], r, keyed)
              = ShownAction(node, node.actions[k], as[k], q, keyed)
        BY <4>1, SameAction
      <4> QED BY <4>2 DEF r, q
    <3> QED BY <3>1
  <2>7. NodeWhy(node, ss, state) = NodeWhy(node, ts, state)
    BY <2>1 DEF SameShown
  <2>8. ViewNode(node, ss, as, rs, keyed, state, live) = ViewNode(node, ts, as, qs, keyed, state, live)
    BY <2>5, <2>6, <2>7, Zenon DEF ViewNode
  <2> QED BY <2>4, <2>8
<1>4. ASSUME NEW i \in DOMAIN InOrder(Subtree(tree, 1))
      PROVE  InOrder(Subtree(tree, 1))[i] \in DOMAIN tree
  <2> DEFINE served == Subtree(tree, 1)
  <2>1. PICK len \in Nat : DOMAIN tree = 1 .. len /\ Len(tree) = len
    BY DEF IsTree
  <2>2. served \subseteq 1 .. len
    BY <2>1 DEF Subtree
  <2> HIDE DEF served
  <2>3. \A j \in DOMAIN InOrder(served) : InOrder(served)[j] \in served
    BY <2>2, OrderPlaces
  <2> QED BY <2>1, <2>2, <2>3 DEF served
<1> QED BY <1>3, <1>4 DEF View

(* What a client is shown of the envelope of a copy is its view.           *)
LEMMA ShownIsView ==
    ASSUME NEW c
    PROVE  Shown(WriteEnvelope(c, <<>>, <<>>), Live) = View(table, c, Live)
<1> DEFINE order == InOrder(Subtree(table, 1))
           states == Resolve(c.vals)
           env == WriteEnvelope(c, <<>>, <<>>)
           at(n) == IF n = 1 THEN 0 ELSE Place(Subtree(table, 1), table[n].parent)
<1>1. env.tree = [i \in DOMAIN order |-> WriteNode(order[i], at(order[i]), c, states, <<>>)]
  BY DEF WriteEnvelope
<1>2. ~Live => states = StaticStates(table, c.vals)
  <2> SUFFICES ASSUME ~Live PROVE states = StaticStates(table, c.vals)
    OBVIOUS
  <2>1. \A n \in DOMAIN table : OwnState(table[n], c.vals[n]) = StaticState(table[n], c.vals[n])
    BY DEF Live, OwnState, StaticState, IsAbsent
  <2>2. [n \in DOMAIN table |-> OwnState(table[n], c.vals[n])]
          = [n \in DOMAIN table |-> StaticState(table[n], c.vals[n])]
    BY <2>1
  <2> QED BY <2>2 DEF Resolve, StaticStates
<1> HIDE DEF order, states, env, at
<1>3. ASSUME NEW i \in DOMAIN order
      PROVE  Shown(env, Live)[i] = ViewAt(table, c, order[i], Live)
  <2> DEFINE n == order[i]
             ss == c.vals[n]
             as == c.acts[n]
             rs == c.results[n]
             node == env.tree[i]
  <2>1. node = WriteNode(n, at(n), c, states, <<>>)
    BY <1>1
  <2>2. /\ node.state = states[n] /\ node.why = NodeWhy(table[n], ss, states[n])
        /\ node.values = [k \in DOMAIN ss |->
                            WriteValue(table[n].values[k], ss[k], table[n].budget, c.keyed)]
        /\ node.actions = [k \in DOMAIN table[n].actions |->
                            WriteAction(table[n], table[n].actions[k], as[k], rs[k], c.keyed)]
    BY <2>1 DEF WriteNode
  <2>3. Shown(env, Live)[i] =
          [state |-> IF Live THEN None ELSE node.state, why |-> IF Live THEN NoWhy ELSE node.why,
           values |-> node.values,
           actions |-> [k \in DOMAIN node.actions |->
                          [node.actions[k] EXCEPT !.result.value = Null]]]
    BY <1>1 DEF Shown
  <2> HIDE DEF node, n, ss, as, rs
  <2>4. node.values
          = [k \in DOMAIN ss |-> WriteValue(table[n].values[k], ss[k], table[n].budget, c.keyed)]
    BY <2>2 
  <2>5. [k \in DOMAIN node.actions |-> [node.actions[k] EXCEPT !.result.value = Null]]
          = [k \in DOMAIN table[n].actions |->
               ShownAction(table[n], table[n].actions[k], as[k], rs[k], c.keyed)]
    BY <2>2 DEF ShownAction
  <2>6. Shown(env, Live)[i] = ViewNode(table[n], ss, as, rs, c.keyed, states[n], Live)
    BY <2>2, <2>3, <2>4, <2>5 DEF ViewNode
  <2>7. ViewNode(table[n], ss, as, rs, c.keyed, states[n], Live)
          = ViewNode(table[n], ss, as, rs, c.keyed, StaticStates(table, c.vals)[n], Live)
    BY <1>2 DEF ViewNode
  <2> QED BY <2>6, <2>7 DEF ViewAt, n, ss, as, rs
<1>4. Shown(env, Live) = [i \in DOMAIN order |-> Shown(env, Live)[i]]
  BY <1>1 DEF Shown
<1>5. View(table, c, Live) = [i \in DOMAIN order |-> ViewAt(table, c, order[i], Live)]
  BY DEF View, order
<1> QED BY <1>3, <1>4, <1>5 DEF env

-----------------------------------------------------------------------------
(* A body of the current seq, in hand or being written, is of a copy that  *)
(* is alike what would be copied now.                                      *)
IsCopy(c) == DOMAIN c = {"on", "vals", "acts", "results", "keyed", "current"}
HonestInv ==
    /\ IsTree(table) /\ SampleFamily(table, vals)
    /\ sampled \in BOOLEAN /\ (sampled => have)
    /\ client.keyed => sampled /\ client.body = View(table, Copy, Live)
    /\ req.on => IsCopy(req) /\ SampleFamily(table, req.vals) /\ ResultFamily(table, req.results)
    /\ req.on /\ req.current /\ req.keyed => sampled /\ Alike(table, req, Copy)

(* Copies that are alike a third are alike.                                *)
LEMMA AlikeTransitive ==
    ASSUME NEW tree, NEW c, NEW d, NEW e, Alike(tree, c, d), Alike(tree, d, e)
    PROVE  Alike(tree, c, e)
<1>1. \A n \in DOMAIN tree : AlikeRow(tree[n], c.vals[n], e.vals[n])
  <2> SUFFICES ASSUME NEW n \in DOMAIN tree PROVE AlikeRow(tree[n], c.vals[n], e.vals[n])
    OBVIOUS
  <2>1. AlikeRow(tree[n], c.vals[n], d.vals[n]) /\ AlikeRow(tree[n], d.vals[n], e.vals[n])
    BY DEF Alike
  <2> QED BY <2>1 DEF AlikeRow, SameReading
<1>2. AlikeResults(tree, c.results, e.results)
  BY DEF Alike, AlikeResults
<1> QED BY <1>1, <1>2 DEF Alike

Kept(tree, vs, as, rs, ws, bs, qs) ==
    /\ \A n \in DOMAIN tree : AlikeRow(tree[n], vs[n], ws[n])
    /\ as = bs /\ AlikeResults(tree, rs, qs)

(* A fingerprint that did not move: the samples and results are alike.     *)
LEMMA Unmoved ==
    ASSUME NEW vs, NEW ws, NEW as, NEW bs, NEW rs, NEW qs, NEW x, NEW y,
           SampleFamily(table, vs), SampleFamily(table, ws),
           ResultFamily(table, rs), ResultFamily(table, qs),
           FingerprintOf(vs, as, rs, x) = FingerprintOf(ws, bs, qs, y)
    PROVE  Kept(table, vs, as, rs, ws, bs, qs)
<1> DEFINE verdicts(f) == [n \in DOMAIN table |-> [k \in DOMAIN f[n] |->
                             ClassifyValue(table[n].values[k], f[n][k], table[n].budget).state]]
           readings(f) == [n \in DOMAIN table |-> [k \in DOMAIN f[n] |-> [f[n][k] EXCEPT !.age = 0]]]
           codes(f) == [n \in DOMAIN table |-> [k \in DOMAIN f[n] |-> <<f[n][k].state, f[n][k].code>>]]
<1>1. /\ FingerprintOf(vs, as, rs, x) = [verdicts |-> verdicts(vs), readings |-> readings(vs),
                                         absent |-> x, actions |-> as, results |-> codes(rs)]
      /\ FingerprintOf(ws, bs, qs, y) = [verdicts |-> verdicts(ws), readings |-> readings(ws),
                                         absent |-> y, actions |-> bs, results |-> codes(qs)]
  BY DEF FingerprintOf
<1>2. verdicts(vs) = verdicts(ws) /\ readings(vs) = readings(ws) /\ as = bs /\ codes(rs) = codes(qs)
  <2> DEFINE v1 == verdicts(vs)
             v2 == verdicts(ws)
             r1 == readings(vs)
             r2 == readings(ws)
             c1 == codes(rs)
             c2 == codes(qs)
  <2>1. [verdicts |-> v1, readings |-> r1, absent |-> x, actions |-> as, results |-> c1]
          = [verdicts |-> v2, readings |-> r2, absent |-> y, actions |-> bs, results |-> c2]
    BY <1>1
  <2> HIDE DEF v1, v2, r1, r2, c1, c2
  <2>2. v1 = v2 /\ r1 = r2 /\ as = bs /\ c1 = c2
    BY <2>1
  <2> QED BY <2>2 DEF v1, v2, r1, r2, c1, c2
<1> HIDE DEF verdicts, readings, codes
<1>3. ASSUME NEW n \in DOMAIN table PROVE AlikeRow(table[n], vs[n], ws[n])
  <2>1. DOMAIN vs[n] = DOMAIN table[n].values /\ DOMAIN ws[n] = DOMAIN table[n].values
    BY DEF SampleFamily
  <2>2. ASSUME NEW k \in DOMAIN table[n].values
        PROVE  /\ SameReading(vs[n][k], ws[n][k])
               /\ ClassifyValue(table[n].values[k], vs[n][k], table[n].budget).state
                    = ClassifyValue(table[n].values[k], ws[n][k], table[n].budget).state
    <3>1. [vs[n][k] EXCEPT !.age = 0] = [ws[n][k] EXCEPT !.age = 0]
      <4>1. readings(vs)[n][k] = [vs[n][k] EXCEPT !.age = 0]
        BY <2>1, Zenon DEF readings
      <4>2. readings(ws)[n][k] = [ws[n][k] EXCEPT !.age = 0]
        BY <2>1, Zenon DEF readings
      <4> QED BY <1>2, <4>1, <4>2
    <3>2. IsSample(vs[n][k]) /\ IsSample(ws[n][k])
      BY DEF SampleFamily
    <3>3. verdicts(vs)[n][k] = ClassifyValue(table[n].values[k], vs[n][k], table[n].budget).state
      BY <2>1 DEF verdicts
    <3>4. verdicts(ws)[n][k] = ClassifyValue(table[n].values[k], ws[n][k], table[n].budget).state
      BY <2>1 DEF verdicts
    <3> QED BY <1>2, <3>1, <3>2, <3>3, <3>4, MaskedReading
  <2> QED BY <2>2 DEF AlikeRow
<1>4. AlikeResults(table, rs, qs)
  <2> SUFFICES ASSUME NEW n \in DOMAIN table, NEW k \in DOMAIN table[n].actions
               PROVE  rs[n][k].state = qs[n][k].state /\ rs[n][k].code = qs[n][k].code
    BY DEF AlikeResults
  <2>1. k \in DOMAIN rs[n] /\ k \in DOMAIN qs[n]
    BY DEF ResultFamily
  <2>2. codes(rs)[n][k] = <<rs[n][k].state, rs[n][k].code>>
    BY <2>1 DEF codes
  <2>3. codes(qs)[n][k] = <<qs[n][k].state, qs[n][k].code>>
    BY <2>1 DEF codes
  <2> QED BY <1>2, <2>2, <2>3
<1> QED BY <1>2, <1>3, <1>4 DEF Kept

(* The results of the slots.                                               *)
LEMMA ResultFacts ==
    ASSUME NEW f, SlotFamily(table, f)
    PROVE  ResultFamily(table, Results(f))
<1> SUFFICES ASSUME NEW n \in DOMAIN table
             PROVE  /\ DOMAIN Results(f)[n] = DOMAIN table[n].actions
                    /\ \A k \in DOMAIN table[n].actions : IsResult(Results(f)[n][k])
  BY DEF ResultFamily
<1>1. DOMAIN f[n] = DOMAIN table[n].actions
      /\ \A k \in DOMAIN table[n].actions : IsResult(f[n][k].result)
  BY DEF SlotFamily, IsSlot
<1>2. Results(f)[n] = [k \in DOMAIN table[n].actions |-> f[n][k].result]
  BY <1>1 DEF Results
<1> QED BY <1>1, <1>2

(* A request that another seq overtook.                                    *)
LEMMA Overtaken ==
    ASSUME NEW c, NEW no, IsCopy(c), NEW d, d = [c EXCEPT !.current = no]
    PROVE  /\ IsCopy(d) /\ d.on = c.on /\ d.vals = c.vals /\ d.results = c.results
           /\ d.current = no
BY DEF IsCopy

(* A changed sample leaves the others as they are.                         *)
LEMMA SampleChange ==
    ASSUME NEW tree, NEW f, SampleFamily(tree, f), NEW n \in DOMAIN tree,
           NEW k \in DOMAIN tree[n].values, NEW s, IsSample(s), NEW g, g = [f EXCEPT ![n][k] = s]
    PROVE  SampleFamily(tree, g)
<1> DEFINE row == [f[n] EXCEPT ![k] = s]
<1>1. /\ DOMAIN f = DOMAIN tree
      /\ \A m \in DOMAIN tree : DOMAIN f[m] = DOMAIN tree[m].values
      /\ \A m \in DOMAIN tree : \A j \in DOMAIN tree[m].values : IsSample(f[m][j])
  BY DEF SampleFamily
<1>2. DOMAIN row = DOMAIN tree[n].values /\ row[k] = s
      /\ \A j \in DOMAIN tree[n].values : j # k => row[j] = f[n][j]
  BY <1>1
<1>3. g = [f EXCEPT ![n] = row]
  OBVIOUS
<1> HIDE DEF row
<1>4. DOMAIN g = DOMAIN tree /\ g[n] = row /\ \A m \in DOMAIN tree : m # n => g[m] = f[m]
  BY <1>1, <1>3
<1>5. ASSUME NEW m \in DOMAIN tree
      PROVE  /\ DOMAIN g[m] = DOMAIN tree[m].values
             /\ \A j \in DOMAIN tree[m].values : IsSample(g[m][j])
  <2>1. CASE m = n
    BY <2>1, <1>1, <1>2, <1>4
  <2>2. CASE m # n
    <3>1. g[m] = f[m]
      BY <2>2, <1>4
    <3> QED BY <3>1, <1>1
  <2> QED BY <2>1, <2>2
<1> QED BY <1>4, <1>5 DEF SampleFamily

(* What the loop finds of a value is a sample.                             *)
LEMMA FoundIsSample ==
    ASSUME NEW v, NEW s, NEW budget, IsSample(s), NEW t \in NextSamples(v, s, budget)
    PROVE  IsSample(t)
<1>1. CASE t = NoSample
  BY <1>1 DEF NoSample, IsSample
<1>2. ASSUME NEW num, NEW text, t = [has |-> TRUE, num |-> num, text |-> text, age |-> 0]
      PROVE  IsSample(t)
  BY <1>2 DEF IsSample
<1>3. ASSUME NEW a, t = [s EXCEPT !.age = a] PROVE IsSample(t)
  BY <1>3 DEF IsSample
<1>4. t = NoSample
      \/ (\E num, text : t = [has |-> TRUE, num |-> num, text |-> text, age |-> 0])
      \/ (\E a : t = [s EXCEPT !.age = a])
  BY DEF NextSamples
<1> QED BY <1>1, <1>2, <1>3, <1>4

(* A pass of the loop keeps one sample for each value.                     *)
LEMMA SampleShape ==
    ASSUME HonestInv, Sample
    PROVE  SampleFamily(table, vals')
<1>1. SampleFamily(table, vals)
  BY DEF HonestInv
<1>2. ASSUME NEW n \in DOMAIN table, NEW k \in DOMAIN table[n].values,
             NEW s \in NextSamples(table[n].values[k], vals[n][k], table[n].budget),
             vals' = [vals EXCEPT ![n][k] = s]
      PROVE  SampleFamily(table, vals')
  <2>1. IsSample(vals[n][k])
    BY <1>1 DEF SampleFamily
  <2>2. IsSample(s)
    BY <2>1, FoundIsSample
  <2> DEFINE g == vals'
  <2>3. g = [vals EXCEPT ![n][k] = s]
    BY <1>2
  <2> HIDE DEF g
  <2>4. SampleFamily(table, g)
    BY <1>1, <2>2, <2>3, SampleChange
  <2> QED BY <2>4 DEF g
<1> QED BY <1>1, <1>2 DEF Sample

(* The fingerprint is compared: what a body of the current seq was written *)
(* from is alike the samples and results now.                              *)
LEMMA StepUpdate ==
    ASSUME HonestInv, SlotFamily(table, rt), SlotFamily(table, rt'), table' = table,
           SampleFamily(table, vals'), sampled' \in BOOLEAN, sampled => sampled',
           UpdateSeq(vals', acts', rt')
    PROVE  HonestInv'
<1> DEFINE moved == /\ have
                    /\ FingerprintOf(vals', acts', Results(rt'), AbsentNow)
                           # FingerprintOf(vals, acts, Results(rt), seen)
           now == Copy
           next == Copy'
<1>1. /\ have' = TRUE /\ client' = IF moved THEN NotHeld ELSE client
      /\ req' = IF moved /\ req.on THEN [req EXCEPT !.current = FALSE] ELSE req
  BY DEF UpdateSeq
<1>2. /\ now.vals = vals /\ now.acts = acts /\ now.results = Results(rt) /\ now.keyed = sampled
      /\ next.vals = vals' /\ next.acts = acts' /\ next.results = Results(rt')
      /\ next.keyed = sampled'
  BY DEF Copy, Results
<1>3. IsTree(table) /\ SampleFamily(table, vals)
      /\ ResultFamily(table, Results(rt)) /\ ResultFamily(table, Results(rt'))
  <2> DEFINE f == rt'
  <2>1. SlotFamily(table, f)
    OBVIOUS
  <2> HIDE DEF f
  <2>2. ResultFamily(table, Results(f))
    BY <2>1, ResultFacts
  <2> QED BY <2>2, ResultFacts DEF HonestInv, f
<1>4. Live' = Live
  BY DEF Live
<1>5. sampled /\ ~moved => Alike(table, now, next) /\ View(table, now, Live) = View(table, next, Live)
  <2> SUFFICES ASSUME sampled, ~moved
               PROVE  Alike(table, now, next) /\ View(table, now, Live) = View(table, next, Live)
    OBVIOUS
  <2> DEFINE vs == vals'
             as == acts'
             rs == Results(rt')
  <2>1. FingerprintOf(vs, as, rs, AbsentNow) = FingerprintOf(vals, acts, Results(rt), seen)
    BY DEF HonestInv
  <2>2. SampleFamily(table, vs) /\ ResultFamily(table, rs)
    BY <1>3
  <2> HIDE DEF vs, as, rs
  <2>3. /\ \A n \in DOMAIN table : AlikeRow(table[n], vs[n], vals[n])
        /\ as = acts /\ AlikeResults(table, rs, Results(rt))
    <3> DEFINE qs == Results(rt)
               x == AbsentNow
    <3>1. /\ FingerprintOf(vs, as, rs, x) = FingerprintOf(vals, acts, qs, seen)
          /\ SampleFamily(table, vals) /\ ResultFamily(table, qs)
      BY <2>1, <1>3
    <3> HIDE DEF qs, x
    <3>2. Kept(table, vs, as, rs, vals, acts, qs)
      BY <2>2, <3>1, Unmoved
    <3> QED BY <3>2 DEF qs, Kept
  <2>4. sampled' = sampled
    BY DEF HonestInv
  <2>5. /\ next.vals = vs /\ next.acts = as /\ next.results = rs /\ next.keyed = now.keyed
    BY <1>2, <2>4 DEF vs, as, rs
  <2> HIDE DEF now, next
  <2>6. Alike(table, now, next)
    <3>1. \A n \in DOMAIN table : AlikeRow(table[n], vals[n], vs[n])
      BY <2>3 DEF AlikeRow, SameReading
    <3>2. AlikeResults(table, Results(rt), rs)
      BY <2>3 DEF AlikeResults
    <3> QED BY <1>2, <2>3, <2>5, <3>1, <3>2 DEF Alike
  <2>7. View(table, now, Live) = View(table, next, Live)
    BY <1>2, <1>3, <2>2, <2>5, <2>6, SameView
  <2> QED BY <2>6, <2>7
<1> HIDE DEF now, next, moved
<1>6. client'.keyed => sampled' /\ client'.body = View(table, next, Live)
  <2>1. CASE moved
    BY <2>1, <1>1 DEF NotHeld
  <2>2. CASE ~moved
    <3>1. client' = client
      BY <2>2, <1>1
    <3>2. client.keyed => sampled /\ client.body = View(table, now, Live)
      BY DEF HonestInv, now
    <3> QED BY <2>2, <3>1, <3>2, <1>5
  <2> QED BY <2>1, <2>2
<1>7. /\ req'.on => IsCopy(req') /\ SampleFamily(table, req'.vals) /\ ResultFamily(table, req'.results)
      /\ req'.on /\ req'.current /\ req'.keyed => sampled' /\ Alike(table, req', next)
  <2>0. /\ req.on => IsCopy(req) /\ SampleFamily(table, req.vals) /\ ResultFamily(table, req.results)
        /\ req.on /\ req.current /\ req.keyed => sampled /\ Alike(table, req, now)
    BY DEF HonestInv, now
  <2>1. CASE moved /\ req.on
    <3> DEFINE d == req'
               no == FALSE
    <3>1. d = [req EXCEPT !.current = no] /\ IsCopy(req)
      BY <2>0, <2>1, <1>1
    <3> HIDE DEF d, no
    <3>2. /\ IsCopy(d) /\ d.on = req.on /\ d.vals = req.vals /\ d.results = req.results
          /\ d.current = no
      BY <3>1, Overtaken
    <3> QED BY <3>2, <2>0, <2>1 DEF d, no
  <2>2. CASE ~(moved /\ req.on)
    <3>1. req' = req
      BY <2>2, <1>1
    <3>2. CASE req.on /\ req.current /\ req.keyed
      <4>1. ~moved /\ sampled /\ Alike(table, req, now)
        BY <2>0, <2>2, <3>2
      <4>2. Alike(table, req, next)
        BY <4>1, <1>5, AlikeTransitive
      <4> QED BY <3>1, <4>1, <4>2, <2>0
    <3> QED BY <2>0, <3>1, <3>2
  <2> QED BY <2>1, <2>2
<1> QED BY <1>1, <1>3, <1>4, <1>6, <1>7 DEF HonestInv, next
(* The table of a configuration: the root, then its nodes as emitted.      *)
LEMMA TableFacts ==
    ASSUME NEW c \in Configs
    PROVE  LET tree == NodeTable(c)
               len == 1 + Len(c.tree)
           IN  /\ len \in Nat /\ DOMAIN tree = 1 .. len /\ Len(tree) = len /\ tree[1] = Root
               /\ \A n \in DOMAIN tree : n # 1 => n - 1 \in DOMAIN c.tree /\ tree[n] = Emit(c, n - 1)
<1> DEFINE emitted == [n \in 1 .. Len(c.tree) |-> Emit(c, n)]
           tree == NodeTable(c)
           len == 1 + Len(c.tree)
<1>1. Len(c.tree) \in Nat /\ DOMAIN c.tree = 1 .. Len(c.tree)
  <2> DEFINE listed == c.tree
  <2>1. listed \in Seq(Range(listed))
    BY PortalAssumption
  <2> HIDE DEF listed
  <2>2. Len(listed) \in Nat /\ DOMAIN listed = 1 .. Len(listed)
    BY <2>1
  <2> QED BY <2>2 DEF listed
<1>2. emitted \in Seq(Range(emitted)) /\ Len(emitted) = Len(c.tree)
  BY <1>1 DEF Range
<1>3. tree = <<Root>> \o emitted
  BY DEF NodeTable
<1>4. \A n \in 1 .. Len(c.tree) : emitted[n] = Emit(c, n)
  OBVIOUS
<1> HIDE DEF emitted, tree
<1>5. /\ DOMAIN tree = 1 .. len /\ Len(tree) = len /\ len \in Nat
      /\ tree[1] = Root /\ \A n \in 2 .. len : tree[n] = emitted[n - 1]
  BY <1>1, <1>2, <1>3
<1>6. \A n \in DOMAIN tree : n # 1 => n - 1 \in DOMAIN c.tree /\ tree[n] = Emit(c, n - 1)
  <2> SUFFICES ASSUME NEW n \in DOMAIN tree, n # 1
               PROVE  n - 1 \in DOMAIN c.tree /\ tree[n] = Emit(c, n - 1)
    OBVIOUS
  <2>1. n \in 2 .. len /\ n - 1 \in 1 .. Len(c.tree)
    BY <1>1, <1>5
  <2> QED BY <2>1, <1>1, <1>4, <1>5
<1> QED BY <1>5, <1>6 DEF tree

(* The table is a list of nodes whose values are lists.                    *)
LEMMA TableIsTree ==
    ASSUME NEW c \in Configs
    PROVE  IsTree(NodeTable(c))
<1> DEFINE tree == NodeTable(c)
           len == 1 + Len(c.tree)
<1>1. /\ len \in Nat /\ DOMAIN tree = 1 .. len /\ Len(tree) = len /\ tree[1] = Root
      /\ \A n \in DOMAIN tree : n # 1 => n - 1 \in DOMAIN c.tree /\ tree[n] = Emit(c, n - 1)
  BY TableFacts
<1>2. ASSUME NEW n \in DOMAIN c.tree PROVE DOMAIN c.tree[n].values \subseteq Nat
  <2> DEFINE values == c.tree[n].values
  <2>1. NodeFormed(c.tree, n)
    BY PortalAssumption
  <2>2. values \in Seq(Range(values))
    BY <2>1 DEF NodeFormed
  <2> HIDE DEF values
  <2>3. DOMAIN values \subseteq Nat
    BY <2>2
  <2> QED BY <2>3 DEF values
<1> HIDE DEF tree, len
<1>3. ASSUME NEW n \in DOMAIN tree PROVE DOMAIN tree[n].values \subseteq Nat
  <2>1. CASE n = 1
    BY <2>1, <1>1 DEF Root
  <2>2. CASE n # 1
    <3>1. tree[n].values = c.tree[n - 1].values
      BY <2>2, <1>1 DEF Emit
    <3> QED BY <2>2, <3>1, <1>1, <1>2
  <2> QED BY <2>1, <2>2
<1> QED BY <1>1, <1>3 DEF IsTree, tree

(* The device starts with no sample, and no client holds anything.         *)
LEMMA InitHonest == Init => HonestInv
<1> SUFFICES ASSUME Init PROVE HonestInv
  OBVIOUS
<1>1. IsTree(table)
  BY TableIsTree DEF Init
<1>2. SampleFamily(table, vals)
  <2>1. IsSample(NoSample)
    BY DEF IsSample, NoSample
  <2> QED BY <2>1 DEF Init, SampleFamily
<1>3. sampled = FALSE /\ ~client.keyed /\ ~req.on
  BY DEF Init, NotHeld, NoCopy
<1> QED BY <1>1, <1>2, <1>3 DEF HonestInv

(* A request copies the samples as they are.                               *)
LEMMA StepCopy ==
    ASSUME HonestInv, SlotFamily(table, rt), CopySnapshot
    PROVE  HonestInv'
<1> DEFINE c == Copy
<1>1. /\ req' = c /\ Copy' = c /\ Live' = Live
      /\ UNCHANGED <<table, sampled, vals, have, client>>
  BY DEF CopySnapshot, Copy, Live, Results
<1>2. /\ c.vals = vals /\ c.results = Results(rt) /\ (c.keyed = sampled) /\ IsCopy(c)
  BY DEF Copy, IsCopy
<1>3. ResultFamily(table, c.results) /\ SampleFamily(table, c.vals)
  BY <1>2, ResultFacts DEF HonestInv
<1>4. Alike(table, c, c)
  BY DEF Alike, AlikeRow, SameReading, AlikeResults
<1>5. client.keyed => sampled /\ client.body = View(table, c, Live)
  BY DEF HonestInv
<1> HIDE DEF c
<1> QED BY <1>1, <1>2, <1>3, <1>4, <1>5 DEF HonestInv

(* The body written from a copy shows what would be shown now.             *)
LEMMA StepAnswer ==
    ASSUME HonestInv, SlotFamily(table, rt), Answer
    PROVE  HonestInv'
<1> DEFINE c == Copy
<1>1. /\ client' = IF req.current
                   THEN [keyed |-> req.keyed, body |-> View(table, req, Live)] ELSE NotHeld
      /\ ~req'.on /\ req.on /\ Copy' = c /\ Live' = Live
      /\ UNCHANGED <<table, sampled, vals, have>>
  <2>1. Shown(WriteEnvelope(req, <<>>, <<>>), Live) = View(table, req, Live)
    BY ShownIsView
  <2> QED BY <2>1 DEF Answer, Copy, Live, Results, NoCopy
<1>2. c.vals = vals /\ c.results = Results(rt)
  BY DEF Copy
<1>3. ResultFamily(table, c.results) /\ SampleFamily(table, c.vals)
  BY <1>2, ResultFacts DEF HonestInv
<1>4. client'.keyed => sampled /\ client'.body = View(table, c, Live)
  <2> SUFFICES ASSUME client'.keyed PROVE sampled /\ client'.body = View(table, c, Live)
    OBVIOUS
  <2>1. req.current /\ req.keyed /\ client'.body = View(table, req, Live)
    BY <1>1 DEF NotHeld
  <2>2. sampled /\ Alike(table, req, c) /\ IsTree(table)
        /\ SampleFamily(table, req.vals) /\ ResultFamily(table, req.results)
    BY <1>1, <2>1 DEF HonestInv
  <2> HIDE DEF c
  <2>3. View(table, req, Live) = View(table, c, Live)
    BY <1>3, <2>2, SameView
  <2> QED BY <2>1, <2>2, <2>3
<1> HIDE DEF c
<1> QED BY <1>1, <1>4 DEF HonestInv

(* Every step keeps bodies of the current seq honest.                      *)
LEMMA HonestStep ==
    ASSUME HonestInv, OwedInv, [Next]_vars
    PROVE  HonestInv'
<1>1. OwedInv'
  BY OwedStep
<1>2. SlotFamily(table, rt) /\ (table' = table => SlotFamily(table, rt'))
  BY <1>1 DEF OwedInv, SlotInv
<1>3. SampleFamily(table, vals) /\ sampled \in BOOLEAN
  BY DEF HonestInv
<1>4. ASSUME UNCHANGED <<table, sampled, vals, acts, rt, have, req, client>> PROVE HonestInv'
  <2>1. Copy' = Copy /\ Live' = Live
    BY <1>4 DEF Copy, Live, Results
  <2> QED BY <1>4, <2>1 DEF HonestInv
<1>5. ASSUME NEW src \in Sources, Toggle(src) PROVE HonestInv'
  BY <1>4, <1>5 DEF Toggle
<1>6. CASE Sample
  <2>1. table' = table /\ rt' = rt /\ sampled' = TRUE /\ UpdateSeq(vals', acts', rt')
    BY <1>6 DEF Sample
  <2>2. SampleFamily(table, vals')
    BY <1>6, SampleShape
  <2> QED BY <1>2, <2>1, <2>2, StepUpdate
<1>7. ASSUME NEW r \in ActionRefs, Perform(r) PROVE HonestInv'
  BY <1>4, <1>7 DEF Perform
<1>8. ASSUME NEW r \in ActionRefs, NEW body \in Bodies, Post(r, body) PROVE HonestInv'
  <2>1. UpdateSeq(vals', acts', rt') /\ UNCHANGED <<table, sampled, vals>>
    BY <1>8 DEF Post
  <2> QED BY <1>2, <1>3, <2>1, StepUpdate
<1>9. CASE Record
  <2>1. UpdateSeq(vals', acts', rt') /\ UNCHANGED <<table, sampled, vals>>
    BY <1>9 DEF Record
  <2> QED BY <1>2, <1>3, <2>1, StepUpdate
<1>10. CASE CopySnapshot
  BY <1>2, <1>10, StepCopy
<1>11. CASE Answer
  BY <1>2, <1>11, StepAnswer
<1>12. CASE UNCHANGED vars
  BY <1>4, <1>12 DEF vars
<1> QED BY <1>5, <1>6, <1>7, <1>8, <1>9, <1>10, <1>11, <1>12 DEF Next

(* A client that is answered "not modified" (serve_state_: its seq is the  *)
(* current one) holds the readings, states, reasons and action results of  *)
(* the samples now, whatever happened between the copy its body was        *)
(* written from and this request.                                          *)
THEOREM NotModifiedTheorem == Spec => []NotModifiedIsHonest
<1>1. HonestInv => NotModifiedIsHonest
  BY ShownIsView DEF HonestInv, NotModifiedIsHonest
<1>2. Init => HonestInv /\ OwedInv
  BY InitHonest, InitOwed
<1>3. HonestInv /\ OwedInv /\ [Next]_vars => HonestInv' /\ OwedInv'
  BY HonestStep, OwedStep
<1> QED BY <1>1, <1>2, <1>3, PTL DEF Spec

-----------------------------------------------------------------------------
(* The configuration is the one the device was built from.                 *)
BuiltInv == config \in Configs /\ Accepted(config) /\ table = NodeTable(config)

(* An action of the table is an action of the tree, found by its reference. *)
LEMMA ActionFound ==
    ASSUME NEW c \in Configs, NEW n \in DOMAIN NodeTable(c),
           NEW k \in DOMAIN NodeTable(c)[n].actions
    PROVE  LET node == NodeTable(c)[n]
           IN  node.actions[k] \in ActionsAt(c.tree, <<node.id, node.actions[k].key>>)
<1> DEFINE tree == NodeTable(c)
           a == tree[n].actions[k]
<1>1. /\ tree[1] = Root
      /\ n # 1 => n - 1 \in DOMAIN c.tree /\ tree[n] = Emit(c, n - 1)
  BY TableFacts
<1>2. n # 1
  BY <1>1 DEF Root
<1> DEFINE m == n - 1
<1>3. m \in DOMAIN c.tree /\ tree[n].id = IdOf(c.tree, m) /\ tree[n].actions = c.tree[m].actions
  BY <1>1, <1>2 DEF Emit
<1> HIDE DEF tree, m
<1>4. a \in Range(c.tree[m].actions)
  BY <1>3 DEF tree, Range
<1> QED BY <1>3, <1>4 DEF ActionsAt, tree

(* A value the check lets through is one the action takes.                 *)
LEMMA FitsAction ==
    ASSUME NEW a, NEW sample, NEW given, NEW v \in BeforeValue(a.control, given), sample.enabled,
           a.control # "button", a.control = "select" => v.s \in a.options,
           a.control = "number" => v.n \in a.min .. a.max
    PROVE  Evaluate(a, sample, FALSE, v) = "queued"
<1>1. \/ a.control = "switch" /\ v.t = "bool"
      \/ a.control = "select" /\ v.t = "string"
      \/ a.control = "number" /\ v.t = "number"
  <2> DEFINE ctl == a.control
  <2>1. \A n, s : /\ Json("string", n, s).t = "string" /\ Json("number", n, s).t = "number"
                  /\ Json("bool", n, s).t = "bool"
    BY DEF Json
  <2>2. v \in BeforeValue(ctl, given)
    OBVIOUS
  <2> HIDE DEF ctl
  <2>3. CASE given.t = "bool"
    <3>1. ctl = "switch" /\ v = given
      BY <2>2, <2>3 DEF BeforeValue
    <3> QED BY <2>3, <3>1 DEF ctl
  <2>4. CASE given.t # "bool" /\ ctl = "select"
    <3>1. v = Json("string", 0, given.s)
      BY <2>2, <2>4 DEF BeforeValue
    <3> QED BY <2>1, <2>4, <3>1 DEF ctl
  <2>5. CASE given.t # "bool" /\ ctl = "number" /\ given.t = "number"
    <3>1. v = Json("number", given.n, "")
      BY <2>2, <2>5 DEF BeforeValue
    <3> QED BY <2>1, <2>5, <3>1 DEF ctl
  <2>6. CASE given.t # "bool" /\ ctl # "select" /\ ~(ctl = "number" /\ given.t = "number")
    <3>1. ctl = "switch" /\ v = Json("bool", 1, "")
      BY <2>2, <2>6 DEF BeforeValue
    <3> QED BY <2>1, <3>1 DEF ctl
  <2> QED BY <2>3, <2>4, <2>5, <2>6
<1>2. ValueMatchesControl(a.control, v)
  BY <1>1 DEF ValueMatchesControl
<1>3. v.t \notin {"too large", "garbage", "missing"}
  BY <1>1
<1> QED BY <1>2, <1>3 DEF Evaluate

(* A value that an accepted configuration tells the page to set before an  *)
(* action (check_before, FINAL_VALIDATE_SCHEMA) is one the action takes,   *)
(* for every tree in which the target's own configuration was in sight.    *)
THEOREM BeforeTheorem == Spec => []BeforeIsAccepted
<1>1. BuiltInv => BeforeIsAccepted
  <2> SUFFICES ASSUME BuiltInv, NEW pair \in BeforeEntries(config.tree), NEW n \in DOMAIN table,
                      NEW k \in DOMAIN table[n].actions, table[n].actions[k].in_sight,
                      acts[n][k].enabled,
                      pair[1].action = <<table[n].id, table[n].actions[k].key>>,
                      NEW v \in BeforeValue(table[n].actions[k].control, pair[1].value)
               PROVE  Evaluate(table[n].actions[k], acts[n][k], FALSE, v) = "queued"
    BY DEF BeforeIsAccepted
  <2> DEFINE a == table[n].actions[k]
             entry == pair[1]
  <2>1. a \in ActionsAt(config.tree, entry.action)
    BY ActionFound DEF BuiltInv
  <2>2. CheckBefore(config.tree, entry, pair[2]) /\ CheckBeforeAgainstEntities(config.tree, entry)
    BY DEF BuiltInv, Accepted, FinalValidate, CheckTree, CheckUiRefs
  <2>3. v \in BeforeValue(a.control, entry.value) /\ a.in_sight /\ acts[n][k].enabled
    OBVIOUS
  <2> HIDE DEF a, entry
  <2>4. a.control # "button"
    BY <2>1, <2>2 DEF CheckBefore
  <2>5. /\ a.control = "select" => v.s \in a.options
        /\ a.control = "number" => v.n \in a.min .. a.max
    BY <2>1, <2>2, <2>3 DEF CheckBeforeAgainstEntities
  <2>6. Evaluate(a, acts[n][k], FALSE, v) = "queued"
    BY <2>3, <2>4, <2>5, FitsAction
  <2> QED BY <2>6 DEF a
<1>2. Init => BuiltInv
  BY DEF Init, BuiltInv
<1>3. BuiltInv /\ [Next]_vars => BuiltInv'
  <2> SUFFICES ASSUME [Next]_vars PROVE UNCHANGED <<config, table>>
    BY DEF BuiltInv
  <2> QED BY DEF Next, vars, Toggle, Sample, Perform, Post, Record, CopySnapshot, Answer
<1> QED BY <1>1, <1>2, <1>3, PTL DEF Spec

-----------------------------------------------------------------------------
(* The envelope.  First, induction over positions, and functions defined   *)
(* by recursion over the parents of nodes, which come before their         *)
(* children.                                                               *)

(* A set of naturals with 0 and with every successor is all of them.       *)
LEMMA Induction ==
    ASSUME NEW T, 0 \in T, \A n \in Nat : n \in T => n + 1 \in T
    PROVE  Nat \subseteq T
<1> SUFFICES ASSUME Nat \ T # {} PROVE FALSE
  OBVIOUS
<1>1. PICK x \in Nat \ T : \A y \in Nat \ T : x <= y
  BY Least
<1>2. x # 0 /\ x - 1 \in Nat /\ (x - 1) + 1 = x
  OBVIOUS
<1>3. x - 1 \in T
  BY <1>1, <1>2
<1> QED BY <1>2, <1>3

(* What holds of a position when it does of all before it holds of all.    *)
LEMMA CourseOfValues ==
    ASSUME NEW T, NEW len \in Nat,
           \A n \in 1 .. len : (\A m \in 1 .. n - 1 : m \in T) => n \in T
    PROVE  1 .. len \subseteq T
<1> DEFINE U == {k \in Nat : \A n \in 1 .. len : n <= k => n \in T}
<1>1. 0 \in U
  OBVIOUS
<1>2. ASSUME NEW k \in Nat, k \in U PROVE k + 1 \in U
  <2>1. SUFFICES ASSUME NEW n \in 1 .. len, n <= k + 1 PROVE n \in T
    OBVIOUS
  <2>2. \A m \in 1 .. n - 1 : m \in T
    BY <1>2, <2>1
  <2> QED BY <2>2
<1> HIDE DEF U
<1>3. Nat \subseteq U
  BY <1>1, <1>2, Induction
<1>4. \A n \in 1 .. len : n \in U
  BY <1>3
<1> QED BY <1>4 DEF U

IsForest(par, len) == par \in [1 .. len -> Nat] /\ \A n \in 1 .. len : par[n] \in 0 .. n - 1
FollowsParents(f, par, step, len, k) ==
    \A n \in 1 .. len : n <= k => f[n] = step[<<n, f[par[n]]>>]

HasParentSolution(len, par, V, v0, step) ==
    \E f \in [0 .. len -> V] :
        f[0] = v0 /\ \A n \in 1 .. len : f[n] = step[<<n, f[par[n]]>>]

(* A function may be defined by what it is at 0 and by a step from a       *)
(* parent to its child.                                                    *)
LEMMA ParentRecursion ==
    ASSUME NEW len \in Nat, NEW par, IsForest(par, len), NEW V, NEW v0 \in V,
           NEW step \in [(1 .. len) \X V -> V]
    PROVE  HasParentSolution(len, par, V, v0, step)
<1> DEFINE U == {k \in Nat : \E f \in [0 .. len -> V] :
                               f[0] = v0 /\ FollowsParents(f, par, step, len, k)}
<1>1. 0 \in U
  <2>1. [n \in 0 .. len |-> v0] \in [0 .. len -> V]
    OBVIOUS
  <2>2. FollowsParents([n \in 0 .. len |-> v0], par, step, len, 0)
    BY DEF FollowsParents
  <2>3. 0 \in 0 .. len
    OBVIOUS
  <2> QED BY <2>1, <2>2, <2>3
<1>2. ASSUME NEW k \in Nat, k \in U PROVE k + 1 \in U
  <2>1. PICK f \in [0 .. len -> V] : f[0] = v0 /\ FollowsParents(f, par, step, len, k)
    BY <1>2
  <2>2. CASE k + 1 \notin 1 .. len
    <3>1. FollowsParents(f, par, step, len, k + 1)
      BY <2>1, <2>2 DEF FollowsParents
    <3> QED BY <2>1, <3>1
  <2>3. CASE k + 1 \in 1 .. len
    <3> DEFINE v == step[<<k + 1, f[par[k + 1]]>>]
               g == [f EXCEPT ![k + 1] = v]
    <3>1. par[k + 1] \in 0 .. k /\ par[k + 1] \in 0 .. len
      BY <2>3 DEF IsForest
    <3>2. v \in V
      BY <2>3, <3>1
    <3>3. g \in [0 .. len -> V] /\ g[0] = v0 /\ g[k + 1] = v
          /\ \A n \in 0 .. len : n # k + 1 => g[n] = f[n]
      BY <2>1, <2>3, <3>2
    <3>4. ASSUME NEW n \in 1 .. len, n <= k + 1 PROVE g[n] = step[<<n, g[par[n]]>>]
      <4>1. par[n] \in 0 .. n - 1 /\ par[n] \in 0 .. len
        BY DEF IsForest
      <4>2. g[par[n]] = f[par[n]]
        BY <3>3, <3>4, <4>1
      <4>3. CASE n = k + 1
        BY <3>3, <4>2, <4>3
      <4>4. CASE n # k + 1
        <5>1. n <= k /\ g[n] = f[n]
          BY <3>3, <3>4, <4>4
        <5> QED BY <2>1, <4>2, <5>1 DEF FollowsParents
      <4> QED BY <4>3, <4>4
    <3>5. FollowsParents(g, par, step, len, k + 1)
      BY <3>4 DEF FollowsParents
    <3> HIDE DEF g
    <3> QED BY <3>3, <3>5
  <2> QED BY <2>2, <2>3
<1> HIDE DEF U
<1>3. len \in U
  BY <1>1, <1>2, Induction
<1>4. PICK f \in [0 .. len -> V] : f[0] = v0 /\ FollowsParents(f, par, step, len, len)
  BY <1>3 DEF U
<1>5. \A n \in 1 .. len : f[n] = step[<<n, f[par[n]]>>]
  BY <1>4 DEF FollowsParents
<1> QED BY <1>4, <1>5 DEF HasParentSolution

(* A list of nodes, each with the position of its parent.                  *)
IsPreOrder(tree, len) ==
    /\ len \in Nat /\ DOMAIN tree = 1 .. len /\ Len(tree) = len
    /\ \A n \in 1 .. len : tree[n].parent \in 0 .. n - 1

(* Its parents are a forest.                                               *)
LEMMA ParentsAreForest ==
    ASSUME NEW tree, NEW len, IsPreOrder(tree, len)
    PROVE  IsForest([n \in 1 .. len |-> tree[n].parent], len)
BY DEF IsPreOrder, IsForest

(* The subtree of a position: itself, and what has its parent in it.       *)
LEMMA SubtreeFacts ==
    ASSUME NEW tree, NEW len, IsPreOrder(tree, len), NEW i \in 1 .. len
    PROVE  /\ Subtree(tree, i) \subseteq i .. len /\ i \in Subtree(tree, i)
           /\ \A n \in 1 .. len : n # i =>
                (n \in Subtree(tree, i) <=> n > i /\ tree[n].parent \in Subtree(tree, i))
<1> DEFINE par == [n \in 1 .. len |-> tree[n].parent]
           V == SUBSET Nat
           none == {}
           step == [x \in (1 .. len) \X V |-> {x[1]} \cup x[2]]
           path == CHOOSE f : f = [n \in 0 .. Len(tree) |->
                                     IF n = 0 THEN {} ELSE {n} \cup f[tree[n].parent]]
<1>0. len \in Nat /\ Len(tree) = len
  BY DEF IsPreOrder
<1>1. \E f : f = [n \in 0 .. Len(tree) |-> IF n = 0 THEN {} ELSE {n} \cup f[tree[n].parent]]
  <2>1. IsForest(par, len)
    BY ParentsAreForest
  <2>2. step \in [(1 .. len) \X V -> V] /\ none \in V
    OBVIOUS
  <2>3. \A n \in 1 .. len : \A b \in V : step[<<n, b>>] = {n} \cup b
    OBVIOUS
  <2>4. \A n \in 1 .. len : par[n] = tree[n].parent /\ par[n] \in 0 .. len
    BY DEF IsPreOrder
  <2> HIDE DEF par, step, none, V
  <2>5. HasParentSolution(len, par, V, none, step)
    BY <1>0, <2>1, <2>2, ParentRecursion
  <2>6. PICK f \in [0 .. len -> V] : f[0] = none /\ \A n \in 1 .. len : f[n] = step[<<n, f[par[n]]>>]
    BY <2>5 DEF HasParentSolution
  <2>7. ASSUME NEW n \in 1 .. len PROVE f[n] = {n} \cup f[tree[n].parent]
    <3>1. par[n] = tree[n].parent /\ f[par[n]] \in V
      BY <2>4, <2>6
    <3> QED BY <2>3, <2>6, <3>1
  <2>8. \A n \in 0 .. len : f[n] = IF n = 0 THEN {} ELSE {n} \cup f[tree[n].parent]
    BY <1>0, <2>6, <2>7 DEF none
  <2>9. f = [n \in 0 .. len |-> IF n = 0 THEN {} ELSE {n} \cup f[tree[n].parent]]
    BY <2>6, <2>8
  <2> QED BY <1>0, <2>9
<1>2. path = [n \in 0 .. len |-> IF n = 0 THEN {} ELSE {n} \cup path[tree[n].parent]]
  BY <1>0, <1>1
<1>3. Subtree(tree, i) = {n \in 1 .. len : i \in path[n]}
  BY <1>0 DEF Subtree
<1> HIDE DEF path
<1>4. path[0] = {} /\ \A n \in 1 .. len : path[n] = {n} \cup path[tree[n].parent]
  <2>1. \A n \in 0 .. len : path[n] = IF n = 0 THEN {} ELSE {n} \cup path[tree[n].parent]
    BY <1>2
  <2>2. 0 \in 0 .. len /\ 1 .. len \subseteq 0 .. len /\ 0 \notin 1 .. len
    BY <1>0
  <2>3. path[0] = {}
    BY <2>1, <2>2
  <2>4. ASSUME NEW n \in 1 .. len PROVE path[n] = {n} \cup path[tree[n].parent]
    <3>1. n \in 0 .. len /\ n # 0
      BY <2>2
    <3> QED BY <2>1, <3>1
  <2> QED BY <2>3, <2>4
<1>5. \A n \in 1 .. len : tree[n].parent \in 0 .. n - 1
  BY DEF IsPreOrder
<1>6. \A n \in 1 .. len : path[n] \subseteq 1 .. n
  <2> DEFINE T == {n \in 1 .. len : path[n] \subseteq 1 .. n}
  <2>1. ASSUME NEW n \in 1 .. len, \A m \in 1 .. n - 1 : m \in T PROVE n \in T
    <3> DEFINE p == tree[n].parent
    <3>1. p \in 0 .. n - 1 /\ path[n] = {n} \cup path[p]
      BY <1>4, <1>5
    <3> HIDE DEF p
    <3>2. path[p] \subseteq 1 .. n
      <4>1. CASE p = 0
        BY <1>4, <4>1
      <4>2. CASE p # 0
        BY <2>1, <3>1, <4>2
      <4> QED BY <4>1, <4>2
    <3> QED BY <3>1, <3>2
  <2> HIDE DEF T
  <2>2. 1 .. len \subseteq T
    BY <1>0, <2>1, CourseOfValues
  <2> QED BY <2>2 DEF T
<1>7. ASSUME NEW n \in 1 .. len, n # i
      PROVE  n \in Subtree(tree, i) <=> n > i /\ tree[n].parent \in Subtree(tree, i)
  <2> DEFINE p == tree[n].parent
  <2>1. p \in 0 .. n - 1 /\ path[n] = {n} \cup path[p] /\ path[n] \subseteq 1 .. n
    BY <1>4, <1>5, <1>6
  <2> HIDE DEF p
  <2>2. i \in path[n] <=> i \in path[p]
    BY <1>7, <2>1
  <2>3. i \in path[p] => p \in 1 .. len /\ n > i
    BY <1>0, <1>4, <1>7, <2>1
  <2> QED BY <1>3, <2>2, <2>3 DEF p
<1>8. i \in Subtree(tree, i)
  BY <1>3, <1>4
<1>9. Subtree(tree, i) \subseteq i .. len
  BY <1>0, <1>3, <1>6
<1> QED BY <1>7, <1>8, <1>9

-----------------------------------------------------------------------------
(* The recursive functions of the model.                                   *)
Segments(tree) == {tree[n].segment : n \in DOMAIN tree}

(* An id is its parent's and one segment.                                  *)
LEMMA IdFacts ==
    ASSUME NEW tree, NEW len, IsPreOrder(tree, len)
    PROVE  /\ IdOf(tree, 0) = <<>>
           /\ \A n \in 1 .. len :
                /\ IdOf(tree, n) = Append(IdOf(tree, tree[n].parent), tree[n].segment)
                /\ IdOf(tree, n) \in Seq(Segments(tree))
<1> DEFINE par == [n \in 1 .. len |-> tree[n].parent]
           V == Seq(Segments(tree))
           none == <<>>
           step == [x \in (1 .. len) \X V |-> Append(x[2], tree[x[1]].segment)]
           id == CHOOSE f : f = [m \in 0 .. Len(tree) |->
                                   IF m = 0 THEN <<>> ELSE Append(f[tree[m].parent], tree[m].segment)]
<1>0. len \in Nat /\ Len(tree) = len /\ DOMAIN tree = 1 .. len
  BY DEF IsPreOrder
<1>1. \E f : f = [m \in 0 .. Len(tree) |->
                    IF m = 0 THEN <<>> ELSE Append(f[tree[m].parent], tree[m].segment)]
  <2>1. IsForest(par, len)
    BY ParentsAreForest
  <2>2. \A n \in 1 .. len : tree[n].segment \in Segments(tree)
    BY <1>0 DEF Segments
  <2>3. step \in [(1 .. len) \X V -> V] /\ none \in V
    BY <2>2
  <2>4. \A n \in 1 .. len : \A b \in V : step[<<n, b>>] = Append(b, tree[n].segment)
    OBVIOUS
  <2>5. \A n \in 1 .. len : par[n] = tree[n].parent /\ par[n] \in 0 .. len
    BY DEF IsPreOrder
  <2> HIDE DEF par, step, none, V
  <2>6. HasParentSolution(len, par, V, none, step)
    BY <1>0, <2>1, <2>3, ParentRecursion
  <2>7. PICK f \in [0 .. len -> V] : f[0] = none /\ \A n \in 1 .. len : f[n] = step[<<n, f[par[n]]>>]
    BY <2>6 DEF HasParentSolution
  <2>8. ASSUME NEW n \in 1 .. len PROVE f[n] = Append(f[tree[n].parent], tree[n].segment)
    <3>1. par[n] = tree[n].parent /\ f[par[n]] \in V
      BY <2>5, <2>7
    <3> QED BY <2>4, <2>7, <3>1
  <2>9. \A m \in 0 .. len :
          f[m] = IF m = 0 THEN <<>> ELSE Append(f[tree[m].parent], tree[m].segment)
    BY <1>0, <2>7, <2>8 DEF none
  <2>10. f = [m \in 0 .. len |->
                IF m = 0 THEN <<>> ELSE Append(f[tree[m].parent], tree[m].segment)]
    BY <2>7, <2>9
  <2> QED BY <1>0, <2>10
<1>2. id = [m \in 0 .. len |->
              IF m = 0 THEN <<>> ELSE Append(id[tree[m].parent], tree[m].segment)]
  BY <1>0, <1>1
<1>3. \A n : IdOf(tree, n) = id[n]
  BY DEF IdOf
<1> HIDE DEF id
<1>4. id[0] = <<>> /\ \A n \in 1 .. len : id[n] = Append(id[tree[n].parent], tree[n].segment)
  <2>1. \A m \in 0 .. len :
          id[m] = IF m = 0 THEN <<>> ELSE Append(id[tree[m].parent], tree[m].segment)
    BY <1>2
  <2>2. 0 \in 0 .. len /\ 1 .. len \subseteq 0 .. len /\ 0 \notin 1 .. len
    BY <1>0
  <2>3. id[0] = <<>>
    BY <2>1, <2>2
  <2>4. ASSUME NEW n \in 1 .. len PROVE id[n] = Append(id[tree[n].parent], tree[n].segment)
    <3>1. n \in 0 .. len /\ n # 0
      BY <2>2
    <3> QED BY <2>1, <3>1
  <2> QED BY <2>3, <2>4
<1>5. \A n \in 1 .. len : id[n] \in V
  <2> DEFINE T == {n \in 1 .. len : id[n] \in V}
  <2>1. ASSUME NEW n \in 1 .. len, \A m \in 1 .. n - 1 : m \in T PROVE n \in T
    <3> DEFINE p == tree[n].parent
    <3>1. p \in 0 .. n - 1 /\ id[n] = Append(id[p], tree[n].segment)
      BY <1>4 DEF IsPreOrder
    <3> HIDE DEF p
    <3>2. id[p] \in V
      <4>1. CASE p = 0
        <5>1. <<>> \in V
          OBVIOUS
        <5> QED BY <1>4, <4>1, <5>1
      <4>2. CASE p # 0
        BY <2>1, <3>1, <4>2
      <4> QED BY <4>1, <4>2
    <3>3. tree[n].segment \in Segments(tree)
      BY <1>0 DEF Segments
    <3>4. Append(id[p], tree[n].segment) \in V
      BY <3>2, <3>3
    <3> QED BY <3>1, <3>4
  <2> HIDE DEF T
  <2>2. 1 .. len \subseteq T
    BY <1>0, <2>1, CourseOfValues
  <2> QED BY <2>2 DEF T
<1> QED BY <1>3, <1>4, <1>5

(* What is settled of a node: its own state, or degraded by a child.       *)
LEMMA SettleFacts ==
    ASSUME NEW tree, NEW len, IsPreOrder(tree, len), NEW own, NEW idle, NEW n \in 1 .. len
    PROVE  \/ Settle(tree, own, idle)[n] = own[n]
           \/ Settle(tree, own, idle)[n] = "degraded" /\ own[n] \in {"ok", "stale"}
<1> DEFINE troubles(m, state) == state # "ok" /\ ~(state = "unknown" /\ m \in idle)
           value(f, k) == IF /\ own[k] \in {"ok", "stale"}
                             /\ \E m \in DOMAIN tree : tree[m].parent = k /\ troubles(m, f[m])
                          THEN "degraded" ELSE own[k]
           final == CHOOSE f : f = [k \in DOMAIN tree |-> value(f, k)]
           Good(f, j) == \A k \in 1 .. len : k > len - j => f[k] = value(f, k)
           Until(j) == \E f : f = [k \in 1 .. len |-> f[k]] /\ Good(f, j)
           U == {j \in Nat : Until(j)}
<1>1. len \in Nat /\ DOMAIN tree = 1 .. len /\ \A m \in 1 .. len : tree[m].parent \in 0 .. m - 1
  BY DEF IsPreOrder
<1>2. 0 \in U
  <2> DEFINE f == [k \in 1 .. len |-> own]
  <2>1. f = [k \in 1 .. len |-> f[k]]
    OBVIOUS
  <2>2. \A k \in 1 .. len : ~(k > len - 0)
    BY <1>1
  <2> HIDE DEF f, value
  <2> QED BY <2>1, <2>2
<1>3. ASSUME NEW j \in Nat, j \in U PROVE j + 1 \in U
  <2>1. PICK f : f = [k \in 1 .. len |-> f[k]] /\ Good(f, j)
    <3> HIDE DEF Good
    <3> QED BY <1>3
  <2> DEFINE at == len - j
             v == value(f, at)
             g == [f EXCEPT ![at] = v]
  <2>2. g = [k \in 1 .. len |-> g[k]] /\ (at \in 1 .. len => g[at] = v) /\ \A k \in 1 .. len : k # at => g[k] = f[k]
    <3> HIDE DEF v, Good
    <3> QED BY <2>1
  <2>3. ASSUME NEW k \in 1 .. len, k > len - (j + 1) PROVE g[k] = value(g, k)
    <3>1. \A m \in DOMAIN tree : tree[m].parent = k => g[m] = f[m]
      <4>1. \A m \in DOMAIN tree : tree[m].parent = k => m # at /\ m \in 1 .. len
        BY <1>1, <2>3
      <4> HIDE DEF g
      <4> QED BY <2>2, <4>1
    <3>2. value(g, k) = value(f, k)
      <4> HIDE DEF g
      <4> QED BY <3>1
    <3>3. g[k] = value(f, k)
      <4>1. CASE k = at
        <5> HIDE DEF g
        <5> QED BY <2>2, <4>1
      <4>2. CASE k # at
        <5>1. k > len - j
          BY <1>1, <2>3, <4>2
        <5>2. g[k] = f[k]
          BY <2>2, <4>2
        <5> HIDE DEF g
        <5> QED BY <2>1, <5>1, <5>2
      <4> QED BY <4>1, <4>2
    <3> QED BY <3>2, <3>3
  <2> HIDE DEF g, value
  <2>4. Good(g, j + 1)
    BY <2>3
  <2> HIDE DEF Good
  <2>5. g = [k \in 1 .. len |-> g[k]]
    BY <2>2
  <2>6. Until(j + 1)
    BY <2>4, <2>5
  <2> HIDE DEF Until
  <2> QED BY <2>6
<1> HIDE DEF U
<1>4. len \in U
  BY <1>1, <1>2, <1>3, Induction
<1> USE DEF U
<1>5. PICK f : f = [k \in 1 .. len |-> f[k]] /\ Good(f, len)
  <2> HIDE DEF Good
  <2> QED BY <1>4
<1>6. \A k \in 1 .. len : f[k] = value(f, k)
  BY <1>1, <1>5
<1>7. \E h : h = [k \in DOMAIN tree |-> value(h, k)]
  <2>1. f = [k \in DOMAIN tree |-> f[k]]
    BY <1>1, <1>5
  <2>2. [k \in DOMAIN tree |-> f[k]] = [k \in DOMAIN tree |-> value(f, k)]
    BY <1>1, <1>6
  <2> HIDE DEF value
  <2> QED BY <2>1, <2>2
<1>8. final = [k \in DOMAIN tree |-> value(final, k)]
  BY <1>7
<1>9. Settle(tree, own, idle) = final
  BY DEF Settle
<1> HIDE DEF final
<1>10. final[n] = value(final, n)
  <2> HIDE DEF value
  <2> QED BY <1>1, <1>8
<1> QED BY <1>9, <1>10

(* An ancestor's role, when there is one, names an ancestor with a role.   *)
LEMMA AncestorFacts ==
    ASSUME NEW len, IsPreOrder(table, len), NEW root \in 1 .. len
    PROVE  \/ WriteAncestorRole(root) = <<>>
           \/ \E a \in 1 .. root - 1 : table[a].role # {} /\ WriteAncestorRole(root) = table[a].id
<1> DEFINE par == [n \in 1 .. len |-> table[n].parent]
           none == <<>>
           V == {none} \cup {table[n].id : n \in 1 .. len}
           step == [x \in (1 .. len) \X V |-> IF table[x[1]].role # {} THEN table[x[1]].id ELSE x[2]]
           up == CHOOSE f : f = [n \in 0 .. Len(table) |->
                   IF n = 0 THEN <<>> ELSE IF table[n].role # {} THEN table[n].id ELSE f[table[n].parent]]
<1>0. len \in Nat /\ Len(table) = len /\ DOMAIN table = 1 .. len
      /\ \A n \in 1 .. len : table[n].parent \in 0 .. n - 1
  BY DEF IsPreOrder
<1>1. \E f : f = [n \in 0 .. Len(table) |->
                    IF n = 0 THEN <<>> ELSE IF table[n].role # {} THEN table[n].id ELSE f[table[n].parent]]
  <2>1. IsForest(par, len)
    BY ParentsAreForest
  <2>3. step \in [(1 .. len) \X V -> V] /\ none \in V
    OBVIOUS
  <2>4. \A n \in 1 .. len : \A b \in V :
          step[<<n, b>>] = IF table[n].role # {} THEN table[n].id ELSE b
    OBVIOUS
  <2>5. \A n \in 1 .. len : par[n] = table[n].parent /\ par[n] \in 0 .. len
    BY <1>0
  <2> HIDE DEF par, step, none, V
  <2>6. HasParentSolution(len, par, V, none, step)
    BY <1>0, <2>1, <2>3, ParentRecursion
  <2>7. PICK f \in [0 .. len -> V] : f[0] = none /\ \A n \in 1 .. len : f[n] = step[<<n, f[par[n]]>>]
    BY <2>6 DEF HasParentSolution
  <2>8. ASSUME NEW n \in 1 .. len
        PROVE  f[n] = IF table[n].role # {} THEN table[n].id ELSE f[table[n].parent]
    <3>1. par[n] = table[n].parent /\ f[par[n]] \in V
      BY <2>5, <2>7
    <3> QED BY <2>4, <2>7, <3>1
  <2>9. \A n \in 0 .. len :
          f[n] = IF n = 0 THEN <<>> ELSE IF table[n].role # {} THEN table[n].id ELSE f[table[n].parent]
    BY <1>0, <2>7, <2>8 DEF none
  <2>10. f = [n \in 0 .. len |->
                IF n = 0 THEN <<>> ELSE IF table[n].role # {} THEN table[n].id ELSE f[table[n].parent]]
    BY <2>7, <2>9
  <2> QED BY <1>0, <2>10
<1>2. up = [n \in 0 .. len |->
              IF n = 0 THEN <<>> ELSE IF table[n].role # {} THEN table[n].id ELSE up[table[n].parent]]
  BY <1>0, <1>1
<1>3. WriteAncestorRole(root) = up[table[root].parent]
  BY DEF WriteAncestorRole
<1> HIDE DEF up
<1>4. /\ up[0] = <<>>
      /\ \A n \in 1 .. len : up[n] = IF table[n].role # {} THEN table[n].id ELSE up[table[n].parent]
  <2>1. \A n \in 0 .. len :
          up[n] = IF n = 0 THEN <<>> ELSE IF table[n].role # {} THEN table[n].id ELSE up[table[n].parent]
    BY <1>2
  <2>2. 0 \in 0 .. len /\ 1 .. len \subseteq 0 .. len /\ 0 \notin 1 .. len
    BY <1>0
  <2>3. up[0] = <<>>
    BY <2>1, <2>2
  <2>4. ASSUME NEW n \in 1 .. len
        PROVE  up[n] = IF table[n].role # {} THEN table[n].id ELSE up[table[n].parent]
    <3>1. n \in 0 .. len /\ n # 0
      BY <2>2
    <3> QED BY <2>1, <3>1
  <2> QED BY <2>3, <2>4
<1> DEFINE Named(n) == up[n] = <<>> \/ \E a \in 1 .. n : table[a].role # {} /\ up[n] = table[a].id
           T == {n \in 1 .. len : Named(n)}
<1>5. ASSUME NEW n \in 1 .. len, \A m \in 1 .. n - 1 : m \in T PROVE n \in T
  <2> DEFINE p == table[n].parent
  <2>1. p \in 0 .. n - 1 /\ up[n] = IF table[n].role # {} THEN table[n].id ELSE up[p]
    BY <1>0, <1>4
  <2> HIDE DEF p
  <2>2. CASE table[n].role # {}
    <3>1. n \in 1 .. n
      OBVIOUS
    <3> QED BY <2>1, <2>2, <3>1
  <2>3. CASE table[n].role = {}
    <3>1. up[n] = up[p]
      BY <2>1, <2>3
    <3>2. CASE p = 0
      BY <1>4, <3>1, <3>2
    <3>3. CASE p # 0
      <4>1. Named(p) /\ 1 .. p \subseteq 1 .. n
        BY <1>5, <2>1, <3>3
      <4> QED BY <3>1, <4>1
    <3> QED BY <3>2, <3>3
  <2> QED BY <2>2, <2>3
<1> HIDE DEF T
<1>6. 1 .. len \subseteq T
  BY <1>0, <1>5, CourseOfValues
<1> DEFINE p == table[root].parent
<1>7. p \in 0 .. root - 1
  BY <1>0
<1>8. CASE p = 0
  BY <1>3, <1>4, <1>8
<1>9. CASE p # 0
  <2>1. p \in 1 .. len /\ 1 .. p \subseteq 1 .. root - 1
    BY <1>0, <1>7, <1>9
  <2>2. Named(p)
    BY <1>6, <2>1 DEF T
  <2> HIDE DEF p
  <2> QED BY <1>3, <2>1, <2>2 DEF p
<1> QED BY <1>8, <1>9

-----------------------------------------------------------------------------
(* The served nodes, in order.                                             *)

(* A list of nodes that serves the subtree of a position: the nodes in     *)
(* order, each with the place of its parent.                               *)
Serves(list, tree, root) ==
    LET served == Subtree(tree, root)
        order == InOrder(served)
    IN /\ DOMAIN list = DOMAIN order /\ Len(list) = Cardinality(served)
       /\ \A i \in DOMAIN order :
            list[i].parent = IF order[i] = root THEN 0 ELSE Place(served, tree[order[i]].parent)
\* The position served in place i.
Origin(tree, root, i) == InOrder(Subtree(tree, root))[i]

(* It lists the root first and every node after its parent.                *)
LEMMA ServedOrder ==
    ASSUME NEW tree, NEW len, IsPreOrder(tree, len), NEW root \in 1 .. len
    PROVE  LET served == Subtree(tree, root)
               size == Cardinality(served)
           IN  /\ size \in Nat /\ 1 <= size /\ Origin(tree, root, 1) = root
               /\ DOMAIN InOrder(served) = 1 .. size
               /\ \A i \in 1 .. size :
                    /\ Origin(tree, root, i) \in served /\ Origin(tree, root, i) \in root .. len
                    /\ Place(served, Origin(tree, root, i)) = i
                    /\ i # 1 => /\ Origin(tree, root, i) # root
                                /\ tree[Origin(tree, root, i)].parent \in served
               /\ \A n \in served : Place(served, n) \in 1 .. size
                                    /\ Origin(tree, root, Place(served, n)) = n
               /\ \A i, j \in 1 .. size : i < j <=> Origin(tree, root, i) < Origin(tree, root, j)
<1> DEFINE served == Subtree(tree, root)
           size == Cardinality(served)
           org(i) == Origin(tree, root, i)
<1>1. /\ len \in Nat /\ served \subseteq root .. len /\ root \in served
      /\ \A n \in 1 .. len : n # root =>
           (n \in served <=> n > root /\ tree[n].parent \in served)
  BY SubtreeFacts DEF IsPreOrder
<1>2. served \subseteq 1 .. len /\ \A n \in served : n \in Int
  BY <1>1
<1>3. \A i : org(i) = InOrder(served)[i]
  BY DEF Origin
<1> HIDE DEF served, org
<1>4. /\ size \in Nat /\ DOMAIN InOrder(served) = 1 .. size
      /\ \A n \in served : Place(served, n) \in 1 .. size /\ org(Place(served, n)) = n
      /\ \A i \in 1 .. size : org(i) \in served /\ Place(served, org(i)) = i
      /\ \A m, n \in served : m < n => Place(served, m) < Place(served, n)
  BY <1>1, <1>2, <1>3, OrderPlaces
<1> HIDE DEF size
<1>5. ASSUME NEW i \in 1 .. size, NEW j \in 1 .. size PROVE i < j <=> org(i) < org(j)
  <2>0. /\ org(i) \in served /\ Place(served, org(i)) = i
        /\ org(j) \in served /\ Place(served, org(j)) = j
    BY <1>4
  <2>1. /\ org(i) \in Int /\ org(i) \in served /\ Place(served, org(i)) = i
        /\ org(j) \in Int /\ org(j) \in served /\ Place(served, org(j)) = j
    BY <1>2, <2>0
  <2>2. CASE org(i) < org(j)
    BY <1>4, <2>1, <2>2
  <2>3. CASE org(j) < org(i)
    BY <1>4, <2>1, <2>3
  <2>4. CASE org(i) = org(j)
    BY <2>1, <2>4
  <2> QED BY <2>1, <2>2, <2>3, <2>4
<1>6. 1 <= size /\ org(1) = root
  <2>1. Place(served, root) \in 1 .. size /\ org(Place(served, root)) = root
    BY <1>1, <1>4
  <2>2. 1 \in 1 .. size
    BY <1>4, <2>1
  <2>3. org(1) \in root .. len
    BY <1>1, <1>4, <2>2
  <2>4. ~(org(1) > root)
    BY <1>5, <2>1, <2>2
  <2> QED BY <1>4, <2>1, <2>3, <2>4
<1>7. ASSUME NEW i \in 1 .. size, i # 1 PROVE org(i) # root /\ tree[org(i)].parent \in served
  <2>1. org(i) # root
    BY <1>4, <1>6, <1>7
  <2> QED BY <1>1, <1>2, <1>4, <2>1
<1>8. \A i \in 1 .. size : org(i) \in root .. len
  BY <1>1, <1>4
<1> QED BY <1>4, <1>5, <1>6, <1>7, <1>8 DEF served, size, org

(* The subtrees of the list are the subtrees of the tree.                  *)
LEMMA ServedSubtrees ==
    ASSUME NEW tree, NEW len, IsPreOrder(tree, len), NEW root \in 1 .. len,
           NEW list, Serves(list, tree, root)
    PROVE  LET size == Cardinality(Subtree(tree, root)) IN
           /\ IsPreOrder(list, size)
           /\ \A i, j \in 1 .. size :
                j \in Subtree(list, i) <=> Origin(tree, root, j) \in Subtree(tree, Origin(tree, root, i))
<1> DEFINE served == Subtree(tree, root)
           size == Cardinality(served)
           org(i) == Origin(tree, root, i)
<1>1. /\ size \in Nat /\ 1 <= size /\ org(1) = root /\ DOMAIN InOrder(served) = 1 .. size
      /\ \A i \in 1 .. size :
           /\ org(i) \in served /\ org(i) \in root .. len /\ Place(served, org(i)) = i
           /\ i # 1 => org(i) # root /\ tree[org(i)].parent \in served
      /\ \A n \in served : Place(served, n) \in 1 .. size /\ org(Place(served, n)) = n
      /\ \A i, j \in 1 .. size : i < j <=> org(i) < org(j)
  BY ServedOrder
<1>2. /\ DOMAIN list = 1 .. size /\ Len(list) = size
      /\ \A i \in 1 .. size :
           list[i].parent = IF org(i) = root THEN 0 ELSE Place(served, tree[org(i)].parent)
  <2>1. \A i : org(i) = InOrder(served)[i]
    BY DEF Origin
  <2> QED BY <1>1, <2>1 DEF Serves
<1>3. len \in Nat /\ \A n \in 1 .. len : tree[n].parent \in 0 .. n - 1
  BY DEF IsPreOrder
<1> HIDE DEF served, size, org
<1>4. list[1].parent = 0
  BY <1>1, <1>2
<1>5. ASSUME NEW i \in 1 .. size, i # 1
      PROVE  list[i].parent \in 1 .. i - 1 /\ org(list[i].parent) = tree[org(i)].parent
  <2> DEFINE p == tree[org(i)].parent
             q == list[i].parent
  <2>1. org(i) # root /\ p \in served /\ org(i) \in 1 .. len
    BY <1>1, <1>5
  <2>2. q = Place(served, p)
    BY <1>2, <2>1
  <2>3. q \in 1 .. size /\ org(q) = p
    BY <1>1, <2>1, <2>2
  <2>4. p < org(i)
    BY <1>3, <2>1
  <2>5. q < i
    BY <1>1, <2>3, <2>4
  <2> QED BY <1>1, <2>3, <2>5
<1>6. IsPreOrder(list, size)
  <2>1. ASSUME NEW i \in 1 .. size PROVE list[i].parent \in 0 .. i - 1
    BY <1>1, <1>4, <1>5
  <2> QED BY <1>1, <1>2, <2>1 DEF IsPreOrder
<1>7. ASSUME NEW i \in 1 .. size
      PROVE  \A j \in 1 .. size : j \in Subtree(list, i) <=> org(j) \in Subtree(tree, org(i))
  <2> DEFINE mine == Subtree(list, i)
             its == Subtree(tree, org(i))
             T == {j \in 1 .. size : j \in mine <=> org(j) \in its}
  <2>1. /\ mine \subseteq i .. size /\ i \in mine
        /\ \A j \in 1 .. size : j # i => (j \in mine <=> j > i /\ list[j].parent \in mine)
    BY <1>6, SubtreeFacts
  <2>2. org(i) \in 1 .. len
    BY <1>1
  <2>3. /\ its \subseteq org(i) .. len /\ org(i) \in its
        /\ \A n \in 1 .. len : n # org(i) => (n \in its <=> n > org(i) /\ tree[n].parent \in its)
    BY <2>2, SubtreeFacts
  <2> HIDE DEF mine, its
  <2>4. ASSUME NEW j \in 1 .. size, \A m \in 1 .. j - 1 : m \in T PROVE j \in T
    <3>1. CASE j = i
      BY <2>1, <2>3, <3>1
    <3>2. CASE j < i
      <4>1. org(j) < org(i) /\ org(j) \in Int
        BY <1>1, <3>2
      <4>2. j \notin mine
        BY <1>1, <2>1, <3>2
      <4>3. org(j) \notin its
        BY <2>2, <2>3, <4>1
      <4> QED BY <4>2, <4>3
    <3>3. CASE j > i
      <4> DEFINE q == list[j].parent
                 p == tree[org(j)].parent
      <4>1. j # 1 /\ org(j) \in 1 .. len /\ org(j) > org(i)
        BY <1>1, <3>3
      <4>2. q \in 1 .. j - 1 /\ org(q) = p
        BY <1>5, <4>1
      <4>3. j \in mine <=> q \in mine
        BY <2>1, <3>3
      <4>4. org(j) \in its <=> p \in its
        BY <2>2, <2>3, <4>1
      <4> HIDE DEF q, p
      <4>5. q \in mine <=> org(q) \in its
        BY <2>4, <4>2
      <4> QED BY <4>2, <4>3, <4>4, <4>5
    <3> QED BY <1>1, <3>1, <3>2, <3>3
  <2> HIDE DEF T
  <2>5. 1 .. size \subseteq T
    BY <1>1, <2>4, CourseOfValues
  <2> QED BY <2>5 DEF T, mine, its
<1> QED BY <1>6, <1>7 DEF served, size, org

-----------------------------------------------------------------------------
(* The ids of a tree.                                                      *)

(* A prefix is shorter and agrees as far as it goes.                       *)
LEMMA PrefixIs ==
    ASSUME NEW S, NEW s \in Seq(S), NEW t \in Seq(S)
    PROVE  IsPrefix(s, t) <=> Len(s) <= Len(t) /\ \A i \in 1 .. Len(s) : s[i] = t[i]
<1>1. CASE ~(Len(s) <= Len(t))
  BY <1>1 DEF IsPrefix
<1>2. CASE Len(s) <= Len(t)
  <2> DEFINE a == SubSeq(s, 1, Len(s))
             b == SubSeq(t, 1, Len(s))
  <2>0. Len(s) \in Nat /\ Len(t) \in Nat
    OBVIOUS
  <2>1. a = s
    BY SubSeqFull
  <2>2. /\ b \in Seq(S) /\ Len(b) = Len(s) /\ \A i \in 1 .. Len(s) : b[i] = t[i]
    <3>1. \A i \in 1 .. Len(s) : t[i] \in S
      BY <1>2, <2>0
    <3> QED BY <1>2, <2>0, <3>1
  <2> HIDE DEF a, b
  <2>3. a = b <=> \A i \in 1 .. Len(s) : s[i] = t[i]
    <3>1. ASSUME \A i \in 1 .. Len(s) : s[i] = t[i] PROVE s = b
      BY <2>2, <3>1
    <3> QED BY <2>1, <2>2, <3>1
  <2>4. IsPrefix(s, t) <=> a = b
    BY <1>2 DEF IsPrefix, a, b
  <2> QED BY <1>2, <2>3, <2>4
<1> QED BY <1>1, <1>2

(* A prefix of one more is all of it or a prefix of what was there.        *)
LEMMA PrefixOfAppend ==
    ASSUME NEW S, NEW s \in Seq(S), NEW t \in Seq(S), NEW x \in S
    PROVE  IsPrefix(s, Append(t, x)) <=> s = Append(t, x) \/ IsPrefix(s, t)
<1> DEFINE u == Append(t, x)
<1>1. /\ u \in Seq(S) /\ Len(u) = Len(t) + 1 /\ u[Len(u)] = x
      /\ \A i \in 1 .. Len(t) : u[i] = t[i]
  OBVIOUS
<1> HIDE DEF u
<1>2. Len(s) \in Nat /\ Len(t) \in Nat
  OBVIOUS
<1>3. /\ IsPrefix(s, t) <=> Len(s) <= Len(t) /\ \A i \in 1 .. Len(s) : s[i] = t[i]
      /\ IsPrefix(s, u) <=> Len(s) <= Len(u) /\ \A i \in 1 .. Len(s) : s[i] = u[i]
  BY <1>1, PrefixIs
<1>4. CASE Len(s) = Len(u)
  <2>1. (\A i \in 1 .. Len(s) : s[i] = u[i]) => s = u
    BY <1>1, <1>4
  <2> QED BY <1>1, <1>2, <1>3, <1>4, <2>1 DEF u
<1>5. CASE Len(s) # Len(u)
  <2>1. s # u
    BY <1>5
  <2>2. Len(s) <= Len(u) <=> Len(s) <= Len(t)
    BY <1>1, <1>2, <1>5
  <2> QED BY <1>1, <1>2, <1>3, <2>1, <2>2 DEF u
<1> QED BY <1>4, <1>5

(* Appending is one to one.                                                *)
LEMMA AppendIsOne ==
    ASSUME NEW S, NEW s \in Seq(S), NEW t \in Seq(S), NEW x \in S, NEW y \in S,
           Append(s, x) = Append(t, y)
    PROVE  s = t /\ x = y
<1>1. Len(s) \in Nat /\ Len(t) \in Nat
      /\ Len(Append(s, x)) = Len(s) + 1 /\ Len(Append(t, y)) = Len(t) + 1
  OBVIOUS
<1>2. Len(s) = Len(t)
  BY <1>1
<1>3. Append(s, x)[Len(s) + 1] = x /\ Append(t, y)[Len(t) + 1] = y
  OBVIOUS
<1>4. \A i \in 1 .. Len(s) : Append(s, x)[i] = s[i] /\ Append(t, y)[i] = t[i]
  BY <1>2
<1>5. \A i \in 1 .. Len(s) : s[i] = t[i]
  BY <1>4
<1> QED BY <1>2, <1>3, <1>5

(* The id above a node's: nothing below the root.                          *)
IdAbove(tree, n) == IF tree[n].parent = 1 THEN <<>> ELSE tree[tree[n].parent].id
\* A tree whose root is the car, and whose other nodes are named by segments, no two siblings alike.
IsNamed(tree, len, S, seg) ==
    /\ IsPreOrder(tree, len) /\ 1 <= len /\ tree[1].id = <<"car">> /\ tree[1].parent = 0
    /\ \A n \in 2 .. len : /\ seg[n] \in S /\ tree[n].parent \in 1 .. n - 1
                           /\ tree[n].id = Append(IdAbove(tree, n), seg[n])
    /\ \A m, n \in 2 .. len : m # n /\ tree[m].parent = tree[n].parent => seg[m] # seg[n]

(* Ids are not empty.                                                      *)
LEMMA IdsAreNames ==
    ASSUME NEW tree, NEW len, NEW S, NEW seg, IsNamed(tree, len, S, seg), NEW n \in 2 .. len
    PROVE  /\ tree[n].id \in Seq(S) /\ IdAbove(tree, n) \in Seq(S)
           /\ Len(tree[n].id) = Len(IdAbove(tree, n)) + 1
<1> DEFINE Good(k) == /\ tree[k].id \in Seq(S) /\ IdAbove(tree, k) \in Seq(S)
                      /\ Len(tree[k].id) = Len(IdAbove(tree, k)) + 1
           T == {k \in 1 .. len : k = 1 \/ Good(k)}
<1>1. len \in Nat
  BY DEF IsNamed, IsPreOrder
<1>2. ASSUME NEW k \in 1 .. len, \A m \in 1 .. k - 1 : m \in T PROVE k \in T
  <2>1. CASE k = 1
    BY <2>1
  <2>2. CASE k # 1
    <3> DEFINE p == tree[k].parent
               above == IdAbove(tree, k)
    <3>1. k \in 2 .. len
      BY <1>1, <2>2
    <3>2. p \in 1 .. k - 1 /\ seg[k] \in S /\ tree[k].id = Append(above, seg[k])
      BY <3>1 DEF IsNamed
    <3>3. above \in Seq(S)
      <4>1. CASE p = 1
        <5>1. above = <<>>
          BY <4>1 DEF IdAbove
        <5> QED BY <5>1
      <4>2. CASE p # 1
        <5>1. above = tree[p].id
          BY <4>2 DEF IdAbove
        <5>2. Good(p)
          BY <1>2, <3>2, <4>2
        <5> QED BY <5>1, <5>2
      <4> QED BY <4>1, <4>2
    <3> HIDE DEF above
    <3>4. Append(above, seg[k]) \in Seq(S) /\ Len(Append(above, seg[k])) = Len(above) + 1
      BY <3>2, <3>3
    <3> QED BY <3>2, <3>3, <3>4 DEF above
  <2> QED BY <2>1, <2>2
<1> HIDE DEF T
<1>3. 1 .. len \subseteq T
  BY <1>1, <1>2, CourseOfValues
<1>4. n \in 1 .. len /\ n # 1
  BY <1>1
<1> QED BY <1>3, <1>4 DEF T

(* No two nodes of the configuration have the same id.                     *)
LEMMA IdsDiffer ==
    ASSUME NEW tree, NEW len, NEW S, NEW seg, IsNamed(tree, len, S, seg),
           NEW m \in 2 .. len, NEW n \in 2 .. len, tree[m].id = tree[n].id
    PROVE  m = n
<1> DEFINE T == {k \in 1 .. len : \A j \in 2 .. len : k # 1 /\ tree[j].id = tree[k].id => j = k}
<1>1. len \in Nat
  BY DEF IsNamed, IsPreOrder
<1>2. ASSUME NEW k \in 1 .. len, \A i \in 1 .. k - 1 : i \in T PROVE k \in T
  <2> SUFFICES ASSUME NEW j \in 2 .. len, k # 1, tree[j].id = tree[k].id PROVE j = k
    OBVIOUS
  <2> DEFINE p == tree[k].parent
             q == tree[j].parent
             above == IdAbove(tree, k)
             beyond == IdAbove(tree, j)
  <2>1. k \in 2 .. len
    BY <1>1
  <2>2. /\ p \in 1 .. k - 1 /\ seg[k] \in S /\ tree[k].id = Append(above, seg[k])
        /\ q \in 1 .. j - 1 /\ seg[j] \in S /\ tree[j].id = Append(beyond, seg[j])
    BY <2>1 DEF IsNamed
  <2>3. above \in Seq(S) /\ beyond \in Seq(S)
    BY <2>1, IdsAreNames
  <2> HIDE DEF above, beyond
  <2>4. above = beyond /\ seg[k] = seg[j]
    <3> DEFINE x == seg[k]
               y == seg[j]
    <3>1. x \in S /\ y \in S /\ Append(above, x) = Append(beyond, y)
      BY <2>2
    <3> HIDE DEF x, y
    <3>2. above = beyond /\ x = y
      BY <2>3, <3>1, AppendIsOne
    <3> QED BY <3>2 DEF x, y
  <2>5. p = q
    <3>1. \A i \in 2 .. len : Len(tree[i].id) # 0
      <4>1. ASSUME NEW i \in 2 .. len PROVE Len(tree[i].id) # 0
        BY IdsAreNames
      <4> QED BY <4>1
    <3>2. above = (IF p = 1 THEN <<>> ELSE tree[p].id) /\ beyond = (IF q = 1 THEN <<>> ELSE tree[q].id)
      BY DEF above, beyond, IdAbove
    <3>3. p # 1 => p \in 2 .. len /\ p \in T
      BY <1>1, <1>2, <2>2
    <3>4. q # 1 => q \in 2 .. len
      BY <1>1, <2>2
    <3> HIDE DEF p, q, T
    <3>5. CASE p = 1
      <4>1. Len(beyond) = 0
        BY <2>4, <3>2, <3>5
      <4> QED BY <3>1, <3>2, <3>4, <3>5, <4>1
    <3>6. CASE p # 1
      <4>1. above = tree[p].id /\ Len(above) # 0
        BY <3>1, <3>2, <3>3, <3>6
      <4>2. q # 1
        <5>1. q = 1 => beyond = <<>>
          BY <3>2
        <5>2. Len(<<>>) = 0
          OBVIOUS
        <5> QED BY <2>4, <4>1, <5>1, <5>2
      <4>3. tree[q].id = tree[p].id
        BY <2>4, <3>2, <4>1, <4>2
      <4> QED BY <3>3, <3>4, <3>6, <4>2, <4>3 DEF T
    <3> QED BY <3>5, <3>6
  <2> QED BY <2>1, <2>4, <2>5 DEF IsNamed
<1> HIDE DEF T
<1>3. 1 .. len \subseteq T
  BY <1>1, <1>2, CourseOfValues
<1>4. n \in 1 .. len /\ n # 1
  BY <1>1
<1> QED BY <1>3, <1>4 DEF T

(* What is below a node is what its id is a prefix of.                     *)
LEMMA IdsBelow ==
    ASSUME NEW tree, NEW len, NEW S, NEW seg, IsNamed(tree, len, S, seg),
           NEW n \in 2 .. len, NEW m \in 2 .. len
    PROVE  m \in Subtree(tree, n) <=> IsPrefix(tree[n].id, tree[m].id)
<1> DEFINE mine == Subtree(tree, n)
           T == {k \in 1 .. len : k = 1 \/ (k \in mine <=> IsPrefix(tree[n].id, tree[k].id))}
<1>1. len \in Nat /\ IsPreOrder(tree, len) /\ n \in 1 .. len
  BY DEF IsNamed, IsPreOrder
<1>2. /\ mine \subseteq n .. len /\ n \in mine
      /\ \A k \in 1 .. len : k # n => (k \in mine <=> k > n /\ tree[k].parent \in mine)
  BY <1>1, SubtreeFacts
<1> HIDE DEF mine
<1>3. tree[n].id \in Seq(S) /\ Len(tree[n].id) # 0
  BY IdsAreNames
<1>4. ASSUME NEW k \in 1 .. len, \A i \in 1 .. k - 1 : i \in T PROVE k \in T
  <2>1. CASE k = 1
    BY <2>1
  <2>2. CASE k = n
    <3>1. IsPrefix(tree[n].id, tree[n].id)
      BY <1>3, PrefixIs
    <3> QED BY <1>2, <2>2, <3>1
  <2>3. CASE k # 1 /\ k # n
    <3> DEFINE p == tree[k].parent
               above == IdAbove(tree, k)
    <3>1. k \in 2 .. len
      BY <1>1, <2>3
    <3>2. p \in 1 .. k - 1 /\ seg[k] \in S /\ tree[k].id = Append(above, seg[k])
      BY <3>1 DEF IsNamed
    <3>3. above \in Seq(S)
      BY <3>1, IdsAreNames
    <3> HIDE DEF above
    <3>4. tree[n].id # tree[k].id
      BY <2>3, <3>1, IdsDiffer
    <3>5. IsPrefix(tree[n].id, tree[k].id) <=> IsPrefix(tree[n].id, above)
      BY <1>3, <3>2, <3>3, <3>4, PrefixOfAppend
    <3>6. k \in mine <=> p \in mine
      BY <1>1, <1>2, <2>3, <3>2
    <3>7. p \in mine <=> IsPrefix(tree[n].id, above)
      <4>1. CASE p = 1
        <5>1. above = <<>>
          BY <4>1 DEF above, IdAbove
        <5>2. ~IsPrefix(tree[n].id, above)
          <6>1. Len(above) = 0 /\ Len(tree[n].id) \in Nat
            BY <1>3, <5>1
          <6> QED BY <1>3, <6>1 DEF IsPrefix
        <5>3. p \notin mine
          BY <1>1, <1>2, <4>1
        <5> QED BY <5>2, <5>3
      <4>2. CASE p # 1
        <5>1. above = tree[p].id
          BY <4>2 DEF above, IdAbove
        <5>2. p \in T
          BY <1>4, <3>2
        <5> QED BY <4>2, <5>1, <5>2
      <4> QED BY <4>1, <4>2
    <3> QED BY <3>5, <3>6, <3>7
  <2> QED BY <2>1, <2>2, <2>3
<1> HIDE DEF T
<1>5. 1 .. len \subseteq T
  BY <1>1, <1>4, CourseOfValues
<1>6. m \in 1 .. len /\ m # 1
  BY <1>1
<1> QED BY <1>5, <1>6 DEF T, mine

(* Everything is below the root.                                           *)
LEMMA AllBelowRoot ==
    ASSUME NEW tree, NEW len, NEW S, NEW seg, IsNamed(tree, len, S, seg), NEW n \in 1 .. len
    PROVE  n \in Subtree(tree, 1)
<1> DEFINE mine == Subtree(tree, 1)
<1>1. len \in Nat /\ IsPreOrder(tree, len) /\ 1 \in 1 .. len
  BY DEF IsNamed, IsPreOrder
<1>2. /\ 1 \in mine
      /\ \A k \in 1 .. len : k # 1 => (k \in mine <=> k > 1 /\ tree[k].parent \in mine)
  BY <1>1, SubtreeFacts
<1> HIDE DEF mine
<1>3. ASSUME NEW k \in 1 .. len, \A i \in 1 .. k - 1 : i \in mine PROVE k \in mine
  <2>1. CASE k = 1
    BY <1>2, <2>1
  <2>2. CASE k # 1
    <3>1. k \in 2 .. len
      BY <1>1, <2>2
    <3>2. tree[k].parent \in 1 .. k - 1
      BY <3>1 DEF IsNamed
    <3> QED BY <1>2, <1>3, <2>2, <3>1, <3>2
  <2> QED BY <2>1, <2>2
<1>4. 1 .. len \subseteq mine
  BY <1>1, <1>3, CourseOfValues
<1> QED BY <1>4 DEF mine

(* The table of an accepted configuration is such a tree.                  *)
LEMMA TableIsNamed ==
    ASSUME NEW c \in Configs, Accepted(c)
    PROVE  LET len == 1 + Len(c.tree)
           IN  /\ IsNamed(NodeTable(c), len, Segments(c.tree), [n \in 2 .. len |-> c.tree[n - 1].segment])
               /\ \A k \in DOMAIN c.tree : k + 1 \in 2 .. len /\ NodeTable(c)[k + 1].id = IdOf(c.tree, k)
<1> DEFINE tree == NodeTable(c)
           conf == c.tree
           size == Len(conf)
           len == 1 + size
           seg == [n \in 2 .. len |-> conf[n - 1].segment]
           S == Segments(conf)
<1>1. /\ len \in Nat /\ DOMAIN tree = 1 .. len /\ Len(tree) = len /\ tree[1] = Root
      /\ \A n \in DOMAIN tree : n # 1 => n - 1 \in DOMAIN conf /\ tree[n] = Emit(c, n - 1)
  BY TableFacts
<1>2. /\ size \in Nat /\ DOMAIN conf = 1 .. size
      /\ \A n \in 1 .. size : conf[n].parent \in 0 .. n - 1
  <2>1. conf \in Seq(Range(conf)) /\ \A n \in DOMAIN conf : NodeFormed(conf, n)
    BY PortalAssumption
  <2>2. size \in Nat /\ DOMAIN conf = 1 .. size
    BY <2>1
  <2>3. \A n \in DOMAIN conf : conf[n].parent \in 0 .. n - 1
    BY <2>1 DEF NodeFormed
  <2> QED BY <2>2, <2>3
<1>3. IsPreOrder(conf, size)
  BY <1>2 DEF IsPreOrder
<1>4. /\ IdOf(conf, 0) = <<>>
      /\ \A n \in 1 .. size : IdOf(conf, n) = Append(IdOf(conf, conf[n].parent), conf[n].segment)
  BY <1>3, IdFacts
<1>5. UniqueSegments(conf)
  BY DEF Accepted
<1>6. \A n \in 1 .. size : conf[n].segment \in S
  BY <1>2 DEF Segments
<1> HIDE DEF tree, conf, S
<1>7. \A n \in 2 .. len :
        /\ n - 1 \in 1 .. size /\ n \in 1 .. len /\ tree[n].id = IdOf(conf, n - 1)
        /\ tree[n].parent = conf[n - 1].parent + 1
  <2> SUFFICES ASSUME NEW n \in 2 .. len
               PROVE  /\ n - 1 \in 1 .. size /\ n \in 1 .. len /\ tree[n].id = IdOf(conf, n - 1)
                      /\ tree[n].parent = conf[n - 1].parent + 1
    OBVIOUS
  <2>1. n \in DOMAIN tree /\ n # 1 /\ n - 1 \in 1 .. size /\ n \in 1 .. len
    BY <1>1, <1>2
  <2>2. tree[n] = Emit(c, n - 1)
    BY <1>1, <2>1
  <2> QED BY <2>1, <2>2 DEF Emit, conf
<1>8. ASSUME NEW n \in 2 .. len
      PROVE  /\ seg[n] = conf[n - 1].segment /\ seg[n] \in S /\ tree[n].parent \in 1 .. n - 1
             /\ tree[n].id = Append(IdAbove(tree, n), seg[n])
  <2> DEFINE p == conf[n - 1].parent
  <2>1. n - 1 \in 1 .. size /\ tree[n].id = IdOf(conf, n - 1) /\ tree[n].parent = p + 1
    BY <1>7
  <2>2. p \in 0 .. n - 2
    BY <1>2, <2>1
  <2>3. seg[n] = conf[n - 1].segment /\ seg[n] \in S
    BY <1>6, <2>1
  <2>4. IdAbove(tree, n) = IdOf(conf, p)
    <3>1. CASE p = 0
      BY <1>4, <2>1, <3>1 DEF IdAbove
    <3>2. CASE p # 0
      <4>1. p + 1 \in 2 .. len /\ (p + 1) - 1 = p /\ p + 1 # 1
        BY <1>2, <2>1, <2>2, <3>2
      <4>2. tree[p + 1].id = IdOf(conf, p)
        BY <1>7, <4>1
      <4> QED BY <2>1, <4>1, <4>2 DEF IdAbove
    <3> QED BY <3>1, <3>2
  <2>5. tree[n].parent \in 1 .. n - 1
    BY <1>2, <2>1, <2>2
  <2>6. tree[n].id = Append(IdOf(conf, p), conf[n - 1].segment)
    BY <1>4, <2>1
  <2> QED BY <2>3, <2>4, <2>5, <2>6
<1>9. ASSUME NEW m \in 2 .. len, NEW n \in 2 .. len, m # n, tree[m].parent = tree[n].parent
      PROVE  seg[m] # seg[n]
  <2>1. /\ m - 1 \in 1 .. size /\ n - 1 \in 1 .. size /\ m - 1 # n - 1
        /\ conf[m - 1].parent \in Int /\ conf[n - 1].parent \in Int
    BY <1>2, <1>7, <1>9
  <2>2. conf[m - 1].parent = conf[n - 1].parent
    BY <1>7, <1>9, <2>1
  <2>3. conf[m - 1].segment # conf[n - 1].segment
    BY <1>2, <1>5, <2>1, <2>2 DEF UniqueSegments
  <2> QED BY <1>8, <2>3
<1>10. tree[1].id = <<"car">> /\ tree[1].parent = 0
  BY <1>1 DEF Root
<1>11. \A n \in 1 .. len : tree[n].parent \in 0 .. n - 1
  <2> SUFFICES ASSUME NEW n \in 1 .. len PROVE tree[n].parent \in 0 .. n - 1
    OBVIOUS
  <2>1. n = 1 \/ n \in 2 .. len
    BY <1>1
  <2> QED BY <1>8, <1>10, <2>1
<1>12. IsPreOrder(tree, len) /\ 1 <= len
  BY <1>1, <1>2, <1>11 DEF IsPreOrder
<1>13. IsNamed(tree, len, S, seg)
  <2> HIDE DEF seg
  <2> QED BY <1>8, <1>9, <1>10, <1>12 DEF IsNamed
<1>14. \A k \in DOMAIN conf : k + 1 \in 2 .. len /\ tree[k + 1].id = IdOf(conf, k)
  <2> SUFFICES ASSUME NEW k \in DOMAIN conf PROVE k + 1 \in 2 .. len /\ tree[k + 1].id = IdOf(conf, k)
    OBVIOUS
  <2>1. k + 1 \in 2 .. len /\ (k + 1) - 1 = k
    BY <1>2
  <2> QED BY <1>7, <2>1
<1> QED BY <1>13, <1>14 DEF tree, conf, S

-----------------------------------------------------------------------------
(* What an accepted configuration makes of a node of the table.            *)

(* Of finitely many naturals one is the greatest.                          *)
LEMMA GreatestOf ==
    ASSUME NEW len \in Nat, NEW f \in [1 .. len -> Nat], NEW K, K \subseteq 1 .. len, K # {}
    PROVE  \E k \in K : \A j \in K : f[j] <= f[k]
<1> DEFINE Has(J) == \E k \in J : \A j \in J : f[j] <= f[k]
           T == {m \in Nat : \A J : J \subseteq 1 .. len /\ J \subseteq 1 .. m /\ J # {} => Has(J)}
<1>1. 0 \in T
  OBVIOUS
<1>2. ASSUME NEW m \in Nat, m \in T PROVE m + 1 \in T
  <2>1. ASSUME NEW J, J \subseteq 1 .. len, J \subseteq 1 .. m + 1, J # {} PROVE Has(J)
    <3> DEFINE I == J \ {m + 1}
    <3>1. I \subseteq 1 .. len /\ I \subseteq 1 .. m /\ I \subseteq J
      <4>1. \A j \in 1 .. m + 1 : j # m + 1 => j \in 1 .. m
        OBVIOUS
      <4> QED BY <2>1, <4>1
    <3>2. I # {} => Has(I)
      <4> HIDE DEF I, Has
      <4> QED BY <1>2, <3>1
    <3>3. \A j \in J : f[j] \in Nat
      BY <2>1
    <3>4. CASE I = {}
      <4>1. J = {m + 1}
        BY <2>1, <3>4
      <4> QED BY <3>3, <4>1
    <3>5. CASE m + 1 \notin J
      <4>1. I = J
        BY <3>5
      <4> QED BY <2>1, <3>2, <4>1
    <3>6. CASE I # {} /\ m + 1 \in J
      <4>1. PICK k \in I : \A j \in I : f[j] <= f[k]
        BY <3>2, <3>6
      <4>2. k \in J /\ f[k] \in Nat /\ f[m + 1] \in Nat /\ \A j \in J : j = m + 1 \/ j \in I
        BY <3>1, <3>3, <3>6
      <4> HIDE DEF I
      <4>3. CASE f[m + 1] <= f[k]
        <5>1. \A j \in J : f[j] <= f[k]
          BY <4>1, <4>2, <4>3
        <5> QED BY <4>2, <5>1
      <4>4. CASE f[k] <= f[m + 1]
        <5>1. \A j \in J : f[j] <= f[m + 1]
          <6> SUFFICES ASSUME NEW j \in J PROVE f[j] <= f[m + 1]
            OBVIOUS
          <6>1. f[j] \in Nat /\ (j = m + 1 \/ f[j] <= f[k])
            BY <3>3, <4>1, <4>2
          <6> QED BY <4>2, <4>4, <6>1
        <5> QED BY <3>6, <5>1
      <4>5. f[m + 1] <= f[k] \/ f[k] <= f[m + 1]
        BY <4>2
      <4> QED BY <4>3, <4>4, <4>5
    <3> QED BY <3>4, <3>5, <3>6
  <2> HIDE DEF Has
  <2> QED BY <2>1
<1> HIDE DEF T
<1>3. Nat \subseteq T
  BY <1>1, <1>2, Induction
<1>4. len \in T
  BY <1>3
<1> QED BY <1>4 DEF T

IsOne(S) == S # {} /\ \A x, y \in S : x = y

(* A set with one element has one.                                         *)
LEMMA OneEntity ==
    ASSUME NEW S, S \subseteq {"sensor", "text_sensor", "binary_sensor"}, Cardinality(S) = 1
    PROVE  IsOne(S)
<1>1. IsFiniteSet({"sensor", "text_sensor", "binary_sensor"})
  <2>1. \A x, y, z : {x, y, z} = {x} \cup ({y} \cup {z})
    OBVIOUS
  <2>2. \A x : IsFiniteSet({x})
    BY FS_Singleton
  <2>3. \A A, B : IsFiniteSet(A) /\ IsFiniteSet(B) => IsFiniteSet(A \cup B)
    BY FS_Union
  <2> DEFINE a == "sensor"
             b == "text_sensor"
             d == "binary_sensor"
  <2>4. IsFiniteSet({a} \cup ({b} \cup {d}))
    <3> HIDE DEF a, b, d
    <3> QED BY <2>2, <2>3
  <2> QED BY <2>1, <2>4
<1>2. IsFiniteSet(S)
  BY <1>1, FS_Subset
<1>3. \E x : S = {x}
  BY <1>2, FS_Singleton
<1> QED BY <1>3 DEF IsOne

\* What the schema, its cross checks and the generator leave of a node.
ValuesFit(node) ==
    /\ node.values \in Seq(Range(node.values)) /\ node.budget \in Int
    /\ \A k \in DOMAIN node.values :
         /\ node.values[k].key # ""
         /\ Kind(node.values[k]) = "binary_sensor" => node.budget = NoBudget
ReasonsFit(node) ==
    /\ "" \notin node.absent_why
    /\ node.absent_why # {} =>
         LET needed == EvidenceDiscriminators(Opt(node.absent_why)) IN
         needed # {} => \E pair \in node.absent_evidence : pair[1] \in needed
    /\ \A pair \in node.absent_evidence :
         pair # <<"announced", "true">> /\ (pair[1] = "rx_frames" => pair[2] = "0")
    /\ \A u \in node.unknown_when : u.why # "" /\ EvidenceDiscriminators(u.why) = {}
ActionsFit(node) ==
    \A a \in Range(node.actions) : a.control \in ControlKeys /\ ActionFormed(a)
NodeFits(node) ==
    ValuesFit(node) /\ ReasonsFit(node) /\ ActionsFit(node) /\ node.role \subseteq node.roles

(* Only a node whose every value has a cadence derives a budget.           *)
LEMMA BudgetFits ==
    ASSUME NEW node, node.budget \in Int, node.values \in Seq(Range(node.values)),
           \A v \in Range(node.values) :
               ValueFormed(v) /\ RequireOneEntity(v) /\ NoCadenceOnBinarySensor(v),
           BooleansHaveNoBudget(node)
    PROVE  /\ ApplyDerivedBudget(node) \in Int
           /\ \A v \in Range(node.values) :
                Kind(v) = "binary_sensor" => ApplyDerivedBudget(node) = NoBudget
<1> DEFINE values == node.values
           len == Len(values)
           cadences == UNION {v.cadence : v \in Range(values)}
           most == CHOOSE x \in cadences : \A y \in cadences : y <= x
<1>1. /\ len \in Nat /\ DOMAIN values = 1 .. len /\ \A v \in Range(values) : \E k \in 1 .. len : v = values[k]
      /\ \A k \in 1 .. len : values[k] \in Range(values)
  BY DEF Range
<1>2. \A v \in Range(values) : v.cadence \subseteq Nat /\ \A x, y \in v.cadence : x = y
  BY DEF ValueFormed
<1>3. \A v \in Range(values) : Kind(v) = "binary_sensor" <=> "binary_sensor" \in v.entities
  <2> SUFFICES ASSUME NEW v \in Range(values)
               PROVE  Kind(v) = "binary_sensor" <=> "binary_sensor" \in v.entities
    OBVIOUS
  <2>1. IsOne(v.entities)
    BY OneEntity DEF ValueFormed, RequireOneEntity
  <2> QED BY <2>1 DEF IsOne, Kind, Opt
<1>4. ASSUME values # <<>>, \A v \in Range(values) : v.cadence # {} PROVE most \in Nat
  <2> DEFINE f == [k \in 1 .. len |-> Opt(values[k].cadence)]
  <2>1. \A k \in 1 .. len : Opt(values[k].cadence) \in values[k].cadence /\ Opt(values[k].cadence) \in Nat
    BY <1>1, <1>2, <1>4 DEF Opt
  <2>2. f \in [1 .. len -> Nat]
    BY <2>1
  <2>3. 1 .. len # {}
    <3>1. values \in Seq(Range(values)) /\ values # <<>>
      BY <1>4
    <3>2. Len(values) # 0
      <4> HIDE DEF values
      <4> QED BY <3>1
    <3>3. len # 0 /\ 1 \in 1 .. len
      BY <1>1, <3>2
    <3> QED BY <3>3
  <2> DEFINE all == 1 .. len
  <2>4. all \subseteq 1 .. len /\ all # {}
    BY <2>3
  <2> HIDE DEF f, all
  <2>5. PICK k \in all : \A j \in all : f[j] <= f[k]
    BY <1>1, <2>2, <2>4, GreatestOf
  <2>6. ASSUME NEW y \in cadences PROVE \E j \in 1 .. len : y = f[j]
    <3>1. PICK v \in Range(values) : y \in v.cadence
      BY <2>6
    <3>2. PICK j \in 1 .. len : v = values[j]
      BY <1>1
    <3>3. y = Opt(values[j].cadence)
      BY <1>2, <2>1, <3>1, <3>2
    <3> QED BY <3>3 DEF f
  <2>7. f[k] \in cadences
    BY <1>1, <2>1, <2>5 DEF f, all
  <2>8. \A y \in cadences : y <= f[k]
    BY <2>5, <2>6 DEF all
  <2>9. most \in cadences
    <3> HIDE DEF cadences
    <3> QED BY <2>7, <2>8
  <2> QED BY <1>2, <2>9
<1>5. ApplyDerivedBudget(node) = IF node.budget # Omitted THEN node.budget
                                 ELSE IF values = <<>> \/ \E v \in Range(values) : v.cadence = {}
                                 THEN NoBudget ELSE 3 * most
  BY DEF ApplyDerivedBudget
<1>6. ApplyDerivedBudget(node) \in Int
  <2> HIDE DEF values, most
  <2>1. NoBudget \in Int
    BY DEF NoBudget
  <2> QED BY <1>4, <1>5, <2>1
<1>7. ASSUME NEW v \in Range(values), Kind(v) = "binary_sensor"
      PROVE  ApplyDerivedBudget(node) = NoBudget
  <2>1. "binary_sensor" \in v.entities
    BY <1>3, <1>7
  <2>2. v.cadence = {}
    BY <2>1 DEF NoCadenceOnBinarySensor
  <2>3. node.budget \in {Omitted, NoBudget}
    BY <2>1 DEF BooleansHaveNoBudget
  <2> HIDE DEF values, most
  <2> QED BY <1>5, <1>7, <2>2, <2>3
<1> QED BY <1>6, <1>7

(* Every node of the table of an accepted configuration fits.              *)
LEMMA TableFits ==
    ASSUME NEW c \in Configs, Accepted(c), NEW n \in DOMAIN NodeTable(c)
    PROVE  NodeFits(NodeTable(c)[n])
<1> DEFINE tree == NodeTable(c)
           conf == c.tree
<1>1. /\ tree[1] = Root
      /\ n # 1 => n - 1 \in DOMAIN conf /\ tree[n] = Emit(c, n - 1)
  BY TableFacts
<1>2. CASE n = 1
  <2>1. Root.values = <<>> /\ Root.budget = NoBudget /\ Root.absent_why = {} /\ Root.absent_evidence = {}
        /\ Root.unknown_when = {} /\ Root.actions = <<>> /\ Root.role = {} /\ Root.roles = {}
    BY DEF Root
  <2>2. ValuesFit(Root)
    BY <2>1 DEF ValuesFit, NoBudget
  <2>3. ReasonsFit(Root) /\ ActionsFit(Root)
    <3>1. Range(Root.actions) = {}
      BY <2>1 DEF Range
    <3> QED BY <2>1, <3>1 DEF ReasonsFit, ActionsFit
  <2> QED BY <1>1, <1>2, <2>1, <2>2, <2>3 DEF NodeFits
<1>3. CASE n # 1
  <2> DEFINE m == n - 1
             node == conf[m]
  <2>1. m \in DOMAIN conf /\ tree[n] = Emit(c, m)
    BY <1>1, <1>3
  <2>2. NodeFormed(conf, m) /\ NodeAccepted(conf, m)
    BY <2>1, PortalAssumption DEF Accepted
  <2>3. /\ tree[n].values = node.values /\ tree[n].budget = ApplyDerivedBudget(node)
        /\ tree[n].absent_why = AbsentWhy(node) /\ tree[n].absent_evidence = AbsentEvidence(conf, node)
        /\ tree[n].unknown_when = node.unknown_when /\ tree[n].actions = node.actions
        /\ tree[n].role = node.role /\ tree[n].roles = node.roles_available
    BY <2>1 DEF Emit
  <2> HIDE DEF tree, m, conf
  <2>4. /\ node.budget \in Int /\ "" \notin node.absent \cup {u.why : u \in node.unknown_when}
        /\ node.values \in Seq(Range(node.values)) /\ \A v \in Range(node.values) : ValueFormed(v)
        /\ \A a \in Range(node.actions) : ActionFormed(a)
    BY <2>2 DEF NodeFormed
  <2>5. /\ \A v \in Range(node.values) : ValueAccepted(v)
        /\ \A a \in Range(node.actions) : ValidateActionConf(a)
        /\ \A u \in node.unknown_when : ConfigWhyCode(u.why)
        /\ AbsentWhenSchema(node) /\ ValidateNodeCrossFields(conf, m)
    BY <2>2 DEF NodeAccepted
  <2>6. /\ AbsentWhy(node) # {} => ValidateAbsentEvidence(node, Opt(AbsentWhy(node)))
        /\ node.role \subseteq node.roles_available /\ BooleansHaveNoBudget(node)
    BY <2>5 DEF ValidateNodeCrossFields
  <2> HIDE DEF node
  <2>7. ValuesFit(tree[n])
    <3>1. /\ ApplyDerivedBudget(node) \in Int
          /\ \A v \in Range(node.values) :
               Kind(v) = "binary_sensor" => ApplyDerivedBudget(node) = NoBudget
      BY <2>4, <2>5, <2>6, BudgetFits DEF ValueAccepted
    <3>2. \A k \in DOMAIN node.values : node.values[k] \in Range(node.values)
      BY DEF Range
    <3> QED BY <2>3, <2>4, <3>1, <3>2 DEF ValuesFit, ValueFormed
  <2>8. ActionsFit(tree[n])
    BY <2>3, <2>4, <2>5 DEF ActionsFit, ValidateActionConf
  <2>9. ReasonsFit(tree[n])
    <3> DEFINE why == AbsentWhy(node)
               evidence == AbsentEvidence(conf, node)
               spec(w) == ABSENT_PROVIDERS[w.provider]
    <3>0. \A w \in node.absent_when : w.provider \in DOMAIN ABSENT_PROVIDERS
      BY <2>5 DEF AbsentWhenSchema
    <3>1. "" \notin why
      BY <2>4, <3>0, ProviderAssumption DEF AbsentWhy
    <3>2. ASSUME why # {}, EvidenceDiscriminators(Opt(why)) # {}
          PROVE  \E pair \in evidence : pair[1] \in EvidenceDiscriminators(Opt(why))
      <4> DEFINE code == Opt(why)
      <4>1. code \in EvidenceGatedWhyCodes
        BY <3>2 DEF EvidenceGatedWhyCodes, EvidenceDiscriminators
      <4>2. PICK w \in node.absent_when : ProviderBacksWhy(spec(w), code)
        BY <2>6, <3>2, <4>1 DEF ValidateAbsentEvidence
      <4> HIDE DEF code
      <4>3. /\ ~spec(w).action_evidence
            /\ \E pair \in spec(w).evidence : pair[1] \in EvidenceDiscriminators(code)
        BY <3>0, <4>1, <4>2, ProviderAssumption DEF ProviderBacksWhy
      <4>4. spec(w).evidence \subseteq evidence
        BY <4>3 DEF AbsentEvidence
      <4> QED BY <4>3, <4>4 DEF code
    <3>3. ASSUME NEW pair \in evidence
          PROVE  pair # <<"announced", "true">> /\ (pair[1] = "rx_frames" => pair[2] = "0")
      <4>1. PICK w \in node.absent_when :
              pair \in IF spec(w).action_evidence THEN ActionOfSwitch(conf, w.source) ELSE spec(w).evidence
        BY <3>3 DEF AbsentEvidence
      <4>2. CASE pair \in spec(w).evidence
        BY <3>0, <4>2, ProviderAssumption
      <4>3. CASE pair \in ActionOfSwitch(conf, w.source)
        <5>1. \E x, y : pair = <<"action", x, y>>
          BY <4>3 DEF ActionOfSwitch
        <5>2. PICK x, y : pair = <<"action", x, y>>
          BY <5>1
        <5>3. pair[1] = "action"
          BY <5>2
        <5>4. pair # <<"announced", "true">>
          BY <5>3
        <5> QED BY <5>3, <5>4
      <4> QED BY <4>1, <4>2, <4>3
    <3>4. \A u \in node.unknown_when : u.why # "" /\ EvidenceDiscriminators(u.why) = {}
      <4>1. \A u \in node.unknown_when : u.why \notin EvidenceGatedWhyCodes
        BY <2>5 DEF ConfigWhyCode
      <4>2. \A code : code \notin EvidenceGatedWhyCodes => EvidenceDiscriminators(code) = {}
        BY DEF EvidenceGatedWhyCodes, EvidenceDiscriminators
      <4> QED BY <2>4, <4>1, <4>2
    <3> HIDE DEF why, evidence
    <3>5. tree[n].absent_why = why /\ tree[n].absent_evidence = evidence
          /\ tree[n].unknown_when = node.unknown_when
      BY <2>3 DEF why, evidence
    <3> QED BY <3>1, <3>2, <3>3, <3>4, <3>5 DEF ReasonsFit
  <2> QED BY <2>3, <2>6, <2>7, <2>8, <2>9 DEF NodeFits, tree
<1> QED BY <1>2, <1>3

-----------------------------------------------------------------------------
(* What is written of a node: its state, reason, age and values agree.     *)

HasSna(node, ss) == \E r \in Verdicts(node, ss) : r.class = "sna"
HasStale(node, ss) == \E r \in Verdicts(node, ss) : r.state = "stale"
AskedLater(node, ss) == UnknownWhenMatches(node, ss) \/ NotRequested(node, ss)
Sound(node, ss) ==
    ~IsAbsent(node) /\ ~AskedLater(node, ss) /\ ~HasSna(node, ss) /\ WorstLimit(node, ss) = 0

\* A node's state is its own, or degraded by a child's.
StateFits(node, ss, st) ==
    \/ st = OwnState(node, ss)
    \/ st = "degraded" /\ OwnState(node, ss) \in {"ok", "stale"}
RowFits(node, ss) == DOMAIN ss = DOMAIN node.values /\ \A k \in DOMAIN ss : ss[k].age \in Nat

(* What the state of a node says of its samples.                           *)
LEMMA StateIs ==
    ASSUME NEW node, NEW ss, NEW st, StateFits(node, ss, st)
    PROVE  /\ st \in {"absent", "unknown", "degraded", "stale", "ok"}
           /\ st = "absent" => IsAbsent(node)
           /\ st = "unknown" => ~IsAbsent(node) /\ AskedLater(node, ss)
           /\ st = "ok" => Sound(node, ss) /\ ~HasStale(node, ss)
           /\ st = "stale" => Sound(node, ss) /\ HasStale(node, ss)
           /\ st = "degraded" => ~IsAbsent(node) /\ ~AskedLater(node, ss)
<1> DEFINE own == OwnState(node, ss)
<1>1. own = IF IsAbsent(node) THEN "absent"
            ELSE IF AskedLater(node, ss) THEN "unknown"
            ELSE IF HasSna(node, ss) \/ WorstLimit(node, ss) # 0 THEN "degraded"
            ELSE IF HasStale(node, ss) THEN "stale" ELSE "ok"
  BY DEF OwnState, AskedLater, HasSna, HasStale
<1>2. st = own \/ (st = "degraded" /\ own \in {"ok", "stale"})
  BY DEF StateFits
<1> HIDE DEF own
<1> QED BY <1>1, <1>2 DEF Sound

(* The verdict on a value.                                                 *)
Real(v, s) ==
    /\ s.has /\ ~(Kind(v) = "sensor" /\ s.num = NaN)
    /\ ~(Kind(v) = "text_sensor" /\ s.text = "long")
TooOld(v, s, budget) == budget # NoBudget /\ Kind(v) # "binary_sensor" /\ s.age > budget
VerdictFits(v, s, budget, r) ==
    /\ ~Real(v, s) => r.class = "sna" /\ r.state \in {"absent", "degraded"}
                      /\ r.code = "value_not_available"
    /\ Real(v, s) => r.class = "real"
    /\ Real(v, s) /\ TooOld(v, s, budget) => r.state = "stale" /\ r.code = "stale_data"
    /\ Real(v, s) /\ ~TooOld(v, s, budget) => r.state = "ok" /\ r.code = ""
LEMMA VerdictIs ==
    ASSUME NEW v, NEW s, NEW budget
    PROVE  VerdictFits(v, s, budget, ClassifyValue(v, s, budget))
<1> DEFINE none == ~s.has \/ (Kind(v) = "sensor" /\ s.num = NaN)
           cut == Kind(v) = "text_sensor" /\ s.text = "long"
           r1 == [class |-> "sna", state |-> "absent", code |-> "value_not_available"]
           r2 == [class |-> "sna", state |-> "degraded", code |-> "value_not_available"]
           r3 == [class |-> "real", state |-> "stale", code |-> "stale_data"]
           r4 == [class |-> "real", state |-> "ok", code |-> ""]
<1>1. ClassifyValue(v, s, budget) =
        IF none THEN r1 ELSE IF cut THEN r2 ELSE IF TooOld(v, s, budget) THEN r3 ELSE r4
  BY DEF ClassifyValue, TooOld
<1>2. Real(v, s) <=> ~none /\ ~cut
  BY DEF Real
<1> HIDE DEF none, cut
<1> USE DEF VerdictFits
<1>3. CASE none
  BY <1>1, <1>2, <1>3
<1>4. CASE ~none /\ cut
  BY <1>1, <1>2, <1>4
<1>5. CASE ~none /\ ~cut /\ TooOld(v, s, budget)
  BY <1>1, <1>2, <1>5
<1>6. CASE ~none /\ ~cut /\ ~TooOld(v, s, budget)
  <2>1. ClassifyValue(v, s, budget) = r4 /\ Real(v, s) /\ ~TooOld(v, s, budget)
    BY <1>1, <1>2, <1>6
  <2>2. r4.class = "real" /\ r4.state = "ok" /\ r4.code = ""
    OBVIOUS
  <2> HIDE DEF r4
  <2> QED BY <2>1, <2>2
<1> QED BY <1>3, <1>4, <1>5, <1>6

(* A node none of whose values is sna, stale or at a limit.                *)
LEMMA SoundValues ==
    ASSUME NEW node, NEW ss, ValuesFit(node), Sound(node, ss), NEW k \in DOMAIN node.values
    PROVE  /\ Real(node.values[k], ss[k])
           /\ Level(node.values[k], ss[k]) \notin {"warn", "bad"}
           /\ ~HasStale(node, ss) => ~TooOld(node.values[k], ss[k], node.budget)
<1> DEFINE v == node.values[k]
           r == ClassifyValue(v, ss[k], node.budget)
<1>1. r \in Verdicts(node, ss)
  BY DEF Verdicts
<1>2. r.class # "sna"
  BY <1>1 DEF Sound, HasSna
<1>0. VerdictFits(v, ss[k], node.budget, r)
  BY VerdictIs
<1> HIDE DEF r, v
<1>3. Real(v, ss[k])
  BY <1>0, <1>2 DEF VerdictFits
<1>4. ~HasStale(node, ss) => r.state # "stale"
  BY <1>1 DEF HasStale
<1>5. ~HasStale(node, ss) => ~TooOld(v, ss[k], node.budget)
  BY <1>0, <1>3, <1>4 DEF VerdictFits
<1>6. ASSUME NEW level \in {"warn", "bad"}, AtLevel(node, ss, level) # {}
      PROVE  FirstOf(AtLevel(node, ss, level)) # 0
  <2> DEFINE ks == AtLevel(node, ss, level)
  <2>1. DOMAIN node.values = 1 .. Len(node.values) /\ Len(node.values) \in Nat
    <3>1. node.values \in Seq(Range(node.values))
      BY DEF ValuesFit
    <3> QED BY <3>1
  <2>2. ks \subseteq Nat /\ 0 \notin ks /\ ks # {}
    BY <1>6, <2>1 DEF AtLevel
  <2>3. \E x \in ks : \A y \in ks : x <= y
    <3> HIDE DEF ks
    <3> QED BY <2>2, Least
  <2>4. FirstOf(ks) \in ks
    BY <2>3 DEF FirstOf
  <2> QED BY <2>2, <2>4
<1>7. AtLevel(node, ss, "bad") = {} /\ AtLevel(node, ss, "warn") = {}
  <2>1. WorstLimit(node, ss) = 0
    BY DEF Sound
  <2> QED BY <1>6, <2>1, WorstIs
<1>8. Level(v, ss[k]) \notin {"warn", "bad"}
  BY <1>7 DEF AtLevel, v
<1> QED BY <1>3, <1>5, <1>8 DEF v

(* Finitely many ages have an oldest.                                      *)
OldestOf(set) == CHOOSE a \in set : \A b \in set : b <= a
LEMMA OldestIs ==
    ASSUME NEW len \in Nat, NEW ss, DOMAIN ss = 1 .. len, \A k \in 1 .. len : ss[k].age \in Nat,
           NEW ks, ks \subseteq 1 .. len, ks # {}
    PROVE  LET ages == {ss[k].age : k \in ks} IN
           /\ OldestOf(ages) \in ages /\ OldestOf(ages) \in Nat
           /\ \A b \in ages : b <= OldestOf(ages)
<1> DEFINE ages == {ss[k].age : k \in ks}
           f == [k \in 1 .. len |-> ss[k].age]
<1>1. f \in [1 .. len -> Nat]
  OBVIOUS
<1> HIDE DEF f
<1>2. PICK k \in ks : \A j \in ks : f[j] <= f[k]
  BY <1>1, GreatestOf
<1>3. ss[k].age \in ages /\ \A b \in ages : b <= ss[k].age
  BY <1>2 DEF f
<1>4. ages \subseteq Nat
  OBVIOUS
<1> HIDE DEF ages
<1>5. OldestOf(ages) \in ages /\ \A b \in ages : b <= OldestOf(ages)
  BY <1>3 DEF OldestOf
<1> QED BY <1>4, <1>5 DEF ages

(* The age of a node that is ok is within its budget, of a stale one past. *)
LEMMA AgeAgrees ==
    ASSUME NEW node, NEW ss, NEW st, ValuesFit(node), RowFits(node, ss), StateFits(node, ss, st),
           NEW board, NEW trust
    PROVE  ValidateProvenance([board |-> board, age |-> NodeAge(node, ss), budget |-> node.budget,
                               trust |-> trust], st) = {}
<1> DEFINE len == Len(node.values)
           ks == {j \in DOMAIN ss : ss[j].has}
           ages == {ss[k].age : k \in ks}
           age == NodeAge(node, ss)
           budget == node.budget
<1>1. /\ len \in Nat /\ DOMAIN node.values = 1 .. len /\ DOMAIN ss = 1 .. len
      /\ \A k \in 1 .. len : ss[k].age \in Nat
  <2>1. node.values \in Seq(Range(node.values))
    BY DEF ValuesFit
  <2>2. len \in Nat /\ DOMAIN node.values = 1 .. len
    BY <2>1
  <2> QED BY <2>2 DEF RowFits
<1>2. ASSUME Sound(node, ss) PROVE age = IF ages = {} THEN NoAge ELSE OldestOf(ages)
  <2>1. ~IsAbsent(node) /\ ~UnknownWhenMatches(node, ss) /\ ~NotRequested(node, ss)
    BY <1>2 DEF Sound, AskedLater
  <2> QED BY <2>1 DEF NodeAge, OldestOf
<1>3. ages # {} => OldestOf(ages) \in ages /\ OldestOf(ages) \in Nat
                   /\ \A b \in ages : b <= OldestOf(ages)
  <2>1. ks \subseteq 1 .. len /\ (ages # {} => ks # {})
    BY <1>1
  <2> HIDE DEF len, ks
  <2> QED BY <1>1, <2>1, OldestIs
<1>4. budget \in Int /\ NoAge = -1 /\ NoBudget = -1
  BY DEF ValuesFit, NoAge, NoBudget
<1>5. ASSUME st = "ok", age # NoAge, budget # NoBudget PROVE age <= budget /\ age \in Nat
  <2>1. Sound(node, ss) /\ ~HasStale(node, ss)
    BY <1>5, StateIs
  <2>2. age \in ages /\ age \in Nat
    BY <1>2, <1>3, <1>5, <2>1
  <2>3. PICK k \in 1 .. len : ss[k].has /\ age = ss[k].age
    BY <1>1, <2>2
  <2>4. ~TooOld(node.values[k], ss[k], budget)
    BY <1>1, <2>1, SoundValues
  <2>5. Kind(node.values[k]) # "binary_sensor"
    BY <1>1, <1>5 DEF ValuesFit
  <2>6. ~(ss[k].age > budget)
    BY <1>5, <2>4, <2>5 DEF TooOld
  <2> HIDE DEF age, budget
  <2> QED BY <1>4, <2>2, <2>3, <2>6
<1>6. ASSUME st = "stale" PROVE age \in Nat /\ age > budget
  <2>1. Sound(node, ss) /\ HasStale(node, ss)
    BY <1>6, StateIs
  <2>2. PICK k \in 1 .. len : ClassifyValue(node.values[k], ss[k], budget).state = "stale"
    BY <1>1, <2>1 DEF HasStale, Verdicts
  <2>3. Real(node.values[k], ss[k]) /\ TooOld(node.values[k], ss[k], budget)
    BY <2>2, VerdictIs DEF VerdictFits
  <2>4. ss[k].has /\ ss[k].age > budget
    BY <2>3 DEF Real, TooOld
  <2>5. ss[k].age \in ages
    BY <1>1, <2>4
  <2>6. age \in Nat /\ ss[k].age <= age
    BY <1>2, <1>3, <2>1, <2>5
  <2>7. ss[k].age \in Nat
    BY <1>1
  <2> HIDE DEF age, budget, ages
  <2> QED BY <1>4, <2>4, <2>6, <2>7
<1>7. st # "down"
  BY StateIs
<1> DEFINE prov == [board |-> board, age |-> age, budget |-> budget, trust |-> trust]
<1>8. prov.age = age /\ prov.budget = budget
  OBVIOUS
<1> HIDE DEF age, budget, prov
<1>9. ~(st = "ok" /\ age # NoAge /\ budget # NoBudget /\ age > budget)
  BY <1>4, <1>5
<1>10. ~(st = "stale" /\ age = NoAge)
  BY <1>4, <1>6
<1>11. ~(st = "stale" /\ age <= budget)
  BY <1>4, <1>6
<1>12. ValidateProvenance(prov, st) = {}
  BY <1>7, <1>8, <1>9, <1>10, <1>11 DEF ValidateProvenance, If
<1> QED BY <1>12 DEF prov, age, budget

(* Without a reading there is no level.                                    *)
LEMMA NoLevel ==
    ASSUME NEW v, NEW s, ~Real(v, s)
    PROVE  Level(v, s) = None
BY DEF Level, Real

(* A reason is there unless all is well, with what its code needs.         *)
WhyAgrees(st, why) ==
    /\ st = "ok" <=> why = NoWhy
    /\ why # NoWhy => \/ EvidenceDiscriminators(why.code) = {}
                      \/ EvidenceDiscriminators(why.code) \cap EvidenceKeys(why) # {}
LEMMA WhyIsChecked ==
    ASSUME NEW st, NEW why, WhyAgrees(st, why)
    PROVE  CheckWhy(st = "ok", why) = {}
<1>1. CASE st = "ok"
  <2>1. why = NoWhy
    BY <1>1 DEF WhyAgrees
  <2> HIDE DEF NoWhy
  <2> QED BY <1>1, <2>1 DEF CheckWhy, If
<1>2. CASE st # "ok"
  <2>1. why # NoWhy
    BY <1>2 DEF WhyAgrees
  <2>2. If((st = "ok") # (why = NoWhy), "why_state_mismatch") = {}
    BY <1>2, <2>1 DEF If
  <2>3. ValidateWhyBlock(why) = {}
    BY <2>1 DEF WhyAgrees, ValidateWhyBlock, If
  <2> QED BY <2>1, <2>2, <2>3 DEF CheckWhy
<1> QED BY <1>1, <1>2

Because(code, evidence) == [code |-> code, evidence |-> evidence]
(* Such a reason has its code and evidence.                                *)
LEMMA BecauseIs ==
    ASSUME NEW code, code # "", NEW evidence, NEW why, why = Because(code, evidence)
    PROVE  why.code = code /\ why.evidence = evidence /\ why # NoWhy
<1>1. /\ [code |-> code, evidence |-> evidence].code = code
      /\ [code |-> code, evidence |-> evidence].evidence = evidence
  OBVIOUS
<1>2. NoWhy.code = ""
  BY DEF NoWhy
<1>3. why = [code |-> code, evidence |-> evidence]
  BY DEF Because
<1>4. why.code = code /\ why.evidence = evidence
  BY <1>1, <1>3
<1> QED BY <1>2, <1>4

KeyExcused(keyed) == If(~keyed, "wrong_type") \cup If(~keyed, "empty_label")
(* What is written of a value agrees with itself; its key and label wait   *)
(* for the first sample.                                                   *)
LEMMA ValueWritten ==
    ASSUME NEW v, v.key # "", NEW s, NEW budget, NEW keyed
    PROVE  ValidateValue(WriteValue(v, s, budget, keyed)) \subseteq KeyExcused(keyed)
<1> DEFINE r == ClassifyValue(v, s, budget)
           w == WriteValue(v, s, budget, keyed)
<1>1. /\ w.key = (IF keyed THEN v.key ELSE "") /\ w.label = (IF keyed THEN "label" ELSE "")
      /\ w.level = Level(v, s) /\ w.class = r.class
      /\ w.value = IF r.class = "sna" THEN Null
                   ELSE CASE Kind(v) = "sensor" -> Json("number", s.num, "")
                          [] Kind(v) = "text_sensor" -> Json("string", 0, s.text)
                          [] OTHER -> Json("bool", s.num, "")
      /\ w.state = r.state
      /\ w.why = IF r.state = "ok" THEN NoWhy ELSE Because(r.code, {})
  BY DEF WriteValue, Because
<1>2. VerdictFits(v, s, budget, r)
  BY VerdictIs
<1> HIDE DEF w, r
<1>3. /\ If(w.key = "", "wrong_type") \subseteq If(~keyed, "wrong_type")
      /\ If(w.label = "", "empty_label") \subseteq If(~keyed, "empty_label")
  BY <1>1 DEF If
<1>4. (w.value = Null) <=> (w.class = "sna")
  <2>1. \A n, x : /\ Json("number", n, x) # Null /\ Json("string", n, x) # Null
                  /\ Json("bool", n, x) # Null
    BY DEF Json, Null
  <2> HIDE DEF Null
  <2> QED BY <1>1, <2>1
<1>5. ~(w.level # None /\ w.value = Null)
  <2>1. w.value = Null => ~Real(v, s)
    BY <1>1, <1>2, <1>4 DEF VerdictFits
  <2> QED BY <1>1, <2>1, NoLevel
<1>6. WhyAgrees(w.state, w.why)
  <2>1. CASE r.state = "ok"
    BY <1>1, <2>1 DEF WhyAgrees
  <2>2. CASE r.state # "ok"
    <3>1. r.code \in {"value_not_available", "stale_data"}
      BY <1>2, <2>2 DEF VerdictFits
    <3>2. w.why = Because(r.code, {}) /\ w.state # "ok"
      BY <1>1, <2>2
    <3>3. w.why.code = r.code /\ w.why # NoWhy
      <4>1. r.code # ""
        BY <3>1
      <4> DEFINE none == {}
                 why == w.why
      <4>2. why = Because(r.code, none)
        BY <3>2
      <4> HIDE DEF none, why
      <4>3. why.code = r.code /\ why # NoWhy
        BY <4>1, <4>2, BecauseIs
      <4> QED BY <4>3 DEF why
    <3>4. EvidenceDiscriminators(w.why.code) = {}
      BY <3>1, <3>3 DEF EvidenceDiscriminators
    <3> QED BY <3>2, <3>3, <3>4 DEF WhyAgrees
  <2> QED BY <2>1, <2>2
<1>7. CheckWhy(w.state = "ok", w.why) = {}
  BY <1>6, WhyIsChecked
<1>8. If((w.value = Null) # (w.class = "sna"), "sna_value_mismatch") = {}
  BY <1>4 DEF If
<1>9. If(w.level # None /\ w.value = Null, "level_without_reading") = {}
  BY <1>5 DEF If
<1>10. ValidateValue(w) = If(w.key = "", "wrong_type") \cup If(w.label = "", "empty_label")
  BY <1>7, <1>8, <1>9 DEF ValidateValue
<1> QED BY <1>3, <1>10 DEF w, KeyExcused

\* The reasons of a node, by its state.
WhyFits(node, ss, st, why) ==
    LET worst == WorstLimit(node, ss) IN
    \/ st = "ok" /\ why = NoWhy
    \/ /\ st = "absent" /\ node.absent_why # {}
       /\ why = Because(Opt(node.absent_why), node.absent_evidence)
    \/ st = "unknown" /\ \E u \in node.unknown_when : why = Because(u.why, {})
    \/ st = "unknown" /\ NotRequested(node, ss) /\ why = Because("not_requested", {})
    \/ /\ st \in {"degraded", "stale"}
       /\ \E code \in {"entities_unavailable", "stale_data", "child_degraded"} : why = Because(code, {})
    \/ /\ st = "degraded" /\ worst # 0
       /\ why = Because("limit", {<<"value", node.values[worst].key>>,
                                  <<"level", Level(node.values[worst], ss[worst])>>})

(* A node's reason is one of them.                                         *)
LEMMA WhyIs ==
    ASSUME NEW node, NEW ss, NEW st, StateFits(node, ss, st)
    PROVE  WhyFits(node, ss, st, NodeWhy(node, ss, st))
<1> DEFINE worst == WorstLimit(node, ss)
           limit == Because("limit", {<<"value", node.values[worst].key>>,
                                      <<"level", Level(node.values[worst], ss[worst])>>})
           why == NodeWhy(node, ss, st)
           declared == Opt(node.unknown_when)
<1>1. why = IF st = "ok" THEN NoWhy
            ELSE IF st = "absent" THEN Because(Opt(node.absent_why), node.absent_evidence)
            ELSE IF UnknownWhenMatches(node, ss) THEN Because(declared.why, {})
            ELSE IF st = "unknown" THEN Because("not_requested", {})
            ELSE IF HasSna(node, ss) THEN Because("entities_unavailable", {})
            ELSE IF worst # 0 THEN limit
            ELSE IF HasStale(node, ss) THEN Because("stale_data", {})
            ELSE Because("child_degraded", {})
  BY DEF NodeWhy, HasSna, HasStale, Because
<1>2. /\ st \in {"absent", "unknown", "degraded", "stale", "ok"}
      /\ st = "absent" => node.absent_why # {}
      /\ st = "unknown" => UnknownWhenMatches(node, ss) \/ NotRequested(node, ss)
      /\ st \in {"stale", "degraded"} => ~UnknownWhenMatches(node, ss)
      /\ st = "stale" => worst = 0
  BY StateIs DEF IsAbsent, AskedLater, Sound
<1>3. UnknownWhenMatches(node, ss) => declared \in node.unknown_when
  BY DEF UnknownWhenMatches, Opt
<1>4. WhyFits(node, ss, st, why) <=>
        \/ st = "ok" /\ why = NoWhy
        \/ /\ st = "absent" /\ node.absent_why # {}
           /\ why = Because(Opt(node.absent_why), node.absent_evidence)
        \/ st = "unknown" /\ \E u \in node.unknown_when : why = Because(u.why, {})
        \/ st = "unknown" /\ NotRequested(node, ss) /\ why = Because("not_requested", {})
        \/ /\ st \in {"degraded", "stale"}
           /\ \E code \in {"entities_unavailable", "stale_data", "child_degraded"} : why = Because(code, {})
        \/ st = "degraded" /\ worst # 0 /\ why = limit
  BY DEF WhyFits
<1> SUFFICES WhyFits(node, ss, st, why)
  OBVIOUS
<1> HIDE DEF worst, limit, why, declared
<1>5. CASE st = "ok"
  BY <1>1, <1>4, <1>5
<1>6. CASE st = "absent"
  BY <1>1, <1>2, <1>4, <1>6
<1>7. CASE st = "unknown"
  BY <1>1, <1>2, <1>3, <1>4, <1>7
<1>8. CASE st \in {"degraded", "stale"}
  <2>1. why = IF HasSna(node, ss) THEN Because("entities_unavailable", {})
              ELSE IF worst # 0 THEN limit
              ELSE IF HasStale(node, ss) THEN Because("stale_data", {})
              ELSE Because("child_degraded", {})
    BY <1>1, <1>2, <1>8
  <2>2. \/ why = limit /\ worst # 0
        \/ \E code \in {"entities_unavailable", "stale_data", "child_degraded"} : why = Because(code, {})
    BY <2>1
  <2> QED BY <1>2, <1>4, <1>8, <2>2
<1> QED BY <1>2, <1>5, <1>6, <1>7, <1>8

(* Its evidence is the evidence its code needs, and not evidence against   *)
(* its state.                                                              *)
LEMMA WhyWritten ==
    ASSUME NEW node, NEW ss, NEW st, StateFits(node, ss, st), ReasonsFit(node), NEW why,
           why = NodeWhy(node, ss, st)
    PROVE  /\ CheckWhy(st = "ok", why) = {} /\ CheckFramesEvidence(st, why) = {}
           /\ CheckAnnouncedEvidence(st, why) = {}
<1>0. WhyFits(node, ss, st, why)
  BY WhyIs
<1>1. \A code, evidence : /\ Because(code, evidence).code = code
                          /\ Because(code, evidence).evidence = evidence
                          /\ code # "" => Because(code, evidence) # NoWhy
  BY DEF Because, NoWhy
<1>2. \A code \in {"not_requested", "entities_unavailable", "stale_data", "child_degraded", "limit"} :
        EvidenceDiscriminators(code) = {}
  BY DEF EvidenceDiscriminators
<1> DEFINE Fine == /\ WhyAgrees(st, why)
                   /\ st = "absent" => /\ <<"announced", "true">> \notin why.evidence
                                       /\ \A pair \in why.evidence : pair[1] = "rx_frames" => pair[2] = "0"
                   /\ st # "absent" => <<"announced", "true">> \notin why.evidence
<1>3. ASSUME st = "ok" /\ why = NoWhy PROVE Fine
  <2>1. NoWhy.evidence = {}
    BY DEF NoWhy
  <2> QED BY <1>3, <2>1 DEF WhyAgrees
<1>4. ASSUME st = "absent" /\ node.absent_why # {}
           /\ why = Because(Opt(node.absent_why), node.absent_evidence) PROVE Fine
  <2> DEFINE code == Opt(node.absent_why)
             needed == EvidenceDiscriminators(code)
  <2>1. code # ""
    BY <1>4 DEF Opt, ReasonsFit
  <2>2. needed # {} => \E pair \in node.absent_evidence : pair[1] \in needed
    BY <1>4 DEF ReasonsFit
  <2>6. why = Because(code, node.absent_evidence)
    BY <1>4
  <2> HIDE DEF code
  <2>3. why.code = code /\ why.evidence = node.absent_evidence /\ why # NoWhy
    BY <2>1, <2>6, BecauseIs
  <2> HIDE DEF needed
  <2>4. needed = {} \/ needed \cap EvidenceKeys(why) # {}
    BY <2>2, <2>3 DEF EvidenceKeys
  <2>5. WhyAgrees(st, why)
    BY <1>4, <2>3, <2>4 DEF WhyAgrees, needed
  <2> QED BY <1>4, <2>3, <2>5 DEF ReasonsFit
<1>5. ASSUME NEW code, code # "", EvidenceDiscriminators(code) = {}, st \notin {"ok", "absent"},
             why = Because(code, {}) PROVE Fine
  <2>1. why.code = code /\ why.evidence = {} /\ why # NoWhy
    BY <1>1, <1>5
  <2> QED BY <1>5, <2>1 DEF WhyAgrees
<1> HIDE DEF Fine
<1>6. ASSUME st = "unknown" /\ \E u \in node.unknown_when : why = Because(u.why, {}) PROVE Fine
  BY <1>5, <1>6 DEF ReasonsFit
<1>7. ASSUME st = "unknown" /\ NotRequested(node, ss) /\ why = Because("not_requested", {}) PROVE Fine
  BY <1>2, <1>5, <1>7
<1>8. ASSUME st \in {"degraded", "stale"}
           /\ \E code \in {"entities_unavailable", "stale_data", "child_degraded"} : why = Because(code, {}) PROVE Fine
  BY <1>2, <1>5, <1>8
<1>9. ASSUME st = "degraded" /\ \E x, y : why = Because("limit", {<<"value", x>>, <<"level", y>>}) PROVE Fine
  <2>1. PICK x, y : why = Because("limit", {<<"value", x>>, <<"level", y>>})
    BY <1>9
  <2>2. why.code = "limit" /\ why.evidence = {<<"value", x>>, <<"level", y>>} /\ why # NoWhy
    BY <1>1, <2>1
  <2>3. <<"announced", "true">> \notin why.evidence
    <3>1. <<"announced", "true">> # <<"value", x>> /\ <<"announced", "true">> # <<"level", y>>
      OBVIOUS
    <3> QED BY <2>2, <3>1
  <2> QED BY <1>2, <1>9, <2>2, <2>3 DEF WhyAgrees, Fine
<1>10. Fine
  BY <1>0, <1>3, <1>4, <1>6, <1>7, <1>8, <1>9 DEF WhyFits
<1>11. CheckWhy(st = "ok", why) = {}
  BY <1>10, WhyIsChecked DEF Fine
<1>12. st # "silent"
  BY StateIs
<1>13. CheckFramesEvidence(st, why) = {}
  BY <1>10, <1>12 DEF Fine, CheckFramesEvidence, If
<1>14. CheckAnnouncedEvidence(st, why) = {}
  BY <1>10 DEF Fine, CheckAnnouncedEvidence
<1> QED BY <1>11, <1>13, <1>14

Declared(node) == node.absent_why \cup {u.why : u \in node.unknown_when}
SharesKey(node) == \E j, k \in DOMAIN node.values : j # k /\ node.values[j].key = node.values[k].key
NodeExcused(node) ==
    If("limit" \in Declared(node), "limit_evidence_mismatch")
      \cup If("not_requested" \in Declared(node), "not_requested_inconsistent")
      \cup If("switched_off" \in Declared(node), "switched_off_inconsistent")
      \cup If(SharesKey(node), "limit_evidence_mismatch")

\* The parts of CheckV15Why().
Given(why, key) == {pair[2] : pair \in {q \in why.evidence : q[1] = key}}
Named(w) == {k \in DOMAIN w.values :
               /\ w.values[k].key \in Given(w.why, "value")
               /\ \A j \in 1 .. k - 1 : w.values[j].key \notin Given(w.why, "value")}
Agrees(w) == /\ Given(w.why, "value") # {}
             /\ Given(w.why, "level") \in {{"warn"}, {"bad"}}
             /\ \A k \in Named(w) : w.values[k].level \in Given(w.why, "level")
Inconsistent(w) == w.state # "unknown" \/ \E v \in Range(w.values) : v.value # Null

(* The worst value is one of the node's, at its level.                     *)
LEMMA WorstFacts ==
    ASSUME NEW node, NEW ss, ValuesFit(node), WorstLimit(node, ss) # 0
    PROVE  /\ WorstLimit(node, ss) \in DOMAIN node.values
           /\ Level(node.values[WorstLimit(node, ss)], ss[WorstLimit(node, ss)]) \in {"warn", "bad"}
<1>1. DOMAIN node.values = 1 .. Len(node.values) /\ Len(node.values) \in Nat
  <2>1. node.values \in Seq(Range(node.values))
    BY DEF ValuesFit
  <2> QED BY <2>1
<1>2. ASSUME NEW level, AtLevel(node, ss, level) # {}
      PROVE  FirstOf(AtLevel(node, ss, level)) \in AtLevel(node, ss, level)
  <2> DEFINE ks == AtLevel(node, ss, level)
  <2>1. ks \subseteq Nat /\ ks # {}
    BY <1>1, <1>2 DEF AtLevel
  <2> HIDE DEF ks
  <2>2. \E x \in ks : \A y \in ks : x <= y
    BY <2>1, Least
  <2>3. FirstOf(ks) \in ks
    BY <2>2 DEF FirstOf
  <2> QED BY <2>3 DEF ks
<1>3. \E level \in {"warn", "bad"} : WorstLimit(node, ss) \in AtLevel(node, ss, level)
  BY <1>2, WorstIs
<1> QED BY <1>3 DEF AtLevel

(* The worst value's key and level are the evidence of a limit, and the    *)
(* first value of that key is at that level.                               *)
LEMMA LimitAgrees ==
    ASSUME NEW node, NEW ss, NEW keyed, NEW w, ValuesFit(node), RowFits(node, ss),
           ~SharesKey(node), WorstLimit(node, ss) # 0,
           w.values = [k \in DOMAIN ss |-> WriteValue(node.values[k], ss[k], node.budget, keyed)],
           w.why = Because("limit", {<<"value", node.values[WorstLimit(node, ss)].key>>,
                                     <<"level", Level(node.values[WorstLimit(node, ss)],
                                                      ss[WorstLimit(node, ss)])>>})
    PROVE  Agrees(w)
<1> DEFINE worst == WorstLimit(node, ss)
           key == node.values[worst].key
           level == Level(node.values[worst], ss[worst])
           evidence == {<<"value", key>>, <<"level", level>>}
<1>1. worst \in DOMAIN node.values /\ level \in {"warn", "bad"} /\ key # ""
  BY WorstFacts DEF ValuesFit
<1>2. w.why.evidence = evidence
  <2> DEFINE why == w.why
             code == "limit"
  <2>1. code # "" /\ why = Because(code, evidence)
    OBVIOUS
  <2> HIDE DEF code, evidence, why
  <2>2. why.evidence = evidence
    BY <2>1, BecauseIs
  <2> QED BY <2>2 DEF why
<1>3. \A k \in DOMAIN w.values :
        /\ k \in DOMAIN node.values
        /\ w.values[k].key = (IF keyed THEN node.values[k].key ELSE "")
        /\ w.values[k].level = Level(node.values[k], ss[k])
  <2> SUFFICES ASSUME NEW k \in DOMAIN w.values
               PROVE  /\ k \in DOMAIN node.values
                      /\ w.values[k].key = (IF keyed THEN node.values[k].key ELSE "")
                      /\ w.values[k].level = Level(node.values[k], ss[k])
    OBVIOUS
  <2> DEFINE x == w.values[k]
  <2>1. k \in DOMAIN ss /\ x = WriteValue(node.values[k], ss[k], node.budget, keyed)
    OBVIOUS
  <2> HIDE DEF x
  <2>2. x.key = (IF keyed THEN node.values[k].key ELSE "") /\ x.level = Level(node.values[k], ss[k])
    BY <2>1 DEF WriteValue
  <2> QED BY <2>1, <2>2 DEF RowFits, x
<1> HIDE DEF worst, key, level
<1>4. Given(w.why, "value") = {key} /\ Given(w.why, "level") = {level}
  <2>1. \A pair \in evidence : pair = <<"value", key>> \/ pair = <<"level", level>>
    OBVIOUS
  <2>2. <<"value", key>>[1] = "value" /\ <<"value", key>>[2] = key
        /\ <<"level", level>>[1] = "level" /\ <<"level", level>>[2] = level
    OBVIOUS
  <2>3. {q \in evidence : q[1] = "value"} = {<<"value", key>>}
    OBVIOUS
  <2>4. {q \in evidence : q[1] = "level"} = {<<"level", level>>}
    OBVIOUS
  <2>5. {pair[2] : pair \in {<<"value", key>>}} = {key}
    BY <2>2
  <2>6. {pair[2] : pair \in {<<"level", level>>}} = {level}
    BY <2>2
  <2> QED BY <1>2, <2>3, <2>4, <2>5, <2>6 DEF Given
<1>5. ASSUME NEW k \in Named(w) PROVE w.values[k].level = level
  <2>1. k \in DOMAIN w.values /\ w.values[k].key = key
    BY <1>4, <1>5 DEF Named
  <2>2. node.values[k].key = node.values[worst].key /\ k \in DOMAIN node.values
    BY <1>1, <1>3, <2>1 DEF key
  <2>3. k = worst
    BY <1>1, <2>2 DEF SharesKey
  <2> QED BY <1>3, <2>1, <2>3 DEF level
<1> QED BY <1>1, <1>4, <1>5 DEF Agrees

(* A node that was never asked for shows no value.                         *)
LEMMA NotRequestedShowsNothing ==
    ASSUME NEW node, NEW ss, NEW keyed, NEW w, RowFits(node, ss), NotRequested(node, ss),
           w.state = "unknown",
           w.values = [k \in DOMAIN ss |-> WriteValue(node.values[k], ss[k], node.budget, keyed)]
    PROVE  ~Inconsistent(w)
<1>1. ASSUME NEW k \in DOMAIN ss PROVE w.values[k].value = Null
  <2> DEFINE v == node.values[k]
             r == ClassifyValue(v, ss[k], node.budget)
  <2>1. ~Real(v, ss[k])
    BY DEF NotRequested, Real
  <2>2. VerdictFits(v, ss[k], node.budget, r)
    BY VerdictIs
  <2>3. r.class = "sna"
    <3> HIDE DEF v, r
    <3> QED BY <2>1, <2>2 DEF VerdictFits
  <2> DEFINE x == w.values[k]
             budget == node.budget
  <2>4. x = WriteValue(v, ss[k], budget, keyed)
    OBVIOUS
  <2>5. ClassifyValue(v, ss[k], budget).class = "sna"
    BY <2>3
  <2> HIDE DEF v, x, budget
  <2>6. x.value = Null
    BY <2>4, <2>5 DEF WriteValue
  <2> QED BY <2>6 DEF x
<1>2. \A v \in Range(w.values) : \E k \in DOMAIN ss : v = w.values[k]
  BY DEF Range
<1> QED BY <1>1, <1>2 DEF Inconsistent

(* The reasons only the emitter gives are backed by what it writes; one    *)
(* the configuration declares is not.                                      *)
LEMMA V15Written ==
    ASSUME NEW node, NEW ss, NEW st, NEW keyed, NEW w, ValuesFit(node), RowFits(node, ss),
           StateFits(node, ss, st), w.state = st, w.why = NodeWhy(node, ss, st),
           w.values = [k \in DOMAIN ss |-> WriteValue(node.values[k], ss[k], node.budget, keyed)]
    PROVE  CheckV15Why(w) \subseteq NodeExcused(node)
<1> DEFINE code == w.why.code
           Fine == /\ code = "limit" => "limit" \in Declared(node) \/ SharesKey(node) \/ Agrees(w)
                   /\ code = "not_requested" => "not_requested" \in Declared(node) \/ ~Inconsistent(w)
                   /\ code = "switched_off" => "switched_off" \in Declared(node) \/ st = "absent"
<1>1. WhyFits(node, ss, st, w.why)
  BY WhyIs
<1>2. ASSUME NEW c, NEW evidence, w.why = Because(c, evidence) PROVE code = c
  BY <1>2 DEF Because
<1>3. ASSUME st = "ok" /\ w.why = NoWhy PROVE Fine
  <2>1. NoWhy.code = ""
    BY DEF NoWhy
  <2> QED BY <1>3, <2>1
<1>4. ASSUME st = "absent", node.absent_why # {},
             w.why = Because(Opt(node.absent_why), node.absent_evidence) PROVE Fine
  <2>1. code = Opt(node.absent_why)
    BY <1>2, <1>4
  <2>2. Opt(node.absent_why) \in Declared(node)
    BY <1>4 DEF Opt, Declared
  <2> HIDE DEF code
  <2> QED BY <1>4, <2>1, <2>2
<1>5. ASSUME \E u \in node.unknown_when : w.why = Because(u.why, {}) PROVE Fine
  <2>1. PICK u \in node.unknown_when : w.why = Because(u.why, {})
    BY <1>5
  <2>2. code = u.why
    BY <1>2, <2>1
  <2>3. u.why \in Declared(node)
    BY DEF Declared
  <2> HIDE DEF code
  <2> QED BY <2>2, <2>3
<1>6. ASSUME st = "unknown", NotRequested(node, ss), w.why = Because("not_requested", {}) PROVE Fine
  <2>1. code = "not_requested"
    BY <1>2, <1>6
  <2>2. ~Inconsistent(w)
    BY <1>6, NotRequestedShowsNothing
  <2> HIDE DEF code
  <2> QED BY <2>1, <2>2
<1>7. ASSUME \E c \in {"entities_unavailable", "stale_data", "child_degraded"} : w.why = Because(c, {})
      PROVE  Fine
  <2>1. PICK c \in {"entities_unavailable", "stale_data", "child_degraded"} : w.why = Because(c, {})
    BY <1>7
  <2>2. code = c
    BY <1>2, <2>1
  <2> HIDE DEF code
  <2> QED BY <2>2
<1>8. ASSUME WorstLimit(node, ss) # 0,
             w.why = Because("limit", {<<"value", node.values[WorstLimit(node, ss)].key>>,
                                       <<"level", Level(node.values[WorstLimit(node, ss)],
                                                        ss[WorstLimit(node, ss)])>>})
      PROVE  Fine
  <2>1. SharesKey(node) \/ Agrees(w)
    BY <1>8, LimitAgrees
  <2>2. code = "limit"
    BY <1>2, <1>8
  <2> HIDE DEF code
  <2> QED BY <2>1, <2>2
<1>9. Fine
  <2> HIDE DEF Fine
  <2> QED BY <1>1, <1>3, <1>4, <1>5, <1>6, <1>7, <1>8 DEF WhyFits
<1>10. CheckV15Why(w) = If(code = "limit" /\ ~Agrees(w), "limit_evidence_mismatch")
          \cup If(code = "not_requested" /\ Inconsistent(w), "not_requested_inconsistent")
          \cup If(code = "switched_off" /\ w.state # "absent", "switched_off_inconsistent")
  BY DEF CheckV15Why, Agrees, Given, Named, Inconsistent
<1> HIDE DEF code
<1> QED BY <1>9, <1>10 DEF NodeExcused, If

(* An element carries the class and the value of its class.                *)
LEMMA SeriesWritten ==
    ASSUME NEW raws, NEW series,
           series.elements = <<>> \/ series.elements = [i \in DOMAIN raws |-> WriteElement(raws[i])]
    PROVE  ValidateSeries(series) = {}
<1>1. ASSUME NEW i \in DOMAIN series.elements
      PROVE  LET e == series.elements[i] IN
             /\ e.cls \in {"r", "s", "i", "-"}
             /\ ~(e.cls \in {"s", "-"} /\ e.value # Null) /\ ~(e.cls \in {"r", "i"} /\ e.value = Null)
  <2> DEFINE raw == raws[i]
             e == series.elements[i]
             kept == raw.answered /\ raw.cls \in {"r", "i"} /\ raw.has
  <2>1. e = WriteElement(raw)
    OBVIOUS
  <2>2. /\ e.cls = (IF ~raw.answered \/ raw.cls \notin {"r", "s", "i"} \/ (raw.cls # "s" /\ ~raw.has)
                   THEN "-" ELSE raw.cls)
        /\ e.value = IF kept THEN Json("number", 1, "") ELSE Null
    <3>1. \A x, y : [cls |-> x, value |-> y].cls = x /\ [cls |-> x, value |-> y].value = y
      OBVIOUS
    <3> HIDE DEF e, raw
    <3> QED BY <2>1, <3>1 DEF WriteElement
  <2>3. Json("number", 1, "") # Null
    BY DEF Json, Null
  <2> HIDE DEF e, raw
  <2>4. CASE kept
    BY <2>2, <2>3, <2>4 DEF e
  <2>5. CASE ~kept
    <3>1. e.value = Null /\ e.cls \in {"s", "-"}
      BY <2>2, <2>5
    <3> QED BY <3>1 DEF e
  <2> QED BY <2>4, <2>5
<1> QED BY <1>1 DEF ValidateSeries, If

-----------------------------------------------------------------------------
(* What is written of an action.                                           *)

(* Printing keeps the order of whole numbers.                              *)
LEMMA PrintedWhole ==
    ASSUME NEW d \in 0 .. 6
    PROVE  /\ POW10[d + 1] \in Nat \ {0}
           /\ \A x \in Int : Printed(1000 * x, d) = x * POW10[d + 1]
           /\ \A x \in Nat : Printed(x, d) \in Nat
<1>1. d = 0 \/ d = 1 \/ d = 2 \/ d = 3 \/ d = 4 \/ d = 5 \/ d = 6
  OBVIOUS
<1>2. /\ POW10[1] = 1 /\ POW10[2] = 10 /\ POW10[3] = 100 /\ POW10[4] = 1000 /\ POW10[5] = 10000
      /\ POW10[6] = 100000 /\ POW10[7] = 1000000
  BY DEF POW10
<1>3. POW10[d + 1] \in Nat \ {0}
  BY <1>1, <1>2
<1> DEFINE p == POW10[d + 1]
<1> HIDE DEF p
<1>4. p \in Nat \ {0}
  BY <1>3 DEF p
<1>5. ASSUME NEW x \in Nat PROVE x * p \in Nat
  BY <1>4
<1>6. ASSUME NEW y \in Nat PROVE (1000 * y + 500) \div 1000 = y
  OBVIOUS
<1>7. ASSUME NEW x \in Nat PROVE ((1000 * x) * p + 500) \div 1000 = x * p
  <2>1. (1000 * x) * p = 1000 * (x * p)
    BY <1>4
  <2> QED BY <1>5, <1>6, <2>1
<1>8. ASSUME NEW x \in Int PROVE Printed(1000 * x, d) = x * p
  <2>1. CASE 0 <= x
    <3>1. Printed(1000 * x, d) = ((1000 * x) * p + 500) \div 1000
      BY <2>1 DEF Printed, p
    <3> QED BY <1>7, <2>1, <3>1
  <2>2. CASE x < 0
    <3>1. Printed(1000 * x, d) = -(((-(1000 * x)) * p + 500) \div 1000)
      BY <2>2 DEF Printed, p
    <3> DEFINE y == -x
    <3>2. y \in Nat /\ -(1000 * x) = 1000 * y
      BY <2>2
    <3>3. -(y * p) = x * p
      BY <1>4
    <3> HIDE DEF y
    <3>4. Printed(1000 * x, d) = -(y * p)
      BY <1>7, <3>1, <3>2
    <3> QED BY <3>3, <3>4
  <2> QED BY <2>1, <2>2
<1>9. ASSUME NEW x \in Nat PROVE Printed(x, d) \in Nat
  <2>1. Printed(x, d) = (x * p + 500) \div 1000
    BY DEF Printed, p
  <2> QED BY <1>5, <2>1
<1> QED BY <1>3, <1>8, <1>9 DEF p

(* The bounds of a number keep their order, and its step its sign.         *)
LEMMA PrintedBounds ==
    ASSUME NEW a, a.control = "number", ActionFormed(a)
    PROVE  /\ Printed(1000 * a.min, Decimals(a)) \in Int /\ Printed(1000 * a.max, Decimals(a)) \in Int
           /\ Printed(1000 * a.min, Decimals(a)) <= Printed(1000 * a.max, Decimals(a))
           /\ Printed(a.step, Decimals(a)) \in Nat
<1> DEFINE d == Decimals(a)
           x == a.min
           y == a.max
           z == a.step
           p == POW10[d + 1]
<1>1. d \in 0 .. 6
  BY DEF ActionFormed, Decimals, Opt
<1>2. x \in Int /\ y \in Int /\ x <= y /\ z \in Nat
  BY DEF ActionFormed
<1> HIDE DEF d, x, y, z
<1>3. p \in Nat \ {0}
  BY <1>1, PrintedWhole
<1>4. Printed(1000 * x, d) = x * p /\ Printed(1000 * y, d) = y * p /\ Printed(z, d) \in Nat
  <2>1. \A i \in Int : Printed(1000 * i, d) = i * p
    BY <1>1, PrintedWhole
  <2>2. \A i \in Nat : Printed(i, d) \in Nat
    BY <1>1, PrintedWhole
  <2>3. Printed(1000 * x, d) = x * p
    BY <1>2, <2>1
  <2>4. Printed(1000 * y, d) = y * p
    BY <1>2, <2>1
  <2> QED BY <1>2, <2>2, <2>3, <2>4
<1> HIDE DEF p
<1>5. x * p \in Int /\ y * p \in Int /\ x * p <= y * p
  BY <1>2, <1>3
<1>6. /\ Printed(1000 * x, d) \in Int /\ Printed(1000 * y, d) \in Int
      /\ Printed(1000 * x, d) <= Printed(1000 * y, d) /\ Printed(z, d) \in Nat
  BY <1>4, <1>5
<1> QED BY <1>6 DEF d, x, y, z

\* What a sampled action and a result hold.
ActionSampleFits(a, s, keyed) ==
    /\ s.enabled \in BOOLEAN
    /\ s.value # Null => ValueMatchesControl(a.control, s.value)
    /\ a.control \in {"select", "number"} /\ keyed => (s.enabled <=> s.value # Null)
ResultFits(a, r) ==
    /\ r.state \in {None, "running", "accepted", "refused"}
    /\ r.state = "running" => r.code = "queued"
    /\ r.state = "accepted" => r.code = "applied"
    /\ r.state = "refused" => r.code \in RefusedCodes
    /\ r.value # Null /\ r.code # "wrong_type" => ValueMatchesControl(a.control, r.value)
ActionExcused(a, r, keyed) ==
    If(a.control = "number" /\ Printed(a.step, Decimals(a)) = 0, "action_step_not_positive")
      \cup If(r.code = "wrong_type", "result_value_type")
      \cup If(~keyed, "action_value_mismatch") \cup If(~keyed, "wrong_type")

(* A result has the code of its state, and a value of its control unless   *)
(* it says it has not.                                                     *)
LEMMA ResultWritten ==
    ASSUME NEW a, NEW r, ResultFits(a, r)
    PROVE  ValidateActionResult(r, a.control) \subseteq If(r.code = "wrong_type", "result_value_type")
<1> DEFINE codes == CASE r.state = "running" -> {"queued"} [] r.state = "accepted" -> {"applied"}
                      [] r.state = "refused" -> RefusedCodes
<1>1. CASE r.state = None
  BY <1>1 DEF ValidateActionResult
<1>2. CASE r.state # None
  <2>1. r.code \in codes
    <3>1. CASE r.state = "running"
      BY <3>1 DEF ResultFits
    <3>2. CASE r.state = "accepted"
      BY <3>2 DEF ResultFits
    <3>3. CASE r.state = "refused"
      BY <3>3 DEF ResultFits
    <3> QED BY <1>2, <3>1, <3>2, <3>3 DEF ResultFits
  <2>2. r.value # Null /\ ~ValueMatchesControl(a.control, r.value) => r.code = "wrong_type"
    BY DEF ResultFits
  <2>3. ValidateActionResult(r, a.control) = If(r.code \notin codes, "result_why_mismatch")
          \cup If(r.value # Null /\ ~ValueMatchesControl(a.control, r.value), "result_value_type")
    BY <1>2 DEF ValidateActionResult
  <2> HIDE DEF codes
  <2> QED BY <2>1, <2>2, <2>3 DEF If
<1> QED BY <1>1, <1>2

(* An action is written as the validator wants it, but for the listed      *)
(* cases.                                                                  *)
LEMMA ActionWritten ==
    ASSUME NEW node, NEW a, a.control \in ControlKeys, ActionFormed(a), NEW s, NEW r, NEW keyed,
           ActionSampleFits(a, s, keyed), ResultFits(a, r)
    PROVE  ValidateAction(WriteAction(node, a, s, r, keyed), node.id) \subseteq ActionExcused(a, r, keyed)
<1> DEFINE w == WriteAction(node, a, s, r, keyed)
           id == node.id
           stateful == a.control \in {"select", "number"}
           enabled == s.enabled \/ a.control \in {"switch", "button"}
           number(x) == IF a.control = "number" /\ keyed
                        THEN Json("number", Printed(x, Decimals(a)), "") ELSE Null
           bounds == {w.min, w.max, w.step}
           numeric == w.control = "number" /\ \A b \in bounds : b.t = "number"
           unavailable == Because("entity_unavailable", {})
<1>1. /\ w.key = a.key /\ w.path = <<id, a.key>> /\ w.control = a.control
      /\ w.enabled <=> enabled
      /\ w.why = (IF enabled THEN NoWhy ELSE unavailable)
      /\ w.value = s.value /\ w.options = a.options /\ w.result = r
      /\ w.min = number(1000 * a.min) /\ w.max = number(1000 * a.max) /\ w.step = number(a.step)
  BY DEF WriteAction, Because
<1>2. unavailable.code = "entity_unavailable" /\ unavailable # NoWhy
  <2> DEFINE code == "entity_unavailable"
             none == {}
  <2>1. code # "" /\ unavailable = Because(code, none)
    OBVIOUS
  <2> HIDE DEF code, none, unavailable
  <2>2. unavailable.code = code /\ unavailable # NoWhy
    BY <2>1, BecauseIs
  <2> QED BY <2>2 DEF code
<1>3. a.control = "switch" \/ a.control = "button" \/ a.control = "select" \/ a.control = "number"
  BY DEF ControlKeys
<1>4. Null.t = "null" /\ \A n : Json("number", n, "").t = "number" /\ Json("number", n, "").n = n
  BY DEF Null, Json
<1> HIDE DEF w, unavailable
<1>5. w.enabled <=> w.why = NoWhy
  BY <1>1, <1>2
<1>6. w.why = NoWhy \/ ValidateWhyBlock(w.why) = {}
  <2>1. EvidenceDiscriminators("entity_unavailable") = {}
    BY DEF EvidenceDiscriminators
  <2>2. CASE w.why = unavailable
    <3>1. w.why.code = "entity_unavailable"
      BY <1>2, <2>2
    <3> QED BY <2>1, <3>1 DEF ValidateWhyBlock, If
  <2> QED BY <1>1, <2>2
<1>7. ~(~stateful /\ ~w.enabled)
  BY <1>1, <1>3
<1>8. stateful /\ keyed => (w.enabled <=> w.value # Null)
  BY <1>1, <1>3 DEF ActionSampleFits
<1>9. ~(stateful /\ ~w.enabled /\ w.why.code # "entity_unavailable")
  BY <1>1, <1>2
<1>10. ~(w.value # Null /\ ~ValueMatchesControl(w.control, w.value))
  BY <1>1 DEF ActionSampleFits
<1>11. ~(w.control = "select" /\ w.options = {})
  BY <1>1 DEF ActionFormed
<1>12. \A b \in bounds : keyed => (b.t = "number" <=> w.control = "number")
  <2>1. \A x : keyed => (number(x).t = "number" <=> a.control = "number")
    BY <1>4
  <2> HIDE DEF number
  <2> QED BY <1>1, <2>1
<1>13. ASSUME numeric
       PROVE  ~(w.min.n > w.max.n) /\ (w.step.n <= 0 => Printed(a.step, Decimals(a)) = 0)
  <2>1. a.control = "number" /\ w.min.t = "number"
    BY <1>1, <1>13
  <2>2. keyed
    BY <1>1, <1>4, <2>1
  <2>3. \A x : number(x).n = Printed(x, Decimals(a))
    BY <1>4, <2>1, <2>2
  <2> HIDE DEF number
  <2>4. /\ w.min.n = Printed(1000 * a.min, Decimals(a)) /\ w.max.n = Printed(1000 * a.max, Decimals(a))
        /\ w.step.n = Printed(a.step, Decimals(a))
    BY <1>1, <2>3
  <2> QED BY <2>1, <2>4, PrintedBounds
<1>14. ValidateActionResult(w.result, w.control) \subseteq If(r.code = "wrong_type", "result_value_type")
  BY <1>1, ResultWritten
<1> DEFINE e1 == If(~stateful /\ ~w.enabled, "action_always_enabled")
           e2 == If(stateful /\ w.enabled # (w.value # Null), "action_value_mismatch")
           e3 == If(stateful /\ ~w.enabled /\ w.why.code # "entity_unavailable", "action_why_code")
           e4 == If(w.value # Null /\ ~ValueMatchesControl(w.control, w.value), "action_value_type")
           e5 == If(w.control = "select" /\ w.options = {}, "wrong_type")
           e6 == If(\E b \in bounds : (b.t = "number") # (w.control = "number"), "wrong_type")
           e7 == If(numeric /\ w.min.n > w.max.n, "action_range_inverted")
           e8 == If(numeric /\ w.step.n <= 0, "action_step_not_positive")
           e9 == ValidateActionResult(w.result, w.control)
<1>15. ValidateActionExtension(w) = e1 \cup e2 \cup e3 \cup e4 \cup e5 \cup e6 \cup e7 \cup e8 \cup e9
  BY <1>1 DEF ValidateActionExtension
<1>16. e1 = {} /\ e3 = {} /\ e4 = {} /\ e5 = {}
  <2> HIDE DEF bounds, numeric
  <2> QED BY <1>7, <1>9, <1>10, <1>11 DEF If
<1>17. e2 \subseteq If(~keyed, "action_value_mismatch")
  <2>1. keyed => ~(stateful /\ w.enabled # (w.value # Null))
    <3> DEFINE e == w.enabled
               v == w.value
    <3> HIDE DEF e, v, stateful
    <3>1. keyed => (stateful => (e <=> v # Null))
      BY <1>8 DEF e, v
    <3>2. e \in BOOLEAN
      <4>1. w.enabled \in BOOLEAN
        BY DEF w, WriteAction, ActionSampleFits
      <4> QED BY <4>1 DEF e
    <3>3. keyed => ~(stateful /\ e # (v # Null))
      BY <3>1, <3>2
    <3> QED BY <3>3 DEF e, v
  <2> QED BY <2>1 DEF If
<1>18. e6 \subseteq If(~keyed, "wrong_type")
  <2>1. keyed => ~\E b \in bounds : (b.t = "number") # (w.control = "number")
    <3> HIDE DEF bounds
    <3> QED BY <1>12
  <2> HIDE DEF bounds
  <2> QED BY <2>1 DEF If
<1>19. e7 = {}
  <2> HIDE DEF numeric
  <2> QED BY <1>13 DEF If
<1>20. e8 \subseteq If(a.control = "number" /\ Printed(a.step, Decimals(a)) = 0, "action_step_not_positive")
  <2>1. numeric => a.control = "number"
    BY <1>1
  <2> HIDE DEF numeric
  <2> QED BY <1>13, <2>1 DEF If
<1>21. ValidateAction(w, id) = If(w.path # <<id, w.key>>, "bad_action_path")
          \cup If(w.enabled # (w.why = NoWhy), "action_why_mismatch")
          \cup (IF w.why = NoWhy THEN {} ELSE ValidateWhyBlock(w.why)) \cup ValidateActionExtension(w)
  BY DEF ValidateAction
<1>22. If(w.path # <<id, w.key>>, "bad_action_path") = {}
       /\ If(w.enabled # (w.why = NoWhy), "action_why_mismatch") = {}
  <2>1. w.enabled \in BOOLEAN
    BY DEF w, WriteAction, ActionSampleFits
  <2>2. w.enabled = (w.why = NoWhy)
    BY <1>5, <2>1
  <2> QED BY <1>1, <2>2 DEF If
<1>23. ValidateAction(w, id) = ValidateActionExtension(w)
  BY <1>6, <1>21, <1>22
<1> HIDE DEF e1, e2, e3, e4, e5, e6, e7, e8, e9, id
<1>24. e9 \subseteq If(r.code = "wrong_type", "result_value_type")
  BY <1>14 DEF e9
<1>25. ValidateAction(w, id) \subseteq ActionExcused(a, r, keyed)
  BY <1>15, <1>16, <1>17, <1>18, <1>19, <1>20, <1>23, <1>24 DEF ActionExcused
<1> QED BY <1>25 DEF w, id

-----------------------------------------------------------------------------
(* What the validator checks of one node object.                           *)
NodeChecks(node) ==
    LET values == Range(node.values) IN
    CheckWhy(node.state = "ok", node.why)
      \cup ValidateProvenance(node.provenance, node.state)
      \cup CheckFramesEvidence(node.state, node.why)
      \cup CheckAnnouncedEvidence(node.state, node.why)
      \cup (UNION {ValidateValue(v) : v \in values})
      \cup If(node.state = "ok" /\ \E v \in values : v.state # "ok", "node_ok_with_failing_value")
      \cup If(node.state = "ok" /\ \E v \in values : v.level \in {"warn", "bad"}, "node_ok_with_limit")
      \cup CheckV15Why(node)
      \cup (IF node.series.key = None THEN {} ELSE ValidateSeries(node.series))
      \cup (UNION {ValidateAction(a, node.id) : a \in Range(node.actions)})
      \cup If(node.role # None /\ node.role \notin node.roles, "role_not_available")

\* What the copy holds of a node's actions.
ActionRowFits(node, as, rs, keyed) ==
    \A k \in DOMAIN node.actions : ActionSampleFits(node.actions[k], as[k], keyed)
                                   /\ ResultFits(node.actions[k], rs[k])
RowExcused(node, rs, keyed) ==
    NodeExcused(node) \cup KeyExcused(keyed)
      \cup UNION {ActionExcused(node.actions[k], rs[k], keyed) : k \in DOMAIN node.actions}

(* The fields of a written node.                                           *)
LEMMA NodeIs ==
    ASSUME NEW n, NEW parent, NEW copy, NEW states, NEW raws, NEW w,
           w = WriteNode(n, parent, copy, states, raws)
    PROVE  LET node == table[n] ss == copy.vals[n] IN
           /\ w.id = node.id /\ w.parent = parent /\ w.state = states[n]
           /\ w.why = NodeWhy(node, ss, states[n]) /\ w.provenance = WriteProvenance(n, ss)
           /\ w.values = [k \in DOMAIN ss |-> WriteValue(node.values[k], ss[k], node.budget, copy.keyed)]
           /\ w.series = IF NodeEmitsSeries(n, states[n])
                         THEN [key |-> "series",
                               elements |-> [i \in DOMAIN raws |-> WriteElement(raws[i])]]
                         ELSE [key |-> None, elements |-> <<>>]
           /\ w.actions = [k \in DOMAIN node.actions |->
                             WriteAction(node, node.actions[k], copy.acts[n][k], copy.results[n][k],
                                         copy.keyed)]
           /\ w.role = (IF node.role = {} THEN None ELSE Opt(node.role)) /\ w.roles = node.roles
BY DEF WriteNode

ShowsOk(w) ==
    w.state = "ok" => \A v \in Range(w.values) : v.state = "ok" /\ v.level \notin {"warn", "bad"}
(* A node that is ok shows no value that is not, and none at a limit.      *)
LEMMA OkShowsOk ==
    ASSUME NEW node, NEW ss, NEW st, NEW keyed, NEW w, ValuesFit(node), RowFits(node, ss),
           StateFits(node, ss, st), w.state = st,
           w.values = [k \in DOMAIN ss |-> WriteValue(node.values[k], ss[k], node.budget, keyed)]
    PROVE  ShowsOk(w)
<1>1. ASSUME st = "ok", NEW k \in DOMAIN ss
      PROVE  w.values[k].state = "ok" /\ w.values[k].level \notin {"warn", "bad"}
  <2> DEFINE v == node.values[k]
             r == ClassifyValue(v, ss[k], node.budget)
             x == w.values[k]
  <2>1. Sound(node, ss) /\ ~HasStale(node, ss) /\ k \in DOMAIN node.values
    BY <1>1, StateIs DEF RowFits
  <2>2. Real(v, ss[k]) /\ Level(v, ss[k]) \notin {"warn", "bad"} /\ ~TooOld(v, ss[k], node.budget)
    BY <2>1, SoundValues
  <2>3. VerdictFits(v, ss[k], node.budget, r)
    BY VerdictIs
  <2>4. x = WriteValue(v, ss[k], node.budget, keyed)
    OBVIOUS
  <2>5. x.state = r.state /\ x.level = Level(v, ss[k])
    <3> HIDE DEF x, v
    <3> QED BY <2>4 DEF WriteValue
  <2> HIDE DEF r, v
  <2>6. r.state = "ok"
    BY <2>2, <2>3 DEF VerdictFits
  <2> QED BY <2>2, <2>5, <2>6
<1>2. \A v \in Range(w.values) : \E k \in DOMAIN ss : v = w.values[k]
  BY DEF Range
<1> QED BY <1>1, <1>2 DEF ShowsOk

(* Everything the validator checks of one node holds, but for the listed   *)
(* cases.                                                                  *)
LEMMA NodeWritten ==
    ASSUME NEW n, NEW parent, NEW copy, NEW states, NEW raws, NEW w,
           w = WriteNode(n, parent, copy, states, raws), NodeFits(table[n]),
           RowFits(table[n], copy.vals[n]), StateFits(table[n], copy.vals[n], states[n]),
           ActionRowFits(table[n], copy.acts[n], copy.results[n], copy.keyed)
    PROVE  NodeChecks(w) \subseteq RowExcused(table[n], copy.results[n], copy.keyed)
<1> DEFINE node == table[n]
           ss == copy.vals[n]
           st == states[n]
           keyed == copy.keyed
           rs == copy.results[n]
           values == Range(w.values)
<1>1. /\ w.id = node.id /\ w.parent = parent /\ w.state = st
      /\ w.why = NodeWhy(node, ss, st) /\ w.provenance = WriteProvenance(n, ss)
      /\ w.values = [k \in DOMAIN ss |-> WriteValue(node.values[k], ss[k], node.budget, keyed)]
      /\ w.series = IF NodeEmitsSeries(n, st)
                    THEN [key |-> "series", elements |-> [i \in DOMAIN raws |-> WriteElement(raws[i])]]
                    ELSE [key |-> None, elements |-> <<>>]
      /\ w.actions = [k \in DOMAIN node.actions |->
                        WriteAction(node, node.actions[k], copy.acts[n][k], rs[k], keyed)]
      /\ w.role = (IF node.role = {} THEN None ELSE Opt(node.role)) /\ w.roles = node.roles
  BY NodeIs
<1>2. /\ ValuesFit(node) /\ ReasonsFit(node) /\ ActionsFit(node) /\ node.role \subseteq node.roles
      /\ RowFits(node, ss) /\ StateFits(node, ss, st)
  BY DEF NodeFits
<1>3. ASSUME NEW k \in DOMAIN node.actions
      PROVE  /\ node.actions[k].control \in ControlKeys /\ ActionFormed(node.actions[k])
             /\ ActionSampleFits(node.actions[k], copy.acts[n][k], keyed)
             /\ ResultFits(node.actions[k], rs[k])
  <2>1. node.actions[k] \in Range(node.actions)
    BY DEF Range
  <2> QED BY <1>2, <2>1 DEF ActionsFit, ActionRowFits
<1>4. ASSUME NEW board, NEW trust
      PROVE  ValidateProvenance([board |-> board, age |-> NodeAge(node, ss), budget |-> node.budget,
                                 trust |-> trust], st) = {}
  BY <1>2, AgeAgrees
<1>5. ValidateProvenance(w.provenance, w.state) = {}
  <2>1. CASE IsSkeletonNode(n)
    <3>1. w.provenance = NoProvenance
      BY <1>1, <2>1 DEF WriteProvenance
    <3>2. st # "down"
      BY <1>2, StateIs
    <3> QED BY <1>1, <3>1, <3>2 DEF ValidateProvenance, If
  <2>2. CASE ~IsSkeletonNode(n)
    <3> DEFINE board == IF "board" \in config.identity THEN "board" ELSE None
               trust == IF TrustConfirmed(node, ss) THEN "confirmed" ELSE "assumed"
    <3>1. w.provenance = [board |-> board, age |-> NodeAge(node, ss), budget |-> node.budget,
                          trust |-> trust]
      BY <1>1, <2>2 DEF WriteProvenance
    <3> HIDE DEF board, trust
    <3> QED BY <1>1, <1>4, <3>1
  <2> QED BY <2>1, <2>2
<1> HIDE DEF node, ss, st, keyed, rs
<1>6. /\ CheckWhy(w.state = "ok", w.why) = {} /\ CheckFramesEvidence(w.state, w.why) = {}
      /\ CheckAnnouncedEvidence(w.state, w.why) = {}
  BY <1>1, <1>2, WhyWritten
<1>7. UNION {ValidateValue(v) : v \in values} \subseteq KeyExcused(keyed)
  <2> SUFFICES ASSUME NEW v \in values PROVE ValidateValue(v) \subseteq KeyExcused(keyed)
    OBVIOUS
  <2>1. PICK k \in DOMAIN ss : v = w.values[k]
    BY <1>1 DEF Range
  <2>2. v = WriteValue(node.values[k], ss[k], node.budget, keyed)
    BY <1>1, <2>1
  <2> DEFINE y == node.values[k]
             s == ss[k]
             budget == node.budget
  <2>3. y.key # ""
    BY <1>2 DEF ValuesFit, RowFits
  <2> HIDE DEF y, s, budget
  <2>4. ValidateValue(WriteValue(y, s, budget, keyed)) \subseteq KeyExcused(keyed)
    BY <2>3, ValueWritten
  <2> QED BY <2>2, <2>4 DEF y, s, budget
<1>8. /\ ~(w.state = "ok" /\ \E v \in values : v.state # "ok")
      /\ ~(w.state = "ok" /\ \E v \in values : v.level \in {"warn", "bad"})
  <2>1. ShowsOk(w)
    BY <1>1, <1>2, OkShowsOk
  <2> QED BY <2>1 DEF ShowsOk
<1>9. CheckV15Why(w) \subseteq NodeExcused(node)
  BY <1>1, <1>2, V15Written
<1>10. w.series.key = None \/ ValidateSeries(w.series) = {}
  <2>1. CASE ~NodeEmitsSeries(n, st)
    BY <1>1, <2>1
  <2>2. CASE NodeEmitsSeries(n, st)
    <3> DEFINE series == w.series
    <3>1. series.elements = [i \in DOMAIN raws |-> WriteElement(raws[i])]
      BY <1>1, <2>2
    <3> HIDE DEF series
    <3>2. ValidateSeries(series) = {}
      BY <3>1, SeriesWritten
    <3> QED BY <3>2 DEF series
  <2> QED BY <2>1, <2>2
<1>11. UNION {ValidateAction(a, w.id) : a \in Range(w.actions)}
         \subseteq UNION {ActionExcused(node.actions[k], rs[k], keyed) : k \in DOMAIN node.actions}
  <2> SUFFICES ASSUME NEW a \in Range(w.actions)
               PROVE  ValidateAction(a, w.id)
                        \subseteq UNION {ActionExcused(node.actions[k], rs[k], keyed)
                                         : k \in DOMAIN node.actions}
    OBVIOUS
  <2>1. PICK k \in DOMAIN node.actions : a = w.actions[k]
    BY <1>1 DEF Range
  <2>2. a = WriteAction(node, node.actions[k], copy.acts[n][k], rs[k], keyed)
    BY <1>1, <2>1
  <2>3. ValidateAction(WriteAction(node, node.actions[k], copy.acts[n][k], rs[k], keyed), node.id)
          \subseteq ActionExcused(node.actions[k], rs[k], keyed)
    BY <1>3, ActionWritten
  <2>4. ValidateAction(a, w.id) \subseteq ActionExcused(node.actions[k], rs[k], keyed)
    BY <1>1, <2>2, <2>3
  <2> QED BY <2>4
<1>12. w.role # None => w.role \in w.roles
  BY <1>1, <1>2 DEF Opt
<1>13. /\ If(w.state = "ok" /\ \E v \in values : v.state # "ok", "node_ok_with_failing_value") = {}
       /\ If(w.state = "ok" /\ \E v \in values : v.level \in {"warn", "bad"}, "node_ok_with_limit") = {}
       /\ If(w.role # None /\ w.role \notin w.roles, "role_not_available") = {}
  <2> HIDE DEF values
  <2> QED BY <1>8, <1>12 DEF If
<1>14. NodeChecks(w) = (UNION {ValidateValue(v) : v \in values}) \cup CheckV15Why(w)
         \cup (UNION {ValidateAction(a, w.id) : a \in Range(w.actions)})
  BY <1>5, <1>6, <1>10, <1>13 DEF NodeChecks
<1>15. NodeChecks(w) \subseteq RowExcused(node, rs, keyed)
  <2> DEFINE va == UNION {ValidateValue(v) : v \in values}
             ac == UNION {ValidateAction(a, w.id) : a \in Range(w.actions)}
             ex == UNION {ActionExcused(node.actions[k], rs[k], keyed) : k \in DOMAIN node.actions}
  <2>1. /\ NodeChecks(w) = va \cup CheckV15Why(w) \cup ac
        /\ RowExcused(node, rs, keyed) = NodeExcused(node) \cup KeyExcused(keyed) \cup ex
    BY <1>14 DEF RowExcused
  <2>2. va \subseteq KeyExcused(keyed) /\ ac \subseteq ex
    BY <1>7, <1>11
  <2> HIDE DEF va, ac, ex
  <2> QED BY <1>9, <2>1, <2>2
<1> QED BY <1>15 DEF node, rs, keyed

-----------------------------------------------------------------------------
(* What is written of the served nodes together.                           *)

(* Prefixes are an order, and those of one sequence are comparable.        *)
LEMMA PrefixOrder ==
    ASSUME NEW S, NEW s \in Seq(S), NEW t \in Seq(S), NEW u \in Seq(S)
    PROVE  /\ IsPrefix(s, s)
           /\ IsPrefix(s, t) /\ IsPrefix(t, u) => IsPrefix(s, u)
           /\ IsPrefix(s, t) /\ IsPrefix(t, s) => s = t
           /\ IsPrefix(s, u) /\ IsPrefix(t, u) /\ Len(s) <= Len(t) => IsPrefix(s, t)
<1>1. /\ IsPrefix(s, s) <=> Len(s) <= Len(s) /\ \A i \in 1 .. Len(s) : s[i] = s[i]
      /\ IsPrefix(s, t) <=> Len(s) <= Len(t) /\ \A i \in 1 .. Len(s) : s[i] = t[i]
      /\ IsPrefix(t, s) <=> Len(t) <= Len(s) /\ \A i \in 1 .. Len(t) : t[i] = s[i]
      /\ IsPrefix(t, u) <=> Len(t) <= Len(u) /\ \A i \in 1 .. Len(t) : t[i] = u[i]
      /\ IsPrefix(s, u) <=> Len(s) <= Len(u) /\ \A i \in 1 .. Len(s) : s[i] = u[i]
  BY PrefixIs
<1>2. Len(s) \in Nat /\ Len(t) \in Nat /\ Len(u) \in Nat
  OBVIOUS
<1>3. IsPrefix(s, s)
  BY <1>1, <1>2
<1>4. ASSUME IsPrefix(s, t), IsPrefix(t, u) PROVE IsPrefix(s, u)
  <2>1. Len(s) <= Len(t) /\ Len(t) <= Len(u) /\ \A i \in 1 .. Len(s) : i \in 1 .. Len(t)
    BY <1>1, <1>2, <1>4
  <2> QED BY <1>1, <1>2, <1>4, <2>1
<1>5. ASSUME IsPrefix(s, t), IsPrefix(t, s) PROVE s = t
  <2>1. Len(s) = Len(t) /\ \A i \in 1 .. Len(s) : s[i] = t[i]
    BY <1>1, <1>2, <1>5
  <2> QED BY <2>1
<1>6. ASSUME IsPrefix(s, u), IsPrefix(t, u), Len(s) <= Len(t) PROVE IsPrefix(s, t)
  <2>1. \A i \in 1 .. Len(s) : i \in 1 .. Len(t)
    BY <1>2, <1>6
  <2> QED BY <1>1, <1>6, <2>1
<1> QED BY <1>3, <1>4, <1>5, <1>6

\* The list serves the tree from a root, the first position of its id.
Listed(list, tree, len, S, seg, root) ==
    /\ IsNamed(tree, len, S, seg) /\ root \in 1 .. len
    /\ \A m \in 1 .. root - 1 : tree[m].id # tree[root].id
    /\ Serves(list, tree, root)
    /\ \A i \in DOMAIN list : list[i].id = tree[Origin(tree, root, i)].id

\* The places of the list and the positions they serve.
PlacesAre(list, tree, len, root, size) ==
    LET served == Subtree(tree, root) IN
    /\ size \in Nat /\ 1 <= size /\ DOMAIN list = 1 .. size /\ Len(list) = size
    /\ Origin(tree, root, 1) = root
    /\ \A i \in 1 .. size :
         /\ Origin(tree, root, i) \in served /\ Origin(tree, root, i) \in root .. len
         /\ Place(served, Origin(tree, root, i)) = i
         /\ list[i].parent = IF Origin(tree, root, i) = root THEN 0
                             ELSE Place(served, tree[Origin(tree, root, i)].parent)
         /\ i # 1 => /\ Origin(tree, root, i) # root
                     /\ tree[Origin(tree, root, i)].parent \in served
         /\ list[i].id = tree[Origin(tree, root, i)].id
    /\ \A n \in served : Place(served, n) \in 1 .. size /\ Origin(tree, root, Place(served, n)) = n
    /\ \A i, j \in 1 .. size : i < j <=> Origin(tree, root, i) < Origin(tree, root, j)
    /\ \A i, j \in 1 .. size :
         j \in Subtree(list, i) <=> Origin(tree, root, j) \in Subtree(tree, Origin(tree, root, i))
    /\ \A i \in 1 .. size : Subtree(list, i) \subseteq 1 .. size

(* Those of a served list.                                                 *)
LEMMA PlacesHold ==
    ASSUME NEW list, NEW tree, NEW len, NEW S, NEW seg, NEW root,
           Listed(list, tree, len, S, seg, root)
    PROVE  PlacesAre(list, tree, len, root, Cardinality(Subtree(tree, root)))
<1> DEFINE served == Subtree(tree, root)
           size == Cardinality(served)
           org(i) == Origin(tree, root, i)
<1>2. IsPreOrder(tree, len) /\ root \in 1 .. len /\ Serves(list, tree, root)
  BY DEF Listed, IsNamed
<1>3. \A i \in DOMAIN list : list[i].id = tree[org(i)].id
  BY DEF Listed
<1>4. /\ size \in Nat /\ 1 <= size /\ org(1) = root /\ DOMAIN InOrder(served) = 1 .. size
      /\ \A i \in 1 .. size :
           /\ org(i) \in served /\ org(i) \in root .. len /\ Place(served, org(i)) = i
           /\ i # 1 => org(i) # root /\ tree[org(i)].parent \in served
      /\ \A n \in served : Place(served, n) \in 1 .. size /\ org(Place(served, n)) = n
      /\ \A i, j \in 1 .. size : i < j <=> org(i) < org(j)
  BY <1>2, ServedOrder
<1>5. /\ IsPreOrder(list, size)
      /\ \A i, j \in 1 .. size : j \in Subtree(list, i) <=> org(j) \in Subtree(tree, org(i))
  BY <1>2, ServedSubtrees
<1>6. /\ DOMAIN list = 1 .. size /\ Len(list) = size
      /\ \A i \in 1 .. size :
           list[i].parent = IF org(i) = root THEN 0 ELSE Place(served, tree[org(i)].parent)
  <2>1. \A i : org(i) = InOrder(served)[i]
    BY DEF Origin
  <2> QED BY <1>2, <1>4, <2>1 DEF Serves
<1>7. ASSUME NEW i \in 1 .. size PROVE Subtree(list, i) \subseteq 1 .. size
  <2> HIDE DEF size
  <2>1. Subtree(list, i) \subseteq i .. size
    BY <1>5, SubtreeFacts
  <2> QED BY <2>1
<1> HIDE DEF served, size, org
<1>8. \A i \in 1 .. size : list[i].id = tree[org(i)].id
  BY <1>3, <1>6
<1> QED BY <1>4, <1>5, <1>6, <1>7, <1>8 DEF PlacesAre, served, size, org

(* No two served nodes have the same id, but for a configured node "car".  *)
LEMMA NoDuplicates ==
    ASSUME NEW list, NEW tree, NEW len, NEW S, NEW seg, NEW root,
           Listed(list, tree, len, S, seg, root), \A n \in 2 .. len : tree[n].id # <<"car">>,
           NEW j \in DOMAIN list, NEW i \in 1 .. j - 1
    PROVE  list[i].id # list[j].id
<1> DEFINE size == Cardinality(Subtree(tree, root))
           org(k) == Origin(tree, root, k)
<1>1. PlacesAre(list, tree, len, root, size)
  BY PlacesHold
<1> HIDE DEF size
<1>2. IsNamed(tree, len, S, seg) /\ root \in 1 .. len /\ len \in Nat /\ tree[1].id = <<"car">>
  BY DEF Listed, IsNamed, IsPreOrder
<1>3. i \in 1 .. size /\ j \in 1 .. size /\ i < j
  BY <1>1 DEF PlacesAre
<1>4. org(i) \in 1 .. len /\ org(j) \in 1 .. len /\ org(i) < org(j)
  <2>1. org(i) \in root .. len /\ org(j) \in root .. len /\ org(i) < org(j)
    BY <1>1, <1>3 DEF PlacesAre
  <2> HIDE DEF org
  <2> QED BY <1>2, <2>1
<1>5. list[i].id = tree[org(i)].id /\ list[j].id = tree[org(j)].id
  BY <1>1, <1>3 DEF PlacesAre
<1> HIDE DEF org
<1>6. org(j) \in 2 .. len
  BY <1>2, <1>4
<1>7. CASE org(i) = 1
  BY <1>2, <1>5, <1>6, <1>7
<1>8. CASE org(i) # 1
  <2>1. org(i) \in 2 .. len
    BY <1>2, <1>4, <1>8
  <2>2. tree[org(i)].id = tree[org(j)].id => org(i) = org(j)
    BY <1>2, <1>6, <2>1, IdsDiffer
  <2>3. org(i) # org(j)
    BY <1>4
  <2> QED BY <1>5, <2>2, <2>3
<1> QED BY <1>7, <1>8

(* A served node's id is its parent's and one segment; below the car, one. *)
LEMMA ListIsHierarchical ==
    ASSUME NEW list, NEW tree, NEW len, NEW S, NEW seg, NEW root,
           Listed(list, tree, len, S, seg, root), NEW i \in DOMAIN list
    PROVE  CheckHierarchicalId(list, i) = {}
<1> DEFINE served == Subtree(tree, root)
           size == Cardinality(served)
           org(k) == Origin(tree, root, k)
           p == list[i].parent
           n == org(i)
           q == tree[n].parent
           above == IF p = 1 /\ list[1].id = <<"car">> THEN <<>> ELSE list[p].id
<1>1. PlacesAre(list, tree, len, root, size)
  BY PlacesHold
<1>2. /\ IsNamed(tree, len, S, seg) /\ root \in 1 .. len /\ len \in Nat /\ tree[1].id = <<"car">>
      /\ \A m \in 1 .. root - 1 : tree[m].id # tree[root].id
  BY DEF Listed, IsNamed, IsPreOrder
<1>3. /\ i \in 1 .. size /\ size \in Nat /\ 1 <= size /\ org(1) = root
      /\ n \in served /\ n \in root .. len /\ (i # 1 => n # root /\ q \in served)
      /\ p = (IF n = root THEN 0 ELSE Place(served, q))
      /\ list[i].id = tree[n].id
      /\ \A m \in served : Place(served, m) \in 1 .. size /\ org(Place(served, m)) = m
      /\ \A k \in 1 .. size : /\ list[k].id = tree[org(k)].id /\ Place(served, org(k)) = k
                              /\ org(k) \in root .. len
  BY <1>1 DEF PlacesAre
<1>4. CheckHierarchicalId(list, i) =
        If(p # 0 /\ ~(Len(list[i].id) = Len(above) + 1 /\ IsPrefix(above, list[i].id)),
           "id_not_hierarchical")
  BY DEF CheckHierarchicalId
<1> HIDE DEF served, size, org, p, n, q, above
<1>5. CASE p = 0
  BY <1>4, <1>5 DEF If
<1>6. CASE p # 0
  <2>1. n # root /\ p = Place(served, q) /\ i # 1
    <3>1. n # root /\ p = Place(served, q)
      BY <1>3, <1>6
    <3>2. i # 1
      BY <1>3, <3>1 DEF n
    <3> QED BY <3>1, <3>2
  <2>2. q \in served /\ p \in 1 .. size /\ org(p) = q /\ list[p].id = tree[q].id
    BY <1>3, <2>1
  <2>3. n \in 2 .. len
    BY <1>2, <1>3, <2>1
  <2>4. tree[n].id = Append(IdAbove(tree, n), seg[n]) /\ seg[n] \in S /\ IdAbove(tree, n) \in Seq(S)
        /\ Len(tree[n].id) = Len(IdAbove(tree, n)) + 1
    <3>1. tree[n].id = Append(IdAbove(tree, n), seg[n]) /\ seg[n] \in S
      BY <1>2, <2>3 DEF IsNamed
    <3>2. IdAbove(tree, n) \in Seq(S) /\ Len(tree[n].id) = Len(IdAbove(tree, n)) + 1
      BY <1>2, <2>3, IdsAreNames
    <3> QED BY <3>1, <3>2
  <2>5. above = IdAbove(tree, n)
    <3>1. CASE q = 1
      <4>1. root = 1
        BY <1>2, <1>3, <2>2, <3>1
      <4>2. p = 1
        BY <1>3, <2>1, <3>1, <4>1
      <4>3. list[1].id = <<"car">>
        BY <1>2, <2>2, <3>1, <4>2
      <4> QED BY <3>1, <4>2, <4>3 DEF above, IdAbove, q
    <3>2. CASE q # 1
      <4>1. ~(p = 1 /\ list[1].id = <<"car">>)
        <5> SUFFICES ASSUME p = 1, list[1].id = <<"car">> PROVE FALSE
          OBVIOUS
        <5>1. q = root
          BY <1>3, <2>2
        <5>2. tree[root].id = tree[1].id
          BY <1>2, <2>2, <5>1
        <5>3. 1 \in 1 .. root - 1
          BY <1>2, <3>2, <5>1
        <5> QED BY <1>2, <5>2, <5>3
      <4>2. above = tree[q].id
        BY <2>2, <4>1 DEF above
      <4> QED BY <3>2, <4>2 DEF IdAbove, q
    <3> QED BY <3>1, <3>2
  <2>6. IsPrefix(above, list[i].id) /\ Len(list[i].id) = Len(above) + 1
    <3>1. IsPrefix(above, above)
      BY <2>4, <2>5, PrefixOrder
    <3>2. IsPrefix(above, Append(above, seg[n]))
      BY <2>4, <2>5, <3>1, PrefixOfAppend
    <3> QED BY <1>3, <2>4, <2>5, <3>2
  <2> QED BY <1>4, <2>6 DEF If
<1> QED BY <1>5, <1>6

\* IsSkeletonNode() of a tree and the owned ids; every owned id is a configured node's.
Skeleton(tree, owns, n) ==
    \E o \in owns : \E m \in Subtree(tree, n) \ {n} :
        tree[m].id = o /\ \A j \in 1 .. m - 1 : tree[j].id # o
OwnsNodes(tree, len, owns) == \A o \in owns : \E q \in 2 .. len : tree[q].id = o
Nested(owns) == \E o, q \in owns : o # q /\ IsPrefix(o, q)
CarAgain(tree, len) == \E n \in 2 .. len : tree[n].id = <<"car">>
Above(list, i, roots) == \E m \in Subtree(list, i) \ {i} : Inside(list[m].id, roots)

(* The position of an owned id, and what is at or below it.                *)
LEMMA OwnedFacts ==
    ASSUME NEW tree, NEW len, NEW S, NEW seg, IsNamed(tree, len, S, seg), NEW owns,
           OwnsNodes(tree, len, owns), NEW o \in owns
    PROVE  /\ o \in Seq(S) /\ 1 <= Len(o)
           /\ \E q \in 2 .. len :
                /\ tree[q].id = o
                /\ o # <<"car">> => \A j \in 1 .. q - 1 : tree[j].id # o
<1>1. PICK q \in 2 .. len : tree[q].id = o
  BY DEF OwnsNodes
<1>2. tree[q].id \in Seq(S) /\ IdAbove(tree, q) \in Seq(S)
      /\ Len(tree[q].id) = Len(IdAbove(tree, q)) + 1
  BY IdsAreNames
<1>3. o \in Seq(S) /\ 1 <= Len(o)
  <2>1. Len(IdAbove(tree, q)) \in Nat
    BY <1>2
  <2> QED BY <1>1, <1>2, <2>1
<1>4. len \in Nat /\ tree[1].id = <<"car">>
  BY DEF IsNamed, IsPreOrder
<1>5. ASSUME o # <<"car">>, NEW j \in 1 .. q - 1 PROVE tree[j].id # o
  <2>1. CASE j = 1
    BY <1>4, <1>5, <2>1
  <2>2. CASE j # 1
    <3>1. j \in 2 .. len /\ j # q
      BY <1>4, <1>5, <2>2
    <3> QED BY <1>1, <3>1, IdsDiffer
  <2> QED BY <2>1, <2>2
<1> QED BY <1>1, <1>3, <1>5

(* A node without provenance inside a mount: the mounts are nested, or the *)
(* car is configured twice.                                                *)
LEMMA SkeletonInside ==
    ASSUME NEW tree, NEW len, NEW S, NEW seg, IsNamed(tree, len, S, seg), NEW owns,
           OwnsNodes(tree, len, owns), NEW n \in 1 .. len, Skeleton(tree, owns, n),
           Inside(tree[n].id, owns)
    PROVE  Nested(owns) \/ CarAgain(tree, len)
<1>1. PICK o \in owns : \E m \in Subtree(tree, n) \ {n} : tree[m].id = o
  BY DEF Skeleton
<1>2. PICK m \in Subtree(tree, n) \ {n} : tree[m].id = o
  BY <1>1
<1>3. PICK r \in owns : IsPrefix(r, tree[n].id)
  BY DEF Inside
<1>4. len \in Nat /\ IsPreOrder(tree, len) /\ tree[1].id = <<"car">>
  BY DEF IsNamed, IsPreOrder
<1>5. m \in 2 .. len /\ m # n
  <2>1. Subtree(tree, n) \subseteq n .. len
    BY <1>4, SubtreeFacts
  <2> QED BY <1>2, <2>1
<1>6. r \in Seq(S) /\ 1 <= Len(r) /\ o \in Seq(S)
  BY OwnedFacts
<1>7. CASE n = 1
  <2> DEFINE T == S \cup {"car"}
             car == <<"car">>
  <2>1. r \in Seq(T) /\ car \in Seq(T) /\ Len(car) = 1 /\ car[1] = "car"
    BY <1>6
  <2>2. IsPrefix(r, car)
    BY <1>3, <1>4, <1>7
  <2> HIDE DEF T, car
  <2>3. Len(r) <= Len(car) /\ \A i \in 1 .. Len(r) : r[i] = car[i]
    BY <2>1, <2>2, PrefixIs
  <2>4. r = car
    <3>1. Len(r) = 1 /\ r[1] = car[1]
      BY <1>6, <2>1, <2>3
    <3> QED BY <2>1, <3>1
  <2>5. \E q \in 2 .. len : tree[q].id = r
    BY DEF OwnsNodes
  <2> QED BY <2>4, <2>5 DEF CarAgain, car
<1>8. CASE n # 1
  <2>1. n \in 2 .. len
    BY <1>4, <1>8
  <2>2. IsPrefix(tree[n].id, o)
    BY <1>2, <1>5, <2>1, IdsBelow
  <2>3. tree[n].id \in Seq(S)
    BY <2>1, IdsAreNames
  <2>4. IsPrefix(r, o)
    BY <1>3, <1>6, <2>2, <2>3, PrefixOrder
  <2>5. r # o
    <3> SUFFICES ASSUME r = o PROVE FALSE
      OBVIOUS
    <3>1. tree[n].id = o
      BY <1>3, <1>6, <2>2, <2>3, PrefixOrder
    <3> QED BY <1>2, <1>5, <2>1, <3>1, IdsDiffer
  <2> QED BY <2>4, <2>5 DEF Nested
<1> QED BY <1>7, <1>8

(* Outside the mounts, with one below it, a node has no provenance.        *)
LEMMA AboveIsSkeleton ==
    ASSUME NEW tree, NEW len, NEW S, NEW seg, IsNamed(tree, len, S, seg), NEW owns,
           OwnsNodes(tree, len, owns), NEW n \in 1 .. len, ~Inside(tree[n].id, owns),
           NEW m \in Subtree(tree, n), m # n, Inside(tree[m].id, owns)
    PROVE  Skeleton(tree, owns, n)
<1>1. PICK r \in owns : IsPrefix(r, tree[m].id)
  BY DEF Inside
<1>2. len \in Nat /\ IsPreOrder(tree, len) /\ tree[1].id = <<"car">>
  BY DEF IsNamed, IsPreOrder
<1>3. m \in 2 .. len
  <2>1. Subtree(tree, n) \subseteq n .. len
    BY <1>2, SubtreeFacts
  <2> QED BY <2>1
<1>4. ~IsPrefix(r, tree[n].id)
  BY DEF Inside
<1>5. r \in Seq(S) /\ 1 <= Len(r)
  BY OwnedFacts
<1>6. PICK q \in 2 .. len :
        tree[q].id = r /\ (r # <<"car">> => \A j \in 1 .. q - 1 : tree[j].id # r)
  BY OwnedFacts
<1>7. CASE n = 1
  <2>1. q \in Subtree(tree, n) /\ q # n
    BY <1>7, AllBelowRoot
  <2>2. r # <<"car">>
    <3> SUFFICES ASSUME r = <<"car">> PROVE FALSE
      OBVIOUS
    <3>1. IsPrefix(r, r)
      BY <1>5, PrefixOrder
    <3> QED BY <1>2, <1>4, <1>7, <3>1
  <2> QED BY <1>6, <2>1, <2>2 DEF Skeleton
<1>8. CASE n # 1
  <2>1. n \in 2 .. len
    BY <1>2, <1>8
  <2> DEFINE id == tree[n].id
             im == tree[m].id
  <2>2. id \in Seq(S) /\ IdAbove(tree, n) \in Seq(S) /\ Len(id) = Len(IdAbove(tree, n)) + 1 /\ im \in Seq(S)
    BY <1>3, <2>1, IdsAreNames
  <2>3. IsPrefix(id, im)
    BY <1>3, <2>1, IdsBelow
  <2> HIDE DEF id, im
  <2>4. IsPrefix(r, im) /\ ~IsPrefix(r, id)
    BY <1>1, <1>4 DEF id, im
  <2>5. ~(Len(r) <= Len(id))
    BY <1>5, <2>2, <2>3, <2>4, PrefixOrder
  <2>6. Len(id) \in Nat /\ Len(r) \in Nat /\ 1 <= Len(id)
    <3>1. Len(IdAbove(tree, n)) \in Nat
      BY <2>2
    <3> QED BY <1>5, <2>2, <3>1
  <2>7. IsPrefix(id, r)
    <3>1. Len(id) <= Len(r)
      BY <2>5, <2>6
    <3> QED BY <1>5, <2>2, <2>3, <2>4, <3>1, PrefixOrder
  <2>8. q \in Subtree(tree, n)
    BY <1>6, <2>1, <2>7, IdsBelow DEF id
  <2>9. q # n
    <3>1. IsPrefix(r, r)
      BY <1>5, PrefixOrder
    <3> QED BY <1>6, <2>4, <3>1 DEF id
  <2>10. r # <<"car">>
    <3>1. Len(<<"car">>) = 1
      OBVIOUS
    <3> QED BY <2>5, <2>6, <3>1
  <2> QED BY <1>6, <2>8, <2>9, <2>10 DEF Skeleton
<1> QED BY <1>7, <1>8

(* What is below a node of a subtree is in the subtree.                    *)
LEMMA BelowBelow ==
    ASSUME NEW tree, NEW len, NEW S, NEW seg, IsNamed(tree, len, S, seg), NEW root \in 1 .. len,
           NEW n \in Subtree(tree, root), NEW m \in Subtree(tree, n)
    PROVE  m \in Subtree(tree, root)
<1>1. len \in Nat /\ IsPreOrder(tree, len)
  BY DEF IsNamed, IsPreOrder
<1>2. Subtree(tree, root) \subseteq root .. len
  BY <1>1, SubtreeFacts
<1>3. n \in 1 .. len
  BY <1>2
<1>4. Subtree(tree, n) \subseteq n .. len
  BY <1>1, <1>3, SubtreeFacts
<1>5. m \in 1 .. len
  BY <1>3, <1>4
<1>6. CASE root = 1
  BY <1>5, <1>6, AllBelowRoot
<1>7. CASE root # 1
  <2>1. root \in 2 .. len /\ n \in 2 .. len /\ m \in 2 .. len
    BY <1>1, <1>2, <1>4, <1>7
  <2> DEFINE a == tree[root].id
             b == tree[n].id
             c == tree[m].id
  <2>2. a \in Seq(S) /\ b \in Seq(S) /\ c \in Seq(S)
    BY <2>1, IdsAreNames
  <2>3. IsPrefix(a, b) /\ IsPrefix(b, c)
    BY <2>1, IdsBelow
  <2> HIDE DEF a, b, c
  <2>4. IsPrefix(a, c)
    BY <2>2, <2>3, PrefixOrder
  <2> QED BY <2>1, <2>4, IdsBelow DEF a, c
<1> QED BY <1>6, <1>7

\* What the validator checks of one node's provenance.
PlaceChecks(list, roots, board, i) ==
    LET prov == list[i].provenance
        inside == Inside(list[i].id, roots)
        above == Above(list, i, roots)
    IN If(inside /\ prov = NoProvenance, "provenance_null_inside_mount")
          \cup If(~inside /\ above /\ prov # NoProvenance, "provenance_on_skeleton_node")
          \cup If(~inside /\ ~above /\ prov = NoProvenance, "provenance_null_unmounted")
          \cup If(prov # NoProvenance /\ board = None /\ prov.board # None,
                  "provenance_names_board_without_identity")
PlacementExcused(tree, len, owns, roots, board, named) ==
    If(Nested(owns), "provenance_null_inside_mount")
      \cup If(CarAgain(tree, len), "provenance_null_inside_mount")
      \cup If(roots # owns, "provenance_null_unmounted")
      \cup If(board = None /\ named # None, "provenance_names_board_without_identity")
\* A served node has provenance unless it is skeleton, and names the board.
ProvenanceFits(list, tree, owns, root, named) ==
    \A i \in DOMAIN list :
        LET prov == list[i].provenance IN
        /\ Skeleton(tree, owns, Origin(tree, root, i)) => prov = NoProvenance
        /\ ~Skeleton(tree, owns, Origin(tree, root, i)) => prov # NoProvenance /\ prov.board = named

(* Above a mount is the same in the list and in the tree.                  *)
LEMMA AboveIs ==
    ASSUME NEW list, NEW tree, NEW len, NEW S, NEW seg, NEW root,
           Listed(list, tree, len, S, seg, root), NEW roots, NEW i \in DOMAIN list
    PROVE  /\ Inside(list[i].id, roots) <=> Inside(tree[Origin(tree, root, i)].id, roots)
           /\ Above(list, i, roots) <=> Above(tree, Origin(tree, root, i), roots)
<1> DEFINE served == Subtree(tree, root)
           size == Cardinality(served)
           org(k) == Origin(tree, root, k)
           n == org(i)
<1>1. PlacesAre(list, tree, len, root, size)
  BY PlacesHold
<1>2. IsNamed(tree, len, S, seg) /\ root \in 1 .. len /\ len \in Nat
  BY DEF Listed, IsNamed, IsPreOrder
<1>3. /\ i \in 1 .. size /\ n \in served
      /\ \A k \in 1 .. size : list[k].id = tree[org(k)].id /\ Place(served, org(k)) = k
      /\ \A m \in served : Place(served, m) \in 1 .. size /\ org(Place(served, m)) = m
      /\ \A k, j \in 1 .. size : j \in Subtree(list, k) <=> org(j) \in Subtree(tree, org(k))
      /\ Subtree(list, i) \subseteq 1 .. size
  BY <1>1 DEF PlacesAre
<1> HIDE DEF size, org, n
<1>4. ASSUME Above(list, i, roots) PROVE Above(tree, n, roots)
  <2>1. PICK j \in Subtree(list, i) \ {i} : Inside(list[j].id, roots)
    BY <1>4 DEF Above
  <2>2. j \in 1 .. size
    BY <1>3, <2>1
  <2>3. org(j) \in Subtree(tree, n)
    BY <1>3, <2>1, <2>2 DEF n
  <2>4. org(j) # n
    BY <1>3, <2>1, <2>2 DEF n
  <2>5. Inside(tree[org(j)].id, roots)
    BY <1>3, <2>1, <2>2
  <2> QED BY <2>3, <2>4, <2>5 DEF Above
<1>5. ASSUME Above(tree, n, roots) PROVE Above(list, i, roots)
  <2>1. PICK m \in Subtree(tree, n) \ {n} : Inside(tree[m].id, roots)
    BY <1>5 DEF Above
  <2>2. m \in served
    BY <1>2, <1>3, <2>1, BelowBelow
  <2> DEFINE j == Place(served, m)
  <2>3. j \in 1 .. size /\ org(j) = m
    BY <1>3, <2>2
  <2> HIDE DEF j
  <2>4. j \in Subtree(list, i)
    BY <1>3, <2>1, <2>3 DEF n
  <2>5. j # i
    BY <1>3, <2>1, <2>3 DEF n
  <2>6. Inside(list[j].id, roots)
    BY <1>3, <2>1, <2>3
  <2> QED BY <2>4, <2>5, <2>6 DEF Above
<1>6. list[i].id = tree[n].id
  BY <1>3 DEF n
<1> QED BY <1>4, <1>5, <1>6 DEF n, org

(* Provenance is where the mounts say, but for the listed configurations.  *)
LEMMA PlacementHolds ==
    ASSUME NEW list, NEW tree, NEW len, NEW S, NEW seg, NEW root,
           Listed(list, tree, len, S, seg, root), NEW owns, OwnsNodes(tree, len, owns),
           NEW roots, roots = owns \/ roots = {}, NEW board, NEW named,
           ProvenanceFits(list, tree, owns, root, named)
    PROVE  ValidateProvenancePlacement(list, roots, board)
             \subseteq PlacementExcused(tree, len, owns, roots, board, named)
<1> DEFINE excused == PlacementExcused(tree, len, owns, roots, board, named)
<1>1. IsNamed(tree, len, S, seg) /\ root \in 1 .. len /\ len \in Nat
  BY DEF Listed, IsNamed, IsPreOrder
<1>2. DOMAIN list = 1 .. Len(list)
  BY PlacesHold DEF PlacesAre
<1>3. ASSUME NEW i \in DOMAIN list PROVE PlaceChecks(list, roots, board, i) \subseteq excused
  <2> DEFINE n == Origin(tree, root, i)
             inside == Inside(list[i].id, roots)
             above == Above(list, i, roots)
             skeleton == Skeleton(tree, owns, n)
             prov == list[i].provenance
  <2>1. /\ inside <=> Inside(tree[n].id, roots)
        /\ above <=> Above(tree, n, roots)
    BY AboveIs
  <2>2. (skeleton => prov = NoProvenance) /\ (~skeleton => prov # NoProvenance /\ prov.board = named)
    BY DEF ProvenanceFits
  <2>3. n \in 1 .. len
    <3>1. n \in root .. len
      BY <1>2, PlacesHold DEF PlacesAre
    <3> HIDE DEF n
    <3> QED BY <1>1, <3>1
  <2> HIDE DEF n
  <2>4. inside /\ skeleton => Nested(owns) \/ CarAgain(tree, len)
    <3> SUFFICES ASSUME inside, skeleton PROVE Nested(owns) \/ CarAgain(tree, len)
      OBVIOUS
    <3>1. roots = owns
      BY DEF Inside
    <3>2. Inside(tree[n].id, owns)
      BY <2>1, <3>1
    <3> QED BY <1>1, <2>3, <3>2, SkeletonInside
  <2>5. ~inside /\ above => skeleton
    <3> SUFFICES ASSUME ~inside, above PROVE skeleton
      OBVIOUS
    <3>1. PICK m \in Subtree(tree, n) \ {n} : Inside(tree[m].id, roots)
      BY <2>1 DEF Above
    <3>2. roots = owns
      BY <3>1 DEF Inside
    <3>3. ~Inside(tree[n].id, owns) /\ Inside(tree[m].id, owns)
      BY <2>1, <3>1, <3>2
    <3> QED BY <1>1, <2>3, <3>1, <3>3, AboveIsSkeleton
  <2>6. roots = owns /\ skeleton => above
    <3> SUFFICES ASSUME roots = owns, skeleton PROVE above
      OBVIOUS
    <3>1. PICK o \in owns : \E m \in Subtree(tree, n) \ {n} : tree[m].id = o
      BY DEF Skeleton
    <3>2. PICK m \in Subtree(tree, n) \ {n} : tree[m].id = o
      BY <3>1
    <3>3. o \in Seq(S)
      BY <1>1, OwnedFacts
    <3>4. IsPrefix(o, o)
      BY <3>3, PrefixOrder
    <3>5. Inside(tree[m].id, roots)
      BY <3>2, <3>4 DEF Inside
    <3>6. Above(tree, n, roots)
      BY <3>2, <3>5 DEF Above
    <3> QED BY <2>1, <3>6
  <2>7. PlaceChecks(list, roots, board, i) =
          If(inside /\ prov = NoProvenance, "provenance_null_inside_mount")
          \cup If(~inside /\ above /\ prov # NoProvenance, "provenance_on_skeleton_node")
          \cup If(~inside /\ ~above /\ prov = NoProvenance, "provenance_null_unmounted")
          \cup If(prov # NoProvenance /\ board = None /\ prov.board # None,
                  "provenance_names_board_without_identity")
    BY DEF PlaceChecks
  <2> HIDE DEF inside, above, skeleton, prov
  <2>8. If(inside /\ prov = NoProvenance, "provenance_null_inside_mount") \subseteq excused
    BY <2>2, <2>4 DEF If, PlacementExcused
  <2>9. If(~inside /\ above /\ prov # NoProvenance, "provenance_on_skeleton_node") \subseteq excused
    BY <2>2, <2>5 DEF If
  <2>10. If(~inside /\ ~above /\ prov = NoProvenance, "provenance_null_unmounted") \subseteq excused
    BY <2>2, <2>6 DEF If, PlacementExcused
  <2>11. If(prov # NoProvenance /\ board = None /\ prov.board # None,
            "provenance_names_board_without_identity") \subseteq excused
    BY <2>2 DEF If, PlacementExcused
  <2> QED BY <2>7, <2>8, <2>9, <2>10, <2>11
<1>4. ValidateProvenancePlacement(list, roots, board)
        = UNION {PlaceChecks(list, roots, board, i) : i \in 1 .. Len(list)}
  BY DEF ValidateProvenancePlacement, PlaceChecks, Above
<1> HIDE DEF excused
<1> QED BY <1>2, <1>3, <1>4 DEF excused

-----------------------------------------------------------------------------
\* The envelope of a copy, narrowed to a root.
EnvelopeFits(env, copy, path, raws, root) ==
    /\ root \in DOMAIN table /\ (path = <<>> => root = 1) /\ (path # <<>> => table[root].id = path)
    /\ \A m \in 1 .. root - 1 : table[m].id # table[root].id
    /\ env.path = path /\ env.servedBy = WriteServedBy
    /\ env.legend <=> \E n \in Subtree(table, root) : NodeEmitsSeries(n, Resolve(copy.vals)[n])
    /\ env.ancestorRole = (IF path = <<>> THEN <<>> ELSE WriteAncestorRole(root))
    /\ Serves(env.tree, table, root)
    /\ \A i \in DOMAIN env.tree : \E parent :
         env.tree[i] = WriteNode(Origin(table, root, i), parent, copy, Resolve(copy.vals), raws)

(* What write_envelope() writes, by its parts.                             *)
LEMMA EnvelopeIs ==
    ASSUME NEW len, NEW S, NEW seg, IsNamed(table, len, S, seg), NEW copy, NEW path \in Paths,
           NEW raws
    PROVE  \E root : EnvelopeFits(WriteEnvelope(copy, path, raws), copy, path, raws, root)
<1> DEFINE env == WriteEnvelope(copy, path, raws)
           first(n) == table[n].id = path /\ \A m \in 1 .. n - 1 : table[m].id # path
           root == IF path = <<>> THEN 1 ELSE CHOOSE n \in DOMAIN table : first(n)
           served == Subtree(table, root)
           order == InOrder(served)
           states == Resolve(copy.vals)
           at(n) == IF n = root THEN 0 ELSE Place(served, table[n].parent)
<1>1. len \in Nat /\ 1 <= len /\ DOMAIN table = 1 .. len /\ IsPreOrder(table, len)
  BY DEF IsNamed, IsPreOrder
<1>2. ASSUME path # <<>> PROVE \E n \in DOMAIN table : first(n)
  <2> DEFINE ns == {n \in 1 .. len : table[n].id = path}
  <2>1. ns # {} /\ ns \subseteq Nat
    BY <1>1, <1>2 DEF Paths, Range
  <2>2. PICK x \in ns : \A y \in ns : x <= y
    <3> HIDE DEF ns
    <3> QED BY <2>1, Least
  <2>3. \A m \in 1 .. x - 1 : m \in 1 .. len /\ ~(x <= m)
    BY <1>1
  <2> QED BY <1>1, <2>2, <2>3
<1>3. /\ root \in DOMAIN table /\ (path = <<>> => root = 1) /\ (path # <<>> => first(root))
  BY <1>1, <1>2
<1>4. \A m \in 1 .. root - 1 : table[m].id # table[root].id
  BY <1>3
<1>5. env = [path |-> path, servedBy |-> WriteServedBy,
             legend |-> \E n \in served : NodeEmitsSeries(n, states[n]),
             ancestorRole |-> IF path = <<>> THEN <<>> ELSE WriteAncestorRole(root),
             tree |-> [i \in DOMAIN order |-> WriteNode(order[i], at(order[i]), copy, states, raws)]]
  BY DEF WriteEnvelope
<1> HIDE DEF root, served, order, states
<1>6. /\ env.path = path /\ env.servedBy = WriteServedBy
      /\ env.legend <=> \E n \in served : NodeEmitsSeries(n, states[n])
      /\ env.ancestorRole = (IF path = <<>> THEN <<>> ELSE WriteAncestorRole(root))
      /\ env.tree = [i \in DOMAIN order |-> WriteNode(order[i], at(order[i]), copy, states, raws)]
  BY <1>5
<1> DEFINE list == env.tree
<1> HIDE DEF env
<1>7. \A i \in DOMAIN order : list[i] = WriteNode(order[i], at(order[i]), copy, states, raws)
  BY <1>6
<1>8. \A i \in DOMAIN order : list[i].parent = at(order[i])
  <2> SUFFICES ASSUME NEW i \in DOMAIN order PROVE list[i].parent = at(order[i])
    OBVIOUS
  <2> DEFINE w == list[i]
             p == at(order[i])
             n == order[i]
  <2>1. w = WriteNode(n, p, copy, states, raws)
    BY <1>7
  <2> HIDE DEF w, p, n
  <2>2. w.parent = p
    BY <2>1 DEF WriteNode
  <2> QED BY <2>2 DEF w, p
<1>9. DOMAIN order = 1 .. Cardinality(served) /\ Cardinality(served) \in Nat
  <2>1. root \in 1 .. len
    BY <1>1, <1>3
  <2> QED BY <1>1, <2>1, ServedOrder DEF order, served
<1>10. Serves(list, table, root)
  <2>1. DOMAIN list = DOMAIN order
    BY <1>6
  <2>2. Len(list) = Cardinality(served)
    <3>1. list = [i \in 1 .. Cardinality(served) |-> WriteNode(order[i], at(order[i]), copy, states, raws)]
      BY <1>6, <1>9
    <3> DEFINE size == Cardinality(served)
               f(i) == WriteNode(order[i], at(order[i]), copy, states, raws)
    <3>2. list = [i \in 1 .. size |-> f(i)] /\ size \in Nat
      BY <1>9, <3>1
    <3> HIDE DEF f, size, list
    <3>3. Len(list) = size
      BY <3>2
    <3> QED BY <3>3 DEF size
  <2>3. \A i \in DOMAIN order :
          list[i].parent = IF order[i] = root THEN 0 ELSE Place(served, table[order[i]].parent)
    BY <1>8
  <2> HIDE DEF list
  <2> QED BY <2>1, <2>2, <2>3 DEF Serves, order, served
<1>11. \A i \in DOMAIN list : \E parent :
         list[i] = WriteNode(Origin(table, root, i), parent, copy, states, raws)
  <2>1. \A i \in DOMAIN list : list[i] = WriteNode(order[i], at(order[i]), copy, states, raws)
    BY <1>6, <1>7
  <2>2. \A i : Origin(table, root, i) = order[i]
    BY DEF Origin, order, served
  <2> HIDE DEF list
  <2> QED BY <2>1, <2>2
<1>12. EnvelopeFits(env, copy, path, raws, root)
  BY <1>3, <1>4, <1>6, <1>10, <1>11 DEF EnvelopeFits, states, served
<1> QED BY <1>12 DEF env

\* What the copy a request is written from holds.
CopyFits(copy) ==
    \A n \in DOMAIN table :
        /\ RowFits(table[n], copy.vals[n])
        /\ ActionRowFits(table[n], copy.acts[n], copy.results[n], copy.keyed)
OwnIds == Range(config.owns)
MountRoots == IF IdentityComplete THEN OwnIds ELSE {}

(* A settled state is the node's own, or degraded by a child's.            *)
LEMMA StatesFit ==
    ASSUME NEW len, IsPreOrder(table, len), NEW ss, NEW n \in 1 .. len
    PROVE  StateFits(table[n], ss[n], Resolve(ss)[n])
<1> DEFINE own == [m \in DOMAIN table |-> OwnState(table[m], ss[m])]
           idle == {m \in DOMAIN table : NotRequested(table[m], ss[m])}
<1>1. own[n] = OwnState(table[n], ss[n])
  BY DEF IsPreOrder
<1>2. Resolve(ss) = Settle(table, own, idle)
  BY DEF Resolve
<1> HIDE DEF own, idle
<1> DEFINE tree == table
<1>0. IsPreOrder(tree, len) /\ n \in 1 .. len
  OBVIOUS
<1> HIDE DEF tree
<1>3. \/ Settle(tree, own, idle)[n] = own[n]
      \/ Settle(tree, own, idle)[n] = "degraded" /\ own[n] \in {"ok", "stale"}
  BY <1>0, SettleFacts
<1> QED BY <1>1, <1>2, <1>3 DEF StateFits, tree

(* What is excused of a node is excused of the envelope.                   *)
LEMMA NodeIsExcused ==
    ASSUME NEW n \in DOMAIN table
    PROVE  RowExcused(table[n], req.results[n], req.keyed) \subseteq Excused
<1> DEFINE node == table[n]
<1>1. node \in Range(table)
  BY DEF Range
<1>2. NodeExcused(node) \subseteq Excused
  <2>1. \A code : code \in Declared(node) => Declares(code)
    BY <1>1 DEF Declared, Declares
  <2>2. SharesKey(node) => \E x \in Range(table) : \E j, k \in DOMAIN x.values :
                                j # k /\ x.values[j].key = x.values[k].key
    BY <1>1 DEF SharesKey
  <2> QED BY <2>1, <2>2 DEF NodeExcused, Excused, If
<1>3. KeyExcused(req.keyed) \subseteq Excused
  BY DEF KeyExcused, Excused, If
<1>4. ASSUME NEW k \in DOMAIN node.actions
      PROVE  ActionExcused(node.actions[k], req.results[n][k], req.keyed) \subseteq Excused
  <2> DEFINE a == node.actions[k]
             r == req.results[n][k]
  <2>1. a.control = "number" /\ Printed(a.step, Decimals(a)) = 0 =>
          \E x \in Range(table) : \E b \in Range(x.actions) :
             b.control = "number" /\ Printed(b.step, Decimals(b)) = 0
    BY <1>1 DEF Range
  <2>2. r.code = "wrong_type" => \E q \in ActionRefs : req.results[q[1]][q[2]].code = "wrong_type"
    <3>1. <<n, k>> \in ActionRefs
      BY RefFacts
    <3> QED BY <3>1
  <2>3. If(a.control = "number" /\ Printed(a.step, Decimals(a)) = 0, "action_step_not_positive") \subseteq Excused
    BY <2>1 DEF Excused, If
  <2>4. If(r.code = "wrong_type", "result_value_type") \subseteq Excused
    BY <2>2 DEF Excused, If
  <2>5. If(~req.keyed, "action_value_mismatch") \cup If(~req.keyed, "wrong_type") \subseteq Excused
    BY DEF Excused, If
  <2> QED BY <2>3, <2>4, <2>5 DEF ActionExcused
<1> QED BY <1>2, <1>3, <1>4 DEF RowExcused

(* So is what is excused of the mounts.                                    *)
LEMMA PlacementIsExcused ==
    ASSUME NEW len, len = Len(table), NEW board, NEW named,
           board = (IF IdentityComplete THEN "board" ELSE None),
           named = (IF "board" \in config.identity THEN "board" ELSE None)
    PROVE  PlacementExcused(table, len, OwnIds, MountRoots, board, named) \subseteq Excused
<1>1. Nested(OwnIds) => \E o, q \in Range(config.owns) : o # q /\ IsPrefix(o, q)
  BY DEF Nested, OwnIds
<1>2. CarAgain(table, len) => \E n \in 2 .. Len(table) : table[n].id = <<"car">>
  BY DEF CarAgain
<1>3. MountRoots # OwnIds => ~IdentityComplete /\ config.owns # <<>>
  BY DEF MountRoots, OwnIds, Range
<1>4. board = None /\ named # None => ~IdentityComplete /\ "board" \in config.identity
  BY DEF None
<1> QED BY <1>1, <1>2, <1>3, <1>4 DEF PlacementExcused, Excused, If

(* The served list of an envelope.                                         *)
LEMMA EnvelopeIsListed ==
    ASSUME NEW len, NEW S, NEW seg, IsNamed(table, len, S, seg), NEW env, NEW copy, NEW path,
           NEW raws, NEW root, EnvelopeFits(env, copy, path, raws, root)
    PROVE  Listed(env.tree, table, len, S, seg, root)
<1> DEFINE list == env.tree
<1>1. \A i \in DOMAIN list : \E parent :
        list[i] = WriteNode(Origin(table, root, i), parent, copy, Resolve(copy.vals), raws)
  BY DEF EnvelopeFits
<1>2. ASSUME NEW i \in DOMAIN list PROVE list[i].id = table[Origin(table, root, i)].id
  <2>1. PICK parent : list[i] = WriteNode(Origin(table, root, i), parent, copy, Resolve(copy.vals), raws)
    BY <1>1
  <2> DEFINE w == list[i]
             n == Origin(table, root, i)
             states == Resolve(copy.vals)
  <2>2. w = WriteNode(n, parent, copy, states, raws)
    BY <2>1
  <2> HIDE DEF w, n, states
  <2>3. w.id = table[n].id
    BY <2>2 DEF WriteNode
  <2> QED BY <2>3 DEF w, n
<1>3. root \in 1 .. len
  BY DEF EnvelopeFits, IsNamed, IsPreOrder
<1>4. Serves(list, table, root) /\ \A m \in 1 .. root - 1 : table[m].id # table[root].id
  BY DEF EnvelopeFits
<1> HIDE DEF list
<1>5. Listed(list, table, len, S, seg, root)
  BY <1>2, <1>3, <1>4 DEF Listed
<1> QED BY <1>5 DEF list

(* Every node of an envelope passes, but for the listed cases.             *)
LEMMA NodesPass ==
    ASSUME NEW len, NEW S, NEW seg, IsNamed(table, len, S, seg), CopyFits(req),
           \A n \in DOMAIN table : NodeFits(table[n]), len = Len(table),
           NEW env, NEW path, NEW raws, NEW root, EnvelopeFits(env, req, path, raws, root),
           NEW i \in DOMAIN env.tree
    PROVE  ValidateNode(env.tree, i) \subseteq Excused
<1> DEFINE list == env.tree
           w == list[i]
           n == Origin(table, root, i)
           states == Resolve(req.vals)
           again == \E m \in 1 .. i - 1 : list[m].id = w.id
<1>1. Listed(list, table, len, S, seg, root)
  BY EnvelopeIsListed
<1>2. n \in 1 .. len /\ len \in Nat /\ DOMAIN table = 1 .. len /\ IsPreOrder(table, len)
  <2>1. len \in Nat /\ DOMAIN table = 1 .. len /\ IsPreOrder(table, len) /\ root \in 1 .. len
    BY DEF EnvelopeFits, IsNamed, IsPreOrder
  <2>2. n \in root .. len
    BY <1>1, PlacesHold DEF PlacesAre
  <2> HIDE DEF n
  <2> QED BY <2>1, <2>2
<1>3. PICK parent : w = WriteNode(n, parent, req, states, raws)
  BY DEF EnvelopeFits
<1>4. StateFits(table[n], req.vals[n], states[n])
  BY <1>2, StatesFit
<1>5. /\ NodeFits(table[n]) /\ RowFits(table[n], req.vals[n])
      /\ ActionRowFits(table[n], req.acts[n], req.results[n], req.keyed)
  BY <1>2 DEF CopyFits
<1>6. again => CarAgain(table, len)
  <2> SUFFICES ASSUME again, ~CarAgain(table, len) PROVE FALSE
    OBVIOUS
  <2>1. PICK m \in 1 .. i - 1 : list[m].id = w.id
    OBVIOUS
  <2>2. \A k \in 2 .. len : table[k].id # <<"car">>
    BY DEF CarAgain
  <2>3. list[m].id # list[i].id
    <3> HIDE DEF list
    <3>1. i \in DOMAIN list
      BY DEF list
    <3> QED BY <1>1, <2>2, <3>1, NoDuplicates
  <2> QED BY <2>1, <2>3
<1>7. If(again, "duplicate_id") \subseteq Excused
  <2> HIDE DEF again
  <2>1. again => \E k \in 2 .. Len(table) : table[k].id = <<"car">>
    BY <1>6 DEF CarAgain
  <2> QED BY <2>1 DEF Excused, If
<1>8. CheckHierarchicalId(list, i) = {}
  <2>1. i \in DOMAIN list
    OBVIOUS
  <2> HIDE DEF list
  <2> QED BY <1>1, <2>1, ListIsHierarchical
<1>9. ValidateNode(list, i) = If(again, "duplicate_id") \cup CheckHierarchicalId(list, i) \cup NodeChecks(w)
  <2> DEFINE values == Range(w.values)
             c1 == If(again, "duplicate_id")
             c2 == CheckHierarchicalId(list, i)
             k1 == CheckWhy(w.state = "ok", w.why)
             k2 == ValidateProvenance(w.provenance, w.state)
             k3 == CheckFramesEvidence(w.state, w.why)
             k4 == CheckAnnouncedEvidence(w.state, w.why)
             k5 == UNION {ValidateValue(v) : v \in values}
             k6 == If(w.state = "ok" /\ \E v \in values : v.state # "ok", "node_ok_with_failing_value")
             k7 == If(w.state = "ok" /\ \E v \in values : v.level \in {"warn", "bad"}, "node_ok_with_limit")
             k8 == CheckV15Why(w)
             k9 == IF w.series.key = None THEN {} ELSE ValidateSeries(w.series)
             k10 == UNION {ValidateAction(a, w.id) : a \in Range(w.actions)}
             k11 == If(w.role # None /\ w.role \notin w.roles, "role_not_available")
  <2>1. ValidateNode(list, i) = c1 \cup c2 \cup k1 \cup k2 \cup k3 \cup k4 \cup k5 \cup k6 \cup k7
                                   \cup k8 \cup k9 \cup k10 \cup k11
    BY DEF ValidateNode
  <2>2. NodeChecks(w) = k1 \cup k2 \cup k3 \cup k4 \cup k5 \cup k6 \cup k7 \cup k8 \cup k9 \cup k10 \cup k11
    BY DEF NodeChecks
  <2> HIDE DEF c1, c2, k1, k2, k3, k4, k5, k6, k7, k8, k9, k10, k11, w
  <2>3. ValidateNode(list, i) = c1 \cup c2 \cup NodeChecks(w)
    BY <2>1, <2>2
  <2> QED BY <2>3 DEF c1, c2
<1> HIDE DEF w, n, states
<1>10. NodeChecks(w) \subseteq RowExcused(table[n], req.results[n], req.keyed)
  BY <1>3, <1>4, <1>5, NodeWritten
<1>11. RowExcused(table[n], req.results[n], req.keyed) \subseteq Excused
  BY <1>2, NodeIsExcused
<1> HIDE DEF again, list
<1>12. ValidateNode(list, i) \subseteq Excused
  BY <1>7, <1>8, <1>9, <1>10, <1>11
<1> QED BY <1>12 DEF list

(* The table of the device, its mounts and its root.                       *)
LEMMA BuiltFacts ==
    ASSUME BuiltInv
    PROVE  \E S, seg :
             /\ IsNamed(table, Len(table), S, seg)
             /\ OwnsNodes(table, Len(table), OwnIds)
             /\ IdentityComplete => OwnIds # {}
             /\ table[1].role = {}
             /\ \A n \in DOMAIN table : NodeFits(table[n])
<1> DEFINE c == config
           len == 1 + Len(c.tree)
           S == Segments(c.tree)
           seg == [n \in 2 .. len |-> c.tree[n - 1].segment]
<1>1. c \in Configs /\ Accepted(c) /\ table = NodeTable(c)
  BY DEF BuiltInv
<1>2. /\ IsNamed(NodeTable(c), len, S, seg)
      /\ \A k \in DOMAIN c.tree : k + 1 \in 2 .. len /\ NodeTable(c)[k + 1].id = IdOf(c.tree, k)
  BY <1>1, TableIsNamed
<1>3. Len(table) = len /\ table[1] = Root
  BY <1>1, TableFacts
<1>4. ValidateOwns(c)
  BY <1>1 DEF Accepted, FinalValidate, CheckTree
<1>5. OwnsNodes(table, len, OwnIds)
  <2> SUFFICES ASSUME NEW o \in OwnIds PROVE \E q \in 2 .. len : table[q].id = o
    BY DEF OwnsNodes
  <2>1. PICK k \in DOMAIN c.tree : IdOf(c.tree, k) = o
    BY <1>4 DEF ValidateOwns, OwnIds
  <2> HIDE DEF len, c
  <2> QED BY <1>1, <1>2, <2>1
<1>6. IdentityComplete => OwnIds # {}
  <2> SUFFICES ASSUME IdentityComplete PROVE OwnIds # {}
    OBVIOUS
  <2>1. c.owns # <<>> /\ c.owns \in Seq(Range(c.owns))
    BY <1>1, <1>4, PortalAssumption DEF ValidateOwns, IdentityComplete
  <2> DEFINE owns == c.owns
  <2>2. Len(owns) # 0 /\ Len(owns) \in Nat /\ DOMAIN owns = 1 .. Len(owns)
    <3> HIDE DEF c
    <3>1. owns # <<>> /\ owns \in Seq(Range(owns))
      BY <2>1
    <3> HIDE DEF owns
    <3> QED BY <3>1
  <2>3. 1 \in DOMAIN owns
    <3> HIDE DEF owns
    <3> QED BY <2>2
  <2> QED BY <2>3 DEF OwnIds, Range
<1>7. \A n \in DOMAIN table : NodeFits(table[n])
  BY <1>1, TableFits
<1>8. table[1].role = {}
  BY <1>3 DEF Root
<1> HIDE DEF len, S, seg, c
<1> QED BY <1>1, <1>2, <1>3, <1>5, <1>6, <1>7, <1>8

(* The served-by block names the board and its mounts, or neither.         *)
LEMMA ServedByPasses ==
    ASSUME IdentityComplete => OwnIds # {}
    PROVE  /\ ValidateServedBy(WriteServedBy) = {}
           /\ WriteServedBy.owns = MountRoots
           /\ WriteServedBy.board = IF IdentityComplete THEN "board" ELSE None
<1> DEFINE s == WriteServedBy
           noid == Because("no_identity", {})
<1>1. /\ s.board = (IF IdentityComplete THEN "board" ELSE None)
      /\ s.state = (IF IdentityComplete THEN "ok" ELSE "unknown")
      /\ s.why = (IF IdentityComplete THEN NoWhy ELSE noid)
      /\ s.owns = MountRoots
  BY DEF WriteServedBy, Because, MountRoots, OwnIds
<1>2. noid.code = "no_identity" /\ noid # NoWhy
  <2> DEFINE code == "no_identity"
             none == {}
  <2>1. code # "" /\ noid = Because(code, none)
    OBVIOUS
  <2> HIDE DEF code, none, noid
  <2>2. noid.code = code /\ noid # NoWhy
    BY <2>1, BecauseIs
  <2> QED BY <2>2 DEF code
<1> HIDE DEF s, noid
<1>3. WhyAgrees(s.state, s.why)
  <2>1. CASE IdentityComplete
    BY <1>1, <2>1 DEF WhyAgrees
  <2>2. CASE ~IdentityComplete
    <3>1. s.why = noid /\ s.state = "unknown" /\ s.why.code = "no_identity"
      BY <1>1, <1>2, <2>2
    <3>2. EvidenceDiscriminators("no_identity") = {}
      BY DEF EvidenceDiscriminators
    <3> QED BY <1>2, <3>1, <3>2 DEF WhyAgrees
  <2> QED BY <2>1, <2>2
<1>4. CheckWhy(s.state = "ok", s.why) = {}
  BY <1>3, WhyIsChecked
<1>5. ~(s.state = "unknown" /\ ~(~(s.board # None) /\ s.owns = {} /\ s.why.code = "no_identity"))
  BY <1>1, <1>2 DEF MountRoots
<1>6. ~(s.state = "ok" /\ ~(s.board # None /\ s.owns # {}))
  BY <1>1 DEF MountRoots, None
<1>7. ValidateServedBy(s) = {}
  BY <1>4, <1>5, <1>6 DEF ValidateServedBy, If
<1> QED BY <1>1, <1>7 DEF s

(* Of a written envelope: its provenance is where IsSkeletonNode() says,   *)
(* its legend is there when a node has a series, its ancestor role is not  *)
(* a served node's.                                                        *)
LEMMA WholePasses ==
    ASSUME NEW len, NEW S, NEW seg, IsNamed(table, len, S, seg), len = Len(table),
           OwnsNodes(table, len, OwnIds), table[1].role = {}, NEW env, NEW path, NEW raws,
           NEW root, EnvelopeFits(env, req, path, raws, root), NEW named,
           named = IF "board" \in config.identity THEN "board" ELSE None
    PROVE  /\ ProvenanceFits(env.tree, table, OwnIds, root, named)
           /\ ValidateSeriesLegend(env) = {}
           /\ ValidateAncestorRole(env.ancestorRole, env.tree) = {}
<1> DEFINE list == env.tree
           served == Subtree(table, root)
           states == Resolve(req.vals)
           org(i) == Origin(table, root, i)
           size == Cardinality(served)
<1>1. Listed(list, table, len, S, seg, root)
  BY EnvelopeIsListed
<1>2. /\ size \in Nat /\ DOMAIN list = 1 .. size
      /\ \A i \in 1 .. size : org(i) \in served /\ org(i) \in root .. len /\ list[i].id = table[org(i)].id
      /\ \A n \in served : Place(served, n) \in 1 .. size /\ org(Place(served, n)) = n
  BY <1>1, PlacesHold DEF PlacesAre
<1>3. len \in Nat /\ root \in 1 .. len /\ table[1].id = <<"car">> /\ IsPreOrder(table, len)
  BY <1>1 DEF Listed, IsNamed, IsPreOrder
<1>4. ASSUME NEW i \in DOMAIN list
      PROVE  /\ list[i].provenance = WriteProvenance(org(i), req.vals[org(i)])
             /\ list[i].series.key # None <=> NodeEmitsSeries(org(i), states[org(i)])
  <2> DEFINE w == list[i]
             n == org(i)
  <2>1. PICK parent : w = WriteNode(n, parent, req, states, raws)
    BY DEF EnvelopeFits
  <2> HIDE DEF w, n, states
  <2>2. /\ w.provenance = WriteProvenance(n, req.vals[n])
        /\ w.series = IF NodeEmitsSeries(n, states[n])
                      THEN [key |-> "series", elements |-> [j \in DOMAIN raws |-> WriteElement(raws[j])]]
                      ELSE [key |-> None, elements |-> <<>>]
    <3>1. w.provenance = WriteProvenance(n, req.vals[n])
      BY <2>1 DEF WriteNode
    <3>2. w.series = IF NodeEmitsSeries(n, states[n])
                     THEN [key |-> "series", elements |-> [j \in DOMAIN raws |-> WriteElement(raws[j])]]
                     ELSE [key |-> None, elements |-> <<>>]
      BY <2>1 DEF WriteNode
    <3> QED BY <3>1, <3>2
  <2>3. w.series.key # None <=> NodeEmitsSeries(n, states[n])
    BY <2>2 DEF None
  <2> QED BY <2>2, <2>3 DEF w, n
<1>5. ProvenanceFits(list, table, OwnIds, root, named)
  <2> SUFFICES ASSUME NEW i \in DOMAIN list
               PROVE  /\ Skeleton(table, OwnIds, org(i)) => list[i].provenance = NoProvenance
                      /\ ~Skeleton(table, OwnIds, org(i)) =>
                            list[i].provenance # NoProvenance /\ list[i].provenance.board = named
    BY DEF ProvenanceFits
  <2> DEFINE n == org(i)
             prov == list[i].provenance
             ss == req.vals[n]
  <2>1. IsSkeletonNode(n) <=> Skeleton(table, OwnIds, n)
    BY DEF IsSkeletonNode, Skeleton, OwnIds
  <2>2. prov = WriteProvenance(n, ss)
    BY <1>4
  <2>3. ASSUME ~IsSkeletonNode(n) PROVE prov.board = named
    <3> HIDE DEF n, prov, ss
    <3> QED BY <2>2, <2>3 DEF WriteProvenance
  <2>4. named # "absent" /\ NoProvenance.board = "absent"
    BY DEF None, NoProvenance
  <2>5. IsSkeletonNode(n) => prov = NoProvenance
    <3> HIDE DEF n, prov, ss
    <3> QED BY <2>2 DEF WriteProvenance
  <2> HIDE DEF prov, n
  <2>6. ~IsSkeletonNode(n) => prov # NoProvenance
    BY <2>3, <2>4
  <2> QED BY <2>1, <2>3, <2>5, <2>6 DEF prov, n
<1>6. env.legend <=> \E n \in served : NodeEmitsSeries(n, states[n])
  BY DEF EnvelopeFits
<1> HIDE DEF list, served, states, org, size
<1>7. (\E i \in DOMAIN list : list[i].series.key # None) <=> env.legend
  <2>1. ASSUME NEW i \in DOMAIN list, list[i].series.key # None PROVE env.legend
    BY <1>2, <1>4, <1>6, <2>1
  <2>2. ASSUME env.legend PROVE \E i \in DOMAIN list : list[i].series.key # None
    <3>1. PICK n \in served : NodeEmitsSeries(n, states[n])
      BY <1>6, <2>2
    <3> DEFINE i == Place(served, n)
    <3>2. i \in DOMAIN list /\ org(i) = n
      BY <1>2, <3>1
    <3> HIDE DEF i
    <3> QED BY <1>4, <3>1, <3>2
  <2> QED BY <2>1, <2>2
<1>8. ValidateSeriesLegend(env) = {}
  <2>1. (\E i \in DOMAIN env.tree : env.tree[i].series.key # None) <=> env.legend
    BY <1>7 DEF list
  <2> QED BY <2>1 DEF ValidateSeriesLegend, If
<1>9. ASSUME env.ancestorRole # <<>>, NEW i \in DOMAIN list PROVE list[i].id # env.ancestorRole
  <2> DEFINE role == env.ancestorRole
  <2>1. role = WriteAncestorRole(root)
    BY <1>9 DEF EnvelopeFits
  <2>2. PICK a \in 1 .. root - 1 : table[a].role # {} /\ role = table[a].id
    BY <1>3, <1>9, <2>1, AncestorFacts
  <2>3. a \in 2 .. len
    <3>1. a # 1
      BY <2>2
    <3> QED BY <1>3, <3>1
  <2>4. org(i) \in 2 .. len /\ org(i) # a /\ list[i].id = table[org(i)].id
    <3>1. org(i) \in root .. len /\ list[i].id = table[org(i)].id
      BY <1>2
    <3> QED BY <1>3, <2>3, <3>1
  <2>5. IsNamed(table, len, S, seg)
    BY <1>1 DEF Listed
  <2> QED BY <2>2, <2>3, <2>4, <2>5, IdsDiffer
<1>10. ValidateAncestorRole(env.ancestorRole, list) = {}
  BY <1>9 DEF ValidateAncestorRole, If
<1> QED BY <1>5, <1>8, <1>10 DEF list

(* Every envelope written from a copy that fits passes, but for the listed *)
(* cases.                                                                  *)
LEMMA EnvelopePasses ==
    ASSUME BuiltInv, CopyFits(req), NEW path \in Paths, NEW raws
    PROVE  ValidateEnvelope(WriteEnvelope(req, path, raws)) \subseteq Excused
<1> DEFINE env == WriteEnvelope(req, path, raws)
           len == Len(table)
           list == env.tree
           s == env.servedBy
           board == IF IdentityComplete THEN "board" ELSE None
           named == IF "board" \in config.identity THEN "board" ELSE None
<1>1. PICK S, seg :
        /\ IsNamed(table, len, S, seg) /\ OwnsNodes(table, len, OwnIds)
        /\ IdentityComplete => OwnIds # {}
        /\ table[1].role = {} /\ \A n \in DOMAIN table : NodeFits(table[n])
  BY BuiltFacts
<1>2. PICK root : EnvelopeFits(env, req, path, raws, root)
  BY <1>1, EnvelopeIs
<1> HIDE DEF env, len, board, named
<1>3. Listed(list, table, len, S, seg, root)
  BY <1>1, <1>2, EnvelopeIsListed
<1>4. /\ env.path = path /\ s = WriteServedBy /\ root \in DOMAIN table
      /\ (path = <<>> => root = 1) /\ (path # <<>> => table[root].id = path)
  BY <1>2 DEF EnvelopeFits
<1>5. /\ ValidateServedBy(s) = {} /\ s.owns = MountRoots /\ s.board = board
  BY <1>1, <1>4, ServedByPasses DEF board
<1>6. /\ ProvenanceFits(list, table, OwnIds, root, named) /\ ValidateSeriesLegend(env) = {}
      /\ ValidateAncestorRole(env.ancestorRole, list) = {}
  BY <1>1, <1>2, WholePasses DEF named, len
<1>7. PlacesAre(list, table, len, root, Cardinality(Subtree(table, root)))
  BY <1>3, PlacesHold
<1>8. list[1].id = table[root].id /\ 1 \in DOMAIN list
  BY <1>7 DEF PlacesAre
<1>9. ASSUME NEW i \in DOMAIN list PROVE ValidateNode(list, i) \subseteq Excused
  BY <1>1, <1>2, <1>9, NodesPass DEF len
<1>10. ValidateProvenancePlacement(list, s.owns, s.board) \subseteq Excused
  <2>1. MountRoots = OwnIds \/ MountRoots = {}
    BY DEF MountRoots
  <2> HIDE DEF list, s
  <2>2. ValidateProvenancePlacement(list, MountRoots, board)
          \subseteq PlacementExcused(table, len, OwnIds, MountRoots, board, named)
    BY <1>1, <1>3, <1>6, <2>1, PlacementHolds
  <2>3. PlacementExcused(table, len, OwnIds, MountRoots, board, named) \subseteq Excused
    BY PlacementIsExcused DEF len, board, named
  <2> QED BY <1>5, <2>2, <2>3
<1>11. ~(env.path # <<>> /\ env.path # list[1].id)
  BY <1>4, <1>8
<1>12. ~(env.path = <<>> /\ Len(list[1].id) > 1)
  <2>1. table[1].id = <<"car">>
    BY <1>1 DEF IsNamed
  <2>2. Len(<<"car">>) = 1
    OBVIOUS
  <2> DEFINE first == list[1].id
  <2>3. path = <<>> => first = <<"car">>
    BY <1>4, <1>8, <2>1
  <2>4. path = <<>> => Len(first) = 1
    <3> HIDE DEF first
    <3> QED BY <2>2, <2>3
  <2>5. path = <<>> => ~(Len(first) > 1)
    <3> DEFINE long == Len(first)
    <3> HIDE DEF first, long
    <3>1. path = <<>> => long = 1
      BY <2>4 DEF long
    <3>2. path = <<>> => ~(long > 1)
      BY <3>1
    <3> QED BY <3>2 DEF long
  <2>6. env.path = path
    BY <1>4
  <2> HIDE DEF first
  <2>7. ~(env.path = <<>> /\ Len(first) > 1)
    BY <2>5, <2>6
  <2> QED BY <2>7 DEF first
<1>13. ~(env.path = <<>> /\ \E m \in s.owns : \A n \in DOMAIN list : list[n].id # m)
  <2> SUFFICES ASSUME path = <<>>, NEW m \in OwnIds PROVE \E n \in DOMAIN list : list[n].id = m
    BY <1>4, <1>5 DEF MountRoots
  <2>1. root = 1
    BY <1>4
  <2>2. PICK q \in 2 .. len : table[q].id = m
    BY <1>1 DEF OwnsNodes
  <2>3. len \in Nat /\ q \in 1 .. len
    <3>1. len \in Nat
      BY <1>1 DEF IsNamed, IsPreOrder
    <3> QED BY <3>1
  <2>4. q \in Subtree(table, 1)
    BY <1>1, <2>3, AllBelowRoot
  <2> DEFINE n == Place(Subtree(table, 1), q)
  <2>5. n \in DOMAIN list /\ list[n].id = table[Origin(table, 1, n)].id /\ Origin(table, 1, n) = q
    BY <1>7, <2>1, <2>4 DEF PlacesAre
  <2> HIDE DEF n, list
  <2> QED BY <2>2, <2>5
<1> DEFINE path1 == If(env.path # <<>> /\ env.path # list[1].id, "path_mismatch")
           path2 == If(env.path = <<>> /\ Len(list[1].id) > 1, "root_id_dotted")
           path3 == If(/\ env.path = <<>>
                       /\ \E m \in s.owns : \A n \in DOMAIN list : list[n].id # m, "mount_unresolved")
           nodes == UNION {ValidateNode(list, n) : n \in DOMAIN list}
           owner == ValidateServedBy(s)
           placed == ValidateProvenancePlacement(list, s.owns, s.board)
           above == ValidateAncestorRole(env.ancestorRole, list)
           legend == ValidateSeriesLegend(env)
<1>14. ValidateEnvelope(env) =
         nodes \cup owner \cup path1 \cup path2 \cup path3 \cup placed \cup above \cup legend
  BY DEF ValidateEnvelope
<1>15. path1 = {} /\ path2 = {} /\ path3 = {}
  <2> HIDE DEF list, s
  <2> QED BY <1>11, <1>12, <1>13 DEF If
<1>16. ValidateEnvelope(env) = nodes \cup placed
  <2>1. owner = {} /\ above = {} /\ legend = {}
    BY <1>5, <1>6
  <2> HIDE DEF nodes, owner, path1, path2, path3, placed, above, legend
  <2> QED BY <1>14, <1>15, <2>1
<1> HIDE DEF list, s
<1>17. ValidateEnvelope(env) \subseteq Excused
  BY <1>9, <1>10, <1>16
<1> QED BY <1>17 DEF env

(* What is sampled and recorded fits the table it is of.                   *)
RowsFit(tree, vs) == \A n \in DOMAIN tree : RowFits(tree[n], vs[n])
SamplesFit(tree, as, keyed) ==
    \A n \in DOMAIN tree :
        /\ DOMAIN as[n] = DOMAIN tree[n].actions
        /\ \A k \in DOMAIN tree[n].actions : ActionSampleFits(tree[n].actions[k], as[n][k], keyed)
SlotFits(a, slot) == ResultFits(a, slot.result) /\ (slot.pending => slot.result.code # "wrong_type")
SlotsFit(tree, f) ==
    \A n \in DOMAIN tree : \A k \in DOMAIN tree[n].actions : SlotFits(tree[n].actions[k], f[n][k])
FitInv ==
    /\ BuiltInv /\ RowsFit(table, vals) /\ SamplesFit(table, acts, sampled) /\ SlotsFit(table, rt)
    /\ req.on => CopyFits(req)

(* The codes of an answer, and what was checked before it was given.       *)
LEMMA EvaluateIs ==
    ASSUME NEW a, NEW sample, NEW busy, NEW body, NEW code, code = Evaluate(a, sample, busy, body)
    PROVE  /\ code \in RefusedCodes \cup {"busy", "queued"}
           /\ code = "wrong_type" => ~busy
           /\ a.control # "button" /\ code \in {"queued", "unknown_option", "out_of_range"}
                => ValueMatchesControl(a.control, body)
<1> DEFINE off == a.control \in {"select", "number"} /\ ~sample.enabled
           match == ValueMatchesControl(a.control, body)
           unknown == a.control = "select" /\ body.s \notin a.options
           out == a.control = "number" /\ sampled /\ body.n \notin a.min .. a.max
           button == a.control = "button"
<1>1. code = IF off THEN "disabled" ELSE IF busy THEN "busy"
             ELSE IF body.t = "too large" THEN "body_too_large"
             ELSE IF body.t = "garbage" THEN "invalid_body"
             ELSE IF button THEN "queued" ELSE IF body.t = "missing" THEN "invalid_body"
             ELSE IF ~match THEN "wrong_type" ELSE IF unknown THEN "unknown_option"
             ELSE IF out THEN "out_of_range" ELSE "queued"
  BY DEF Evaluate
<1> HIDE DEF off, match, unknown, out, button
<1>2. code \in RefusedCodes \cup {"busy", "queued"}
  BY <1>1 DEF RefusedCodes
<1>3. code = "wrong_type" => ~busy
  BY <1>1
<1>4. ~button /\ code \in {"queued", "unknown_option", "out_of_range"} => match
  BY <1>1
<1> QED BY <1>2, <1>3, <1>4 DEF match, button

(* A result that is written when a post is answered fits its action.       *)
LEMMA PostedFits ==
    ASSUME NEW a, NEW sample, NEW busy, NEW body, NEW code, code = Evaluate(a, sample, busy, body),
           code # "busy", NEW value, value = ParsedValue(a, code, body), NEW r,
           r = [state |-> IF code = "queued" THEN "running" ELSE "refused",
                code |-> code, value |-> value]
    PROVE  ResultFits(a, r)
<1>1. r.code = code /\ r.value = value
      /\ r.state = (IF code = "queued" THEN "running" ELSE "refused")
  OBVIOUS
<1>2. /\ code \in RefusedCodes \cup {"queued"}
      /\ a.control # "button" /\ code \in {"queued", "unknown_option", "out_of_range"}
           => ValueMatchesControl(a.control, body)
  BY EvaluateIs
<1>3. value # Null /\ code # "wrong_type" => ValueMatchesControl(a.control, value)
  <2> SUFFICES ASSUME value # Null, code # "wrong_type" PROVE ValueMatchesControl(a.control, value)
    OBVIOUS
  <2>1. /\ a.control # "button" /\ code \notin {"disabled", "body_too_large", "invalid_body"}
        /\ value = body
    BY DEF ParsedValue
  <2>2. code \in {"queued", "unknown_option", "out_of_range"}
    BY <1>2, <2>1 DEF RefusedCodes
  <2> QED BY <1>2, <2>1, <2>2
<1>4. r.state \in {"running", "refused"} /\ (r.state = "running" => code = "queued")
      /\ (r.state = "refused" => code \in RefusedCodes)
  BY <1>1, <1>2
<1> QED BY <1>1, <1>3, <1>4 DEF ResultFits

(* What the loop finds of a value is not older than no time.               *)
LEMMA FoundHasAge ==
    ASSUME NEW v, NEW s, NEW budget \in Int, IsSample(s), s.age \in Nat,
           NEW t \in NextSamples(v, s, budget)
    PROVE  t.age \in Nat
<1> DEFINE cap == IF budget = NoBudget THEN 1 ELSE budget + 1
<1>1. CASE t = NoSample
  BY <1>1 DEF NoSample
<1>2. ASSUME NEW num, NEW text, t = [has |-> TRUE, num |-> num, text |-> text, age |-> 0]
      PROVE  t.age \in Nat
  BY <1>2
<1>3. ASSUME NEW a \in s.age .. cap, t = [s EXCEPT !.age = a] PROVE t.age \in Nat
  <2>1. t.age = a
    BY <1>3 DEF IsSample
  <2>2. cap \in Int
    OBVIOUS
  <2> QED BY <2>1, <2>2
<1>4. t = NoSample
      \/ (\E num, text : t = [has |-> TRUE, num |-> num, text |-> text, age |-> 0])
      \/ (\E a \in s.age .. cap : t = [s EXCEPT !.age = a])
  BY DEF NextSamples
<1> QED BY <1>1, <1>2, <1>3, <1>4

(* A pass of the loop keeps one sample, with an age, for each value.       *)
LEMMA SampleKeepsRows ==
    ASSUME HonestInv, FitInv, Sample
    PROVE  RowsFit(table, vals')
<1>1. SampleFamily(table, vals) /\ RowsFit(table, vals)
  BY DEF HonestInv, FitInv
<1>2. ASSUME NEW n \in DOMAIN table, NEW k \in DOMAIN table[n].values,
             NEW s \in NextSamples(table[n].values[k], vals[n][k], table[n].budget),
             vals' = [vals EXCEPT ![n][k] = s]
      PROVE  RowsFit(table, vals')
  <2>1. IsSample(vals[n][k]) /\ vals[n][k].age \in Nat /\ table[n].budget \in Int
    <3>1. \A m \in DOMAIN table : NodeFits(table[m])
      BY BuiltFacts DEF FitInv
    <3> QED BY <1>1, <3>1 DEF SampleFamily, RowsFit, RowFits, NodeFits, ValuesFit
  <2>2. s.age \in Nat
    BY <2>1, FoundHasAge
  <2> DEFINE g == vals'
             row == [vals[n] EXCEPT ![k] = s]
  <2>3. g = [vals EXCEPT ![n] = row] /\ DOMAIN vals = DOMAIN table
    BY <1>1, <1>2 DEF SampleFamily
  <2>4. DOMAIN row = DOMAIN table[n].values /\ \A j \in DOMAIN row : row[j].age \in Nat
    BY <1>1, <2>2 DEF RowsFit, RowFits
  <2> HIDE DEF g, row
  <2>5. RowsFit(table, g)
    BY <1>1, <2>3, <2>4 DEF RowsFit, RowFits
  <2> QED BY <2>5 DEF g
<1> QED BY <1>1, <1>2 DEF Sample

(* What the loop finds of an action's entity fits the action.              *)
LEMMA FoundActionFits ==
    ASSUME NEW a, a.control \in ControlKeys, NEW s \in NextActionSamples(a)
    PROVE  ActionSampleFits(a, s, TRUE)
<1> DEFINE disabled == [enabled |-> FALSE, value |-> Null]
           with(json) == [enabled |-> TRUE, value |-> json]
<1>1. Null.t = "null"
  BY DEF Null, Json
<1>2. \A t, n, x : Json(t, n, x).t = t
  BY DEF Json
<1>3. CASE a.control = "button"
  <2>1. s = with(Null)
    BY <1>3 DEF NextActionSamples
  <2> QED BY <1>3, <2>1 DEF ActionSampleFits
<1>4. CASE a.control = "switch"
  <2>1. PICK n : s = with(Json("bool", n, ""))
    BY <1>4 DEF NextActionSamples
  <2>2. s.enabled = TRUE /\ s.value.t = "bool"
    BY <1>2, <2>1
  <2> QED BY <1>4, <2>2 DEF ActionSampleFits, ValueMatchesControl
<1>5. CASE a.control = "select"
  <2>1. s = disabled \/ \E o : s = with(Json("string", 0, o))
    BY <1>5 DEF NextActionSamples
  <2>2. CASE s = disabled
    BY <2>2 DEF ActionSampleFits
  <2>3. ASSUME NEW o, s = with(Json("string", 0, o)) PROVE ActionSampleFits(a, s, TRUE)
    <3>1. s.enabled = TRUE /\ s.value.t = "string"
      BY <1>2, <2>3
    <3>2. s.value # Null
      BY <1>1, <3>1
    <3> QED BY <1>5, <3>1, <3>2 DEF ActionSampleFits, ValueMatchesControl
  <2> QED BY <2>1, <2>2, <2>3
<1>6. CASE a.control = "number"
  <2>1. s = disabled \/ s = with(Json("number", a.min, ""))
    BY <1>6 DEF NextActionSamples
  <2>2. CASE s = disabled
    BY <2>2 DEF ActionSampleFits
  <2>3. CASE s = with(Json("number", a.min, ""))
    <3>1. s.enabled = TRUE /\ s.value.t = "number"
      BY <1>2, <2>3
    <3>2. s.value # Null
      BY <1>1, <3>1
    <3> QED BY <1>6, <3>1, <3>2 DEF ActionSampleFits, ValueMatchesControl
  <2> QED BY <2>1, <2>2, <2>3
<1> QED BY <1>3, <1>4, <1>5, <1>6 DEF ControlKeys

(* The device starts with samples and results that fit.                    *)
LEMMA InitFits == Init => FitInv
<1> SUFFICES ASSUME Init PROVE FitInv
  OBVIOUS
<1>1. BuiltInv /\ ~req.on /\ sampled = FALSE
  BY DEF Init, BuiltInv, NoCopy
<1>2. RowsFit(table, vals)
  <2>1. NoSample.age \in Nat
    BY DEF NoSample
  <2>2. vals = [n \in DOMAIN table |-> [k \in DOMAIN table[n].values |-> NoSample]]
    BY DEF Init
  <2> QED BY <2>1, <2>2 DEF RowsFit, RowFits
<1>3. SamplesFit(table, acts, sampled)
  <2> DEFINE idle == [enabled |-> TRUE, value |-> Null]
  <2>1. acts = [n \in DOMAIN table |-> [k \in DOMAIN table[n].actions |-> idle]]
    BY DEF Init
  <2>2. \A a : ActionSampleFits(a, idle, FALSE)
    BY DEF ActionSampleFits
  <2> HIDE DEF idle
  <2>3. SamplesFit(table, acts, FALSE)
    BY <2>1, <2>2 DEF SamplesFit
  <2> QED BY <1>1, <2>3
<1>4. SlotsFit(table, rt)
  <2>1. \A a : SlotFits(a, IdleAction)
    BY DEF SlotFits, ResultFits, IdleAction, NoResult, None
  <2>2. rt = [n \in DOMAIN table |-> [k \in DOMAIN table[n].actions |-> IdleAction]]
    BY DEF Init
  <2> QED BY <2>1, <2>2 DEF SlotsFit
<1> QED BY <1>1, <1>2, <1>3, <1>4 DEF FitInv

(* A request that another seq overtook still fits.                         *)
LEMMA CopyStillFits ==
    ASSUME HonestInv, req.on => CopyFits(req), NEW vs, NEW as, NEW runtime,
           UpdateSeq(vs, as, runtime), table' = table
    PROVE  (req.on => CopyFits(req))'
<1> DEFINE d == req'
           no == FALSE
<1>1. d = req \/ (req.on /\ d = [req EXCEPT !.current = no])
  BY DEF UpdateSeq
<1>2. req.on => IsCopy(req)
  BY DEF HonestInv
<1> HIDE DEF d, no
<1>3. d.on = req.on /\ d.vals = req.vals /\ d.acts = req.acts /\ d.results = req.results
      /\ d.keyed = req.keyed
  <2>1. CASE d = req
    BY <2>1
  <2>2. CASE req.on /\ d = [req EXCEPT !.current = no]
    BY <2>2, <1>2 DEF IsCopy
  <2> QED BY <1>1, <2>1, <2>2
<1>4. d.on => CopyFits(d)
  <2> SUFFICES ASSUME d.on, NEW n \in DOMAIN table
               PROVE  /\ RowFits(table[n], d.vals[n])
                      /\ ActionRowFits(table[n], d.acts[n], d.results[n], d.keyed)
    BY DEF CopyFits
  <2>1. CopyFits(req)
    BY <1>3
  <2>2. /\ RowFits(table[n], req.vals[n])
        /\ ActionRowFits(table[n], req.acts[n], req.results[n], req.keyed)
    BY <2>1 DEF CopyFits
  <2> QED BY <1>3, <2>2
<1>5. CopyFits(d) => (CopyFits(req))'
  BY DEF CopyFits, d
<1> QED BY <1>4, <1>5 DEF d

(* A pass of the loop samples what fits.                                   *)
LEMMA SampleKeepsFit ==
    ASSUME HonestInv, FitInv, Sample
    PROVE  FitInv'
<1>1. /\ UNCHANGED <<config, table, rt>> /\ sampled' = TRUE /\ UpdateSeq(vals', acts', rt)
  BY DEF Sample
<1>2. BuiltInv'
  BY <1>1 DEF FitInv, BuiltInv
<1>3. RowsFit(table', vals')
  BY <1>1, SampleKeepsRows
<1>4. SamplesFit(table', acts', sampled')
  <2>1. PICK pick :
          /\ \A r \in ActionRefs : pick[r] \in NextActionSamples(table[r[1]].actions[r[2]])
          /\ acts' = [n \in DOMAIN table |-> [k \in DOMAIN acts[n] |-> pick[<<n, k>>]]]
    BY DEF Sample
  <2> DEFINE as == acts'
  <2>2. as = [n \in DOMAIN table |-> [k \in DOMAIN acts[n] |-> pick[<<n, k>>]]]
    BY <2>1
  <2>3. \A n \in DOMAIN table : DOMAIN acts[n] = DOMAIN table[n].actions
    BY DEF FitInv, SamplesFit
  <2> HIDE DEF as
  <2>4. ASSUME NEW n \in DOMAIN table
        PROVE  /\ DOMAIN as[n] = DOMAIN table[n].actions
               /\ \A k \in DOMAIN table[n].actions : as[n][k] = pick[<<n, k>>]
    BY <2>2, <2>3
  <2>5. ASSUME NEW n \in DOMAIN table, NEW k \in DOMAIN table[n].actions
        PROVE  ActionSampleFits(table[n].actions[k], as[n][k], TRUE)
    <3> DEFINE a == table[n].actions[k]
               s == as[n][k]
               r == <<n, k>>
    <3>1. r \in ActionRefs /\ r[1] = n /\ r[2] = k
      BY RefFacts
    <3>2. s \in NextActionSamples(a)
      <4>1. pick[r] \in NextActionSamples(table[r[1]].actions[r[2]])
        BY <2>1, <3>1
      <4> QED BY <2>4, <3>1, <4>1
    <3>3. a.control \in ControlKeys
      <4>1. NodeFits(table[n])
        BY BuiltFacts DEF FitInv
      <4>2. a \in Range(table[n].actions)
        BY DEF Range
      <4> QED BY <4>1, <4>2 DEF NodeFits, ActionsFit
    <3> HIDE DEF a, s
    <3>4. ActionSampleFits(a, s, TRUE)
      BY <3>2, <3>3, FoundActionFits
    <3> QED BY <3>4 DEF a, s
  <2>6. SamplesFit(table, as, TRUE)
    BY <2>4, <2>5 DEF SamplesFit
  <2> QED BY <1>1, <2>6 DEF as
<1>5. SlotsFit(table', rt')
  BY <1>1 DEF FitInv
<1>6. (req.on => CopyFits(req))'
  <2> DEFINE vs == vals'
             as == acts'
  <2>1. UpdateSeq(vs, as, rt) /\ table' = table /\ (req.on => CopyFits(req))
    BY <1>1 DEF FitInv
  <2> HIDE DEF vs, as
  <2> QED BY <2>1, CopyStillFits
<1> QED BY <1>2, <1>3, <1>4, <1>5, <1>6 DEF FitInv

(* A changed slot that fits keeps the others.                              *)
LEMMA SlotChangeFits ==
    ASSUME SlotFamily(table, rt), SlotsFit(table, rt), NEW n \in DOMAIN table,
           NEW k \in DOMAIN table[n].actions, NEW s, IsSlot(s), SlotFits(table[n].actions[k], s),
           NEW g, g = [rt EXCEPT ![n][k] = s]
    PROVE  SlotsFit(table, g)
<1>1. OneSlot(table, rt, n, k, s, g)
  BY SlotChange
<1> SUFFICES ASSUME NEW m \in DOMAIN table, NEW j \in DOMAIN table[m].actions
             PROVE  SlotFits(table[m].actions[j], g[m][j])
  BY DEF SlotsFit
<1>2. CASE m = n /\ j = k
  BY <1>1, <1>2 DEF OneSlot
<1>3. CASE ~(m = n /\ j = k)
  <2>1. <<m, j>> # <<n, k>>
    BY <1>3
  <2>2. g[m][j] = rt[m][j]
    BY <1>1, <2>1 DEF OneSlot
  <2> QED BY <2>2 DEF SlotsFit
<1> QED BY <1>2, <1>3

(* A step that only changes a slot keeps the rest.                         *)
LEMMA SlotStepFits ==
    ASSUME HonestInv, FitInv, UNCHANGED <<config, table, sampled, vals, acts>>,
           UpdateSeq(vals, acts, rt'), SlotsFit(table, rt')
    PROVE  FitInv'
<1>1. BuiltInv'
  BY DEF FitInv, BuiltInv
<1>2. RowsFit(table', vals') /\ SamplesFit(table', acts', sampled') /\ SlotsFit(table', rt')
  BY DEF FitInv
<1>3. (req.on => CopyFits(req))'
  <2> DEFINE runtime == rt'
  <2>1. UpdateSeq(vals, acts, runtime) /\ table' = table /\ (req.on => CopyFits(req))
    BY DEF FitInv
  <2> HIDE DEF runtime
  <2> QED BY <2>1, CopyStillFits
<1> QED BY <1>1, <1>2, <1>3 DEF FitInv

(* A post leaves a result that fits.                                       *)
LEMMA PostKeepsFit ==
    ASSUME OwedInv, HonestInv, FitInv, NEW r \in ActionRefs, NEW body \in Bodies, Post(r, body)
    PROVE  FitInv'
<1> DEFINE n == r[1]
           k == r[2]
           a == table[n].actions[k]
           slot == rt[n][k]
           busy == slot.pending
           code == Evaluate(a, acts[n][k], busy, body)
           value == ParsedValue(a, code, body)
           result == [state |-> IF code = "queued" THEN "running" ELSE "refused",
                      code |-> code, value |-> value]
           s == IF code = "queued" THEN [result |-> result, pending |-> TRUE, value |-> value]
                ELSE [slot EXCEPT !.result = result]
<1>1. /\ code # "busy" /\ rt' = [rt EXCEPT ![n][k] = s]
      /\ UNCHANGED <<config, table, sampled, vals, acts>> /\ UpdateSeq(vals, acts, rt')
  BY DEF Post
<1>2. n \in DOMAIN table /\ k \in DOMAIN table[n].actions
  BY RefFacts
<1>3. IsSlot(slot) /\ SlotFamily(table, rt) /\ SlotsFit(table, rt) /\ SlotFits(a, slot)
  BY <1>2 DEF OwedInv, SlotInv, SlotFamily, FitInv, SlotsFit
<1>4. ResultFits(a, result) /\ IsResult(result) /\ result.code = code
  <2>1. IsResult(result) /\ result.code = code
    BY DEF IsResult
  <2> DEFINE x == acts[n][k]
             res == result
             c == code
             v == value
  <2>2. c = Evaluate(a, x, busy, body) /\ c # "busy" /\ v = ParsedValue(a, c, body)
        /\ res = [state |-> IF c = "queued" THEN "running" ELSE "refused", code |-> c, value |-> v]
    BY <1>1
  <2> HIDE DEF a, x, busy, c, v, res
  <2>3. ResultFits(a, res)
    BY <2>2, PostedFits
  <2> QED BY <2>1, <2>3 DEF res
<1>5. code = "wrong_type" => ~busy
  <2> DEFINE x == acts[n][k]
             c == code
  <2>1. c = Evaluate(a, x, busy, body)
    OBVIOUS
  <2> HIDE DEF a, x, busy, c
  <2>2. c = "wrong_type" => ~busy
    BY <2>1, EvaluateIs
  <2> QED BY <2>2 DEF c
<1>6. busy \in BOOLEAN /\ slot = [result |-> slot.result, pending |-> busy, value |-> slot.value]
  BY <1>3 DEF IsSlot
<1>7. \/ code = "queued" /\ s = [result |-> result, pending |-> TRUE, value |-> value]
      \/ code # "queued" /\ s = [result |-> result, pending |-> busy, value |-> slot.value]
  <2>1. [slot EXCEPT !.result = result]
          = [result |-> result, pending |-> busy, value |-> slot.value]
    <3> DEFINE v == slot.value
               p == busy
               q == slot.result
    <3>1. slot = [result |-> q, pending |-> p, value |-> v]
      BY <1>6
    <3> HIDE DEF v, p, q, result, slot
    <3>2. [slot EXCEPT !.result = result] = [result |-> result, pending |-> p, value |-> v]
      BY <3>1
    <3> QED BY <3>2 DEF v, p
  <2> HIDE DEF code, result, value, slot, busy
  <2> QED BY <2>1
<1> DEFINE kept == slot.value
<1> HIDE DEF code, value, result, s, slot, busy, kept
<1>8. IsSlot(s) /\ s.result = result /\ (s.pending => code = "queued" \/ busy)
  <2>1. CASE code = "queued" /\ s = [result |-> result, pending |-> TRUE, value |-> value]
    <3>1. IsSlot(s) /\ s.result = result
      BY <1>4, <2>1 DEF IsSlot
    <3> QED BY <2>1, <3>1
  <2>2. CASE code # "queued" /\ s = [result |-> result, pending |-> busy, value |-> slot.value]
    <3>1. s = [result |-> result, pending |-> busy, value |-> kept]
      BY <2>2 DEF kept
    <3>2. IsSlot(s) /\ s.result = result /\ s.pending = busy
      BY <1>4, <1>6, <3>1 DEF IsSlot
    <3> QED BY <3>2
  <2> QED BY <1>7, <2>1, <2>2
<1>9. SlotFits(a, s)
  <2>1. s.pending => result.code # "wrong_type"
    BY <1>4, <1>5, <1>8
  <2> QED BY <1>4, <1>8, <2>1 DEF SlotFits
<1>10. SlotsFit(table, rt')
  <2> DEFINE g == rt'
  <2>1. g = [rt EXCEPT ![n][k] = s] /\ SlotFits(table[n].actions[k], s)
    BY <1>1, <1>9
  <2> HIDE DEF g, n, k, a
  <2>2. SlotsFit(table, g)
    BY <1>2, <1>3, <1>8, <2>1, SlotChangeFits
  <2> QED BY <2>2 DEF g
<1> QED BY <1>1, <1>10, SlotStepFits

(* The action that is recorded was accepted: its value is of its control.  *)
LEMMA RecordKeepsFit ==
    ASSUME OwedInv, HonestInv, FitInv, Record
    PROVE  FitInv'
<1> DEFINE n == loop[1]
           k == loop[2]
           a == table[n].actions[k]
           slot == rt[n][k]
           s == Recorded(slot)
<1>1. /\ loop # <<>> /\ rt' = [rt EXCEPT ![n][k] = s]
      /\ UNCHANGED <<config, table, sampled, vals, acts>> /\ UpdateSeq(vals, acts, rt')
  BY DEF Record
<1>2. loop \in ActionRefs /\ slot.pending
  BY <1>1 DEF OwedInv, SlotInv
<1>3. n \in DOMAIN table /\ k \in DOMAIN table[n].actions
  BY <1>2, RefFacts
<1>4. IsSlot(slot) /\ SlotFamily(table, rt) /\ SlotsFit(table, rt) /\ SlotFits(a, slot)
  BY <1>3 DEF OwedInv, SlotInv, SlotFamily, FitInv, SlotsFit
<1>5. IsSlot(s) /\ SlotFits(a, s)
  <2> DEFINE st == slot.result.state
             c == slot.result.code
             w == slot.result.value
             p == slot.pending
             v == slot.value
  <2>1. slot = [result |-> [state |-> st, code |-> c, value |-> w], pending |-> p, value |-> v]
    BY <1>4 DEF IsSlot, IsResult
  <2>2. w # Null => ValueMatchesControl(a.control, w)
    BY <1>2, <1>4 DEF SlotFits, ResultFits
  <2> HIDE DEF st, c, w, p, v, slot, a
  <2>3. s = [result |-> [state |-> "accepted", code |-> "applied", value |-> w],
             pending |-> FALSE, value |-> v]
    BY <2>1, RecordedSlot
  <2> HIDE DEF s
  <2>4. IsSlot(s)
    BY <2>3 DEF IsSlot, IsResult
  <2>5. /\ s.result.state = "accepted" /\ s.result.code = "applied" /\ s.result.value = w
        /\ s.pending = FALSE
    BY <2>3
  <2>6. ResultFits(a, s.result)
    BY <2>2, <2>5 DEF ResultFits
  <2> QED BY <2>4, <2>5, <2>6 DEF SlotFits
<1>6. SlotsFit(table, rt')
  <2> DEFINE g == rt'
  <2>1. g = [rt EXCEPT ![n][k] = s] /\ SlotFits(table[n].actions[k], s) /\ IsSlot(s)
    BY <1>1, <1>5
  <2> HIDE DEF g, n, k, a, s
  <2>2. SlotsFit(table, g)
    BY <1>3, <1>4, <2>1, SlotChangeFits
  <2> QED BY <2>2 DEF g
<1> QED BY <1>1, <1>6, SlotStepFits

(* A request copies samples and results that fit.                          *)
LEMMA CopyKeepsFit ==
    ASSUME OwedInv, FitInv, CopySnapshot
    PROVE  FitInv'
<1> DEFINE c == Copy
<1>1. req' = c /\ UNCHANGED <<config, table, sampled, vals, acts, rt>>
  BY DEF CopySnapshot
<1>2. c.vals = vals /\ c.acts = acts /\ c.results = Results(rt) /\ (c.keyed = sampled)
  BY DEF Copy
<1>3. /\ RowsFit(table, vals) /\ SamplesFit(table, acts, sampled) /\ SlotsFit(table, rt)
      /\ SlotFamily(table, rt)
  BY DEF FitInv, OwedInv, SlotInv
<1> HIDE DEF c
<1>4. CopyFits(c)
  <2> SUFFICES ASSUME NEW n \in DOMAIN table
               PROVE  /\ RowFits(table[n], c.vals[n])
                      /\ ActionRowFits(table[n], c.acts[n], c.results[n], c.keyed)
    BY DEF CopyFits
  <2>1. RowFits(table[n], c.vals[n])
    BY <1>2, <1>3 DEF RowsFit
  <2>2. ASSUME NEW k \in DOMAIN table[n].actions
        PROVE  /\ ActionSampleFits(table[n].actions[k], c.acts[n][k], c.keyed)
               /\ ResultFits(table[n].actions[k], c.results[n][k])
    <3>1. ActionSampleFits(table[n].actions[k], acts[n][k], sampled)
      BY <1>3 DEF SamplesFit
    <3>2. ResultFits(table[n].actions[k], rt[n][k].result)
      BY <1>3 DEF SlotsFit, SlotFits
    <3>3. Results(rt)[n][k] = rt[n][k].result
      BY <1>3 DEF Results, SlotFamily
    <3> QED BY <1>2, <3>1, <3>2, <3>3
  <2> QED BY <2>1, <2>2 DEF ActionRowFits
<1>5. (CopyFits(req))'
  BY <1>1, <1>4 DEF CopyFits
<1>6. BuiltInv' /\ RowsFit(table', vals') /\ SamplesFit(table', acts', sampled') /\ SlotsFit(table', rt')
  BY <1>1, <1>3 DEF FitInv, BuiltInv
<1> QED BY <1>5, <1>6 DEF FitInv

(* Every step keeps what fits.                                             *)
LEMMA FitStep ==
    ASSUME OwedInv, HonestInv, FitInv, [Next]_vars
    PROVE  FitInv'
<1>1. ASSUME UNCHANGED <<config, table, sampled, vals, acts, rt, req>> PROVE FitInv'
  BY <1>1 DEF FitInv, BuiltInv, CopyFits
<1>2. ASSUME NEW src \in Sources, Toggle(src) PROVE FitInv'
  BY <1>1, <1>2 DEF Toggle
<1>3. CASE Sample
  BY <1>3, SampleKeepsFit
<1>4. ASSUME NEW r \in ActionRefs, Perform(r) PROVE FitInv'
  BY <1>1, <1>4 DEF Perform
<1>5. ASSUME NEW r \in ActionRefs, NEW body \in Bodies, Post(r, body) PROVE FitInv'
  BY <1>5, PostKeepsFit
<1>6. CASE Record
  BY <1>6, RecordKeepsFit
<1>7. CASE CopySnapshot
  BY <1>7, CopyKeepsFit
<1>8. CASE Answer
  <2>1. UNCHANGED <<config, table, sampled, vals, acts, rt>> /\ ~(req'.on)
    BY <1>8 DEF Answer, NoCopy
  <2> QED BY <2>1 DEF FitInv, BuiltInv
<1>9. CASE UNCHANGED vars
  BY <1>1, <1>9 DEF vars
<1> QED BY <1>2, <1>3, <1>4, <1>5, <1>6, <1>7, <1>8, <1>9 DEF Next

(* Every envelope the device writes (write_envelope, serve_state_), for    *)
(* every accepted configuration, every history of its entities and every   *)
(* request, whole or narrowed to a path, is one portal_schema.py accepts,  *)
(* but for the cases Excused lists.                                        *)
THEOREM EnvelopeTheorem == Spec => []EnvelopeIsValid
<1>1. FitInv => EnvelopeIsValid
  <2> SUFFICES ASSUME FitInv, req.on, NEW env \in Envelopes
               PROVE  ValidateEnvelope(env) \subseteq Excused
    BY DEF EnvelopeIsValid
  <2>1. PICK path \in Paths, raws \in IF Elements = {} THEN {<<>>} ELSE Elements :
          env = WriteEnvelope(req, path, raws)
    BY DEF Envelopes
  <2>2. ValidateEnvelope(WriteEnvelope(req, path, raws)) \subseteq Excused
    BY EnvelopePasses DEF FitInv
  <2> QED BY <2>1, <2>2
<1>2. Init => FitInv /\ HonestInv /\ OwedInv
  BY InitFits, InitHonest, InitOwed
<1>3. FitInv /\ HonestInv /\ OwedInv /\ [Next]_vars => FitInv' /\ HonestInv' /\ OwedInv'
  BY FitStep, HonestStep, OwedStep
<1> QED BY <1>1, <1>2, <1>3, PTL DEF Spec
=============================================================================
