--------------------------- MODULE ServicesProofs ---------------------------
(***************************************************************************)
(* The services that run for ever, for any number of requests, uploads,    *)
(* devices and files: the relay in Home Assistant sends one request at a   *)
(* time and tells its clients the truth, the firmware it offers is         *)
(* complete, the publisher says what it found, and the decoder's markers   *)
(* vouch for rows that are loaded.                                         *)
(***************************************************************************)
EXTENDS Relay, FirmwareStore, Publish, Loader, SequenceTheorems, FiniteSetTheorems, TLAPS

-----------------------------------------------------------------------------
(* The element at position k removed from a sequence.                      *)
LEMMA RemovePosition ==
  ASSUME NEW S, NEW s \in Seq(S), NEW k \in 1..Len(s),
         NEW t, t = SubSeq(s, 1, k - 1) \o SubSeq(s, k + 1, Len(s))
  PROVE  /\ t \in Seq(S) /\ Len(t) = Len(s) - 1
         /\ \A j \in 1..(Len(s) - 1) : t[j] = IF j < k THEN s[j] ELSE s[j + 1]
<1> DEFINE a == SubSeq(s, 1, k - 1)
           b == SubSeq(s, k + 1, Len(s))
<1>0. Len(s) \in Nat /\ k \in Nat /\ 1 <= k /\ k <= Len(s)
  OBVIOUS
<1>1. /\ a \in Seq(S) /\ Len(a) = k - 1 /\ \A j \in 1..(k - 1) : a[j] = s[j]
  <2>1. \A j \in 1..(k - 1) : j \in 1..Len(s)
    BY <1>0
  <2> QED BY <1>0, <2>1, SubSeqProperties
<1>2. /\ b \in Seq(S) /\ Len(b) = Len(s) - k /\ \A j \in 1..(Len(s) - k) : b[j] = s[k + j]
  <2>1. \A j \in (k + 1)..Len(s) : j \in 1..Len(s)
    BY <1>0
  <2>2. b \in Seq(S)
    BY <1>0, <2>1, SubSeqProperties
  <2>3. Len(b) = Len(s) - k
    BY <1>0
  <2>4. ASSUME NEW j \in 1..(Len(s) - k) PROVE b[j] = s[k + j]
    BY <1>0, <2>4
  <2> QED BY <2>2, <2>3, <2>4
<1> HIDE DEF a, b
<1>3. t = a \o b
  BY DEF a, b
<1>4. /\ t \in Seq(S) /\ Len(t) = Len(a) + Len(b)
      /\ \A j \in 1..(Len(a) + Len(b)) : t[j] = IF j <= Len(a) THEN a[j] ELSE b[j - Len(a)]
  <2>1. a \in Seq(S) /\ b \in Seq(S)
    BY <1>1, <1>2
  <2>2. /\ a \o b \in Seq(S) /\ Len(a \o b) = Len(a) + Len(b)
        /\ \A j \in 1..(Len(a) + Len(b)) : (a \o b)[j] = IF j <= Len(a) THEN a[j] ELSE b[j - Len(a)]
    BY <2>1, ConcatProperties
  <2> QED BY <1>3, <2>2, Zenon
<1>5. Len(a) + Len(b) = Len(s) - 1
  BY <1>0, <1>1, <1>2
<1>6. ASSUME NEW j \in 1..(Len(s) - 1)
      PROVE  t[j] = IF j < k THEN s[j] ELSE s[j + 1]
  <2>0. t[j] = IF j <= Len(a) THEN a[j] ELSE b[j - Len(a)]
    BY <1>4, <1>5, Zenon
  <2>1. CASE j < k
    <3>1. j <= Len(a) /\ j \in 1..(k - 1)
      BY <1>0, <1>1, <2>1
    <3> QED BY <1>1, <2>0, <2>1, <3>1, Zenon
  <2>2. CASE ~(j < k)
    <3>1. j - (k - 1) \in 1..(Len(s) - k) /\ k + (j - (k - 1)) = j + 1 /\ ~(j <= Len(a))
      BY <1>0, <1>1, <2>2
    <3> QED BY <1>1, <1>2, <2>0, <2>2, <3>1, Zenon
  <2> QED BY <2>1, <2>2
<1> QED BY <1>4, <1>5, <1>6

(* A set of naturals that is not empty has a least element: of the sets    *)
(* {g \in S : g <= f}, one does not contain another.                       *)
LEMMA LeastNatural ==
  ASSUME NEW S \in SUBSET Nat, S # {} PROVE \E f \in S : \A g \in S : f <= g
<1> DEFINE Below(f) == {g \in S : g <= f}
           T == {Below(f) : f \in S}
           Order == StrictSubsetOrdering(S)
<1>1. ASSUME NEW f \in S PROVE Below(f) \in FiniteSubsetsOf(S)
  <2>0. \A g \in S : g \in Nat
    OBVIOUS
  <2>1. IsFiniteSet(0..f) /\ Below(f) \subseteq 0..f
    <3>1. IsFiniteSet(0..f)
      BY <2>0, FS_Interval
    <3>2. ASSUME NEW g \in S, g <= f PROVE g \in 0..f
      BY <2>0, <3>2
    <3> QED BY <3>1, <3>2
  <2> QED BY <2>1, FS_Subset DEF FiniteSubsetsOf
<1>2. T \subseteq FiniteSubsetsOf(S) /\ T # {}
  BY <1>1
<1> HIDE DEF Below
<1>3. PICK b \in T : \A a \in T : ~(<<a, b>> \in Order)
  <2> HIDE DEF T, Order
  <2>1. IsWellFoundedOn(Order, FiniteSubsetsOf(S))
    BY FS_StrictSubsetOrderingWellFounded DEF Order
  <2> QED BY <1>2, <2>1, WFMin
<1>4. PICK f \in S : b = Below(f)
  BY <1>3
<1>5. ASSUME NEW g \in S PROVE f <= g
  <2> SUFFICES ASSUME g < f PROVE FALSE
    BY <1>5
  <2>0. \A h \in S : h \in Nat
    OBVIOUS
  <2>1. Below(g) \subseteq Below(f) /\ f \in Below(f) /\ f \notin Below(g)
    <3>1. ASSUME NEW h \in S, h <= g PROVE h <= f
      BY <1>5, <2>0, <3>1
    <3>2. f <= f /\ ~(f <= g)
      BY <1>5, <2>0
    <3> QED BY <3>1, <3>2 DEF Below
  <2>2. Below(g) \in SUBSET S /\ Below(f) \in SUBSET S
    BY DEF Below
  <2>3. <<Below(g), Below(f)>> \in Order
    BY <2>1, <2>2 DEF StrictSubsetOrdering
  <2> QED BY <1>3, <1>4, <1>5, <2>3
<1> QED BY <1>5

-----------------------------------------------------------------------------
(* Relay.  One request: what it was promised is what it got and what the   *)
(* logger still has, and the way it was closed fits that.                  *)
Pcs == {"new", "turn", "upstream", "body", "done"}
Answers == {None, 400, 404, 405, 502, 503} \cup PassedOn
Closes == {None, "complete", "cut", "gone"}

Request ==
  [pc : Pcs, host : Hosts \cup {None}, answer : Answers,
   promised : Nat, got : Nat, left : Nat, close : Closes]

Sound(q) ==
  /\ q \in Request
  /\ q.got + q.left = q.promised
  /\ q.pc \in {"new", "turn", "upstream"} => q.promised = 0
  /\ q.pc = "done" /\ q.close = "complete" => q.left = 0
  /\ q.pc = "done" /\ q.close = "cut" => q.left > 0

(* The lock and its queue: no request is in them twice, every request that *)
(* waits is, and nobody waits for a lock that is free.                     *)
QueueInv ==
  /\ lock \in Reqs \cup {None}
  /\ waiters \in Seq(Reqs)
  /\ \A i, j \in 1..Len(waiters) : waiters[i] = waiters[j] => i = j
  /\ \A i \in 1..Len(waiters) : waiters[i] # lock /\ At(waiters[i], "turn")
  /\ \A r \in Reqs : At(r, "turn") => lock = r \/ \E i \in 1..Len(waiters) : waiters[i] = r
  /\ \A r \in Reqs : req[r].pc \in {"upstream", "body"} => lock = r
  /\ lock # None => req[lock].pc \in {"turn", "upstream", "body"}
  /\ lock = None => waiters = <<>>

RelayInv ==
  /\ target \in Hosts \cup {None}
  /\ req \in [Reqs -> Request] /\ \A r \in Reqs : Sound(req[r])
  /\ QueueInv

LEMMA RequestValues ==
  /\ "new" \in Pcs /\ "turn" \in Pcs /\ "upstream" \in Pcs /\ "body" \in Pcs /\ "done" \in Pcs
  /\ None \in Answers /\ {400, 404, 405, 502, 503} \subseteq Answers /\ PassedOn \subseteq Answers
  /\ None \in Closes /\ "complete" \in Closes /\ "cut" \in Closes /\ "gone" \in Closes
  /\ None \in Hosts \cup {None}
BY DEF Pcs, Answers, Closes

(* A request that ends before it was promised anything, and one that ends  *)
(* as it is.                                                               *)
LEMMA AnswerIsSound ==
  ASSUME NEW q, Sound(q), q.promised = 0, NEW s \in Answers, NEW t,
         t = [q EXCEPT !.pc = "done", !.answer = s, !.close = "complete"]
  PROVE  Sound(t) /\ t.pc = "done"
<1>1. "done" \in Pcs /\ "complete" \in Closes /\ q \in Request
  BY RequestValues DEF Sound
<1>2. /\ t \in Request /\ t.pc = "done" /\ t.close = "complete"
      /\ t.got = q.got /\ t.left = q.left /\ t.promised = q.promised
      /\ q.got \in Nat /\ q.left \in Nat
  BY <1>1 DEF Request
<1>3. t.left = 0
  BY <1>2 DEF Sound
<1> QED BY <1>2, <1>3 DEF Sound

LEMMA AnswerEnds ==
  ASSUME NEW r \in Reqs, Sound(req[r]), req[r].promised = 0, NEW s \in Answers
  PROVE  Sound(Answer(r, s)) /\ Answer(r, s).pc = "done"
<1> DEFINE o == req[r]
           t == Answer(r, s)
<1>1. Sound(o) /\ o.promised = 0 /\ t = [o EXCEPT !.pc = "done", !.answer = s, !.close = "complete"]
  BY DEF Answer
<1> HIDE DEF o, t
<1>2. Sound(t) /\ t.pc = "done"
  BY <1>1, AnswerIsSound
<1> QED BY <1>2 DEF t

LEMMA EndIsSound ==
  ASSUME NEW q, Sound(q), NEW c \in {"complete", "cut", "gone"}, NEW t,
         t = [q EXCEPT !.pc = "done", !.close = c],
         c = "complete" => q.left = 0, c = "cut" => q.left > 0
  PROVE  Sound(t) /\ t.pc = "done"
<1>1. c \in Closes /\ "done" \in Pcs
  BY RequestValues
<1>2. /\ t \in Request /\ t.pc = "done" /\ t.close = c
      /\ t.got = q.got /\ t.left = q.left /\ t.promised = q.promised
  BY <1>1 DEF Sound, Request
<1> QED BY <1>2 DEF Sound

LEMMA InitRelay == RelayInit => RelayInv
<1> SUFFICES ASSUME RelayInit PROVE RelayInv
  OBVIOUS
<1>1. New \in Request /\ Sound(New)
  BY RequestValues DEF New, Request, Sound
<1>2. req \in [Reqs -> Request] /\ \A r \in Reqs : req[r] = New /\ New.pc = "new"
  BY <1>1 DEF RelayInit, New
<1>3. QueueInv
  BY <1>2, RelayAssumption DEF RelayInit, QueueInv, At
<1> QED BY <1>1, <1>2, <1>3 DEF RelayInit, RelayInv

(* The request that holds the lock goes on and keeps it.                   *)
LEMMA HolderGoesOn ==
  ASSUME RelayInv, NEW r \in Reqs, NEW q, lock = r, Sound(q), q.pc \in {"turn", "upstream", "body"},
         Set(r, q), UNCHANGED <<target, lock, waiters>>
  PROVE  RelayInv'
<1>1. /\ req' \in [Reqs -> Request] /\ req'[r] = q
      /\ \A p \in Reqs \ {r} : req'[p] = req[p]
      /\ \A p \in Reqs : Sound(req'[p])
  BY DEF RelayInv, Set, Sound
<1>2. \A i \in 1..Len(waiters) : waiters[i] \in Reqs \ {r}
  BY DEF RelayInv, QueueInv
<1>3. QueueInv'
  BY <1>1, <1>2, RelayAssumption DEF RelayInv, QueueInv, At
<1> QED BY <1>1, <1>3 DEF RelayInv

(* It ends and releases the lock to the first that waits.                  *)
LEMMA HolderEnds ==
  ASSUME RelayInv, NEW r \in Reqs, NEW q, lock = r, Sound(q), q.pc = "done",
         Set(r, q), Release, UNCHANGED target
  PROVE  RelayInv'
<1>0. /\ req' \in [Reqs -> Request] /\ req'[r] = q
      /\ \A p \in Reqs \ {r} : req'[p] = req[p]
      /\ \A p \in Reqs : Sound(req'[p])
  BY DEF RelayInv, Set, Sound
<1>1. /\ \A i \in 1..Len(waiters) : waiters[i] \in Reqs \ {r} /\ At(waiters[i], "turn")
      /\ waiters \in Seq(Reqs) /\ Len(waiters) \in Nat
      /\ \A p \in Reqs \ {r} : req[p].pc \notin {"upstream", "body"}
      /\ \A p \in Reqs \ {r} : At(p, "turn") => \E i \in 1..Len(waiters) : waiters[i] = p
  BY DEF RelayInv, QueueInv
<1>2. CASE waiters = <<>>
  <2>1. lock' = None /\ waiters' = <<>>
    BY <1>2 DEF Release
  <2>2. QueueInv'
    BY <1>0, <1>1, <1>2, <2>1, RelayAssumption DEF QueueInv, At
  <2> QED BY <1>0, <2>2 DEF RelayInv
<1>3. CASE waiters # <<>>
  <2>1. lock' = waiters[1] /\ waiters' = Tail(waiters) /\ 1 \in 1..Len(waiters)
    BY <1>1, <1>3 DEF Release
  <2>2. /\ waiters' \in Seq(Reqs) /\ Len(waiters') = Len(waiters) - 1
        /\ \A i \in 1..(Len(waiters) - 1) : waiters'[i] = waiters[i + 1] /\ i + 1 \in 1..Len(waiters)
    BY <1>1, <1>3, <2>1
  <2>3. \A i \in 1..Len(waiters) : i # 1 => i - 1 \in 1..Len(waiters') /\ waiters'[i - 1] = waiters[i]
    <3>1. \A i \in 1..Len(waiters) : i # 1 => i - 1 \in 1..(Len(waiters) - 1) /\ (i - 1) + 1 = i
      BY <1>1
    <3> QED BY <2>2, <3>1
  <2>4. \A i, j \in 1..Len(waiters) : waiters[i] = waiters[j] => i = j
    BY DEF RelayInv, QueueInv
  <2>5. \A i, j \in 1..Len(waiters') : waiters'[i] = waiters'[j] => i = j
    <3> SUFFICES ASSUME NEW i \in 1..Len(waiters'), NEW j \in 1..Len(waiters'), waiters'[i] = waiters'[j]
                 PROVE  i = j
      OBVIOUS
    <3>1. /\ waiters[i + 1] = waiters[j + 1] /\ i + 1 \in 1..Len(waiters) /\ j + 1 \in 1..Len(waiters)
          /\ i \in Int /\ j \in Int
      BY <1>1, <2>2
    <3>2. i + 1 = j + 1
      BY <2>4, <3>1
    <3> QED BY <3>1, <3>2
  <2>6. \A i \in 1..Len(waiters') : waiters'[i] # lock' /\ req'[waiters'[i]].pc = "turn"
    <3> SUFFICES ASSUME NEW i \in 1..Len(waiters') PROVE waiters'[i] # lock' /\ req'[waiters'[i]].pc = "turn"
      OBVIOUS
    <3>1. waiters'[i] = waiters[i + 1] /\ i + 1 \in 1..Len(waiters) /\ i + 1 # 1
      BY <1>1, <2>2
    <3> QED BY <1>0, <1>1, <2>1, <2>4, <3>1 DEF At
  <2>7. \A p \in Reqs : At(p, "turn")' => lock' = p \/ \E i \in 1..Len(waiters') : waiters'[i] = p
    <3> SUFFICES ASSUME NEW p \in Reqs, At(p, "turn")', lock' # p
                 PROVE  \E i \in 1..Len(waiters') : waiters'[i] = p
      OBVIOUS
    <3>1. p # r /\ At(p, "turn")
      BY <1>0 DEF At
    <3>2. PICK i \in 1..Len(waiters) : waiters[i] = p
      BY <1>1, <3>1
    <3>3. i # 1
      BY <2>1, <3>2
    <3> QED BY <2>3, <3>2, <3>3
  <2>8. lock' \in Reqs \ {r} /\ req'[lock'].pc = "turn"
    BY <1>0, <1>1, <2>1 DEF At
  <2>9. QueueInv'
    BY <1>0, <1>1, <2>2, <2>5, <2>6, <2>7, <2>8, RelayAssumption DEF QueueInv, At
  <2> QED BY <1>0, <2>9 DEF RelayInv
<1> QED BY <1>2, <1>3

(* A request that waits gives up: it leaves the queue, nobody else moves.  *)
LEMMA WaiterEnds ==
  ASSUME RelayInv, NEW r \in Reqs, NEW q, At(r, "turn"), lock # r, Sound(q), q.pc = "done",
         Set(r, q), waiters' = Without(waiters, r), UNCHANGED <<target, lock>>
  PROVE  RelayInv'
<1>0. /\ req' \in [Reqs -> Request] /\ req'[r] = q
      /\ \A p \in Reqs \ {r} : req'[p] = req[p]
      /\ \A p \in Reqs : Sound(req'[p])
      /\ waiters \in Seq(Reqs) /\ Len(waiters) \in Nat
      /\ \A i, j \in 1..Len(waiters) : waiters[i] = waiters[j] => i = j
  BY DEF RelayInv, QueueInv, Set, Sound
<1> DEFINE k == CHOOSE i \in 1..Len(waiters) : waiters[i] = r
<1>1. k \in 1..Len(waiters) /\ waiters[k] = r
  <2>1. \E i \in 1..Len(waiters) : waiters[i] = r
    BY DEF RelayInv, QueueInv
  <2> QED BY <2>1
<1>2. waiters' = SubSeq(waiters, 1, k - 1) \o SubSeq(waiters, k + 1, Len(waiters))
  BY DEF Without
<1> HIDE DEF k
<1>3. /\ waiters' \in Seq(Reqs) /\ Len(waiters') = Len(waiters) - 1
      /\ \A j \in 1..(Len(waiters) - 1) : waiters'[j] = IF j < k THEN waiters[j] ELSE waiters[j + 1]
  <2>1. waiters \in Seq(Reqs)
    BY <1>0
  <2> QED BY <1>1, <1>2, <2>1, RemovePosition, Zenon
(* Position j of the new queue was position Old(j) of the old one.         *)
<1> DEFINE Old(j) == IF j < k THEN j ELSE j + 1
<1>4. /\ \A j \in 1..Len(waiters') : /\ waiters'[j] = waiters[Old(j)]
                                     /\ Old(j) \in 1..Len(waiters) /\ Old(j) # k
      /\ \A i, j \in 1..Len(waiters') : Old(i) = Old(j) => i = j
      /\ \A i \in 1..Len(waiters) : i # k => \E j \in 1..Len(waiters') : Old(j) = i
  <2>1. \A j \in 1..Len(waiters') : waiters'[j] = waiters[Old(j)] /\ Old(j) \in 1..Len(waiters) /\ Old(j) # k
    BY <1>0, <1>1, <1>3
  <2>2. \A i, j \in 1..Len(waiters') : Old(i) = Old(j) => i = j
    BY <1>0, <1>1, <1>3
  <2>3. ASSUME NEW i \in 1..Len(waiters), i # k PROVE \E j \in 1..Len(waiters') : Old(j) = i
    <3>1. CASE i < k
      BY <1>0, <1>1, <1>3, <2>3, <3>1
    <3>2. CASE i > k
      <4>1. i - 1 \in 1..Len(waiters') /\ Old(i - 1) = i
        BY <1>0, <1>1, <1>3, <2>3, <3>2
      <4> QED BY <4>1
    <3> QED BY <1>0, <1>1, <2>3, <3>1, <3>2
  <2> QED BY <2>1, <2>2, <2>3
<1> HIDE DEF Old
<1>5. \A i, j \in 1..Len(waiters') : waiters'[i] = waiters'[j] => i = j
  BY <1>0, <1>4
<1>6. \A i \in 1..Len(waiters') : waiters'[i] # lock' /\ req'[waiters'[i]].pc = "turn"
  <2> SUFFICES ASSUME NEW i \in 1..Len(waiters') PROVE waiters'[i] # lock' /\ req'[waiters'[i]].pc = "turn"
    OBVIOUS
  <2>1. waiters'[i] \in Reqs \ {r} /\ waiters'[i] # lock /\ At(waiters'[i], "turn")
    BY <1>0, <1>1, <1>4 DEF RelayInv, QueueInv
  <2> QED BY <1>0, <2>1 DEF At
<1>7. \A p \in Reqs : At(p, "turn")' => lock' = p \/ \E i \in 1..Len(waiters') : waiters'[i] = p
  <2> SUFFICES ASSUME NEW p \in Reqs, At(p, "turn")', lock' # p
               PROVE  \E i \in 1..Len(waiters') : waiters'[i] = p
    OBVIOUS
  <2>1. p # r /\ At(p, "turn")
    BY <1>0 DEF At
  <2>2. PICK i \in 1..Len(waiters) : waiters[i] = p
    BY <2>1 DEF RelayInv, QueueInv
  <2>3. PICK j \in 1..Len(waiters') : Old(j) = i
    BY <1>1, <1>4, <2>1, <2>2
  <2> QED BY <1>4, <2>2, <2>3
<1>8. \A p \in Reqs : req'[p].pc \in {"upstream", "body"} => lock' = p
  BY <1>0 DEF RelayInv, QueueInv
<1>9. (lock' # None => req'[lock'].pc \in {"turn", "upstream", "body"}) /\ lock' # None
  <2>1. lock # None
    BY <1>1 DEF RelayInv, QueueInv
  <2> QED BY <1>0, <2>1 DEF RelayInv, QueueInv
<1>10. QueueInv'
  BY <1>3, <1>5, <1>6, <1>7, <1>8, <1>9 DEF RelayInv, QueueInv, At
<1> QED BY <1>0, <1>10 DEF RelayInv

(* A new request is turned away, or joins the queue or takes the lock.     *)
LEMMA ForwardKeeps ==
  ASSUME RelayInv, NEW r \in Reqs, Forward(r)
  PROVE  RelayInv'
<1>0. /\ At(r, "new") /\ req[r] \in Request /\ Sound(req[r]) /\ req[r].promised = 0
      /\ UNCHANGED target /\ target \in Hosts \cup {None} /\ req \in [Reqs -> Request]
      /\ waiters \in Seq(Reqs) /\ Len(waiters) \in Nat
      /\ lock # r /\ \A i \in 1..Len(waiters) : waiters[i] # r
  BY RelayAssumption DEF Forward, RelayInv, QueueInv, At, Sound
<1>1. ASSUME NEW s \in {400, 404, 405}, Set(r, Answer(r, s)), UNCHANGED <<lock, waiters>>
      PROVE  RelayInv'
  <2>1. Sound(Answer(r, s)) /\ Answer(r, s).pc = "done"
    BY <1>0, AnswerEnds, RequestValues
  <2>2. /\ req' \in [Reqs -> Request] /\ req'[r].pc = "done"
        /\ \A p \in Reqs \ {r} : req'[p] = req[p]
        /\ \A p \in Reqs : Sound(req'[p])
    BY <1>1, <2>1 DEF RelayInv, Set, Sound
  <2>3. QueueInv'
    BY <1>0, <1>1, <2>2 DEF RelayInv, QueueInv, At
  <2> QED BY <1>0, <2>2, <2>3 DEF RelayInv
<1>2. ASSUME Set(r, [req[r] EXCEPT !.pc = "turn", !.host = target]),
             IF lock = None THEN lock' = r /\ UNCHANGED waiters
             ELSE waiters' = Append(waiters, r) /\ UNCHANGED lock
      PROVE  RelayInv'
  <2> DEFINE q == [req[r] EXCEPT !.pc = "turn", !.host = target]
  <2>1. Sound(q) /\ q.pc = "turn"
    <3> DEFINE o == req[r]
    <3>1. Sound(o) /\ o.promised = 0 /\ q = [o EXCEPT !.pc = "turn", !.host = target]
      BY <1>0
    <3> HIDE DEF o, q
    <3>2. "turn" \in Pcs
      BY RequestValues
    <3>3. q \in Request /\ q.pc = "turn" /\ q.got = o.got /\ q.left = o.left /\ q.promised = o.promised
      BY <1>0, <3>1, <3>2 DEF Sound, Request
    <3> QED BY <3>1, <3>3 DEF Sound
  <2>2. req' = [req EXCEPT ![r] = q]
    BY <1>2 DEF Set
  <2> HIDE DEF q
  <2>3. /\ req' \in [Reqs -> Request] /\ req'[r].pc = "turn"
        /\ \A p \in Reqs \ {r} : req'[p] = req[p]
        /\ \A p \in Reqs : Sound(req'[p])
    BY <2>1, <2>2 DEF RelayInv, Sound
  <2>4. CASE lock = None
    <3>1. lock' = r /\ waiters = <<>> /\ waiters' = <<>>
      BY <1>2, <2>4 DEF RelayInv, QueueInv
    <3>2. QueueInv'
      BY <1>0, <2>3, <2>4, <3>1, RelayAssumption DEF RelayInv, QueueInv, At
    <3> QED BY <1>0, <2>3, <3>2 DEF RelayInv
  <2>5. CASE lock # None
    <3>1. waiters' = Append(waiters, r) /\ lock' = lock
      BY <1>2, <2>5
    <3>2. /\ waiters' \in Seq(Reqs) /\ Len(waiters') = Len(waiters) + 1 /\ waiters'[Len(waiters) + 1] = r
          /\ \A i \in 1..Len(waiters) : waiters'[i] = waiters[i]
          /\ 1..Len(waiters') = 1..Len(waiters) \cup {Len(waiters) + 1}
      BY <1>0, <3>1
    <3>3. \A i, j \in 1..Len(waiters') : waiters'[i] = waiters'[j] => i = j
      BY <1>0, <3>2 DEF RelayInv, QueueInv
    <3>4. \A i \in 1..Len(waiters') : waiters'[i] # lock' /\ req'[waiters'[i]].pc = "turn"
      <4>1. \A i \in 1..Len(waiters) : waiters[i] \in Reqs \ {r} /\ waiters[i] # lock /\ At(waiters[i], "turn")
        BY <1>0 DEF RelayInv, QueueInv
      <4> QED BY <1>0, <2>3, <3>1, <3>2, <4>1 DEF At
    <3>5. \A p \in Reqs : At(p, "turn")' => lock' = p \/ \E i \in 1..Len(waiters') : waiters'[i] = p
      <4> SUFFICES ASSUME NEW p \in Reqs, At(p, "turn")', lock' # p
                   PROVE  \E i \in 1..Len(waiters') : waiters'[i] = p
        OBVIOUS
      <4>1. CASE p = r
        BY <3>2, <4>1
      <4>2. CASE p # r
        <5>1. At(p, "turn")
          BY <2>3, <4>2 DEF At
        <5>2. PICK i \in 1..Len(waiters) : waiters[i] = p
          BY <3>1, <5>1 DEF RelayInv, QueueInv
        <5> QED BY <3>2, <5>2
      <4> QED BY <4>1, <4>2
    <3>6. QueueInv'
      <4>1. lock \in Reqs /\ lock # r /\ req[lock].pc \in {"turn", "upstream", "body"}
        BY <1>0, <2>5 DEF RelayInv, QueueInv
      <4>2. \A p \in Reqs : req'[p].pc \in {"upstream", "body"} => lock' = p
        BY <2>3, <3>1 DEF RelayInv, QueueInv
      <4> QED BY <2>3, <2>5, <3>1, <3>2, <3>3, <3>4, <3>5, <4>1, <4>2 DEF QueueInv, At
    <3> QED BY <1>0, <2>3, <3>6 DEF RelayInv
  <2> QED BY <2>4, <2>5
<1> QED BY <1>1, <1>2 DEF Forward

LEMMA StepRelay == RelayInv /\ [RelayNext]_relayVars => RelayInv'
<1> SUFFICES ASSUME RelayInv, [RelayNext]_relayVars PROVE RelayInv'
  OBVIOUS
<1>1. CASE Configure \/ UNCHANGED relayVars
  BY <1>1 DEF Configure, relayVars, RelayInv, QueueInv, At
<1>2. ASSUME NEW r \in Reqs, Forward(r) \/ Step(r) \/ ClientGone(r) PROVE RelayInv'
  <2>0. /\ Sound(req[r]) /\ req[r] \in Request /\ req \in [Reqs -> Request]
        /\ req[r].got + req[r].left = req[r].promised
        /\ req[r].pc \in {"new", "turn", "upstream"} => req[r].promised = 0
        /\ At(r, "upstream") \/ At(r, "body") => lock = r
    BY DEF RelayInv, QueueInv, Sound, At
  <2>1. CASE Forward(r)
    BY <2>1, ForwardKeeps
  <2>2. CASE Send(r)
    <3> DEFINE o == req[r]
               q == [req[r] EXCEPT !.pc = "upstream"]
    <3>1. Sound(o) /\ o.promised = 0 /\ q = [o EXCEPT !.pc = "upstream"]
      BY <2>0, <2>2 DEF Send, At
    <3> HIDE DEF o, q
    <3>2. Sound(q) /\ q.pc = "upstream"
      <4>1. "upstream" \in Pcs
        BY RequestValues
      <4>2. q \in Request /\ q.pc = "upstream" /\ q.got = o.got /\ q.left = o.left /\ q.promised = o.promised
        BY <3>1, <4>1 DEF Sound, Request
      <4> QED BY <3>1, <4>2 DEF Sound
    <3>3. lock = r /\ Set(r, q) /\ UNCHANGED <<target, lock, waiters>>
      BY <2>2 DEF Send, q
    <3> QED BY <3>2, <3>3, HolderGoesOn
  <2>3. ASSUME At(r, "upstream"), Set(r, Answer(r, 502)), Release, UNCHANGED target PROVE RelayInv'
    <3>1. Sound(Answer(r, 502)) /\ Answer(r, 502).pc = "done"
      BY <2>0, <2>3, AnswerEnds, RequestValues DEF At
    <3> QED BY <2>0, <2>3, <3>1, HolderEnds
  <2>4. ASSUME At(r, "upstream"), NEW s \in PassedOn, NEW n \in 0..Body,
               Set(r, [req[r] EXCEPT !.pc = "body", !.answer = s, !.promised = n, !.left = n]),
               UNCHANGED <<target, lock, waiters>>
        PROVE  RelayInv'
    <3> DEFINE o == req[r]
               q == [req[r] EXCEPT !.pc = "body", !.answer = s, !.promised = n, !.left = n]
    <3>0. Sound(o) /\ o.promised = 0 /\ n \in Nat /\ s \in Answers
          /\ q = [o EXCEPT !.pc = "body", !.answer = s, !.promised = n, !.left = n]
      BY <2>0, <2>4, RelayAssumption, RequestValues DEF At
    <3> HIDE DEF o
    <3>1. Sound(q) /\ q.pc = "body"
      <4> HIDE DEF q
      <4>1. "body" \in Pcs
        BY RequestValues
      <4>2. q \in Request /\ q.pc = "body" /\ q.got = o.got /\ q.left = n /\ q.promised = n
            /\ o.got \in Nat /\ o.left \in Nat
        BY <3>0, <4>1 DEF Sound, Request
      <4>3. o.got = 0
        BY <3>0, <4>2 DEF Sound
      <4> QED BY <3>0, <4>2, <4>3 DEF Sound
    <3> QED BY <2>0, <2>4, <3>1, HolderGoesOn
  <2>5. CASE Block(r)
    <3> DEFINE o == req[r]
               q == [req[r] EXCEPT !.left = @ - 1, !.got = @ + 1]
    <3>0. Sound(o) /\ o.pc = "body" /\ o.left > 0 /\ q = [o EXCEPT !.left = @ - 1, !.got = @ + 1]
      BY <2>0, <2>5 DEF Block, At
    <3> HIDE DEF o, q
    <3>1. Sound(q) /\ q.pc = "body"
      <4>0. o \in Request /\ o.got \in Nat /\ o.left \in Nat
        BY <3>0 DEF Sound, Request
      <4> DEFINE l == o.left - 1
                 g == o.got + 1
      <4>2. q = [o EXCEPT !.left = l, !.got = g] /\ l \in Nat /\ g \in Nat
        BY <3>0, <4>0
      <4> HIDE DEF l, g
      <4>3. q \in Request /\ q.pc = o.pc /\ q.got = g /\ q.left = l /\ q.promised = o.promised
        BY <4>0, <4>2 DEF Request
      <4>1. q \in Request /\ q.pc = "body" /\ q.got = o.got + 1 /\ q.left = o.left - 1 /\ q.promised = o.promised
            /\ o.got \in Nat /\ o.left \in Nat
        BY <3>0, <4>0, <4>3 DEF l, g
      <4> QED BY <3>0, <4>1 DEF Sound
    <3>2. Set(r, q) /\ UNCHANGED <<target, lock, waiters>> /\ lock = r
      BY <2>0, <2>5 DEF Block, q
    <3> QED BY <3>1, <3>2, HolderGoesOn
  <2>6. CASE WriteEof(r)
    <3> DEFINE q == [req[r] EXCEPT !.pc = "done", !.close = "complete"]
    <3>1. Sound(q) /\ q.pc = "done"
      <4>1. req[r].left = 0
        BY <2>6 DEF WriteEof
      <4> QED BY <2>0, <4>1, EndIsSound
    <3> QED BY <2>0, <2>6, <3>1, HolderEnds DEF WriteEof
  <2>7. CASE HangUp(r)
    <3> DEFINE q == [req[r] EXCEPT !.pc = "done", !.close = "cut"]
    <3>1. Sound(q) /\ q.pc = "done"
      <4>1. req[r].left > 0
        BY <2>7 DEF HangUp
      <4> QED BY <2>0, <4>1, EndIsSound
    <3> QED BY <2>0, <2>7, <3>1, HolderEnds DEF HangUp
  <2>8. CASE Busy(r)
    <3>1. Sound(Answer(r, 503)) /\ Answer(r, 503).pc = "done"
      BY <2>0, <2>8, AnswerEnds, RequestValues DEF Busy, At
    <3> QED BY <2>8, <3>1, WaiterEnds DEF Busy
  <2>9. CASE ClientGone(r)
    <3> DEFINE q == [req[r] EXCEPT !.pc = "done", !.close = "gone"]
    <3>1. Sound(q) /\ q.pc = "done"
      <4>1. req[r].pc \in {"turn", "upstream", "body"}
        BY <2>9 DEF ClientGone
      <4> QED BY <2>0, <4>1, EndIsSound
    <3>2. lock # r => At(r, "turn")
      BY <2>0, <2>9 DEF ClientGone, At
    <3> HIDE DEF q
    <3>3. Set(r, q) /\ UNCHANGED target
      BY <2>9 DEF ClientGone, q
    <3>4. CASE lock = r
      BY <2>9, <3>1, <3>3, <3>4, HolderEnds DEF ClientGone
    <3>5. CASE lock # r
      BY <2>9, <3>1, <3>2, <3>3, <3>5, WaiterEnds DEF ClientGone
    <3> QED BY <3>4, <3>5
  <2> QED
    BY <1>2, <2>1, <2>2, <2>3, <2>4, <2>5, <2>6, <2>7, <2>8, <2>9 DEF Step, Unreachable, Answered
<1> QED BY <1>1, <1>2 DEF RelayNext

(* However requests, timeouts, clients that leave and reconfigurations     *)
(* interleave: one request is at the logger, the lock goes to one that     *)
(* still wants it, and a client that is told its body is complete has all  *)
(* the bytes it was promised.                                              *)
THEOREM RelayTheorem == RelaySpec => []AnswersAreHonest
<1>1. RelayInv => AnswersAreHonest
  <2> SUFFICES ASSUME RelayInv PROVE AnswersAreHonest
    OBVIOUS
  <2>1. OneUpstream
    BY DEF RelayInv, QueueInv, OneUpstream
  <2>2. ASSUME NEW r \in Reqs, req[r].pc = "done"
        PROVE  /\ req[r].answer # 401
               /\ req[r].close = "complete" => req[r].got = req[r].promised
               /\ req[r].close = "cut" => req[r].got < req[r].promised
    <3>1. Sound(req[r]) /\ req[r] \in Request
      BY DEF RelayInv
    <3>2. req[r].answer \in Answers /\ req[r].got \in Nat /\ req[r].left \in Nat
      BY <3>1 DEF Request
    <3>3. req[r].answer # 401
      BY <3>2, RelayAssumption DEF Answers, PassedOn
    <3> QED BY <2>2, <3>1, <3>2, <3>3 DEF Sound
  <2> QED BY <2>1, <2>2 DEF AnswersAreHonest
<1> QED BY <1>1, InitRelay, StepRelay, PTL DEF RelaySpec

-----------------------------------------------------------------------------
(* FirmwareStore.  While uploads follow one another, the image that is     *)
(* being written is the newest; otherwise the manifest's binary is, and    *)
(* the manifest's before it is the newest of the rest: so the prune, which *)
(* keeps one binary beside its own, keeps that one.                        *)
FirmwareTypeOK ==
  /\ bin \in [Binaries -> Nat] /\ clock \in Nat
  /\ up \in [Uploads -> {"new", "manifest", "prune", "done", "failed"}]
  /\ manifest \in Binaries \cup {None} /\ previous \in Binaries \cup {None}
  /\ stranded \in BOOLEAN /\ raced \in BOOLEAN

(* The binaries whose manifest is still to be written.                     *)
Unnamed == {Image[u] : u \in {v \in Uploads : up[v] = "manifest"}}

OneAtATime == \A u, v \in Running : u = v

UploadInv ==
  \A u \in Uploads :
    /\ up[u] = "manifest" => bin[Image[u]] > 0 /\ \A b \in Binaries : bin[b] <= bin[Image[u]]
    /\ up[u] = "prune" => manifest = Image[u]

ManifestInv ==
  manifest # None =>
    /\ bin[manifest] > 0
    /\ ~stranded => \A b \in Binaries \ Unnamed : bin[b] <= bin[manifest]

PreviousInv ==
  previous # None /\ ~stranded =>
    /\ previous # manifest /\ bin[previous] > 0
    /\ \A b \in Binaries \ Unnamed : b # manifest => bin[b] <= bin[previous]

FirmwareInv ==
  /\ FirmwareTypeOK
  /\ \A b \in Binaries : bin[b] <= clock
  /\ ~raced => OneAtATime /\ UploadInv /\ ManifestInv /\ PreviousInv

LEMMA InitFirmware == FirmwareInit => FirmwareInv
<1> SUFFICES ASSUME FirmwareInit PROVE FirmwareInv
  OBVIOUS
<1> USE DEF FirmwareInit
<1>1. FirmwareTypeOK /\ \A b \in Binaries : bin[b] <= clock
  <2>1. bin \in [Binaries -> Nat] /\ clock \in Nat /\ \A b \in Binaries : bin[b] <= clock
    OBVIOUS
  <2>2. up \in [Uploads -> {"new", "manifest", "prune", "done", "failed"}]
    OBVIOUS
  <2> QED BY <2>1, <2>2 DEF FirmwareTypeOK
<1>2. OneAtATime /\ UploadInv
  BY DEF OneAtATime, UploadInv, Running
<1>3. ManifestInv /\ PreviousInv
  BY DEF ManifestInv, PreviousInv
<1> QED BY <1>1, <1>2, <1>3 DEF FirmwareInv

(* The binary is written: the newest of all, and not yet named.            *)
LEMMA PutBinaryKeeps ==
  ASSUME FirmwareInv, NEW u \in Uploads, PutBinary(u)
  PROVE  FirmwareInv'
<1>0. /\ FirmwareTypeOK /\ up[u] = "new" /\ Image[u] \in Binaries
      /\ UNCHANGED <<manifest, previous, stranded>>
  BY DEF FirmwareInv, PutBinary, Binaries
<1>1. CASE Goes(u, "failed") /\ UNCHANGED <<bin, clock, raced>>
  <2>1. /\ up' \in [Uploads -> {"new", "manifest", "prune", "done", "failed"}] /\ up'[u] = "failed"
        /\ \A v \in Uploads \ {u} : up'[v] = up[v]
    BY <1>0, <1>1 DEF Goes, FirmwareTypeOK
  <2>2. Unnamed' = Unnamed /\ Running' = Running
    BY <1>0, <2>1 DEF Unnamed, Running
  <2>3. FirmwareTypeOK'
    BY <1>0, <1>1, <2>1 DEF FirmwareTypeOK
  <2>4. UploadInv => UploadInv'
    BY <1>0, <1>1, <2>1 DEF UploadInv
  <2> QED BY <1>0, <1>1, <2>2, <2>3, <2>4 DEF FirmwareInv, OneAtATime, ManifestInv, PreviousInv
<1>2. CASE /\ bin' = [bin EXCEPT ![Image[u]] = clock + 1] /\ clock' = clock + 1
           /\ Goes(u, "manifest") /\ raced' = (raced \/ Running # {})
  <2>1. /\ up' \in [Uploads -> {"new", "manifest", "prune", "done", "failed"}] /\ up'[u] = "manifest"
        /\ \A v \in Uploads \ {u} : up'[v] = up[v]
    BY <1>0, <1>2 DEF Goes, FirmwareTypeOK
  <2>2. /\ bin' \in [Binaries -> Nat] /\ clock' \in Nat /\ bin'[Image[u]] = clock + 1
        /\ \A b \in Binaries : b # Image[u] => bin'[b] = bin[b]
        /\ \A b \in Binaries : bin[b] \in Nat /\ bin[b] <= clock /\ bin[b] <= bin'[b] /\ bin'[b] <= clock + 1
    BY <1>0, <1>2 DEF FirmwareTypeOK, FirmwareInv
  <2>3. FirmwareTypeOK'
    BY <1>0, <1>2, <2>1, <2>2 DEF FirmwareTypeOK
  <2>4. ASSUME ~raced' PROVE OneAtATime' /\ UploadInv' /\ ManifestInv' /\ PreviousInv'
    <3>1. ~raced /\ Running = {} /\ \A v \in Uploads : up[v] \notin {"manifest", "prune"}
      BY <1>2, <2>4 DEF Running
    <3>2. Running' = {u} /\ Unnamed' = {Image[u]} /\ Unnamed = {}
      BY <2>1, <3>1 DEF Running, Unnamed
    <3>3. OneAtATime'
      BY <3>2 DEF OneAtATime
    <3>4. UploadInv'
      <4> SUFFICES ASSUME NEW v \in Uploads
                   PROVE  /\ up'[v] = "manifest" => /\ bin'[Image[v]] > 0
                                                    /\ \A b \in Binaries : bin'[b] <= bin'[Image[v]]
                          /\ up'[v] = "prune" => manifest' = Image[v]
        BY DEF UploadInv, Binaries
      <4>1. CASE v = u
        BY <1>0, <2>1, <2>2, <4>1 DEF FirmwareTypeOK
      <4>2. CASE v # u
        BY <2>1, <3>1, <4>2
      <4> QED BY <4>1, <4>2
    <3>5. ManifestInv'
      <4>0. manifest' = manifest /\ stranded' = stranded /\ ManifestInv /\ manifest \in Binaries \cup {None}
        BY <1>0, <3>1 DEF FirmwareInv, FirmwareTypeOK
      <4>1. ASSUME manifest # None, ~stranded, NEW b \in Binaries, b # Image[u]
            PROVE  bin'[b] <= bin'[manifest]
        <5>1. bin[b] <= bin[manifest] /\ manifest \in Binaries
          BY <3>2, <4>0, <4>1 DEF ManifestInv
        <5>2. bin'[b] = bin[b] /\ bin[manifest] <= bin'[manifest] /\ bin'[manifest] \in Nat
              /\ bin[b] \in Nat /\ bin[manifest] \in Nat
          BY <2>2, <4>1, <5>1
        <5> QED BY <5>1, <5>2
      <4>2. manifest # None => bin'[manifest] > 0
        <5>1. manifest # None => bin[manifest] > 0 /\ manifest \in Binaries
          BY <4>0 DEF ManifestInv
        <5>2. manifest # None => bin[manifest] <= bin'[manifest] /\ bin'[manifest] \in Nat /\ bin[manifest] \in Nat
          BY <2>2, <5>1
        <5> QED BY <5>1, <5>2
      <4> QED BY <3>2, <4>0, <4>1, <4>2 DEF ManifestInv, Binaries
    <3>6. PreviousInv'
      <4>0. /\ UNCHANGED <<manifest, previous, stranded>> /\ PreviousInv
            /\ previous \in Binaries \cup {None}
        BY <1>0, <3>1 DEF FirmwareInv, FirmwareTypeOK
      <4>1. ASSUME previous # None, ~stranded
            PROVE  /\ previous # manifest /\ bin'[previous] > 0
                   /\ \A b \in Binaries : b # Image[u] /\ b # manifest => bin'[b] <= bin'[previous]
        <5>1. /\ previous \in Binaries /\ previous # manifest /\ bin[previous] > 0
              /\ \A b \in Binaries : b # manifest => bin[b] <= bin[previous]
          BY <3>2, <4>0, <4>1 DEF PreviousInv
        <5>2. bin[previous] <= bin'[previous] /\ bin'[previous] \in Nat /\ bin[previous] \in Nat
          BY <2>2, <5>1
        <5> QED BY <2>2, <5>1, <5>2
      <4> QED BY <3>2, <4>0, <4>1 DEF PreviousInv, Binaries
    <3> QED BY <3>3, <3>4, <3>5, <3>6
  <2> QED BY <1>2, <2>2, <2>3, <2>4 DEF FirmwareInv, Binaries
<1> QED BY <1>1, <1>2 DEF PutBinary

(* The manifest names the newest binary, and the one it named is now the   *)
(* newest of the others.                                                   *)
LEMMA PutManifestKeeps ==
  ASSUME FirmwareInv, NEW u \in Uploads, PutManifest(u)
  PROVE  FirmwareInv'
<1>0. /\ FirmwareTypeOK /\ up[u] = "manifest" /\ Image[u] \in Binaries
      /\ manifest' = Image[u] /\ previous' = IF manifest = Image[u] THEN previous ELSE manifest
      /\ UNCHANGED <<bin, clock, stranded, raced>>
  BY DEF FirmwareInv, PutManifest, Binaries
<1>1. /\ up' \in [Uploads -> {"new", "manifest", "prune", "done", "failed"}] /\ up'[u] = "prune"
      /\ \A v \in Uploads \ {u} : up'[v] = up[v]
  BY <1>0 DEF PutManifest, Goes, FirmwareTypeOK
<1>2. FirmwareTypeOK'
  BY <1>0, <1>1 DEF FirmwareTypeOK
<1>3. ASSUME ~raced PROVE OneAtATime' /\ UploadInv' /\ ManifestInv' /\ PreviousInv'
  <2>0. /\ OneAtATime /\ UploadInv /\ ManifestInv /\ PreviousInv
        /\ bin[Image[u]] > 0 /\ \A b \in Binaries : bin[b] <= bin[Image[u]]
    BY <1>0, <1>3 DEF FirmwareInv, UploadInv
  <2>1. Running = {u} /\ Running' = {u} /\ Unnamed = {Image[u]} /\ Unnamed' = {}
        /\ \A v \in Uploads \ {u} : up[v] \notin {"manifest", "prune"}
    <3>1. Running = {u}
      BY <1>0, <2>0 DEF OneAtATime, Running
    <3> QED BY <1>0, <1>1, <3>1 DEF Running, Unnamed
  <2>2. OneAtATime'
    BY <2>1 DEF OneAtATime
  <2>3. UploadInv'
    BY <1>0, <1>1, <2>1 DEF UploadInv
  <2>4. ManifestInv'
    BY <1>0, <2>0 DEF ManifestInv, Binaries
  <2>5. PreviousInv'
    <3> SUFFICES ASSUME previous' # None, ~stranded
                 PROVE  /\ previous' # Image[u] /\ bin[previous'] > 0
                        /\ \A b \in Binaries : b # Image[u] => bin[b] <= bin[previous']
      BY <1>0, <2>1 DEF PreviousInv, Binaries
    <3>1. CASE manifest = Image[u]
      BY <1>0, <2>0, <2>1, <3>1 DEF PreviousInv
    <3>2. CASE manifest # Image[u]
      BY <1>0, <2>0, <2>1, <3>2 DEF ManifestInv
    <3> QED BY <3>1, <3>2
  <2> QED BY <2>2, <2>3, <2>4, <2>5
<1> QED BY <1>0, <1>2, <1>3 DEF FirmwareInv, Binaries

(* An upload that dies strands its binary if the manifest was still to     *)
(* come, and changes nothing if not.                                       *)
LEMMA PutFailsKeeps ==
  ASSUME FirmwareInv, NEW u \in Uploads, PutFails(u)
  PROVE  FirmwareInv'
<1>0. /\ FirmwareTypeOK /\ up[u] \in {"manifest", "prune"}
      /\ stranded' = (stranded \/ up[u] = "manifest")
      /\ UNCHANGED <<bin, manifest, previous, clock, raced>>
  BY DEF FirmwareInv, PutFails
<1>1. /\ up' \in [Uploads -> {"new", "manifest", "prune", "done", "failed"}] /\ up'[u] = "failed"
      /\ \A v \in Uploads \ {u} : up'[v] = up[v]
  BY <1>0 DEF PutFails, Goes, FirmwareTypeOK
<1>2. FirmwareTypeOK'
  BY <1>0, <1>1 DEF FirmwareTypeOK
<1>3. ASSUME ~raced PROVE OneAtATime' /\ UploadInv' /\ ManifestInv' /\ PreviousInv'
  <2>0. OneAtATime /\ UploadInv /\ ManifestInv /\ PreviousInv
    BY <1>3 DEF FirmwareInv
  <2>1. Running' \subseteq Running /\ (~stranded' => Unnamed' = Unnamed)
    BY <1>0, <1>1 DEF Running, Unnamed
  <2>2. OneAtATime'
    BY <2>0, <2>1 DEF OneAtATime
  <2>3. UploadInv'
    BY <1>0, <1>1, <2>0 DEF UploadInv, Binaries
  <2>4. ManifestInv' /\ PreviousInv'
    BY <1>0, <2>0, <2>1 DEF ManifestInv, PreviousInv, Binaries
  <2> QED BY <2>2, <2>3, <2>4
<1> QED BY <1>0, <1>2, <1>3 DEF FirmwareInv, Binaries

(* The prune keeps its own binary and the newest of the others.            *)
LEMMA PruneKeeps ==
  ASSUME FirmwareInv, NEW u \in Uploads, Prune(u)
  PROVE  FirmwareInv'
<1>0. /\ FirmwareTypeOK /\ up[u] = "prune"
      /\ bin' = [b \in Binaries |->
                  IF b # Image[u] /\ Cardinality(Newer(b, u)) >= KEEP_BINARIES - 1 THEN 0 ELSE bin[b]]
      /\ UNCHANGED <<manifest, previous, clock, stranded, raced>>
  BY DEF FirmwareInv, Prune
<1>1. /\ up' \in [Uploads -> {"new", "manifest", "prune", "done", "failed"}] /\ up'[u] = "done"
      /\ \A v \in Uploads \ {u} : up'[v] = up[v]
  BY <1>0 DEF Prune, Goes, FirmwareTypeOK
<1>2. /\ bin' \in [Binaries -> Nat]
      /\ \A b \in Binaries : bin[b] \in Nat /\ bin'[b] \in {0, bin[b]} /\ bin'[b] <= bin[b]
      /\ \A b \in Binaries : b = Image[u] \/ Newer(b, u) = {} => bin'[b] = bin[b]
  <2>1. \A b \in Binaries : bin'[b] = bin[b] \/ bin'[b] = 0
    BY <1>0
  <2>2. ASSUME NEW b \in Binaries, b = Image[u] \/ Newer(b, u) = {} PROVE bin'[b] = bin[b]
    <3>1. Newer(b, u) = {} => Cardinality(Newer(b, u)) = 0
      BY FS_EmptySet
    <3>2. ~(b # Image[u] /\ Cardinality(Newer(b, u)) >= KEEP_BINARIES - 1)
      BY <2>2, <3>1 DEF KEEP_BINARIES
    <3> QED BY <1>0, <3>2
  <2>3. \A b \in Binaries : bin[b] \in Nat
    BY <1>0 DEF FirmwareTypeOK
  <2> QED BY <1>0, <2>1, <2>2, <2>3
<1>3. FirmwareTypeOK'
  BY <1>0, <1>1, <1>2 DEF FirmwareTypeOK, Binaries
<1>4. \A b \in Binaries : bin'[b] <= clock'
  BY <1>0, <1>2 DEF FirmwareInv, FirmwareTypeOK
<1>5. ASSUME ~raced PROVE OneAtATime' /\ UploadInv' /\ ManifestInv' /\ PreviousInv'
  <2>0. /\ OneAtATime /\ UploadInv /\ ManifestInv /\ PreviousInv
        /\ manifest = Image[u] /\ Image[u] \in Binaries
    BY <1>0, <1>5 DEF FirmwareInv, UploadInv, Binaries
  <2>1. Running = {u} /\ Running' = {} /\ Unnamed = {} /\ Unnamed' = {}
    <3>1. Running = {u}
      BY <1>0, <2>0 DEF OneAtATime, Running
    <3>2. \A v \in Uploads \ {u} : up[v] \notin {"manifest", "prune"}
      BY <3>1 DEF Running
    <3> QED BY <1>0, <1>1, <3>1, <3>2 DEF Running, Unnamed
  <2>2. OneAtATime'
    BY <2>1 DEF OneAtATime
  <2>3. UploadInv'
    <3>1. \A v \in Uploads : up'[v] \notin {"manifest", "prune"}
      BY <2>1 DEF Running
    <3> QED BY <3>1 DEF UploadInv
  <2>4. ManifestInv'
    <3>1. bin'[manifest] = bin[manifest]
      BY <1>2, <2>0
    <3>2. ASSUME ~stranded, manifest # None, NEW b \in Binaries PROVE bin'[b] <= bin'[manifest]
      <4>1. bin[b] <= bin[manifest]
        BY <2>0, <2>1, <3>2 DEF ManifestInv
      <4> QED BY <1>2, <2>0, <3>1, <4>1
    <3> QED BY <1>0, <2>0, <3>1, <3>2 DEF ManifestInv, Binaries
  <2>5. PreviousInv'
    <3> SUFFICES ASSUME previous # None, ~stranded
                 PROVE  /\ previous # manifest /\ bin'[previous] > 0
                        /\ \A b \in Binaries : b # manifest => bin'[b] <= bin'[previous]
      BY <1>0 DEF PreviousInv, Binaries
    <3>1. /\ previous \in Binaries /\ previous # manifest /\ bin[previous] > 0
          /\ \A b \in Binaries : b # manifest => bin[b] <= bin[previous]
      BY <1>0, <2>0, <2>1 DEF PreviousInv, FirmwareTypeOK
    <3>2. Newer(previous, u) = {}
      <4>1. \A x \in Binaries \ {Image[u]} : ~(bin[x] > bin[previous])
        BY <1>2, <2>0, <3>1
      <4> QED BY <4>1 DEF Newer
    <3>3. bin'[previous] = bin[previous]
      BY <1>2, <3>1, <3>2
    <3> QED BY <1>2, <3>1, <3>3
  <2> QED BY <2>2, <2>3, <2>4, <2>5
<1> QED BY <1>0, <1>3, <1>4, <1>5 DEF FirmwareInv, Binaries

LEMMA StepFirmware == FirmwareInv /\ [FirmwareNext]_firmwareVars => FirmwareInv'
<1> SUFFICES ASSUME FirmwareInv, [FirmwareNext]_firmwareVars PROVE FirmwareInv'
  OBVIOUS
<1>1. CASE UNCHANGED firmwareVars
  BY <1>1 DEF firmwareVars, FirmwareInv, FirmwareTypeOK, OneAtATime, UploadInv, ManifestInv,
     PreviousInv, Running, Unnamed, Binaries
<1> QED
  BY <1>1, PutBinaryKeeps, PutManifestKeeps, PutFailsKeeps, PruneKeeps DEF FirmwareNext

(* For any number of uploads that follow one another, each dying at any of *)
(* its steps: the manifest names a binary that is there, and the one it    *)
(* named before stays until an upload died between binary and manifest.    *)
THEOREM FirmwareTheorem == FirmwareSpec => []ManifestServable
<1>1. FirmwareInv => ManifestServable
  BY DEF FirmwareInv, ManifestServable, ManifestInv, PreviousInv, Resolves
<1> QED BY <1>1, InitFirmware, StepFirmware, PTL DEF FirmwareSpec

-----------------------------------------------------------------------------
(* Publish.  What a cycle has looked at by now, and what it then says of   *)
(* it: a condition read as it held is among the reasons, a defect behind a *)
(* database that is gone excepted.                                         *)
Gone == <<"clickhouse", None>>
Read(x) == /\ cycle.pc # "sleep"
           /\ \/ x = Gone
              \/ x = <<"space", None>> /\ cycle.pc # "space"
              \/ \E d \in Loggers : x = <<"collect", d>> /\ d \notin cycle.todo
              \/ \E d \in Loggers : /\ x = <<"defect", d>> /\ d \notin cycle.todo
                                    /\ ~(cycle.pc = "status" /\ cycle.dev = d)
Reported(x) == \/ x \in cycle.reasons
               \/ Gone \in cycle.reasons /\ \E d \in Loggers : x = <<"defect", d>>
Now(x) == Holds(x, dbUp, diskLow, verdict, defect)

Watches == [x : Conditions, all : BOOLEAN, any : BOOLEAN]
CyclePcs == {"sleep", "space", "beat", "status", "rest"}
Cycles == [pc : CyclePcs, todo : SUBSET Loggers,
           dev : Loggers \cup {None}, dbOk : BOOLEAN, reasons : SUBSET Conditions]
CycleInv ==
    /\ dbUp \in BOOLEAN /\ diskLow \in BOOLEAN
    /\ cycle \in Cycles
    /\ cycle.pc \in {"status", "rest"} => cycle.dev \in Loggers
    /\ cycle.pc = "space" => cycle.todo = Loggers
    /\ cycle.pc # "sleep" /\ ~cycle.dbOk => Gone \in cycle.reasons
    /\ cycle.pc = "sleep" => watch = None
WatchInv == watch # None => /\ watch \in Watches
                            /\ watch.all /\ Read(watch.x) => Reported(watch.x)
                            /\ watch.x \in cycle.reasons => watch.any
PublishInv == CycleInv /\ WatchInv

(* The four kinds of conditions, and what is true of each.                *)
LEMMA ConditionKinds ==
  ASSUME NEW x \in Conditions
  PROVE  \/ x = Gone \/ x = <<"space", None>>
         \/ \E d \in Loggers : x = <<"collect", d>>
         \/ \E d \in Loggers : x = <<"defect", d>>
BY DEF Conditions, Gone


LEMMA NowValues ==
  /\ Now(Gone)' <=> ~dbUp'
  /\ Now(<<"space", None>>)' <=> diskLow'
BY DEF Now, Holds, Gone

LEMMA ReportedValues ==
  /\ Reported(Gone) <=> Gone \in cycle.reasons
  /\ Reported(<<"space", None>>) <=> <<"space", None>> \in cycle.reasons
  /\ Reported(Gone)' <=> Gone \in cycle'.reasons
  /\ Reported(<<"space", None>>)' <=> <<"space", None>> \in cycle'.reasons
BY DEF Reported, Gone

LEMMA ReadValues ==
  /\ Read(Gone) <=> cycle.pc # "sleep"
  /\ Read(<<"space", None>>) <=> cycle.pc \notin {"sleep", "space"}
  /\ \A d \in Loggers :
        /\ Read(<<"collect", d>>) <=> cycle.pc # "sleep" /\ d \notin cycle.todo
        /\ Read(<<"defect", d>>) <=> /\ cycle.pc # "sleep" /\ d \notin cycle.todo
                                     /\ ~(cycle.pc = "status" /\ cycle.dev = d)
  /\ Read(Gone)' <=> cycle'.pc # "sleep"
  /\ Read(<<"space", None>>)' <=> cycle'.pc \notin {"sleep", "space"}
  /\ \A d \in Loggers :
        /\ Read(<<"collect", d>>)' <=> cycle'.pc # "sleep" /\ d \notin cycle'.todo
        /\ Read(<<"defect", d>>)' <=> /\ cycle'.pc # "sleep" /\ d \notin cycle'.todo
                                     /\ ~(cycle'.pc = "status" /\ cycle'.dev = d)
BY DEF Read, Gone

LEMMA NowIsBoolean ==
  ASSUME dbUp \in BOOLEAN, diskLow \in BOOLEAN, NEW x \in Conditions PROVE Now(x) \in BOOLEAN
<1>1. CASE x = Gone
  BY <1>1 DEF Now, Holds, Gone
<1>2. CASE x = <<"space", None>>
  BY <1>2 DEF Now, Holds
<1>3. ASSUME NEW d \in Loggers, x = <<"collect", d>> PROVE Now(x) \in BOOLEAN
  BY <1>3 DEF Now, Holds
<1>4. ASSUME NEW d \in Loggers, x = <<"defect", d>> PROVE Now(x) \in BOOLEAN
  BY <1>4 DEF Now, Holds
<1> QED BY <1>1, <1>2, <1>3, <1>4, ConditionKinds, Zenon

(* A step that reads the world as it is while it notes every condition it  *)
(* reads, and no other, keeps what the watched condition is owed.          *)
Noted(x) == /\ Reported(x) => Reported(x)'
            /\ Read(x)' => Read(x) \/ (Now(x)' => Reported(x)')
            /\ x \in cycle'.reasons => x \in cycle.reasons \/ Now(x)'

LEMMA AllNoted ==
  ASSUME Noted(Gone), Noted(<<"space", None>>),
         \A d \in Loggers : Noted(<<"collect", d>>) /\ Noted(<<"defect", d>>)
  PROVE  \A x \in Conditions : Noted(x)
BY ConditionKinds, Zenon

LEMMA Honest ==
  ASSUME WatchInv, Watched, \A x \in Conditions : Noted(x)
  PROVE  WatchInv'
<1> SUFFICES ASSUME watch' # None
             PROVE  /\ watch' \in Watches
                    /\ watch'.all /\ Read(watch.x)' => Reported(watch.x)'
                    /\ watch'.x \in cycle'.reasons => watch'.any
  BY DEF WatchInv
<1>0. watch # None /\ watch \in Watches
  BY DEF Watched, WatchInv
<1> PICK x \in Conditions : x = watch.x
  BY <1>0 DEF Watches
<1> DEFINE h == Now(x)'
<1>1. watch' = [watch EXCEPT !.all = @ /\ h, !.any = @ \/ h]
  BY <1>0 DEF Watched, Now
<1>2. /\ Reported(x) => Reported(x)'
      /\ Read(x)' => Read(x) \/ (h => Reported(x)')
      /\ x \in cycle'.reasons => x \in cycle.reasons \/ h
  BY DEF Noted
<1> HIDE DEF h
<1>3. /\ watch' \in Watches /\ watch'.x = x
      /\ watch'.all <=> watch.all /\ h
      /\ watch'.any <=> watch.any \/ h
  BY <1>0, <1>1 DEF Watches
<1>4. /\ watch.all /\ Read(x) => Reported(x)
      /\ x \in cycle.reasons => watch.any
  BY <1>0 DEF WatchInv
<1>5. Read(watch.x)' = Read(x)' /\ Reported(watch.x)' = Reported(x)'
  BY <1>3 DEF Read, Reported
<1> QED BY <1>2, <1>3, <1>4, <1>5

LEMMA InitPublish == PublishInit => PublishInv
<1>1. Resting \in Cycles
  BY DEF Resting, Cycles, CyclePcs
<1>2. Resting.pc = "sleep"
  BY DEF Resting
<1> QED BY <1>1, <1>2 DEF PublishInit, PublishInv, CycleInv, WatchInv

(* The cycle begins: the database is asked, nothing else is read yet.      *)
LEMMA PingKeeps == PublishInv /\ Ping => PublishInv'
<1> SUFFICES ASSUME PublishInv, Ping PROVE PublishInv'
  OBVIOUS
<1>0. cycle' \in Cycles
  BY DEF Ping, Cycles, CyclePcs, Conditions, PublishInv, CycleInv
<1>1. CycleInv'
  BY <1>0 DEF PublishInv, CycleInv, Ping, Gone, world
<1>2. WatchInv'
  <2> SUFFICES ASSUME NEW x \in Picks, watch' = [x |-> x, all |-> Now(x), any |-> Now(x)]
               PROVE  WatchInv'
    BY DEF Ping, Now, WatchInv
  <2>1. x \in Conditions /\ watch' \in Watches
    <3>1. x \in Conditions
      BY PublishAssumption
    <3>2. Now(x) \in BOOLEAN
      BY <3>1, ConditionKinds, NowIsBoolean DEF PublishInv, CycleInv
    <3> QED BY <3>1, <3>2 DEF Watches
  <2>2. Read(x)' => x = Gone
    BY <2>1, ConditionKinds DEF Ping, Read, Gone
  <2>3. Now(Gone) = ~dbUp
    BY DEF Now, Holds, Gone
  <2>4. cycle'.reasons = IF dbUp THEN {} ELSE {Gone}
    BY DEF Ping, Gone
  <2>5. Read(watch.x)' = Read(x)' /\ Reported(watch.x)' = Reported(x)'
    BY DEF Read, Reported
  <2> QED BY <2>1, <2>2, <2>3, <2>4, <2>5 DEF WatchInv, Reported
<1> QED BY <1>1, <1>2 DEF PublishInv

(* The steps of a cycle that read: each notes what it finds at that        *)
(* moment.                                                                 *)
LEMMA SpaceKeeps == PublishInv /\ Space => PublishInv'
<1> SUFFICES ASSUME PublishInv, Space PROVE PublishInv'
  OBVIOUS
<1>0. /\ dbUp' = dbUp /\ diskLow' = diskLow
      /\ cycle.pc = "space" /\ cycle.todo = Loggers
      /\ cycle' = [cycle EXCEPT !.pc = "beat", !.reasons = Reasons(diskLow, <<"space", None>>)]
      /\ cycle'.pc = "beat" /\ cycle'.todo = Loggers /\ cycle'.dbOk = cycle.dbOk
      /\ diskLow => cycle'.reasons = cycle.reasons \cup {<<"space", None>>}
      /\ ~diskLow => cycle'.reasons = cycle.reasons
      /\ ~cycle.dbOk => Gone \in cycle.reasons
  BY DEF PublishInv, CycleInv, Space, Cycles, world, Reasons, Gone
<1>1. cycle' \in Cycles
  <2>1. cycle'.reasons \subseteq Conditions
    <3>1. cycle.reasons \subseteq Conditions
      BY DEF PublishInv, CycleInv, Cycles
    <3> QED BY <1>0, <3>1 DEF Conditions, Gone
  <2>2. cycle'.pc \in CyclePcs
    BY <1>0 DEF CyclePcs
  <2> QED BY <1>0, <2>1, <2>2 DEF PublishInv, CycleInv, Cycles, Space
<1>2. CycleInv'
  BY <1>0, <1>1 DEF PublishInv, CycleInv
<1>3. /\ Gone # <<"space", None>>
      /\ \A e \in Loggers : <<"collect", e>> \notin {Gone, <<"space", None>>}
                            /\ <<"defect", e>> \notin {Gone, <<"space", None>>}
      /\ \A e, f \in Loggers : <<"collect", e>> # <<"defect", f>>
  BY DEF Gone
<1>4. Noted(Gone) /\ Noted(<<"space", None>>)
  BY <1>0, <1>3, NowValues, ReportedValues, ReadValues DEF Noted
<1>5. ASSUME NEW e \in Loggers PROVE Noted(<<"collect", e>>)
  <2>1. /\ <<"collect", e>> \in cycle.reasons => <<"collect", e>> \in cycle'.reasons
        /\ Read(<<"collect", e>>)' => Read(<<"collect", e>>)
                                      \/ (verdict'[e] = "error" => <<"collect", e>> \in cycle'.reasons)
        /\ <<"collect", e>> \in cycle'.reasons => <<"collect", e>> \in cycle.reasons \/ verdict'[e] = "error"
    BY <1>0, <1>3, ReadValues
  <2>2. /\ Reported(<<"collect", e>>) <=> <<"collect", e>> \in cycle.reasons
        /\ Reported(<<"collect", e>>)' <=> <<"collect", e>> \in cycle'.reasons
        /\ Now(<<"collect", e>>)' <=> verdict'[e] = "error"
    BY DEF Now, Holds, Reported, Gone
  <2> QED BY <2>1, <2>2 DEF Noted
<1>6. ASSUME NEW e \in Loggers PROVE Noted(<<"defect", e>>)
  <2>1. /\ <<"defect", e>> \in cycle.reasons \/ Gone \in cycle.reasons =>
             <<"defect", e>> \in cycle'.reasons \/ Gone \in cycle'.reasons
        /\ Read(<<"defect", e>>)' =>
             \/ Read(<<"defect", e>>)
             \/ e \in defect' => <<"defect", e>> \in cycle'.reasons \/ Gone \in cycle'.reasons
        /\ <<"defect", e>> \in cycle'.reasons => <<"defect", e>> \in cycle.reasons \/ e \in defect'
    BY <1>0, <1>3, ReadValues
  <2>2. /\ Reported(<<"defect", e>>) <=> <<"defect", e>> \in cycle.reasons \/ Gone \in cycle.reasons
        /\ Reported(<<"defect", e>>)' <=> <<"defect", e>> \in cycle'.reasons \/ Gone \in cycle'.reasons
        /\ Now(<<"defect", e>>)' <=> e \in defect'
    BY DEF Now, Holds, Reported, Gone
  <2> QED BY <2>1, <2>2 DEF Noted
<1> QED BY <1>2, <1>4, <1>5, <1>6, AllNoted, Honest DEF PublishInv, Space

LEMMA ReadBeatKeeps == PublishInv /\ ReadBeat => PublishInv'
<1> SUFFICES ASSUME PublishInv, ReadBeat PROVE PublishInv'
  OBVIOUS
<1> PICK d \in cycle.todo :
        cycle' = [cycle EXCEPT !.pc = IF cycle.dbOk THEN "status" ELSE "beat", !.dev = d, !.todo = @ \ {d},
                     !.reasons = Reasons(verdict[d] = "error", <<"collect", d>>)]
  BY DEF ReadBeat
<1>0. /\ dbUp' = dbUp /\ diskLow' = diskLow /\ verdict' = verdict /\ d \in Loggers
      /\ cycle.pc = "beat" /\ cycle'.todo = cycle.todo \ {d} /\ cycle'.dbOk = cycle.dbOk
      /\ cycle'.pc = IF cycle.dbOk THEN "status" ELSE "beat"
      /\ cycle'.dev = d
      /\ verdict[d] = "error" => cycle'.reasons = cycle.reasons \cup {<<"collect", d>>}
      /\ verdict[d] # "error" => cycle'.reasons = cycle.reasons
      /\ ~cycle.dbOk => Gone \in cycle.reasons
  BY DEF PublishInv, CycleInv, ReadBeat, Cycles, world, Reasons, Gone
<1>1. cycle' \in Cycles
  <2>1. cycle'.reasons \subseteq Conditions
    <3>1. cycle.reasons \subseteq Conditions
      BY DEF PublishInv, CycleInv, Cycles
    <3> QED BY <1>0, <3>1 DEF Conditions, Gone
  <2>2. cycle'.pc \in CyclePcs
    BY <1>0 DEF CyclePcs
  <2> QED BY <1>0, <2>1, <2>2 DEF PublishInv, CycleInv, Cycles, ReadBeat
<1>2. CycleInv'
  BY <1>0, <1>1 DEF PublishInv, CycleInv
<1>3. /\ Gone # <<"space", None>>
      /\ \A e \in Loggers : <<"collect", e>> \notin {Gone, <<"space", None>>}
                            /\ <<"defect", e>> \notin {Gone, <<"space", None>>}
      /\ \A e, f \in Loggers : <<"collect", e>> # <<"defect", f>>
  BY DEF Gone
<1>4. Noted(Gone) /\ Noted(<<"space", None>>)
  BY <1>0, <1>3, NowValues, ReportedValues, ReadValues DEF Noted
<1>5. ASSUME NEW e \in Loggers PROVE Noted(<<"collect", e>>)
  <2>1. /\ <<"collect", e>> \in cycle.reasons => <<"collect", e>> \in cycle'.reasons
        /\ Read(<<"collect", e>>)' => Read(<<"collect", e>>)
                                      \/ (verdict'[e] = "error" => <<"collect", e>> \in cycle'.reasons)
        /\ <<"collect", e>> \in cycle'.reasons => <<"collect", e>> \in cycle.reasons \/ verdict'[e] = "error"
    BY <1>0, <1>3, ReadValues
  <2>2. /\ Reported(<<"collect", e>>) <=> <<"collect", e>> \in cycle.reasons
        /\ Reported(<<"collect", e>>)' <=> <<"collect", e>> \in cycle'.reasons
        /\ Now(<<"collect", e>>)' <=> verdict'[e] = "error"
    BY DEF Now, Holds, Reported, Gone
  <2> QED BY <2>1, <2>2 DEF Noted
<1>6. ASSUME NEW e \in Loggers PROVE Noted(<<"defect", e>>)
  <2>1. /\ <<"defect", e>> \in cycle.reasons \/ Gone \in cycle.reasons =>
             <<"defect", e>> \in cycle'.reasons \/ Gone \in cycle'.reasons
        /\ Read(<<"defect", e>>)' =>
             \/ Read(<<"defect", e>>)
             \/ e \in defect' => <<"defect", e>> \in cycle'.reasons \/ Gone \in cycle'.reasons
        /\ <<"defect", e>> \in cycle'.reasons => <<"defect", e>> \in cycle.reasons \/ e \in defect'
    BY <1>0, <1>3, ReadValues
  <2>2. /\ Reported(<<"defect", e>>) <=> <<"defect", e>> \in cycle.reasons \/ Gone \in cycle.reasons
        /\ Reported(<<"defect", e>>)' <=> <<"defect", e>> \in cycle'.reasons \/ Gone \in cycle'.reasons
        /\ Now(<<"defect", e>>)' <=> e \in defect'
    BY DEF Now, Holds, Reported, Gone
  <2> QED BY <2>1, <2>2 DEF Noted
<1> QED BY <1>2, <1>4, <1>5, <1>6, AllNoted, Honest DEF PublishInv, ReadBeat

LEMMA ReadTablesKeeps == PublishInv /\ ReadTables => PublishInv'
<1> SUFFICES ASSUME PublishInv, ReadTables PROVE PublishInv'
  OBVIOUS
<1> DEFINE bad == cycle.pc = "status" /\ cycle.dev \in defect
<1>0. /\ dbUp' = dbUp /\ diskLow' = diskLow /\ defect' = defect /\ cycle.dev \in Loggers
      /\ cycle.pc \in {"status", "rest"} /\ cycle'.todo = cycle.todo /\ cycle'.dev = cycle.dev
      /\ cycle'.pc = IF dbUp /\ cycle.pc = "status" THEN "rest" ELSE "beat"
      /\ cycle'.dbOk = dbUp
      /\ dbUp /\ bad => cycle'.reasons = cycle.reasons \cup {<<"defect", cycle.dev>>}
      /\ dbUp /\ ~bad => cycle'.reasons = cycle.reasons
      /\ ~dbUp => cycle'.reasons = cycle.reasons \cup {Gone}
  BY DEF PublishInv, CycleInv, ReadTables, Cycles, world, Reasons, Gone
<1>1. cycle' \in Cycles
  <2>1. cycle'.reasons \subseteq Conditions
    <3>1. cycle.reasons \subseteq Conditions
      BY DEF PublishInv, CycleInv, Cycles
    <3> QED BY <1>0, <3>1 DEF Conditions, Gone
  <2>2. cycle'.pc \in CyclePcs
    BY <1>0 DEF CyclePcs
  <2> QED BY <1>0, <2>1, <2>2 DEF PublishInv, CycleInv, Cycles, ReadTables
<1>2. CycleInv'
  BY <1>0, <1>1 DEF PublishInv, CycleInv
<1>3. /\ Gone # <<"space", None>>
      /\ \A e \in Loggers : <<"collect", e>> \notin {Gone, <<"space", None>>}
                            /\ <<"defect", e>> \notin {Gone, <<"space", None>>}
      /\ \A e, f \in Loggers : <<"collect", e>> # <<"defect", f>>
  BY DEF Gone
<1>4. Noted(Gone) /\ Noted(<<"space", None>>)
  BY <1>0, <1>3, NowValues, ReportedValues, ReadValues DEF Noted
<1>5. ASSUME NEW e \in Loggers PROVE Noted(<<"collect", e>>)
  <2>1. /\ <<"collect", e>> \in cycle.reasons => <<"collect", e>> \in cycle'.reasons
        /\ Read(<<"collect", e>>)' => Read(<<"collect", e>>)
                                      \/ (verdict'[e] = "error" => <<"collect", e>> \in cycle'.reasons)
        /\ <<"collect", e>> \in cycle'.reasons => <<"collect", e>> \in cycle.reasons \/ verdict'[e] = "error"
    BY <1>0, <1>3, ReadValues
  <2>2. /\ Reported(<<"collect", e>>) <=> <<"collect", e>> \in cycle.reasons
        /\ Reported(<<"collect", e>>)' <=> <<"collect", e>> \in cycle'.reasons
        /\ Now(<<"collect", e>>)' <=> verdict'[e] = "error"
    BY DEF Now, Holds, Reported, Gone
  <2> QED BY <2>1, <2>2 DEF Noted
<1>6. ASSUME NEW e \in Loggers PROVE Noted(<<"defect", e>>)
  <2>1. /\ <<"defect", e>> \in cycle.reasons \/ Gone \in cycle.reasons =>
             <<"defect", e>> \in cycle'.reasons \/ Gone \in cycle'.reasons
        /\ Read(<<"defect", e>>)' =>
             \/ Read(<<"defect", e>>)
             \/ e \in defect' => <<"defect", e>> \in cycle'.reasons \/ Gone \in cycle'.reasons
        /\ <<"defect", e>> \in cycle'.reasons => <<"defect", e>> \in cycle.reasons \/ e \in defect'
    BY <1>0, <1>3, ReadValues
  <2>2. /\ Reported(<<"defect", e>>) <=> <<"defect", e>> \in cycle.reasons \/ Gone \in cycle.reasons
        /\ Reported(<<"defect", e>>)' <=> <<"defect", e>> \in cycle'.reasons \/ Gone \in cycle'.reasons
        /\ Now(<<"defect", e>>)' <=> e \in defect'
    BY DEF Now, Holds, Reported, Gone
  <2> QED BY <2>1, <2>2 DEF Noted
<1> QED BY <1>2, <1>4, <1>5, <1>6, AllNoted, Honest DEF PublishInv, ReadTables

(* The rest of the world moves: nothing is read, the watch goes on.        *)
LEMMA OthersKeep ==
  ASSUME PublishInv, UNCHANGED cycle, Watched, dbUp' \in BOOLEAN, diskLow' \in BOOLEAN
  PROVE  PublishInv'
<1>1. CycleInv'
  BY DEF PublishInv, CycleInv, Watched
<1>2. \A x \in Conditions : Noted(x)
  BY DEF Noted, Read, Reported
<1> QED BY <1>1, <1>2, Honest DEF PublishInv

LEMMA StepPublish == PublishInv /\ [PublishNext]_publishVars => PublishInv'
<1> SUFFICES ASSUME PublishInv, [PublishNext]_publishVars PROVE PublishInv'
  OBVIOUS
<1>1. CASE UNCHANGED publishVars
  BY <1>1 DEF publishVars, world, PublishInv, CycleInv, WatchInv, Read, Reported
<1>2. CASE SpaceFails \/ PublishState
  <2>1. Resting \in Cycles
    BY DEF Resting, Cycles, CyclePcs
  <2>2. Resting.pc = "sleep"
    BY DEF Resting
  <2>3. cycle' = Resting /\ watch' = None /\ UNCHANGED <<dbUp, diskLow>>
    BY <1>2 DEF SpaceFails, PublishState, world
  <2> QED BY <2>1, <2>2, <2>3 DEF PublishInv, CycleInv, WatchInv
<1>3. CASE OnMessage \/ ServiceStarts \/ ServiceEnds \/ WorldChanges
  <2>1. /\ UNCHANGED cycle /\ Watched
        /\ UNCHANGED dbUp \/ dbUp' = ~dbUp
        /\ UNCHANGED diskLow \/ diskLow' = ~diskLow
    BY <1>3 DEF OnMessage, ServiceStarts, ServiceEnds, WorldChanges, world
  <2>2. dbUp' \in BOOLEAN /\ diskLow' \in BOOLEAN
    BY <2>1 DEF PublishInv, CycleInv
  <2> QED BY <2>1, <2>2, OthersKeep
<1> QED
  BY <1>1, <1>2, <1>3, PingKeeps, SpaceKeeps, ReadBeatKeeps, ReadTablesKeeps DEF PublishNext

(* For any fleet and any world that goes on changing while a cycle reads   *)
(* it: a condition that held from the first read to the message is in the  *)
(* message, and every reason in it held at some moment of that cycle.      *)
THEOREM PublishTheorem == PublishSpec => ProblemIsHonest
<1>1. PublishInv /\ PublishInv' /\ [PublishNext]_publishVars =>
        [retained' # retained /\ cycle.pc = "beat" /\ watch # None =>
         /\ watch.all => \/ watch.x \in retained'
                         \/ watch.x[1] = "defect" /\ <<"clickhouse", None>> \in retained'
         /\ watch.x \in retained' => watch.any]_publishVars
  <2> SUFFICES ASSUME PublishInv, PublishNext, retained' # retained, cycle.pc = "beat", watch # None
               PROVE  /\ watch.all => \/ watch.x \in retained'
                                      \/ watch.x[1] = "defect" /\ <<"clickhouse", None>> \in retained'
                      /\ watch.x \in retained' => watch.any
    BY DEF publishVars
  <2>1. PublishState
    BY DEF PublishNext, Ping, Space, SpaceFails, ReadBeat, ReadTables, OnMessage, ServiceStarts,
           ServiceEnds, WorldChanges
  <2>2. retained' = cycle.reasons /\ cycle.todo = {}
    BY <2>1 DEF PublishState
  <2>3. /\ watch.x \in Conditions
        /\ watch.all /\ Read(watch.x) => Reported(watch.x)
        /\ watch.x \in cycle.reasons => watch.any
    BY DEF PublishInv, WatchInv, Watches
  <2>4. Read(watch.x)
    BY <2>2, <2>3, ConditionKinds DEF Read
  <2> QED BY <2>2, <2>3, <2>4 DEF Reported, Gone
<1> QED BY <1>1, InitPublish, StepPublish, PTL DEF PublishSpec, ProblemIsHonest

-----------------------------------------------------------------------------
(* Loader.  What the markers, the run in progress and the rows say of each *)
(* other.  A file that is not pending has its rows; a file a run has to do *)
(* is pending until it is marked, so while its rows are deleted and put in *)
(* again nothing is promised of them.                                      *)
RunPcs == {"idle", "rules", "clear", "file", "insert", "marker"}
Cats == Nat \cup {None}
Lists == Seq(Nat)
Slots == [1..4 -> Lists]
Marks == [result : {"ok", "defect"}, catalog : Nat]
RunRecords == [pc : RunPcs, cat : Cats, dec : Cats, todo : SUBSET Files,
               cleared : SUBSET Keys, i : Nat]
LoaderTypes == /\ arrived \subseteq Files /\ rows \in [Keys -> Slots]
               /\ marker \in [Files -> Marks \cup {None}] /\ run \in RunRecords
Rowed(f, cat) == IF KindOf[f] = "good" THEN Loaded(KeyOf[f], cat) ELSE rows[KeyOf[f]] = NoRows

MarkerInv ==
    /\ catalog \in Nat
    /\ \A f \in Files : marker[f] # None =>
          /\ f \in arrived
          /\ marker[f].catalog \in Nat /\ marker[f].catalog <= catalog
          /\ marker[f].result = IF KindOf[f] = "good" THEN "ok" ELSE "defect"
RunInv ==
    /\ run.pc # "idle" =>
          /\ run.cat \in Nat /\ run.cat <= catalog
          /\ \A f \in Files : marker[f] # None => marker[f].catalog <= run.cat
    /\ run.pc \notin {"idle", "rules"} =>
          /\ run.dec \in Nat /\ run.cat <= run.dec /\ run.dec <= catalog
          /\ run.todo \subseteq arrived
          /\ \A f \in run.todo : marker[f] = None \/ marker[f].catalog < run.cat
          /\ \A k \in run.cleared : \E f \in run.todo : KeyOf[f] = k
    /\ run.pc \in {"insert", "marker"} => run.todo # {}
ProgressInv ==
    /\ run.pc = "rules" => run.i = 1
    /\ run.pc = "clear" =>
          /\ run.i \in 1..4
          /\ \A k \in run.cleared, t \in 1..3 : t < run.i => \A p \in Tables[t] : rows[k][p] = <<>>
    /\ run.pc = "file" => \A k \in run.cleared : rows[k] = NoRows
    /\ run.pc \in {"insert", "marker"} => \A k \in run.cleared \ {Key} : rows[k] = NoRows
    /\ run.pc = "insert" =>
          /\ KindOf[File] # "defect" /\ run.i \in 1..4 /\ (KindOf[File] = "breaks" => run.i <= 2)
          /\ \A j \in 1..4 : rows[Key][j] = IF j < run.i THEN <<run.dec>> ELSE <<>>
    /\ run.pc = "marker" => Rowed(File, run.dec)
RowsInv == \A f \in arrived : (\A g \in Pending(catalog) : KeyOf[g] # KeyOf[f]) => Rowed(f, catalog)
LoaderInv == LoaderTypes /\ MarkerInv /\ RunInv /\ ProgressInv /\ RowsInv

(* The next file of a run that has one.                                    *)
LEMMA FileIsNext ==
  ASSUME run.todo \subseteq Files, run.todo # {} PROVE File \in run.todo
<1>1. \E f \in run.todo : \A g \in run.todo : f <= g
  BY LoaderAssumption, LeastNatural
<1> QED BY <1>1 DEF File

(* What a deletion leaves of the rows.                                     *)
LEMMA RowsGone ==
  /\ Len(Parts) = 4 /\ Len(Tables) = 3 /\ DOMAIN NoRows = 1..4 /\ NoRows \in Slots
  /\ \A p \in 1..4 : NoRows[p] = <<>>
  /\ \A s \in Slots : (\A p \in 1..4 : s[p] = <<>>) => s = NoRows
<1>1. Len(Parts) = 4 /\ Len(Tables) = 3
  BY DEF Parts, Tables
<1>2. NoRows = [p \in 1..4 |-> <<>>] /\ <<>> \in Lists
  BY <1>1 DEF NoRows, Lists
<1> QED BY <1>1, <1>2 DEF Slots

LEMMA Deletes ==
  ASSUME rows \in [Keys -> Slots], NEW parts, NEW keys, Delete(parts, keys)
  PROVE  /\ rows' \in [Keys -> Slots]
         /\ \A k \in Keys : k \notin keys => rows'[k] = rows[k]
         /\ \A k \in Keys, p \in 1..4 :
               k \in keys => rows'[k][p] = IF p \in parts THEN <<>> ELSE rows[k][p]
<1>1. rows' = [k \in Keys |-> IF k \notin keys THEN rows[k]
                              ELSE [i \in 1..4 |-> IF i \in parts THEN <<>> ELSE rows[k][i]]]
  BY RowsGone DEF Delete
<1>2. <<>> \in Lists
  BY DEF Lists
<1> QED BY <1>1, <1>2 DEF Slots

LEMMA InitLoader == LoaderInit => LoaderInv
<1> SUFFICES ASSUME LoaderInit PROVE LoaderInv
  OBVIOUS
<1>1. NoRun \in RunRecords /\ NoRun.pc = "idle"
  BY DEF NoRun, RunRecords, RunPcs, Cats
<1>2. run = NoRun /\ arrived = {} /\ catalog = 1
  BY DEF LoaderInit
<1>3. LoaderTypes
  BY <1>1, <1>2, RowsGone DEF LoaderInit, LoaderTypes
<1>4. \A f \in Files : marker[f] = None
  BY DEF LoaderInit
<1> QED BY <1>1, <1>2, <1>3, <1>4 DEF LoaderInv, MarkerInv, RunInv, ProgressInv, RowsInv

(* Steps that leave the markers, the rows and the rules as they are.       *)
LEMMA RunEnds ==
  ASSUME LoaderInv, run' = NoRun, UNCHANGED <<arrived, catalog, rows, marker>>
  PROVE  LoaderInv'
<1>1. NoRun \in RunRecords /\ NoRun.pc = "idle"
  BY DEF NoRun, RunRecords, RunPcs, Cats
<1>2. Pending(catalog)' = Pending(catalog)
  BY DEF Pending
<1> QED BY <1>1, <1>2 DEF LoaderInv, LoaderTypes, MarkerInv, RunInv, ProgressInv, RowsInv, Rowed, Loaded

LEMMA HashKeeps == LoaderInv /\ Hash => LoaderInv'
<1> SUFFICES ASSUME LoaderInv, Hash PROVE LoaderInv'
  OBVIOUS
<1>1. run' \in RunRecords /\ run'.pc = "rules" /\ run'.cat = catalog /\ run'.i = 1
  BY DEF Hash, Become, NoRun, RunRecords, RunPcs, Cats, LoaderInv, MarkerInv
<1> QED BY <1>1 DEF Hash, LoaderInv, LoaderTypes, MarkerInv, RunInv, ProgressInv, RowsInv, Rowed,
                    Loaded, Pending

LEMMA RulesKeeps == LoaderInv /\ Rules => LoaderInv'
<1> SUFFICES ASSUME LoaderInv, Rules PROVE LoaderInv'
  OBVIOUS
<1> DEFINE todo == Pending(run.cat)
           cleared == {KeyOf[f] : f \in {g \in todo : marker[g] # None}}
<1>1. /\ run.pc = "rules" /\ run \in RunRecords
      /\ run' = [run EXCEPT !.pc = "clear", !.dec = catalog, !.todo = todo, !.cleared = cleared]
      /\ UNCHANGED <<arrived, catalog, rows, marker>>
  BY DEF Rules, Become, LoaderInv, LoaderTypes
<1>2. todo \subseteq arrived /\ todo \subseteq Files /\ cleared \subseteq Keys
  BY DEF Pending, Keys, LoaderInv, LoaderTypes
<1>3. \A f \in todo : marker[f] = None \/ marker[f].catalog < run.cat
  <2>1. \A f \in todo : f \in Files /\ (marker[f] = None \/ marker[f].catalog # run.cat)
    BY <1>2 DEF Pending
  <2>2. \A f \in todo : marker[f] # None =>
           marker[f].catalog \in Nat /\ marker[f].catalog <= run.cat /\ run.cat \in Nat
    BY <1>1, <2>1 DEF LoaderInv, MarkerInv, RunInv
  <2> QED BY <2>1, <2>2
<1>4. \A k \in cleared : \E f \in todo : KeyOf[f] = k
  OBVIOUS
<1>5. run.cat \in Nat /\ run.cat <= catalog /\ catalog \in Nat
  BY <1>1 DEF LoaderInv, RunInv, MarkerInv
<1> HIDE DEF todo, cleared
<1>6. /\ run' \in RunRecords /\ run'.pc = "clear" /\ run'.dec = catalog /\ run'.cat = run.cat
      /\ run'.todo = todo /\ run'.cleared = cleared /\ run'.i = run.i
  BY <1>1, <1>2, <1>5 DEF RunRecords, RunPcs, Cats
<1>7. LoaderTypes' /\ MarkerInv'
  BY <1>1, <1>6 DEF LoaderInv, LoaderTypes, MarkerInv
<1>8. RunInv'
  BY <1>1, <1>2, <1>3, <1>4, <1>5, <1>6 DEF LoaderInv, RunInv
<1>9. ProgressInv'
  <2>1. run'.i = 1
    BY <1>1, <1>6 DEF LoaderInv, ProgressInv
  <2> QED BY <1>6, <2>1 DEF ProgressInv
<1>10. RowsInv'
  BY <1>1 DEF LoaderInv, RowsInv, Rowed, Loaded, Pending
<1> QED BY <1>7, <1>8, <1>9, <1>10 DEF LoaderInv

(* A step of the run that changes no marker, no rule and no file, and only *)
(* rows of a chunk that still has a file to do: that file is pending, so   *)
(* nothing is promised of these rows yet.                                  *)
LEMMA TodoIsPending ==
  ASSUME LoaderInv, run.pc \notin {"idle", "rules"}, NEW f \in run.todo
  PROVE  f \in Pending(catalog)
<1>1. /\ f \in arrived /\ f \in Files
      /\ run.cat \in Nat /\ run.cat <= catalog /\ catalog \in Nat
      /\ marker[f] = None \/ marker[f].catalog < run.cat
  BY DEF LoaderInv, LoaderTypes, RunInv, MarkerInv
<1>2. marker[f] # None => marker[f].catalog \in Nat
  BY <1>1 DEF LoaderInv, MarkerInv
<1> QED BY <1>1, <1>2 DEF Pending

LEMMA RowsOfOthers ==
  ASSUME LoaderInv, run.pc \notin {"idle", "rules"}, UNCHANGED <<arrived, catalog, marker>>,
         \A k \in Keys : (\A f \in run.todo : KeyOf[f] # k) => rows'[k] = rows[k]
  PROVE  RowsInv'
<1> SUFFICES ASSUME NEW f \in arrived, \A g \in Pending(catalog) : KeyOf[g] # KeyOf[f]
             PROVE  Rowed(f, catalog)'
  BY DEF RowsInv, Pending
<1>1. \A g \in run.todo : KeyOf[g] # KeyOf[f]
  BY TodoIsPending
<1>2. KeyOf[f] \in Keys
  BY DEF Keys, LoaderInv, LoaderTypes
<1>3. rows'[KeyOf[f]] = rows[KeyOf[f]]
  BY <1>1, <1>2
<1>4. Rowed(f, catalog)
  BY DEF LoaderInv, RowsInv
<1> QED BY <1>3, <1>4 DEF Rowed, Loaded

LEMMA ClearKeeps == LoaderInv /\ Clear => LoaderInv'
<1> SUFFICES ASSUME LoaderInv, Clear PROVE LoaderInv'
  OBVIOUS
<1>0. /\ run.pc = "clear" /\ UNCHANGED <<arrived, catalog, marker>>
      /\ run \in RunRecords /\ rows \in [Keys -> Slots]
      /\ run.i \in 1..4 /\ run.cleared \subseteq Keys
      /\ \A k \in run.cleared, t \in 1..3 : t < run.i => \A p \in Tables[t] : rows[k][p] = <<>>
  BY DEF Clear, LoaderInv, LoaderTypes, ProgressInv, RunRecords
<1>1. CASE run.i > Len(Tables) \/ run.cleared = {}
  <2>1. run' = [run EXCEPT !.pc = "file", !.i = 1] /\ rows' = rows
    BY <1>1 DEF Clear, Become
  <2>2. /\ run' \in RunRecords /\ run'.pc = "file" /\ run'.cat = run.cat /\ run'.dec = run.dec
        /\ run'.todo = run.todo /\ run'.cleared = run.cleared
    BY <1>0, <2>1 DEF RunRecords, RunPcs
  <2>3. ASSUME NEW k \in run.cleared PROVE rows[k] = NoRows
    <3>1. run.i = 4
      BY <1>0, <1>1, <2>3, RowsGone
    <3>2. \A t \in 1..3 : \A p \in Tables[t] : rows[k][p] = <<>>
      BY <1>0, <3>1
    <3>3. rows[k][1] = <<>> /\ rows[k][2] = <<>> /\ rows[k][3] = <<>> /\ rows[k][4] = <<>>
      BY <3>2 DEF Tables
    <3>4. \A p \in 1..4 : p = 1 \/ p = 2 \/ p = 3 \/ p = 4
      OBVIOUS
    <3> QED BY <1>0, <3>3, <3>4, RowsGone
  <2>4. LoaderTypes' /\ MarkerInv'
    BY <1>0, <2>1, <2>2 DEF LoaderInv, LoaderTypes, MarkerInv
  <2>5. RunInv'
    BY <1>0, <2>2 DEF LoaderInv, RunInv
  <2>6. ProgressInv'
    BY <2>1, <2>2, <2>3 DEF ProgressInv
  <2>7. RowsInv'
    BY <1>0, <2>1, RowsOfOthers
  <2> QED BY <2>4, <2>5, <2>6, <2>7 DEF LoaderInv
<1>2. CASE ~(run.i > Len(Tables) \/ run.cleared = {})
  <2>1. run' = [run EXCEPT !.i = @ + 1] /\ Delete(Tables[run.i], run.cleared)
    BY <1>2 DEF Clear, Become
  <2>2. /\ run' \in RunRecords /\ run'.pc = "clear" /\ run'.cat = run.cat /\ run'.dec = run.dec
        /\ run'.todo = run.todo /\ run'.cleared = run.cleared /\ run'.i = run.i + 1
        /\ run.i \in 1..3
    BY <1>0, <1>2, <2>1, RowsGone DEF RunRecords, RunPcs
  <2>3. /\ rows' \in [Keys -> Slots]
        /\ \A k \in Keys : k \notin run.cleared => rows'[k] = rows[k]
        /\ \A k \in Keys, p \in 1..4 :
              k \in run.cleared => rows'[k][p] = IF p \in Tables[run.i] THEN <<>> ELSE rows[k][p]
    BY <1>0, <2>1, Deletes
  <2>4. LoaderTypes' /\ MarkerInv'
    BY <1>0, <2>2, <2>3 DEF LoaderInv, LoaderTypes, MarkerInv
  <2>5. RunInv'
    BY <1>0, <2>2 DEF LoaderInv, RunInv
  <2>6. ProgressInv'
    <3>1. ASSUME NEW k \in run.cleared, NEW t \in 1..3, t < run.i + 1, NEW p \in Tables[t]
          PROVE  rows'[k][p] = <<>>
      <4>1. p \in 1..4
        BY <3>1 DEF Tables
      <4>2. CASE t = run.i
        BY <1>0, <2>3, <3>1, <4>1, <4>2
      <4>3. CASE t < run.i
        BY <1>0, <2>3, <3>1, <4>1, <4>3
      <4> QED BY <2>2, <3>1, <4>2, <4>3
    <3> QED BY <2>2, <3>1 DEF ProgressInv
  <2>7. RowsInv'
    <3>1. \A k \in Keys : (\A f \in run.todo : KeyOf[f] # k) => rows'[k] = rows[k]
      BY <1>0, <2>3 DEF LoaderInv, RunInv
    <3> QED BY <1>0, <3>1, RowsOfOthers
  <2> QED BY <2>4, <2>5, <2>6, <2>7 DEF LoaderInv
<1> QED BY <1>1, <1>2

(* What a run at work on a file knows of it.                               *)
LEMMA AtWork ==
  ASSUME LoaderInv, run.pc \in {"file", "insert", "marker"}, run.todo # {}
  PROVE  /\ File \in run.todo /\ File \in Files /\ File \in arrived /\ Key = KeyOf[File] /\ Key \in Keys
         /\ KindOf[File] \in {"good", "defect", "breaks"}
         /\ run.cat \in Nat /\ run.dec \in Nat /\ catalog \in Nat
         /\ run.cat <= run.dec /\ run.dec <= catalog /\ run.cleared \subseteq Keys
<1>1. File \in run.todo
  BY FileIsNext DEF LoaderInv, LoaderTypes, RunRecords
<1> QED BY <1>1, LoaderAssumption DEF LoaderInv, LoaderTypes, RunRecords, RunInv, MarkerInv, Key, Keys

LEMMA LoadBeginsKeeps == LoaderInv /\ LoadBegins => LoaderInv'
<1> SUFFICES ASSUME LoaderInv, LoadBegins PROVE LoaderInv'
  OBVIOUS
<1> DEFINE next == IF KindOf[File] = "defect" THEN "marker" ELSE "insert"
<1>0. /\ run.pc = "file" /\ run.todo # {} /\ UNCHANGED <<arrived, catalog, marker>>
      /\ run \in RunRecords /\ rows \in [Keys -> Slots]
      /\ run' = [run EXCEPT !.pc = next, !.i = 1]
      /\ \A k \in run.cleared : rows[k] = NoRows
  BY DEF LoadBegins, LoaderInv, LoaderTypes, Become, ProgressInv
<1>1. /\ File \in run.todo /\ File \in Files /\ Key = KeyOf[File] /\ Key \in Keys
      /\ KindOf[File] \in {"good", "defect", "breaks"} /\ run.cleared \subseteq Keys
  BY <1>0, AtWork
<1>2. next \in {"insert", "marker"}
  OBVIOUS
<1>3. /\ run' \in RunRecords /\ run'.pc = next /\ run'.cat = run.cat /\ run'.dec = run.dec
      /\ run'.todo = run.todo /\ run'.cleared = run.cleared /\ run'.i = 1
  BY <1>0, <1>2 DEF RunRecords, RunPcs
<1>4. File' = File /\ Key' = Key
  BY <1>3 DEF File, Key
<1>5. /\ rows' \in [Keys -> Slots] /\ rows'[Key] = NoRows
      /\ \A k \in Keys : k # Key => rows'[k] = rows[k]
  <2>1. CASE Key \in run.cleared
    BY <1>0, <2>1 DEF LoadBegins
  <2>2. CASE Key \notin run.cleared
    <3>1. Delete(DOMAIN NoRows, {Key})
      BY <2>2 DEF LoadBegins
    <3>2. /\ rows' \in [Keys -> Slots]
          /\ \A k \in Keys : k \notin {Key} => rows'[k] = rows[k]
          /\ \A k \in Keys, p \in 1..4 :
                k \in {Key} => rows'[k][p] = IF p \in DOMAIN NoRows THEN <<>> ELSE rows[k][p]
      BY <1>0, <3>1, Deletes
    <3>3. \A p \in 1..4 : rows'[Key][p] = <<>>
      BY <1>1, <3>2, RowsGone
    <3> QED BY <1>1, <3>2, <3>3, RowsGone
  <2> QED BY <2>1, <2>2
<1>6. LoaderTypes' /\ MarkerInv'
  BY <1>0, <1>3, <1>5 DEF LoaderInv, LoaderTypes, MarkerInv
<1>7. RunInv'
  BY <1>0, <1>2, <1>3 DEF LoaderInv, RunInv
<1>8. ProgressInv'
  <2>1. \A k \in run'.cleared \ {Key'} : rows'[k] = NoRows
    BY <1>0, <1>1, <1>3, <1>4, <1>5
  <2>2. next = "insert" =>
          /\ KindOf[File]' # "defect" /\ run'.i \in 1..4 /\ (KindOf[File]' = "breaks" => run'.i <= 2)
          /\ \A j \in 1..4 : rows'[Key'][j] = IF j < run'.i THEN <<run'.dec>> ELSE <<>>
    BY <1>3, <1>4, <1>5, RowsGone
  <2>3. next = "marker" => Rowed(File, run.dec)'
    BY <1>1, <1>4, <1>5 DEF Rowed
  <2> HIDE DEF next
  <2> QED BY <1>2, <1>3, <2>1, <2>2, <2>3 DEF ProgressInv
<1>9. RowsInv'
  BY <1>0, <1>1, <1>5, RowsOfOthers
<1> QED BY <1>6, <1>7, <1>8, <1>9 DEF LoaderInv

LEMMA InsertKeeps == LoaderInv /\ Insert => LoaderInv'
<1> SUFFICES ASSUME LoaderInv, Insert PROVE LoaderInv'
  OBVIOUS
<1>0. /\ run.pc = "insert" /\ run.todo # {} /\ UNCHANGED <<arrived, catalog, marker>>
      /\ run \in RunRecords /\ rows \in [Keys -> Slots]
      /\ \A k \in run.cleared \ {Key} : rows[k] = NoRows
      /\ KindOf[File] # "defect" /\ run.i \in 1..4 /\ (KindOf[File] = "breaks" => run.i <= 2)
      /\ \A j \in 1..4 : rows[Key][j] = IF j < run.i THEN <<run.dec>> ELSE <<>>
  BY DEF Insert, LoaderInv, LoaderTypes, RunInv, ProgressInv
<1>1. /\ File \in run.todo /\ File \in Files /\ Key = KeyOf[File] /\ Key \in Keys
      /\ KindOf[File] \in {"good", "defect", "breaks"} /\ run.cleared \subseteq Keys /\ run.dec \in Nat
  BY <1>0, AtWork
<1> DEFINE breaks == KindOf[File] = "breaks" /\ run.i = 2
           last == run.i = 4
<1>2. /\ run' \in RunRecords /\ run'.cat = run.cat /\ run'.dec = run.dec
      /\ run'.todo = run.todo /\ run'.cleared = run.cleared
      /\ run'.pc = IF breaks \/ last THEN "marker" ELSE "insert"
      /\ ~breaks => run'.i = run.i + 1
  <2>1. CASE breaks
    <3>1. run' = [run EXCEPT !.pc = "marker"]
      BY <2>1 DEF Insert, Become
    <3> QED BY <1>0, <2>1, <3>1 DEF RunRecords, RunPcs
  <2>2. CASE ~breaks
    <3> DEFINE pc == IF last THEN "marker" ELSE "insert"
    <3>1. run' = [run EXCEPT !.i = @ + 1, !.pc = pc]
      BY <2>2, RowsGone DEF Insert, Become
    <3>2. pc \in RunPcs /\ pc = IF breaks \/ last THEN "marker" ELSE "insert"
      BY <2>2 DEF RunPcs
    <3> HIDE DEF pc
    <3>3. run.i + 1 \in Nat
      BY <1>0
    <3>4. /\ run' \in RunRecords /\ run'.cat = run.cat /\ run'.dec = run.dec
          /\ run'.todo = run.todo /\ run'.cleared = run.cleared
          /\ run'.pc = pc /\ run'.i = run.i + 1
      BY <1>0, <3>1, <3>2, <3>3 DEF RunRecords
    <3> QED BY <3>2, <3>4
  <2> QED BY <2>1, <2>2
<1>3. File' = File /\ Key' = Key
  BY <1>2 DEF File, Key
<1>4. /\ rows' \in [Keys -> Slots]
      /\ \A k \in Keys : k # Key => rows'[k] = rows[k]
      /\ breaks => rows'[Key] = NoRows
      /\ ~breaks => \A j \in 1..4 : rows'[Key][j] = IF j < run.i + 1 THEN <<run.dec>> ELSE <<>>
  <2>1. CASE breaks
    <3>1. Delete(DOMAIN NoRows, {Key})
      BY <2>1 DEF Insert
    <3>2. /\ rows' \in [Keys -> Slots]
          /\ \A k \in Keys : k \notin {Key} => rows'[k] = rows[k]
          /\ \A k \in Keys, p \in 1..4 :
                k \in {Key} => rows'[k][p] = IF p \in DOMAIN NoRows THEN <<>> ELSE rows[k][p]
      BY <1>0, <3>1, Deletes
    <3>3. \A p \in 1..4 : rows'[Key][p] = <<>>
      BY <1>1, <3>2, RowsGone
    <3> QED BY <1>1, <2>1, <3>2, <3>3, RowsGone
  <2>2. CASE ~breaks
    <3>1. rows' = [rows EXCEPT ![Key][run.i] = Append(@, run.dec)]
      BY <2>2 DEF Insert
    <3>2. rows[Key] \in Slots /\ rows[Key][run.i] = <<>>
      BY <1>0, <1>1
    <3>3. Append(<<>>, run.dec) = <<run.dec>> /\ <<run.dec>> \in Lists
      BY <1>1 DEF Lists
    <3> DEFINE new == [rows[Key] EXCEPT ![run.i] = <<run.dec>>]
    <3>4. rows' = [rows EXCEPT ![Key] = new]
      BY <3>1, <3>2, <3>3
    <3>5. new \in Slots /\ \A j \in 1..4 : new[j] = IF j < run.i + 1 THEN <<run.dec>> ELSE <<>>
      <4>1. new \in Slots
        BY <1>0, <3>2, <3>3 DEF Slots
      <4>2. new[run.i] = <<run.dec>> /\ \A j \in 1..4 : j # run.i => new[j] = rows[Key][j]
        BY <1>0, <3>2 DEF Slots
      <4> QED BY <1>0, <4>1, <4>2
    <3> HIDE DEF new
    <3> QED BY <1>0, <1>1, <2>2, <3>4, <3>5
  <2> QED BY <2>1, <2>2
<1>5. LoaderTypes' /\ MarkerInv'
  BY <1>0, <1>2, <1>4 DEF LoaderInv, LoaderTypes, MarkerInv
<1>6. RunInv'
  BY <1>0, <1>2 DEF LoaderInv, RunInv
<1>7. ProgressInv'
  <2>1. \A k \in run'.cleared \ {Key'} : rows'[k] = NoRows
    BY <1>0, <1>1, <1>2, <1>3, <1>4
  <2>2. run'.pc = "insert" =>
          /\ KindOf[File]' # "defect" /\ run'.i \in 1..4 /\ (KindOf[File]' = "breaks" => run'.i <= 2)
          /\ \A j \in 1..4 : rows'[Key'][j] = IF j < run'.i THEN <<run'.dec>> ELSE <<>>
    BY <1>0, <1>2, <1>3, <1>4
  <2>3. run'.pc = "marker" => Rowed(File, run.dec)'
    <3>1. CASE breaks
      BY <1>1, <1>3, <1>4, <3>1 DEF Rowed
    <3>2. CASE ~breaks /\ last
      <4>1. KindOf[File] = "good"
        BY <1>0, <1>1, <3>2
      <4>2. \A j \in 1..4 : rows'[Key][j] = <<run.dec>>
        BY <1>4, <3>2
      <4> QED BY <1>1, <1>2, <1>3, <4>1, <4>2, RowsGone DEF Rowed, Loaded
    <3> QED BY <1>2, <3>1, <3>2
  <2> QED BY <1>2, <2>1, <2>2, <2>3 DEF ProgressInv
<1>8. RowsInv'
  BY <1>0, <1>1, <1>4, RowsOfOthers
<1> QED BY <1>5, <1>6, <1>7, <1>8 DEF LoaderInv

(* The marker: it names the rules the run was started with, and the rows   *)
(* are those of the rules it read after that; if the former are in force,  *)
(* so are the latter.                                                      *)
LEMMA MarkKeeps == LoaderInv /\ Mark => LoaderInv'
<1> SUFFICES ASSUME LoaderInv, Mark PROVE LoaderInv'
  OBVIOUS
<1> DEFINE m == [result |-> IF KindOf[File] = "good" THEN "ok" ELSE "defect", catalog |-> run.cat]
<1>0. /\ run.pc = "marker" /\ run.todo # {} /\ UNCHANGED <<arrived, catalog, rows>>
      /\ run \in RunRecords /\ marker \in [Files -> Marks \cup {None}]
      /\ marker' = [marker EXCEPT ![File] = m]
      /\ run' = [run EXCEPT !.pc = "file", !.todo = @ \ {File}, !.cleared = @ \ {Key}, !.i = 1]
      /\ \A k \in run.cleared \ {Key} : rows[k] = NoRows
      /\ Rowed(File, run.dec)
  BY DEF Mark, LoaderInv, LoaderTypes, RunInv, ProgressInv, Become
<1>1. /\ File \in run.todo /\ File \in Files /\ File \in arrived /\ Key = KeyOf[File] /\ Key \in Keys
      /\ run.cat \in Nat /\ run.dec \in Nat /\ catalog \in Nat
      /\ run.cat <= run.dec /\ run.dec <= catalog /\ run.cleared \subseteq Keys
  BY <1>0, AtWork
<1>2. m \in Marks /\ m.catalog = run.cat /\ m.result = IF KindOf[File] = "good" THEN "ok" ELSE "defect"
  BY <1>1 DEF Marks
<1> HIDE DEF m
<1>3. /\ run' \in RunRecords /\ run'.pc = "file" /\ run'.cat = run.cat /\ run'.dec = run.dec
      /\ run'.todo = run.todo \ {File} /\ run'.cleared = run.cleared \ {Key}
  BY <1>0 DEF RunRecords, RunPcs
<1>4. /\ marker' \in [Files -> Marks \cup {None}] /\ marker'[File] = m
      /\ \A f \in Files : f # File => marker'[f] = marker[f]
  BY <1>0, <1>1, <1>2
<1>5. LoaderTypes'
  BY <1>0, <1>3, <1>4 DEF LoaderInv, LoaderTypes
<1>6. MarkerInv'
  BY <1>0, <1>1, <1>2, <1>4 DEF LoaderInv, MarkerInv
<1>7. RunInv'
  <2>1. \A f \in Files : marker'[f] # None => marker'[f].catalog <= run'.cat
    BY <1>0, <1>1, <1>2, <1>3, <1>4 DEF LoaderInv, RunInv
  <2>2. \A f \in run'.todo : marker'[f] = None \/ marker'[f].catalog < run'.cat
    <3>1. run.todo \subseteq Files
      BY <1>0 DEF RunRecords
    <3> QED BY <1>0, <1>3, <1>4, <3>1 DEF LoaderInv, RunInv
  <2>3. \A k \in run'.cleared : \E f \in run'.todo : KeyOf[f] = k
    <3>1. ASSUME NEW k \in run.cleared, k # Key PROVE \E f \in run.todo : f # File /\ KeyOf[f] = k
      BY <1>0, <1>1, <3>1 DEF LoaderInv, RunInv
    <3> QED BY <1>3, <3>1
  <2> QED BY <1>0, <1>1, <1>3, <2>1, <2>2, <2>3 DEF LoaderInv, RunInv
<1>8. ProgressInv'
  BY <1>0, <1>3 DEF ProgressInv
<1>9. RowsInv'
  <2> SUFFICES ASSUME NEW f \in arrived, \A g \in Pending(catalog)' : KeyOf[g] # KeyOf[f]
               PROVE  Rowed(f, catalog)
    BY <1>0 DEF RowsInv, Rowed, Loaded
  <2>0. f \in Files /\ arrived \subseteq Files
    BY DEF LoaderInv, LoaderTypes
  <2>1. CASE KeyOf[f] = Key
    <3>1. File \notin Pending(catalog)'
      BY <1>1, <2>1
    <3>2. run.cat = catalog
      BY <1>0, <1>1, <1>2, <1>4, <3>1 DEF Pending
    <3>3. run.dec = catalog
      BY <1>1, <3>2
    <3>4. KindOf[f] = KindOf[File]
      BY <1>1, <2>0, <2>1, LoaderAssumption
    <3> QED BY <1>0, <1>1, <2>1, <3>3, <3>4 DEF Rowed
  <2>2. CASE KeyOf[f] # Key
    <3>1. ASSUME NEW g \in Pending(catalog) PROVE KeyOf[g] # KeyOf[f]
      <4>1. CASE g = File
        BY <1>1, <2>2, <4>1
      <4>2. CASE g # File
        <5>1. g \in Pending(catalog)'
          BY <1>0, <1>4, <2>0, <4>2 DEF Pending
        <5> QED BY <5>1
      <4> QED BY <4>1, <4>2
    <3> QED BY <3>1 DEF LoaderInv, RowsInv
  <2> QED BY <2>1, <2>2
<1> QED BY <1>5, <1>6, <1>7, <1>8, <1>9 DEF LoaderInv

LEMMA ArrivesKeeps == LoaderInv /\ Arrives => LoaderInv'
<1> SUFFICES ASSUME LoaderInv, Arrives PROVE LoaderInv'
  OBVIOUS
<1> PICK f \in Files \ arrived : arrived' = arrived \cup {f}
  BY DEF Arrives
<1>0. UNCHANGED <<catalog, rows, marker, run>> /\ marker[f] = None
  BY DEF Arrives, LoaderInv, MarkerInv
<1>1. LoaderTypes' /\ MarkerInv' /\ RunInv'
  BY <1>0 DEF LoaderInv, LoaderTypes, MarkerInv, RunInv
<1>2. ProgressInv'
  BY <1>0 DEF LoaderInv, ProgressInv, Rowed, Loaded, Key, File
<1>3. Pending(catalog)' = Pending(catalog) \cup {f}
  BY <1>0 DEF Pending
<1>4. RowsInv'
  BY <1>0, <1>3 DEF LoaderInv, RowsInv, Rowed, Loaded
<1> QED BY <1>1, <1>2, <1>4 DEF LoaderInv

(* New rules, which no earlier content equals: every file is pending.      *)
LEMMA EditKeeps == ~Reverts /\ LoaderInv /\ Edit => LoaderInv'
<1> SUFFICES ASSUME ~Reverts, LoaderInv, Edit PROVE LoaderInv'
  OBVIOUS
<1>0. UNCHANGED <<arrived, rows, marker, run>> /\ catalog' \in Nat /\ catalog \in Nat /\ catalog' > catalog
  BY LoaderAssumption DEF Edit, LoaderInv, MarkerInv
<1>1. LoaderTypes' /\ ProgressInv'
  BY <1>0 DEF LoaderInv, LoaderTypes, ProgressInv, Rowed, Loaded, Key, File
<1>2. MarkerInv' /\ RunInv'
  <2>1. \A n \in Nat : n <= catalog => n <= catalog'
    BY <1>0
  <2> QED BY <1>0, <2>1 DEF LoaderInv, MarkerInv, RunInv
<1>3. RowsInv'
  <2>1. ASSUME NEW f \in arrived PROVE f \in Pending(catalog)'
    <3>1. f \in Files /\ (marker[f] # None => marker[f].catalog \in Nat /\ marker[f].catalog <= catalog)
      BY DEF LoaderInv, LoaderTypes, MarkerInv
    <3> QED BY <1>0, <3>1 DEF Pending
  <2> QED BY <1>0, <2>1 DEF RowsInv
<1> QED BY <1>1, <1>2, <1>3 DEF LoaderInv

LEMMA StepLoader == ~Reverts /\ LoaderInv /\ [LoaderNext]_loaderVars => LoaderInv'
<1> SUFFICES ASSUME ~Reverts, LoaderInv, [LoaderNext]_loaderVars PROVE LoaderInv'
  OBVIOUS
<1>1. CASE UNCHANGED loaderVars
  BY <1>1 DEF loaderVars, LoaderInv, LoaderTypes, MarkerInv, RunInv, ProgressInv, RowsInv, Rowed,
              Loaded, Pending, Key, File
<1>2. CASE Finish \/ Dies
  BY <1>2, RunEnds DEF Finish, Dies, Become
<1> QED
  BY <1>1, <1>2, HashKeeps, RulesKeeps, ClearKeeps, LoadBeginsKeeps, InsertKeeps, MarkKeeps,
     ArrivesKeeps, EditKeeps DEF LoaderNext, RunStep

(* However often runs die, at any statement, and whatever files arrive and *)
(* rules are edited meanwhile: as long as the rules do not go back to an   *)
(* earlier content, a file that counts as loaded has its rows exactly once *)
(* and by the present rules, and a defect has none.                        *)
THEOREM LoaderTheorem == ~Reverts /\ LoaderSpec => []MarkedIsLoaded
<1> SUFFICES ASSUME ~Reverts PROVE LoaderSpec => []MarkedIsLoaded
  OBVIOUS
<1>1. LoaderInv => MarkedIsLoaded
  <2> SUFFICES ASSUME LoaderInv, NEW f \in arrived, marker[f] # None, marker[f].catalog = catalog,
                      \A g \in Pending(catalog) : KeyOf[g] # KeyOf[f]
               PROVE  \/ marker[f].result = "ok" /\ Loaded(KeyOf[f], catalog)
                      \/ marker[f].result = "defect" /\ rows[KeyOf[f]] = NoRows
    BY DEF MarkedIsLoaded
  <2>1. f \in Files /\ Rowed(f, catalog)
    BY DEF LoaderInv, LoaderTypes, RowsInv
  <2>2. marker[f].result = IF KindOf[f] = "good" THEN "ok" ELSE "defect"
    BY <2>1 DEF LoaderInv, MarkerInv
  <2> QED BY <2>1, <2>2 DEF Rowed
<1>2. LoaderInv /\ [LoaderNext]_loaderVars => LoaderInv'
  BY StepLoader
<1> QED BY <1>1, <1>2, InitLoader, PTL DEF LoaderSpec

=============================================================================
