----------------------------- MODULE SharedProofs ----------------------------
(***************************************************************************)
(* The structures shared by interrupt and loop.  ObserveRing is a bounded  *)
(* FIFO for every depth that divides the range of its counters: the        *)
(* counters wrap, the order of the records does not.  SnapshotRing never   *)
(* returns a torn snapshot, however producer and reader interleave.  The   *)
(* double bank of a rule is never seen torn, for any number of bytes, any  *)
(* declared bits and any sequence of automation actions.                   *)
(***************************************************************************)
EXTENDS ObserveRing, SnapshotRing, RulePatch, SequenceTheorems, TLAPS

(* What a power-of-two depth gives: the slot index is continuous where the *)
(* counters wrap.                                                          *)
DepthDividesWrap == \E k \in Nat : Wrap = Depth * k

-----------------------------------------------------------------------------
(* Arithmetic modulo n.                                                    *)

LEMMA ModRange ==
  ASSUME NEW x \in Int, NEW n \in Nat \ {0}
  PROVE  /\ x % n \in 0..(n - 1)
         /\ x \div n \in Int
         /\ x = n * (x \div n) + (x % n)
OBVIOUS

LEMMA ModUnique ==
  ASSUME NEW x \in Int, NEW n \in Nat \ {0}, NEW q \in Int, NEW r \in 0..(n - 1),
         x = n * q + r
  PROVE  x % n = r
OBVIOUS

LEMMA ModSmall ==
  ASSUME NEW n \in Nat \ {0}, NEW x \in 0..(n - 1)
  PROVE  x % n = x
OBVIOUS

LEMMA ModOnce ==
  ASSUME NEW n \in Nat \ {0}, NEW x \in n..(2 * n - 1)
  PROVE  x % n = x - n
OBVIOUS

(* A multiple of n less than n apart from zero is zero.                    *)
LEMMA MultipleBelow ==
  ASSUME NEW n \in Nat \ {0}, NEW d \in Int, n * d < n, 0 - n < n * d
  PROVE  d = 0
OBVIOUS

(* Fewer than n apart and equal modulo n: equal.                           *)
LEMMA ModInjective ==
  ASSUME NEW x \in Int, NEW y \in Int, NEW n \in Nat \ {0},
         x % n = y % n, x - y < n, y - x < n
  PROVE  x = y
<1> DEFINE a == x \div n
           b == y \div n
           r == x % n
<1>1. a \in Int /\ b \in Int /\ r \in Int /\ x = n * a + r /\ y = n * b + r
  BY ModRange
<1> HIDE DEF a, b, r
<1>2. n * (a - b) = x - y
  BY <1>1
<1>3. a - b = 0
  BY <1>1, <1>2, MultipleBelow
<1> QED
  BY <1>1, <1>3

(* Adding a multiple of n changes nothing modulo n.                        *)
LEMMA ModShift ==
  ASSUME NEW x \in Int, NEW n \in Nat \ {0}, NEW k \in Int
  PROVE  (x + n * k) % n = x % n
<1> DEFINE a == x \div n
           r == x % n
<1>1. a \in Int /\ r \in 0..(n - 1) /\ x = n * a + r
  BY ModRange
<1> HIDE DEF a, r
<1>2. x + n * k = n * (a + k) + r
  BY <1>1
<1>3. (x + n * k) % n = r
  BY <1>1, <1>2, ModUnique
<1> QED
  BY <1>3 DEF r

-----------------------------------------------------------------------------
(* The counter that is i places after head, and its slot.                  *)
LEMMA CounterAfter ==
  ASSUME NEW c \in Counters, NEW i \in 0..Depth
  PROVE  (c + i) % Wrap = (IF c + i < Wrap THEN c + i ELSE c + i - Wrap)
<1>1. CASE c + i < Wrap
  BY <1>1, RingAssumption, ModSmall DEF Counters
<1>2. CASE ~(c + i < Wrap)
  <2>1. c + i \in Wrap..(2 * Wrap - 1) /\ Wrap \in Nat \ {0}
    BY <1>2, RingAssumption DEF Counters
  <2>2. \A x \in Wrap..(2 * Wrap - 1) : x % Wrap = x - Wrap
    BY <2>1, ModOnce
  <2>3. (c + i) % Wrap = (c + i) - Wrap
    BY <2>1, <2>2, Zenon
  <2>4. (IF c + i < Wrap THEN c + i ELSE c + i - Wrap) = (c + i) - Wrap
    BY <1>2, RingAssumption DEF Counters
  <2> QED BY <2>3, <2>4, Zenon
<1> QED BY <1>1, <1>2

(* The counters and the depth as integers.                                 *)
LEMMA CounterFacts ==
  ASSUME NEW c \in Counters, NEW i \in 0..Depth
  PROVE  /\ c \in Int /\ i \in Int /\ 0 <= c /\ c < Wrap
         /\ Wrap \in Nat \ {0} /\ Depth \in Nat \ {0} /\ Depth < Wrap
         /\ i \in 0..(Wrap - 1) /\ c + i \in Int /\ c + i - Wrap \in Int
BY RingAssumption DEF Counters

(* With a depth that divides Wrap, reducing a counter first makes no       *)
(* difference to its slot.                                                 *)
LEMMA SlotAfter ==
  ASSUME DepthDividesWrap, NEW c \in Counters, NEW i \in 0..Depth
  PROVE  ((c + i) % Wrap) % Depth = (c + i) % Depth
<1>1. PICK k \in Nat : Wrap = Depth * k
  BY DEF DepthDividesWrap
<1>2. CASE c + i < Wrap
  BY <1>2, CounterAfter
<1>3. CASE ~(c + i < Wrap)
  <2>1. (c + i) % Wrap = c + i - Wrap /\ c + i - Wrap \in Int /\ c + i \in Int
    <3>1. (c + i) % Wrap = (IF c + i < Wrap THEN c + i ELSE c + i - Wrap)
      BY CounterAfter
    <3> QED BY <1>3, <3>1, CounterFacts, Zenon
  <2> DEFINE y == c + i - Wrap
  <2>2. c + i = y + Depth * k /\ y \in Int /\ Depth \in Nat \ {0} /\ k \in Int
    BY <1>1, CounterFacts
  <2> HIDE DEF y
  <2>3. (y + Depth * k) % Depth = y % Depth
    BY <2>2, ModShift
  <2>4. (c + i) % Depth = y % Depth
    BY <2>2, <2>3, Zenon
  <2> QED BY <2>1, <2>4, Zenon DEF y
<1> QED BY <1>2, <1>3

(* The distance between two counters that are i apart is i.                *)
LEMMA Distance ==
  ASSUME NEW c \in Counters, NEW i \in 0..Depth
  PROVE  (((c + i) % Wrap) - c) % Wrap = i
<1> DEFINE m == (c + i) % Wrap
<1>1. m = (IF c + i < Wrap THEN c + i ELSE c + i - Wrap)
  BY CounterAfter
<1> HIDE DEF m
<1>2. CASE c + i < Wrap
  <2>1. m - c = i /\ i \in 0..(Wrap - 1) /\ Wrap \in Nat \ {0}
    BY <1>1, <1>2, CounterFacts
  <2> QED BY <2>1, ModSmall DEF m
<1>3. CASE ~(c + i < Wrap)
  <2>1. /\ m - c = Wrap * (0 - 1) + i
        /\ i \in 0..(Wrap - 1) /\ Wrap \in Nat \ {0} /\ m - c \in Int /\ 0 - 1 \in Int
    BY <1>1, <1>3, CounterFacts
  <2>2. (m - c) % Wrap = i
    BY <2>1, ModUnique
  <2> QED BY <2>2 DEF m
<1> QED BY <1>2, <1>3

(* Counting on from the next counter is counting on by one more.           *)
LEMMA NextCounter ==
  ASSUME NEW c \in Counters, NEW i \in 0..(Depth - 1)
  PROVE  /\ Plus1(c) \in Counters
         /\ (Plus1(c) + i) % Wrap = (c + (i + 1)) % Wrap
<1>1. /\ 1 \in 0..Depth /\ i \in 0..Depth /\ i + 1 \in 0..Depth /\ c \in Int
      /\ Wrap \in Nat /\ Depth \in Nat /\ Depth < Wrap /\ 1 < Wrap
  BY RingAssumption DEF Counters
<1>2. Plus1(c) = (IF c + 1 < Wrap THEN c + 1 ELSE c + 1 - Wrap)
  BY <1>1, CounterAfter DEF Plus1
<1>3. Plus1(c) \in Counters
  BY <1>1, <1>2 DEF Counters
<1>4. (Plus1(c) + i) % Wrap = (IF Plus1(c) + i < Wrap THEN Plus1(c) + i ELSE Plus1(c) + i - Wrap)
  BY <1>1, <1>3, CounterAfter
<1>5. (c + (i + 1)) % Wrap = (IF c + (i + 1) < Wrap THEN c + (i + 1) ELSE c + (i + 1) - Wrap)
  BY <1>1, CounterAfter
<1> QED BY <1>1, <1>2, <1>3, <1>4, <1>5 DEF Counters

-----------------------------------------------------------------------------
(* The inductive invariant: tail_ is as far ahead of head_ as there are    *)
(* unread records, each of them is in its slot, and pop() works on the     *)
(* head it loaded, which only pop() moves.                                 *)
RingInv ==
  /\ RingTypeOK
  /\ Len(accepted) <= Depth
  /\ tail = (head + Len(accepted)) % Wrap
  /\ \A i \in 1..Len(accepted) : entries[(head + (i - 1)) % Depth] = accepted[i]
  /\ ringPc \in {"copy", "advance"} => h = head /\ accepted # <<>>
  /\ ringPc \in {"load", "copy", "advance", "dispatch"} =>
       drained <= MaxPerLoop /\ (ringPc # "load" => drained < MaxPerLoop)
  /\ CopyIsOldest

LEMMA InitRing == RingInit => RingInv
<1> SUFFICES ASSUME RingInit PROVE RingInv
  OBVIOUS
<1> USE DEF RingInit
<1>1. RingTypeOK
  BY RingAssumption DEF RingTypeOK, Counters, RingSlots
<1>2. tail = (head + Len(accepted)) % Wrap
  <2>1. (0 + 0) % Wrap = 0
    BY RingAssumption, ModSmall
  <2> QED BY <2>1
<1> QED
  BY <1>1, <1>2, RingAssumption DEF RingInv, CopyIsOldest

(* What the invariant says of the occupancy test in push().                *)
LEMMA OccupancyIsLength ==
  ASSUME RingInv
  PROVE  Occupancy = Len(accepted) /\ Len(accepted) \in 0..Depth
<1>1. Len(accepted) \in 0..Depth /\ head \in Counters /\ tail = (head + Len(accepted)) % Wrap
  BY RingAssumption DEF RingInv, RingTypeOK
<1> QED
  BY <1>1, Distance DEF Occupancy

(* A push goes to a slot that no unread record is in.                      *)
LEMMA PushRing ==
  ASSUME DepthDividesWrap, RingInv, NEW r \in Records, RingPush(r)
  PROVE  RingInv'
<1> DEFINE n == Len(accepted)
<1>0. /\ RingTypeOK /\ n \in 0..Depth /\ Occupancy = n /\ head \in Counters /\ head \in Int
      /\ n \in Nat /\ Depth \in Nat \ {0} /\ Wrap \in Nat \ {0}
      /\ accepted \in Seq(Records) /\ tail = (head + n) % Wrap
      /\ UNCHANGED <<head, ringPc, h, copied, drained, delivered>>
  BY OccupancyIsLength, RingAssumption DEF RingInv, RingTypeOK, Counters, RingPush
<1>1. CASE Occupancy >= Depth
  <2>1. UNCHANGED <<entries, head, tail, ringPc, h, copied, drained, delivered, accepted>> /\ shed' \in Nat
    BY <1>0, <1>1 DEF RingPush, RingTypeOK
  <2> QED BY <2>1 DEF RingInv, RingTypeOK, CopyIsOldest
<1>2. CASE ~(Occupancy >= Depth)
  <2>1. /\ entries' = [entries EXCEPT ![tail % Depth] = r]
        /\ tail' = Plus1(tail) /\ accepted' = Append(accepted, r) /\ shed' = shed
    BY <1>2 DEF RingPush
  <2>2. n \in 0..(Depth - 1)
    BY <1>0, <1>2
  <2>3. tail % Depth = (head + n) % Depth
    BY <1>0, SlotAfter
  <2>4. /\ Len(accepted') = n + 1 /\ accepted' \in Seq(Records)
        /\ \A i \in 1..n : accepted'[i] = accepted[i]
        /\ accepted'[n + 1] = r /\ accepted' # <<>>
    BY <1>0, <2>1
  <2>5. \A x \in Int : x % Depth \in RingSlots
    BY <1>0, ModRange DEF RingSlots
  <2>6. entries' \in [RingSlots -> Records \cup {NoRecord}] /\ entries'[(head + n) % Depth] = r
    <3>0. head + n \in Int
      BY <1>0
    <3>1. (head + n) % Depth \in RingSlots
      BY <2>5, <3>0, Zenon
    <3> QED BY <1>0, <2>1, <2>3, <3>1, Zenon DEF RingTypeOK
  <2>7. tail' = (head + (n + 1)) % Wrap /\ tail' \in Counters
    <3>1. tail \in Counters /\ 0 \in 0..(Depth - 1) /\ 1 \in 0..Depth
      BY <1>0 DEF RingTypeOK
    <3>2. Plus1(tail) \in Counters
      BY <3>1, NextCounter
    <3>3. Plus1(tail) = (head + (n + 1)) % Wrap
      <4>1. tail = (IF head + n < Wrap THEN head + n ELSE head + n - Wrap)
        BY <1>0, CounterAfter
      <4>2. Plus1(tail) = (IF tail + 1 < Wrap THEN tail + 1 ELSE tail + 1 - Wrap)
        BY <3>1, CounterAfter DEF Plus1
      <4>3. n + 1 \in 0..Depth
        BY <1>0, <2>2
      <4>4. (head + (n + 1)) % Wrap
              = (IF head + (n + 1) < Wrap THEN head + (n + 1) ELSE head + (n + 1) - Wrap)
        BY <1>0, <4>3, CounterAfter
      <4>5. head < Wrap /\ 0 <= head /\ Depth < Wrap
        BY <1>0, RingAssumption DEF Counters
      <4> DEFINE p == Plus1(tail)
                 m == (head + (n + 1)) % Wrap
      <4>6. /\ p = (IF tail + 1 < Wrap THEN tail + 1 ELSE tail + 1 - Wrap)
            /\ m = (IF head + (n + 1) < Wrap THEN head + (n + 1) ELSE head + (n + 1) - Wrap)
        BY <4>2, <4>4
      <4> HIDE DEF p, m, n
      <4>7. p = m
        BY <1>0, <2>2, <4>1, <4>5, <4>6
      <4> QED BY <4>7 DEF p, m, n
    <3> QED BY <2>1, <3>2, <3>3
  <2>8. ASSUME NEW i \in 1..n
        PROVE  entries'[(head + (i - 1)) % Depth] = accepted'[i]
    <3> DEFINE x == head + (i - 1)
               y == head + n
    <3>1. x \in Int /\ y \in Int /\ x - y < Depth /\ y - x < Depth /\ x # y
      BY <1>0, <2>2
    <3> HIDE DEF x, y
    <3>2. x % Depth # y % Depth
      BY <1>0, <3>1, ModInjective
    <3>3. x % Depth \in RingSlots
      BY <2>5, <3>1
    <3>4. entries'[x % Depth] = entries[x % Depth]
      BY <1>0, <2>1, <2>3, <3>2, <3>3 DEF RingTypeOK, y
    <3>5. entries[x % Depth] = accepted[i]
      BY DEF RingInv, x
    <3> QED BY <2>4, <3>4, <3>5 DEF x
  <2>9. \A i \in 1..Len(accepted') : entries'[(head' + (i - 1)) % Depth] = accepted'[i]
    <3>1. 1..Len(accepted') = 1..n \cup {n + 1}
      BY <1>0, <2>4
    <3>2. head' = head /\ head + ((n + 1) - 1) = head + n
      BY <1>0
    <3>3. entries'[(head + ((n + 1) - 1)) % Depth] = accepted'[n + 1]
      BY <2>4, <2>6, <3>2
    <3> QED BY <2>8, <3>1, <3>2, <3>3, Zenon
  <2>10. RingTypeOK'
    BY <1>0, <2>1, <2>4, <2>6, <2>7 DEF RingTypeOK
  <2>11. CopyIsOldest'
    <3>1. accepted # <<>> => Head(accepted') = Head(accepted)
      BY <1>0, <2>1
    <3> QED BY <1>0, <2>4, <3>1 DEF RingInv, CopyIsOldest
  <2>12. Len(accepted') <= Depth
    BY <1>0, <2>2, <2>4
  <2>13. tail' = (head' + Len(accepted')) % Wrap
    BY <1>0, <2>4, <2>7
  <2>14. /\ ringPc' \in {"copy", "advance"} => h' = head' /\ accepted' # <<>>
         /\ ringPc' \in {"load", "copy", "advance", "dispatch"} =>
              drained' <= MaxPerLoop /\ (ringPc' # "load" => drained' < MaxPerLoop)
    BY <1>0, <2>4 DEF RingInv
  <2> QED BY <2>9, <2>10, <2>11, <2>12, <2>13, <2>14 DEF RingInv
<1> QED BY <1>1, <1>2

(* The consumer's steps: only the store of head_ changes what is unread.   *)
LEMMA ConsumeRing ==
  ASSUME DepthDividesWrap, RingInv, Consume
  PROVE  RingInv'
<1>0. /\ RingTypeOK /\ Len(accepted) \in Nat /\ accepted \in Seq(Records)
      /\ Depth \in Nat \ {0} /\ Wrap \in Nat \ {0} /\ head \in Counters /\ head \in Int
      /\ Len(accepted) <= Depth /\ MaxPerLoop \in Nat \ {0} /\ drained \in Nat
  BY RingAssumption DEF RingInv, RingTypeOK, Counters
<1>1. CASE DrainBegin \/ Dispatch
  <2>1. UNCHANGED <<entries, head, tail, h, copied, delivered, shed, accepted>> /\ ringPc' = "load"
    BY <1>1 DEF DrainBegin, Dispatch
  <2>2. drained' \in 0..MaxPerLoop
    BY <1>0, <1>1 DEF DrainBegin, Dispatch, RingInv
  <2>3. RingTypeOK'
    BY <1>0, <2>1, <2>2 DEF RingTypeOK
  <2> QED BY <1>0, <2>1, <2>2, <2>3 DEF RingInv, CopyIsOldest
<1>2. CASE PopLoad
  <2>1. /\ UNCHANGED <<entries, head, tail, copied, drained, delivered, shed, accepted>>
        /\ h' = head /\ ringPc = "load"
        /\ ringPc' = IF drained < MaxPerLoop /\ head # tail THEN "copy" ELSE "idle"
    BY <1>2 DEF PopLoad
  <2>2. head # tail => accepted # <<>>
    <3>1. head % Wrap = head
      BY <1>0, ModSmall DEF Counters
    <3>2. accepted = <<>> => tail = (head + 0) % Wrap
      BY DEF RingInv
    <3>3. head + 0 = head
      BY <1>0
    <3> QED BY <3>1, <3>2, <3>3
  <2>3. RingTypeOK'
    BY <1>0, <2>1 DEF RingTypeOK
  <2> QED BY <1>0, <2>1, <2>2, <2>3 DEF RingInv, CopyIsOldest
<1>3. CASE PopCopy
  <2>1. /\ UNCHANGED <<entries, head, tail, h, drained, delivered, shed, accepted>>
        /\ ringPc = "copy" /\ ringPc' = "advance" /\ copied' = entries[h % Depth]
    BY <1>3 DEF PopCopy
  <2>2. h = head /\ accepted # <<>> /\ 1 \in 1..Len(accepted)
    BY <1>0, <2>1 DEF RingInv
  <2>3. entries[(head + (1 - 1)) % Depth] = accepted[1]
    BY <2>2 DEF RingInv
  <2>4. head + (1 - 1) = head /\ Head(accepted) = accepted[1] /\ Head(accepted) \in Records
    BY <1>0, <2>2
  <2>5. copied' = Head(accepted)
    BY <2>1, <2>2, <2>3, <2>4
  <2>6. RingTypeOK'
    BY <1>0, <2>1, <2>4, <2>5 DEF RingTypeOK
  <2> QED BY <1>0, <2>1, <2>2, <2>5, <2>6 DEF RingInv, CopyIsOldest
<1>4. CASE PopAdvance
  <2>1. /\ UNCHANGED <<entries, tail, h, copied, drained, shed>>
        /\ ringPc = "advance" /\ ringPc' = "dispatch" /\ head' = Plus1(h) /\ delivered' = <<copied>>
        /\ accepted' = Tail(accepted)
    BY <1>4 DEF PopAdvance
  <2>2. h = head /\ accepted # <<>> /\ drained < MaxPerLoop
    BY <2>1 DEF RingInv
  <2>3. /\ accepted' \in Seq(Records) /\ Len(accepted') = Len(accepted) - 1
        /\ \A i \in 1..(Len(accepted) - 1) : accepted'[i] = accepted[i + 1]
        /\ Len(accepted) - 1 \in 0..(Depth - 1)
    BY <1>0, <2>1, <2>2
  <2>4. head' \in Counters /\ tail' = (head' + Len(accepted')) % Wrap
    <3>1. /\ Plus1(head) \in Counters
          /\ (Plus1(head) + (Len(accepted) - 1)) % Wrap = (head + ((Len(accepted) - 1) + 1)) % Wrap
      BY <1>0, <2>3, NextCounter
    <3>2. (Len(accepted) - 1) + 1 = Len(accepted)
      BY <1>0
    <3> QED BY <2>1, <2>2, <2>3, <3>1, <3>2 DEF RingInv
  <2>5. ASSUME NEW i \in 1..Len(accepted')
        PROVE  entries'[(head' + (i - 1)) % Depth] = accepted'[i]
    <3>1. i - 1 \in 0..(Depth - 1) /\ i + 1 \in 1..Len(accepted) /\ i \in 0..Depth
          /\ i - 1 \in 0..Depth /\ (i - 1) + 1 = i /\ (i + 1) - 1 = i
      BY <1>0, <2>3
    <3>2. (Plus1(head) + (i - 1)) % Wrap = (head + ((i - 1) + 1)) % Wrap
      BY <1>0, <3>1, NextCounter
    <3>3. ((Plus1(head) + (i - 1)) % Wrap) % Depth = (Plus1(head) + (i - 1)) % Depth
      BY <2>1, <2>2, <2>4, <3>1, SlotAfter
    <3>4. ((head + i) % Wrap) % Depth = (head + i) % Depth
      BY <1>0, <3>1, SlotAfter
    <3>5. (head' + (i - 1)) % Depth = (head + i) % Depth
      BY <2>1, <2>2, <3>1, <3>2, <3>3, <3>4
    <3>6. entries[(head + ((i + 1) - 1)) % Depth] = accepted[i + 1]
      BY <3>1 DEF RingInv
    <3>7. accepted'[i] = accepted[i + 1]
      BY <2>3
    <3> QED BY <2>1, <3>1, <3>5, <3>6, <3>7
  <2>6. RingTypeOK'
    BY <1>0, <2>1, <2>3, <2>4 DEF RingTypeOK
  <2>7. Len(accepted') <= Depth
    BY <1>0, <2>3
  <2> QED BY <1>0, <2>1, <2>2, <2>4, <2>5, <2>6, <2>7 DEF RingInv, CopyIsOldest
<1> QED BY <1>1, <1>2, <1>3, <1>4 DEF Consume

LEMMA StepRing == DepthDividesWrap /\ RingInv /\ [RingNext]_ringVars => RingInv'
<1> SUFFICES ASSUME DepthDividesWrap, RingInv, [RingNext]_ringVars PROVE RingInv'
  OBVIOUS
<1>1. CASE \E r \in Records : RingPush(r)
  BY <1>1, PushRing
<1>2. CASE Consume
  BY <1>2, ConsumeRing
<1>3. CASE UNCHANGED ringVars
  BY <1>3 DEF ringVars, RingInv, RingTypeOK, CopyIsOldest
<1> QED BY <1>1, <1>2, <1>3 DEF RingNext

(* The ring's content is the unread records.                               *)
LEMMA ContentIsAccepted ==
  ASSUME DepthDividesWrap, RingInv
  PROVE  HoldsAccepted
<1>1. /\ Occupancy = Len(accepted) /\ Len(accepted) \in 0..Depth
      /\ accepted \in Seq(Records) /\ head \in Counters
  BY OccupancyIsLength DEF RingInv, RingTypeOK
<1>2. ASSUME NEW i \in 1..Len(accepted)
      PROVE  entries[((head + i - 1) % Wrap) % Depth] = accepted[i]
  <2>1. i - 1 \in 0..Depth /\ head + i - 1 = head + (i - 1)
    BY <1>1, RingAssumption DEF Counters
  <2>2. ((head + (i - 1)) % Wrap) % Depth = (head + (i - 1)) % Depth
    BY <1>1, <2>1, SlotAfter
  <2> QED BY <2>1, <2>2 DEF RingInv
<1>3. accepted = [i \in 1..Len(accepted) |-> accepted[i]]
  BY <1>1
<1> QED
  BY <1>1, <1>2, <1>3 DEF HoldsAccepted, RingContent

(* Whatever the interleaving of the interrupt and the drain, and wherever  *)
(* the counters wrap, the ring holds the accepted records in order and     *)
(* pop() copies the oldest of them.                                        *)
THEOREM RingKeepsOrder ==
  DepthDividesWrap => (RingSpec => [](HoldsAccepted /\ CopyIsOldest))
<1> SUFFICES ASSUME DepthDividesWrap PROVE RingSpec => [](HoldsAccepted /\ CopyIsOldest)
  OBVIOUS
<1>1. RingInit => RingInv
  BY InitRing
<1>2. RingInv /\ [RingNext]_ringVars => RingInv'
  BY StepRing
<1>3. RingInv => HoldsAccepted /\ CopyIsOldest
  BY ContentIsAccepted DEF RingInv
<1> QED
  BY <1>1, <1>2, <1>3, PTL DEF RingSpec

(* The ring implements the bounded FIFO: the store of tail_ is the moment  *)
(* of acceptance and the store of head_ the moment of delivery.            *)
THEOREM RingRefinesFifo == DepthDividesWrap => (RingSpec => RefinesFifo)
<1> SUFFICES ASSUME DepthDividesWrap PROVE RingSpec => RefinesFifo
  OBVIOUS
<1>1. RingInit => RingInv
  BY InitRing
<1>2. RingInv /\ [RingNext]_ringVars => RingInv'
  BY StepRing
<1>3. RingInv => HoldsAccepted
  BY ContentIsAccepted
<1>3a. RingInv' => HoldsAccepted'
  BY <1>3, PTL
<1>4. RingInit => Abstract!Init
  BY <1>1, <1>3 DEF HoldsAccepted, RingInit, Abstract!Init
<1>5. ASSUME RingInv, RingInv', [RingNext]_ringVars
      PROVE  [Abstract!Next]_<<RingContent, delivered, shed>>
  <2>0. /\ RingContent = accepted /\ RingContent' = accepted'
        /\ Occupancy = Len(accepted) /\ Len(accepted) \in 0..Depth /\ Depth \in Nat
    <3>1. RingContent = accepted
      BY <1>3, <1>5 DEF HoldsAccepted
    <3>2. RingContent' = accepted'
      BY <1>3a, <1>5 DEF HoldsAccepted
    <3> QED BY <1>5, <3>1, <3>2, OccupancyIsLength, RingAssumption
  <2>1. ASSUME NEW r \in Records, RingPush(r)
        PROVE  Abstract!Next
    <3>1. CASE Occupancy >= Depth
      BY <2>0, <2>1, <3>1 DEF RingPush, Abstract!Next, Abstract!Refuse
    <3>2. CASE ~(Occupancy >= Depth)
      BY <2>0, <2>1, <3>2 DEF RingPush, Abstract!Next, Abstract!Accept
    <3> QED BY <3>1, <3>2
  <2>2. CASE PopAdvance
    <3>1. accepted # <<>> /\ copied = Head(accepted)
      BY <1>5, <2>2 DEF RingInv, CopyIsOldest, PopAdvance
    <3> QED BY <2>0, <2>2, <3>1 DEF PopAdvance, Abstract!Next, Abstract!Deliver
  <2>3. CASE DrainBegin \/ PopLoad \/ PopCopy \/ Dispatch \/ UNCHANGED ringVars
    <3>1. UNCHANGED <<accepted, delivered, shed>>
      BY <2>3 DEF DrainBegin, PopLoad, PopCopy, Dispatch, ringVars
    <3> QED BY <2>0, <3>1
  <2> QED BY <1>5, <2>1, <2>2, <2>3 DEF RingNext, Consume
<1> QED
  BY <1>1, <1>2, <1>4, <1>5, PTL DEF RingSpec, RefinesFifo, Abstract!Spec

-----------------------------------------------------------------------------
(* SnapshotRing.  The inductive invariant of the producer: while it writes *)
(* an entry the entry's stamp is odd, stamps only grow, and an even stamp  *)
(* vouches for both halves of the value.                                   *)
SnapWriterInv ==
  /\ wpc # "idle" => headTicket < MaxPush
  /\ wpc \in {"lo", "hi", "even"} => stamp[PushSlot] = 2 * headTicket + 1
  /\ wpc \in {"hi", "even"} => lo[PushSlot] = headTicket
  /\ wpc = "even" => hi[PushSlot] = headTicket
  /\ \A i \in SnapSlots : stamp[i] <= 2 * headTicket + (IF wpc = "idle" THEN 0 ELSE 2)
  /\ \A i \in SnapSlots, t \in Nat : stamp[i] = 2 * t + 2 => lo[i] = t /\ hi[i] = t

(* The reader: what it has copied is right if the entry still has the      *)
(* stamp it saw, and that stamp is the one of the ticket it wants.         *)
SnapReaderInv ==
  /\ lastSeen <= headTicket /\ seenHead <= headTicket
  /\ rpc # "idle" => attempt < Attempts
  /\ rpc \in {"before", "lo", "hi", "after"} => lastSeen < seenHead
  /\ rpc \in {"lo", "hi", "after"} => before <= stamp[ReadSlot]
  /\ rpc \in {"hi", "after"} /\ before = 2 * seenHead /\ stamp[ReadSlot] = before
       => snapCopy.lo = seenHead - 1
  /\ rpc = "after" /\ before = 2 * seenHead /\ stamp[ReadSlot] = before
       => snapCopy.hi = seenHead - 1

SnapInv == SnapshotIsExact /\ SnapWriterInv /\ SnapReaderInv

LEMMA InitSnapshot == SnapInit => SnapInv
<1> SUFFICES ASSUME SnapInit PROVE SnapInv
  OBVIOUS
<1> USE SnapshotAssumption DEF SnapInit
<1>1. SnapshotIsExact
  BY DEF SnapshotIsExact, SnapTypeOK, SnapSlots, Tickets, Nothing
<1>2. SnapWriterInv
  BY DEF SnapWriterInv
<1>3. SnapReaderInv
  BY DEF SnapReaderInv
<1> QED BY <1>1, <1>2, <1>3 DEF SnapInv

(* The slots producer and reader work on are slots of the ring.            *)
LEMMA SlotsOfRing ==
  ASSUME SnapInv
  PROVE  PushSlot \in SnapSlots /\ ReadSlot \in SnapSlots
<1>1. SnapSize \in Nat \ {0} /\ headTicket \in Int /\ seenHead - 1 \in Int
  BY SnapshotAssumption DEF SnapInv, SnapshotIsExact, SnapTypeOK
<1> QED BY <1>1, ModRange DEF PushSlot, ReadSlot, SnapSlots

(* A step of the producer that leaves the stamps alone.                    *)
LEMMA PushValue ==
  ASSUME SnapInv, PushLo \/ PushHi \/ PushHead
  PROVE  SnapInv'
<1>0. /\ PushSlot \in SnapSlots /\ SnapTypeOK /\ UNCHANGED <<stamp, snapReader>>
      /\ wpc # "idle" /\ headTicket < MaxPush /\ headTicket \in Nat /\ MaxPush \in Nat
      /\ SnapWriterInv /\ SnapReaderInv
  BY SlotsOfRing, SnapshotAssumption
     DEF SnapInv, SnapshotIsExact, SnapTypeOK, SnapWriterInv, PushLo, PushHi, PushHead
<1>1. SnapTypeOK'
  BY <1>0 DEF SnapTypeOK, snapReader, PushLo, PushHi, PushHead, Tickets
<1>2. SnapWriterInv'
  <2>1. CASE PushHead
    BY <1>0, <2>1 DEF PushHead, SnapWriterInv, SnapTypeOK
  <2>2. CASE PushLo
    <3>1. /\ lo' = [lo EXCEPT ![PushSlot] = headTicket] /\ UNCHANGED <<stamp, hi, headTicket>>
          /\ wpc = "lo" /\ wpc' = "hi" /\ PushSlot' = PushSlot /\ lo'[PushSlot] = headTicket
      BY <1>0, <2>2 DEF PushLo, PushSlot, SnapTypeOK
    <3>2. ASSUME NEW i \in SnapSlots, NEW t \in Nat, stamp[i] = 2 * t + 2
          PROVE  lo'[i] = t /\ hi'[i] = t
      <4>1. i # PushSlot
        BY <1>0, <3>1, <3>2 DEF SnapWriterInv
      <4> QED BY <1>0, <3>1, <3>2, <4>1 DEF SnapWriterInv, SnapTypeOK
    <3> QED BY <1>0, <3>1, <3>2 DEF SnapWriterInv
  <2>3. CASE PushHi
    <3>1. /\ hi' = [hi EXCEPT ![PushSlot] = headTicket] /\ UNCHANGED <<stamp, lo, headTicket>>
          /\ wpc = "hi" /\ wpc' = "even" /\ PushSlot' = PushSlot /\ hi'[PushSlot] = headTicket
      BY <1>0, <2>3 DEF PushHi, PushSlot, SnapTypeOK
    <3>2. ASSUME NEW i \in SnapSlots, NEW t \in Nat, stamp[i] = 2 * t + 2
          PROVE  lo'[i] = t /\ hi'[i] = t
      <4>1. i # PushSlot
        BY <1>0, <3>1, <3>2 DEF SnapWriterInv
      <4> QED BY <1>0, <3>1, <3>2, <4>1 DEF SnapWriterInv, SnapTypeOK
    <3> QED BY <1>0, <3>1, <3>2 DEF SnapWriterInv
  <2> QED BY <1>0, <2>1, <2>2, <2>3
<1>3. SnapReaderInv'
  <2>1. headTicket <= headTicket' /\ headTicket' \in Nat
    BY <1>0 DEF PushLo, PushHi, PushHead
  <2> QED BY <1>0, <2>1 DEF SnapReaderInv, snapReader, ReadSlot, SnapTypeOK
<1>4. SnapshotIsExact'
  BY <1>0, <1>1 DEF SnapInv, SnapshotIsExact, snapReader
<1> QED BY <1>2, <1>3, <1>4 DEF SnapInv

(* A step of the producer that stores a stamp: it grows, so a reader of    *)
(* that entry fails its validation.                                        *)
LEMMA PushStamp ==
  ASSUME SnapInv, PushOdd \/ PushEven
  PROVE  SnapInv'
<1> DEFINE new == IF wpc = "idle" THEN 2 * headTicket + 1 ELSE 2 * headTicket + 2
<1>0. /\ PushSlot \in SnapSlots /\ ReadSlot \in SnapSlots /\ SnapTypeOK
      /\ UNCHANGED <<lo, hi, headTicket, snapReader>>
      /\ headTicket < MaxPush /\ headTicket \in Nat /\ MaxPush \in Nat
      /\ SnapWriterInv /\ SnapReaderInv /\ SnapSize \in Nat \ {0}
      /\ stamp' = [stamp EXCEPT ![PushSlot] = new]
      /\ PushSlot' = PushSlot /\ ReadSlot' = ReadSlot
      /\ \/ wpc = "idle" /\ wpc' = "lo"
         \/ wpc = "even" /\ wpc' = "head"
  BY SlotsOfRing, SnapshotAssumption
     DEF SnapInv, SnapshotIsExact, SnapTypeOK, SnapWriterInv, PushOdd, PushEven,
         PushSlot, ReadSlot, snapReader
<1>1. /\ new \in Nat /\ stamp[PushSlot] < new /\ stamp'[PushSlot] = new
      /\ \A i \in SnapSlots : stamp[i] \in Nat /\ (i # PushSlot => stamp'[i] = stamp[i])
      /\ new <= 2 * headTicket + 2
  BY <1>0 DEF SnapWriterInv, SnapTypeOK
<1> HIDE DEF new
<1>2. SnapTypeOK'
  BY <1>0, <1>1 DEF SnapTypeOK, snapReader
<1>3. SnapWriterInv'
  <2>1. \A i \in SnapSlots : stamp'[i] <= 2 * headTicket + 2
    <3>1. \A i \in SnapSlots : stamp[i] <= 2 * headTicket + 2
      BY <1>0, <1>1 DEF SnapWriterInv
    <3> QED BY <1>0, <1>1, <3>1
  <2>2. ASSUME NEW i \in SnapSlots, NEW t \in Nat, stamp'[i] = 2 * t + 2
        PROVE  lo'[i] = t /\ hi'[i] = t
    <3>1. CASE i # PushSlot
      BY <1>0, <1>1, <2>2, <3>1 DEF SnapWriterInv
    <3>2. CASE i = PushSlot /\ wpc = "idle"
      BY <1>0, <1>1, <2>2, <3>2 DEF new
    <3>3. CASE i = PushSlot /\ wpc = "even"
      BY <1>0, <1>1, <2>2, <3>3 DEF new, SnapWriterInv
    <3> QED BY <1>0, <3>1, <3>2, <3>3
  <2>3. wpc' = "lo" => stamp'[PushSlot] = 2 * headTicket + 1
    BY <1>0, <1>1 DEF new
  <2> QED BY <1>0, <2>1, <2>2, <2>3 DEF SnapWriterInv
<1>4. SnapReaderInv'
  <2>1. CASE ReadSlot # PushSlot
    BY <1>0, <1>1, <2>1 DEF SnapReaderInv, snapReader
  <2>2. CASE ReadSlot = PushSlot
    <3>1. rpc \in {"lo", "hi", "after"} => before < stamp'[ReadSlot]
      BY <1>0, <1>1, <2>2 DEF SnapReaderInv, SnapTypeOK
    <3> QED BY <1>0, <1>1, <2>2, <3>1 DEF SnapReaderInv, snapReader, SnapTypeOK
  <2> QED BY <2>1, <2>2
<1>5. SnapshotIsExact'
  BY <1>0, <1>2 DEF SnapInv, SnapshotIsExact, snapReader
<1> QED BY <1>3, <1>4, <1>5 DEF SnapInv

(* The reader's steps.                                                     *)
LEMMA ReadSnapshot ==
  ASSUME SnapInv, SnapRead
  PROVE  SnapInv'
<1>0. /\ UNCHANGED snapWriter /\ SnapTypeOK /\ ReadSlot \in SnapSlots
      /\ SnapWriterInv /\ SnapReaderInv /\ Attempts \in Nat \ {0}
      /\ reads > 0 => shown.lo = lastSeen - 1 /\ shown.hi = lastSeen - 1
      /\ missed + reads = lastSeen
  BY SlotsOfRing, SnapshotAssumption
     DEF SnapInv, SnapshotIsExact, SnapRead, ReadBegin, ReadHead, ReadBefore, ReadLo, ReadHi, ReadAfter
<1>1. SnapWriterInv'
  BY <1>0 DEF SnapWriterInv, snapWriter, PushSlot
<1>2. ASSUME ReadBegin PROVE SnapshotIsExact' /\ SnapReaderInv'
  BY <1>0, <1>2 DEF ReadBegin, SnapshotIsExact, SnapTypeOK, SnapReaderInv, snapWriter
<1>3. ASSUME ReadHead PROVE SnapshotIsExact' /\ SnapReaderInv'
  BY <1>0, <1>3 DEF ReadHead, SnapshotIsExact, SnapTypeOK, SnapReaderInv, snapWriter
<1>4. ASSUME ReadBefore PROVE SnapshotIsExact' /\ SnapReaderInv'
  BY <1>0, <1>4 DEF ReadBefore, SnapshotIsExact, SnapTypeOK, SnapReaderInv, snapWriter, ReadSlot
<1>5. ASSUME ReadLo PROVE SnapshotIsExact' /\ SnapReaderInv'
  <2>1. /\ rpc = "lo" /\ rpc' = "hi" /\ snapCopy' = [snapCopy EXCEPT !.lo = lo[ReadSlot]]
        /\ UNCHANGED <<snapWriter, attempt, seenHead, before, lastSeen, missed, shown, reads>>
    BY <1>5 DEF ReadLo
  <2>2. snapCopy'.lo = lo[ReadSlot] /\ snapCopy' \in [lo : Tickets, hi : Tickets]
    BY <1>0, <2>1 DEF SnapTypeOK
  <2>3. SnapTypeOK'
    BY <1>0, <2>1, <2>2 DEF SnapTypeOK, snapWriter
  <2>4. before = 2 * seenHead /\ stamp[ReadSlot] = before => lo[ReadSlot] = seenHead - 1
    <3>1. seenHead - 1 \in Nat /\ 2 * seenHead = 2 * (seenHead - 1) + 2
      BY <1>0, <2>1 DEF SnapReaderInv, SnapTypeOK
    <3> QED BY <1>0, <3>1 DEF SnapWriterInv
  <2> QED BY <1>0, <2>1, <2>2, <2>3, <2>4 DEF SnapshotIsExact, SnapReaderInv, snapWriter, ReadSlot
<1>6. ASSUME ReadHi PROVE SnapshotIsExact' /\ SnapReaderInv'
  <2>1. /\ rpc = "hi" /\ rpc' = "after" /\ snapCopy' = [snapCopy EXCEPT !.hi = hi[ReadSlot]]
        /\ UNCHANGED <<snapWriter, attempt, seenHead, before, lastSeen, missed, shown, reads>>
    BY <1>6 DEF ReadHi
  <2>2. /\ snapCopy'.lo = snapCopy.lo /\ snapCopy'.hi = hi[ReadSlot]
        /\ snapCopy' \in [lo : Tickets, hi : Tickets]
    BY <1>0, <2>1 DEF SnapTypeOK
  <2>3. SnapTypeOK'
    BY <1>0, <2>1, <2>2 DEF SnapTypeOK, snapWriter
  <2>4. before = 2 * seenHead /\ stamp[ReadSlot] = before => hi[ReadSlot] = seenHead - 1
    <3>1. seenHead - 1 \in Nat /\ 2 * seenHead = 2 * (seenHead - 1) + 2
      BY <1>0, <2>1 DEF SnapReaderInv, SnapTypeOK
    <3> QED BY <1>0, <3>1 DEF SnapWriterInv
  <2> QED BY <1>0, <2>1, <2>2, <2>3, <2>4 DEF SnapshotIsExact, SnapReaderInv, snapWriter, ReadSlot
<1>7. ASSUME ReadAfter PROVE SnapshotIsExact' /\ SnapReaderInv'
  <2>0. /\ rpc = "after" /\ UNCHANGED <<snapWriter, seenHead, before, snapCopy>>
        /\ lastSeen < seenHead /\ seenHead \in Nat /\ lastSeen \in Nat /\ seenHead <= headTicket
        /\ (seenHead - 1) * 2 + 2 = 2 * seenHead
    BY <1>0, <1>7 DEF ReadAfter, SnapReaderInv, SnapTypeOK
  <2>1. CASE /\ before = stamp[ReadSlot] /\ before = (seenHead - 1) * 2 + 2
             /\ missed' = missed + (seenHead - lastSeen) - 1
             /\ lastSeen' = seenHead /\ shown' = snapCopy /\ reads' = reads + 1
             /\ rpc' = "idle" /\ UNCHANGED attempt
    <3>1. snapCopy.lo = seenHead - 1 /\ snapCopy.hi = seenHead - 1
      BY <1>0, <2>0, <2>1 DEF SnapReaderInv
    <3>2. SnapTypeOK'
      BY <1>0, <2>0, <2>1 DEF SnapTypeOK, snapWriter
    <3> QED BY <1>0, <2>0, <2>1, <3>1, <3>2 DEF SnapshotIsExact, SnapReaderInv, SnapTypeOK, snapWriter
  <2>2. CASE /\ attempt' = attempt + 1
             /\ rpc' = IF attempt + 1 < Attempts THEN "head" ELSE "idle"
             /\ UNCHANGED <<lastSeen, missed, shown, reads>>
    <3>1. attempt' \in 0..Attempts
      BY <1>0, <2>0, <2>2 DEF SnapReaderInv, SnapTypeOK
    <3>2. SnapTypeOK'
      BY <1>0, <2>0, <2>2, <3>1 DEF SnapTypeOK, snapWriter
    <3> QED BY <1>0, <2>0, <2>2, <3>2 DEF SnapshotIsExact, SnapReaderInv, snapWriter
  <2> QED BY <1>7, <2>1, <2>2 DEF ReadAfter
<1> QED
  BY <1>1, <1>2, <1>3, <1>4, <1>5, <1>6, <1>7 DEF SnapInv, SnapRead

LEMMA StepSnapshot == SnapInv /\ [SnapNext]_snapVars => SnapInv'
<1> SUFFICES ASSUME SnapInv, [SnapNext]_snapVars PROVE SnapInv'
  OBVIOUS
<1>1. CASE UNCHANGED snapVars
  BY <1>1 DEF snapVars, snapWriter, snapReader, SnapInv, SnapshotIsExact, SnapTypeOK,
     SnapWriterInv, SnapReaderInv, PushSlot, ReadSlot
<1> QED BY <1>1, PushValue, PushStamp, ReadSnapshot DEF SnapNext, SnapPush

(* Wherever the producer's stores fall among the reader's loads, for every *)
(* ring size and number of attempts: read_latest() returns the two halves  *)
(* of one push, the one it accounts for, and every push before it was      *)
(* returned or counted missed.                                             *)
THEOREM SnapshotTheorem == SnapSpec => []SnapshotIsExact
<1>1. SnapInv => SnapshotIsExact
  BY DEF SnapInv
<1> QED
  BY <1>1, InitSnapshot, StepSnapshot, PTL DEF SnapSpec

-----------------------------------------------------------------------------
(* The double bank of a rule.                                              *)
(* One byte of a patch stays within what codegen declared for it.          *)
GoodByte(i, p) ==
  /\ p \in PatchByte
  /\ Bits \ p.and \subseteq Declared[i]
  /\ p.or \cap p.and = {}

(* The inductive invariant: both banks are good byte by byte, also half    *)
(* seeded or half written, and the active one is the committed one.        *)
PatchInv ==
  /\ active \in {0, 1}
  /\ patchJob \in PatchJobs
  /\ banks \in [{0, 1} -> [Bytes -> PatchByte]]
  /\ \A b \in {0, 1}, i \in Bytes : GoodByte(i, banks[b][i])
  /\ FrameSeesOneCommit

LEMMA InitPatch == PatchInit => PatchInv
<1> SUFFICES ASSUME PatchInit PROVE PatchInv
  OBVIOUS
<1> USE DEF PatchInit
<1>1. NoPatchJob \in PatchJobs
  BY DEF NoPatchJob, PatchJobs, Byte
<1>2. banks \in [{0, 1} -> [Bytes -> PatchByte]] /\ \A b \in {0, 1} : banks[b] = StartPatch
  BY PatchAssumption
<1>3. \A i \in Bytes : GoodByte(i, StartPatch[i])
  BY PatchAssumption DEF GoodByte, WithinDeclared
<1> QED
  BY <1>1, <1>2, <1>3 DEF PatchInv, FrameSeesOneCommit

(* set_byte and set_signal keep a byte within the declared bits.           *)
LEMMA StagedIsGood ==
  ASSUME NEW i \in Bytes, NEW p, GoodByte(i, p), patchJob \in PatchJobs
  PROVE  GoodByte(i, Staged(i, p))
<1> DEFINE m == patchJob.field[i] \cap Declared[i]
<1>1. /\ p \in PatchByte /\ p.and \in SUBSET Bits /\ p.or \in SUBSET Bits
      /\ Bits \ p.and \subseteq Declared[i] /\ p.or \cap p.and = {}
      /\ Declared[i] \in SUBSET Bits
  BY PatchAssumption DEF GoodByte, PatchByte, Byte
<1>2. /\ patchJob.kind \in {"bytes", "on", "off"}
      /\ patchJob.value[i] \in SUBSET Bits /\ patchJob.field[i] \in SUBSET Bits
  BY DEF PatchJobs, Byte
<1>3. CASE patchJob.kind = "bytes" /\ patchJob.field[i] = {}
  BY <1>3 DEF Staged
<1>4. CASE patchJob.kind = "bytes" /\ patchJob.field[i] # {}
  <2>1. Staged(i, p) = [and |-> p.and, or |-> patchJob.value[i] \cap (Bits \ p.and)]
    BY <1>4 DEF Staged
  <2> QED BY <1>1, <1>2, <2>1 DEF GoodByte, PatchByte, Byte
<1>5. CASE patchJob.kind = "on"
  <2>1. Staged(i, p) = [and |-> p.and \ m, or |-> (p.or \ m) \cup (patchJob.value[i] \cap m)]
    BY <1>5 DEF Staged
  <2> QED BY <1>1, <1>2, <2>1 DEF GoodByte, PatchByte, Byte
<1>6. CASE patchJob.kind = "off"
  <2>1. Staged(i, p) = [and |-> p.and \cup m, or |-> p.or \ m]
    BY <1>6 DEF Staged
  <2> QED BY <1>1, <1>2, <2>1 DEF GoodByte, PatchByte, Byte
<1> QED BY <1>2, <1>3, <1>4, <1>5, <1>6

(* A good byte stored into the inactive bank.                              *)
LEMMA StoreKeeps ==
  ASSUME PatchInv, NEW i \in Bytes, NEW p, GoodByte(i, p),
         banks' = [banks EXCEPT ![Inactive][i] = p],
         UNCHANGED <<active, patchJob, committed>>
  PROVE  PatchInv'
<1>1. Inactive \in {0, 1} /\ Inactive # active /\ active \in {0, 1}
  BY DEF PatchInv, Inactive
<1>2. banks \in [{0, 1} -> [Bytes -> PatchByte]] /\ p \in PatchByte
  BY DEF PatchInv, GoodByte
<1>3. banks' = [banks EXCEPT ![Inactive] = [banks[Inactive] EXCEPT ![i] = p]]
  BY <1>1, <1>2
<1>4. [banks[Inactive] EXCEPT ![i] = p] \in [Bytes -> PatchByte]
  BY <1>1, <1>2
<1>5. /\ banks' \in [{0, 1} -> [Bytes -> PatchByte]]
      /\ banks'[active] = banks[active]
      /\ banks'[Inactive] = [banks[Inactive] EXCEPT ![i] = p]
  BY <1>1, <1>2, <1>3, <1>4
<1>6. ASSUME NEW b \in {0, 1}, NEW k \in Bytes
      PROVE  GoodByte(k, banks'[b][k])
  <2>0. GoodByte(k, banks[b][k])
    BY DEF PatchInv
  <2>1. CASE b = active
    BY <1>5, <2>0, <2>1
  <2>2. CASE b = Inactive /\ k = i
    BY <1>1, <1>2, <1>5, <2>2
  <2>3. CASE b = Inactive /\ k # i
    BY <1>1, <1>2, <1>5, <2>0, <2>3
  <2> QED BY <1>1, <2>1, <2>2, <2>3
<1>7. FrameSeesOneCommit'
  BY <1>5 DEF PatchInv, FrameSeesOneCommit
<1> QED BY <1>1, <1>5, <1>6, <1>7 DEF PatchInv, GoodByte

LEMMA StepPatch == PatchInv /\ [PatchNext]_patchVars => PatchInv'
<1> SUFFICES ASSUME PatchInv, [PatchNext]_patchVars PROVE PatchInv'
  OBVIOUS
<1>1. CASE \E j \in PatchJobs : Play(j)
  BY <1>1 DEF Play, PatchInv, FrameSeesOneCommit, GoodByte
<1>2. ASSUME NEW i \in Bytes, Seed(i) PROVE PatchInv'
  <2>1. GoodByte(i, banks[active][i])
    BY DEF PatchInv
  <2> QED BY <1>2, <2>1, StoreKeeps DEF Seed
<1>3. ASSUME NEW i \in Bytes, Write(i) PROVE PatchInv'
  <2>1. GoodByte(i, banks[Inactive][i])
    BY DEF PatchInv, Inactive
  <2>2. GoodByte(i, Staged(i, banks[Inactive][i]))
    BY <2>1, StagedIsGood DEF PatchInv
  <2>3. banks' = [banks EXCEPT ![Inactive][i] = Staged(i, banks[Inactive][i])]
    BY <1>3 DEF Write
  <2> QED BY <1>3, <2>2, <2>3, StoreKeeps DEF Write
<1>4. CASE Commit
  <2>1. active' \in {0, 1} /\ active' = Inactive
    BY <1>4 DEF Commit, Inactive, PatchInv
  <2> QED BY <1>4, <2>1 DEF Commit, PatchInv, FrameSeesOneCommit, GoodByte
<1>5. CASE UNCHANGED patchVars
  BY <1>5 DEF patchVars, PatchInv, FrameSeesOneCommit, GoodByte
<1> QED BY <1>1, <1>2, <1>3, <1>4, <1>5 DEF PatchNext

(* A frame received at any moment sees one committed patch, and bits the   *)
(* rule did not declare cross unchanged.                                   *)
THEOREM PatchNeverTorn == PatchSpec => [](FrameSeesOneCommit /\ UndeclaredBitsCross)
<1>1. PatchInit => PatchInv
  BY InitPatch
<1>2. PatchInv /\ [PatchNext]_patchVars => PatchInv'
  BY StepPatch
<1>3. PatchInv => FrameSeesOneCommit /\ UndeclaredBitsCross
  <2> SUFFICES ASSUME PatchInv PROVE UndeclaredBitsCross
    BY DEF PatchInv
  <2> SUFFICES ASSUME NEW i \in Bytes, NEW data \in Byte, NEW b \in Bits \ Declared[i]
               PROVE  b \in Apply(i, data) <=> b \in data
    BY DEF UndeclaredBitsCross
  <2>1. GoodByte(i, banks[active][i])
    BY DEF PatchInv
  <2> QED BY <2>1 DEF GoodByte, Apply
<1> QED
  BY <1>1, <1>2, <1>3, PTL DEF PatchSpec

-----------------------------------------------------------------------------
(* What the inactive bank holds at each step of an action.  Seeding makes  *)
(* the bytes it has passed equal to the active bank's; from then on the    *)
(* banks differ in the running job's bits at most.  Between two actions    *)
(* nothing is staged, so every action seeds.                               *)
SameOutside(p, q, bits) == p.and \ bits = q.and \ bits /\ p.or \ bits = q.or \ bits

StageInv ==
  /\ patchPc = "idle" => ~staging
  /\ patchPc = "seed" => \A i \in Bytes \ todo : banks[Inactive][i] = banks[active][i]
  /\ patchPc \in {"write", "commit"} =>
       \A i \in Bytes : SameOutside(banks[Inactive][i], banks[active][i], patchJob.field[i])

(* set_byte and set_signal change bits of the job's field only.            *)
LEMMA StagedOutside ==
  ASSUME NEW i \in Bytes, NEW p \in PatchByte, patchJob \in PatchJobs
  PROVE  SameOutside(Staged(i, p), p, patchJob.field[i])
<1> DEFINE m == patchJob.field[i] \cap Declared[i]
<1>1. p.and \in SUBSET Bits /\ p.or \in SUBSET Bits
  BY DEF PatchByte, Byte
<1>2. /\ patchJob.kind \in {"bytes", "on", "off"}
      /\ patchJob.value[i] \in SUBSET Bits /\ patchJob.field[i] \in SUBSET Bits
      /\ patchJob.kind = "bytes" => patchJob.field[i] \in {{}, Bits}
  BY DEF PatchJobs, Byte
<1>3. CASE patchJob.kind = "bytes" /\ patchJob.field[i] = {}
  BY <1>3 DEF Staged, SameOutside
<1>4. CASE patchJob.kind = "bytes" /\ patchJob.field[i] # {}
  <2>1. Staged(i, p) = [and |-> p.and, or |-> patchJob.value[i] \cap (Bits \ p.and)]
    BY <1>4 DEF Staged
  <2>2. patchJob.field[i] = Bits
    BY <1>2, <1>4
  <2> QED BY <1>1, <1>2, <2>1, <2>2 DEF SameOutside
<1>5. CASE patchJob.kind = "on"
  <2>1. Staged(i, p) = [and |-> p.and \ m, or |-> (p.or \ m) \cup (patchJob.value[i] \cap m)]
    BY <1>5 DEF Staged
  <2> QED BY <2>1 DEF SameOutside
<1>6. CASE patchJob.kind = "off"
  <2>1. Staged(i, p) = [and |-> p.and \cup m, or |-> p.or \ m]
    BY <1>6 DEF Staged
  <2> QED BY <2>1 DEF SameOutside
<1> QED BY <1>2, <1>3, <1>4, <1>5, <1>6

(* A store into one byte of the inactive bank, as seen byte by byte.       *)
LEMMA StoreChangesOne ==
  ASSUME PatchInv, NEW i \in Bytes, NEW p \in PatchByte,
         banks' = [banks EXCEPT ![Inactive][i] = p], UNCHANGED active
  PROVE  /\ Inactive' = Inactive
         /\ banks'[active] = banks[active]
         /\ \A k \in Bytes : banks'[Inactive][k] = IF k = i THEN p ELSE banks[Inactive][k]
<1>1. /\ Inactive \in {0, 1} /\ Inactive # active /\ active \in {0, 1}
      /\ banks \in [{0, 1} -> [Bytes -> PatchByte]]
  BY DEF PatchInv, Inactive
<1>2. banks' = [banks EXCEPT ![Inactive] = [banks[Inactive] EXCEPT ![i] = p]]
  BY <1>1
<1>3. banks'[Inactive] = [banks[Inactive] EXCEPT ![i] = p]
  BY <1>1, <1>2
<1> QED BY <1>1, <1>2, <1>3 DEF Inactive

LEMMA StepStage == PatchInv /\ StageInv /\ [PatchNext]_patchVars => StageInv'
<1> SUFFICES ASSUME PatchInv, StageInv, [PatchNext]_patchVars PROVE StageInv'
  OBVIOUS
<1>0. /\ active \in {0, 1} /\ Inactive \in {0, 1} /\ Inactive # active /\ patchJob \in PatchJobs
      /\ \A b \in {0, 1}, i \in Bytes : banks[b][i] \in PatchByte
  BY DEF PatchInv, Inactive
<1>1. ASSUME NEW j \in PatchJobs, Play(j) PROVE StageInv'
  BY <1>1 DEF Play, StageInv, Inactive
<1>2. ASSUME NEW i \in Bytes, Seed(i) PROVE StageInv'
  <2>1. /\ patchPc = "seed" /\ i \in todo /\ UNCHANGED <<active, staging, patchJob>>
        /\ Inactive' = Inactive /\ banks'[active] = banks[active]
        /\ \A k \in Bytes :
             banks'[Inactive][k] = IF k = i THEN banks[active][i] ELSE banks[Inactive][k]
    BY <1>0, <1>2, StoreChangesOne DEF Seed
  <2>2. \A k \in Bytes \ (todo \ {i}) : banks'[Inactive'][k] = banks'[active'][k]
    BY <2>1 DEF StageInv
  <2>3. CASE todo = {i}
    <3>1. patchPc' = "write" /\ \A k \in Bytes : banks'[Inactive'][k] = banks'[active'][k]
      BY <1>2, <2>2, <2>3 DEF Seed
    <3> QED BY <3>1 DEF StageInv, SameOutside
  <2>4. CASE todo # {i}
    <3>1. patchPc' = "seed" /\ todo' = todo \ {i}
      BY <1>2, <2>4 DEF Seed
    <3> QED BY <2>2, <3>1 DEF StageInv
  <2> QED BY <2>3, <2>4
<1>3. ASSUME NEW i \in Bytes, Write(i) PROVE StageInv'
  <2> DEFINE p == Staged(i, banks[Inactive][i])
  <2>1. /\ patchPc = "write" /\ patchPc' \in {"write", "commit"}
        /\ UNCHANGED <<active, staging, patchJob>> /\ banks' = [banks EXCEPT ![Inactive][i] = p]
    BY <1>3 DEF Write
  <2>2. p \in PatchByte
    <3>1. GoodByte(i, banks[Inactive][i])
      BY <1>0 DEF PatchInv
    <3> QED BY <1>0, <3>1, StagedIsGood DEF GoodByte
  <2>3. SameOutside(p, banks[Inactive][i], patchJob.field[i])
    BY <1>0, StagedOutside
  <2> HIDE DEF p
  <2>4. /\ Inactive' = Inactive /\ banks'[active] = banks[active]
        /\ \A k \in Bytes : banks'[Inactive][k] = IF k = i THEN p ELSE banks[Inactive][k]
    BY <2>1, <2>2, StoreChangesOne
  <2>5. ASSUME NEW k \in Bytes
        PROVE  SameOutside(banks'[Inactive'][k], banks'[active'][k], patchJob'.field[k])
    <3>1. SameOutside(banks[Inactive][k], banks[active][k], patchJob.field[k])
      BY <2>1 DEF StageInv
    <3> QED BY <2>1, <2>3, <2>4, <3>1 DEF SameOutside
  <2> QED BY <2>1, <2>5 DEF StageInv
<1>4. CASE Commit
  BY <1>4 DEF Commit, StageInv
<1>5. CASE UNCHANGED patchVars
  BY <1>5 DEF patchVars, StageInv, Inactive
<1> QED BY <1>1, <1>2, <1>3, <1>4, <1>5 DEF PatchNext

(* A commit publishes the running job's bits and keeps every other bit     *)
(* that earlier set_patch and set_signal calls had set: play() seeds the   *)
(* bank it stages into.                                                    *)
THEOREM CommitTheorem == PatchSpec => CommitChangesItsJob
<1> DEFINE Kept ==
      patchPc = "commit" =>
       \A i \in Bytes, data \in Byte : \A b \in Bits \ patchJob.field[i] :
         b \in Apply(i, data) <=>
         b \in (data \cap banks'[active'][i].and) \cup banks'[active'][i].or
<1>1. PatchInit => PatchInv /\ StageInv
  BY InitPatch DEF PatchInit, StageInv
<1>2. PatchInv /\ StageInv /\ [PatchNext]_patchVars => PatchInv' /\ StageInv'
  BY StepPatch, StepStage
<1>3. ASSUME PatchInv, StageInv, [PatchNext]_patchVars PROVE [Kept]_patchVars
  <2> SUFFICES ASSUME patchPc = "commit", ~UNCHANGED patchVars,
                      NEW i \in Bytes, NEW data \in Byte, NEW b \in Bits \ patchJob.field[i]
               PROVE  b \in Apply(i, data) <=>
                      b \in (data \cap banks'[active'][i].and) \cup banks'[active'][i].or
    OBVIOUS
  <2>1. Commit
    BY <1>3 DEF PatchNext, Play, Seed, Write
  <2>2. banks'[active'] = banks[Inactive]
    BY <2>1 DEF Commit
  <2>3. SameOutside(banks[Inactive][i], banks[active][i], patchJob.field[i])
    BY <1>3 DEF StageInv
  <2> QED BY <2>2, <2>3 DEF SameOutside, Apply
<1> QED
  BY <1>1, <1>2, <1>3, PTL DEF PatchSpec, CommitChangesItsJob

=============================================================================
