---------------------------- MODULE ConfigProofs ----------------------------
(***************************************************************************)
(* What is computed off the device, for any constants: the configurations  *)
(* the validation accepts work on the device as written.                   *)
(***************************************************************************)
EXTENDS MCConfig, FiniteSetTheorems, SequenceTheorems, WellFoundedInduction, TLAPS

-----------------------------------------------------------------------------
(* Induction.  Every nonempty set of naturals has a least element, so a    *)
(* set with 0 that is closed under the successor is all of them, and a     *)
(* function may be defined by recursion.                                   *)
Smaller == {p \in Nat \X Nat : p[1] < p[2]}

(* The order of the naturals has no infinite descent.                      *)
LEMMA SmallerIsWellFounded == IsWellFoundedOn(Smaller, Nat)
<1>1. OpToRel(<, Nat) = Smaller
  BY Zenon DEF OpToRel, Smaller
<1> QED BY <1>1, NatLessThanWellFounded, Zenon

(* A nonempty set of naturals has a least element.                         *)
LEMMA LeastOf ==
    ASSUME NEW T, T \subseteq Nat, T # {}
    PROVE  \E x \in T : \A y \in T : x <= y
<1>1. PICK x \in T : \A y \in T : ~ (<<y, x>> \in Smaller)
  BY SmallerIsWellFounded, WFMin
<1>2. ASSUME NEW y \in T PROVE x <= y
  <2>1. ~ (<<y, x>> \in Smaller) /\ x \in Nat /\ y \in Nat
    BY <1>1
  <2> QED BY <2>1 DEF Smaller
<1> QED BY <1>2

(* A set of naturals with 0 and with every successor is all of them.       *)
LEMMA Induction ==
    ASSUME NEW T, 0 \in T, \A n \in Nat : n \in T => n + 1 \in T
    PROVE  Nat \subseteq T
<1> SUFFICES ASSUME Nat \ T # {} PROVE FALSE
  OBVIOUS
<1>1. PICK x \in Nat \ T : \A y \in Nat \ T : x <= y
  BY LeastOf
<1>2. x # 0 /\ x - 1 \in Nat /\ (x - 1) + 1 = x
  OBVIOUS
<1>3. x - 1 \in T
  BY <1>1, <1>2
<1> QED BY <1>2, <1>3

(* A function may be defined by recursion over the naturals: step[<<n, v>>]*)
(* is the value at n + 1 when v is the one at n.                           *)
Recursive(f, V, v0, step, n) ==
    /\ f \in [0 .. n -> V] /\ f[0] = v0
    /\ \A i \in 0 .. n - 1 : f[i + 1] = step[<<i, f[i]>>]

(* Two such functions agree as far as both go.                             *)
LEMMA RecursionIsUnique ==
    ASSUME NEW V, NEW v0, NEW step, NEW n \in Nat, NEW m \in Nat, NEW f, NEW g,
           Recursive(f, V, v0, step, n), Recursive(g, V, v0, step, m)
    PROVE  \A i \in Nat : i <= n /\ i <= m => f[i] = g[i]
<1> DEFINE T == {i \in Nat : i <= n /\ i <= m => f[i] = g[i]}
<1>1. 0 \in T
  BY DEF Recursive
<1>2. ASSUME NEW i \in Nat, i \in T PROVE i + 1 \in T
  <2>1. SUFFICES ASSUME i + 1 <= n, i + 1 <= m PROVE f[i + 1] = g[i + 1]
    OBVIOUS
  <2>2. i \in 0 .. n - 1 /\ i \in 0 .. m - 1 /\ f[i] = g[i]
    BY <1>2, <2>1
  <2>3. f[i + 1] = step[<<i, f[i]>>] /\ g[i + 1] = step[<<i, g[i]>>]
    BY <2>2 DEF Recursive
  <2> QED BY <2>2, <2>3
<1> HIDE DEF T
<1>3. Nat \subseteq T
  BY <1>1, <1>2, Induction
<1> QED BY <1>3 DEF T

(* There is one up to every n.                                             *)
LEMMA RecursionExists ==
    ASSUME NEW V, NEW v0 \in V, NEW step \in [Nat \X V -> V]
    PROVE  \A n \in Nat : \E f : Recursive(f, V, v0, step, n)
<1> DEFINE T == {n \in Nat : \E f : Recursive(f, V, v0, step, n)}
<1>1. 0 \in T
  <2>1. Recursive([i \in 0 .. 0 |-> v0], V, v0, step, 0)
    BY DEF Recursive
  <2> QED BY <2>1
<1>2. ASSUME NEW n \in Nat, n \in T PROVE n + 1 \in T
  <2>1. PICK f : Recursive(f, V, v0, step, n)
    BY <1>2
  <2> DEFINE g == [i \in 0 .. n + 1 |-> IF i <= n THEN f[i] ELSE step[<<n, f[n]>>]]
  <2>2. f \in [0 .. n -> V] /\ f[0] = v0 /\ n \in 0 .. n
    BY <2>1 DEF Recursive
  <2>3. step[<<n, f[n]>>] \in V
    BY <2>2
  <2>4. g \in [0 .. n + 1 -> V] /\ g[0] = v0
    BY <2>2, <2>3
  <2>5. ASSUME NEW i \in 0 .. (n + 1) - 1 PROVE g[i + 1] = step[<<i, g[i]>>]
    <3>1. CASE i < n
      <4>1. i \in 0 .. n - 1 /\ g[i] = f[i] /\ g[i + 1] = f[i + 1]
        BY <3>1
      <4>2. f[i + 1] = step[<<i, f[i]>>]
        BY <2>1, <4>1 DEF Recursive
      <4> QED BY <4>1, <4>2
    <3>2. CASE i = n
      <4>1. g[n] = f[n] /\ g[n + 1] = step[<<n, f[n]>>]
        OBVIOUS
      <4> QED BY <3>2, <4>1
    <3>3. i < n \/ i = n
      OBVIOUS
    <3> QED BY <3>1, <3>2, <3>3
  <2>6. Recursive(g, V, v0, step, n + 1)
    BY <2>4, <2>5 DEF Recursive
  <2> QED BY <2>6
<1> HIDE DEF T
<1>3. Nat \subseteq T
  BY <1>1, <1>2, Induction
<1> QED BY <1>3 DEF T

HasSolution(V, v0, step) ==
    \E f \in [Nat -> V] : f[0] = v0 /\ \A n \in Nat : f[n + 1] = step[<<n, f[n]>>]

(* And so there is one on all naturals: the one a CHOOSE names.            *)
LEMMA RecursionOverNat ==
    ASSUME NEW V, NEW v0 \in V, NEW step \in [Nat \X V -> V]
    PROVE  HasSolution(V, v0, step)
<1> DEFINE h(n) == CHOOSE f : Recursive(f, V, v0, step, n)
           F == [n \in Nat |-> h(n)[n]]
<1>1. ASSUME NEW n \in Nat PROVE Recursive(h(n), V, v0, step, n)
  BY RecursionExists
<1> HIDE DEF h
<1>2. F \in [Nat -> V]
  <2>1. ASSUME NEW n \in Nat PROVE h(n)[n] \in V
    BY <1>1 DEF Recursive
  <2> QED BY <2>1
<1>3. F[0] = v0
  BY <1>1 DEF Recursive
<1>4. ASSUME NEW n \in Nat PROVE F[n + 1] = step[<<n, F[n]>>]
  <2>1. Recursive(h(n), V, v0, step, n) /\ Recursive(h(n + 1), V, v0, step, n + 1)
    BY <1>1
  <2>2. h(n)[n] = h(n + 1)[n]
    BY <2>1, RecursionIsUnique
  <2>3. h(n + 1)[n + 1] = step[<<n, h(n + 1)[n]>>]
    BY <2>1 DEF Recursive
  <2> QED BY <2>2, <2>3
<1> QED BY <1>2, <1>3, <1>4 DEF HasSolution

-----------------------------------------------------------------------------
(* Powers of two.                                                          *)
LEMMA Pow2Def ==
    /\ Pow2 \in [Nat -> Nat \ {0}] /\ Pow2[0] = 1
    /\ \A n \in Nat : Pow2[n + 1] = 2 * Pow2[n]
<1> DEFINE P == Nat \ {0}
           one == 1
           step == [x \in Nat \X P |-> 2 * x[2]]
<1>1. one \in P /\ step \in [Nat \X P -> P]
  OBVIOUS
<1>2. ASSUME NEW n \in Nat, NEW v \in P PROVE step[<<n, v>>] = 2 * v
  OBVIOUS
<1> HIDE DEF step, P, one
<1>3. HasSolution(P, one, step)
  BY <1>1, RecursionOverNat
<1>4. PICK f \in [Nat -> P] : f[0] = one /\ \A n \in Nat : f[n + 1] = step[<<n, f[n]>>]
  BY <1>3 DEF HasSolution
<1> USE DEF P, one
<1>5. f = [n \in Nat |-> IF n = 0 THEN 1 ELSE 2 * f[n - 1]]
  <2>1. ASSUME NEW n \in Nat PROVE f[n] = IF n = 0 THEN 1 ELSE 2 * f[n - 1]
    <3>1. CASE n = 0
      BY <1>4, <3>1
    <3>2. CASE n # 0
      <4>1. n - 1 \in Nat /\ (n - 1) + 1 = n /\ f[n - 1] \in Nat \ {0}
        BY <3>2
      <4>2. f[(n - 1) + 1] = step[<<n - 1, f[n - 1]>>]
        BY <1>4, <4>1
      <4> QED BY <1>2, <3>2, <4>1, <4>2
    <3> QED BY <3>1, <3>2
  <2> QED BY <2>1
<1>6. Pow2 = [n \in Nat |-> IF n = 0 THEN 1 ELSE 2 * Pow2[n - 1]]
  BY <1>5 DEF Pow2
<1> DEFINE T == {n \in Nat : Pow2[n] \in Nat \ {0}}
<1>7. 0 \in T
  BY <1>6
<1>8. ASSUME NEW n \in Nat, n \in T PROVE n + 1 \in T
  BY <1>6, <1>8
<1> HIDE DEF T
<1>9. Nat \subseteq T
  BY <1>7, <1>8, Induction
<1>10. Pow2 \in [Nat -> Nat \ {0}]
  BY <1>6, <1>9 DEF T
<1> QED BY <1>6, <1>10

-----------------------------------------------------------------------------
(* The ladder of retries.  The invariant: the types; when it is armed;     *)
(* where the clock stands against the deadline; and what the attempts so   *)
(* far leave behind for the next one.                                      *)
SdlFields == {"taps", "sources", "collection", "wifi", "web", "recovery"}
LadderFields ==
    {"state", "attempts", "delay", "deadline", "busy", "on", "card", "now", "since"}
Cards == {"off", "logging", "lost", "readonly", "stopped", "closed"}
Tries == [wait : Nat, reset : BOOLEAN, busy : Nat, power : BOOLEAN]

LadderTypeOK ==
    /\ DOMAIN sdl = SdlFields /\ sdl.recovery \in Recoveries
    /\ DOMAIN ladder = LadderFields
    /\ ladder.state \in {"idle", "waiting", "exhausted"}
    /\ ladder.card \in Cards /\ ladder.on \in BOOLEAN
    /\ ladder.attempts \in Nat /\ ladder.delay \in Nat /\ ladder.busy \in Nat
    /\ ladder.since \in Nat /\ ladder.deadline \in Nat /\ ladder.now \in 0 .. ClockMod - 1
    /\ tried \in Seq(Tries)

(* A ladder that runs belongs to an accepted block, and is armed exactly   *)
(* while the card is lost and recovery is on.                              *)
LadderIsArmed ==
    /\ ladder.card # "off" => RecoveryOk
    /\ ladder.card \in {"logging", "lost"} => ladder.on = sdl.recovery.enabled
    /\ (ladder.state = "idle") = (ladder.card # "lost" \/ ~sdl.recovery.enabled)
    /\ ladder.state = "idle" => ladder.attempts = 0
    /\ ladder.attempts = Len(tried)

(* How long it has waited is what the clock shows, and the rung it stands  *)
(* on is the one its attempts have earned.                                 *)
RungOk ==
    ladder.state = "waiting" =>
        /\ ladder.deadline = (ladder.now + ladder.delay - ladder.since) % ClockMod
        /\ ladder.since <= ladder.delay + MaxLag
        /\ ladder.delay <= sdl.recovery.maxDelay
        /\ ladder.delay >= Least(sdl.recovery.delay * Pow2[ladder.attempts], sdl.recovery.maxDelay)
        /\ sdl.recovery.budget # 0 => ladder.attempts < sdl.recovery.budget
BudgetOk ==
    ladder.state = "exhausted" => ladder.attempts = sdl.recovery.budget
BusyOk ==
    ladder.card # "off" =>
        /\ sdl.recovery.busy <= ladder.busy /\ ladder.busy <= sdl.recovery.maxBusy
        /\ tried # <<>> => tried[Len(tried)].busy = ladder.busy

LadderInv ==
    LadderTypeOK /\ LadderIsArmed /\ RungOk /\ BudgetOk /\ BusyOk /\ LadderNeverStepsBack
-----------------------------------------------------------------------------
(* A clock that wraps.                                                     *)
LEMMA ModParts ==
    ASSUME NEW x \in Int, NEW n \in Nat \ {0}
    PROVE  x % n \in 0 .. n - 1 /\ x \div n \in Int /\ x = n * (x \div n) + (x % n)
OBVIOUS

(* A remainder is the one there is.                                        *)
LEMMA ModIs ==
    ASSUME NEW x \in Int, NEW n \in Nat \ {0}, NEW q \in Int, NEW r \in 0 .. n - 1,
           x = n * q + r
    PROVE  x % n = r
OBVIOUS

(* So are a quotient and its remainder together.                           *)
LEMMA DivModIs ==
    ASSUME NEW x \in Int, NEW n \in Nat \ {0}, NEW q \in Int, NEW r \in 0 .. n - 1,
           x = n * q + r
    PROVE  x \div n = q /\ x % n = r
OBVIOUS

(* What is added to a remainder may be added before it is taken.           *)
LEMMA ModOfSum ==
    ASSUME NEW a \in Int, NEW b \in Int, NEW n \in Nat \ {0}
    PROVE  ((a % n) + b) % n = (a + b) % n
<1> DEFINE q == a \div n
           r == a % n
           p == (r + b) \div n
           s == (r + b) % n
<1>1. q \in Int /\ r \in Int /\ a = n * q + r
  BY ModParts
<1>2. r + b \in Int
  BY <1>1
<1>3. p \in Int /\ s \in 0 .. n - 1 /\ r + b = n * p + s
  BY <1>2, ModParts
<1> HIDE DEF q, r, p, s
<1>4. a + b = n * (q + p) + s /\ q + p \in Int /\ a + b \in Int
  BY <1>1, <1>3
<1>5. (a + b) % n = s
  BY <1>3, <1>4, ModIs
<1> QED BY <1>5 DEF s, r

(* So may what it is taken from.                                           *)
LEMMA ModOfDifference ==
    ASSUME NEW a \in Int, NEW b \in Int, NEW n \in Nat \ {0}
    PROVE  (a - (b % n)) % n = (a - b) % n
<1> DEFINE q == b \div n
           r == b % n
           p == (a - r) \div n
           s == (a - r) % n
<1>1. q \in Int /\ r \in Int /\ b = n * q + r
  BY ModParts
<1>2. a - r \in Int
  BY <1>1
<1>3. p \in Int /\ s \in 0 .. n - 1 /\ a - r = n * p + s
  BY <1>2, ModParts
<1> HIDE DEF q, r, p, s
<1>4. a - b = n * (p - q) + s /\ p - q \in Int /\ a - b \in Int
  BY <1>1, <1>3
<1>5. (a - b) % n = s
  BY <1>3, <1>4, ModIs
<1> QED BY <1>5 DEF s, r

(* The remainder of a number within one turn of zero.                      *)
LEMMA ModNear ==
    ASSUME NEW n \in Nat \ {0}, NEW x \in Int, 0 - n <= x, x < n
    PROVE  x % n = IF x >= 0 THEN x ELSE x + n
<1>1. CASE x >= 0
  <2>1. x = n * 0 + x /\ x \in 0 .. n - 1
    BY <1>1
  <2> QED BY <1>1, <2>1, ModIs
<1>2. CASE x < 0
  <2>1. x = n * (0 - 1) + (x + n) /\ x + n \in 0 .. n - 1
    BY <1>2
  <2>2. x % n = x + n
    BY <2>1, ModIs
  <2> QED BY <1>2, <2>2
<1> QED BY <1>1, <1>2

(* Half a turn of the clock, and the longest absence of the writer.        *)
LEMMA ClockHalf ==
    /\ MaxLag \in Nat /\ ClockMod \in Nat \ {0} /\ ClockMod \div 2 \in Nat
    /\ MaxLag < ClockMod \div 2 /\ 2 * (ClockMod \div 2) <= ClockMod
<1>1. MaxLag \in Nat /\ ClockMod \in Nat /\ MaxLag < ClockMod \div 2
  BY RecoveryAssumption
<1> QED BY <1>1

(* What a clock shows.                                                     *)
LEMMA ClockRange ==
    ASSUME NEW x \in Int
    PROVE  /\ x % ClockMod \in 0 .. ClockMod - 1 /\ x % ClockMod \in Nat
           /\ x % ClockMod \in Int
<1>1. ClockMod \in Nat \ {0}
  BY ClockHalf
<1>2. x % ClockMod \in 0 .. ClockMod - 1
  BY <1>1, ModParts
<1> DEFINE m == x % ClockMod
<1> HIDE DEF m
<1>3. m \in 0 .. ClockMod - 1
  BY <1>2 DEF m
<1>4. m \in Nat /\ m \in Int
  BY <1>1, <1>3
<1> QED BY <1>3, <1>4 DEF m

(* The deadline stands still while the clock and the time waited move on.  *)
SameDeadline(now, d, s, k) ==
    (((now + k) % ClockMod) + d - (s + k)) % ClockMod = (now + d - s) % ClockMod

(* It does, whatever the wrap.                                             *)
LEMMA DeadlineStays ==
    ASSUME NEW now \in Int, NEW d \in Int, NEW s \in Int, NEW k \in Int
    PROVE  SameDeadline(now, d, s, k)
<1> DEFINE a == now + k
           b == d - (s + k)
           m == a % ClockMod
<1>1. a \in Int /\ b \in Int /\ a + b = now + d - s /\ ClockMod \in Nat \ {0}
  BY ClockHalf
<1> HIDE DEF a
<1>2. m \in Int
  BY <1>1, ClockRange
<1>3. m + b = m + d - (s + k)
  <2> HIDE DEF m
  <2> QED BY <1>2
<1> HIDE DEF b
<1>4. (m + b) % ClockMod = (a + b) % ClockMod
  BY <1>1, ModOfSum
<1> HIDE DEF m
<1>5. (m + d - (s + k)) % ClockMod = (now + d - s) % ClockMod
  BY <1>1, <1>3, <1>4
<1> QED BY <1>5 DEF m, a, SameDeadline

(* The longest lag behind a deadline is where the writer has looked again. *)
LEMMA LagIsPast ==
    ASSUME NEW now \in Int, NEW d \in Int, NEW s \in Int, s = d + MaxLag
    PROVE  Past(now, (((now + d - s) % ClockMod) + MaxLag) % ClockMod)
<1> DEFINE a == now + d - s
<1>1. /\ MaxLag \in Nat /\ ClockMod \in Nat \ {0} /\ ClockMod \div 2 \in Nat
      /\ ClockMod \div 2 > 0
  BY ClockHalf
<1>2. a \in Int /\ MaxLag \in Int /\ a + MaxLag = now
  BY <1>1
<1> HIDE DEF a
<1>3. ((a % ClockMod) + MaxLag) % ClockMod = now % ClockMod
  BY <1>1, <1>2, ModOfSum
<1>4. (now - (now % ClockMod)) % ClockMod = (now - now) % ClockMod
  BY <1>1, ModOfDifference
<1>5. now - now = 0 /\ 0 % ClockMod = 0
  BY <1>1
<1>6. Past(now, ((a % ClockMod) + MaxLag) % ClockMod)
  BY <1>1, <1>3, <1>4, <1>5 DEF Past
<1> QED BY <1>6 DEF a

(* Waiting the time s since the last try, of d ahead: due is having waited *)
(* that long, and what is left of it is what the clock shows.              *)
LEMMA DueIsWaited ==
    ASSUME NEW now \in Int, NEW d \in Nat, NEW s \in Nat,
           d <= ClockMod \div 2, s <= d + MaxLag
    PROVE  LET t == (now + d - s) % ClockMod
           IN  /\ Past(now, t) <=> s >= d
               /\ s < d => (t - now) % ClockMod = d - s
<1> DEFINE h == ClockMod \div 2
           a == now + d - s
           b == 0 - now
           t == a % ClockMod
<1>1. h \in Nat /\ MaxLag \in Nat /\ ClockMod \in Nat \ {0} /\ MaxLag < h /\ 2 * h <= ClockMod
  BY ClockHalf
<1>2. a \in Int /\ b \in Int /\ d <= h
  OBVIOUS
<1>3. now - a = s - d /\ a + b = d - s
  OBVIOUS
<1> HIDE DEF a
<1>4. (now - t) % ClockMod = (now - a) % ClockMod
  BY <1>1, <1>2, ModOfDifference
<1>5. t \in Int /\ t + b = t - now
  BY <1>1, <1>2, ModParts
<1> HIDE DEF b
<1>6. (t + b) % ClockMod = (a + b) % ClockMod
  BY <1>1, <1>2, ModOfSum
<1> HIDE DEF h, t
<1>7. s - d \in Int /\ d - s \in Int /\ 0 - ClockMod <= s - d /\ s - d < ClockMod
  BY <1>1, <1>2
<1>8. (s - d) % ClockMod = IF s - d >= 0 THEN s - d ELSE s - d + ClockMod
  BY <1>1, <1>7, ModNear
<1>9. (s - d) % ClockMod < h <=> s >= d
  BY <1>1, <1>2, <1>8
<1>10. s < d => (d - s) % ClockMod = d - s
  <2>1. ASSUME s < d PROVE 0 - ClockMod <= d - s /\ d - s < ClockMod /\ d - s >= 0
    BY <1>1, <1>2, <2>1
  <2> QED BY <1>1, <1>7, <2>1, ModNear
<1>11. Past(now, t) <=> s >= d
  BY <1>4, <1>3, <1>9 DEF Past, h
<1>12. s < d => (t - now) % ClockMod = d - s
  BY <1>6, <1>3, <1>5, <1>10
<1> QED BY <1>11, <1>12 DEF t, a

(* What the ladder does, field by field.                                   *)
LEMMA RecoveryTypes ==
    ASSUME NEW r \in Recoveries
    PROVE  /\ r.delay \in Nat /\ r.maxDelay \in Nat /\ r.busy \in Nat /\ r.maxBusy \in Nat
           /\ r.budget \in Nat /\ r.maxDelay <= ClockMod \div 2
           /\ r.enabled \in BOOLEAN /\ r.pin \in BOOLEAN /\ r.inBand \in BOOLEAN
           /\ r.power \in {<<>>, <<TRUE>>, <<FALSE>>}
BY RecoveryAssumption

(* A wait is doubled up to its limit.                                      *)
LEMMA TwiceIs ==
    ASSUME NEW x \in Nat, NEW cap \in Nat, x <= cap
    PROVE  /\ Twice(x, cap) \in Nat /\ x <= Twice(x, cap) /\ Twice(x, cap) <= cap
           /\ Twice(x, cap) >= Least(2 * x, cap)
<1>1. CASE x >= cap \div 2
  BY <1>1 DEF Twice, Least
<1>2. CASE ~ (x >= cap \div 2)
  <2>1. 2 * x <= cap
    BY <1>2
  <2> QED BY <1>2, <2>1 DEF Twice, Least
<1> QED BY <1>1, <1>2

(* The wait after n attempts is doubled n times, up to its limit.          *)
LEMMA NextRung ==
    ASSUME NEW x \in Nat, NEW cap \in Nat, NEW d \in Nat, NEW n \in Nat, x <= cap,
           x >= Least(d * Pow2[n], cap)
    PROVE  Twice(x, cap) >= Least(d * Pow2[n + 1], cap)
<1> DEFINE p == Pow2[n]
           y == Twice(x, cap)
<1>1. p \in Nat /\ Pow2[n + 1] = 2 * p
  BY Pow2Def
<1>2. y \in Nat /\ y <= cap /\ y >= Least(2 * x, cap)
  BY TwiceIs
<1>3. x >= Least(d * p, cap)
  OBVIOUS
<1> HIDE DEF p, y
<1>4. d * (2 * p) = 2 * (d * p) /\ d * p \in Nat
  BY <1>1
<1>5. y >= Least(d * (2 * p), cap)
  BY <1>2, <1>3, <1>4 DEF Least
<1> QED BY <1>1, <1>5 DEF y

(* A ladder at rest again.                                                 *)
LEMMA WithIdle ==
    ASSUME NEW l, DOMAIN l = LadderFields
    PROVE  LET w == With(l, Idle)
           IN  /\ DOMAIN w = LadderFields /\ w.state = "idle" /\ w.attempts = 0
               /\ w.delay = sdl.recovery.delay /\ w.deadline = 0 /\ w.busy = sdl.recovery.busy
               /\ w.on = l.on /\ w.card = l.card /\ w.now = l.now /\ w.since = l.since
BY DEF With, Idle, LadderFields

(* Arming changes the rung, and only of a ladder that is on and at rest.   *)
LEMMA ArmIs ==
    ASSUME NEW l, DOMAIN l = LadderFields
    PROVE  LET w == Arm(l)
           IN  IF ~l.on \/ l.state # "idle" THEN w = l
               ELSE /\ DOMAIN w = LadderFields /\ w.state = "waiting"
                    /\ w.delay = sdl.recovery.delay
                    /\ w.deadline = (l.now + sdl.recovery.delay) % ClockMod /\ w.since = 0
                    /\ w.attempts = l.attempts /\ w.busy = l.busy /\ w.on = l.on
                    /\ w.card = l.card /\ w.now = l.now
BY DEF Arm, LadderFields

(* An attempt climbs a rung, or is the last of the budget.                 *)
LEMMA NoteAttemptIs ==
    ASSUME NEW l, DOMAIN l = LadderFields
    PROVE  LET w == NoteAttempt(l)
               r == sdl.recovery
               next == Twice(l.delay, r.maxDelay)
           IN  /\ DOMAIN w = LadderFields /\ w.attempts = l.attempts + 1
               /\ w.on = l.on /\ w.card = l.card /\ w.now = l.now
               /\ IF r.budget # 0 /\ l.attempts + 1 >= r.budget
                  THEN /\ w.state = "exhausted" /\ w.delay = l.delay /\ w.deadline = l.deadline
                       /\ w.busy = l.busy /\ w.since = l.since
                  ELSE /\ w.state = l.state /\ w.delay = next
                       /\ w.deadline = (l.now + next) % ClockMod /\ w.since = 0
                       /\ w.busy = IF l.attempts + 1 > 2 THEN Twice(l.busy, r.maxBusy)
                                   ELSE l.busy
<1> DEFINE r == sdl.recovery
           next == Twice(l.delay, r.maxDelay)
<1>1. CASE r.budget # 0 /\ l.attempts + 1 >= r.budget
  BY <1>1 DEF NoteAttempt, LadderFields
<1>2. CASE ~ (r.budget # 0 /\ l.attempts + 1 >= r.budget)
  BY <1>2 DEF NoteAttempt, LadderFields
<1> QED BY <1>1, <1>2

(* An attempt among those before it.                                       *)
AttemptOk(r, t, i) ==
    /\ t[i].wait >= Least(r.delay * Pow2[i - 1], r.maxDelay)
    /\ t[i].wait <= r.maxDelay + 2 * MaxLag
    /\ t[i].reset = (r.inBand /\ i >= 2) /\ (t[i].power => r.pin)
    /\ r.busy <= t[i].busy /\ t[i].busy <= r.maxBusy
    /\ i > 1 => t[i - 1].busy <= t[i].busy
    /\ r.budget # 0 => i <= r.budget

(* The property, attempt by attempt.                                       *)
LEMMA NeverStepsBackIs ==
    LadderNeverStepsBack <=> \A i \in DOMAIN tried : AttemptOk(sdl.recovery, tried, i)
BY DEF LadderNeverStepsBack, AttemptOk

(* An attempt in order after attempts in order.                            *)
LEMMA OneMoreAttempt ==
    ASSUME NEW r, NEW t \in Seq(Tries), NEW e \in Tries,
           \A i \in DOMAIN t : AttemptOk(r, t, i),
           AttemptOk(r, Append(t, e), Len(t) + 1)
    PROVE  \A i \in DOMAIN Append(t, e) : AttemptOk(r, Append(t, e), i)
<1> DEFINE u == Append(t, e)
<1>1. /\ Len(u) = Len(t) + 1 /\ DOMAIN u = 1 .. Len(t) + 1 /\ DOMAIN t = 1 .. Len(t)
      /\ \A i \in 1 .. Len(t) : u[i] = t[i]
      /\ Len(t) \in Nat
  OBVIOUS
<1> HIDE DEF u
<1>2. ASSUME NEW i \in 1 .. Len(t) PROVE AttemptOk(r, u, i)
  <2>1. AttemptOk(r, t, i) /\ u[i] = t[i] /\ (i > 1 => u[i - 1] = t[i - 1])
    BY <1>1
  <2> QED BY <2>1 DEF AttemptOk
<1>3. AttemptOk(r, u, Len(t) + 1)
  BY DEF u
<1> QED BY <1>1, <1>2, <1>3 DEF u

(* A ladder that is at rest, or has just been armed, is in order.          *)
LEMMA LadderAtRest ==
    ASSUME LadderTypeOK, RecoveryOk, sdl' = sdl, tried' = <<>>,
           DOMAIN ladder' = LadderFields, ladder'.card \in Cards, ladder'.on \in BOOLEAN,
           ladder'.state = "idle", ladder'.card # "lost" \/ ~sdl.recovery.enabled,
           ladder'.card \in {"logging", "lost"} => ladder'.on = sdl.recovery.enabled,
           ladder'.attempts = 0, ladder'.delay \in Nat, ladder'.deadline \in Nat,
           ladder'.busy \in Nat, sdl.recovery.busy <= ladder'.busy,
           ladder'.busy <= sdl.recovery.maxBusy, ladder'.since \in Nat,
           ladder'.now \in 0 .. ClockMod - 1
    PROVE  LadderInv'
<1> DEFINE r == sdl.recovery
<1>1. r \in Recoveries
  BY DEF LadderTypeOK
<1>2. r.busy \in Nat /\ r.maxBusy \in Nat /\ r.maxBusy >= r.busy
  BY <1>1, RecoveryTypes DEF RecoveryOk
<1>3. sdl'.recovery = r
  OBVIOUS
<1>4. LadderTypeOK'
  BY <1>1, <1>2, <1>3 DEF LadderTypeOK
<1>5. LadderIsArmed'
  BY <1>3 DEF LadderIsArmed, RecoveryOk
<1>6. RungOk' /\ BudgetOk'
  BY DEF RungOk, BudgetOk
<1>7. BusyOk'
  BY <1>2, <1>3 DEF BusyOk
<1>8. LadderNeverStepsBack'
  BY DEF LadderNeverStepsBack
<1> QED BY <1>4, <1>5, <1>6, <1>7, <1>8 DEF LadderInv

(* The first rung: a card that has just been lost.                         *)
LEMMA LadderJustArmed ==
    ASSUME LadderTypeOK, RecoveryOk, sdl' = sdl, tried' = <<>>,
           DOMAIN ladder' = LadderFields, ladder'.card = "lost", ladder'.on = TRUE,
           sdl.recovery.enabled, ladder'.state = "waiting", ladder'.attempts = 0,
           ladder'.delay = sdl.recovery.delay, ladder'.since = 0,
           ladder'.deadline = (ladder'.now + sdl.recovery.delay) % ClockMod,
           ladder'.busy \in Nat, sdl.recovery.busy <= ladder'.busy,
           ladder'.busy <= sdl.recovery.maxBusy, ladder'.now \in 0 .. ClockMod - 1
    PROVE  LadderInv'
<1> DEFINE r == sdl.recovery
           now == ladder'.now
<1>1. r \in Recoveries
  BY DEF LadderTypeOK
<1>2. /\ r.delay \in Nat /\ r.maxDelay \in Nat /\ r.maxDelay >= r.delay
      /\ r.busy \in Nat /\ r.maxBusy \in Nat /\ r.maxBusy >= r.busy /\ r.budget \in Nat
  BY <1>1, RecoveryTypes DEF RecoveryOk
<1>3. sdl'.recovery = r
  OBVIOUS
<1>4. now \in Int /\ ClockMod \in Nat \ {0} /\ MaxLag \in Nat
  BY ClockHalf
<1>5. (now + r.delay) % ClockMod \in Nat
  <2>1. now + r.delay \in Int
    BY <1>2, <1>4
  <2> QED BY <2>1, ClockRange
<1>6. LadderTypeOK'
  <2>1. <<>> \in Seq(Tries)
    OBVIOUS
  <2> HIDE DEF r, now
  <2>2. ladder'.deadline \in Nat /\ ladder'.since \in Nat /\ ladder'.delay \in Nat
    BY <1>2, <1>5 DEF r, now
  <2> QED BY <1>1, <1>3, <2>1, <2>2 DEF LadderTypeOK, Cards
<1>7. LadderIsArmed'
  BY <1>3 DEF LadderIsArmed, RecoveryOk
<1>8. RungOk'
  <2>1. ladder'.deadline = (now + ladder'.delay - ladder'.since) % ClockMod
    <3>1. now + r.delay = now + r.delay - 0
      BY <1>2, <1>4
    <3> QED BY <3>1
  <2>2. ladder'.since <= ladder'.delay + MaxLag /\ ladder'.delay <= r.maxDelay
    BY <1>2, <1>4
  <2>3. ladder'.delay >= Least(r.delay * Pow2[ladder'.attempts], r.maxDelay)
    <3>1. Pow2[0] = 1
      BY Pow2Def
    <3>2. r.delay * 1 = r.delay
      <4> HIDE DEF r
      <4> QED BY <1>2
    <3>3. r.delay >= Least(r.delay * 1, r.maxDelay)
      <4> HIDE DEF r
      <4> QED BY <1>2, <3>2 DEF Least
    <3> HIDE DEF r
    <3>4. ladder'.attempts = 0 /\ ladder'.delay = r.delay
      BY DEF r
    <3> QED BY <3>1, <3>3, <3>4
  <2>4. r.budget # 0 => ladder'.attempts < r.budget
    BY <1>2
  <2> HIDE DEF r, now
  <2> QED BY <1>3, <2>1, <2>2, <2>3, <2>4 DEF RungOk, now
<1>9. BudgetOk'
  BY DEF BudgetOk
<1>10. BusyOk'
  BY <1>2, <1>3 DEF BusyOk
<1>11. LadderNeverStepsBack'
  BY DEF LadderNeverStepsBack
<1> QED BY <1>6, <1>7, <1>8, <1>9, <1>10, <1>11 DEF LadderInv

(* A logger that has not booted has no ladder.                             *)
LEMMA InitLadder == LoggerConfigInit => LadderInv
<1> SUFFICES ASSUME LoggerConfigInit PROVE LadderInv
  OBVIOUS
<1>1. ClockMod \in Nat \ {0}
  BY ClockHalf
<1>2. DOMAIN sdl = SdlFields /\ sdl.recovery \in Recoveries
  BY DEF LoggerConfigInit, SdlFields
<1>3. tried = <<>> /\ tried \in Seq(Tries) /\ Len(tried) = 0
  BY DEF LoggerConfigInit
<1>4. LadderTypeOK
  BY <1>1, <1>2, <1>3 DEF LoggerConfigInit, LadderTypeOK, LadderFields, Cards
<1>5. LadderIsArmed
  BY <1>3 DEF LoggerConfigInit, LadderIsArmed
<1>6. RungOk /\ BudgetOk /\ BusyOk /\ LadderNeverStepsBack
  BY <1>3 DEF LoggerConfigInit, RungOk, BudgetOk, BusyOk, LadderNeverStepsBack
<1> QED BY <1>4, <1>5, <1>6 DEF LadderInv

(* Boot: the card mounts, or is lost from the start.                       *)
LEMMA StartKeepsLadder == LadderInv /\ StartLogger => LadderInv'
<1> SUFFICES ASSUME LadderInv, StartLogger PROVE LadderInv'
  OBVIOUS
<1> USE DEF LadderInv
<1>1. /\ ladder.card = "off" /\ RecoveryOk /\ sdl' = sdl /\ tried' = tried
      /\ DOMAIN ladder = LadderFields
  BY DEF StartLogger, SdLoggerOk, LadderTypeOK
<1>2. tried = <<>>
  BY <1>1 DEF LadderIsArmed, LadderTypeOK
<1>3. PICK now \in 0 .. ClockMod - 1, mounts \in BOOLEAN :
        LET l == With([ladder EXCEPT !.now = now, !.on = sdl.recovery.enabled], Idle)
        IN  ladder' = IF mounts THEN [l EXCEPT !.card = "logging"]
                      ELSE Arm([l EXCEPT !.card = "lost"])
  BY DEF StartLogger
<1> DEFINE r == sdl.recovery
           k == [ladder EXCEPT !.now = now, !.on = r.enabled]
           l == With(k, Idle)
           g == [l EXCEPT !.card = "logging"]
           b == [l EXCEPT !.card = "lost"]
<1>4. r \in Recoveries /\ ladder.since \in Nat
  BY DEF LadderTypeOK
<1>5. /\ r.delay \in Nat /\ r.enabled \in BOOLEAN /\ r.busy \in Nat /\ r.maxBusy \in Nat
      /\ r.busy <= r.maxBusy
  BY <1>1, <1>4, RecoveryTypes DEF RecoveryOk
<1>6. DOMAIN k = LadderFields /\ k.now = now /\ k.on = r.enabled /\ k.since = ladder.since
  BY <1>1 DEF LadderFields
<1> HIDE DEF k
<1>7. /\ DOMAIN l = LadderFields /\ l.state = "idle" /\ l.attempts = 0 /\ l.delay = r.delay
      /\ l.deadline = 0 /\ l.busy = r.busy /\ l.on = r.enabled /\ l.now = now
      /\ l.since = ladder.since
  BY <1>6, WithIdle
<1>8. ladder' = IF mounts THEN g ELSE Arm(b)
  BY <1>3 DEF k
<1> HIDE DEF l
<1>9. /\ DOMAIN g = LadderFields /\ g.state = "idle" /\ g.attempts = 0 /\ g.delay = r.delay
      /\ g.deadline = 0 /\ g.busy = r.busy /\ g.on = r.enabled /\ g.now = now
      /\ g.since = ladder.since /\ g.card = "logging"
  BY <1>7 DEF LadderFields
<1>10. /\ DOMAIN b = LadderFields /\ b.state = "idle" /\ b.attempts = 0 /\ b.delay = r.delay
       /\ b.deadline = 0 /\ b.busy = r.busy /\ b.on = r.enabled /\ b.now = now
       /\ b.since = ladder.since /\ b.card = "lost"
  BY <1>7 DEF LadderFields
<1> HIDE DEF g, b
<1>11. CASE mounts
  <2>1. ladder' = g
    BY <1>8, <1>11
  <2> HIDE DEF r
  <2> QED BY <1>1, <1>2, <1>4, <1>5, <1>9, <2>1, LadderAtRest DEF Cards, r
<1>12. CASE ~mounts /\ r.enabled
  <2>1. ladder' = Arm(b) /\ b.on
    BY <1>8, <1>10, <1>12
  <2>2. /\ DOMAIN ladder' = LadderFields /\ ladder'.state = "waiting"
        /\ ladder'.delay = r.delay /\ ladder'.deadline = (b.now + r.delay) % ClockMod
        /\ ladder'.since = 0 /\ ladder'.attempts = b.attempts /\ ladder'.busy = b.busy
        /\ ladder'.on = b.on /\ ladder'.card = b.card /\ ladder'.now = b.now
    BY <1>10, <2>1, ArmIs
  <2>3. ladder'.on = TRUE
    BY <1>5, <1>10, <1>12, <2>2
  <2>4. /\ ladder'.card = "lost" /\ ladder'.attempts = 0 /\ ladder'.now = now
        /\ ladder'.busy = r.busy
    BY <1>10, <2>2
  <2>5. ladder'.deadline = (ladder'.now + r.delay) % ClockMod
    BY <1>10, <2>2, <2>4
  <2>6. LadderTypeOK
    OBVIOUS
  <2>7. ladder'.busy \in Nat /\ r.busy <= ladder'.busy /\ ladder'.busy <= r.maxBusy
    BY <1>5, <2>4
  <2> HIDE DEF LadderInv
  <2> QED BY <1>1, <1>2, <1>12, <2>2, <2>3, <2>4, <2>5, <2>6, <2>7, LadderJustArmed
<1>13. CASE ~mounts /\ ~r.enabled
  <2>1. ladder' = b
    <3>1. ~b.on
      BY <1>10, <1>13
    <3> QED BY <1>8, <1>10, <1>13, <3>1, ArmIs
  <2> QED BY <1>1, <1>2, <1>4, <1>5, <1>10, <1>13, <2>1, LadderAtRest DEF Cards
<1> QED BY <1>11, <1>12, <1>13

(* A file is lost on the way, for a while or for good.                     *)
LEMMA LosingKeepsLadder == LadderInv /\ LoseFile => LadderInv'
<1> SUFFICES ASSUME LadderInv, LoseFile PROVE LadderInv'
  OBVIOUS
<1> USE DEF LadderInv
<1>1. ladder.card = "logging" /\ sdl' = sdl /\ tried' = tried /\ DOMAIN ladder = LadderFields
  BY DEF LoseFile, LadderTypeOK
<1>2. /\ RecoveryOk /\ ladder.state = "idle" /\ ladder.attempts = 0
      /\ ladder.on = sdl.recovery.enabled
  BY <1>1 DEF LadderIsArmed
<1>3. tried = <<>>
  <2>1. tried \in Seq(Tries) /\ Len(tried) = 0
    BY <1>2 DEF LadderIsArmed, LadderTypeOK
  <2> QED BY <2>1
<1> DEFINE r == sdl.recovery
           b == [ladder EXCEPT !.card = "lost"]
           s == [ladder EXCEPT !.card = "stopped"]
<1>4. /\ r \in Recoveries /\ ladder.since \in Nat /\ ladder.delay \in Nat /\ ladder.busy \in Nat
      /\ ladder.deadline \in Nat /\ ladder.now \in 0 .. ClockMod - 1 /\ ladder.on \in BOOLEAN
  BY DEF LadderTypeOK
<1>5. r.enabled \in BOOLEAN /\ r.delay \in Nat
  BY <1>4, RecoveryTypes
<1>6. r.busy <= ladder.busy /\ ladder.busy <= r.maxBusy
  BY <1>1 DEF BusyOk
<1>7. /\ DOMAIN b = LadderFields /\ b.state = "idle" /\ b.attempts = 0
      /\ b.delay = ladder.delay /\ b.deadline = ladder.deadline /\ b.busy = ladder.busy
      /\ b.on = r.enabled /\ b.now = ladder.now /\ b.since = ladder.since /\ b.card = "lost"
  BY <1>1, <1>2 DEF LadderFields
<1>8. /\ DOMAIN s = LadderFields /\ s.state = "idle" /\ s.attempts = 0
      /\ s.delay = ladder.delay /\ s.deadline = ladder.deadline /\ s.busy = ladder.busy
      /\ s.on = r.enabled /\ s.now = ladder.now /\ s.since = ladder.since
      /\ s.card = "stopped"
  BY <1>1, <1>2 DEF LadderFields
<1>9. ladder' = Arm(b) \/ ladder' = s
  BY DEF LoseFile
<1> HIDE DEF b, s
<1>10. CASE ladder' = s
  BY <1>1, <1>2, <1>3, <1>4, <1>5, <1>6, <1>8, <1>10, LadderAtRest DEF Cards
<1>11. CASE ladder' = Arm(b) /\ r.enabled
  <2>1. /\ DOMAIN ladder' = LadderFields /\ ladder'.state = "waiting"
        /\ ladder'.delay = r.delay /\ ladder'.deadline = (b.now + r.delay) % ClockMod
        /\ ladder'.since = 0 /\ ladder'.attempts = b.attempts /\ ladder'.busy = b.busy
        /\ ladder'.on = b.on /\ ladder'.card = b.card /\ ladder'.now = b.now
    BY <1>7, <1>11, ArmIs
  <2>2. ladder'.on = TRUE
    BY <1>5, <1>7, <1>11, <2>1
  <2>3. /\ ladder'.card = "lost" /\ ladder'.attempts = 0 /\ ladder'.now = ladder.now
        /\ ladder'.busy = ladder.busy
    BY <1>7, <2>1
  <2>4. ladder'.deadline = (ladder'.now + r.delay) % ClockMod
    BY <1>7, <2>1, <2>3
  <2>5. LadderTypeOK
    OBVIOUS
  <2> HIDE DEF LadderInv
  <2> QED BY <1>1, <1>2, <1>3, <1>4, <1>6, <1>11, <2>1, <2>2, <2>3, <2>4, <2>5, LadderJustArmed
<1>12. CASE ladder' = Arm(b) /\ ~r.enabled
  <2>1. ladder' = b
    <3>1. ~b.on
      BY <1>7, <1>12
    <3> QED BY <1>7, <1>12, <3>1, ArmIs
  <2> QED BY <1>1, <1>2, <1>3, <1>4, <1>5, <1>6, <1>7, <1>12, <2>1, LadderAtRest DEF Cards
<1> QED BY <1>9, <1>10, <1>11, <1>12

(* A tick of the clock moves the time waited, not the deadline.            *)
LEMMA TimeKeepsLadder == LadderInv /\ PassTime => LadderInv'
<1> SUFFICES ASSUME LadderInv, PassTime PROVE LadderInv'
  OBVIOUS
<1> USE DEF LadderInv
<1> DEFINE r == sdl.recovery
           now == ladder.now
           d == ladder.delay
           s == ladder.since
           t == ladder.deadline
<1>1. /\ ladder.card = "lost" /\ ladder.state = "waiting" /\ sdl' = sdl /\ tried' = tried
      /\ ~Past(now, (t + MaxLag) % ClockMod)
      /\ ladder' = [ladder EXCEPT !.now = (now + 1) % ClockMod, !.since = s + 1]
  BY DEF PassTime
<1>2. /\ DOMAIN ladder = LadderFields /\ r \in Recoveries /\ s \in Nat /\ d \in Nat /\ now \in Nat
      /\ t = (now + d - s) % ClockMod /\ s <= d + MaxLag /\ d <= r.maxDelay
  BY <1>1 DEF LadderTypeOK, RungOk
<1>3. /\ DOMAIN ladder' = LadderFields /\ ladder'.now = (now + 1) % ClockMod
      /\ ladder'.since = s + 1 /\ ladder'.state = "waiting" /\ ladder'.card = "lost"
      /\ ladder'.on = ladder.on /\ ladder'.attempts = ladder.attempts
      /\ ladder'.delay = d /\ ladder'.deadline = t /\ ladder'.busy = ladder.busy
  BY <1>1, <1>2 DEF LadderFields
<1>4. MaxLag \in Nat /\ ClockMod \in Nat \ {0} /\ ClockMod \div 2 \in Nat /\ ClockMod \div 2 > 0
  BY ClockHalf
<1>5. s < d + MaxLag
  <2> HIDE DEF now, d, s, t
  <2>1. ASSUME s = d + MaxLag PROVE Past(now, (t + MaxLag) % ClockMod)
    <3>1. now \in Int /\ d \in Int /\ s \in Int
      BY <1>2
    <3> QED BY <1>2, <2>1, <3>1, LagIsPast
  <2>2. s # d + MaxLag
    BY <1>1, <2>1
  <2> QED BY <1>2, <1>4, <2>2
<1>6. ladder'.deadline = (ladder'.now + ladder'.delay - ladder'.since) % ClockMod
  <2> HIDE DEF now, d, s, t
  <2> DEFINE one == 1
  <2>1. now \in Int /\ d \in Int /\ s \in Int /\ one \in Int
    BY <1>2
  <2> HIDE DEF one
  <2>2. SameDeadline(now, d, s, one)
    BY <2>1, DeadlineStays
  <2> QED BY <1>2, <1>3, <2>2 DEF one, SameDeadline
<1>7. ladder'.now \in 0 .. ClockMod - 1
  <2> HIDE DEF now
  <2>1. now + 1 \in Int
    BY <1>2
  <2> QED BY <1>3, <2>1, ClockRange
<1>8. ladder'.since \in Nat /\ ladder'.since <= d + MaxLag
  BY <1>2, <1>3, <1>4, <1>5
<1> HIDE DEF r, now, d, s, t
<1>9. LadderTypeOK'
  BY <1>1, <1>3, <1>7, <1>8 DEF LadderTypeOK, d, t
<1>10. LadderIsArmed'
  BY <1>1, <1>3 DEF LadderIsArmed, RecoveryOk
<1>11. RungOk'
  BY <1>1, <1>3, <1>6, <1>8 DEF RungOk, d
<1>12. BudgetOk' /\ BusyOk'
  BY <1>1, <1>3 DEF BudgetOk, BusyOk
<1>13. LadderNeverStepsBack'
  BY <1>1 DEF LadderNeverStepsBack
<1> QED BY <1>9, <1>10, <1>11, <1>12, <1>13

(* Shutdown clears the ladder.                                             *)
LEMMA StoppingKeepsLadder == LadderInv /\ StopLogger => LadderInv'
<1> SUFFICES ASSUME LadderInv, StopLogger PROVE LadderInv'
  OBVIOUS
<1> USE DEF LadderInv
<1> DEFINE r == sdl.recovery
           k == [ladder EXCEPT !.on = FALSE, !.card = "closed"]
<1>1. /\ ladder.card # "off" /\ sdl' = sdl /\ tried' = <<>> /\ ladder' = With(k, Idle)
  BY DEF StopLogger
<1>2. /\ DOMAIN ladder = LadderFields /\ r \in Recoveries /\ ladder.since \in Nat
      /\ ladder.now \in 0 .. ClockMod - 1 /\ RecoveryOk
  BY <1>1 DEF LadderTypeOK, LadderIsArmed
<1>3. /\ DOMAIN k = LadderFields /\ k.on = FALSE /\ k.card = "closed" /\ k.now = ladder.now
      /\ k.since = ladder.since
  BY <1>2 DEF LadderFields
<1>4. r.delay \in Nat /\ r.busy \in Nat /\ r.maxBusy \in Nat /\ r.busy <= r.maxBusy
  BY <1>2, RecoveryTypes DEF RecoveryOk
<1> HIDE DEF k
<1>5. /\ DOMAIN ladder' = LadderFields /\ ladder'.state = "idle" /\ ladder'.attempts = 0
      /\ ladder'.delay = r.delay /\ ladder'.deadline = 0 /\ ladder'.busy = r.busy
      /\ ladder'.on = FALSE /\ ladder'.card = "closed" /\ ladder'.now = ladder.now
      /\ ladder'.since = ladder.since
  BY <1>1, <1>3, WithIdle
<1>6. LadderTypeOK /\ ladder'.delay \in Nat /\ ladder'.deadline \in Nat
  BY <1>4, <1>5
<1>7. ladder'.busy \in Nat /\ r.busy <= ladder'.busy /\ ladder'.busy <= r.maxBusy
  BY <1>4, <1>5
<1> HIDE DEF LadderInv
<1> QED BY <1>1, <1>2, <1>5, <1>6, <1>7, LadderAtRest DEF Cards

(* Nothing is written on a logger that runs.                               *)
LEMMA AuthorKeepsLadder == LadderInv /\ Configure => LadderInv'
<1> SUFFICES ASSUME LadderInv, Configure PROVE LadderInv'
  OBVIOUS
<1>1. DOMAIN sdl = SdlFields /\ ladder' = ladder /\ tried' = tried
  BY DEF Configure, LadderInv, LadderTypeOK
<1>2. DOMAIN sdl' = SdlFields /\ sdl'.recovery = sdl.recovery
  <2>1. CASE AddTap
    BY <1>1, <2>1 DEF AddTap, SdlFields
  <2>2. CASE AddSource
    BY <1>1, <2>2 DEF AddSource, SdlFields
  <2>3. CASE SetCollection
    BY <1>1, <2>3 DEF SetCollection, SdlFields
  <2> QED BY <2>1, <2>2, <2>3 DEF Configure
<1>3. LadderTypeOK' /\ LadderIsArmed'
  BY <1>1, <1>2 DEF LadderInv, LadderTypeOK, LadderIsArmed, RecoveryOk
<1>4. RungOk' /\ BudgetOk' /\ BusyOk' /\ LadderNeverStepsBack'
  BY <1>1, <1>2 DEF LadderInv, RungOk, BudgetOk, BusyOk, LadderNeverStepsBack
<1> QED BY <1>3, <1>4 DEF LadderInv

(* The other parts do not touch the ladder.                                *)
LEMMA StutterKeepsLadder == LadderInv /\ UNCHANGED loggerConfigVars => LadderInv'
<1> SUFFICES ASSUME LadderInv, sdl' = sdl, ladder' = ladder, tried' = tried PROVE LadderInv'
  BY DEF loggerConfigVars
<1>1. LadderTypeOK' /\ LadderIsArmed'
  BY DEF LadderInv, LadderTypeOK, LadderIsArmed, RecoveryOk
<1>2. RungOk' /\ BudgetOk' /\ BusyOk' /\ LadderNeverStepsBack'
  BY DEF LadderInv, RungOk, BudgetOk, BusyOk, LadderNeverStepsBack
<1> QED BY <1>1, <1>2 DEF LadderInv

(* An attempt finds the card, or waits for longer than before.             *)
LEMMA AttemptKeepsLadder == LadderInv /\ AttemptRecovery => LadderInv'
<1> SUFFICES ASSUME LadderInv, AttemptRecovery PROVE LadderInv'
  OBVIOUS
<1> USE DEF LadderInv
<1> DEFINE r == sdl.recovery
           n == ladder.attempts + 1
           l == NoteAttempt(ladder)
           next == Twice(ladder.delay, r.maxDelay)
           e == [wait |-> ladder.since, reset |-> ResetDue(l), busy |-> l.busy,
                 power |-> PowerCycles /\ sdl.recovery.pin]
           spent == r.budget # 0 /\ n >= r.budget
<1>1. /\ ladder.card = "lost" /\ ladder.state = "waiting" /\ sdl' = sdl
      /\ Past(ladder.now, ladder.deadline)
  BY DEF AttemptRecovery, Due
<1>2. \/ \E back \in {"logging", "readonly"} :
            ladder' = With([l EXCEPT !.card = back], Idle) /\ tried' = <<>>
      \/ \E took \in 0 .. MaxLag :
            /\ ladder' = [l EXCEPT !.now = (@ + took) % ClockMod, !.since = @ + took]
            /\ tried' = Append(tried, e)
  BY DEF AttemptRecovery
<1>3. /\ DOMAIN ladder = LadderFields /\ r \in Recoveries /\ tried \in Seq(Tries)
      /\ ladder.attempts \in Nat /\ ladder.delay \in Nat /\ ladder.busy \in Nat
      /\ ladder.since \in Nat /\ ladder.now \in 0 .. ClockMod - 1 /\ ladder.on \in BOOLEAN
      /\ ladder.deadline \in Nat
  BY DEF LadderTypeOK
<1>4. /\ r.delay \in Nat /\ r.maxDelay \in Nat /\ r.busy \in Nat /\ r.maxBusy \in Nat
      /\ r.budget \in Nat /\ r.maxDelay <= ClockMod \div 2 /\ r.enabled \in BOOLEAN
      /\ r.inBand \in BOOLEAN /\ r.pin \in BOOLEAN
  BY <1>3, RecoveryTypes
<1>5. /\ RecoveryOk /\ r.busy <= r.maxBusy /\ r.delay <= r.maxDelay
      /\ ladder.on = r.enabled /\ r.enabled /\ ladder.attempts = Len(tried)
  BY <1>1, <1>4 DEF LadderIsArmed, RecoveryOk
<1>6. /\ ladder.deadline = (ladder.now + ladder.delay - ladder.since) % ClockMod
      /\ ladder.since <= ladder.delay + MaxLag /\ ladder.delay <= r.maxDelay
      /\ ladder.delay >= Least(r.delay * Pow2[ladder.attempts], r.maxDelay)
      /\ r.budget # 0 => ladder.attempts < r.budget
  BY <1>1 DEF RungOk
<1>7. /\ r.busy <= ladder.busy /\ ladder.busy <= r.maxBusy
      /\ tried # <<>> => tried[Len(tried)].busy = ladder.busy
  BY <1>1 DEF BusyOk
<1>8. MaxLag \in Nat /\ ClockMod \in Nat \ {0}
  BY ClockHalf
<1>9. /\ next \in Nat /\ next <= r.maxDelay
      /\ next >= Least(r.delay * Pow2[n], r.maxDelay)
  BY <1>3, <1>4, <1>6, TwiceIs, NextRung
<1>10. /\ DOMAIN l = LadderFields /\ l.attempts = n /\ l.on = ladder.on /\ l.card = "lost"
       /\ l.now = ladder.now
       /\ IF spent THEN /\ l.state = "exhausted" /\ l.delay = ladder.delay
                        /\ l.deadline = ladder.deadline /\ l.since = ladder.since
          ELSE /\ l.state = "waiting" /\ l.delay = next /\ l.since = 0
               /\ l.deadline = (ladder.now + next) % ClockMod
  BY <1>1, <1>3, NoteAttemptIs
<1>11. l.busy \in Nat /\ ladder.busy <= l.busy /\ l.busy <= r.maxBusy
  <2>1. l.busy = ladder.busy \/ l.busy = Twice(ladder.busy, r.maxBusy)
    BY <1>3, NoteAttemptIs
  <2> DEFINE b == ladder.busy
             cap == r.maxBusy
  <2>2. b \in Nat /\ cap \in Nat /\ b <= cap
    BY <1>3, <1>4, <1>7
  <2> HIDE DEF b, cap
  <2>3. Twice(b, cap) \in Nat /\ b <= Twice(b, cap) /\ Twice(b, cap) <= cap /\ b <= b
    BY <2>2, TwiceIs
  <2> HIDE DEF l
  <2> QED BY <2>1, <2>2, <2>3 DEF b, cap
<1>12. l.since \in Nat /\ l.deadline \in Nat /\ l.delay \in Nat
  <2>1. (ladder.now + next) % ClockMod \in Nat
    <3> HIDE DEF next
    <3>1. ladder.now + next \in Int
      BY <1>3, <1>9
    <3> QED BY <3>1, ClockRange
  <2> QED BY <1>3, <1>9, <1>10, <2>1
<1>13. ladder.since >= ladder.delay
  <2>1. ladder.delay <= ClockMod \div 2 /\ ladder.now \in Int
    <3> DEFINE d == ladder.delay
               m == r.maxDelay
               h == ClockMod \div 2
    <3>1. d \in Nat /\ m \in Nat /\ d <= m /\ m <= h /\ h \in Nat
      BY <1>3, <1>4, <1>6, ClockHalf
    <3> HIDE DEF d, m, h
    <3>2. d <= h
      BY <3>1
    <3>3. ladder.now \in Int
      BY <1>3
    <3> QED BY <3>2, <3>3 DEF d, h
  <2> QED BY <1>1, <1>3, <1>6, <2>1, DueIsWaited
<1>14. ResetDue(l) = (r.inBand /\ n >= 2)
  BY <1>10 DEF ResetDue
<1> HIDE DEF l, next, spent
<1>15. ASSUME NEW back \in {"logging", "readonly"},
              ladder' = With([l EXCEPT !.card = back], Idle), tried' = <<>>
       PROVE  LadderInv'
  <2> DEFINE k == [l EXCEPT !.card = back]
  <2>1. /\ DOMAIN k = LadderFields /\ k.on = l.on /\ k.now = l.now /\ k.since = l.since
        /\ k.card = back
    BY <1>10 DEF LadderFields
  <2>2. ladder' = With(k, Idle)
    BY <1>15
  <2> HIDE DEF k
  <2>3. /\ DOMAIN ladder' = LadderFields /\ ladder'.state = "idle" /\ ladder'.attempts = 0
        /\ ladder'.delay = r.delay /\ ladder'.deadline = 0 /\ ladder'.busy = r.busy
        /\ ladder'.on = ladder.on /\ ladder'.card = back /\ ladder'.now = ladder.now
        /\ ladder'.since = l.since
    BY <1>10, <2>1, <2>2, WithIdle
  <2>4. LadderTypeOK /\ ladder'.busy \in Nat /\ r.busy <= ladder'.busy
        /\ ladder'.busy <= r.maxBusy /\ ladder'.delay \in Nat /\ ladder'.deadline \in Nat
    BY <1>4, <1>5, <2>3
  <2>5. ladder'.on \in BOOLEAN /\ ladder'.now \in 0 .. ClockMod - 1 /\ ladder'.since \in Nat
    BY <1>3, <1>12, <2>3
  <2>6. ladder'.card \in Cards /\ ladder'.card # "lost" /\ ladder'.on = r.enabled
    BY <1>5, <2>3 DEF Cards
  <2> HIDE DEF LadderInv
  <2> QED BY <1>1, <1>5, <1>15, <2>3, <2>4, <2>5, <2>6, LadderAtRest
<1>16. ASSUME NEW took \in 0 .. MaxLag,
              ladder' = [l EXCEPT !.now = (@ + took) % ClockMod, !.since = @ + took],
              tried' = Append(tried, e)
       PROVE  LadderInv'
  <2>1. /\ DOMAIN ladder' = LadderFields /\ ladder'.state = l.state /\ ladder'.attempts = n
        /\ ladder'.delay = l.delay /\ ladder'.deadline = l.deadline /\ ladder'.busy = l.busy
        /\ ladder'.on = ladder.on /\ ladder'.card = "lost"
        /\ ladder'.now = (ladder.now + took) % ClockMod /\ ladder'.since = l.since + took
    BY <1>10, <1>16 DEF LadderFields
  <2>2. ladder'.now \in 0 .. ClockMod - 1
    <3>1. ladder.now + took \in Int
      BY <1>3, <1>8
    <3> QED BY <2>1, <3>1, ClockRange
  <2>3. l.since + took \in Nat
    BY <1>8, <1>12
  <2>4. e \in Tries
    <3>1. (PowerCycles /\ sdl.recovery.pin) \in BOOLEAN
      OBVIOUS
    <3>2. (r.inBand /\ n >= 2) \in BOOLEAN
      OBVIOUS
    <3> QED BY <1>3, <1>11, <1>14, <3>1, <3>2 DEF Tries
  <2>5. /\ e.wait = ladder.since /\ e.busy = l.busy /\ e.reset = (r.inBand /\ n >= 2)
        /\ e.power => r.pin
    BY <1>14
  <2> HIDE DEF e
  <2>6. /\ tried' \in Seq(Tries) /\ Len(tried') = n /\ tried'[n] = e /\ tried' # <<>>
        /\ n > 1 => tried'[n - 1] = tried[Len(tried)]
    BY <1>3, <1>5, <1>16, <2>4
  <2>7. LadderNeverStepsBack'
    <3>1. \A i \in DOMAIN tried : AttemptOk(r, tried, i)
      BY NeverStepsBackIs
    <3>2. AttemptOk(r, tried', n)
      <4>1. /\ e.wait >= Least(r.delay * Pow2[n - 1], r.maxDelay)
            /\ e.wait <= r.maxDelay + 2 * MaxLag
        <5>1. n - 1 = ladder.attempts
          BY <1>3
        <5>2. Least(r.delay * Pow2[ladder.attempts], r.maxDelay) \in Int
          <6>1. Pow2[ladder.attempts] \in Nat
            BY <1>3, Pow2Def
          <6>2. r.delay * Pow2[ladder.attempts] \in Int
            BY <1>4, <6>1
          <6> QED BY <1>4, <6>2 DEF Least
        <5>3. ladder.since >= Least(r.delay * Pow2[ladder.attempts], r.maxDelay)
          BY <1>3, <1>6, <1>13, <5>2
        <5>4. ladder.since <= r.maxDelay + 2 * MaxLag
          <6> DEFINE s == ladder.since
                     d == ladder.delay
                     m == r.maxDelay
          <6>1. s \in Nat /\ d \in Nat /\ m \in Nat /\ s <= d + MaxLag /\ d <= m
            BY <1>3, <1>4, <1>6
          <6> HIDE DEF s, d, m
          <6>2. s <= m + 2 * MaxLag
            BY <1>8, <6>1
          <6> QED BY <6>2 DEF s, m
        <5> QED BY <2>5, <5>1, <5>3, <5>4
      <4>2. r.busy <= e.busy /\ e.busy <= r.maxBusy
        BY <1>3, <1>4, <1>7, <1>11, <2>5
      <4>3. n > 1 => tried'[n - 1].busy <= e.busy
        <5>1. n > 1 => tried # <<>>
          BY <1>3, <1>5
        <5> QED BY <1>7, <1>11, <2>5, <2>6, <5>1
      <4>4. r.budget # 0 => n <= r.budget
        BY <1>3, <1>4, <1>6
      <4> QED BY <2>5, <2>6, <4>1, <4>2, <4>3, <4>4 DEF AttemptOk
    <3>3. \A i \in DOMAIN tried' : AttemptOk(r, tried', i)
      <4>1. AttemptOk(r, Append(tried, e), Len(tried) + 1)
        BY <1>5, <1>16, <3>2
      <4> QED BY <1>3, <1>16, <2>4, <3>1, <4>1, OneMoreAttempt
    <3> QED BY <1>1, <3>3 DEF LadderNeverStepsBack, AttemptOk
  <2>8. l.state \in {"waiting", "exhausted"}
    BY <1>10
  <2>9. LadderTypeOK'
    BY <1>1, <1>3, <1>11, <1>12, <2>1, <2>2, <2>3, <2>6, <2>8 DEF LadderTypeOK, Cards
  <2>10. LadderIsArmed'
    BY <1>1, <1>5, <2>1, <2>6, <2>8 DEF LadderIsArmed, RecoveryOk
  <2>11. RungOk'
    <3> SUFFICES ASSUME l.state = "waiting" PROVE RungOk'
      BY <2>1 DEF RungOk
    <3>1. ~spent /\ l.delay = next /\ l.since = 0 /\ l.deadline = (ladder.now + next) % ClockMod
      BY <1>10
    <3>2. ladder'.deadline = (ladder'.now + ladder'.delay - ladder'.since) % ClockMod
      <4> DEFINE now == ladder.now
                 s == l.since
      <4>1. now \in Int /\ next \in Int /\ took \in Int /\ s \in Int /\ s = 0
        BY <1>3, <1>8, <1>9, <3>1
      <4>2. /\ ladder'.since = s + took /\ ladder'.delay = next
            /\ ladder'.now = (now + took) % ClockMod
            /\ ladder'.deadline = (now + next) % ClockMod
        BY <2>1, <3>1
      <4> HIDE DEF now, s
      <4>3. SameDeadline(now, next, s, took)
        BY <4>1, DeadlineStays
      <4>4. now + next - s = now + next
        BY <4>1
      <4> QED BY <4>2, <4>3, <4>4 DEF SameDeadline
    <3>3. ladder'.since <= ladder'.delay + MaxLag /\ ladder'.delay <= r.maxDelay
      BY <1>8, <1>9, <2>1, <3>1
    <3>4. r.budget # 0 => n < r.budget
      BY <1>3, <1>4, <3>1 DEF spent
    <3> HIDE DEF r, n
    <3> QED BY <1>1, <1>9, <2>1, <3>1, <3>2, <3>3, <3>4 DEF RungOk, r
  <2>12. BudgetOk'
    <3> SUFFICES ASSUME l.state = "exhausted" PROVE n = r.budget
      BY <1>1, <2>1 DEF BudgetOk
    <3>1. spent
      BY <1>10
    <3> QED BY <1>3, <1>4, <1>6, <3>1 DEF spent
  <2>13. BusyOk'
    <3>1. Len(tried') = n /\ tried'[Len(tried')].busy = l.busy
      BY <2>5, <2>6
    <3>2. r.busy <= l.busy
      <4> DEFINE x == r.busy
                 y == ladder.busy
                 z == l.busy
      <4>1. x \in Nat /\ y \in Nat /\ z \in Nat /\ x <= y /\ y <= z
        BY <1>3, <1>4, <1>7, <1>11
      <4> HIDE DEF x, y, z
      <4>2. x <= z
        BY <4>1
      <4> QED BY <4>2 DEF x, z
    <3> HIDE DEF LadderInv
    <3> QED BY <1>1, <1>11, <2>1, <3>1, <3>2 DEF BusyOk
  <2> QED BY <2>7, <2>9, <2>10, <2>11, <2>12, <2>13
<1> QED BY <1>2, <1>15, <1>16

(* A lost card is retried, as long as the ladder is in order.              *)
LEMMA LadderRetries == LadderInv => LostIsRetried
<1> SUFFICES ASSUME LadderInv PROVE LostIsRetried
  OBVIOUS
<1> USE DEF LadderInv
<1> DEFINE r == sdl.recovery
<1>1. /\ r \in Recoveries /\ ladder.state \in {"idle", "waiting", "exhausted"}
      /\ ladder.now \in Nat /\ ladder.delay \in Nat /\ ladder.since \in Nat
  BY DEF LadderTypeOK
<1>2. r.maxDelay \in Nat /\ r.maxDelay <= ClockMod \div 2
  BY <1>1, RecoveryTypes
<1>3. ladder.card # "lost" => ladder.state = "idle"
  BY DEF LadderIsArmed
<1>4. ASSUME ladder.card = "lost", r.enabled, ladder.state # "waiting"
      PROVE  ladder.state = "exhausted" /\ Len(tried) = r.budget
  <2>1. ladder.state = "exhausted"
    BY <1>1, <1>4 DEF LadderIsArmed
  <2> QED BY <2>1 DEF LadderIsArmed, BudgetOk
<1>5. ASSUME ladder.state = "waiting"
      PROVE  Due(ladder) \/ (ladder.deadline - ladder.now) % ClockMod <= r.maxDelay
  <2>1. /\ ladder.deadline = (ladder.now + ladder.delay - ladder.since) % ClockMod
        /\ ladder.since <= ladder.delay + MaxLag /\ ladder.delay <= r.maxDelay
    BY <1>5 DEF RungOk
  <2>2. ladder.delay <= ClockMod \div 2
    BY <1>1, <1>2, <2>1, ClockHalf
  <2>3. /\ Past(ladder.now, ladder.deadline) <=> ladder.since >= ladder.delay
        /\ ladder.since < ladder.delay =>
             (ladder.deadline - ladder.now) % ClockMod = ladder.delay - ladder.since
    BY <1>1, <2>1, <2>2, DueIsWaited
  <2>4. CASE ladder.since >= ladder.delay
    BY <1>5, <2>3, <2>4 DEF Due
  <2>5. CASE ladder.since < ladder.delay
    BY <1>1, <1>2, <2>1, <2>3, <2>5
  <2> QED BY <1>1, <2>4, <2>5
<1> QED BY <1>3, <1>4, <1>5 DEF LostIsRetried

-----------------------------------------------------------------------------
(* Rules.  What an author can write.                                       *)
Patches == [index : Byte, value : Values, mask : Masks]
Stamps == [start : Nat, len : Nat, big : BOOLEAN, value : SignalValues]
Flags == {<<>>, <<TRUE>>, <<FALSE>>}
Ids == {<<>>} \cup {<<i>> : i \in SUBSET IdBits(TRUE)}
E2es == {<<>>} \cup {<<e>> : e \in [crc : Byte, first : Byte, last : Byte \cup {-1}]}
Modifies == [id : Ids, extended : Flags, data : Seq(Patches), signals : Seq(Stamps), e2e : E2es]
Rules == [extended : BOOLEAN, id : SUBSET IdBits(TRUE), mask : Ids, drop : BOOLEAN,
          named : BOOLEAN, modifies : BOOLEAN, modify : Modifies]

RuleTypeOK ==
    /\ rule \in Rules
    /\ ~rule.modifies => rule.modify.e2e = <<>>

(* A plain rule has the type.                                              *)
LEMMA InitRule == RuleInit => RuleTypeOK
<1> SUFFICES ASSUME RuleInit PROVE RuleTypeOK
  OBVIOUS
<1>1. PICK x \in BOOLEAN, id \in SUBSET IdBits(TRUE), drop \in BOOLEAN, named \in BOOLEAN,
           mask \in Ids : rule = Plain(x, id, mask, drop, named)
  BY DEF RuleInit, Ids
<1> DEFINE m == [id |-> <<>>, extended |-> <<>>, data |-> <<>>, signals |-> <<>>, e2e |-> <<>>]
<1>2. <<>> \in Seq(Patches) /\ <<>> \in Seq(Stamps)
  OBVIOUS
<1>3. m \in Modifies /\ m.e2e = <<>>
  BY <1>2 DEF Modifies, Ids, Flags, E2es
<1>4. rule = [extended |-> x, id |-> id, mask |-> mask, drop |-> drop, named |-> named,
              modifies |-> FALSE, modify |-> m]
  BY <1>1 DEF Plain
<1> HIDE DEF m
<1> QED BY <1>3, <1>4 DEF RuleTypeOK, Rules

(* An entry, an identifier or a protection keeps it.                       *)
LEMMA AuthorKeepsRule == RuleTypeOK /\ RuleNext => RuleTypeOK'
<1> SUFFICES ASSUME RuleTypeOK, RuleNext PROVE RuleTypeOK'
  OBVIOUS
<1> DEFINE m == rule.modify
<1>1. rule \in Rules /\ m \in Modifies
  BY DEF RuleTypeOK, Rules
<1>2. CASE ChangeId
  <2>1. PICK new \in Ids, x \in Flags :
          rule' = [rule EXCEPT !.modifies = TRUE, !.modify.id = new, !.modify.extended = x]
    BY <1>2 DEF ChangeId, Ids, Flags
  <2> DEFINE w == [m EXCEPT !.id = new, !.extended = x]
  <2>2. w \in Modifies
    BY <1>1 DEF Modifies
  <2>3. rule' = [rule EXCEPT !.modifies = TRUE, !.modify = w]
    BY <1>1, <2>1 DEF Rules, Modifies
  <2> HIDE DEF w, m
  <2> QED BY <1>1, <2>2, <2>3 DEF RuleTypeOK, Rules
<1>3. CASE PatchByte
  <2>1. PICK e \in Patches :
          rule' = [rule EXCEPT !.modifies = TRUE, !.modify.data = Append(@, e)]
    <3>1. PICK i \in Byte, v \in Values, k \in Masks :
            rule' = [rule EXCEPT !.modifies = TRUE,
                       !.modify.data = Append(@, [index |-> i, value |-> v, mask |-> k])]
      BY <1>3 DEF PatchByte
    <3>2. [index |-> i, value |-> v, mask |-> k] \in Patches
      BY DEF Patches
    <3> QED BY <3>1, <3>2
  <2> DEFINE w == [m EXCEPT !.data = Append(@, e)]
             u == Append(m.data, e)
  <2>2. w \in Modifies
    <3>1. u \in Seq(Patches)
      <4>1. m.data \in Seq(Patches)
        BY <1>1 DEF Modifies
      <4> QED BY <2>1, <4>1
    <3>2. w = [m EXCEPT !.data = u]
      OBVIOUS
    <3> HIDE DEF u, w, m
    <3> QED BY <1>1, <3>1, <3>2 DEF Modifies
  <2>3. rule' = [rule EXCEPT !.modifies = TRUE, !.modify = w]
    BY <1>1, <2>1 DEF Rules, Modifies
  <2> HIDE DEF w, m
  <2> QED BY <1>1, <2>2, <2>3 DEF RuleTypeOK, Rules
<1>4. CASE PatchSignal
  <2>1. PICK e \in Stamps :
          rule' = [rule EXCEPT !.modifies = TRUE, !.modify.signals = Append(@, e)]
    <3>1. PICK s \in 0 .. NBytes * NBits - 1, l \in 1 .. NBits + 1, big \in BOOLEAN,
               v \in SignalValues :
            rule' = [rule EXCEPT !.modifies = TRUE,
                       !.modify.signals =
                          Append(@, [start |-> s, len |-> l, big |-> big, value |-> v])]
      BY <1>4 DEF PatchSignal
    <3>2. s \in Nat /\ l \in Nat
      OBVIOUS
    <3>3. [start |-> s, len |-> l, big |-> big, value |-> v] \in Stamps
      BY <3>2 DEF Stamps
    <3> QED BY <3>1, <3>3
  <2> DEFINE w == [m EXCEPT !.signals = Append(@, e)]
             u == Append(m.signals, e)
  <2>2. w \in Modifies
    <3>1. u \in Seq(Stamps)
      <4>1. m.signals \in Seq(Stamps)
        BY <1>1 DEF Modifies
      <4> QED BY <2>1, <4>1
    <3>2. w = [m EXCEPT !.signals = u]
      OBVIOUS
    <3> HIDE DEF u, w, m
    <3> QED BY <1>1, <3>1, <3>2 DEF Modifies
  <2>3. rule' = [rule EXCEPT !.modifies = TRUE, !.modify = w]
    BY <1>1, <2>1 DEF Rules, Modifies
  <2> HIDE DEF w, m
  <2> QED BY <1>1, <2>2, <2>3 DEF RuleTypeOK, Rules
<1>5. CASE AddE2e
  <2>1. PICK e \in [crc : Byte, first : Byte, last : Byte \cup {-1}] :
          rule' = [rule EXCEPT !.modify.e2e = <<e>>]
    BY <1>5 DEF AddE2e
  <2>2. rule.modifies
    BY <1>5 DEF AddE2e
  <2> DEFINE w == [m EXCEPT !.e2e = <<e>>]
  <2>3. <<e>> \in E2es
    BY DEF E2es
  <2>4. w \in Modifies
    BY <1>1, <2>3 DEF Modifies
  <2>5. rule' = [rule EXCEPT !.modify = w]
    BY <1>1, <2>1 DEF Rules, Modifies
  <2> HIDE DEF w, m
  <2> QED BY <1>1, <2>2, <2>4, <2>5 DEF RuleTypeOK, Rules
<1> QED BY <1>2, <1>3, <1>4, <1>5 DEF RuleNext

-----------------------------------------------------------------------------
(* The cells of a field are as many as its bits, in either byte order.     *)
IsSplit(x) ==
    /\ x \div NBits \in Int /\ x % NBits \in Int /\ x = NBits * (x \div NBits) + (x % NBits)
    /\ x >= 0 => x \div NBits >= 0

(* Every number is.                                                        *)
LEMMA BitSplit == ASSUME NEW x \in Int PROVE IsSplit(x)
<1>1. NBits \in Nat \ {0}
  BY RuleAssumption
<1>2. x \div NBits \in Int /\ x % NBits \in Int /\ x = NBits * (x \div NBits) + (x % NBits)
  BY <1>1, ModParts
<1>3. x >= 0 => x \div NBits >= 0
  BY <1>1
<1> QED BY <1>2, <1>3 DEF IsSplit

(* No two bits of an Intel signal lie in one cell,                         *)
LEMMA IntelIsInjective ==
    ASSUME NEW s, s.start \in Nat, NEW j \in Nat, NEW k \in Nat,
           IntelCell(s, j) = IntelCell(s, k)
    PROVE  j = k
<1> DEFINE a == s.start
<1>1. NBits \in Nat \ {0}
  BY RuleAssumption
<1>2. (a + j) \div NBits = (a + k) \div NBits /\ (a + j) % NBits = (a + k) % NBits
  BY DEF IntelCell
<1>3. a + j \in Int /\ a + k \in Int
  OBVIOUS
<1>4. /\ a + j = NBits * ((a + j) \div NBits) + ((a + j) % NBits)
      /\ a + k = NBits * ((a + k) \div NBits) + ((a + k) % NBits)
  BY <1>1, <1>3, ModParts
<1>5. a + j = a + k
  BY <1>2, <1>4
<1> QED BY <1>5

(* nor of a Motorola one,                                                  *)
LEMMA MotorolaIsInjective ==
    ASSUME NEW s, s.start \in Nat, NEW j \in Nat, NEW k \in Nat,
           MotorolaCell(s, j) = MotorolaCell(s, k)
    PROVE  j = k
<1> DEFINE b0 == s.start % NBits
           byte == s.start \div NBits
           pj == j - (b0 + 1)
           pk == k - (b0 + 1)
<1>1. NBits \in Nat \ {0}
  BY RuleAssumption
<1>2. b0 \in Int /\ byte \in Int
  BY <1>1, ModParts
<1>3. /\ MotorolaCell(s, j) =
           IF pj < 0 THEN <<byte, b0 - j>>
           ELSE <<byte + 1 + (pj \div NBits), NBits - 1 - (pj % NBits)>>
      /\ MotorolaCell(s, k) =
           IF pk < 0 THEN <<byte, b0 - k>>
           ELSE <<byte + 1 + (pk \div NBits), NBits - 1 - (pk % NBits)>>
  BY DEF MotorolaCell
<1>4. pj \in Int /\ pk \in Int /\ (j = k <=> pj = pk) /\ (j = k <=> b0 - j = b0 - k)
  BY <1>2
<1>5. /\ pj \div NBits \in Int /\ pj % NBits \in Int
      /\ pj = NBits * (pj \div NBits) + (pj % NBits)
      /\ pk \div NBits \in Int /\ pk % NBits \in Int
      /\ pk = NBits * (pk \div NBits) + (pk % NBits)
  <2> HIDE DEF pj, pk, b0
  <2>1. IsSplit(pj) /\ IsSplit(pk)
    BY <1>4, BitSplit
  <2> QED BY <2>1 DEF IsSplit
<1>7. (pj >= 0 => pj \div NBits >= 0) /\ (pk >= 0 => pk \div NBits >= 0)
  <2> HIDE DEF pj, pk, b0
  <2> QED BY <1>4, BitSplit DEF IsSplit
<1> DEFINE qj == pj \div NBits
           rj == pj % NBits
           qk == pk \div NBits
           rk == pk % NBits
<1> HIDE DEF b0, byte, pj, pk, qj, qk, rj, rk
<1>8. /\ qj \in Int /\ rj \in Int /\ pj = NBits * qj + rj /\ (pj >= 0 => qj >= 0)
      /\ qk \in Int /\ rk \in Int /\ pk = NBits * qk + rk /\ (pk >= 0 => qk >= 0)
  BY <1>5, <1>7 DEF qj, qk, rj, rk
<1>9. (IF pj < 0 THEN <<byte, b0 - j>> ELSE <<byte + 1 + qj, NBits - 1 - rj>>)
      = (IF pk < 0 THEN <<byte, b0 - k>> ELSE <<byte + 1 + qk, NBits - 1 - rk>>)
  BY <1>3 DEF qj, qk, rj, rk
<1>10. CASE pj < 0 /\ pk < 0
  BY <1>2, <1>4, <1>9, <1>10
<1>11. CASE pj >= 0 /\ pk >= 0
  <2>1. byte + 1 + qj = byte + 1 + qk /\ NBits - 1 - rj = NBits - 1 - rk
    BY <1>4, <1>9, <1>11
  <2>2. qj = qk /\ rj = rk
    BY <1>1, <1>2, <1>8, <2>1
  <2> QED BY <1>4, <1>8, <2>2
<1>12. CASE pj < 0 /\ pk >= 0
  BY <1>2, <1>4, <1>8, <1>9, <1>12
<1>13. CASE pj >= 0 /\ pk < 0
  BY <1>2, <1>4, <1>8, <1>9, <1>13
<1> QED BY <1>4, <1>10, <1>11, <1>12, <1>13

(* nor of either, counted from its low end.                                *)
LEMMA CellsAreDistinct ==
    ASSUME NEW s, s.start \in Nat, s.len \in Nat, NEW j \in 0 .. s.len - 1, NEW k \in 0 .. s.len - 1,
           SignalCell(s, j) = SignalCell(s, k)
    PROVE  j = k
<1>1. CASE s.big
  <2>1. MotorolaCell(s, s.len - 1 - j) = MotorolaCell(s, s.len - 1 - k)
    BY <1>1 DEF SignalCell
  <2>2. s.len - 1 - j \in Nat /\ s.len - 1 - k \in Nat
    OBVIOUS
  <2>3. s.len - 1 - j = s.len - 1 - k
    BY <2>1, <2>2, MotorolaIsInjective
  <2> QED BY <2>3
<1>2. CASE ~s.big
  <2>1. IntelCell(s, j) = IntelCell(s, k)
    BY <1>2 DEF SignalCell
  <2> QED BY <2>1, IntelIsInjective
<1> QED BY <1>1, <1>2

-----------------------------------------------------------------------------
(* The entries of an accepted rule lie apart, and make up the fence.       *)
LEMMA ClaimsAre ==
    ASSUME NEW m \in Modifies
    PROVE  /\ \A i \in DOMAIN m.data :
                 i \in DOMAIN Claims(m) /\ Claims(m)[i] = PatchCells(m.data[i])
           /\ \A j \in DOMAIN m.signals :
                 /\ Len(m.data) + j \in DOMAIN Claims(m)
                 /\ Claims(m)[Len(m.data) + j] = SignalBits(m.signals[j])
           /\ \A n \in DOMAIN Claims(m) :
                 \/ n \in DOMAIN m.data
                 \/ \E j \in DOMAIN m.signals : n = Len(m.data) + j
           /\ Len(m.data) \in Nat /\ DOMAIN m.data = 1 .. Len(m.data)
           /\ DOMAIN m.signals = 1 .. Len(m.signals)
<1> DEFINE d == [i \in DOMAIN m.data |-> PatchCells(m.data[i])]
           s == [i \in DOMAIN m.signals |-> SignalBits(m.signals[i])]
           T == {d[i] : i \in DOMAIN m.data} \cup {s[i] : i \in DOMAIN m.signals}
<1>1. /\ Len(m.data) \in Nat /\ DOMAIN m.data = 1 .. Len(m.data)
      /\ Len(m.signals) \in Nat /\ DOMAIN m.signals = 1 .. Len(m.signals)
  BY DEF Modifies
<1>2. d \in [1 .. Len(m.data) -> T]
  BY <1>1
<1>3. s \in [1 .. Len(m.signals) -> T]
  BY <1>1
<1>4. /\ DOMAIN (d \o s) = 1 .. Len(m.data) + Len(m.signals)
      /\ \A i \in 1 .. Len(m.data) : (d \o s)[i] = d[i]
      /\ \A j \in 1 .. Len(m.signals) : (d \o s)[Len(m.data) + j] = s[j]
  <2> HIDE DEF d, s, T
  <2>1. d \in Seq(T) /\ Len(d) = Len(m.data)
    BY <1>1, <1>2
  <2>2. s \in Seq(T) /\ Len(s) = Len(m.signals)
    BY <1>1, <1>3
  <2>3. /\ DOMAIN (d \o s) = 1 .. Len(d) + Len(s)
        /\ \A i \in 1 .. Len(d) + Len(s) :
              (d \o s)[i] = IF i <= Len(d) THEN d[i] ELSE s[i - Len(d)]
    <3>1. /\ d \o s \in Seq(T) /\ Len(d \o s) = Len(d) + Len(s)
          /\ \A i \in 1 .. Len(d) + Len(s) :
                (d \o s)[i] = IF i <= Len(d) THEN d[i] ELSE s[i - Len(d)]
      BY <2>1, <2>2, ConcatProperties
    <3> DEFINE u == d \o s
    <3> HIDE DEF u
    <3>2. u \in Seq(T) => DOMAIN u = 1 .. Len(u)
      OBVIOUS
    <3> QED BY <3>1, <3>2 DEF u
  <2>4. ASSUME NEW j \in 1 .. Len(m.signals) PROVE (d \o s)[Len(m.data) + j] = s[j]
    <3> DEFINE n == Len(m.data)
               k == n + j
    <3>1. k \in 1 .. Len(d) + Len(s) /\ ~(k <= Len(d)) /\ k - Len(d) = j
      <4> DEFINE q == Len(m.signals)
      <4>1. n \in Nat /\ q \in Nat /\ j \in 1 .. q /\ Len(d) = n /\ Len(s) = q
        BY <1>1, <2>1, <2>2
      <4> HIDE DEF n, q
      <4>2. n + j \in 1 .. n + q /\ ~(n + j <= n) /\ n + j - n = j
        BY <4>1
      <4> QED BY <4>1, <4>2
    <3> HIDE DEF k, n
    <3>2. (d \o s)[k] = s[j]
      BY <2>3, <3>1
    <3> QED BY <3>2 DEF k, n
  <2> QED BY <1>1, <2>1, <2>2, <2>3, <2>4
<1>5. Claims(m) = d \o s
  BY DEF Claims
<1> DEFINE c == d \o s
<1>6. \A i \in DOMAIN m.data : d[i] = PatchCells(m.data[i])
  OBVIOUS
<1>7. \A j \in DOMAIN m.signals : s[j] = SignalBits(m.signals[j])
  OBVIOUS
<1>8. /\ DOMAIN c = 1 .. Len(m.data) + Len(m.signals)
      /\ \A i \in 1 .. Len(m.data) : c[i] = d[i]
      /\ \A j \in 1 .. Len(m.signals) : c[Len(m.data) + j] = s[j]
  BY <1>4
<1>9. ASSUME NEW n \in DOMAIN c, n \notin DOMAIN m.data
      PROVE  \E j \in DOMAIN m.signals : n = Len(m.data) + j
  <2>1. n - Len(m.data) \in DOMAIN m.signals /\ n = Len(m.data) + (n - Len(m.data))
    BY <1>1, <1>8, <1>9
  <2> QED BY <2>1
<1> HIDE DEF d, s, c
<1>10. \A i \in DOMAIN m.data : i \in DOMAIN c /\ c[i] = PatchCells(m.data[i])
  <2> DEFINE n == Len(m.data)
             q == Len(m.signals)
  <2>2. n \in Nat /\ q \in Nat /\ DOMAIN m.data = 1 .. n /\ DOMAIN c = 1 .. n + q
    BY <1>1, <1>8
  <2> HIDE DEF n, q
  <2>3. \A i \in 1 .. n : i \in 1 .. n + q
    BY <2>2
  <2>1. \A i \in DOMAIN m.data : i \in 1 .. Len(m.data) /\ i \in DOMAIN c
    BY <2>2, <2>3 DEF n
  <2> QED BY <1>6, <1>8, <2>1
<1>11. \A j \in DOMAIN m.signals :
          Len(m.data) + j \in DOMAIN c /\ c[Len(m.data) + j] = SignalBits(m.signals[j])
  <2> DEFINE n == Len(m.data)
             q == Len(m.signals)
  <2>2. n \in Nat /\ q \in Nat /\ DOMAIN m.signals = 1 .. q /\ DOMAIN c = 1 .. n + q
    BY <1>1, <1>8
  <2> HIDE DEF n, q
  <2>3. \A j \in 1 .. q : n + j \in 1 .. n + q
    BY <2>2
  <2>1. \A j \in DOMAIN m.signals : j \in 1 .. Len(m.signals) /\ Len(m.data) + j \in DOMAIN c
    BY <2>2, <2>3 DEF n, q
  <2> QED BY <1>7, <1>8, <2>1
<1>12. Claims(m) = c
  BY <1>5 DEF c
<1> QED BY <1>1, <1>9, <1>10, <1>11, <1>12

(* The cells of the payload entries, those of data and of signals.         *)
LEMMA PayloadCellsAre ==
    ASSUME NEW m \in Modifies
    PROVE  PayloadCells(m) = (UNION {PatchCells(m.data[i]) : i \in DOMAIN m.data})
                              \cup (UNION {SignalBits(m.signals[i]) : i \in DOMAIN m.signals})
<1> DEFINE d == UNION {PatchCells(m.data[i]) : i \in DOMAIN m.data}
           s == UNION {SignalBits(m.signals[i]) : i \in DOMAIN m.signals}
<1>1. ASSUME NEW c \in PayloadCells(m) PROVE c \in d \cup s
  <2>1. PICK n \in DOMAIN Claims(m) : c \in Claims(m)[n]
    BY DEF PayloadCells
  <2>2. CASE n \in DOMAIN m.data
    BY <2>1, <2>2, ClaimsAre
  <2>3. CASE \E j \in DOMAIN m.signals : n = Len(m.data) + j
    BY <2>1, <2>3, ClaimsAre
  <2> QED BY <2>2, <2>3, ClaimsAre
<1>2. ASSUME NEW c \in d PROVE c \in PayloadCells(m)
  BY ClaimsAre DEF PayloadCells
<1>3. ASSUME NEW c \in s PROVE c \in PayloadCells(m)
  BY ClaimsAre DEF PayloadCells
<1> QED BY <1>1, <1>2, <1>3

Apart(m) ==
    /\ \A i, j \in DOMAIN m.data : i # j => m.data[i].index # m.data[j].index
    /\ \A i \in DOMAIN m.data, j \in DOMAIN m.signals :
          PatchCells(m.data[i]) \cap SignalBits(m.signals[j]) = {}
    /\ \A i, j \in DOMAIN m.signals :
          i # j => SignalBits(m.signals[i]) \cap SignalBits(m.signals[j]) = {}
    /\ \A i \in DOMAIN m.data : PatchCells(m.data[i]) \subseteq Cells
    /\ \A i \in DOMAIN m.signals : SignalBits(m.signals[i]) \subseteq Cells

(* The validation keeps them apart.                                        *)
LEMMA EntriesAreApart ==
    ASSUME NEW m \in Modifies, EntriesOk(m)
    PROVE  Apart(m)
<1> DEFINE c == Claims(m)
           n == Len(m.data)
<1>1. /\ \A i \in DOMAIN m.data : i \in DOMAIN c /\ c[i] = PatchCells(m.data[i])
      /\ \A j \in DOMAIN m.signals : n + j \in DOMAIN c /\ c[n + j] = SignalBits(m.signals[j])
      /\ n \in Nat /\ DOMAIN m.data = 1 .. n /\ DOMAIN m.signals = 1 .. Len(m.signals)
  BY ClaimsAre
<1>2. \A i, j \in DOMAIN c : i # j => c[i] \cap c[j] = {}
  BY DEF EntriesOk, Disjoint
<1> HIDE DEF c
<1>3. ASSUME NEW i \in DOMAIN m.data, NEW j \in DOMAIN m.signals
      PROVE  PatchCells(m.data[i]) \cap SignalBits(m.signals[j]) = {}
  <2>1. i # n + j
    BY <1>1
  <2> QED BY <1>1, <1>2, <2>1
<1>4. ASSUME NEW i \in DOMAIN m.signals, NEW j \in DOMAIN m.signals, i # j
      PROVE  SignalBits(m.signals[i]) \cap SignalBits(m.signals[j]) = {}
  <2>1. n + i # n + j
    BY <1>1, <1>4
  <2> QED BY <1>1, <1>2, <2>1
<1>5. ASSUME NEW i \in DOMAIN m.data PROVE PatchCells(m.data[i]) \subseteq Cells
  <2>1. m.data[i] \in Patches
    BY DEF Modifies
  <2>2. m.data[i].index \in Byte /\ m.data[i].mask \subseteq Bit
    BY <2>1, RuleAssumption DEF Patches
  <2> QED BY <2>2 DEF PatchCells, Cells
<1>6. ASSUME NEW i \in DOMAIN m.signals PROVE SignalBits(m.signals[i]) \subseteq Cells
  BY DEF EntriesOk, SignalFits
<1>7. \A i, j \in DOMAIN m.data : i # j => m.data[i].index # m.data[j].index
  BY DEF EntriesOk
<1> QED BY <1>3, <1>4, <1>5, <1>6, <1>7 DEF Apart

(* Whose a cell is.                                                        *)
LEMMA PatchHasCell ==
    ASSUME NEW p, NEW c, c \in PatchCells(p)
    PROVE  c = <<p.index, c[2]>> /\ c[1] = p.index /\ c[2] \in p.mask
BY DEF PatchCells

(* A cell has at most one data entry.                                      *)
LEMMA OnePatchPerCell ==
    ASSUME NEW m, Apart(m), NEW i \in DOMAIN m.data, NEW j \in DOMAIN m.data, NEW c,
           c \in PatchCells(m.data[i]), c \in PatchCells(m.data[j])
    PROVE  i = j
<1>1. c[1] = m.data[i].index /\ c[1] = m.data[j].index
  BY PatchHasCell
<1> QED BY <1>1 DEF Apart

(* Bits of the payload that the generated masks set.                       *)
LEMMA OrIs ==
    ASSUME NEW m, NEW c
    PROVE  c \in OrValue(m) <=>
              \/ \E i \in DOMAIN m.data :
                    c \in PatchCells(m.data[i]) /\ Has(m.data[i].value, c[2])
              \/ \E i \in Stamped(m) : \E k \in 0 .. m.signals[i].len - 1 :
                    c = SignalCell(m.signals[i], k) /\ Has(m.signals[i].value, k)
<1> DEFINE d(i) == {<<m.data[i].index, b>> : b \in {b \in m.data[i].mask : Has(m.data[i].value, b)}}
           s(i) == {SignalCell(m.signals[i], k) :
                       k \in {k \in 0 .. m.signals[i].len - 1 : Has(m.signals[i].value, k)}}
<1>1. OrValue(m) = (UNION {d(i) : i \in DOMAIN m.data}) \cup (UNION {s(i) : i \in Stamped(m)})
  BY DEF OrValue
<1>2. ASSUME NEW i \in DOMAIN m.data
      PROVE  c \in d(i) <=> c \in PatchCells(m.data[i]) /\ Has(m.data[i].value, c[2])
  BY DEF PatchCells
<1>3. ASSUME NEW i \in Stamped(m)
      PROVE  c \in s(i) <=> \E k \in 0 .. m.signals[i].len - 1 :
                c = SignalCell(m.signals[i], k) /\ Has(m.signals[i].value, k)
  OBVIOUS
<1> HIDE DEF d, s
<1>4. c \in OrValue(m) <=> (\E i \in DOMAIN m.data : c \in d(i)) \/ (\E i \in Stamped(m) : c \in s(i))
  BY <1>1
<1> QED BY <1>2, <1>3, <1>4

Writes(m, c) ==
    \/ \E i \in DOMAIN m.data : c \in PatchCells(m.data[i])
    \/ \E i \in Stamped(m) : c \in SignalBits(m.signals[i])

(* The AND mask lets through what no entry writes.                         *)
LEMMA AndIs ==
    ASSUME NEW m, NEW c \in Cells
    PROVE  c \in AndMask(m) <=> ~Writes(m, c)
<1> DEFINE d == UNION {PatchCells(m.data[i]) : i \in DOMAIN m.data}
           s == UNION {SignalBits(m.signals[i]) : i \in Stamped(m)}
<1>1. AndMask(m) = Cells \ (d \cup s)
  BY DEF AndMask
<1>2. c \in d <=> \E i \in DOMAIN m.data : c \in PatchCells(m.data[i])
  OBVIOUS
<1>3. c \in s <=> \E i \in Stamped(m) : c \in SignalBits(m.signals[i])
  OBVIOUS
<1> HIDE DEF d, s
<1> QED BY <1>1, <1>2, <1>3 DEF Writes

(* A data entry writes its value.                                          *)
LEMMA PatchedCell ==
    ASSUME NEW m, Apart(m), NEW i \in DOMAIN m.data, NEW c, c \in PatchCells(m.data[i]), NEW payload
    PROVE  /\ c \in OrValue(m) <=> Has(m.data[i].value, c[2])
           /\ Wanted(m, c, payload) <=> Has(m.data[i].value, c[2])
<1>1. ASSUME NEW j \in DOMAIN m.data, c \in PatchCells(m.data[j]) PROVE j = i
  BY <1>1, OnePatchPerCell
<1>2. ASSUME NEW j \in Stamped(m), NEW k \in 0 .. m.signals[j].len - 1,
             c = SignalCell(m.signals[j], k)
      PROVE  FALSE
  <2>1. j \in DOMAIN m.signals /\ c \in SignalBits(m.signals[j])
    BY <1>2 DEF Stamped, SignalBits
  <2> QED BY <2>1 DEF Apart
<1>3. c \in OrValue(m) <=> Has(m.data[i].value, c[2])
  <2>1. c \in OrValue(m) <=>
              \/ \E j \in DOMAIN m.data :
                    c \in PatchCells(m.data[j]) /\ Has(m.data[j].value, c[2])
              \/ \E j \in Stamped(m) : \E k \in 0 .. m.signals[j].len - 1 :
                    c = SignalCell(m.signals[j], k) /\ Has(m.signals[j].value, k)
    BY OrIs
  <2> QED BY <1>1, <1>2, <2>1
<1> DEFINE p == {j \in DOMAIN m.data : c \in PatchCells(m.data[j])}
<1>4. p = {i}
  BY <1>1
<1>5. p # {} /\ \A j \in p : j = i
  BY <1>4
<1>6. Wanted(m, c, payload) <=> \A j \in p : Has(m.data[j].value, c[2])
  BY <1>5 DEF Wanted
<1> HIDE DEF p
<1>7. Wanted(m, c, payload) <=> Has(m.data[i].value, c[2])
  BY <1>4, <1>6
<1> QED BY <1>3, <1>7

(* A signal entry writes its value, bit k in the cell of k.                *)
LEMMA StampedCell ==
    ASSUME NEW m \in Modifies, Apart(m), NEW i \in Stamped(m), NEW k \in 0 .. m.signals[i].len - 1,
           NEW c, c = SignalCell(m.signals[i], k), NEW payload
    PROVE  /\ c \in OrValue(m) <=> Has(m.signals[i].value, k)
           /\ Wanted(m, c, payload) <=> Has(m.signals[i].value, k)
<1>1. i \in DOMAIN m.signals /\ c \in SignalBits(m.signals[i])
  BY DEF Stamped, SignalBits
<1>2. ASSUME NEW j \in DOMAIN m.data, c \in PatchCells(m.data[j]) PROVE FALSE
  BY <1>1, <1>2 DEF Apart
<1>3. ASSUME NEW j \in Stamped(m), NEW n \in 0 .. m.signals[j].len - 1,
             c = SignalCell(m.signals[j], n)
      PROVE  j = i /\ n = k
  <2>1. j \in DOMAIN m.signals /\ c \in SignalBits(m.signals[j])
    BY <1>3 DEF Stamped, SignalBits
  <2>2. j = i
    BY <1>1, <2>1 DEF Apart
  <2>3. m.signals[i] \in Stamps
    BY <1>1 DEF Modifies
  <2>4. m.signals[i].start \in Nat /\ m.signals[i].len \in Nat
    BY <2>3 DEF Stamps
  <2>5. n = k
    BY <1>3, <2>2, <2>4, CellsAreDistinct
  <2> QED BY <2>2, <2>5
<1>4. c \in OrValue(m) <=> Has(m.signals[i].value, k)
  <2>1. c \in OrValue(m) <=>
              \/ \E j \in DOMAIN m.data :
                    c \in PatchCells(m.data[j]) /\ Has(m.data[j].value, c[2])
              \/ \E j \in Stamped(m) : \E n \in 0 .. m.signals[j].len - 1 :
                    c = SignalCell(m.signals[j], n) /\ Has(m.signals[j].value, n)
    BY OrIs
  <2> QED BY <1>2, <1>3, <2>1
<1> DEFINE p == {j \in DOMAIN m.data : c \in PatchCells(m.data[j])}
           s == {j \in Stamped(m) : \E n \in 0 .. m.signals[j].len - 1 : SignalCell(m.signals[j], n) = c}
<1>5. p = {}
  BY <1>2
<1>6. i \in s
  OBVIOUS
<1>7. Wanted(m, c, payload) <=>
         \A j \in s : \A n \in 0 .. m.signals[j].len - 1 :
            SignalCell(m.signals[j], n) = c => Has(m.signals[j].value, n)
  BY <1>5, <1>6 DEF Wanted
<1>8. ASSUME NEW j \in s, NEW n \in 0 .. m.signals[j].len - 1, SignalCell(m.signals[j], n) = c
      PROVE  j = i /\ n = k
  BY <1>3, <1>8
<1>9. Wanted(m, c, payload) <=> Has(m.signals[i].value, k)
  <2> HIDE DEF s
  <2> QED BY <1>6, <1>7, <1>8
<1> QED BY <1>4, <1>9

(* What no entry writes stays as received.                                 *)
LEMMA FreeCell ==
    ASSUME NEW m, NEW c, ~Writes(m, c), NEW payload
    PROVE  c \notin OrValue(m) /\ (Wanted(m, c, payload) <=> c \in payload)
<1>1. ASSUME NEW j \in DOMAIN m.data, c \in PatchCells(m.data[j]) PROVE FALSE
  BY <1>1 DEF Writes
<1>2. ASSUME NEW j \in Stamped(m), NEW n \in 0 .. m.signals[j].len - 1,
             c = SignalCell(m.signals[j], n)
      PROVE  FALSE
  BY <1>2 DEF Writes, SignalBits
<1>3. c \notin OrValue(m)
  <2>1. c \in OrValue(m) <=>
              \/ \E j \in DOMAIN m.data :
                    c \in PatchCells(m.data[j]) /\ Has(m.data[j].value, c[2])
              \/ \E j \in Stamped(m) : \E n \in 0 .. m.signals[j].len - 1 :
                    c = SignalCell(m.signals[j], n) /\ Has(m.signals[j].value, n)
    BY OrIs
  <2> QED BY <1>1, <1>2, <2>1
<1> DEFINE p == {j \in DOMAIN m.data : c \in PatchCells(m.data[j])}
           s == {j \in Stamped(m) : \E n \in 0 .. m.signals[j].len - 1 : SignalCell(m.signals[j], n) = c}
<1>4. p = {} /\ s = {}
  BY <1>1, <1>2
<1> QED BY <1>3, <1>4 DEF Wanted

(* Every bit an accepted rule declares gets its value, the others pass.    *)
LEMMA WrittenAsWanted ==
    ASSUME NEW m \in Modifies, Apart(m), NEW c \in Cells, NEW payload
    PROVE  /\ c \in (payload \cap AndMask(m)) \cup OrValue(m) <=> Wanted(m, c, payload)
           /\ Writes(m, c) => c \in PayloadCells(m)
<1>1. ASSUME NEW i \in DOMAIN m.data, c \in PatchCells(m.data[i])
      PROVE  /\ c \notin AndMask(m) /\ (c \in OrValue(m) <=> Wanted(m, c, payload))
             /\ c \in PayloadCells(m)
  <2>1. Writes(m, c)
    BY <1>1 DEF Writes
  <2> QED BY <1>1, <2>1, AndIs, PatchedCell, PayloadCellsAre
<1>2. ASSUME NEW i \in Stamped(m), c \in SignalBits(m.signals[i])
      PROVE  /\ c \notin AndMask(m) /\ (c \in OrValue(m) <=> Wanted(m, c, payload))
             /\ c \in PayloadCells(m)
  <2>1. Writes(m, c) /\ i \in DOMAIN m.signals
    BY <1>2 DEF Writes, Stamped
  <2>2. PICK k \in 0 .. m.signals[i].len - 1 : c = SignalCell(m.signals[i], k)
    BY <1>2 DEF SignalBits
  <2> QED BY <1>2, <2>1, <2>2, AndIs, StampedCell, PayloadCellsAre
<1>3. CASE ~Writes(m, c)
  BY <1>3, AndIs, FreeCell
<1>4. CASE Writes(m, c)
  BY <1>1, <1>2, <1>4 DEF Writes
<1> QED BY <1>3, <1>4

(* A standard identifier is an extended one, too.                          *)
LEMMA IdBitsGrow == IdBits(FALSE) \subseteq IdBits(TRUE)
BY RuleAssumption DEF IdBits

(* A flag that is given.                                                   *)
LEMMA FlagIs ==
    ASSUME NEW f \in Flags, f # <<>>
    PROVE  f[1] \in BOOLEAN
<1>1. f = <<TRUE>> \/ f = <<FALSE>>
  BY DEF Flags
<1>2. <<TRUE>>[1] \in BOOLEAN /\ <<FALSE>>[1] \in BOOLEAN
  OBVIOUS
<1> QED BY <1>1, <1>2, Zenon

(* An accepted rule matches some frame, and what it matches leaves with an *)
(* identifier of its frame type, its own unless a new one was named.       *)
LEMMA AcceptedIds ==
    ASSUME NEW r \in Rules, Accepted(r)
    PROVE  LET g == Generated(r)
               ids == {id \in SUBSET IdBits(r.extended) : Match(g, id, r.extended)}
           IN  /\ ids # {}
               /\ ~g.drop /\ r.modifies =>
                    /\ \A id \in ids : OutId(g, id) \subseteq IdBits(g.outExt)
                    /\ r.modify.id = <<>> =>
                          \A i, j \in ids : i # j => OutId(g, i) # OutId(g, j)
<1> DEFINE g == Generated(r)
           x == r.extended
           y == OutExtended(r)
           ids == {id \in SUBSET IdBits(x) : Match(g, id, x)}
<1>1. /\ g.id = r.id /\ g.mask = MaskOf(r) /\ g.extended = x /\ g.drop = r.drop
      /\ g.outExt = (r.modifies /\ y)
      /\ g.replace = (r.modifies /\ (r.modify.id # <<>> \/ y # x))
      /\ g.newId = IF r.modifies /\ r.modify.id # <<>> THEN r.modify.id[1] ELSE r.id
  BY DEF Generated
<1>2. /\ r.id \subseteq IdBits(x) /\ r.id \subseteq MaskOf(r) /\ MaskOf(r) \subseteq IdBits(x)
      /\ r.modifies => ModifyOk(r)
  BY DEF Accepted, IdOk
<1>3. x \in BOOLEAN /\ r.modify.extended \in Flags /\ r.modify \in Modifies
  BY DEF Rules, Modifies
<1>4. y \in BOOLEAN
  BY <1>3, FlagIs DEF OutExtended
<1> HIDE DEF g, y
<1>5. \A id : id \in ids <=> id \subseteq IdBits(x) /\ id \cap MaskOf(r) = r.id
  BY <1>1 DEF Match
<1>6. r.id \in ids
  BY <1>2, <1>5
<1> HIDE DEF ids
<1>7. ASSUME r.modifies
      PROVE  /\ \A id \in ids : OutId(g, id) \subseteq IdBits(g.outExt)
             /\ r.modify.id = <<>> => \A i, j \in ids : i # j => OutId(g, i) # OutId(g, j)
  <2>1. /\ r.modify.id # <<>> => r.modify.id[1] \subseteq IdBits(y)
        /\ r.modify.id = <<>> => ~(x /\ ~y) /\ (y # x => MaskOf(r) = IdBits(x))
    BY <1>2, <1>7 DEF ModifyOk, y
  <2>2. g.outExt = y
    BY <1>1, <1>4, <1>7
  <2>3. CASE r.modify.id # <<>>
    <3>1. \A id : OutId(g, id) = r.modify.id[1]
      BY <1>1, <1>7, <2>3 DEF OutId
    <3> QED BY <2>1, <2>2, <2>3, <3>1
  <2>4. CASE r.modify.id = <<>> /\ y = x
    <3>1. \A id : OutId(g, id) = id
      BY <1>1, <1>7, <2>4 DEF OutId
    <3> QED BY <1>5, <2>2, <2>4, <3>1
  <2>5. CASE r.modify.id = <<>> /\ y # x
    <3>1. x = FALSE /\ y = TRUE /\ MaskOf(r) = IdBits(x)
      BY <1>3, <1>4, <2>1, <2>5
    <3>2. \A id : OutId(g, id) = r.id
      BY <1>1, <1>7, <2>5 DEF OutId
    <3>3. \A id \in ids : id = r.id
      <4>1. ASSUME NEW id \in ids PROVE id = r.id
        <5>1. id \subseteq IdBits(x) /\ id \cap MaskOf(r) = r.id
          BY <1>5
        <5>2. id \subseteq MaskOf(r)
          BY <3>1, <5>1
        <5> QED BY <5>1, <5>2
      <4> QED BY <4>1
    <3>4. r.id \subseteq IdBits(TRUE)
      BY <1>2, <3>1, IdBitsGrow
    <3> QED BY <2>2, <3>1, <3>2, <3>3, <3>4
  <2> QED BY <2>3, <2>4, <2>5
<1> QED BY <1>6, <1>7 DEF g, ids

(* The cells of a checksum belong to no entry.                             *)
LEMMA CrcIsNobodys ==
    ASSUME NEW r \in Rules, Accepted(r), r.modifies, r.modify.e2e # <<>>
    PROVE  CrcIsKeptApart(Generated(r), r.modify.e2e[1])
<1> DEFINE m == r.modify
           e == m.e2e[1]
           g == Generated(r)
<1>1. m \in Modifies /\ EntriesOk(m) /\ E2eOk(m)
  BY DEF Accepted, ModifyOk, Rules
<1>2. Apart(m)
  BY <1>1, EntriesAreApart
<1>3. PayloadCells(m) # {} /\ \A c \in PayloadCells(m) : c[1] # e.crc
  BY <1>1 DEF E2eOk
<1>4. e \in [crc : Byte, first : Byte, last : Byte \cup {-1}]
  BY <1>1 DEF Modifies, E2es
<1>5. g.and = AndMask(m) /\ g.or = OrValue(m) /\ g.fence = PayloadCells(m)
  BY DEF Generated
<1> HIDE DEF g, e, m
<1>6. ASSUME NEW b \in Bit PROVE <<e.crc, b>> \in g.and /\ <<e.crc, b>> \notin g.or \cup g.fence
  <2> DEFINE c == <<e.crc, b>>
  <2>1. c \in Cells /\ c[1] = e.crc
    BY <1>4 DEF Cells
  <2>2. c \notin PayloadCells(m)
    BY <1>3, <2>1
  <2> HIDE DEF c
  <2>3. ~Writes(m, c)
    BY <1>1, <1>2, <2>1, <2>2, WrittenAsWanted
  <2>4. c \in AndMask(m) /\ c \notin OrValue(m)
    BY <2>1, <2>3, AndIs, FreeCell
  <2> QED BY <1>5, <2>2, <2>4 DEF c
<1> QED BY <1>3, <1>5, <1>6 DEF CrcIsKeptApart, g, e, m

(* An accepted rule does what its entries say.                             *)
LEMMA RuleWorks == RuleTypeOK => AcceptedRuleWorks
<1> SUFFICES ASSUME RuleTypeOK, Accepted(rule) PROVE AcceptedRuleWorks
  BY DEF AcceptedRuleWorks
<1> DEFINE g == Generated(rule)
           m == rule.modify
<1>1. rule \in Rules /\ m \in Modifies /\ (m.e2e # <<>> => rule.modifies)
  BY DEF RuleTypeOK, Rules
<1>2. ASSUME rule.modifies, NEW payload, NEW c \in Cells
      PROVE  /\ c \in OutPayload(g, payload) <=> Wanted(m, c, payload)
             /\ (c \in OutPayload(g, payload)) # (c \in payload) => c \in g.fence
  <2>1. Apart(m)
    BY <1>1, <1>2, EntriesAreApart DEF Accepted, ModifyOk
  <2>2. g.and = AndMask(m) /\ g.or = OrValue(m) /\ g.fence = PayloadCells(m)
    BY <1>2 DEF Generated
  <2> HIDE DEF g, m
  <2>3. /\ c \in OutPayload(g, payload) <=> Wanted(m, c, payload)
        /\ Writes(m, c) => c \in g.fence
    BY <1>1, <2>1, <2>2, WrittenAsWanted DEF OutPayload
  <2>4. ~Writes(m, c) => (Wanted(m, c, payload) <=> c \in payload)
    BY FreeCell
  <2> QED BY <2>3, <2>4
<1>3. m.e2e # <<>> => CrcIsKeptApart(g, m.e2e[1])
  BY <1>1, CrcIsNobodys
<1> QED BY <1>1, <1>2, <1>3, AcceptedIds DEF AcceptedRuleWorks

-----------------------------------------------------------------------------
(* The running rule.  A declared byte is never let through, what nobody    *)
(* declared always passes, and where each bit has one owner it carries     *)
(* what was last said of it.                                               *)
PatchedCells(m) == UNION {PatchCells(m.data[i]) : i \in DOMAIN m.data}

CellOk(m, mixed, p, told, c) ==
    /\ c \in PatchedCells(m) => c \notin p.and /\ told[c] # Through
    /\ c \notin PayloadCells(m) => c \in p.and /\ told[c] = Through
    /\ c \notin mixed =>
          IF told[c] = Through THEN c \in p.and /\ c \notin p.or
          ELSE c \notin p.and /\ (c \in p.or <=> told[c] = 1)

RunningOk ==
    live # <<>> =>
        /\ rule.modifies /\ Accepted(rule)
        /\ live = <<live[1]>> /\ DOMAIN live[1] = {"and", "or", "id"}
        /\ said \in [Cells -> {-1, 0, 1}]
        /\ \A c \in Cells : CellOk(rule.modify, Mixed, live[1], said, c)
        /\ rule.modify.id # <<>> => live[1].id \subseteq IdBits(OutExtended(rule))

RunningInv == RuleTypeOK /\ RunningOk

(* The property follows from the invariant.                                *)
LEMMA RunningKeepsBits == RunningInv => ActionsKeepTheirBits
<1> SUFFICES ASSUME RunningInv, live # <<>> PROVE ActionsKeepTheirBits
  BY DEF ActionsKeepTheirBits
<1>1. /\ \A c \in Cells : CellOk(rule.modify, Mixed, live[1], said, c)
      /\ rule.modify.id # <<>> => live[1].id \subseteq IdBits(OutExtended(rule))
  BY DEF RunningInv, RunningOk
<1>2. ASSUME NEW c \in Cells \ Mixed PROVE Obeyed(c)
  BY <1>1 DEF CellOk, Obeyed
<1> QED BY <1>1, <1>2 DEF ActionsKeepTheirBits

(* Boot: the generated masks carry the entries of the rule.                *)
LEMMA BootRuns == RunningInv /\ Boot => RunningInv'
<1> SUFFICES ASSUME RunningInv, Boot PROVE RunningInv'
  OBVIOUS
<1> DEFINE g == Generated(rule)
           m == rule.modify
           p == [and |-> g.and, or |-> g.or, id |-> g.newId]
<1>1. /\ rule.named /\ Accepted(rule) /\ rule' = rule
      /\ live' = <<p>>
      /\ said' = [c \in Cells |-> IF c \notin Cells \ g.and THEN Through
                                  ELSE IF Wanted(m, c, {}) THEN 1 ELSE 0]
  BY DEF Boot
<1>2. RuleTypeOK /\ rule \in Rules /\ m \in Modifies
  BY DEF RunningInv, RuleTypeOK, Rules
<1>3. rule.modifies /\ ModifyOk(rule)
  BY <1>1 DEF Accepted
<1>4. Apart(m)
  BY <1>2, <1>3, EntriesAreApart DEF ModifyOk
<1>5. /\ g.and = AndMask(m) /\ g.or = OrValue(m)
      /\ g.newId = IF m.id # <<>> THEN m.id[1] ELSE rule.id
  BY <1>3 DEF Generated
<1>6. RuleTypeOK'
  BY <1>1, <1>2 DEF RuleTypeOK
<1>7. said' \in [Cells -> {-1, 0, 1}]
  BY <1>1 DEF Through
<1>8. m.id # <<>> => p.id \subseteq IdBits(OutExtended(rule))
  BY <1>3, <1>5 DEF ModifyOk
<1>9. p.and = AndMask(m) /\ p.or = OrValue(m) /\ DOMAIN p = {"and", "or", "id"}
  BY <1>5
<1>10. Mixed' = Mixed /\ Accepted(rule)' /\ OutExtended(rule)' = OutExtended(rule)
  BY <1>1 DEF Mixed, PatchedBytes
<1>11. \A c \in Cells : said'[c] = IF c \notin Cells \ g.and THEN Through
                                   ELSE IF Wanted(m, c, {}) THEN 1 ELSE 0
  BY <1>1
<1> HIDE DEF g, p, m
<1>12. ASSUME NEW c \in Cells PROVE CellOk(m, Mixed, p, said', c)
  <2>1. /\ c \in AndMask(m) <=> ~Writes(m, c)
        /\ Writes(m, c) => c \in PayloadCells(m)
        /\ c \in OrValue(m) => Writes(m, c)
        /\ c \in OrValue(m) <=> Wanted(m, c, {})
    <3>1. c \in ({} \cap AndMask(m)) \cup OrValue(m) <=> Wanted(m, c, {})
      BY <1>2, <1>4, WrittenAsWanted
    <3> QED BY <1>2, <1>4, <3>1, WrittenAsWanted, AndIs, FreeCell
  <2>2. c \in PatchedCells(m) => Writes(m, c)
    BY DEF PatchedCells, Writes
  <2>3. CASE Writes(m, c)
    <3>1. said'[c] = IF Wanted(m, c, {}) THEN 1 ELSE 0
      BY <1>5, <1>11, <2>1, <2>3
    <3>2. said'[c] # Through /\ (said'[c] = 1 <=> c \in OrValue(m))
      BY <2>1, <3>1 DEF Through
    <3> QED BY <1>9, <2>1, <2>3, <3>2 DEF CellOk
  <2>4. CASE ~Writes(m, c)
    <3>1. said'[c] = Through
      BY <1>5, <1>11, <2>1, <2>4
    <3> QED BY <1>9, <2>1, <2>2, <2>4, <3>1 DEF CellOk
  <2> QED BY <2>3, <2>4
<1>13. RunningOk'
  <2>1. rule'.modify = m /\ live'[1] = p /\ live' = <<p>> /\ live' # <<>>
    BY <1>1 DEF m, p
  <2>2. rule'.modifies
    BY <1>1, <1>3
  <2>3. \A c \in Cells : CellOk(rule'.modify, Mixed', live'[1], said', c)
    BY <1>10, <1>12, <2>1
  <2>4. rule'.modify.id # <<>> => live'[1].id \subseteq IdBits(OutExtended(rule)')
    BY <1>8, <1>10, <2>1
  <2> QED BY <1>7, <1>9, <1>10, <2>1, <2>2, <2>3, <2>4 DEF RunningOk
<1> QED BY <1>6, <1>13 DEF RunningInv

(* set_byte writes the bytes a mask declares, and reaches past them only   *)
(* into a signal of the same byte.                                         *)
LEMMA ByteRuns ==
    ASSUME NEW index \in Byte, NEW v, RunningInv, SetPatchByte(index, v)
    PROVE  RunningInv'
<1> DEFINE m == rule.modify
           p == live[1]
           byte == {<<index, b>> : b \in Bit}
           set == {c \in byte : Has(v, c[2])}
           mine == UNION {PatchCells(m.data[i]) : i \in {i \in DOMAIN m.data : m.data[i].index = index}}
           q == [p EXCEPT !.or = (@ \ byte) \cup (set \ p.and)]
<1>1. /\ live # <<>> /\ index \in PatchedBytes /\ rule' = rule /\ live' = <<q>>
      /\ said' = [c \in Cells |-> IF c \in mine THEN BitOf(v, c[2]) ELSE said[c]]
  BY DEF SetPatchByte, ByteActionOk, Keeps
<1>2. /\ rule.modifies /\ Accepted(rule) /\ DOMAIN p = {"and", "or", "id"}
      /\ said \in [Cells -> {-1, 0, 1}] /\ \A c \in Cells : CellOk(m, Mixed, p, said, c)
      /\ m.id # <<>> => p.id \subseteq IdBits(OutExtended(rule))
  BY <1>1 DEF RunningInv, RunningOk
<1>3. RuleTypeOK /\ rule \in Rules /\ m \in Modifies
  BY DEF RunningInv, RuleTypeOK, Rules
<1>4. q.and = p.and /\ q.id = p.id /\ q.or = (p.or \ byte) \cup (set \ p.and) /\ DOMAIN q = DOMAIN p
  BY <1>2
<1>5. ASSUME NEW c \in Cells
      PROVE  /\ c \in byte <=> c[1] = index
             /\ c \in set <=> c \in byte /\ Has(v, c[2])
             /\ c \in mine <=> c \in PatchedCells(m) /\ c \in byte
  <2>1. c \in byte <=> c[1] = index
    BY DEF Cells
  <2>2. ASSUME NEW i \in DOMAIN m.data, c \in PatchCells(m.data[i]) PROVE c[1] = m.data[i].index
    BY <2>2, PatchHasCell
  <2>3. c \in mine => c \in PatchedCells(m) /\ c \in byte
    BY <2>1, <2>2 DEF PatchedCells
  <2>4. c \in PatchedCells(m) /\ c \in byte => c \in mine
    BY <2>1, <2>2 DEF PatchedCells
  <2> QED BY <2>1, <2>3, <2>4
<1>6. \A c \in Cells : said'[c] = IF c \in mine THEN BitOf(v, c[2]) ELSE said[c]
  BY <1>1
<1>7. Mixed' = Mixed /\ Accepted(rule)' /\ OutExtended(rule)' = OutExtended(rule)
  BY <1>1, <1>2 DEF Mixed, PatchedBytes
<1>8. \A c \in Cells : BitOf(v, c[2]) \in {0, 1} /\ (BitOf(v, c[2]) = 1 <=> Has(v, c[2]))
  BY DEF BitOf
<1>9. said' \in [Cells -> {-1, 0, 1}]
  <2> HIDE DEF mine
  <2> QED BY <1>1, <1>2, <1>8
<1>10. ASSUME NEW c \in Cells, c[1] = index, c \in PayloadCells(m), c \notin PatchedCells(m)
       PROVE  c \in Mixed
  <2>1. PICK i \in DOMAIN m.signals : c \in SignalBits(m.signals[i])
    BY <1>3, <1>10, PayloadCellsAre DEF PatchedCells
  <2> QED BY <1>1, <1>10, <2>1 DEF Mixed
<1> HIDE DEF m, p, q, byte, set, mine
<1>11. ASSUME NEW c \in Cells PROVE CellOk(m, Mixed, q, said', c)
  <2>1. CellOk(m, Mixed, p, said, c)
    BY <1>2
  <2>2. CASE c \notin byte
    <3>1. said'[c] = said[c] /\ (c \in q.or <=> c \in p.or) /\ (c \in q.and <=> c \in p.and)
      BY <1>4, <1>5, <1>6, <2>2
    <3> QED BY <2>1, <3>1 DEF CellOk
  <2>3. CASE c \in mine
    <3>1. c \in PatchedCells(m) /\ c \in byte /\ c \notin p.and
      BY <1>5, <2>1, <2>3 DEF CellOk
    <3>2. said'[c] = BitOf(v, c[2]) /\ (c \in q.or <=> Has(v, c[2])) /\ c \notin q.and
      BY <1>4, <1>5, <1>6, <2>3, <3>1
    <3>3. said'[c] # Through /\ (said'[c] = 1 <=> c \in q.or)
      BY <1>8, <3>2 DEF Through
    <3>4. c \in PayloadCells(m)
      BY <1>3, <3>1, PayloadCellsAre DEF PatchedCells
    <3> QED BY <3>2, <3>3, <3>4 DEF CellOk
  <2>4. CASE c \in byte /\ c \notin mine
    <3>1. said'[c] = said[c] /\ (c \in q.and <=> c \in p.and) /\ (c \in q.and => c \notin q.or)
      BY <1>4, <1>5, <1>6, <2>4
    <3>2. c \notin PatchedCells(m) /\ c[1] = index
      BY <1>5, <2>4
    <3>3. CASE c \in PayloadCells(m)
      <4>1. c \in Mixed
        BY <1>10, <3>2, <3>3
      <4> QED BY <3>2, <3>3, <4>1 DEF CellOk
    <3>4. CASE c \notin PayloadCells(m)
      BY <2>1, <3>1, <3>2, <3>4 DEF CellOk
    <3> QED BY <3>3, <3>4
  <2> QED BY <2>2, <2>3, <2>4
<1>12. RunningOk'
  <2>1. rule'.modify = m /\ live'[1] = q /\ live' = <<q>> /\ live' # <<>>
    BY <1>1 DEF m
  <2>2. rule'.modifies
    BY <1>1, <1>2
  <2>3. \A c \in Cells : CellOk(rule'.modify, Mixed', live'[1], said', c)
    BY <1>7, <1>11, <2>1
  <2>4. rule'.modify.id # <<>> => live'[1].id \subseteq IdBits(OutExtended(rule)')
    BY <1>2, <1>4, <1>7, <2>1
  <2>5. DOMAIN live'[1] = {"and", "or", "id"}
    BY <1>2, <1>4, <2>1
  <2> QED BY <1>7, <1>9, <2>1, <2>2, <2>3, <2>4, <2>5 DEF RunningOk
<1>13. RuleTypeOK'
  BY <1>1, <1>3 DEF RuleTypeOK
<1> QED BY <1>12, <1>13 DEF RunningInv

(* set_can_id changes no bit of the payload.                               *)
LEMMA IdRuns ==
    ASSUME NEW id, RunningInv, SetPatchId(id)
    PROVE  RunningInv'
<1> DEFINE m == rule.modify
           p == live[1]
           q == [p EXCEPT !.id = id \cap IdBits(OutExtended(rule))]
<1>1. live # <<>> /\ rule' = rule /\ said' = said /\ live' = <<q>>
  BY DEF SetPatchId
<1>2. /\ rule.modifies /\ Accepted(rule) /\ DOMAIN p = {"and", "or", "id"}
      /\ said \in [Cells -> {-1, 0, 1}] /\ \A c \in Cells : CellOk(m, Mixed, p, said, c)
  BY <1>1 DEF RunningInv, RunningOk
<1>3. RuleTypeOK
  BY DEF RunningInv
<1>4. /\ q.and = p.and /\ q.or = p.or /\ q.id = id \cap IdBits(OutExtended(rule))
      /\ DOMAIN q = DOMAIN p
  BY <1>2
<1>5. Mixed' = Mixed /\ Accepted(rule)' /\ OutExtended(rule)' = OutExtended(rule)
  BY <1>1, <1>2 DEF Mixed, PatchedBytes
<1> HIDE DEF m, p, q
<1>6. ASSUME NEW c \in Cells PROVE CellOk(m, Mixed, q, said, c)
  <2>1. CellOk(m, Mixed, p, said, c)
    BY <1>2
  <2> QED BY <1>4, <2>1 DEF CellOk
<1>7. RunningOk'
  <2>1. rule'.modify = m /\ live'[1] = q /\ live' = <<q>> /\ live' # <<>>
    BY <1>1 DEF m
  <2>2. rule'.modifies
    BY <1>1, <1>2
  <2>3. \A c \in Cells : CellOk(rule'.modify, Mixed', live'[1], said', c)
    BY <1>1, <1>5, <1>6, <2>1
  <2>4. live'[1].id \subseteq IdBits(OutExtended(rule)')
    BY <1>4, <1>5, <2>1
  <2>5. DOMAIN live'[1] = {"and", "or", "id"} /\ said' \in [Cells -> {-1, 0, 1}]
    BY <1>1, <1>2, <1>4, <2>1
  <2> QED BY <1>5, <2>1, <2>2, <2>3, <2>4, <2>5 DEF RunningOk
<1>8. RuleTypeOK'
  BY <1>1, <1>3 DEF RuleTypeOK
<1> QED BY <1>7, <1>8 DEF RunningInv

(* set_signal writes a declared field: its cells are the fence's, and no   *)
(* byte patch has any of them.                                             *)
LEMMA SignalRuns ==
    ASSUME NEW s, NEW raw, RunningInv, SetSignal(s, raw)
    PROVE  RunningInv'
<1> DEFINE m == rule.modify
           p == live[1]
           fence == Generated(rule).fence
           f == SignalBits(s) \cap fence
           bits == {SignalCell(s, k) : k \in {k \in 0 .. s.len - 1 : raw # -1 /\ Has(raw, k)}}
           on == [p EXCEPT !.and = @ \ f, !.or = (@ \ f) \cup (bits \cap f)]
           off == [p EXCEPT !.and = @ \cup f, !.or = @ \ f]
           q == IF raw = -1 THEN off ELSE on
           told(c) == IF raw = -1 THEN Through ELSE IF c \in bits THEN 1 ELSE 0
<1>1. /\ live # <<>> /\ Field(s) \in DeclaredFields /\ rule' = rule /\ live' = <<q>>
      /\ said' = [c \in Cells |-> IF c \in SignalBits(s) THEN told(c) ELSE said[c]]
  BY DEF SetSignal, SignalActionOk, Keeps
<1>2. /\ rule.modifies /\ Accepted(rule) /\ DOMAIN p = {"and", "or", "id"}
      /\ said \in [Cells -> {-1, 0, 1}] /\ \A c \in Cells : CellOk(m, Mixed, p, said, c)
      /\ m.id # <<>> => p.id \subseteq IdBits(OutExtended(rule))
  BY <1>1 DEF RunningInv, RunningOk
<1>3. RuleTypeOK /\ rule \in Rules /\ m \in Modifies
  BY DEF RunningInv, RuleTypeOK, Rules
<1>4. Apart(m)
  BY <1>2, <1>3, EntriesAreApart DEF Accepted, ModifyOk
<1>5. fence = PayloadCells(m)
  BY <1>2 DEF Generated
<1>6. PICK i \in DOMAIN m.signals : Field(s) = Field(m.signals[i])
  BY <1>1 DEF DeclaredFields
<1>7. SignalBits(s) = SignalBits(m.signals[i])
  <2>1. s.start = m.signals[i].start /\ s.len = m.signals[i].len /\ s.big = m.signals[i].big
    BY <1>6 DEF Field
  <2> QED BY <2>1 DEF SignalBits, SignalCell, MotorolaCell, IntelCell
<1>8. SignalBits(s) \subseteq PayloadCells(m) /\ SignalBits(s) \cap PatchedCells(m) = {}
  BY <1>3, <1>4, <1>7, PayloadCellsAre DEF Apart, PatchedCells
<1> HIDE DEF fence
<1>9. f = SignalBits(s)
  BY <1>5, <1>8
<1>10. Mixed' = Mixed /\ Accepted(rule)' /\ OutExtended(rule)' = OutExtended(rule)
  BY <1>1, <1>2 DEF Mixed, PatchedBytes
<1>11. \A c : IF raw = -1 THEN told(c) = -1
              ELSE told(c) \in {0, 1} /\ (told(c) = 1 <=> c \in bits)
  BY DEF Through
<1> HIDE DEF told, bits, f, p, m
<1>12. /\ DOMAIN q = DOMAIN p /\ q.id = p.id
       /\ IF raw = -1 THEN q.and = p.and \cup f /\ q.or = p.or \ f
          ELSE q.and = p.and \ f /\ q.or = (p.or \ f) \cup (bits \cap f)
  BY <1>2
<1>13. \A c \in Cells : said'[c] = IF c \in SignalBits(s) THEN told(c) ELSE said[c]
  BY <1>1
<1>14. said' \in [Cells -> {-1, 0, 1}]
  BY <1>1, <1>2, <1>11
<1> HIDE DEF q
<1>15. ASSUME NEW c \in Cells PROVE CellOk(m, Mixed, q, said', c)
  <2>1. CellOk(m, Mixed, p, said, c)
    BY <1>2
  <2>2. CASE c \notin f
    <3>1. said'[c] = said[c] /\ (c \in q.or <=> c \in p.or) /\ (c \in q.and <=> c \in p.and)
      BY <1>9, <1>12, <1>13, <2>2
    <3> QED BY <2>1, <3>1 DEF CellOk
  <2>3. CASE c \in f
    <3>1. c \in PayloadCells(m) /\ c \notin PatchedCells(m) /\ said'[c] = told(c)
      BY <1>8, <1>9, <1>13, <2>3
    <3>2. CASE raw = -1
      <4>1. c \in q.and /\ c \notin q.or /\ said'[c] = Through
        BY <1>11, <1>12, <2>3, <3>1, <3>2 DEF Through
      <4> QED BY <3>1, <4>1 DEF CellOk
    <3>3. CASE raw # -1
      <4>1. c \notin q.and /\ (c \in q.or <=> c \in bits)
        BY <1>12, <2>3, <3>3
      <4>2. said'[c] # Through /\ (said'[c] = 1 <=> c \in bits)
        BY <1>11, <3>1, <3>3 DEF Through
      <4> QED BY <3>1, <4>1, <4>2 DEF CellOk
    <3> QED BY <3>2, <3>3
  <2> QED BY <2>2, <2>3
<1>16. RunningOk'
  <2>1. rule'.modify = m /\ live'[1] = q /\ live' = <<q>> /\ live' # <<>>
    BY <1>1 DEF m
  <2>2. rule'.modifies
    BY <1>1, <1>2
  <2>3. \A c \in Cells : CellOk(rule'.modify, Mixed', live'[1], said', c)
    BY <1>10, <1>15, <2>1
  <2>4. rule'.modify.id # <<>> => live'[1].id \subseteq IdBits(OutExtended(rule)')
    BY <1>2, <1>10, <1>12, <2>1
  <2>5. DOMAIN live'[1] = {"and", "or", "id"}
    BY <1>2, <1>12, <2>1
  <2> QED BY <1>10, <1>14, <2>1, <2>2, <2>3, <2>4, <2>5 DEF RunningOk
<1>17. RuleTypeOK'
  BY <1>1, <1>3 DEF RuleTypeOK
<1> QED BY <1>16, <1>17 DEF RunningInv

(* Every action of the running rule keeps it.                              *)
LEMMA ActionsRun == RunningInv /\ RuleActions => RunningInv'
<1> SUFFICES ASSUME RunningInv, RuleActions PROVE RunningInv'
  OBVIOUS
<1>1. CASE Boot
  BY <1>1, BootRuns
<1>2. ASSUME NEW i \in Byte, NEW v \in 0 .. AllOnes(NBits), SetPatchByte(i, v) PROVE RunningInv'
  BY <1>2, ByteRuns
<1>3. ASSUME NEW id \in SUBSET IdBits(TRUE), SetPatchId(id) PROVE RunningInv'
  BY <1>3, IdRuns
<1>4. ASSUME NEW st \in 0 .. NBytes * NBits - 1, NEW l \in 1 .. NBits + 1, NEW b \in BOOLEAN,
             NEW raw \in -1 .. AllOnes(l), SetSignal([start |-> st, len |-> l, big |-> b], raw)
      PROVE  RunningInv'
  BY <1>4, SignalRuns
<1> QED BY <1>1, <1>2, <1>3, <1>4 DEF RuleActions

(* While it does not run, the author may write on.                         *)
LEMMA WritingRuns ==
    RunningInv /\ live = <<>> /\ RuleNext /\ live' = live => RunningInv'
BY AuthorKeepsRule DEF RunningInv, RunningOk

(* The other parts do not touch the rule.                                  *)
LEMMA RestRuns ==
    RunningInv /\ rule' = rule /\ live' = live /\ said' = said => RunningInv'
<1> SUFFICES ASSUME RunningInv, rule' = rule, live' = live, said' = said PROVE RunningInv'
  OBVIOUS
<1>1. Mixed' = Mixed /\ Accepted(rule)' = Accepted(rule) /\ OutExtended(rule)' = OutExtended(rule)
  BY DEF Mixed, PatchedBytes
<1>2. RuleTypeOK'
  BY DEF RunningInv, RuleTypeOK
<1>3. RunningOk'
  BY <1>1 DEF RunningInv, RunningOk
<1> QED BY <1>2, <1>3 DEF RunningInv

-----------------------------------------------------------------------------
(* The node: its parts are what an author can write.                       *)
NodeFields ==
    {"variant", "ports", "routes", "cyclics", "sends", "sensors", "switches", "loads"}
SendTo == {<<>>} \cup {<<n>> : n \in PortNames}
Ways == [from : PortNames, to : PortNames]
NodeTypeOK ==
    /\ DOMAIN node = NodeFields /\ node.variant \in DOMAIN Variants
    /\ node.ports \in Seq(PortShapes) /\ node.routes \in Seq(Ways)
    /\ node.cyclics \in Seq(PortNames) /\ node.sends \in Seq(SendTo)
    /\ node.sensors \in Seq(Sensors)

(* A node without parts has the type.                                      *)
LEMMA InitNode == GatewayInit => NodeTypeOK
<1> SUFFICES ASSUME GatewayInit PROVE NodeTypeOK
  OBVIOUS
<1>1. PICK v \in DOMAIN Variants : node = Empty(v)
  BY DEF GatewayInit
<1>2. \A S : <<>> \in Seq(S)
  OBVIOUS
<1> QED BY <1>1, <1>2 DEF Empty, NodeTypeOK, NodeFields

(* One more element.                                                       *)
LEMMA OneMore ==
    ASSUME NEW S, NEW s \in Seq(S), NEW e \in S
    PROVE  Append(s, e) \in Seq(S) /\ <<e>> \in Seq(S)
OBVIOUS

(* Any part an author adds keeps it.                                       *)
LEMMA AuthorKeepsNode == NodeTypeOK /\ Assemble => NodeTypeOK'
<1> SUFFICES ASSUME NodeTypeOK, Assemble PROVE NodeTypeOK'
  OBVIOUS
<1> USE DEF NodeTypeOK
<1>1. CASE AddPort
  <2>1. PICK p \in PortShapes : node' = [node EXCEPT !.ports = Append(@, p)]
    BY <1>1 DEF AddPort, Add
  <2>2. Append(node.ports, p) \in Seq(PortShapes)
    BY OneMore
  <2> QED BY <2>1, <2>2 DEF NodeFields
<1>2. CASE AddRoute
  <2>1. PICK f \in PortNames, t \in PortNames :
          node' = [node EXCEPT !.routes = Append(@, [from |-> f, to |-> t])]
    BY <1>2 DEF AddRoute, Add
  <2> DEFINE w == [from |-> f, to |-> t]
  <2>2. w \in Ways
    BY DEF Ways
  <2>3. Append(node.routes, w) \in Seq(Ways)
    BY <2>2, OneMore
  <2> QED BY <2>1, <2>3 DEF NodeFields
<1>3. CASE AddCyclic
  <2>1. PICK n \in PortNames : node' = [node EXCEPT !.cyclics = Append(@, n)]
    BY <1>3 DEF AddCyclic, Add
  <2>2. Append(node.cyclics, n) \in Seq(PortNames)
    BY OneMore
  <2> QED BY <2>1, <2>2 DEF NodeFields
<1>4. CASE AddSend
  <2>1. PICK s \in SendTo : node' = [node EXCEPT !.sends = Append(@, s)]
    BY <1>4 DEF AddSend, Add, SendTo
  <2>2. Append(node.sends, s) \in Seq(SendTo)
    BY OneMore
  <2> QED BY <2>1, <2>2 DEF NodeFields
<1>5. CASE AddSensor
  <2>1. PICK d \in Sensors : node' = [node EXCEPT !.sensors = <<d>>]
    BY <1>5 DEF AddSensor, Add
  <2>2. <<d>> \in Seq(Sensors)
    BY OneMore
  <2> QED BY <2>1, <2>2 DEF NodeFields
<1>6. CASE AddSwitch
  BY <1>6 DEF AddSwitch, Add, NodeFields
<1>7. CASE AddLoad
  BY <1>7 DEF AddLoad, Add, NodeFields
<1> QED BY <1>1, <1>2, <1>3, <1>4, <1>5, <1>6, <1>7 DEF Assemble

(* The other parts do not touch the node.                                  *)
LEMMA RestKeepsNode == NodeTypeOK /\ node' = node => NodeTypeOK'
BY DEF NodeTypeOK

(* The greatest of a set with a bound.                                     *)
LEMMA GreatestOf ==
    ASSUME NEW S, S # {}, NEW b \in Nat, S \subseteq 0 .. b
    PROVE  Max(S) \in S /\ \A x \in S : x <= Max(S)
<1> DEFINE T == {b - x : x \in S}
<1>1. T \subseteq Nat /\ T # {}
  <2>1. ASSUME NEW x \in S PROVE b - x \in Nat
    <3>1. x \in 0 .. b
      OBVIOUS
    <3> QED BY <3>1
  <2>2. PICK x \in S : TRUE
    OBVIOUS
  <2>3. b - x \in T
    OBVIOUS
  <2> QED BY <2>1, <2>3
<1>2. PICK t \in T : \A y \in T : t <= y
  BY <1>1, LeastOf
<1>3. PICK x \in S : t = b - x
  OBVIOUS
<1>4. \A y \in S : x >= y
  <2>1. SUFFICES ASSUME NEW y \in S PROVE x >= y
    OBVIOUS
  <2>2. b - y \in T
    OBVIOUS
  <2> HIDE DEF T
  <2>3. b - x <= b - y
    BY <1>2, <1>3, <2>2
  <2> QED BY <2>3
<1>5. \E z \in S : \A y \in S : z >= y
  BY <1>4
<1>6. Max(S) \in S /\ \A y \in S : Max(S) >= y
  BY <1>5 DEF Max
<1> DEFINE top == Max(S)
<1> HIDE DEF top
<1>7. top \in S /\ \A y \in S : top >= y
  BY <1>6 DEF top
<1>8. \A y \in S : y <= top
  BY <1>7
<1> QED BY <1>7, <1>8 DEF top

(* The greatest, or 0 of none.                                             *)
LEMMA MaxOfIs ==
    ASSUME NEW S, NEW b \in Nat, S \subseteq 0 .. b
    PROVE  MaxOf(S) \in Nat /\ \A x \in S : x <= MaxOf(S)
<1> DEFINE Z == S \cup {0}
<1>1. Z # {} /\ Z \subseteq 0 .. b
  OBVIOUS
<1>2. S \subseteq Z /\ MaxOf(S) = Max(Z)
  BY DEF MaxOf
<1> HIDE DEF Z
<1>3. Max(Z) \in Z /\ \A x \in Z : x <= Max(Z)
  BY <1>1, GreatestOf
<1> DEFINE top == Max(Z)
<1>4. top \in Nat
  <2>1. top \in 0 .. b
    BY <1>1, <1>3
  <2> HIDE DEF top
  <2> QED BY <2>1
<1> QED BY <1>2, <1>3, <1>4

(* The pool of slots is larger than any queue.                             *)
LEMMA SlotsSuffice ==
    ASSUME NodeTypeOK, NodeOk, NEW i \in DOMAIN node.ports
    PROVE  /\ node.ports[i].depth < InjectSlotCount /\ node.ports[i].depth < TxSlotCount
           /\ CyclicsOn(node.ports[i].id) < InjectSlotCount
<1> DEFINE depths == {node.ports[k].depth : k \in DOMAIN node.ports}
           cyclics == {CyclicsOn(n) : n \in PortIds}
           L == Len(node.cyclics)
<1>1. /\ Len(node.ports) \in 1 .. 2 /\ DOMAIN node.ports = 1 .. Len(node.ports)
      /\ \A k \in DOMAIN node.ports : node.ports[k] \in PortShapes
  <2>1. node.ports \in Seq(PortShapes) /\ 1 <= Len(node.ports) /\ Len(node.ports) <= 2
    BY DEF NodeTypeOK, NodeOk, ChipOk, MAX_PORTS
  <2> DEFINE s == node.ports
  <2> HIDE DEF s
  <2>2. s \in Seq(PortShapes) /\ 1 <= Len(s) /\ Len(s) <= 2
    BY <2>1 DEF s
  <2>3. Len(s) \in Nat /\ DOMAIN s = 1 .. Len(s) /\ \A k \in DOMAIN s : s[k] \in PortShapes
    BY <2>2
  <2> DEFINE n == Len(s)
  <2>4. n \in Nat /\ 1 <= n /\ n <= 2
    BY <2>2, <2>3
  <2> HIDE DEF n
  <2>5. n \in 1 .. 2
    BY <2>4
  <2> QED BY <2>3, <2>5 DEF s, n
<1>2. \A k \in DOMAIN node.ports : node.ports[k].depth \in Nat
  BY <1>1, GatewayAssumption
<1>3. \E b \in Nat : depths \subseteq 0 .. b
  <2>1. CASE Len(node.ports) = 1
    <3>1. depths \subseteq 0 .. node.ports[1].depth /\ node.ports[1].depth \in Nat
      BY <1>1, <1>2, <2>1
    <3> QED BY <3>1
  <2>2. CASE Len(node.ports) = 2
    <3> DEFINE x == node.ports[1].depth
               y == node.ports[2].depth
    <3>1. x \in Nat /\ y \in Nat
      BY <1>1, <1>2, <2>2
    <3>2. \A k \in DOMAIN node.ports : node.ports[k].depth \in {x, y}
      BY <1>1, <2>2
    <3>3. depths \subseteq {x, y}
      BY <3>2
    <3> HIDE DEF x, y, depths
    <3>4. x + y \in Nat /\ depths \subseteq 0 .. x + y
      BY <3>1, <3>3
    <3> QED BY <3>4
  <2>3. Len(node.ports) = 1 \/ Len(node.ports) = 2
    BY <1>1
  <2> QED BY <2>1, <2>2, <2>3
<1>4. MaxDepth \in Nat /\ node.ports[i].depth <= MaxDepth
  <2>1. MaxDepth = MaxOf(depths) /\ node.ports[i].depth \in depths
    BY DEF MaxDepth
  <2> HIDE DEF depths
  <2> QED BY <1>3, <2>1, MaxOfIs
<1>5. L \in Nat /\ DOMAIN node.cyclics = 1 .. L
  BY DEF NodeTypeOK
<1>6. ASSUME NEW n PROVE CyclicsOn(n) \in 0 .. L
  <2> DEFINE S == {k \in DOMAIN node.cyclics : node.cyclics[k] = n}
  <2>1. IsFiniteSet(1 .. L) /\ Cardinality(1 .. L) = L
    BY <1>5, FS_Interval
  <2>2. S \subseteq 1 .. L
    BY <1>5
  <2>3. Cardinality(S) \in Nat /\ Cardinality(S) <= L
    BY <2>1, <2>2, FS_Subset, FS_CardinalityType
  <2>4. CyclicsOn(n) = Cardinality(S)
    BY DEF CyclicsOn
  <2> HIDE DEF L, S
  <2> QED BY <1>5, <2>3, <2>4
<1> DEFINE most == MaxOf(cyclics)
           own == CyclicsOn(node.ports[i].id)
<1>7. most \in Nat /\ own <= most /\ own \in Nat
  <2>1. cyclics \subseteq 0 .. L
    BY <1>6
  <2>2. own \in cyclics
    BY DEF PortIds
  <2>3. own \in 0 .. L
    BY <1>6
  <2> HIDE DEF own, cyclics, L
  <2>4. most \in Nat /\ own <= most
    BY <1>5, <2>1, <2>2, MaxOfIs
  <2>5. own \in Nat
    BY <1>5, <2>3
  <2> QED BY <2>4, <2>5
<1> HIDE DEF most, own, cyclics
<1>8. most + 2 <= InjectSlotCount /\ MaxDepth + 2 <= InjectSlotCount /\ InjectSlotCount \in Nat
  <2> DEFINE sizes == {MinSlots, most + 2, MaxDepth + 2}
             b == MinSlots + (most + 2) + (MaxDepth + 2)
  <2>1. sizes \subseteq 0 .. b /\ b \in Nat
    BY <1>4, <1>7, GatewayAssumption
  <2>2. InjectSlotCount = MaxOf(sizes)
    BY DEF InjectSlotCount, most, cyclics
  <2>3. most + 2 \in sizes /\ MaxDepth + 2 \in sizes
    OBVIOUS
  <2> HIDE DEF sizes, b
  <2> QED BY <2>1, <2>2, <2>3, MaxOfIs
<1> DEFINE d == node.ports[i].depth
<1>9. d \in Nat /\ d <= MaxDepth
  BY <1>2, <1>4
<1> HIDE DEF d
<1>10. d < InjectSlotCount /\ own < InjectSlotCount
  BY <1>4, <1>7, <1>8, <1>9
<1>11. d < TxSlotCount
  BY <1>4, <1>9 DEF TxSlotCount
<1> QED BY <1>10, <1>11 DEF d, own

(* An accepted node has the slots and ports it transmits with.             *)
LEMMA NodeIsReady == NodeTypeOK => NodeWorks
<1> SUFFICES ASSUME NodeTypeOK, NodeOk PROVE NodeWorks
  BY DEF NodeWorks
<1>1. Len(node.ports) <= Variants[node.variant].controllers /\ ~Variants[node.variant].fd
  <2> DEFINE c == Variants[node.variant].controllers
             n == Len(node.ports)
  <2>1. c \in Nat /\ n \in Nat
    BY GatewayAssumption DEF NodeTypeOK
  <2>2. n <= (IF c > 2 THEN 2 ELSE c) /\ ~Variants[node.variant].fd
    BY DEF NodeOk, ChipOk, Controllers, MAX_PORTS
  <2> HIDE DEF c, n
  <2>3. n <= c
    BY <2>1, <2>2
  <2> QED BY <2>2, <2>3 DEF c, n
<1>2. ASSUME NEW n, Transmits(n)
      PROVE  \E i \in DOMAIN node.ports : node.ports[i].id = n /\ ~node.ports[i].listen
  BY <1>2 DEF Transmits, PortIds, ListenOnly
<1>3. ASSUME NEW n \in RouteTargets PROVE Transmits(n)
  BY DEF RouteTargets, NodeOk, RoutesOk
<1>4. ASSUME NEW n \in {node.cyclics[i] : i \in DOMAIN node.cyclics} PROVE Transmits(n)
  BY DEF NodeOk, RoutesOk
<1>5. ASSUME NEW n \in {SendPort(node.sends[i]) : i \in DOMAIN node.sends} PROVE Transmits(n)
  <2>1. PICK i \in DOMAIN node.sends : n = SendPort(node.sends[i])
    OBVIOUS
  <2> DEFINE s == node.sends[i]
  <2>2. /\ IF s = <<>> THEN Len(node.ports) = 1 ELSE s[1] \in PortIds
        /\ SendPort(s) \notin ListenOnly
    BY DEF NodeOk, SendsOk
  <2>3. Len(node.ports) = 1 => 1 \in DOMAIN node.ports
    BY DEF NodeTypeOK
  <2>4. SendPort(s) \in PortIds
    BY <2>2, <2>3 DEF SendPort, PortIds
  <2> QED BY <2>1, <2>2, <2>4 DEF Transmits
<1>6. \A i, j \in DOMAIN node.routes : node.routes[i].from = node.routes[j].from => i = j
  BY DEF NodeOk, RoutesOk
<1>7. \A n \in RouteTargets \cup {node.cyclics[i] : i \in DOMAIN node.cyclics}
                  \cup {SendPort(node.sends[i]) : i \in DOMAIN node.sends} :
         \E i \in DOMAIN node.ports : node.ports[i].id = n /\ ~node.ports[i].listen
  BY <1>2, <1>3, <1>4, <1>5
<1> QED BY <1>1, <1>6, <1>7, SlotsSuffice DEF NodeWorks

-----------------------------------------------------------------------------
(* Decode sensors.  A value is the sum of its bits.                        *)
LEMMA ValueOfDef ==
    ASSUME NEW S, NEW w \in Nat
    PROVE  \E f \in [Nat -> Nat] :
              /\ f[0] = 0 /\ ValueOf(S, w) = f[w]
              /\ \A n \in Nat : f[n + 1] = f[n] + (IF n \in S THEN Pow2[n] ELSE 0)
<1> DEFINE zero == 0
           step == [x \in Nat \X Nat |-> x[2] + (IF x[1] \in S THEN Pow2[x[1]] ELSE 0)]
           G(f) == [n \in Nat |-> IF n = 0 THEN 0
                                  ELSE f[n - 1] + (IF n - 1 \in S THEN Pow2[n - 1] ELSE 0)]
           low == CHOOSE f : f = G(f)
           Bit2(n) == IF n \in S THEN Pow2[n] ELSE 0
<1>1. ASSUME NEW n \in Nat PROVE Bit2(n) \in Nat
  BY Pow2Def
<1>2. ASSUME NEW n \in Nat, NEW v \in Nat
      PROVE  step[<<n, v>>] = v + Bit2(n) /\ step[<<n, v>>] \in Nat
  <2>1. step[<<n, v>>] = v + Bit2(n)
    OBVIOUS
  <2> HIDE DEF step, Bit2
  <2> QED BY <1>1, <2>1
<1>3. zero \in Nat /\ step \in [Nat \X Nat -> Nat]
  <2>1. \A x \in Nat \X Nat : x[1] \in Nat /\ x[2] \in Nat /\ x = <<x[1], x[2]>>
    OBVIOUS
  <2>2. \A x \in Nat \X Nat : step[x] \in Nat
    <3> HIDE DEF step
    <3> QED BY <1>2, <2>1
  <2> QED BY <2>2
<1> HIDE DEF step, zero
<1>4. HasSolution(Nat, zero, step)
  BY <1>3, RecursionOverNat
<1>5. PICK f \in [Nat -> Nat] : f[0] = zero /\ \A n \in Nat : f[n + 1] = step[<<n, f[n]>>]
  BY <1>4 DEF HasSolution
<1> HIDE DEF Bit2
<1>6. f = G(f)
  <2>1. ASSUME NEW n \in Nat PROVE f[n] = IF n = 0 THEN 0 ELSE f[n - 1] + Bit2(n - 1)
    <3>1. CASE n = 0
      BY <1>5, <3>1 DEF zero
    <3>2. CASE n # 0
      <4>1. n - 1 \in Nat /\ (n - 1) + 1 = n /\ f[n - 1] \in Nat
        BY <3>2
      <4>2. f[(n - 1) + 1] = step[<<n - 1, f[n - 1]>>]
        BY <1>5, <4>1
      <4> QED BY <1>2, <3>2, <4>1, <4>2
    <3> QED BY <3>1, <3>2
  <2> QED BY <2>1 DEF Bit2
<1>7. low = G(low)
  <2> HIDE DEF G
  <2> QED BY <1>6
<1>8. ValueOf(S, w) = low[w]
  BY DEF ValueOf
<1>9. low[0] = 0 /\ \A n \in Nat : n # 0 => low[n] = low[n - 1] + Bit2(n - 1)
  <2> HIDE DEF low
  <2> QED BY <1>7 DEF Bit2
<1> HIDE DEF low
<1>10. \A n \in Nat : low[n + 1] = low[n] + Bit2(n)
  <2>1. ASSUME NEW n \in Nat PROVE low[n + 1] = low[n] + Bit2(n)
    <3>1. n + 1 \in Nat /\ n + 1 # 0 /\ (n + 1) - 1 = n
      OBVIOUS
    <3> QED BY <1>9, <3>1
  <2> QED BY <2>1
<1> DEFINE T == {n \in Nat : low[n] \in Nat}
<1>11. 0 \in T
  BY <1>9
<1>12. ASSUME NEW n \in Nat, n \in T PROVE n + 1 \in T
  BY <1>1, <1>10, <1>12
<1> HIDE DEF T
<1>13. Nat \subseteq T
  BY <1>11, <1>12, Induction
<1>14. low = G(low) /\ \A n \in Nat : low[n] \in Nat
  BY <1>7, <1>13 DEF T
<1>15. low \in [Nat -> Nat]
  BY <1>14
<1> QED BY <1>8, <1>9, <1>10, <1>15 DEF Bit2

(* The next bit of a value, and what is below it.                          *)
LEMMA NextBit ==
    ASSUME NEW v \in Nat, NEW n \in Nat
    PROVE  v % Pow2[n + 1] = (v % Pow2[n]) + (IF Has(v, n) THEN Pow2[n] ELSE 0)
<1> DEFINE p == Pow2[n]
           q == v \div p
           r == v % p
           u == q \div 2
           b == q % 2
           x == p * b + r
<1>1. p \in Nat \ {0} /\ Pow2[n + 1] = 2 * p
  BY Pow2Def
<1> HIDE DEF p
<1>2. q \in Int /\ r \in 0 .. p - 1 /\ v = p * q + r
  <2>1. v \in Int
    OBVIOUS
  <2> QED BY <1>1, <2>1, ModParts
<1> HIDE DEF q, r
<1>3. u \in Int /\ b \in {0, 1} /\ q = 2 * u + b
  BY <1>2
<1>4. Has(v, n) <=> b = 1
  BY DEF Has, b, q, p
<1> HIDE DEF u, b
<1>5. p * q = p * (2 * u) + p * b
  BY <1>1, <1>2, <1>3
<1>6. p * (2 * u) = (2 * p) * u
  BY <1>1, <1>3
<1>7. v = (2 * p) * u + x
  BY <1>1, <1>2, <1>3, <1>5, <1>6
<1>8. x = IF b = 1 THEN p + r ELSE r
  <2>1. p * 1 = p /\ p * 0 = 0
    BY <1>1
  <2> QED BY <1>1, <1>2, <1>3, <2>1
<1> HIDE DEF x
<1>9. x \in 0 .. 2 * p - 1 /\ 2 * p \in Nat \ {0}
  BY <1>1, <1>2, <1>3, <1>8
<1>10. v % (2 * p) = x
  <2> DEFINE m == 2 * p
  <2>1. v \in Int /\ m \in Nat \ {0} /\ x \in 0 .. m - 1 /\ v = m * u + x
    BY <1>7, <1>9
  <2> HIDE DEF m
  <2>2. v % m = x
    BY <1>3, <2>1, ModIs
  <2> QED BY <2>2 DEF m
<1>11. x = r + (IF b = 1 THEN p ELSE 0)
  BY <1>1, <1>2, <1>8
<1> QED BY <1>1, <1>4, <1>10, <1>11 DEF r, p

(* The bits of v below w sum up to v modulo 2^w.                           *)
LEMMA ValueOfBits ==
    ASSUME NEW S, NEW w \in Nat, NEW v \in Nat, \A k \in 0 .. w - 1 : k \in S <=> Has(v, k)
    PROVE  ValueOf(S, w) = v % Pow2[w]
<1>1. PICK f \in [Nat -> Nat] :
              /\ f[0] = 0 /\ ValueOf(S, w) = f[w]
              /\ \A n \in Nat : f[n + 1] = f[n] + (IF n \in S THEN Pow2[n] ELSE 0)
  BY ValueOfDef
<1> DEFINE T == {n \in Nat : n <= w => f[n] = v % Pow2[n]}
<1>2. 0 \in T
  <2>1. v % 1 = 0
    OBVIOUS
  <2> QED BY <1>1, <2>1, Pow2Def
<1>3. ASSUME NEW n \in Nat, n \in T PROVE n + 1 \in T
  <2>1. SUFFICES ASSUME n + 1 <= w PROVE f[n + 1] = v % Pow2[n + 1]
    OBVIOUS
  <2>2. n \in 0 .. w - 1 /\ f[n] = v % Pow2[n]
    BY <1>3, <2>1
  <2>3. n \in S <=> Has(v, n)
    BY <2>2
  <2>4. f[n + 1] = f[n] + (IF n \in S THEN Pow2[n] ELSE 0)
    BY <1>1
  <2>5. v % Pow2[n + 1] = (v % Pow2[n]) + (IF Has(v, n) THEN Pow2[n] ELSE 0)
    BY NextBit
  <2> QED BY <2>2, <2>3, <2>4, <2>5
<1> HIDE DEF T
<1>4. Nat \subseteq T
  BY <1>2, <1>3, Induction
<1>5. f[w] = v % Pow2[w]
  BY <1>4 DEF T
<1> QED BY <1>1, <1>5

(* A byte-aligned field is the signal of the same cells.                   *)
LEMMA ByteIsSignal ==
    ASSUME NEW p, p.at \in Nat, p.len \in Nat \ {0}, NEW big \in BOOLEAN,
           NEW k \in 0 .. NBits * p.len - 1
    PROVE  ByteCell(p, big, k)
             = SignalCell([start |-> NBits * p.at + (IF big THEN NBits - 1 ELSE 0),
                           len |-> NBits * p.len, big |-> big], k)
<1> DEFINE B == NBits
           at == p.at
           len == p.len
           s == [start |-> B * at + (IF big THEN B - 1 ELSE 0), len |-> B * len, big |-> big]
           q == k \div B
           r == k % B
<1>1. B \in Nat \ {0} /\ at \in Nat /\ len \in Nat \ {0} /\ k \in 0 .. B * len - 1
  BY RuleAssumption
<1>2. B * at \in Nat /\ B * len \in Nat /\ k \in Nat
  BY <1>1
<1>3. q \in Int /\ r \in 0 .. B - 1 /\ k = B * q + r
  <2> HIDE DEF B
  <2>1. k \in Int
    BY <1>2
  <2> QED BY <1>1, <2>1, ModParts
<1>4. ByteCell(p, big, k) = IF big THEN <<at + len - 1 - q, r>> ELSE <<at + q, r>>
  BY DEF ByteCell
<1>5. s.start = B * at + (IF big THEN B - 1 ELSE 0) /\ s.len = B * len /\ s.big = big
  OBVIOUS
<1> HIDE DEF B, at, len, s, q, r
<1>6. CASE ~big
  <2>1. SignalCell(s, k) = <<(B * at + k) \div B, (B * at + k) % B>>
    <3>1. s.start = B * at
      BY <1>2, <1>5, <1>6
    <3> QED BY <1>5, <1>6, <3>1 DEF SignalCell, IntelCell, B
  <2>2. B * at + k = B * (at + q) + r /\ at + q \in Int /\ B * at + k \in Int
    BY <1>1, <1>2, <1>3
  <2>3. (B * at + k) \div B = at + q /\ (B * at + k) % B = r
    BY <1>1, <1>3, <2>2, DivModIs
  <2> QED BY <1>4, <1>6, <2>1, <2>3 DEF s, B, at, len
<1>7. CASE big
  <2> DEFINE n == s.len - 1 - k
             b0 == s.start % B
             past == n - (b0 + 1)
  <2>1. s.start = B * at + (B - 1) /\ B - 1 \in 0 .. B - 1 /\ s.start \in Int
    BY <1>1, <1>2, <1>5, <1>7
  <2>2. s.start \div B = at /\ b0 = B - 1
    <3> DEFINE x == s.start
               t == B - 1
    <3>1. x \in Int /\ at \in Int /\ t \in 0 .. B - 1 /\ x = B * at + t
      BY <1>1, <2>1
    <3> HIDE DEF x, t
    <3>2. x \div B = at /\ x % B = t
      BY <1>1, <3>1, DivModIs
    <3> QED BY <3>2 DEF x, t
  <2>3. n = B * len - 1 - k /\ n \in Nat /\ past = n - B
    BY <1>1, <1>2, <1>5, <2>2
  <2>4. SignalCell(s, k) = IF past < 0 THEN <<s.start \div B, b0 - n>>
                           ELSE <<(s.start \div B) + 1 + (past \div B), B - 1 - (past % B)>>
    BY <1>5, <1>7 DEF SignalCell, MotorolaCell, B
  <2> HIDE DEF n, b0, past
  <2> DEFINE j == len - 2 - q
             t == B - 1 - r
  <2>5. past = B * j + t /\ j \in Int /\ t \in 0 .. B - 1 /\ past \in Int
    <3>1. B * j = B * len - 2 * B - B * q
      BY <1>1, <1>3
    <3> HIDE DEF j
    <3>2. past = B * j + t
      BY <1>1, <1>2, <1>3, <2>3, <3>1
    <3> QED BY <1>1, <1>2, <1>3, <2>3, <3>2 DEF j
  <2>6. past \div B = j /\ past % B = t
    <3> HIDE DEF j, t
    <3> QED BY <1>1, <2>5, DivModIs
  <2>7. past < 0 => j = 0 - 1
    <3> HIDE DEF j
    <3>1. past < 0 => j < 0
      <4>1. j >= 0 => B * j >= 0
        BY <1>1, <2>5
      <4> QED BY <1>1, <2>5, <4>1
    <3>2. past >= 0 - B
      BY <1>1, <2>3
    <3>3. j <= 0 - 2 => B * j <= 0 - 2 * B
      <4>1. ASSUME j <= 0 - 2 PROVE B * (0 - 2 - j) >= 0
        BY <1>1, <2>5, <4>1
      <4>2. B * (0 - 2 - j) = 0 - 2 * B - B * j
        BY <1>1, <2>5
      <4> QED BY <1>1, <2>5, <4>1, <4>2
    <3> QED BY <1>1, <2>5, <3>1, <3>2, <3>3
  <2>8. CASE past < 0
    <3>1. at = at + len - 1 - q /\ b0 - n = r
      BY <1>1, <1>2, <1>3, <2>2, <2>3, <2>5, <2>7, <2>8
    <3> QED BY <1>4, <1>7, <2>2, <2>4, <2>8, <3>1 DEF s, B, at, len
  <2>9. CASE ~(past < 0)
    <3>1. at + 1 + j = at + len - 1 - q /\ B - 1 - t = r
      BY <1>1, <1>3
    <3> HIDE DEF j, t
    <3> QED BY <1>4, <1>7, <2>2, <2>4, <2>6, <2>9, <3>1 DEF s, B, at, len
  <2> QED BY <2>8, <2>9
<1> QED BY <1>6, <1>7

(* Where a decode sensor looks is where a signal of its place lies.        *)
LEMMA SensorCells ==
    ASSUME NEW d \in Sensors, SensorOk(d)
    PROVE  LET s == AsSignal(d)
               w == Width(d)
           IN  /\ w \in Nat \ {0} /\ s.len = w /\ s.start \in Nat
               /\ \A k \in 0 .. w - 1 : ValueCell(d, k) = SignalCell(s, k)
               /\ SignalBits(s) \subseteq Cells
<1> DEFINE s == AsSignal(d)
           w == Width(d)
<1>1. FieldShape(d.byte) /\ FieldShape(d.bit) /\ d.big \in BOOLEAN
  BY GatewayAssumption DEF SensorShape
<1>2. /\ (d.byte = <<>>) # (d.bit = <<>>)
      /\ d.byte # <<>> => d.byte[1].at + d.byte[1].len <= NBytes
      /\ d.bit # <<>> =>
            SignalFits([start |-> d.bit[1].at, len |-> d.bit[1].len, big |-> d.big])
  BY DEF SensorOk, PositionOk
<1>3. NBits \in Nat \ {0} /\ NBytes \in Nat
  BY RuleAssumption
<1>4. CASE d.bit # <<>>
  <2>1. d.byte = <<>> /\ d.bit[1].at \in Nat /\ d.bit[1].len \in Nat \ {0}
    BY <1>1, <1>2, <1>4 DEF FieldShape
  <2>2. /\ w = d.bit[1].len
        /\ s = [start |-> d.bit[1].at, len |-> d.bit[1].len, big |-> d.big]
    BY <1>4 DEF Width, AsSignal
  <2>3. \A k : ValueCell(d, k) = SignalCell(s, k)
    BY <2>1, <2>2 DEF ValueCell
  <2>4. SignalBits(s) \subseteq Cells
    BY <1>2, <1>4, <2>2 DEF SignalFits
  <2>5. s.len = w /\ s.start \in Nat
    BY <2>1, <2>2
  <2> HIDE DEF s, w
  <2> QED BY <2>1, <2>2, <2>3, <2>4, <2>5 DEF s, w
<1>5. CASE d.bit = <<>>
  <2> DEFINE p == d.byte[1]
  <2>1. d.byte # <<>> /\ p.at \in Nat /\ p.len \in Nat \ {0} /\ p.at + p.len <= NBytes
    BY <1>1, <1>2, <1>5 DEF FieldShape
  <2>2. /\ w = NBits * p.len
        /\ s = [start |-> NBits * p.at + (IF d.big THEN NBits - 1 ELSE 0),
                len |-> NBits * p.len, big |-> d.big]
    BY <1>5 DEF Width, AsSignal
  <2>3. ASSUME NEW k \in 0 .. w - 1
        PROVE  ValueCell(d, k) = ByteCell(p, d.big, k) /\ ValueCell(d, k) = SignalCell(s, k)
    <3>1. ValueCell(d, k) = ByteCell(p, d.big, k)
      BY <2>1 DEF ValueCell
    <3> HIDE DEF p, s, w
    <3>2. ByteCell(p, d.big, k)
             = SignalCell([start |-> NBits * p.at + (IF d.big THEN NBits - 1 ELSE 0),
                           len |-> NBits * p.len, big |-> d.big], k)
      BY <1>1, <2>1, <2>2, ByteIsSignal
    <3> QED BY <2>2, <3>1, <3>2
  <2> DEFINE a == p.at
             l == p.len
             o == IF d.big THEN NBits - 1 ELSE 0
  <2>4. a \in Nat /\ l \in Nat \ {0} /\ a + l <= NBytes /\ o \in Nat
    BY <1>3, <2>1
  <2>5. s.len = w /\ s.start = NBits * a + o /\ w = NBits * l
    BY <2>2
  <2>6. ASSUME NEW k \in 0 .. w - 1 PROVE ByteCell(p, d.big, k) \in Cells
    <3> DEFINE q == k \div NBits
               r == k % NBits
    <3>1. k \in Int /\ k >= 0 /\ k < NBits * l
      BY <1>3, <2>4, <2>5
    <3>2. q \in Int /\ r \in 0 .. NBits - 1 /\ k = NBits * q + r
      BY <1>3, <3>1, ModParts
    <3>3. ByteCell(p, d.big, k) = <<IF d.big THEN a + l - 1 - q ELSE a + q, r>>
      BY DEF ByteCell
    <3> HIDE DEF q, r, a, l
    <3>4. q >= 0
      <4>1. q <= 0 - 1 => NBits * (0 - 1 - q) >= 0
        BY <1>3, <3>2
      <4>2. NBits * (0 - 1 - q) = 0 - NBits - NBits * q
        BY <1>3, <3>2
      <4> QED BY <1>3, <3>1, <3>2, <4>1, <4>2
    <3>5. q <= l - 1
      <4>1. q >= l => NBits * (q - l) >= 0
        BY <1>3, <2>4, <3>2
      <4>2. NBits * (q - l) = NBits * q - NBits * l
        BY <1>3, <2>4, <3>2
      <4> QED BY <1>3, <2>4, <3>1, <3>2, <4>1, <4>2
    <3>6. a + l - 1 - q \in 0 .. NBytes - 1 /\ a + q \in 0 .. NBytes - 1
      BY <1>3, <2>4, <3>2, <3>4, <3>5
    <3> QED BY <3>2, <3>3, <3>6 DEF Cells, Byte, Bit
  <2>7. w \in Nat \ {0} /\ s.start \in Nat
    <3> HIDE DEF a, l, o, s, w
    <3>1. NBits * l \in Nat \ {0} /\ NBits * a \in Nat
      BY <1>3, <2>4
    <3> QED BY <2>4, <2>5, <3>1
  <2> HIDE DEF s, w, p, a, l, o
  <2>8. \A k \in 0 .. w - 1 : SignalCell(s, k) \in Cells /\ ValueCell(d, k) = SignalCell(s, k)
    BY <2>3, <2>6
  <2>9. SignalBits(s) \subseteq Cells
    BY <2>5, <2>8 DEF SignalBits
  <2> QED BY <2>5, <2>7, <2>8, <2>9 DEF s, w
<1> QED BY <1>4, <1>5

(* The raw value read from a stamped field is the value stamped.           *)
LEMMA ReadsStamp ==
    ASSUME NEW d \in Sensors, SensorOk(d), NEW raw \in 0 .. AllOnes(Width(d)), NEW around,
           around \cap SignalBits(AsSignal(d)) = {}
    PROVE  Raw(d, Stamp(AsSignal(d), raw) \cup around) = raw
<1> DEFINE s == AsSignal(d)
           w == Width(d)
           p == Stamp(s, raw) \cup around
           S == {k \in 0 .. w - 1 : ValueCell(d, k) \in p}
           m == Pow2[w]
<1>1. /\ w \in Nat \ {0} /\ s.len = w /\ s.start \in Nat
      /\ \A k \in 0 .. w - 1 : ValueCell(d, k) = SignalCell(s, k)
  BY SensorCells
<1>2. Raw(d, p) = ValueOf(S, w)
  BY DEF Raw
<1>3. m \in Nat \ {0} /\ raw \in 0 .. m - 1
  BY <1>1, Pow2Def DEF AllOnes
<1> HIDE DEF s, w, m
<1>4. ASSUME NEW k \in 0 .. w - 1 PROVE k \in S <=> Has(raw, k)
  <2>1. k \in S <=> SignalCell(s, k) \in p
    BY <1>1
  <2>2. SignalCell(s, k) \in SignalBits(s)
    BY <1>1 DEF SignalBits
  <2>3. SignalCell(s, k) \notin around
    BY <2>2 DEF s
  <2>4. ASSUME Has(raw, k) PROVE SignalCell(s, k) \in Stamp(s, raw)
    BY <1>1, <2>4 DEF Stamp
  <2>5. ASSUME SignalCell(s, k) \in Stamp(s, raw) PROVE Has(raw, k)
    <3>1. PICK j \in 0 .. s.len - 1 : Has(raw, j) /\ SignalCell(s, k) = SignalCell(s, j)
      BY <2>5 DEF Stamp
    <3>2. j = k
      BY <1>1, <3>1, CellsAreDistinct
    <3> QED BY <3>1, <3>2
  <2> QED BY <2>1, <2>3, <2>4, <2>5
<1> HIDE DEF S, p
<1>5. w \in Nat /\ raw \in Nat
  BY <1>1, <1>3
<1>6. ValueOf(S, w) = raw % m
  BY <1>4, <1>5, ValueOfBits DEF m
<1>7. raw % m = raw
  <2>1. raw = m * 0 + raw /\ raw \in Int
    BY <1>3
  <2> QED BY <1>3, <2>1, ModIs
<1> QED BY <1>2, <1>6, <1>7 DEF p, s

(* The last byte a sensor looks at is one of the frame's, if it fits.      *)
LEMMA LastByteIs ==
    ASSUME NEW d \in Sensors, SensorOk(d)
    PROVE  /\ \E c \in SignalBits(AsSignal(d)) : c[1] = LastByte(d)
           /\ \A c \in SignalBits(AsSignal(d)) : c[1] <= LastByte(d) /\ c[1] \in 0 .. NBytes - 1
<1> DEFINE s == AsSignal(d)
           w == Width(d)
           S == {ValueCell(d, k)[1] : k \in 0 .. w - 1}
<1>1. /\ w \in Nat \ {0} /\ s.len = w
      /\ \A k \in 0 .. w - 1 : ValueCell(d, k) = SignalCell(s, k)
      /\ SignalBits(s) \subseteq Cells
  BY SensorCells
<1> HIDE DEF s, w
<1>2. \A x : x \in S <=> \E c \in SignalBits(s) : c[1] = x
  BY <1>1 DEF SignalBits
<1>3. \A c \in SignalBits(s) : c[1] \in 0 .. NBytes - 1
  BY <1>1 DEF Cells, Byte
<1>4. S # {} /\ S \subseteq 0 .. NBytes - 1
  <2>1. 0 \in 0 .. w - 1
    BY <1>1
  <2>2. S # {}
    BY <2>1
  <2> HIDE DEF S
  <2> QED BY <1>2, <1>3, <2>2
<1>5. LastByte(d) = Max(S)
  BY DEF LastByte, w
<1> HIDE DEF S
<1>6. NBytes \in Nat
  BY RuleAssumption
<1>7. S \subseteq 0 .. NBytes
  <2>1. \A x \in 0 .. NBytes - 1 : x \in 0 .. NBytes
    BY <1>6
  <2> QED BY <1>4, <2>1
<1>8. Max(S) \in S /\ \A x \in S : x <= Max(S)
  BY <1>4, <1>6, <1>7, GreatestOf
<1> QED BY <1>2, <1>3, <1>5, <1>8 DEF s

(* An accepted decode sensor reads the field it names.                     *)
LEMMA SensorsRead == NodeTypeOK => DecodeWorks
<1> SUFFICES ASSUME NodeTypeOK, NEW i \in DOMAIN node.sensors, SensorOk(node.sensors[i])
             PROVE  LET d == node.sensors[i] IN
            /\ \A raw \in 0 .. AllOnes(Width(d)) :
                  \A around \in {{}, Cells \ SignalBits(AsSignal(d))} :
                     LET p == Stamp(AsSignal(d), raw) \cup around
                     IN  /\ Raw(d, p) = raw
                         /\ Published(d, p, NBytes) = <<"unknown">> <=> IsSna(d, raw)
            /\ d.sna # <<>> => \E raw \in 0 .. AllOnes(Width(d)) : IsSna(d, raw)
            /\ \A dlc \in 0 .. NBytes :
                  Published(d, {}, dlc) = <<"nothing">>
                    <=> (\E c \in SignalBits(AsSignal(d)) : c[1] >= dlc)
  BY DEF DecodeWorks
<1> DEFINE d == node.sensors[i]
           s == AsSignal(d)
           w == Width(d)
<1>1. d \in Sensors
  BY DEF NodeTypeOK
<1>2. SensorOk(d)
  OBVIOUS
<1> HIDE DEF d
<1>3. /\ \E c \in SignalBits(s) : c[1] = LastByte(d)
      /\ \A c \in SignalBits(s) : c[1] <= LastByte(d) /\ c[1] \in 0 .. NBytes - 1
  BY <1>1, <1>2, LastByteIs
<1>4. LastByte(d) \in 0 .. NBytes - 1 /\ NBytes \in Nat
  BY <1>3, RuleAssumption
<1>5. ASSUME NEW raw \in 0 .. AllOnes(w), NEW around \in {{}, Cells \ SignalBits(s)}
      PROVE  /\ Raw(d, Stamp(s, raw) \cup around) = raw
             /\ Published(d, Stamp(s, raw) \cup around, NBytes) = <<"unknown">> <=> IsSna(d, raw)
  <2> DEFINE p == Stamp(s, raw) \cup around
  <2>1. around \cap SignalBits(s) = {}
    OBVIOUS
  <2>2. Raw(d, p) = raw
    BY <1>1, <1>2, <2>1, ReadsStamp
  <2>3. ~(LastByte(d) >= NBytes)
    BY <1>4
  <2> DEFINE v == <<"value", IF d.signed THEN SignExtend(raw, w) ELSE raw>>
  <2> HIDE DEF p
  <2>4. Published(d, p, NBytes) = IF IsSna(d, raw) THEN <<"unknown">> ELSE v
    BY <2>2, <2>3 DEF Published
  <2>5. v # <<"unknown">>
    <3>1. v[1] = "value" /\ <<"unknown">>[1] = "unknown"
      OBVIOUS
    <3> HIDE DEF v
    <3> QED BY <3>1
  <2> HIDE DEF v
  <2> QED BY <2>2, <2>4, <2>5 DEF p
<1>6. ASSUME d.sna # <<>> PROVE \E raw \in 0 .. AllOnes(w) : IsSna(d, raw)
  <2>1. w \in Nat
    BY <1>1, <1>2, SensorCells
  <2> DEFINE top == AllOnes(w)
             x == IF d.sna[1] = "raw" THEN d.sna[2] ELSE top
  <2>2. top \in Nat
    BY <2>1, Pow2Def DEF AllOnes
  <2>3. SensorShape(d) /\ SnaOk(d)
    BY <1>1, <1>2, GatewayAssumption DEF SensorOk
  <2>4. x \in 0 .. top
    <3>1. CASE d.sna[1] = "raw"
      <4>1. d.sna # <<"all_ones">>
        BY <3>1
      <4>2. d.sna[2] \in Nat
        BY <1>6, <2>3, <4>1 DEF SensorShape
      <4>3. d.sna[2] <= top
        BY <1>6, <2>3, <3>1 DEF SnaOk
      <4> HIDE DEF top
      <4> QED BY <2>2, <3>1, <4>2, <4>3
    <3>2. CASE d.sna[1] # "raw"
      <4> HIDE DEF top
      <4> QED BY <2>2, <3>2
    <3> QED BY <3>1, <3>2
  <2>5. IsSna(d, x)
    BY <1>6 DEF IsSna
  <2> HIDE DEF x
  <2> QED BY <2>4, <2>5
<1>7. ASSUME NEW dlc \in 0 .. NBytes
      PROVE  Published(d, {}, dlc) = <<"nothing">> <=> (\E c \in SignalBits(s) : c[1] >= dlc)
  <2> DEFINE raw == Raw(d, {})
             v == <<"value", IF d.signed THEN SignExtend(raw, w) ELSE raw>>
             last == LastByte(d)
  <2>1. Published(d, {}, dlc) = IF last >= dlc THEN <<"nothing">>
                                ELSE IF IsSna(d, raw) THEN <<"unknown">> ELSE v
    BY DEF Published
  <2>2. v # <<"nothing">> /\ <<"unknown">> # <<"nothing">>
    <3>1. v[1] = "value" /\ <<"nothing">>[1] = "nothing" /\ <<"unknown">>[1] = "unknown"
      OBVIOUS
    <3> HIDE DEF v
    <3> QED BY <3>1
  <2> HIDE DEF raw, v, last
  <2>3. last >= dlc <=> \E c \in SignalBits(s) : c[1] >= dlc
    <3>1. last \in Int /\ dlc \in Int
      BY <1>4 DEF last
    <3>2. last >= dlc => \E c \in SignalBits(s) : c[1] >= dlc
      BY <1>3 DEF last
    <3>3. ASSUME NEW c \in SignalBits(s), c[1] >= dlc PROVE last >= dlc
      <4> DEFINE x == c[1]
      <4>1. x \in 0 .. NBytes - 1 /\ x <= last /\ x >= dlc
        BY <1>3, <3>3 DEF last
      <4> HIDE DEF x
      <4> QED BY <1>4, <3>1, <4>1
    <3> QED BY <3>2, <3>3
  <2> QED BY <2>1, <2>2, <2>3
<1> QED BY <1>5, <1>6, <1>7 DEF d

-----------------------------------------------------------------------------
(* The producers of the logger's files.  What an author has declared.      *)
TapLines ==
    [port : TapPorts, source : {<<>>} \cup {<<n>> : n \in Tags \ {0}},
     label : {<<>>} \cup {<<x>> : x \in Labels}]
SourceLines == [tag : Tags, kind : {"C", "L", "U"}, label : Labels]
Blocks == [enabled : BOOLEAN, serve : BOOLEAN, port : HttpPorts]
ProducersTypeOK ==
    /\ DOMAIN sdl = SdlFields
    /\ sdl.taps \in Seq(TapLines) /\ sdl.sources \in Seq(SourceLines)
    /\ sdl.collection \in {<<>>} \cup {<<c>> : c \in Blocks}

(* A logger without a line has the type.                                   *)
LEMMA InitProducers == LoggerConfigInit => ProducersTypeOK
BY DEF LoggerConfigInit, ProducersTypeOK, SdlFields

(* A tap, a source or a collection block keeps it.                         *)
LEMMA AuthorKeepsProducers == ProducersTypeOK /\ Configure => ProducersTypeOK'
<1> SUFFICES ASSUME ProducersTypeOK, Configure PROVE ProducersTypeOK'
  OBVIOUS
<1>1. /\ DOMAIN sdl = SdlFields
      /\ sdl.taps \in Seq(TapLines) /\ sdl.sources \in Seq(SourceLines)
      /\ sdl.collection \in {<<>>} \cup {<<c>> : c \in Blocks}
  BY DEF ProducersTypeOK
<1>2. CASE AddTap
  <2>1. PICK p \in TapPorts, t \in {<<>>} \cup {<<n>> : n \in Tags \ {0}},
             l \in {<<>>} \cup {<<x>> : x \in Labels} :
           sdl' = [sdl EXCEPT !.taps = Append(@, [port |-> p, source |-> t, label |-> l])]
    BY <1>2 DEF AddTap
  <2> DEFINE line == [port |-> p, source |-> t, label |-> l]
  <2>2. line \in TapLines
    BY DEF TapLines
  <2> HIDE DEF line
  <2>3. /\ DOMAIN sdl' = SdlFields /\ sdl'.taps = Append(sdl.taps, line)
        /\ sdl'.sources = sdl.sources /\ sdl'.collection = sdl.collection
    BY <1>1, <2>1 DEF SdlFields, line
  <2>4. Append(sdl.taps, line) \in Seq(TapLines)
    BY <1>1, <2>2, AppendProperties
  <2> QED BY <1>1, <2>3, <2>4 DEF ProducersTypeOK
<1>3. CASE AddSource
  <2>1. PICK t \in Tags, k \in {"C", "L", "U"}, l \in Labels :
           sdl' = [sdl EXCEPT !.sources = Append(@, [tag |-> t, kind |-> k, label |-> l])]
    BY <1>3 DEF AddSource
  <2> DEFINE line == [tag |-> t, kind |-> k, label |-> l]
  <2>2. line \in SourceLines
    BY DEF SourceLines
  <2> HIDE DEF line
  <2>3. /\ DOMAIN sdl' = SdlFields /\ sdl'.sources = Append(sdl.sources, line)
        /\ sdl'.taps = sdl.taps /\ sdl'.collection = sdl.collection
    BY <1>1, <2>1 DEF SdlFields, line
  <2>4. Append(sdl.sources, line) \in Seq(SourceLines)
    BY <1>1, <2>2, AppendProperties
  <2> QED BY <1>1, <2>3, <2>4 DEF ProducersTypeOK
<1>4. CASE SetCollection
  <2>1. PICK e \in BOOLEAN, s \in BOOLEAN, w \in BOOLEAN, p \in HttpPorts, web \in SUBSET HttpPorts :
           sdl' = [sdl EXCEPT !.collection = <<[enabled |-> e, serve |-> s, port |-> p]>>,
                              !.wifi = w, !.web = web]
    BY <1>4 DEF SetCollection
  <2> DEFINE c == [enabled |-> e, serve |-> s, port |-> p]
  <2>2. c \in Blocks
    BY DEF Blocks
  <2> HIDE DEF c
  <2>3. /\ DOMAIN sdl' = SdlFields /\ sdl'.sources = sdl.sources
        /\ sdl'.taps = sdl.taps /\ sdl'.collection = <<c>>
    BY <1>1, <2>1 DEF SdlFields, c
  <2> QED BY <1>1, <2>2, <2>3 DEF ProducersTypeOK
<1> QED BY <1>2, <1>3, <1>4 DEF Configure

(* The device never writes its configuration.                              *)
LEMMA RestKeepsProducers == ProducersTypeOK /\ sdl' = sdl => ProducersTypeOK'
BY DEF ProducersTypeOK

(* A server that starts stands in the one block there is.                  *)
LEMMA ServerIsAlone == ProducersTypeOK => ServerHasItsPort
<1> SUFFICES ASSUME ProducersTypeOK, SdLoggerOk, ServerStarts, sdl.collection[1].enabled
             PROVE  sdl.wifi /\ sdl.collection[1].port \notin sdl.web
  BY DEF ServerHasItsPort
<1>1. PICK i \in DOMAIN sdl.collection : sdl.collection[i].serve
  BY DEF ServerStarts
<1>2. i = 1
  <2>1. sdl.collection # <<>>
    BY <1>1
  <2>2. PICK c \in Blocks : sdl.collection = <<c>>
    BY <2>1 DEF ProducersTypeOK
  <2> QED BY <1>1, <2>2
<1>3. \A j \in DOMAIN sdl.collection :
         sdl.collection[j].enabled /\ sdl.collection[j].serve
           => sdl.wifi /\ sdl.collection[j].port \notin sdl.web
  BY DEF SdLoggerOk, CollectionOk
<1> QED BY <1>1, <1>2, <1>3, Zenon

(* The declared lines: the taps, then the sources.                         *)
LEMMA DeclaredIs ==
    ASSUME ProducersTypeOK
    PROVE  /\ Declared \in Seq({Declared[i] : i \in DOMAIN Declared})
           /\ Len(Declared) \in Nat /\ DOMAIN Declared = 1 .. Len(Declared)
           /\ Len(sdl.taps) \in Nat /\ DOMAIN Taps = 1 .. Len(sdl.taps)
           /\ \A i \in DOMAIN Taps : i \in DOMAIN Declared /\ Declared[i] = Taps[i]
<1> DEFINE a == Taps
           b == sdl.sources
           T == {a[i] : i \in DOMAIN sdl.taps} \cup SourceLines
<1>1. Len(sdl.taps) \in Nat /\ DOMAIN sdl.taps = 1 .. Len(sdl.taps)
  BY DEF ProducersTypeOK
<1>2. a \in [1 .. Len(sdl.taps) -> T]
  BY <1>1 DEF Taps
<1>3. b \in Seq(T)
  BY DEF ProducersTypeOK, b
<1> HIDE DEF a, b, T
<1>4. a \in Seq(T) /\ Len(a) = Len(sdl.taps) /\ DOMAIN a = 1 .. Len(a)
  BY <1>1, <1>2
<1>5. /\ a \o b \in Seq(T) /\ Len(a \o b) = Len(a) + Len(b)
      /\ \A i \in 1 .. Len(a) + Len(b) :
            (a \o b)[i] = IF i <= Len(a) THEN a[i] ELSE b[i - Len(a)]
  BY <1>3, <1>4, ConcatProperties
<1> DEFINE c == a \o b
<1>6. c = Declared
  BY DEF Declared, a, b
<1> HIDE DEF c
<1>7. c \in Seq(T) /\ DOMAIN c = 1 .. Len(c) /\ Len(c) \in Nat
  BY <1>5 DEF c
<1>8. c \in Seq({c[i] : i \in DOMAIN c})
  BY <1>7
<1>9. ASSUME NEW i \in DOMAIN a PROVE i \in DOMAIN c /\ c[i] = a[i]
  <2> DEFINE n == Len(a)
             m == Len(b)
  <2>1. n \in Nat /\ m \in Nat /\ i \in 1 .. n /\ DOMAIN c = 1 .. n + m
    BY <1>1, <1>3, <1>4, <1>5, <1>7, <1>9 DEF c
  <2> HIDE DEF n, m
  <2>2. i \in 1 .. n + m /\ i <= n
    BY <2>1
  <2> QED BY <1>5, <2>1, <2>2 DEF c, n, m
<1> QED BY <1>1, <1>4, <1>6, <1>7, <1>8, <1>9 DEF a

(* The table of the firmware holds every line while its count fits a byte. *)
LEMMA TableIsComplete ==
    ASSUME ProducersTypeOK, Complete
    PROVE  SourceTable = Declared
<1> DEFINE n == Len(Declared)
           T == {Declared[i] : i \in DOMAIN Declared}
           fits == IF n > TableSize THEN TableSize ELSE n
<1>1. Declared \in Seq(T) /\ n \in Nat /\ n < CountMod
  BY DeclaredIs DEF Complete
<1>2. CountMod \in Nat \ {0}
  BY LoggerConfigAssumption
<1>3. SourceTable = SubSeq(Declared, 1, fits % CountMod)
  BY DEF SourceTable
<1>4. fits = n
  <2>1. CASE n > DefaultSources
    <3>1. TableSize = n
      BY <2>1 DEF TableSize
    <3> QED BY <1>1, <3>1
  <2>2. CASE ~(n > DefaultSources)
    <3>1. TableSize = DefaultSources
      BY <2>2 DEF TableSize
    <3> QED BY <2>2, <3>1
  <2> QED BY <2>1, <2>2
<1>5. n % CountMod = n
  <2>1. n \in Nat /\ n < CountMod
    BY <1>1
  <2> HIDE DEF n
  <2>2. n \in Int /\ n \in 0 .. CountMod - 1 /\ n = CountMod * 0 + n
    BY <1>2, <2>1
  <2> QED BY <1>2, <2>2, ModIs
<1> HIDE DEF fits, T
<1>6. SourceTable = SubSeq(Declared, 1, n)
  BY <1>3, <1>4, <1>5
<1> DEFINE d == Declared
<1> HIDE DEF d
<1>7. d \in Seq(T) => SubSeq(d, 1, Len(d)) = d
  OBVIOUS
<1> QED BY <1>1, <1>6, <1>7 DEF d

(* In a table without a tag twice, a tag finds its own line.               *)
LEMMA FoundIs ==
    ASSUME NEW lines, NEW T, lines \in Seq(T),
           \A i, j \in DOMAIN lines : i # j => lines[i].tag # lines[j].tag
    PROVE  /\ \A i \in DOMAIN lines : FindSource(lines, lines[i].tag) = <<lines[i]>>
           /\ \A tag : FindSource(lines, tag) # <<>> =>
                 \E i \in DOMAIN lines :
                    lines[i].tag = tag /\ FindSource(lines, tag) = <<lines[i]>>
           /\ \A tag : (\A i \in DOMAIN lines : lines[i].tag # tag) =>
                 FindSource(lines, tag) = <<>>
<1>1. ASSUME NEW tag, \A i \in DOMAIN lines : lines[i].tag # tag
      PROVE  FindSource(lines, tag) = <<>>
  BY <1>1 DEF FindSource
<1>2. ASSUME NEW i \in DOMAIN lines PROVE FindSource(lines, lines[i].tag) = <<lines[i]>>
  <2> DEFINE at == {j \in DOMAIN lines : lines[j].tag = lines[i].tag}
  <2>1. at = {i} /\ i \in Nat
    OBVIOUS
  <2> DEFINE k == CHOOSE k \in at : \A j \in at : k <= j
  <2>2. FindSource(lines, lines[i].tag) = IF at = {} THEN <<>> ELSE <<lines[k]>>
    BY DEF FindSource
  <2>3. i <= i
    BY <2>1
  <2> HIDE DEF at
  <2>4. k \in at
    BY <2>1, <2>3
  <2>5. k = i
    BY <2>1, <2>4
  <2> QED BY <2>1, <2>2, <2>5
<1>3. ASSUME NEW tag, FindSource(lines, tag) # <<>>
      PROVE  \E i \in DOMAIN lines :
                lines[i].tag = tag /\ FindSource(lines, tag) = <<lines[i]>>
  <2>1. PICK i \in DOMAIN lines : lines[i].tag = tag
    BY <1>1, <1>3
  <2> QED BY <1>2, <2>1
<1> QED BY <1>1, <1>2, <1>3

(* A label resolves to the tag of its only line.                           *)
LEMMA ResolvedIs ==
    ASSUME ProducersTypeOK, NamedOnce, NEW i \in DOMAIN Declared
    PROVE  ResolveSource(Declared[i].label) = <<Declared[i].tag>>
<1> DEFINE d == Declared
           at == {j \in DOMAIN d : d[j].label = d[i].label}
           k == CHOOSE k \in at : \A j \in at : k <= j
<1>1. DOMAIN d = 1 .. Len(d) /\ Len(d) \in Nat
  BY DeclaredIs
<1>2. ResolveSource(d[i].label) = IF at = {} THEN <<>> ELSE <<d[k].tag>>
  BY DEF ResolveSource
<1>3. \A j \in DOMAIN d : j # i => d[j].label # d[i].label
  BY DEF NamedOnce
<1> HIDE DEF d
<1>4. i \in DOMAIN d /\ i <= i
  <2>1. i \in DOMAIN d
    BY DEF d
  <2> QED BY <1>1, <2>1
<1>5. at = {i}
  BY <1>3, <1>4
<1> HIDE DEF at
<1>6. k = i
  BY <1>4, <1>5
<1>7. ResolveSource(d[i].label) = <<d[i].tag>>
  BY <1>2, <1>5, <1>6
<1> QED BY <1>7 DEF d

(* A declared tag heads its own line; a tag without one has none.          *)
LEMMA HeaderIs ==
    ASSUME ProducersTypeOK, NamedOnce, Complete
    PROVE  /\ \A i \in DOMAIN Declared : HeaderLine(Declared[i].tag) = <<Declared[i]>>
           /\ \A tag : HeaderLine(tag) # <<>> =>
                 \E i \in DOMAIN Declared :
                    Declared[i].tag = tag /\ HeaderLine(tag) = <<Declared[i]>>
<1> DEFINE T == {Declared[i] : i \in DOMAIN Declared}
<1>1. /\ Declared \in Seq(T)
      /\ \A i, j \in DOMAIN Declared : i # j => Declared[i].tag # Declared[j].tag
  BY DeclaredIs DEF NamedOnce
<1>2. SourceTable = Declared
  BY TableIsComplete
<1>3. /\ DOMAIN Taps = 1 .. Len(sdl.taps)
      /\ \A i \in DOMAIN Taps : i \in DOMAIN Declared /\ Declared[i] = Taps[i]
  BY DeclaredIs
<1>4. Taps \in Seq(T)
  <2>1. Len(sdl.taps) \in Nat
    BY DeclaredIs
  <2>2. Taps = [i \in 1 .. Len(sdl.taps) |-> Taps[i]]
    BY <1>3 DEF Taps
  <2> DEFINE t == Taps
             n == Len(sdl.taps)
  <2>3. n \in Nat /\ t = [i \in 1 .. n |-> t[i]] /\ \A i \in 1 .. n : t[i] \in T
    BY <1>3, <2>1, <2>2
  <2> HIDE DEF t, n, T
  <2>4. t \in [1 .. n -> T]
    BY <2>3
  <2>5. t \in Seq(T)
    BY <2>3, <2>4
  <2> QED BY <2>5 DEF t
<1>5. \A i, j \in DOMAIN Taps : i # j => Taps[i].tag # Taps[j].tag
  BY <1>1, <1>3
<1> HIDE DEF T
<1>6. /\ \A i \in DOMAIN Taps : FindSource(Taps, Taps[i].tag) = <<Taps[i]>>
      /\ \A tag : FindSource(Taps, tag) # <<>> =>
            \E i \in DOMAIN Taps : Taps[i].tag = tag /\ FindSource(Taps, tag) = <<Taps[i]>>
  BY <1>4, <1>5, FoundIs
<1>7. /\ \A i \in DOMAIN Declared : FindSource(Declared, Declared[i].tag) = <<Declared[i]>>
      /\ \A tag : FindSource(Declared, tag) # <<>> =>
            \E i \in DOMAIN Declared :
               Declared[i].tag = tag /\ FindSource(Declared, tag) = <<Declared[i]>>
  BY <1>1, FoundIs
<1>8. ASSUME NEW tag, FindSource(Taps, tag) # <<>>
      PROVE  \E i \in DOMAIN Declared :
                Declared[i].tag = tag /\ HeaderLine(tag) = <<Declared[i]>>
  <2>1. HeaderLine(tag) = FindSource(Taps, tag)
    BY <1>8 DEF HeaderLine
  <2>2. PICK i \in DOMAIN Taps : Taps[i].tag = tag /\ FindSource(Taps, tag) = <<Taps[i]>>
    BY <1>6, <1>8
  <2> QED BY <1>3, <2>1, <2>2
<1>9. ASSUME NEW tag, FindSource(Taps, tag) = <<>>
      PROVE  HeaderLine(tag) = FindSource(Declared, tag)
  BY <1>2, <1>9 DEF HeaderLine
<1>10. ASSUME NEW i \in DOMAIN Declared PROVE HeaderLine(Declared[i].tag) = <<Declared[i]>>
  <2>1. CASE FindSource(Taps, Declared[i].tag) = <<>>
    BY <1>7, <1>9, <2>1
  <2>2. CASE FindSource(Taps, Declared[i].tag) # <<>>
    <3>1. PICK j \in DOMAIN Declared :
             Declared[j].tag = Declared[i].tag /\ HeaderLine(Declared[i].tag) = <<Declared[j]>>
      BY <1>8, <2>2
    <3>2. j = i
      BY <1>1, <3>1
    <3> QED BY <3>1, <3>2
  <2> QED BY <2>1, <2>2
<1>11. ASSUME NEW tag, HeaderLine(tag) # <<>>
       PROVE  \E i \in DOMAIN Declared :
                 Declared[i].tag = tag /\ HeaderLine(tag) = <<Declared[i]>>
  BY <1>7, <1>8, <1>9, <1>11
<1> QED BY <1>10, <1>11

(* Every producer is read under its own name.                              *)
LEMMA NamesAreKept == ProducersTypeOK => ProducersKeepTheirNames
<1> SUFFICES ASSUME ProducersTypeOK, NamedOnce, Complete, NEW i \in DOMAIN Declared
             PROVE  LET d == Declared[i]
                    IN  ShownAs(d.tag) = d.label /\ RecordKind(d.tag) = d.kind
                        /\ ResolveSource(d.label) = <<d.tag>>
                        /\ \A t \in Tags \ {d.tag} : ShownAs(t) = d.label => d.label = Token[t]
  BY DEF ProducersKeepTheirNames
<1> DEFINE d == Declared[i]
<1>1. HeaderLine(d.tag) = <<d>>
  BY HeaderIs
<1>2. ShownAs(d.tag) = d.label
  BY <1>1 DEF ShownAs
<1>3. RecordKind(d.tag) = d.kind
  <2>1. SourceTable = Declared /\ Declared \in Seq({Declared[j] : j \in DOMAIN Declared})
    BY TableIsComplete, DeclaredIs
  <2>2. FindSource(Declared, d.tag) = <<d>>
    BY <2>1, FoundIs DEF NamedOnce
  <2> QED BY <2>1, <2>2 DEF RecordKind
<1>4. ResolveSource(d.label) = <<d.tag>>
  BY ResolvedIs
<1>5. ASSUME NEW t \in Tags \ {d.tag}, ShownAs(t) = d.label PROVE d.label = Token[t]
  <2>1. HeaderLine(t) = <<>>
    <3> SUFFICES ASSUME HeaderLine(t) # <<>> PROVE FALSE
      OBVIOUS
    <3>1. PICK j \in DOMAIN Declared :
             Declared[j].tag = t /\ HeaderLine(t) = <<Declared[j]>>
      BY HeaderIs
    <3>2. ShownAs(t) = Declared[j].label
      BY <3>1 DEF ShownAs
    <3>3. j # i
      BY <1>5, <3>1
    <3>4. Declared[j].label # Declared[i].label
      BY <3>3 DEF NamedOnce
    <3> QED BY <1>5, <3>2, <3>4
  <2> QED BY <1>5, <2>1 DEF ShownAs
<1> QED BY <1>2, <1>3, <1>4, <1>5

(* The rows of a logger that its author has accepted.                      *)
LEMMA LoggerWorks == LadderInv /\ ProducersTypeOK => AcceptedLoggerWorks
<1> SUFFICES ASSUME LadderInv, ProducersTypeOK PROVE AcceptedLoggerWorks
  OBVIOUS
<1>1. ProducersKeepTheirNames
  BY NamesAreKept
<1>2. ServerHasItsPort
  BY ServerIsAlone
<1>3. LadderNeverStepsBack
  BY DEF LadderInv
<1>4. LostIsRetried
  BY LadderRetries
<1> QED BY <1>1, <1>2, <1>3, <1>4 DEF AcceptedLoggerWorks

-----------------------------------------------------------------------------
(* The theorems.  A rule and a node of the gateway are the author's until  *)
(* the rule runs; the running rule leaves the node alone.                  *)
GatewayInv == RunningInv /\ NodeTypeOK

(* A rule and a node that nobody has written on yet have it.               *)
LEMMA GatewayStarts == GatewayInit => GatewayInv
<1> SUFFICES ASSUME GatewayInit PROVE GatewayInv
  OBVIOUS
<1>1. RuleTypeOK
  BY InitRule DEF GatewayInit
<1>2. RunningOk
  BY DEF GatewayInit, RunningOk
<1> QED BY <1>1, <1>2, InitNode DEF GatewayInv, RunningInv

(* The author writes on the rule while it does not run.                    *)
LEMMA WritingKeepsGateway ==
    GatewayInv /\ live = <<>> /\ RuleNext /\ UNCHANGED <<node, live, said, played>> => GatewayInv'
BY WritingRuns, RestKeepsNode DEF GatewayInv

(* What the running rule is told does not reach the node.                  *)
LEMMA RunningKeepsGateway == GatewayInv /\ RuleActions => GatewayInv'
<1>1. Boot => node' = node
  BY DEF Boot
<1>2. \A i, v : SetPatchByte(i, v) => node' = node
  BY DEF SetPatchByte
<1>3. \A id : SetPatchId(id) => node' = node
  BY DEF SetPatchId
<1>4. \A s, raw : SetSignal(s, raw) => node' = node
  BY DEF SetSignal
<1>5. RuleActions => node' = node
  BY <1>1, <1>2, <1>3, <1>4 DEF RuleActions
<1> QED BY <1>5, ActionsRun, RestKeepsNode DEF GatewayInv

(* The author of a node leaves the rule alone.                             *)
LEMMA AssemblingKeepsGateway == GatewayInv /\ Assemble => GatewayInv'
<1>1. Assemble => rule' = rule /\ live' = live /\ said' = said
  BY DEF Assemble, AddPort, AddRoute, AddCyclic, AddSend, AddSensor, AddSwitch, AddLoad, Add
<1> QED BY <1>1, RestRuns, AuthorKeepsNode DEF GatewayInv

(* A step of anything else keeps the gateway.                              *)
LEMMA RestKeepsGateway == GatewayInv /\ UNCHANGED gatewayVars => GatewayInv'
BY RestRuns, RestKeepsNode DEF GatewayInv, gatewayVars

(* What the invariant gives of it.                                         *)
LEMMA GatewayWorks == GatewayInv => AcceptedGatewayWorks
BY RuleWorks, RunningKeepsBits, NodeIsReady, SensorsRead
   DEF GatewayInv, RunningInv, AcceptedGatewayWorks

(* An accepted gateway configuration works, whatever its author goes on to *)
(* write and whatever the running rule is told                             *)
(* (components/can_gateway/__init__.py, gateway_core.h:586-1017).          *)
THEOREM AcceptedGatewayRuns == GatewaySpec => []AcceptedGatewayWorks
<1>1. GatewayInv /\ [GatewayNext]_gatewayVars => GatewayInv'
  BY WritingKeepsGateway, RunningKeepsGateway, AssemblingKeepsGateway, RestKeepsGateway
     DEF GatewayNext
<1> QED BY <1>1, GatewayStarts, GatewayWorks, PTL DEF GatewaySpec

(* The invariant of the whole: the gateway's and the logger's.             *)
ConfigInv == GatewayInv /\ LadderInv /\ ProducersTypeOK

(* The lost card and the recovery of it leave the configuration alone.     *)
LEMMA RunningKeepsLogger ==
    LadderInv /\ ProducersTypeOK /\ RunLogger => LadderInv' /\ ProducersTypeOK'
<1>1. RunLogger => sdl' = sdl
  BY DEF RunLogger, StartLogger, LoseFile, PassTime, AttemptRecovery, StopLogger
<1>2. LadderInv /\ RunLogger => LadderInv'
  BY StartKeepsLadder, LosingKeepsLadder, TimeKeepsLadder, AttemptKeepsLadder, StoppingKeepsLadder
     DEF RunLogger
<1> QED BY <1>1, <1>2, RestKeepsProducers

(* The other parts do not touch the logger.                                *)
LEMMA RestKeepsLogger ==
    LadderInv /\ ProducersTypeOK /\ UNCHANGED loggerConfigVars => LadderInv' /\ ProducersTypeOK'
BY StutterKeepsLadder, RestKeepsProducers DEF loggerConfigVars

(* One part of the tool chain runs at a time, and leaves the others alone. *)
LEMMA ConfigStep == ConfigInv /\ [ConfigNext]_configVars => ConfigInv'
<1> SUFFICES ASSUME ConfigInv, [ConfigNext]_configVars PROVE ConfigInv'
  OBVIOUS
<1>1. CASE UNCHANGED gatewayVars /\ UNCHANGED loggerConfigVars
  BY <1>1, RestKeepsGateway, RestKeepsLogger DEF ConfigInv
<1>2. CASE /\ UNCHANGED loggerConfigVars
           /\ \/ live = <<>> /\ RuleNext /\ UNCHANGED <<node, live, said, played>>
              \/ RuleActions
              \/ Assemble
  BY <1>2, WritingKeepsGateway, RunningKeepsGateway, AssemblingKeepsGateway, RestKeepsLogger
     DEF ConfigInv
<1>3. CASE UNCHANGED gatewayVars /\ (Configure \/ RunLogger)
  BY <1>3, RestKeepsGateway, AuthorKeepsLadder, AuthorKeepsProducers, RunningKeepsLogger
     DEF ConfigInv
<1>4. CASE UNCHANGED configVars
  BY <1>1, <1>4 DEF configVars
<1> QED BY <1>1, <1>2, <1>3, <1>4 DEF ConfigNext, Format, Compiler, Gateway, Logger, Log

(* A configuration the validation accepts does on the device what it says, *)
(* for every chip, port, rule, node, producer and recovery block: the      *)
(* states of the gateway's and the logger's validation, code generation    *)
(* and firmware (components/can_gateway and components/sd_logger).         *)
THEOREM AcceptedConfigurationWorks == ConfigSpec => []AcceptedConfigWorks
<1>1. ConfigInit => ConfigInv
  BY GatewayStarts, InitLadder, InitProducers DEF ConfigInit, ConfigInv
<1>2. ConfigInv => AcceptedConfigWorks
  BY GatewayWorks, LoggerWorks DEF ConfigInv, AcceptedConfigWorks
<1> QED BY <1>1, <1>2, ConfigStep, PTL DEF ConfigSpec

-----------------------------------------------------------------------------
(* The compiler of catalogs.  Lists built element by element: what a list  *)
(* is cut down to after i elements is FilterEq's P[i].                     *)
FilterEq(P, s, K) ==
    P = [i \in 0 .. Len(s) |->
            IF i = 0 THEN <<>> ELSE IF s[i] \in K THEN Append(P[i - 1], s[i]) ELSE P[i - 1]]

(* A function may be defined by recursion up to n.                         *)
LEMMA RecursionUpTo ==
    ASSUME NEW V, NEW v0 \in V, NEW n \in Nat, NEW step,
           \A i \in 0 .. n - 1, v \in V : step[<<i, v>>] \in V
    PROVE  \E f : Recursive(f, V, v0, step, n)
<1> DEFINE more == [x \in Nat \X V |-> IF x[1] \in 0 .. n - 1 THEN step[<<x[1], x[2]>>] ELSE v0]
<1>1. more \in [Nat \X V -> V]
  OBVIOUS
<1>2. ASSUME NEW i \in 0 .. n - 1, NEW v \in V PROVE more[<<i, v>>] = step[<<i, v>>]
  <2>1. <<i, v>> \in Nat \X V
    OBVIOUS
  <2> QED BY <2>1
<1> HIDE DEF more
<1>3. PICK f : Recursive(f, V, v0, more, n)
  BY <1>1, RecursionExists
<1>4. f \in [0 .. n -> V] /\ f[0] = v0
  BY <1>3 DEF Recursive
<1>5. ASSUME NEW i \in 0 .. n - 1 PROVE f[i + 1] = step[<<i, f[i]>>]
  <2>1. i \in 0 .. n /\ f[i] \in V
    BY <1>4
  <2>2. f[i + 1] = more[<<i, f[i]>>]
    BY <1>3 DEF Recursive
  <2> QED BY <1>2, <2>1, <2>2
<1> QED BY <1>4, <1>5 DEF Recursive

(* A list can be cut down, and each step leaves a list.                    *)
LEMMA FilterExists ==
    ASSUME NEW S, NEW s \in Seq(S), NEW K
    PROVE  \E P : FilterEq(P, s, K)
<1> DEFINE n == Len(s)
           V == Seq(S)
           empty == <<>>
           step == [x \in (0 .. n - 1) \X V |->
                       IF s[x[1] + 1] \in K THEN Append(x[2], s[x[1] + 1]) ELSE x[2]]
<1>1. n \in Nat /\ \A i \in 1 .. n : s[i] \in S
  OBVIOUS
<1>2. ASSUME NEW i \in 0 .. n - 1, NEW v \in V
      PROVE  /\ step[<<i, v>>] = IF s[i + 1] \in K THEN Append(v, s[i + 1]) ELSE v
             /\ step[<<i, v>>] \in V
  <2>1. <<i, v>> \in (0 .. n - 1) \X V
    OBVIOUS
  <2>2. step[<<i, v>>] = IF s[i + 1] \in K THEN Append(v, s[i + 1]) ELSE v
    <3> HIDE DEF n, V
    <3> QED BY <2>1
  <2>3. s[i + 1] \in S
    BY <1>1
  <2>4. Append(v, s[i + 1]) \in V
    BY <2>3, AppendProperties
  <2> HIDE DEF step, V
  <2> QED BY <2>2, <2>4
<1>3. empty \in V
  OBVIOUS
<1> HIDE DEF step, V, n, empty
<1>4. \A i \in 0 .. n - 1, v \in V : step[<<i, v>>] \in V
  BY <1>2
<1>5. PICK f : Recursive(f, V, empty, step, n)
  BY <1>1, <1>3, <1>4, RecursionUpTo
<1>6. ASSUME NEW i \in 0 .. n
      PROVE  f[i] = IF i = 0 THEN <<>> ELSE IF s[i] \in K THEN Append(f[i - 1], s[i]) ELSE f[i - 1]
  <2>1. CASE i = 0
    BY <1>5, <2>1 DEF empty, Recursive
  <2>2. CASE i # 0
    <3>1. i - 1 \in 0 .. n - 1 /\ i - 1 \in 0 .. n /\ (i - 1) + 1 = i
      BY <1>1, <2>2
    <3>2. f[(i - 1) + 1] = step[<<i - 1, f[i - 1]>>] /\ f[i - 1] \in V
      BY <1>5, <3>1 DEF Recursive
    <3>3. step[<<i - 1, f[i - 1]>>]
             = IF s[(i - 1) + 1] \in K THEN Append(f[i - 1], s[(i - 1) + 1]) ELSE f[i - 1]
      BY <1>2, <3>1, <3>2
    <3> QED BY <2>2, <3>1, <3>2, <3>3
  <2> QED BY <2>1, <2>2
<1>7. f = [i \in 0 .. n |->
             IF i = 0 THEN <<>> ELSE IF s[i] \in K THEN Append(f[i - 1], s[i]) ELSE f[i - 1]]
  <2>1. f \in [0 .. n -> V]
    BY <1>5 DEF Recursive
  <2>2. f = [i \in 0 .. n |-> f[i]]
    BY <2>1
  <2>3. [i \in 0 .. n |-> f[i]]
          = [i \in 0 .. n |->
               IF i = 0 THEN <<>> ELSE IF s[i] \in K THEN Append(f[i - 1], s[i]) ELSE f[i - 1]]
    BY <1>6
  <2> QED BY <2>2, <2>3
<1>8. FilterEq(f, s, K)
  BY <1>7 DEF FilterEq, n
<1> QED BY <1>8

(* What it is after each element.                                          *)
LEMMA FilterSteps ==
    ASSUME NEW S, NEW s \in Seq(S), NEW K, NEW P, FilterEq(P, s, K)
    PROVE  /\ P[0] = <<>> /\ \A i \in 0 .. Len(s) : P[i] \in Seq(S)
           /\ \A i \in 0 .. Len(s) - 1 :
                 P[i + 1] = IF s[i + 1] \in K THEN Append(P[i], s[i + 1]) ELSE P[i]
<1> DEFINE n == Len(s)
<1>1. n \in Nat /\ \A i \in 1 .. n : s[i] \in S
  OBVIOUS
<1>2. \A i \in 0 .. n :
         P[i] = IF i = 0 THEN <<>> ELSE IF s[i] \in K THEN Append(P[i - 1], s[i]) ELSE P[i - 1]
  BY DEF FilterEq
<1> HIDE DEF n
<1>3. P[0] = <<>>
  <2>1. 0 \in 0 .. n
    BY <1>1
  <2> QED BY <1>2, <2>1
<1>4. ASSUME NEW i \in 0 .. n - 1
      PROVE  P[i + 1] = IF s[i + 1] \in K THEN Append(P[i], s[i + 1]) ELSE P[i]
  <2>1. i + 1 \in 0 .. n /\ i + 1 # 0 /\ (i + 1) - 1 = i
    BY <1>1
  <2>2. P[i + 1] = IF i + 1 = 0 THEN <<>>
                   ELSE IF s[i + 1] \in K THEN Append(P[(i + 1) - 1], s[i + 1]) ELSE P[(i + 1) - 1]
    BY <1>2, <2>1
  <2> QED BY <2>1, <2>2
<1> DEFINE T == {i \in Nat : i <= n => P[i] \in Seq(S)}
<1>5. 0 \in T
  <2>1. <<>> \in Seq(S)
    OBVIOUS
  <2> QED BY <1>3, <2>1
<1>6. ASSUME NEW i \in Nat, i \in T PROVE i + 1 \in T
  <2>1. SUFFICES ASSUME i + 1 <= n PROVE P[i + 1] \in Seq(S)
    OBVIOUS
  <2>2. i \in 0 .. n - 1 /\ P[i] \in Seq(S) /\ s[i + 1] \in S
    BY <1>1, <1>6, <2>1
  <2>3. Append(P[i], s[i + 1]) \in Seq(S)
    BY <2>2, AppendProperties
  <2> QED BY <1>4, <2>2, <2>3
<1> HIDE DEF T
<1>7. Nat \subseteq T
  BY <1>5, <1>6, Induction
<1>8. \A i \in 0 .. n : P[i] \in Seq(S)
  BY <1>1, <1>7 DEF T
<1> QED BY <1>3, <1>4, <1>8 DEF n

(* What is left of the fields: the list is the one FilterEq describes.     *)
LEMMA BuiltIs ==
    ASSUME NEW S, NEW ps \in Seq(S)
    PROVE  Built(ps) \in Seq(S)
<1> DEFINE n == Len(ps)
           K == {x \in S : Fits(x)}
           Rule(P) == P = [i \in 0 .. n |->
                              IF i = 0 THEN <<>>
                              ELSE IF Fits(ps[i]) THEN Append(P[i - 1], ps[i]) ELSE P[i - 1]]
           chosen == CHOOSE P : Rule(P)
<1>1. n \in Nat /\ \A i \in 1 .. n : ps[i] \in S
  OBVIOUS
<1>2. ASSUME NEW i \in 0 .. n, i # 0 PROVE (ps[i] \in K) = Fits(ps[i])
  <2>1. i \in 1 .. n
    BY <1>1, <1>2
  <2> QED BY <1>1, <2>1 DEF Fits
<1> HIDE DEF K
<1>3. ASSUME NEW P PROVE FilterEq(P, ps, K) = Rule(P)
  <2>1. [i \in 0 .. n |->
           IF i = 0 THEN <<>> ELSE IF ps[i] \in K THEN Append(P[i - 1], ps[i]) ELSE P[i - 1]]
          = [i \in 0 .. n |->
               IF i = 0 THEN <<>>
               ELSE IF Fits(ps[i]) THEN Append(P[i - 1], ps[i]) ELSE P[i - 1]]
    BY <1>2
  <2> QED BY <2>1 DEF FilterEq
<1>4. PICK P : FilterEq(P, ps, K)
  BY FilterExists
<1>5. Rule(P)
  BY <1>3, <1>4, Zenon
<1>6. Built(ps) = chosen[n]
  BY DEF Built, Only
<1> HIDE DEF Rule
<1>7. Rule(chosen)
  BY <1>5
<1> HIDE DEF chosen
<1>8. FilterEq(chosen, ps, K)
  BY <1>3, <1>7, Zenon
<1>9. \A i \in 0 .. n : chosen[i] \in Seq(S)
  BY <1>8, FilterSteps
<1> QED BY <1>1, <1>6, <1>9

(* How many there are up to n.                                             *)
LEMMA CountTo == ASSUME NEW n \in Nat PROVE IsFiniteSet(1 .. n) /\ Cardinality(1 .. n) = n
<1>1. 1 \in Int /\ n \in Int
  OBVIOUS
<1>2. IsFiniteSet(1 .. n) /\ Cardinality(1 .. n) = IF 1 > n THEN 0 ELSE n - 1 + 1
  BY <1>1, FS_Interval, Zenon
<1> DEFINE c == Cardinality(1 .. n)
<1>3. c = IF 1 > n THEN 0 ELSE n - 1 + 1
  BY <1>2
<1> HIDE DEF c
<1>4. c = n
  BY <1>3
<1> QED BY <1>2, <1>4 DEF c

(* A field put among the others.                                           *)
LEMMA InsertIs ==
    ASSUME NEW S, NEW done \in Seq(S), NEW p \in S
    PROVE  Insert(done, p) \in Seq(S)
<1> DEFINE below == {i \in DOMAIN done : done[i].pos <= p.pos}
           c == Cardinality(below)
           n == Len(done)
           left == SubSeq(done, 1, (1 + c) - 1)
           right == SubSeq(done, 1 + c, n)
<1>1. n \in Nat /\ DOMAIN done = 1 .. n /\ \A i \in 1 .. n : done[i] \in S
  OBVIOUS
<1>2. IsFiniteSet(1 .. n) /\ Cardinality(1 .. n) = n
  BY <1>1, CountTo
<1>3. below \in SUBSET (1 .. n)
  BY <1>1
<1>4. c \in Nat /\ c <= n
  BY <1>2, <1>3, FS_Subset, FS_CardinalityType
<1> HIDE DEF below, c
<1>5. left \in Seq(S)
  <2>1. \A i \in 1 .. (1 + c) - 1 : done[i] \in S
    BY <1>1, <1>4
  <2>2. (1 + c) - 1 \in Int
    BY <1>4
  <2> QED BY <2>1, <2>2, SubSeqProperties
<1>6. right \in Seq(S)
  <2>1. \A i \in 1 + c .. n : done[i] \in S
    BY <1>1, <1>4
  <2>2. 1 + c \in Int /\ n \in Int
    BY <1>1, <1>4
  <2> QED BY <2>1, <2>2, SubSeqProperties
<1>7. Insert(done, p) = left \o <<p>> \o right
  BY DEF Insert, InsertAt, c, below
<1> HIDE DEF left, right
<1>8. <<p>> \in Seq(S)
  OBVIOUS
<1>9. left \o <<p>> \in Seq(S)
  BY <1>5, <1>8, ConcatProperties
<1>10. (left \o <<p>>) \o right \in Seq(S)
  BY <1>6, <1>9, ConcatProperties
<1> QED BY <1>7, <1>10

(* The fields in order.                                                    *)
LEMMA ByPositionIs ==
    ASSUME NEW S, NEW ps \in Seq(S)
    PROVE  ByPosition(ps) \in Seq(S)
<1> DEFINE n == Len(ps)
           V == Seq(S)
           empty == <<>>
           step == [x \in (0 .. n - 1) \X V |-> Insert(x[2], ps[x[1] + 1])]
           Rule(f) == f = [i \in 0 .. n |-> IF i = 0 THEN <<>> ELSE Insert(f[i - 1], ps[i])]
           chosen == CHOOSE f : Rule(f)
<1>1. n \in Nat /\ \A i \in 1 .. n : ps[i] \in S
  OBVIOUS
<1>2. empty \in V
  OBVIOUS
<1> HIDE DEF n
<1>3. ASSUME NEW i \in 0 .. n - 1, NEW v \in V
      PROVE  step[<<i, v>>] = Insert(v, ps[i + 1]) /\ step[<<i, v>>] \in V
  <2>1. <<i, v>> \in (0 .. n - 1) \X V
    OBVIOUS
  <2>2. i + 1 \in 1 .. n
    BY <1>1
  <2>3. Insert(v, ps[i + 1]) \in V
    BY <1>1, <2>2, InsertIs
  <2> HIDE DEF V
  <2>4. step[<<i, v>>] = Insert(v, ps[i + 1])
    BY <2>1
  <2> QED BY <2>3, <2>4
<1>4. \A i \in 0 .. n - 1, v \in V : step[<<i, v>>] \in V
  BY <1>3
<1> HIDE DEF step, V, empty
<1>5. PICK f : Recursive(f, V, empty, step, n)
  BY <1>1, <1>2, <1>4, RecursionUpTo
<1>6. Rule(f)
  <2>1. f \in [0 .. n -> V] /\ f[0] = empty
    BY <1>5 DEF Recursive
  <2>2. ASSUME NEW i \in 0 .. n
        PROVE  f[i] = IF i = 0 THEN <<>> ELSE Insert(f[i - 1], ps[i])
    <3>1. CASE i = 0
      BY <2>1, <3>1 DEF empty
    <3>2. CASE i # 0
      <4>1. i - 1 \in 0 .. n - 1 /\ i - 1 \in 0 .. n /\ (i - 1) + 1 = i
        BY <1>1, <3>2
      <4>2. f[(i - 1) + 1] = step[<<i - 1, f[i - 1]>>] /\ f[i - 1] \in V
        BY <1>5, <2>1, <4>1 DEF Recursive
      <4>3. step[<<i - 1, f[i - 1]>>] = Insert(f[i - 1], ps[(i - 1) + 1])
        BY <1>3, <4>1, <4>2
      <4> QED BY <3>2, <4>1, <4>2, <4>3
    <3> QED BY <3>1, <3>2
  <2>3. f = [i \in 0 .. n |-> f[i]]
    BY <2>1
  <2>4. [i \in 0 .. n |-> f[i]]
          = [i \in 0 .. n |-> IF i = 0 THEN <<>> ELSE Insert(f[i - 1], ps[i])]
    BY <2>2
  <2> QED BY <2>3, <2>4
<1>7. ByPosition(ps) = chosen[n]
  BY DEF ByPosition, n
<1> HIDE DEF Rule
<1>8. Rule(chosen)
  BY <1>6
<1> HIDE DEF chosen
<1>9. \A i \in 0 .. n : chosen[i] = IF i = 0 THEN <<>> ELSE Insert(chosen[i - 1], ps[i])
  BY <1>8 DEF Rule
<1> DEFINE T == {i \in Nat : i <= n => chosen[i] \in Seq(S)}
<1>10. 0 \in T
  <2>1. 0 \in 0 .. n
    BY <1>1
  <2>2. chosen[0] = empty
    BY <1>9, <2>1 DEF empty
  <2> QED BY <1>2, <2>2 DEF V
<1>11. ASSUME NEW i \in Nat, i \in T PROVE i + 1 \in T
  <2>1. SUFFICES ASSUME i + 1 <= n PROVE chosen[i + 1] \in Seq(S)
    OBVIOUS
  <2>2. i + 1 \in 0 .. n /\ i + 1 # 0 /\ (i + 1) - 1 = i /\ i + 1 \in 1 .. n /\ i <= n
    BY <1>1, <2>1
  <2>3. chosen[i + 1] = Insert(chosen[i], ps[i + 1])
    <3>1. chosen[i + 1] = IF i + 1 = 0 THEN <<>> ELSE Insert(chosen[(i + 1) - 1], ps[i + 1])
      BY <1>9, <2>2
    <3> QED BY <2>2, <3>1
  <2>4. chosen[i] \in Seq(S) /\ ps[i + 1] \in S
    BY <1>1, <1>11, <2>2
  <2>5. Insert(chosen[i], ps[i + 1]) \in Seq(S)
    BY <2>4, InsertIs
  <2> QED BY <2>3, <2>5
<1> HIDE DEF T
<1>12. Nat \subseteq T
  BY <1>10, <1>11, Induction
<1>13. chosen[n] \in Seq(S)
  <2>1. n \in T /\ n <= n
    BY <1>1, <1>12
  <2> QED BY <2>1 DEF T
<1> QED BY <1>7, <1>13

-----------------------------------------------------------------------------
(* Conversion rows: what the database says a row holds, and what its       *)
(* compiled form holds.                                                    *)
RowHolds(r, raw) == NoBounds(r) \/ (Unsigned(r.low) <= raw /\ raw <= Unsigned(r.high))
ScaleHolds(r, raw) == Scale(r).low <= raw /\ raw <= Scale(r).high

(* An unsigned bound written as a signed one.                              *)
LEMMA UnsignedIs ==
    ASSUME NEW b \in -(IMax + 1) .. IMax
    PROVE  Unsigned(b) = IF b >= 0 THEN b ELSE b + 2 * (IMax + 1)
<1> DEFINE n == 2 * (IMax + 1)
<1>1. IMax \in Nat
  BY CompilerAssumption
<1>2. n \in Nat \ {0} /\ b \in Int /\ 0 - n <= b /\ b < n
  BY <1>1
<1>3. Unsigned(b) = b % n
  BY DEF Unsigned
<1> HIDE DEF n
<1>4. b % n = IF b >= 0 THEN b ELSE b + n
  BY <1>2, ModNear
<1> QED BY <1>3, <1>4 DEF n

(* A scale is its row with other bounds.                                   *)
LEMMA ScaleIs ==
    ASSUME NEW r \in Rows
    PROVE  /\ Scale(r).low = IF NoBounds(r) THEN r.low ELSE Clamp(r.low)
           /\ Scale(r).high = IF NoBounds(r) THEN IMax ELSE Clamp(r.high)
           /\ Scale(r).invalid = r.invalid /\ Scale(r).value = r.value
<1> DEFINE B == -(IMax + 1) .. IMax
<1>1. r \in [low : B, high : B, text : STRING, invalid : BOOLEAN, value : Int]
  BY CompilerAssumption
<1> HIDE DEF B
<1> QED BY <1>1 DEF Scale

(* A row that is kept holds the same values as before, and one that is     *)
(* dropped held none, unless it straddles.                                 *)
LEMMA RowMeans ==
    ASSUME NEW r \in Rows, NEW raw \in 0 .. IMax - 1, ~Straddles(r)
    PROVE  IF Dropped(r) THEN ~RowHolds(r, raw) ELSE (ScaleHolds(r, raw) <=> RowHolds(r, raw))
<1> DEFINE B == -(IMax + 1) .. IMax
           low == r.low
           high == r.high
           ulow == Unsigned(low)
           uhigh == Unsigned(high)
<1>1. IMax \in Nat /\ low \in B /\ high \in B
  BY CompilerAssumption
<1>2. /\ ulow = IF low >= 0 THEN low ELSE low + 2 * (IMax + 1)
      /\ uhigh = IF high >= 0 THEN high ELSE high + 2 * (IMax + 1)
  BY <1>1, UnsignedIs
<1>3. CASE NoBounds(r)
  <2>1. ~Dropped(r) /\ low = 0
    BY <1>3 DEF Dropped, NoBounds
  <2>2. Scale(r).low = 0 /\ Scale(r).high = IMax
    BY <1>3, <2>1, ScaleIs
  <2>3. ScaleHolds(r, raw)
    BY <1>1, <2>2 DEF ScaleHolds
  <2> QED BY <1>3, <2>1, <2>3 DEF RowHolds
<1>4. CASE ~NoBounds(r)
  <2>1. Dropped(r) <=> (Unfit(r) /\ r.text # "")
    BY <1>4 DEF Dropped
  <2>2. RowHolds(r, raw) <=> (ulow <= raw /\ raw <= uhigh)
    BY <1>4 DEF RowHolds
  <2>3. Unfit(r) <=> (low < 0 \/ high < 0)
    BY DEF Unfit
  <2>4. CASE Dropped(r)
    <3>1. ~(ulow <= IMax)
      BY <2>4 DEF Straddles
    <3> HIDE DEF low, high, ulow, uhigh
    <3>2. ~(ulow <= raw)
      BY <1>1, <1>2, <3>1
    <3> QED BY <2>2, <2>4, <3>2
  <2>5. CASE ~Dropped(r)
    <3>1. ScaleHolds(r, raw) <=> (Clamp(low) <= raw /\ raw <= Clamp(high))
      BY <1>4, ScaleIs DEF ScaleHolds
    <3>2. /\ Clamp(low) = IF low >= 0 THEN low ELSE IF ulow > IMax THEN IMax ELSE ulow
          /\ Clamp(high) = IF high >= 0 THEN high ELSE IF uhigh > IMax THEN IMax ELSE uhigh
      BY DEF Clamp
    <3> HIDE DEF low, high, ulow, uhigh
    <3>3. Clamp(low) <= raw <=> ulow <= raw
      BY <1>1, <1>2, <3>2
    <3>4. raw <= Clamp(high) <=> raw <= uhigh
      BY <1>1, <1>2, <3>2
    <3> QED BY <2>2, <2>5, <3>1, <3>3, <3>4
  <2> QED BY <2>4, <2>5
<1> QED BY <1>3, <1>4

(* The rows kept of the first i decide a raw value as those i rows do: both*)
(* hold it nowhere, or first in the same row.                              *)
Agree(q, t, i, raw) ==
    \/ /\ \A m \in 1 .. Len(q) : ~ScaleHolds(q[m], raw)
       /\ \A k \in 1 .. i : ~RowHolds(t[k], raw)
    \/ \E k \in 1 .. i, m \in 1 .. Len(q) :
          /\ q[m] = t[k] /\ RowHolds(t[k], raw) /\ ScaleHolds(q[m], raw)
          /\ \A j \in 1 .. k - 1 : ~RowHolds(t[j], raw)
          /\ \A j \in 1 .. m - 1 : ~ScaleHolds(q[j], raw)

(* They go on to agree with one row more.                                  *)
LEMMA AgreeOnOneMore ==
    ASSUME NEW t \in Seq(Rows), NEW raw \in 0 .. IMax - 1, NEW i \in 0 .. Len(t) - 1,
           NEW q \in Seq(Rows), Agree(q, t, i, raw), ~Straddles(t[i + 1])
    PROVE  Agree(IF ~Dropped(t[i + 1]) THEN Append(q, t[i + 1]) ELSE q, t, i + 1, raw)
<1> DEFINE r == t[i + 1]
           n == Len(q)
           q2 == IF ~Dropped(r) THEN Append(q, r) ELSE q
<1>1. Len(t) \in Nat /\ n \in Nat /\ \A j \in 1 .. Len(t) : t[j] \in Rows
  OBVIOUS
<1>2. r \in Rows /\ i \in Nat /\ i + 1 \in 1 .. i + 1
  BY <1>1
<1>3. IF Dropped(r) THEN ~RowHolds(r, raw) ELSE (ScaleHolds(r, raw) <=> RowHolds(r, raw))
  BY <1>2, RowMeans
<1>4. ~Dropped(r) => /\ Len(q2) = n + 1 /\ q2[n + 1] = r
                     /\ \A m \in 1 .. n : q2[m] = q[m]
  BY <1>2, AppendProperties
<1>5. Dropped(r) => q2 = q
  OBVIOUS
<1> HIDE DEF q2
<1>6. /\ n <= Len(q2) /\ Len(q2) \in Nat
      /\ \A m \in 1 .. n : q2[m] = q[m]
  BY <1>1, <1>4, <1>5
<1>7. CASE \E k \in 1 .. i, m \in 1 .. n :
              /\ q[m] = t[k] /\ RowHolds(t[k], raw) /\ ScaleHolds(q[m], raw)
              /\ \A j \in 1 .. k - 1 : ~RowHolds(t[j], raw)
              /\ \A j \in 1 .. m - 1 : ~ScaleHolds(q[j], raw)
  <2>1. PICK k \in 1 .. i, m \in 1 .. n :
              /\ q[m] = t[k] /\ RowHolds(t[k], raw) /\ ScaleHolds(q[m], raw)
              /\ \A j \in 1 .. k - 1 : ~RowHolds(t[j], raw)
              /\ \A j \in 1 .. m - 1 : ~ScaleHolds(q[j], raw)
    BY <1>7
  <2> HIDE DEF n, r
  <2>2. k \in 1 .. i + 1 /\ m \in 1 .. Len(q2)
    BY <1>1, <1>2, <1>6
  <2>3. q2[m] = q[m]
    BY <1>6
  <2>4. \A j \in 1 .. m - 1 : ~ScaleHolds(q2[j], raw)
    <3>1. \A j \in 1 .. m - 1 : q2[j] = q[j]
      BY <1>1, <1>6
    <3> QED BY <2>1, <3>1
  <2>5. Agree(q2, t, i + 1, raw)
    BY <2>1, <2>2, <2>3, <2>4 DEF Agree
  <2> QED BY <2>5 DEF q2, r
<1>8. CASE /\ \A m \in 1 .. n : ~ScaleHolds(q[m], raw)
           /\ \A k \in 1 .. i : ~RowHolds(t[k], raw)
  <2> HIDE DEF n
  <2>1. \A m \in 1 .. n : ~ScaleHolds(q2[m], raw)
    BY <1>6, <1>8
  <2>2. CASE RowHolds(r, raw)
    <3>1. Len(q2) = n + 1 /\ q2[n + 1] = r /\ ScaleHolds(r, raw)
      BY <1>3, <1>4, <2>2
    <3>2. n + 1 \in 1 .. Len(q2)
      BY <1>1, <3>1
    <3>3. \A j \in 1 .. (i + 1) - 1 : ~RowHolds(t[j], raw)
      BY <1>2, <1>8
    <3>4. \A j \in 1 .. (n + 1) - 1 : ~ScaleHolds(q2[j], raw)
      BY <1>1, <2>1
    <3>5. Agree(q2, t, i + 1, raw)
      BY <1>2, <2>2, <3>1, <3>2, <3>3, <3>4 DEF Agree
    <3> QED BY <3>5 DEF q2, r
  <2>3. CASE ~RowHolds(r, raw)
    <3>1. \A k \in 1 .. i + 1 : ~RowHolds(t[k], raw)
      <4>1. \A k \in 1 .. i + 1 : k \in 1 .. i \/ k = i + 1
        BY <1>2
      <4> QED BY <1>8, <2>3, <4>1
    <3>2. \A m \in 1 .. Len(q2) : ~ScaleHolds(q2[m], raw)
      <4>1. CASE Dropped(r)
        BY <1>5, <1>8, <4>1 DEF n
      <4>2. CASE ~Dropped(r)
        <5>1. Len(q2) = n + 1 /\ q2[n + 1] = r /\ ~ScaleHolds(r, raw)
          BY <1>3, <1>4, <2>3, <4>2
        <5>2. \A m \in 1 .. Len(q2) : m \in 1 .. n \/ m = n + 1
          BY <1>1, <5>1
        <5> QED BY <2>1, <5>1, <5>2
      <4> QED BY <4>1, <4>2
    <3>3. Agree(q2, t, i + 1, raw)
      BY <3>1, <3>2 DEF Agree
    <3> QED BY <3>3 DEF q2, r
  <2> QED BY <2>2, <2>3
<1> QED BY <1>7, <1>8 DEF Agree

(* The row that decides.                                                   *)
LEMMA FirstIs ==
    ASSUME NEW H, H \subseteq Nat, NEW k \in H, \A j \in H : k <= j
    PROVE  (CHOOSE i \in H : \A j \in H : i <= j) = k
<1> DEFINE c == CHOOSE i \in H : \A j \in H : i <= j
<1>1. c \in H /\ \A j \in H : c <= j
  OBVIOUS
<1> HIDE DEF c
<1>2. c <= k /\ k <= c /\ c \in Nat /\ k \in Nat
  BY <1>1
<1>3. c = k
  BY <1>2
<1> QED BY <1>3 DEF c

(* What a table of scales, and one of rows, make of a raw value.           *)
LEMMA EvaluateIs ==
    ASSUME NEW q \in Seq(Rows), NEW raw, NEW u,
           u = [i \in DOMAIN q |-> Scale(q[i])]
    PROVE  /\ (\A m \in 1 .. Len(q) : ~ScaleHolds(q[m], raw)) => Evaluate(u, raw) = 0
           /\ \A m \in 1 .. Len(q) :
                 ScaleHolds(q[m], raw) /\ (\A j \in 1 .. m - 1 : ~ScaleHolds(q[j], raw))
                    => Evaluate(u, raw) = IF q[m].invalid THEN 0 ELSE q[m].value
<1> DEFINE n == Len(q)
           hits == {i \in DOMAIN u : u[i].low <= raw /\ raw <= u[i].high}
           at == CHOOSE i \in hits : \A j \in hits : i <= j
<1>1. n \in Nat /\ DOMAIN u = 1 .. n /\ \A i \in 1 .. n : u[i] = Scale(q[i]) /\ q[i] \in Rows
  OBVIOUS
<1>2. Evaluate(u, raw)
        = IF hits = {} THEN 0 ELSE IF u[at].invalid THEN 0 ELSE u[at].value
  BY DEF Evaluate, Decides
<1>3. hits = {i \in 1 .. n : ScaleHolds(q[i], raw)}
  BY <1>1 DEF ScaleHolds
<1> HIDE DEF hits, n
<1>4. ASSUME \A m \in 1 .. n : ~ScaleHolds(q[m], raw) PROVE Evaluate(u, raw) = 0
  <2>1. hits = {}
    BY <1>3, <1>4
  <2> QED BY <1>2, <2>1
<1>5. ASSUME NEW m \in 1 .. n, ScaleHolds(q[m], raw),
             \A j \in 1 .. m - 1 : ~ScaleHolds(q[j], raw)
      PROVE  Evaluate(u, raw) = IF q[m].invalid THEN 0 ELSE q[m].value
  <2>1. m \in hits /\ hits \subseteq Nat
    BY <1>1, <1>3, <1>5
  <2>2. \A j \in hits : m <= j
    <3>1. SUFFICES ASSUME NEW j \in hits, ~(m <= j) PROVE FALSE
      OBVIOUS
    <3>2. j \in 1 .. n /\ ScaleHolds(q[j], raw)
      BY <1>3
    <3>3. j \in 1 .. m - 1
      BY <1>1, <3>1, <3>2
    <3> QED BY <1>5, <3>2, <3>3
  <2>3. at = m
    BY <2>1, <2>2, FirstIs
  <2> HIDE DEF at
  <2>4. hits # {}
    BY <2>1
  <2>5. u[m] = Scale(q[m]) /\ q[m] \in Rows
    BY <1>1
  <2>6. u[m].invalid = q[m].invalid /\ u[m].value = q[m].value
    BY <2>5, ScaleIs
  <2> QED BY <1>2, <2>3, <2>4, <2>6
<1> QED BY <1>4, <1>5 DEF n

(* The same for the rows.                                                  *)
LEMMA MeaningIs ==
    ASSUME NEW t \in Seq(Rows), NEW raw
    PROVE  /\ (\A m \in 1 .. Len(t) : ~RowHolds(t[m], raw)) => Meaning(t, raw) = 0
           /\ \A m \in 1 .. Len(t) :
                 RowHolds(t[m], raw) /\ (\A j \in 1 .. m - 1 : ~RowHolds(t[j], raw))
                    => Meaning(t, raw) = IF t[m].invalid THEN 0 ELSE t[m].value
<1> DEFINE n == Len(t)
           hits == {i \in DOMAIN t :
                      NoBounds(t[i]) \/ (Unsigned(t[i].low) <= raw /\ raw <= Unsigned(t[i].high))}
           at == CHOOSE i \in hits : \A j \in hits : i <= j
<1>1. n \in Nat /\ DOMAIN t = 1 .. n
  OBVIOUS
<1>2. Meaning(t, raw)
        = IF hits = {} THEN 0 ELSE IF t[at].invalid THEN 0 ELSE t[at].value
  BY DEF Meaning, Decides
<1>3. hits = {i \in 1 .. n : RowHolds(t[i], raw)}
  BY <1>1 DEF RowHolds
<1> HIDE DEF hits, n
<1>4. ASSUME \A m \in 1 .. n : ~RowHolds(t[m], raw) PROVE Meaning(t, raw) = 0
  <2>1. hits = {}
    BY <1>3, <1>4
  <2> QED BY <1>2, <2>1
<1>5. ASSUME NEW m \in 1 .. n, RowHolds(t[m], raw),
             \A j \in 1 .. m - 1 : ~RowHolds(t[j], raw)
      PROVE  Meaning(t, raw) = IF t[m].invalid THEN 0 ELSE t[m].value
  <2>1. m \in hits /\ hits \subseteq Nat
    BY <1>1, <1>3, <1>5
  <2>2. \A j \in hits : m <= j
    <3>1. SUFFICES ASSUME NEW j \in hits, ~(m <= j) PROVE FALSE
      OBVIOUS
    <3>2. j \in 1 .. n /\ RowHolds(t[j], raw)
      BY <1>3
    <3>3. j \in 1 .. m - 1
      BY <1>1, <3>1, <3>2
    <3> QED BY <1>5, <3>2, <3>3
  <2>3. at = m
    BY <2>1, <2>2, FirstIs
  <2> HIDE DEF at
  <2>4. hits # {}
    BY <2>1
  <2> QED BY <1>2, <2>3, <2>4
<1> QED BY <1>4, <1>5 DEF n

(* What is kept of the rows, as FilterEq describes it.                     *)
LEMMA BuildScalesIs ==
    ASSUME NEW t \in Seq(Rows)
    PROVE  \E P : /\ FilterEq(P, t, {r \in Rows : ~Dropped(r)})
                  /\ BuildScales(t) = [i \in DOMAIN P[Len(t)] |-> Scale(P[Len(t)][i])]
<1> DEFINE n == Len(t)
           K == {r \in Rows : ~Dropped(r)}
           Rule(P) == P = [i \in 0 .. n |->
                              IF i = 0 THEN <<>>
                              ELSE IF ~Dropped(t[i]) THEN Append(P[i - 1], t[i]) ELSE P[i - 1]]
           chosen == CHOOSE P : Rule(P)
<1>1. n \in Nat /\ \A i \in 1 .. n : t[i] \in Rows
  OBVIOUS
<1>2. ASSUME NEW i \in 0 .. n, i # 0 PROVE (t[i] \in K) = (~Dropped(t[i]))
  <2>1. i \in 1 .. n
    BY <1>1, <1>2
  <2> QED BY <1>1, <2>1
<1> HIDE DEF K
<1>3. ASSUME NEW P PROVE FilterEq(P, t, K) = Rule(P)
  <2>1. [i \in 0 .. n |->
           IF i = 0 THEN <<>> ELSE IF t[i] \in K THEN Append(P[i - 1], t[i]) ELSE P[i - 1]]
          = [i \in 0 .. n |->
               IF i = 0 THEN <<>>
               ELSE IF ~Dropped(t[i]) THEN Append(P[i - 1], t[i]) ELSE P[i - 1]]
    BY <1>2
  <2> QED BY <2>1 DEF FilterEq
<1>4. PICK P : FilterEq(P, t, K)
  BY FilterExists
<1>5. Rule(P)
  BY <1>3, <1>4, Zenon
<1>6. BuildScales(t) = [i \in DOMAIN chosen[n] |-> Scale(chosen[n][i])]
  BY DEF BuildScales, Only
<1> HIDE DEF Rule
<1>7. Rule(chosen)
  BY <1>5
<1> HIDE DEF chosen
<1>8. FilterEq(chosen, t, K)
  BY <1>3, <1>7, Zenon
<1> QED BY <1>6, <1>8 DEF K, n

(* What is kept of a field's conversion still says what it said.           *)
LEMMA ConversionIsKept == ASSUME table \in Seq(Rows) PROVE DecodedAsDeclared
<1> SUFFICES ASSUME \A i \in DOMAIN table : ~Straddles(table[i]), NEW raw \in 0 .. IMax - 1
             PROVE  Evaluate(BuildScales(table), raw) = Meaning(table, raw)
  BY DEF DecodedAsDeclared
<1> DEFINE n == Len(table)
           K == {r \in Rows : ~Dropped(r)}
<1>1. n \in Nat /\ DOMAIN table = 1 .. n /\ \A i \in 1 .. n : table[i] \in Rows
  OBVIOUS
<1>2. PICK P : /\ FilterEq(P, table, K)
               /\ BuildScales(table) = [i \in DOMAIN P[n] |-> Scale(P[n][i])]
  BY BuildScalesIs
<1>3. /\ P[0] = <<>> /\ \A i \in 0 .. n : P[i] \in Seq(Rows)
      /\ \A i \in 0 .. n - 1 :
            P[i + 1] = IF table[i + 1] \in K THEN Append(P[i], table[i + 1]) ELSE P[i]
  BY <1>2, FilterSteps
<1> HIDE DEF n
<1> DEFINE T == {i \in Nat : i <= n => Agree(P[i], table, i, raw)}
<1>4. 0 \in T
  <2>1. Len(P[0]) = 0
    BY <1>3, EmptySeq
  <2>2. \A m \in 1 .. Len(P[0]) : ~ScaleHolds(P[0][m], raw)
    BY <2>1
  <2>3. Agree(P[0], table, 0, raw)
    BY <2>2 DEF Agree
  <2> QED BY <2>3
<1>5. ASSUME NEW i \in Nat, i \in T PROVE i + 1 \in T
  <2>1. SUFFICES ASSUME i + 1 <= n PROVE Agree(P[i + 1], table, i + 1, raw)
    OBVIOUS
  <2>2. i \in 0 .. n - 1 /\ i \in 0 .. n /\ i + 1 \in 1 .. n /\ Agree(P[i], table, i, raw)
    BY <1>1, <1>5, <2>1
  <2>3. P[i] \in Seq(Rows) /\ table[i + 1] \in Rows /\ ~Straddles(table[i + 1])
    BY <1>1, <1>3, <2>2
  <2>4. P[i + 1] = IF ~Dropped(table[i + 1]) THEN Append(P[i], table[i + 1]) ELSE P[i]
    BY <1>3, <2>2, <2>3
  <2>5. Agree(IF ~Dropped(table[i + 1]) THEN Append(P[i], table[i + 1]) ELSE P[i],
              table, i + 1, raw)
    BY <2>2, <2>3, AgreeOnOneMore DEF n
  <2> QED BY <2>4, <2>5
<1> HIDE DEF T
<1>6. Nat \subseteq T
  BY <1>4, <1>5, Induction
<1> DEFINE q == P[n]
           u == BuildScales(table)
<1>7. q \in Seq(Rows) /\ Agree(q, table, n, raw)
  <2>1. n \in T /\ n <= n /\ n \in 0 .. n
    BY <1>1, <1>6
  <2> QED BY <1>3, <2>1 DEF T
<1>8. u = [i \in DOMAIN q |-> Scale(q[i])]
  BY <1>2
<1> HIDE DEF q, u
<1>9. /\ (\A m \in 1 .. Len(q) : ~ScaleHolds(q[m], raw)) => Evaluate(u, raw) = 0
      /\ \A m \in 1 .. Len(q) :
            ScaleHolds(q[m], raw) /\ (\A j \in 1 .. m - 1 : ~ScaleHolds(q[j], raw))
               => Evaluate(u, raw) = IF q[m].invalid THEN 0 ELSE q[m].value
  BY <1>7, <1>8, EvaluateIs
<1>10. /\ (\A m \in 1 .. n : ~RowHolds(table[m], raw)) => Meaning(table, raw) = 0
       /\ \A m \in 1 .. n :
             RowHolds(table[m], raw) /\ (\A j \in 1 .. m - 1 : ~RowHolds(table[j], raw))
                => Meaning(table, raw) = IF table[m].invalid THEN 0 ELSE table[m].value
  BY MeaningIs DEF n
<1>11. Evaluate(u, raw) = Meaning(table, raw)
  <2> DEFINE Silent == /\ \A m \in 1 .. Len(q) : ~ScaleHolds(q[m], raw)
                       /\ \A k \in 1 .. n : ~RowHolds(table[k], raw)
  <2>1. CASE Silent
    BY <1>9, <1>10, <2>1
  <2>2. CASE ~Silent
    <3>1. PICK k \in 1 .. n, m \in 1 .. Len(q) :
             /\ q[m] = table[k] /\ RowHolds(table[k], raw) /\ ScaleHolds(q[m], raw)
             /\ \A j \in 1 .. k - 1 : ~RowHolds(table[j], raw)
             /\ \A j \in 1 .. m - 1 : ~ScaleHolds(q[j], raw)
      BY <1>7, <2>2 DEF Agree
    <3>2. Evaluate(u, raw) = IF q[m].invalid THEN 0 ELSE q[m].value
      BY <1>9, <3>1
    <3>3. Meaning(table, raw) = IF table[k].invalid THEN 0 ELSE table[k].value
      BY <1>10, <3>1
    <3> QED BY <3>1, <3>2, <3>3
  <2> QED BY <2>1, <2>2
<1> QED BY <1>11 DEF u

-----------------------------------------------------------------------------
(* Arrays.  A field of the group has a position and a width.               *)
Laid(S) == \A x \in S : x.pos \in Int /\ x.size \in Nat

(* A run ends behind its beginning and has only fields that go on with it. *)
LEMMA RunEndIs ==
    ASSUME NEW S, NEW fs \in Seq(S), NEW i \in 1 .. Len(fs)
    PROVE  RunEnd(fs, i) \in i .. Len(fs) /\ \A j \in i + 1 .. RunEnd(fs, i) : Continues(fs, i, j)
<1> DEFINE n == Len(fs)
           T == {e \in i .. n : \A j \in i + 1 .. e : Continues(fs, i, j)}
           m == Max(T)
<1>1. n \in Nat
  OBVIOUS
<1> HIDE DEF n
<1>2. i \in 1 .. n
  BY DEF n
<1>3. i \in T
  BY <1>1, <1>2
<1>4. T \subseteq 0 .. n /\ T # {}
  <2>1. i .. n \subseteq 0 .. n
    BY <1>1, <1>2
  <2>2. T \subseteq i .. n
    OBVIOUS
  <2> HIDE DEF T
  <2> QED BY <1>3, <2>1, <2>2
<1> HIDE DEF T
<1>5. m \in T /\ \A x \in T : x <= m
  BY <1>1, <1>4, GreatestOf
<1> HIDE DEF m
<1>6. m \in i .. n /\ \A j \in i + 1 .. m : Continues(fs, i, j)
  BY <1>5 DEF T
<1>7. m < n => ~Continues(fs, i, m + 1)
  <2>1. SUFFICES ASSUME m < n, Continues(fs, i, m + 1) PROVE FALSE
    OBVIOUS
  <2>2. \A j \in i + 1 .. m + 1 : j \in i + 1 .. m \/ j = m + 1
    BY <1>2, <1>6
  <2>3. m + 1 \in i .. n
    BY <1>1, <1>2, <1>6, <2>1
  <2>4. m + 1 \in T
    BY <1>6, <2>1, <2>2, <2>3 DEF T
  <2>5. m + 1 <= m /\ m \in Int
    BY <1>2, <1>5, <1>6, <2>4
  <2> QED BY <2>5
<1>8. \E e \in i .. n : (\A j \in i + 1 .. e : Continues(fs, i, j))
                        /\ (e < n => ~Continues(fs, i, e + 1))
  BY <1>6, <1>7
<1> DEFINE c == CHOOSE e \in i .. n : (\A j \in i + 1 .. e : Continues(fs, i, j))
                                      /\ (e < n => ~Continues(fs, i, e + 1))
<1>9. RunEnd(fs, i) = c
  BY DEF RunEnd, n
<1>10. c \in i .. n /\ \A j \in i + 1 .. c : Continues(fs, i, j)
  BY <1>8
<1> QED BY <1>9, <1>10 DEF n

(* Element k of an array lies where the k-th field of the run lies.        *)
LEMMA ArrayLies ==
    ASSUME NEW S, NEW fs \in Seq(S), Laid(S), NEW i \in 1 .. Len(fs), IsArray(fs, i),
           NEW k \in 1 .. RunEnd(fs, i) - i + 1
    PROVE  /\ fs[i + k - 1].pos = fs[i].pos + (k - 1) * (fs[i + 1].pos - fs[i].pos)
           /\ fs[i + k - 1].size = fs[i].size /\ fs[i + k - 1].pres = fs[i].pres
<1> DEFINE n == Len(fs)
           e == RunEnd(fs, i)
           p == fs[i].pos
           d == fs[i + 1].pos - fs[i].pos
           LiesAt(m) == /\ fs[i + m].pos = p + m * d
                        /\ fs[i + m].size = fs[i].size /\ fs[i + m].pres = fs[i].pres
<1>1. n \in Nat /\ e \in i .. n /\ \A j \in i + 1 .. e : Continues(fs, i, j)
  BY RunEndIs
<1>2. e - i + 1 >= 3
  BY DEF IsArray
<1>3. \A j \in 1 .. n : fs[j].pos \in Int
  <2>1. \A j \in 1 .. n : fs[j] \in S
    OBVIOUS
  <2> QED BY <2>1 DEF Laid
<1> HIDE DEF n, e
<1>4. i \in 1 .. n
  BY DEF n
<1>5. p \in Int /\ d \in Int
  <2>1. i + 1 \in 1 .. n
    BY <1>1, <1>2, <1>4
  <2> QED BY <1>3, <1>4, <2>1
<1> DEFINE T == {m \in Nat : m <= e - i => LiesAt(m)}
<1>6. 0 \in T
  <2>1. i + 0 = i
    BY <1>4
  <2> HIDE DEF d
  <2>2. p + 0 * d = p
    BY <1>5
  <2> QED BY <2>1, <2>2
<1>7. ASSUME NEW m \in Nat, m \in T PROVE m + 1 \in T
  <2>1. SUFFICES ASSUME m + 1 <= e - i PROVE LiesAt(m + 1)
    OBVIOUS
  <2>2. LiesAt(m)
    BY <1>1, <1>4, <1>7, <2>1
  <2>3. i + (m + 1) \in i + 1 .. e /\ (i + (m + 1)) - 1 = i + m /\ i + (m + 1) \in 1 .. n
        /\ i + m \in 1 .. n
    BY <1>1, <1>4, <2>1
  <2>4. Continues(fs, i, i + (m + 1))
    BY <1>1, <2>3
  <2>5. /\ fs[i + m].pres = fs[i + (m + 1)].pres /\ fs[i + m].size = fs[i + (m + 1)].size
        /\ i + (m + 1) > i + 1 => fs[i + (m + 1)].pos - fs[i + m].pos = d
    BY <2>3, <2>4 DEF Continues, SameShape
  <2> DEFINE a == fs[i + m].pos
             b == fs[i + (m + 1)].pos
  <2>6. a \in Int /\ b \in Int
    BY <1>3, <2>3
  <2>7. b - a = d
    <3>1. CASE m = 0
      <4>1. i + (m + 1) = i + 1 /\ i + m = i
        BY <1>4, <3>1
      <4> QED BY <4>1
    <3>2. CASE m # 0
      <4>1. i + (m + 1) > i + 1
        BY <1>4, <3>2
      <4> QED BY <2>5, <4>1
    <3> QED BY <3>1, <3>2
  <2>8. b = p + (m + 1) * d
    <3>1. a = p + m * d
      BY <2>2
    <3> HIDE DEF a, b, p, d
    <3>2. (m + 1) * d = m * d + d /\ m * d \in Int
      BY <1>5
    <3> QED BY <1>5, <2>6, <2>7, <3>1, <3>2
  <2> QED BY <2>2, <2>5, <2>8
<1> HIDE DEF T
<1>8. Nat \subseteq T
  BY <1>6, <1>7, Induction
<1>9. LiesAt(k - 1)
  <2>1. k \in 1 .. e - i + 1
    BY DEF e
  <2>2. k - 1 \in Nat /\ k - 1 <= e - i
    BY <1>1, <1>4, <2>1
  <2>3. k - 1 \in T
    BY <1>8, <2>2
  <2> HIDE DEF LiesAt
  <2> QED BY <2>2, <2>3 DEF T
<1>10. i + (k - 1) = i + k - 1
  <2>1. k \in 1 .. e - i + 1
    BY DEF e
  <2> QED BY <1>1, <1>4, <2>1
<1> QED BY <1>9, <1>10

(* The last field a record takes with it.                                  *)
EndOf(fs, s) == IF IsArray(fs, s) THEN RunEnd(fs, s) ELSE s

(* The starts among the first i fields: the records that begin there take  *)
(* the fields with them one after the other and leave none out.            *)
Parted(fs, starts, i) ==
    /\ starts \subseteq 1 .. i
    /\ \A s, t \in starts : s < t => EndOf(fs, s) < t
    /\ \A j \in 1 .. i : \E s \in starts : s <= j /\ j <= EndOf(fs, s)

(* A record ends where it begins or later, in the group.                   *)
LEMMA EndIs ==
    ASSUME NEW S, NEW fs \in Seq(S), NEW s \in 1 .. Len(fs)
    PROVE  EndOf(fs, s) \in s .. Len(fs)
<1>1. RunEnd(fs, s) \in s .. Len(fs)
  BY RunEndIs
<1>2. Len(fs) \in Nat
  OBVIOUS
<1>3. s \in s .. Len(fs)
  BY <1>2
<1> QED BY <1>1, <1>3 DEF EndOf

(* One field more: it is in an array that began before, or begins a record.*)
NextStarts(fs, before, i) ==
    IF \E s \in before : i <= RunEnd(fs, s) /\ IsArray(fs, s) THEN before ELSE before \cup {i}

(* The records stay one after the other.                                   *)
LEMMA PartedByOneMore ==
    ASSUME NEW S, NEW fs \in Seq(S), NEW i \in 0 .. Len(fs) - 1, NEW before, Parted(fs, before, i)
    PROVE  Parted(fs, NextStarts(fs, before, i + 1), i + 1)
<1> DEFINE n == Len(fs)
           after == NextStarts(fs, before, i + 1)
<1>1. n \in Nat
  OBVIOUS
<1>2. i \in 0 .. n - 1 /\ i \in Nat /\ i + 1 \in 1 .. n
  BY <1>1
<1>3. \A s \in before : s \in 1 .. n /\ s \in 1 .. i
  BY <1>2 DEF Parted
<1>4. \A s \in before : EndOf(fs, s) \in s .. n
  BY <1>3, EndIs
<1>5. EndOf(fs, i + 1) \in i + 1 .. n
  BY <1>2, EndIs
<1> HIDE DEF n
<1>6. CASE \E s \in before : i + 1 <= RunEnd(fs, s) /\ IsArray(fs, s)
  <2>1. after = before
    BY <1>6 DEF NextStarts
  <2>2. PICK s \in before : i + 1 <= RunEnd(fs, s) /\ IsArray(fs, s)
    BY <1>6
  <2>3. s <= i + 1 /\ i + 1 <= EndOf(fs, s)
    BY <1>2, <1>3, <2>2 DEF EndOf
  <2>4. \A j \in 1 .. i + 1 : j \in 1 .. i \/ j = i + 1
    BY <1>2
  <2>5. \A j \in 1 .. i + 1 : \E r \in before : r <= j /\ j <= EndOf(fs, r)
    BY <2>3, <2>4 DEF Parted
  <2>6. before \subseteq 1 .. i + 1
    <3>1. 1 .. i \subseteq 1 .. i + 1
      BY <1>2
    <3> QED BY <3>1 DEF Parted
  <2>7. Parted(fs, before, i + 1)
    BY <2>5, <2>6 DEF Parted
  <2> QED BY <2>1, <2>7
<1>7. CASE ~ \E s \in before : i + 1 <= RunEnd(fs, s) /\ IsArray(fs, s)
  <2>1. after = before \cup {i + 1}
    BY <1>7 DEF NextStarts
  <2>2. \A s \in before : EndOf(fs, s) < i + 1
    <3>1. SUFFICES ASSUME NEW s \in before, ~(EndOf(fs, s) < i + 1) PROVE FALSE
      OBVIOUS
    <3>2. EndOf(fs, s) \in s .. n /\ s \in 1 .. i
      BY <1>3, <1>4
    <3>3. i + 1 <= EndOf(fs, s)
      BY <1>2, <3>1, <3>2
    <3>4. CASE IsArray(fs, s)
      BY <1>7, <3>3, <3>4 DEF EndOf
    <3>5. CASE ~IsArray(fs, s)
      <4>1. EndOf(fs, s) = s
        BY <3>5 DEF EndOf
      <4> QED BY <1>2, <3>2, <3>3, <4>1
    <3> QED BY <3>4, <3>5
  <2>3. after \subseteq 1 .. i + 1
    <3>1. 1 .. i \subseteq 1 .. i + 1 /\ i + 1 \in 1 .. i + 1
      BY <1>2
    <3> QED BY <2>1, <3>1 DEF Parted
  <2>4. \A s, t \in after : s < t => EndOf(fs, s) < t
    <3>1. SUFFICES ASSUME NEW s \in after, NEW t \in after, s < t PROVE EndOf(fs, s) < t
      OBVIOUS
    <3>2. s \in before
      <4>1. SUFFICES ASSUME s = i + 1 PROVE FALSE
        BY <2>1
      <4>2. t \in 1 .. i + 1
        BY <2>3
      <4> QED BY <1>2, <3>1, <4>1, <4>2
    <3>3. CASE t \in before
      BY <3>1, <3>2, <3>3 DEF Parted
    <3>4. CASE t = i + 1
      BY <2>2, <3>2, <3>4
    <3> QED BY <2>1, <3>3, <3>4
  <2>5. \A j \in 1 .. i + 1 : \E s \in after : s <= j /\ j <= EndOf(fs, s)
    <3>1. SUFFICES ASSUME NEW j \in 1 .. i + 1
                   PROVE  \E s \in after : s <= j /\ j <= EndOf(fs, s)
      OBVIOUS
    <3>2. CASE j = i + 1
      <4>1. i + 1 \in after
        BY <2>1
      <4>2. i + 1 <= i + 1 /\ i + 1 <= EndOf(fs, i + 1)
        BY <1>2, <1>5
      <4> QED BY <3>2, <4>1, <4>2
    <3>3. CASE j # i + 1
      <4>1. j \in 1 .. i
        BY <1>2, <3>3
      <4>2. \E s \in before : s <= j /\ j <= EndOf(fs, s)
        BY <4>1 DEF Parted
      <4> QED BY <2>1, <4>2
    <3> QED BY <3>2, <3>3
  <2>6. Parted(fs, after, i + 1)
    BY <2>3, <2>4, <2>5 DEF Parted
  <2> QED BY <2>6
<1> QED BY <1>6, <1>7

(* The records of the whole group.                                         *)
LEMMA StartsIs ==
    ASSUME NEW S, NEW fs \in Seq(S)
    PROVE  Parted(fs, Starts(fs), Len(fs))
<1> DEFINE n == Len(fs)
           V == SUBSET (1 .. n)
           none == {}
           step == [x \in (0 .. n - 1) \X V |-> NextStarts(fs, x[2], x[1] + 1)]
           Rule(f) == f = [i \in 0 .. n |-> IF i = 0 THEN {} ELSE NextStarts(fs, f[i - 1], i)]
           chosen == CHOOSE f : Rule(f)
<1>1. n \in Nat
  OBVIOUS
<1>2. none \in V
  OBVIOUS
<1> HIDE DEF n
<1>3. ASSUME NEW i \in 0 .. n - 1, NEW v \in V
      PROVE  step[<<i, v>>] = NextStarts(fs, v, i + 1) /\ step[<<i, v>>] \in V
  <2>1. <<i, v>> \in (0 .. n - 1) \X V
    OBVIOUS
  <2>2. i + 1 \in 1 .. n
    BY <1>1
  <2>3. NextStarts(fs, v, i + 1) \in V
    BY <2>2 DEF NextStarts
  <2> HIDE DEF V
  <2>4. step[<<i, v>>] = NextStarts(fs, v, i + 1)
    BY <2>1
  <2> QED BY <2>3, <2>4
<1>4. \A i \in 0 .. n - 1, v \in V : step[<<i, v>>] \in V
  BY <1>3
<1> HIDE DEF step, V, none
<1>5. PICK f : Recursive(f, V, none, step, n)
  BY <1>1, <1>2, <1>4, RecursionUpTo
<1>6. Rule(f)
  <2>1. f \in [0 .. n -> V] /\ f[0] = none
    BY <1>5 DEF Recursive
  <2>2. ASSUME NEW i \in 0 .. n
        PROVE  f[i] = IF i = 0 THEN {} ELSE NextStarts(fs, f[i - 1], i)
    <3>1. CASE i = 0
      BY <2>1, <3>1 DEF none
    <3>2. CASE i # 0
      <4>1. i - 1 \in 0 .. n - 1 /\ i - 1 \in 0 .. n /\ (i - 1) + 1 = i
        BY <1>1, <3>2
      <4>2. f[(i - 1) + 1] = step[<<i - 1, f[i - 1]>>] /\ f[i - 1] \in V
        BY <1>5, <2>1, <4>1 DEF Recursive
      <4>3. step[<<i - 1, f[i - 1]>>] = NextStarts(fs, f[i - 1], (i - 1) + 1)
        BY <1>3, <4>1, <4>2
      <4> QED BY <3>2, <4>1, <4>2, <4>3
    <3> QED BY <3>1, <3>2
  <2>3. f = [i \in 0 .. n |-> f[i]]
    BY <2>1
  <2>4. [i \in 0 .. n |-> f[i]]
          = [i \in 0 .. n |-> IF i = 0 THEN {} ELSE NextStarts(fs, f[i - 1], i)]
    BY <2>2
  <2> QED BY <2>3, <2>4
<1>7. Starts(fs) = chosen[n]
  BY DEF Starts, NextStarts, n
<1> HIDE DEF Rule
<1>8. Rule(chosen)
  BY <1>6
<1> HIDE DEF chosen
<1>9. \A i \in 0 .. n : chosen[i] = IF i = 0 THEN {} ELSE NextStarts(fs, chosen[i - 1], i)
  BY <1>8 DEF Rule
<1> DEFINE T == {i \in Nat : i <= n => Parted(fs, chosen[i], i)}
<1>10. 0 \in T
  <2>1. 0 \in 0 .. n
    BY <1>1
  <2>2. chosen[0] = none
    BY <1>9, <2>1 DEF none
  <2>3. Parted(fs, none, 0)
    BY DEF Parted, none
  <2> QED BY <2>2, <2>3
<1>11. ASSUME NEW i \in Nat, i \in T PROVE i + 1 \in T
  <2>1. SUFFICES ASSUME i + 1 <= n PROVE Parted(fs, chosen[i + 1], i + 1)
    OBVIOUS
  <2>2. i + 1 \in 0 .. n /\ i + 1 # 0 /\ (i + 1) - 1 = i /\ i \in 0 .. n - 1 /\ i <= n
    BY <1>1, <2>1
  <2>3. chosen[i + 1] = NextStarts(fs, chosen[i], i + 1)
    <3>1. chosen[i + 1] = IF i + 1 = 0 THEN {} ELSE NextStarts(fs, chosen[(i + 1) - 1], i + 1)
      BY <1>9, <2>2
    <3> QED BY <2>2, <3>1
  <2>4. Parted(fs, chosen[i], i)
    BY <1>11, <2>2
  <2>5. Parted(fs, NextStarts(fs, chosen[i], i + 1), i + 1)
    BY <2>2, <2>4, PartedByOneMore DEF n
  <2> QED BY <2>3, <2>5
<1> HIDE DEF T
<1>12. Nat \subseteq T
  BY <1>10, <1>11, Induction
<1>13. Parted(fs, chosen[n], n)
  <2>1. n \in T /\ n <= n
    BY <1>1, <1>12
  <2> QED BY <2>1 DEF T
<1> QED BY <1>7, <1>13 DEF n

(* The members of a set of numbers below one of them.                      *)
Below(T, s) == {t \in T : t < s}

(* Nothing is in the way of counting them.                                 *)
LEMMA BelowIs ==
    ASSUME NEW n \in Nat, NEW T, T \subseteq 1 .. n, NEW s \in T
    PROVE  /\ IsFiniteSet(T) /\ Cardinality(T) \in Nat
           /\ IsFiniteSet(Below(T, s)) /\ Cardinality(Below(T, s)) \in 0 .. Cardinality(T) - 1
           /\ Cardinality(Below(T, s) \cup {s}) = Cardinality(Below(T, s)) + 1
<1> DEFINE B == Below(T, s)
<1>1. IsFiniteSet(1 .. n)
  BY CountTo
<1>2. IsFiniteSet(T) /\ Cardinality(T) \in Nat
  BY <1>1, FS_Subset, FS_CardinalityType
<1>3. B \in SUBSET T /\ B \cup {s} \in SUBSET T /\ s \notin B
  <2>1. s \in 1 .. n
    OBVIOUS
  <2>2. ~(s < s)
    BY <2>1
  <2> QED BY <2>2 DEF Below
<1> HIDE DEF B
<1>4. IsFiniteSet(B) /\ Cardinality(B) \in Nat
  BY <1>2, <1>3, FS_Subset, FS_CardinalityType
<1>5. Cardinality(B \cup {s}) = Cardinality(B) + 1
  BY <1>3, <1>4, FS_AddElement
<1>6. Cardinality(B \cup {s}) <= Cardinality(T)
  BY <1>2, <1>3, FS_Subset
<1> DEFINE b == Cardinality(B)
           u == Cardinality(B \cup {s})
           c == Cardinality(T)
<1>7. b \in Nat /\ u = b + 1 /\ u <= c /\ c \in Nat
  BY <1>2, <1>4, <1>5, <1>6
<1> HIDE DEF b, u, c
<1>8. b \in 0 .. c - 1
  BY <1>7
<1> QED BY <1>2, <1>4, <1>5, <1>8 DEF b, c, B

(* No two have the same number below them.                                 *)
LEMMA RankIsUnique ==
    ASSUME NEW n \in Nat, NEW T, T \subseteq 1 .. n, NEW s \in T, NEW t \in T, s < t
    PROVE  Cardinality(Below(T, s)) < Cardinality(Below(T, t))
<1> DEFINE b == Cardinality(Below(T, s))
           u == Cardinality(Below(T, s) \cup {s})
           c == Cardinality(Below(T, t))
<1>1. /\ IsFiniteSet(Below(T, t)) /\ b \in Nat /\ c \in Nat /\ u = b + 1
  <2>1. Cardinality(Below(T, s)) \in 0 .. Cardinality(T) - 1 /\ u = b + 1
    BY BelowIs
  <2>2. Cardinality(Below(T, t)) \in 0 .. Cardinality(T) - 1 /\ IsFiniteSet(Below(T, t))
    BY BelowIs
  <2> HIDE DEF u
  <2> QED BY <2>1, <2>2
<1>2. Below(T, s) \cup {s} \in SUBSET Below(T, t)
  <2>1. \A x \in Below(T, s) : x \in Below(T, t)
    <3>1. SUFFICES ASSUME NEW x \in Below(T, s) PROVE x \in T /\ x < t
      BY DEF Below
    <3>2. x \in T /\ x < s /\ x \in 1 .. n /\ s \in 1 .. n /\ t \in 1 .. n
      BY DEF Below
    <3> QED BY <3>2
  <2> QED BY <2>1 DEF Below
<1>3. u <= c
  BY <1>1, <1>2, FS_Subset
<1> HIDE DEF b, u, c
<1>4. b < c
  BY <1>1, <1>3
<1> QED BY <1>4 DEF b, c

(* The k-th is there, with k - 1 below it.                                 *)
LEMMA NthIs ==
    ASSUME NEW n \in Nat, NEW T, T \subseteq 1 .. n, NEW k \in 1 .. Cardinality(T)
    PROVE  Nth(T, k) \in T /\ Cardinality(Below(T, Nth(T, k))) = k - 1
<1> DEFINE c == Cardinality(T)
           HasRank(m) == \E s \in T : Cardinality(Below(T, s)) = m
           R == {m \in Nat : m < c => HasRank(m)}
<1>1. IsFiniteSet(T) /\ c \in Nat
  <2>1. IsFiniteSet(1 .. n)
    BY CountTo
  <2> QED BY <2>1, FS_Subset, FS_CardinalityType
<1>2. T \subseteq Nat
  OBVIOUS
<1>3. 0 \in R
  <2>1. SUFFICES ASSUME 0 < c PROVE HasRank(0)
    BY <1>1
  <2>2. T # {}
    <3>1. c # 0
      BY <1>1, <2>1
    <3> QED BY <3>1, FS_EmptySet
  <2>3. PICK s \in T : \A t \in T : s <= t
    BY <1>2, <2>2, LeastOf
  <2>4. Below(T, s) = {}
    <3>1. SUFFICES ASSUME NEW t \in T, t < s PROVE FALSE
      BY DEF Below
    <3>2. t \in Nat /\ s \in Nat /\ s <= t
      BY <1>2, <2>3
    <3> QED BY <3>1, <3>2
  <2> QED BY <2>4, FS_EmptySet
<1>4. ASSUME NEW m \in Nat, m \in R PROVE m + 1 \in R
  <2>1. SUFFICES ASSUME m + 1 < c PROVE HasRank(m + 1)
    OBVIOUS
  <2>2. PICK s \in T : Cardinality(Below(T, s)) = m
    <3>1. m < c
      BY <1>1, <2>1
    <3> QED BY <1>4, <3>1
  <2> DEFINE low == Below(T, s) \cup {s}
             rest == T \ low
  <2>3. Cardinality(low) = m + 1 /\ low \subseteq T
    BY <2>2, BelowIs DEF Below
  <2> HIDE DEF low
  <2>4. rest # {}
    <3>1. SUFFICES ASSUME low = T PROVE FALSE
      BY <2>3
    <3>2. c = m + 1
      BY <2>3, <3>1
    <3> QED BY <1>1, <2>1, <3>2
  <2>5. PICK t \in rest : \A x \in rest : t <= x
    <3>1. rest \subseteq Nat
      BY <1>2
    <3> HIDE DEF rest
    <3> QED BY <2>4, <3>1, LeastOf
  <2>6. t \in T /\ t \notin low /\ t \in Nat /\ s \in Nat
    BY <1>2
  <2>7. s < t
    <3>1. t # s /\ ~(t < s)
      BY <2>6 DEF low, Below
    <3> QED BY <2>6, <3>1
  <2>8. Below(T, t) = low
    <3>1. ASSUME NEW x \in low PROVE x \in T /\ x < t
      <4>1. x \in T /\ (x < s \/ x = s)
        BY <2>3 DEF low, Below
      <4>2. x \in Nat
        BY <1>2, <4>1
      <4> QED BY <2>6, <2>7, <4>1, <4>2
    <3>2. ASSUME NEW x \in T, x < t PROVE x \in low
      <4>1. SUFFICES ASSUME x \notin low PROVE FALSE
        OBVIOUS
      <4>2. t <= x
        BY <2>5, <3>2, <4>1
      <4>3. x \in Nat
        BY <1>2
      <4> QED BY <2>6, <3>2, <4>2, <4>3
    <3> QED BY <3>1, <3>2 DEF Below
  <2>9. Cardinality(Below(T, t)) = m + 1
    BY <2>3, <2>8
  <2> QED BY <2>6, <2>9
<1> HIDE DEF R, HasRank
<1>5. Nat \subseteq R
  BY <1>3, <1>4, Induction
<1>6. HasRank(k - 1)
  <2>1. k \in 1 .. c
    OBVIOUS
  <2> HIDE DEF c
  <2>2. k - 1 \in Nat /\ k - 1 < c
    BY <1>1, <2>1
  <2>3. k - 1 \in R
    BY <1>5, <2>2
  <2> QED BY <2>2, <2>3 DEF R
<1>7. \E s \in T : Cardinality({t \in T : t < s}) = k - 1
  BY <1>6 DEF HasRank, Below
<1>8. Nth(T, k) = CHOOSE s \in T : Cardinality({t \in T : t < s}) = k - 1
  BY DEF Nth
<1> QED BY <1>7, <1>8 DEF Below

(* The first is the least; the next is the least above; none is above the  *)
(* last.                                                                   *)
LEMMA NthNext ==
    ASSUME NEW n \in Nat, NEW T, T \subseteq 1 .. n, NEW k \in 1 .. Cardinality(T), NEW s \in T
    PROVE  /\ k = 1 => Nth(T, 1) <= s
           /\ k < Cardinality(T) => /\ Nth(T, k) < Nth(T, k + 1)
                                    /\ Nth(T, k) < s => Nth(T, k + 1) <= s
           /\ k = Cardinality(T) => s <= Nth(T, k)
<1> DEFINE c == Cardinality(T)
           rank(x) == Cardinality(Below(T, x))
<1>1. IsFiniteSet(T) /\ c \in Nat
  <2>1. IsFiniteSet(1 .. n)
    BY CountTo
  <2> QED BY <2>1, FS_Subset, FS_CardinalityType
<1>2. \A x \in T : x \in Nat
  OBVIOUS
<1>3. ASSUME NEW x \in T PROVE rank(x) \in Nat /\ rank(x) <= c - 1
  <2>1. rank(x) \in 0 .. c - 1
    BY BelowIs
  <2> HIDE DEF rank, c
  <2> QED BY <1>1, <2>1
<1>4. ASSUME NEW m \in 1 .. c PROVE Nth(T, m) \in T /\ rank(Nth(T, m)) = m - 1
  BY NthIs
<1>5. ASSUME NEW x \in T, NEW y \in T, x < y PROVE rank(x) < rank(y)
  BY <1>5, RankIsUnique
<1>6. k \in 1 .. c
  OBVIOUS
<1> HIDE DEF rank, c
<1>7. ASSUME NEW x \in T, NEW y \in T, rank(x) <= rank(y) PROVE x <= y
  <2>1. SUFFICES ASSUME ~(x <= y) PROVE FALSE
    OBVIOUS
  <2>2. y < x
    BY <1>2, <2>1
  <2>3. rank(y) < rank(x)
    BY <1>5, <2>2
  <2> QED BY <1>3, <1>7, <2>3
<1>8. k = 1 => Nth(T, 1) <= s
  <2>1. SUFFICES ASSUME k = 1 PROVE Nth(T, 1) <= s
    OBVIOUS
  <2>2. Nth(T, 1) \in T /\ rank(Nth(T, 1)) = 0
    BY <1>4, <1>6, <2>1
  <2>3. 0 <= rank(s)
    BY <1>3
  <2> QED BY <1>7, <2>2, <2>3
<1>9. ASSUME k < c
      PROVE  Nth(T, k) < Nth(T, k + 1) /\ (Nth(T, k) < s => Nth(T, k + 1) <= s)
  <2> DEFINE x == Nth(T, k)
             y == Nth(T, k + 1)
  <2>1. x \in T /\ rank(x) = k - 1
    BY <1>4, <1>6
  <2>2. y \in T /\ rank(y) = k
    <3>1. k + 1 \in 1 .. c /\ (k + 1) - 1 = k
      BY <1>1, <1>6, <1>9
    <3> QED BY <1>4, <3>1
  <2> HIDE DEF x, y
  <2>3. x < y
    <3>1. SUFFICES ASSUME ~(x < y) PROVE FALSE
      OBVIOUS
    <3>2. y < x \/ y = x
      BY <1>2, <2>1, <2>2, <3>1
    <3>3. rank(y) <= rank(x)
      <4>1. CASE y < x
        <5>1. rank(y) < rank(x)
          BY <1>5, <2>1, <2>2, <4>1
        <5> QED BY <1>3, <2>1, <2>2, <5>1
      <4>2. CASE y = x
        BY <1>3, <2>1, <4>2
      <4> QED BY <3>2, <4>1, <4>2
    <3> QED BY <1>6, <2>1, <2>2, <3>3
  <2>4. x < s => y <= s
    <3>1. SUFFICES ASSUME x < s PROVE y <= s
      OBVIOUS
    <3>2. rank(x) < rank(s)
      BY <1>5, <2>1, <3>1
    <3>3. rank(y) <= rank(s)
      BY <1>3, <1>6, <2>1, <2>2, <3>2
    <3> QED BY <1>7, <2>2, <3>3
  <2> QED BY <2>3, <2>4 DEF x, y
<1>10. k = c => s <= Nth(T, k)
  <2>1. SUFFICES ASSUME k = c PROVE s <= Nth(T, k)
    OBVIOUS
  <2>2. Nth(T, k) \in T /\ rank(Nth(T, k)) = k - 1
    BY <1>4, <1>6
  <2>3. rank(s) <= rank(Nth(T, k))
    BY <1>1, <1>3, <2>1, <2>2
  <2> QED BY <1>7, <2>2, <2>3
<1> QED BY <1>8, <1>9, <1>10 DEF c

(* Consecutive pieces of a list, put together.                             *)
LEMMA FlattenIs ==
    ASSUME NEW S, NEW fs \in Seq(S), NEW m \in Nat \ {0}, NEW seqs, Len(seqs) = m,
           NEW ends \in [0 .. m -> 0 .. Len(fs)], ends[0] = 0,
           \A k \in 1 .. m : /\ ends[k - 1] <= ends[k]
                             /\ seqs[k] = SubSeq(fs, ends[k - 1] + 1, ends[k])
    PROVE  FlattenSeq(seqs) = SubSeq(fs, 1, ends[m])
<1> DEFINE n == Len(fs)
           upTo(k) == SubSeq(fs, 1, ends[k])
           Rule(f) == f = [i \in 1 .. m |-> IF i = 1 THEN seqs[i] ELSE f[i - 1] \o seqs[i]]
           G == [i \in 1 .. m |-> upTo(i)]
           chosen == CHOOSE f : Rule(f)
<1>1. n \in Nat /\ m \in Nat /\ m >= 1
  OBVIOUS
<1>2. ASSUME NEW k \in 1 .. m
      PROVE  /\ seqs[k] = SubSeq(fs, ends[k - 1] + 1, ends[k])
             /\ ends[k - 1] \in 0 .. n /\ ends[k] \in ends[k - 1] .. n
  <2>1. k - 1 \in 0 .. m /\ k \in 0 .. m
    BY <1>1
  <2>2. ends[k - 1] \in 0 .. n /\ ends[k] \in 0 .. n /\ ends[k - 1] <= ends[k]
    BY <2>1
  <2> HIDE DEF n
  <2>3. ends[k] \in ends[k - 1] .. n
    BY <1>1, <2>2
  <2> QED BY <2>2, <2>3
<1>3. seqs[1] = upTo(1)
  <2>1. 1 \in 1 .. m /\ 1 - 1 = 0 /\ 0 + 1 = 1
    BY <1>1
  <2>2. seqs[1] = SubSeq(fs, ends[1 - 1] + 1, ends[1])
    BY <1>2, <2>1
  <2> QED BY <2>1, <2>2
<1>4. ASSUME NEW k \in 1 .. m, k # 1 PROVE upTo(k) = upTo(k - 1) \o seqs[k]
  <2> DEFINE a == ends[k - 1]
             b == ends[k]
  <2>1. a \in 0 .. n /\ b \in a .. n /\ seqs[k] = SubSeq(fs, a + 1, b)
    BY <1>2
  <2> HIDE DEF a, b, n
  <2>2. 1 \in 1 .. n + 1 /\ a \in 1 - 1 .. n /\ b \in a .. n
    BY <1>1, <2>1
  <2>3. SubSeq(fs, 1, a) \o SubSeq(fs, a + 1, b) = SubSeq(fs, 1, b)
    BY <2>2, ConcatAdjacentSubSeq DEF n
  <2> QED BY <2>1, <2>3 DEF a, b
<1> HIDE DEF n, upTo
<1>5. Rule(G)
  <2>1. ASSUME NEW i \in 1 .. m
        PROVE  upTo(i) = IF i = 1 THEN seqs[i] ELSE G[i - 1] \o seqs[i]
    <3>1. CASE i = 1
      BY <1>3, <3>1
    <3>2. CASE i # 1
      <4>1. i - 1 \in 1 .. m
        BY <1>1, <3>2
      <4>2. G[i - 1] = upTo(i - 1)
        BY <4>1
      <4> HIDE DEF G
      <4> QED BY <1>4, <3>2, <4>2
    <3> QED BY <3>1, <3>2
  <2>2. [i \in 1 .. m |-> upTo(i)]
          = [i \in 1 .. m |-> IF i = 1 THEN seqs[i] ELSE G[i - 1] \o seqs[i]]
    BY <2>1
  <2> QED BY <2>2
<1>6. FlattenSeq(seqs) = chosen[m]
  BY <1>1 DEF FlattenSeq
<1> HIDE DEF Rule, G
<1>7. Rule(chosen)
  BY <1>5
<1> HIDE DEF chosen
<1>8. \A i \in 1 .. m : chosen[i] = IF i = 1 THEN seqs[i] ELSE chosen[i - 1] \o seqs[i]
  BY <1>7 DEF Rule
<1> DEFINE T == {i \in Nat : i + 1 <= m => chosen[i + 1] = upTo(i + 1)}
<1>9. 0 \in T
  <2>1. 1 \in 1 .. m /\ 0 + 1 = 1
    BY <1>1
  <2>2. chosen[1] = seqs[1]
    BY <1>8, <2>1
  <2> QED BY <1>3, <2>1, <2>2
<1>10. ASSUME NEW i \in Nat, i \in T PROVE i + 1 \in T
  <2>1. SUFFICES ASSUME (i + 1) + 1 <= m PROVE chosen[(i + 1) + 1] = upTo((i + 1) + 1)
    OBVIOUS
  <2> DEFINE k == (i + 1) + 1
  <2>2. k \in 1 .. m /\ k # 1 /\ k - 1 = i + 1 /\ i + 1 <= m
    BY <1>1, <2>1
  <2>3. chosen[k - 1] = upTo(k - 1)
    BY <1>10, <2>2
  <2> HIDE DEF k
  <2>4. chosen[k] = chosen[k - 1] \o seqs[k]
    BY <1>8, <2>2
  <2>5. chosen[k] = upTo(k)
    BY <1>4, <2>2, <2>3, <2>4
  <2> QED BY <2>5 DEF k
<1> HIDE DEF T
<1>11. Nat \subseteq T
  BY <1>9, <1>10, Induction
<1>12. chosen[m] = upTo(m)
  <2>1. m - 1 \in Nat /\ (m - 1) + 1 = m /\ m <= m
    BY <1>1
  <2>2. m - 1 \in T
    BY <1>11, <2>1
  <2>3. (m - 1) + 1 <= m => chosen[(m - 1) + 1] = upTo((m - 1) + 1)
    BY <2>2 DEF T
  <2> QED BY <2>1, <2>3
<1> QED BY <1>6, <1>12 DEF upTo

(* Each record begins where the one before it ends, the first with the     *)
(* first field; the last ends with the last field.                         *)
LEMMA RecordsMeet ==
    ASSUME NEW S, NEW fs \in Seq(S), NEW starts, NEW m,
           starts = Starts(fs), m = Cardinality(starts)
    PROVE  /\ m \in Nat /\ (m = 0 <=> Len(fs) = 0)
           /\ \A k \in 1 .. m : /\ Nth(starts, k) \in 1 .. Len(fs)
                                /\ EndOf(fs, Nth(starts, k)) \in Nth(starts, k) .. Len(fs)
                                /\ k = 1 => Nth(starts, k) = 1
                                /\ k < m => Nth(starts, k + 1) = EndOf(fs, Nth(starts, k)) + 1
                                /\ k = m => EndOf(fs, Nth(starts, k)) = Len(fs)
<1> DEFINE n == Len(fs)
<1>1. n \in Nat
  OBVIOUS
<1>2. Parted(fs, starts, n)
  BY StartsIs
<1>3. starts \subseteq 1 .. n
  BY <1>2 DEF Parted
<1>4. \A s \in starts : s \in 1 .. n /\ EndOf(fs, s) \in s .. n
  BY <1>3, EndIs
<1> HIDE DEF n
<1>5. IsFiniteSet(starts) /\ m \in Nat
  <2>1. IsFiniteSet(1 .. n)
    BY <1>1, CountTo
  <2> QED BY <1>3, <2>1, FS_Subset, FS_CardinalityType
<1>6. m = 0 <=> n = 0
  <2>1. m = 0 <=> starts = {}
    BY <1>5, FS_EmptySet
  <2>2. n # 0 => starts # {}
    <3>1. n # 0 => 1 \in 1 .. n
      BY <1>1
    <3> QED BY <1>2, <3>1 DEF Parted
  <2>3. n = 0 => starts = {}
    BY <1>3
  <2> QED BY <2>1, <2>2, <2>3
<1>7. ASSUME NEW k \in 1 .. m
      PROVE  /\ Nth(starts, k) \in 1 .. n
             /\ EndOf(fs, Nth(starts, k)) \in Nth(starts, k) .. n
             /\ k = 1 => Nth(starts, k) = 1
             /\ k < m => Nth(starts, k + 1) = EndOf(fs, Nth(starts, k)) + 1
             /\ k = m => EndOf(fs, Nth(starts, k)) = n
  <2> DEFINE x == Nth(starts, k)
             e == EndOf(fs, x)
  <2>1. x \in starts
    BY <1>1, <1>3, NthIs
  <2>2. x \in 1 .. n /\ e \in x .. n
    BY <1>4, <2>1
  <2>3. \A s \in starts : /\ k = 1 => Nth(starts, 1) <= s
                          /\ k < m => x < Nth(starts, k + 1) /\ (x < s => Nth(starts, k + 1) <= s)
                          /\ k = m => s <= x
    BY <1>1, <1>3, NthNext
  <2> HIDE DEF x, e
  <2>4. k = 1 => x = 1
    <3>1. SUFFICES ASSUME k = 1 PROVE x = 1
      OBVIOUS
    <3>2. 1 \in 1 .. n
      BY <1>1, <2>2
    <3>3. PICK s \in starts : s <= 1
      BY <1>2, <3>2 DEF Parted
    <3>4. x <= s /\ s \in 1 .. n
      BY <1>4, <2>3, <3>1, <3>3 DEF x
    <3> QED BY <2>2, <3>3, <3>4
  <2>5. ASSUME e < n PROVE \E s \in starts : x < s /\ s <= e + 1
    <3>1. e + 1 \in 1 .. n
      BY <1>1, <2>2, <2>5
    <3>2. PICK s \in starts : s <= e + 1 /\ e + 1 <= EndOf(fs, s)
      BY <1>2, <3>1 DEF Parted
    <3>3. s \in 1 .. n /\ EndOf(fs, s) \in s .. n
      BY <1>4
    <3>4. s # x
      <4>1. ~(e + 1 <= e)
        BY <2>2
      <4> QED BY <3>2, <4>1 DEF e
    <3>5. ~(s < x)
      <4>1. SUFFICES ASSUME s < x PROVE FALSE
        OBVIOUS
      <4>2. EndOf(fs, s) < x
        BY <1>2, <2>1, <4>1 DEF Parted
      <4> QED BY <2>2, <3>2, <3>3, <4>2
    <3>6. x < s
      BY <2>2, <3>3, <3>4, <3>5
    <3> QED BY <3>2, <3>6
  <2>6. k < m => Nth(starts, k + 1) = e + 1
    <3>1. SUFFICES ASSUME k < m PROVE Nth(starts, k + 1) = e + 1
      OBVIOUS
    <3> DEFINE y == Nth(starts, k + 1)
    <3>2. y \in starts
      <4>1. k + 1 \in 1 .. Cardinality(starts)
        BY <1>5, <3>1
      <4> QED BY <1>1, <1>3, <4>1, NthIs
    <3>3. x < y /\ \A s \in starts : x < s => y <= s
      BY <2>1, <2>3, <3>1
    <3> HIDE DEF y
    <3>4. e < y
      BY <1>2, <2>1, <3>2, <3>3 DEF Parted, e
    <3>5. y \in 1 .. n
      BY <1>4, <3>2
    <3>6. e < n
      BY <1>1, <2>2, <3>4, <3>5
    <3>7. PICK s \in starts : x < s /\ s <= e + 1
      BY <2>5, <3>6
    <3>8. y <= s /\ s \in 1 .. n
      BY <1>4, <3>3, <3>7
    <3>9. y = e + 1
      BY <2>2, <3>4, <3>5, <3>7, <3>8
    <3> QED BY <3>9 DEF y
  <2>7. k = m => e = n
    <3>1. SUFFICES ASSUME k = m, e # n PROVE FALSE
      OBVIOUS
    <3>2. e < n
      BY <1>1, <2>2, <3>1
    <3>3. PICK s \in starts : x < s
      BY <2>5, <3>2
    <3>4. s <= x /\ s \in 1 .. n
      BY <1>4, <2>3, <3>1
    <3> QED BY <2>2, <3>3, <3>4
  <2> QED BY <2>2, <2>4, <2>6, <2>7 DEF x, e
<1> QED BY <1>5, <1>6, <1>7 DEF n

(* The record that begins at s, as _collapse_arrays makes it.              *)
RecordOf(fs, s) ==
    IF IsArray(fs, s)
    THEN [pres |-> fs[s].pres, pos |-> fs[s].pos, size |-> fs[s].size,
          svc |-> [stem |-> fs[s].svc.stem, no |-> -1],
          count |-> RunEnd(fs, s) - s + 1, stride |-> fs[s + 1].pos - fs[s].pos,
          from |-> SubSeq(fs, s, RunEnd(fs, s))]
    ELSE [pres |-> fs[s].pres, pos |-> fs[s].pos, size |-> fs[s].size,
          svc |-> fs[s].svc, count |-> 1, stride |-> 0, from |-> <<fs[s]>>]

(* A record has all the fields of its run, each where its element lies.    *)
HoldsRun(fs, s, r) ==
    /\ r.from = SubSeq(fs, s, EndOf(fs, s)) /\ Len(r.from) = r.count
    /\ \A k \in DOMAIN r.from :
          /\ r.from[k].pos = r.pos + (k - 1) * r.stride
          /\ r.from[k].size = r.size /\ r.from[k].pres = r.pres

(* Every record does.                                                      *)
LEMMA RecordIs ==
    ASSUME NEW S, NEW fs \in Seq(S), Laid(S), NEW s \in 1 .. Len(fs)
    PROVE  HoldsRun(fs, s, RecordOf(fs, s))
<1> DEFINE n == Len(fs)
           e == EndOf(fs, s)
           part == SubSeq(fs, s, e)
           r == RecordOf(fs, s)
<1>1. n \in Nat /\ s \in 1 .. n /\ e \in s .. n /\ \A i \in 1 .. n : fs[i] \in S
  BY EndIs
<1>2. /\ part \in Seq(S) /\ Len(part) = e - s + 1
      /\ \A k \in 1 .. e - s + 1 : part[k] = fs[s + k - 1]
  <2> HIDE DEF n, e
  <2>1. s \in Int /\ e \in Int /\ s <= e /\ \A i \in s .. e : fs[i] \in S
    BY <1>1
  <2>2. /\ part \in Seq(S) /\ Len(part) = IF s <= e THEN e - s + 1 ELSE 0
        /\ \A k \in 1 .. e - s + 1 : part[k] = fs[s + k - 1]
    BY <2>1, SubSeqProperties
  <2> QED BY <2>1, <2>2
<1>3. DOMAIN part = 1 .. e - s + 1
  BY <1>2, LenProperties
<1>4. CASE IsArray(fs, s)
  <2>1. /\ r.from = part /\ r.count = e - s + 1
        /\ r.pos = fs[s].pos /\ r.stride = fs[s + 1].pos - fs[s].pos
        /\ r.size = fs[s].size /\ r.pres = fs[s].pres
    BY <1>4 DEF RecordOf, EndOf
  <2>2. ASSUME NEW k \in 1 .. e - s + 1
        PROVE  /\ fs[s + k - 1].pos = fs[s].pos + (k - 1) * (fs[s + 1].pos - fs[s].pos)
               /\ fs[s + k - 1].size = fs[s].size /\ fs[s + k - 1].pres = fs[s].pres
    <3>1. e = RunEnd(fs, s)
      BY <1>4 DEF EndOf
    <3>2. k \in 1 .. RunEnd(fs, s) - s + 1
      BY <3>1
    <3> QED BY <1>4, <3>2, ArrayLies
  <2> HIDE DEF r, part, e
  <2>3. ASSUME NEW k \in DOMAIN part
        PROVE  /\ part[k].pos = r.pos + (k - 1) * r.stride
               /\ part[k].size = r.size /\ part[k].pres = r.pres
    <3>1. k \in 1 .. e - s + 1
      BY <1>3
    <3>2. part[k] = fs[s + k - 1]
      BY <1>2, <3>1
    <3> QED BY <2>1, <2>2, <3>1, <3>2
  <2>4. r.from = part /\ Len(r.from) = r.count
    BY <1>2, <2>1
  <2> QED BY <2>3, <2>4 DEF HoldsRun, r, part, e
<1>5. CASE ~IsArray(fs, s)
  <2>1. /\ r.from = <<fs[s]>> /\ r.count = 1 /\ r.stride = 0
        /\ r.pos = fs[s].pos /\ r.size = fs[s].size /\ r.pres = fs[s].pres
    BY <1>5 DEF RecordOf
  <2>2. e = s
    BY <1>5 DEF EndOf
  <2> DEFINE alone == <<fs[s]>>
  <2>3. fs[s] \in S /\ fs[s].pos \in Int
    BY <1>1 DEF Laid
  <2>4. alone \in Seq(S) /\ Len(alone) = 1 /\ alone[1] = fs[s] /\ DOMAIN alone = 1 .. 1
    BY <2>3
  <2> HIDE DEF alone, r, part, e
  <2>5. part = alone
    <3>1. Len(part) = 1 /\ s + 1 - 1 = s /\ 1 \in 1 .. e - s + 1
      BY <1>1, <1>2, <2>2
    <3>2. part[1] = fs[s]
      <4>1. part[1] = fs[s + 1 - 1]
        BY <1>2, <3>1
      <4> QED BY <3>1, <4>1
    <3>3. \A i \in 1 .. Len(part) : part[i] = alone[i]
      BY <2>4, <3>1, <3>2
    <3> QED BY <1>2, <2>4, <3>1, <3>3, SeqEqual
  <2>6. r.from = part /\ Len(r.from) = r.count
    BY <2>1, <2>4, <2>5 DEF alone
  <2>7. ASSUME NEW k \in DOMAIN r.from
        PROVE  /\ r.from[k].pos = r.pos + (k - 1) * r.stride
               /\ r.from[k].size = r.size /\ r.from[k].pres = r.pres
    <3>1. k = 1 /\ r.from[k] = fs[s]
      BY <2>4, <2>5, <2>6
    <3> DEFINE p == fs[s].pos
    <3>2. p \in Int
      BY <2>3
    <3> HIDE DEF p
    <3>3. p + (1 - 1) * 0 = p
      BY <3>2
    <3> QED BY <2>1, <3>1, <3>3 DEF p
  <2> QED BY <2>6, <2>7 DEF HoldsRun, part, e, r
<1> QED BY <1>4, <1>5

(* Folding fields into arrays loses and moves none.                        *)
LEMMA FieldsAreKept ==
    ASSUME NEW S, NEW fs \in Seq(S), Laid(S)
    PROVE  HoldsAll(Collapse(fs), fs)
<1> DEFINE n == Len(fs)
           starts == Starts(fs)
           m == Cardinality(starts)
           a(k) == Nth(starts, k)
           b(k) == EndOf(fs, a(k))
           rs == Collapse(fs)
           seqs == [i \in DOMAIN rs |-> rs[i].from]
           ends == [k \in 0 .. m |-> IF k = 0 THEN 0 ELSE b(k)]
<1>1. n \in Nat
  OBVIOUS
<1>2. /\ m \in Nat /\ (m = 0 <=> n = 0)
      /\ \A k \in 1 .. m : /\ a(k) \in 1 .. n /\ b(k) \in a(k) .. n
                           /\ k = 1 => a(k) = 1
                           /\ k < m => a(k + 1) = b(k) + 1
                           /\ k = m => b(k) = n
  BY RecordsMeet
<1>3. rs = [k \in 1 .. m |-> RecordOf(fs, a(k))]
  BY DEF Collapse, RecordOf
<1> HIDE DEF rs
<1>4. DOMAIN rs = 1 .. m /\ \A k \in 1 .. m : HoldsRun(fs, a(k), rs[k])
  <2>1. \A k \in 1 .. m : a(k) \in 1 .. Len(fs)
    BY <1>2
  <2> HIDE DEF m, a
  <2> QED BY <1>3, <2>1, RecordIs
<1> HIDE DEF n, m, starts, a, b
<1>5. \A i \in DOMAIN rs :
         /\ Len(rs[i].from) = rs[i].count
         /\ \A k \in DOMAIN rs[i].from :
               /\ rs[i].from[k].pos = rs[i].pos + (k - 1) * rs[i].stride
               /\ rs[i].from[k].size = rs[i].size /\ rs[i].from[k].pres = rs[i].pres
  BY <1>4 DEF HoldsRun
<1>6. \A k \in 1 .. m : seqs[k] = SubSeq(fs, a(k), b(k))
  BY <1>4 DEF HoldsRun, b
<1>7. Len(seqs) = m
  <2> DEFINE part(k) == rs[k].from
  <2>1. seqs = [k \in 1 .. m |-> part(k)]
    BY <1>4
  <2> HIDE DEF part, seqs
  <2>2. DOMAIN seqs = 1 .. m
    BY <2>1
  <2> QED BY <1>2, <2>1, <2>2
<1>8. FlattenSeq(seqs) = fs
  <2>1. CASE m = 0
    <3>1. FlattenSeq(seqs) = seqs
      BY <1>7, <2>1 DEF FlattenSeq
    <3>2. seqs = <<>>
      BY <1>4, <2>1
    <3>3. fs = <<>>
      BY <1>2, <2>1, EmptySeq DEF n
    <3> QED BY <3>1, <3>2, <3>3
  <2>2. CASE m # 0
    <3>1. m \in Nat \ {0} /\ m \in 1 .. m /\ 0 \in 0 .. m /\ m \in 0 .. m
      BY <1>2, <2>2
    <3>2. ends \in [0 .. m -> 0 .. n]
      <4>1. ASSUME NEW k \in 0 .. m PROVE (IF k = 0 THEN 0 ELSE b(k)) \in 0 .. n
        <5>1. CASE k = 0
          BY <1>1, <5>1
        <5>2. CASE k # 0
          <6>1. k \in 1 .. m
            BY <1>2, <5>2
          <6>2. a(k) \in 1 .. n /\ b(k) \in a(k) .. n
            BY <1>2, <6>1
          <6> QED BY <1>1, <5>2, <6>2
        <5> QED BY <5>1, <5>2
      <4> QED BY <4>1
    <3>3. ends[0] = 0 /\ ends[m] = n
      BY <1>2, <2>2, <3>1
    <3>4. ASSUME NEW k \in 1 .. m
          PROVE  ends[k - 1] <= ends[k] /\ seqs[k] = SubSeq(fs, ends[k - 1] + 1, ends[k])
      <4>1. k \in 0 .. m /\ k - 1 \in 0 .. m /\ k # 0
        BY <1>2
      <4>2. ends[k] = b(k) /\ a(k) \in 1 .. n /\ b(k) \in a(k) .. n
        BY <1>2, <4>1
      <4>3. ends[k - 1] = a(k) - 1
        <5>1. CASE k = 1
          BY <1>2, <3>3, <5>1
        <5>2. CASE k # 1
          <6>1. k - 1 \in 1 .. m /\ k - 1 < m /\ (k - 1) + 1 = k /\ k - 1 # 0
            BY <1>2, <5>2
          <6>2. ends[k - 1] = b(k - 1)
            BY <4>1, <6>1
          <6>3. a((k - 1) + 1) = b(k - 1) + 1 /\ b(k - 1) \in a(k - 1) .. n /\ a(k - 1) \in 1 .. n
            BY <1>2, <6>1
          <6>4. a(k) = b(k - 1) + 1
            BY <6>1, <6>3
          <6> QED BY <6>2, <6>3, <6>4
        <5> QED BY <5>1, <5>2
      <4>4. ends[k - 1] + 1 = a(k) /\ ends[k - 1] <= ends[k]
        BY <4>2, <4>3
      <4> QED BY <1>6, <4>2, <4>4
    <3> HIDE DEF ends, seqs
    <3>5. FlattenSeq(seqs) = SubSeq(fs, 1, ends[m])
      BY <1>7, <3>1, <3>2, <3>3, <3>4, FlattenIs DEF n
    <3>6. SubSeq(fs, 1, n) = fs
      BY SubSeqFull DEF n
    <3> QED BY <3>3, <3>5, <3>6
  <2> QED BY <2>1, <2>2
<1> QED BY <1>5, <1>8 DEF HoldsAll, rs

(* The compiler gives up over names only when two records share both the   *)
(* presentation and the position.                                          *)
LEMMA NamesCollideForTwins == ASSUME NEW rs, Collide(Named(rs)) PROVE Twins(rs)
<1> DEFINE pending == {i \in DOMAIN rs : ~Alone(rs, i)}
           BySvc(i) == \A j \in pending : j # i => rs[j].svc # rs[i].svc
           Name(i) == IF i \notin pending THEN <<"presentation", rs[i].pres>>
                      ELSE IF BySvc(i) THEN <<"service", rs[i].svc>>
                      ELSE <<"position", <<rs[i].pres, rs[i].pos>>>>
<1>1. Named(rs) = [i \in DOMAIN rs |-> Name(i)]
  BY DEF Named
<1> HIDE DEF Name
<1>2. PICK i \in DOMAIN rs, j \in DOMAIN rs : i # j /\ Name(i) = Name(j)
  BY <1>1 DEF Collide
<1>3. \A k \in DOMAIN rs :
         /\ k \notin pending => Name(k) = <<"presentation", rs[k].pres>>
         /\ k \in pending /\ BySvc(k) => Name(k) = <<"service", rs[k].svc>>
         /\ k \in pending /\ ~BySvc(k) => Name(k) = <<"position", <<rs[k].pres, rs[k].pos>>>>
  BY DEF Name
<1>4. CASE i \notin pending
  <2>1. Name(i)[1] = "presentation" /\ Name(i)[2] = rs[i].pres
    BY <1>3, <1>4
  <2>2. j \notin pending
    <3>1. SUFFICES ASSUME j \in pending PROVE FALSE
      OBVIOUS
    <3>2. Name(j)[1] = "service" \/ Name(j)[1] = "position"
      BY <1>3, <3>1
    <3> QED BY <1>2, <2>1, <3>2
  <2>3. Name(j)[2] = rs[j].pres
    BY <1>3, <2>2
  <2>4. Alone(rs, i)
    BY <1>4
  <2> QED BY <1>2, <2>1, <2>3, <2>4 DEF Alone
<1>5. CASE i \in pending /\ BySvc(i)
  <2>1. Name(i)[1] = "service" /\ Name(i)[2] = rs[i].svc
    BY <1>3, <1>5
  <2>2. j \in pending /\ BySvc(j)
    <3>1. SUFFICES ASSUME ~(j \in pending /\ BySvc(j)) PROVE FALSE
      OBVIOUS
    <3>2. Name(j)[1] = "presentation" \/ Name(j)[1] = "position"
      BY <1>3, <3>1
    <3> QED BY <1>2, <2>1, <3>2
  <2>3. Name(j)[2] = rs[j].svc
    BY <1>3, <2>2
  <2>4. rs[j].svc # rs[i].svc
    BY <1>2, <1>5, <2>2
  <2> QED BY <1>2, <2>1, <2>3, <2>4
<1>6. CASE i \in pending /\ ~BySvc(i)
  <2>1. Name(i)[1] = "position" /\ Name(i)[2] = <<rs[i].pres, rs[i].pos>>
    BY <1>3, <1>6
  <2>2. j \in pending /\ ~BySvc(j)
    <3>1. SUFFICES ASSUME ~(j \in pending /\ ~BySvc(j)) PROVE FALSE
      OBVIOUS
    <3>2. Name(j)[1] = "presentation" \/ Name(j)[1] = "service"
      BY <1>3, <3>1
    <3> QED BY <1>2, <2>1, <3>2
  <2>3. Name(j)[2] = <<rs[j].pres, rs[j].pos>>
    BY <1>3, <2>2
  <2>4. <<rs[i].pres, rs[i].pos>> = <<rs[j].pres, rs[j].pos>>
    BY <1>2, <2>1, <2>3
  <2>5. rs[i].pres = rs[j].pres /\ rs[i].pos = rs[j].pos
    BY <2>4
  <2> QED BY <1>2, <2>5 DEF Twins
<1> QED BY <1>4, <1>5, <1>6

-----------------------------------------------------------------------------
(* The database: what a group may list.                                    *)
DbFields ==
    {[svc |-> p.svc, pres |-> p.pres, pos |-> b, size |-> p.size] : p \in Preps, b \in Positions}
CompilerTypeOK == preps \in Seq(DbFields) /\ table \in Seq(Rows)

(* A group that is well typed is compiled whole.                           *)
LEMMA TypedGroupIsWhole == CompilerTypeOK => GroupIsWhole
<1> SUFFICES ASSUME CompilerTypeOK PROVE GroupIsWhole
  OBVIOUS
<1> DEFINE S == DbFields
           fs == ByPosition(Built(preps))
           rs == Collapse(fs)
<1>1. Laid(S)
  BY CompilerAssumption DEF Laid, DbFields
<1>2. Built(preps) \in Seq(S)
  BY BuiltIs DEF CompilerTypeOK
<1>3. fs \in Seq(S)
  BY <1>2, ByPositionIs
<1> HIDE DEF S
<1>4. HoldsAll(rs, fs)
  BY <1>1, <1>3, FieldsAreKept
<1>5. DecodedAsDeclared
  BY ConversionIsKept DEF CompilerTypeOK
<1>6. Collide(Named(rs)) => Twins(rs)
  BY NamesCollideForTwins
<1> QED BY <1>4, <1>5, <1>6 DEF GroupIsWhole

(* The compiler begins with an empty database.                             *)
LEMMA CompilerStarts == CompilerInit => CompilerTypeOK
BY DEF CompilerInit, CompilerTypeOK

(* A database is listed field by field and row by row.                     *)
LEMMA ListingKeepsCompiler == CompilerTypeOK /\ CompilerNext => CompilerTypeOK'
<1> SUFFICES ASSUME CompilerTypeOK, CompilerNext PROVE CompilerTypeOK'
  OBVIOUS
<1>1. preps \in Seq(DbFields) /\ table \in Seq(Rows)
  BY DEF CompilerTypeOK
<1>2. CASE AddPrep
  <2>1. PICK p \in Preps, b \in Positions :
           preps' = Append(preps, [svc |-> p.svc, pres |-> p.pres, pos |-> b, size |-> p.size])
    BY <1>2 DEF AddPrep
  <2>2. [svc |-> p.svc, pres |-> p.pres, pos |-> b, size |-> p.size] \in DbFields
    BY DEF DbFields
  <2>3. preps' \in Seq(DbFields)
    BY <1>1, <2>1, <2>2, AppendProperties
  <2>4. table' = table
    BY <1>2 DEF AddPrep
  <2>5. preps' \in Seq(DbFields) /\ table' \in Seq(Rows)
    BY <1>1, <2>3, <2>4
  <2> QED BY <2>5 DEF CompilerTypeOK, DbFields
<1>3. CASE AddRow
  <2>1. PICK r \in Rows : table' = Append(table, r)
    BY <1>3 DEF AddRow
  <2>2. table' \in Seq(Rows)
    BY <1>1, <2>1, AppendProperties
  <2>3. preps' = preps
    BY <1>3 DEF AddRow
  <2>4. preps' \in Seq(DbFields) /\ table' \in Seq(Rows)
    BY <1>1, <2>2, <2>3
  <2> QED BY <2>4 DEF CompilerTypeOK, DbFields
<1> QED BY <1>2, <1>3 DEF CompilerNext

(* Nothing else writes it.                                                 *)
LEMMA RestKeepsCompiler == CompilerTypeOK /\ UNCHANGED compilerVars => CompilerTypeOK'
BY DEF CompilerTypeOK, compilerVars, DbFields

(* Every group the compiler accepts is whole, for any database, any widths *)
(* and any bounds: no field is lost or moved by the arrays, names collide  *)
(* only for twins, and a conversion means what the database says           *)
(* (compile_catalog in script/uds_catalog.py).                             *)
THEOREM CompiledGroupsAreWhole == ConfigSpec => []GroupIsWhole
<1>1. ConfigInit => CompilerTypeOK
  BY CompilerStarts DEF ConfigInit
<1>2. CompilerTypeOK /\ [ConfigNext]_configVars => CompilerTypeOK'
  <2> SUFFICES ASSUME CompilerTypeOK, [ConfigNext]_configVars PROVE CompilerTypeOK'
    OBVIOUS
  <2>1. CASE UNCHANGED compilerVars
    BY <2>1, RestKeepsCompiler
  <2>2. CASE CompilerNext
    BY <2>2, ListingKeepsCompiler
  <2>3. CASE UNCHANGED configVars
    BY <2>1, <2>3 DEF configVars
  <2> QED BY <2>1, <2>2, <2>3 DEF ConfigNext, Format, Compiler, Gateway, Logger, Log
<1> QED BY <1>1, <1>2, TypedGroupIsWhole, PTL DEF ConfigSpec

-----------------------------------------------------------------------------
(* The catalog on flash.  A pool takes one item more.                      *)
Grow(pool, x) == IF x \in ToSet(pool) THEN pool ELSE Append(pool, x)

(* It has the new item and those it had.                                   *)
LEMMA GrowIs ==
    ASSUME NEW S, NEW pool \in Seq(S), NEW x \in S
    PROVE  Grow(pool, x) \in Seq(S) /\ ToSet(Grow(pool, x)) = ToSet(pool) \cup {x}
<1> DEFINE n == Len(pool)
           more == Append(pool, x)
<1>1. n \in Nat /\ DOMAIN pool = 1 .. n
  OBVIOUS
<1>2. /\ more \in Seq(S) /\ Len(more) = n + 1
      /\ \A i \in 1 .. n : more[i] = pool[i]
      /\ more[n + 1] = x
  BY AppendProperties
<1>3. DOMAIN more = 1 .. n + 1
  BY <1>2, LenProperties
<1>4. CASE x \in ToSet(pool)
  BY <1>4 DEF Grow
<1>5. CASE x \notin ToSet(pool)
  <2>1. Grow(pool, x) = more
    BY <1>5 DEF Grow
  <2> HIDE DEF more, n
  <2>2. ToSet(more) = ToSet(pool) \cup {x}
    <3>1. ToSet(more) = {more[i] : i \in 1 .. n + 1} /\ ToSet(pool) = {pool[i] : i \in 1 .. n}
      BY <1>1, <1>3 DEF ToSet
    <3>2. n + 1 \in 1 .. n + 1 /\ \A i \in 1 .. n : i \in 1 .. n + 1
      BY <1>1
    <3>3. \A i \in 1 .. n + 1 : i \in 1 .. n \/ i = n + 1
      BY <1>1
    <3> QED BY <1>2, <3>1, <3>2, <3>3
  <2> QED BY <1>2, <2>1, <2>2
<1> QED BY <1>4, <1>5

(* A pool has what the walk met, and nothing else.                         *)
LEMMA DistinctIs ==
    ASSUME NEW S, NEW s \in Seq(S)
    PROVE  Distinct(s) \in Seq(S) /\ ToSet(Distinct(s)) = ToSet(s)
<1> DEFINE n == Len(s)
           V == Seq(S)
           empty == <<>>
           step == [x \in (0 .. n - 1) \X V |-> Grow(x[2], s[x[1] + 1])]
           Rule(f) == f = [i \in 0 .. n |-> IF i = 0 THEN <<>> ELSE Grow(f[i - 1], s[i])]
           chosen == CHOOSE f : Rule(f)
<1>1. n \in Nat /\ DOMAIN s = 1 .. n /\ \A i \in 1 .. n : s[i] \in S
  OBVIOUS
<1>2. empty \in V
  OBVIOUS
<1> HIDE DEF n
<1>3. ASSUME NEW i \in 0 .. n - 1, NEW v \in V
      PROVE  step[<<i, v>>] = Grow(v, s[i + 1]) /\ step[<<i, v>>] \in V
  <2>1. <<i, v>> \in (0 .. n - 1) \X V
    OBVIOUS
  <2>2. i + 1 \in 1 .. n
    BY <1>1
  <2>3. Grow(v, s[i + 1]) \in V
    BY <1>1, <2>2, GrowIs
  <2> HIDE DEF V
  <2>4. step[<<i, v>>] = Grow(v, s[i + 1])
    BY <2>1
  <2> QED BY <2>3, <2>4
<1>4. \A i \in 0 .. n - 1, v \in V : step[<<i, v>>] \in V
  BY <1>3
<1> HIDE DEF step, V, empty
<1>5. PICK f : Recursive(f, V, empty, step, n)
  BY <1>1, <1>2, <1>4, RecursionUpTo
<1>6. Rule(f)
  <2>1. f \in [0 .. n -> V] /\ f[0] = empty
    BY <1>5 DEF Recursive
  <2>2. ASSUME NEW i \in 0 .. n
        PROVE  f[i] = IF i = 0 THEN <<>> ELSE Grow(f[i - 1], s[i])
    <3>1. CASE i = 0
      BY <2>1, <3>1 DEF empty
    <3>2. CASE i # 0
      <4>1. i - 1 \in 0 .. n - 1 /\ i - 1 \in 0 .. n /\ (i - 1) + 1 = i
        BY <1>1, <3>2
      <4>2. f[(i - 1) + 1] = step[<<i - 1, f[i - 1]>>] /\ f[i - 1] \in V
        BY <1>5, <2>1, <4>1 DEF Recursive
      <4>3. step[<<i - 1, f[i - 1]>>] = Grow(f[i - 1], s[(i - 1) + 1])
        BY <1>3, <4>1, <4>2
      <4> QED BY <3>2, <4>1, <4>2, <4>3
    <3> QED BY <3>1, <3>2
  <2>3. f = [i \in 0 .. n |-> f[i]]
    BY <2>1
  <2>4. [i \in 0 .. n |-> f[i]]
          = [i \in 0 .. n |-> IF i = 0 THEN <<>> ELSE Grow(f[i - 1], s[i])]
    BY <2>2
  <2> QED BY <2>3, <2>4
<1>7. Distinct(s) = chosen[n]
  BY DEF Distinct, Grow, n
<1> HIDE DEF Rule
<1>8. Rule(chosen)
  BY <1>6
<1> HIDE DEF chosen
<1>9. \A i \in 0 .. n : chosen[i] = IF i = 0 THEN <<>> ELSE Grow(chosen[i - 1], s[i])
  BY <1>8 DEF Rule
<1> DEFINE Good(i) == chosen[i] \in Seq(S) /\ ToSet(chosen[i]) = {s[j] : j \in 1 .. i}
           T == {i \in Nat : i <= n => Good(i)}
<1>10. 0 \in T
  <2>1. 0 \in 0 .. n
    BY <1>1
  <2>2. chosen[0] = empty
    BY <1>9, <2>1 DEF empty
  <2>3. empty \in Seq(S) /\ ToSet(empty) = {}
    BY DEF ToSet, empty
  <2>4. {s[j] : j \in 1 .. 0} = {}
    OBVIOUS
  <2> QED BY <2>2, <2>3, <2>4
<1>11. ASSUME NEW i \in Nat, i \in T PROVE i + 1 \in T
  <2>1. SUFFICES ASSUME i + 1 <= n PROVE Good(i + 1)
    OBVIOUS
  <2>2. i + 1 \in 0 .. n /\ i + 1 # 0 /\ (i + 1) - 1 = i /\ i + 1 \in 1 .. n /\ i <= n
    BY <1>1, <2>1
  <2>3. chosen[i + 1] = Grow(chosen[i], s[i + 1])
    <3>1. chosen[i + 1] = IF i + 1 = 0 THEN <<>> ELSE Grow(chosen[(i + 1) - 1], s[i + 1])
      BY <1>9, <2>2
    <3> QED BY <2>2, <3>1
  <2>4. Good(i)
    BY <1>11, <2>2
  <2>5. Grow(chosen[i], s[i + 1]) \in Seq(S)
        /\ ToSet(Grow(chosen[i], s[i + 1])) = ToSet(chosen[i]) \cup {s[i + 1]}
    <3>1. s[i + 1] \in S /\ chosen[i] \in Seq(S)
      BY <1>1, <2>2, <2>4
    <3> DEFINE pool == chosen[i]
               x == s[i + 1]
    <3>2. pool \in Seq(S) /\ x \in S
      BY <3>1
    <3> HIDE DEF Good, pool, x
    <3>3. Grow(pool, x) \in Seq(S) /\ ToSet(Grow(pool, x)) = ToSet(pool) \cup {x}
      BY <3>2, GrowIs
    <3> QED BY <3>3 DEF pool, x
  <2>6. {s[j] : j \in 1 .. i + 1} = {s[j] : j \in 1 .. i} \cup {s[i + 1]}
    <3>1. \A j \in 1 .. i + 1 : j \in 1 .. i \/ j = i + 1
      BY <2>2
    <3>2. i + 1 \in 1 .. i + 1 /\ \A j \in 1 .. i : j \in 1 .. i + 1
      BY <2>2
    <3> QED BY <3>1, <3>2
  <2> QED BY <2>3, <2>4, <2>5, <2>6
<1> HIDE DEF T, Good
<1>12. Nat \subseteq T
  BY <1>10, <1>11, Induction
<1>13. Good(n)
  <2>1. n \in T /\ n <= n
    BY <1>1, <1>12
  <2> QED BY <2>1 DEF T
<1>14. {s[j] : j \in 1 .. n} = ToSet(s)
  BY <1>1 DEF ToSet
<1> QED BY <1>7, <1>13, <1>14 DEF Good

(* An item has its place in the pool.                                      *)
LEMMA AtIs ==
    ASSUME NEW pool, NEW x, x \in ToSet(pool)
    PROVE  At(pool, x) \in DOMAIN pool /\ pool[At(pool, x)] = x
<1>1. \E i \in DOMAIN pool : pool[i] = x
  BY DEF ToSet
<1> QED BY <1>1 DEF At

(* F[i] is the concatenation of the first i parts.                         *)
Flat(F, parts, S) ==
    /\ F \in [0 .. Len(parts) -> Seq(S)] /\ F[0] = <<>>
    /\ \A i \in 0 .. Len(parts) - 1 : F[i + 1] = F[i] \o parts[i + 1]

(* There is one.                                                           *)
LEMMA FlatExists ==
    ASSUME NEW S, NEW parts \in Seq(Seq(S))
    PROVE  \E F : Flat(F, parts, S)
<1> DEFINE n == Len(parts)
           V == Seq(S)
           empty == <<>>
           step == [x \in (0 .. n - 1) \X V |-> x[2] \o parts[x[1] + 1]]
<1>1. n \in Nat /\ \A i \in 1 .. n : parts[i] \in Seq(S)
  <2>1. n \in Nat
    OBVIOUS
  <2>2. \A i \in 1 .. n : parts[i] \in Seq(S)
    BY ElementOfSeq
  <2> QED BY <2>1, <2>2
<1>2. empty \in V
  OBVIOUS
<1> HIDE DEF n
<1>3. ASSUME NEW i \in 0 .. n - 1, NEW v \in V
      PROVE  step[<<i, v>>] = v \o parts[i + 1] /\ step[<<i, v>>] \in V
  <2>1. <<i, v>> \in (0 .. n - 1) \X V
    OBVIOUS
  <2>2. i + 1 \in 1 .. n
    BY <1>1
  <2>3. parts[i + 1] \in Seq(S)
    BY <1>1, <2>2
  <2>4. v \o parts[i + 1] \in V
    BY <2>3, ConcatProperties
  <2> HIDE DEF V
  <2>5. step[<<i, v>>] = v \o parts[i + 1]
    BY <2>1
  <2> QED BY <2>4, <2>5
<1>4. \A i \in 0 .. n - 1, v \in V : step[<<i, v>>] \in V
  BY <1>3
<1> HIDE DEF step, V, empty
<1>5. PICK f : Recursive(f, V, empty, step, n)
  BY <1>1, <1>2, <1>4, RecursionUpTo
<1>6. f \in [0 .. n -> V] /\ f[0] = empty
  BY <1>5 DEF Recursive
<1>7. ASSUME NEW i \in 0 .. n - 1 PROVE f[i + 1] = f[i] \o parts[i + 1]
  <2>1. i \in 0 .. n
    BY <1>1
  <2>2. f[i] \in V
    BY <1>6, <2>1
  <2>3. f[i + 1] = step[<<i, f[i]>>]
    BY <1>5 DEF Recursive
  <2> QED BY <1>3, <2>2, <2>3
<1> QED BY <1>6, <1>7 DEF Flat, V, empty, n

(* It is what FlattenSeq computes.                                         *)
LEMMA FlatIs ==
    ASSUME NEW S, NEW parts \in Seq(Seq(S)), NEW F, Flat(F, parts, S)
    PROVE  FlattenSeq(parts) = F[Len(parts)]
<1> DEFINE n == Len(parts)
           Rule(f) == f = [i \in 1 .. n |-> IF i = 1 THEN parts[i] ELSE f[i - 1] \o parts[i]]
           G == [i \in 1 .. n |-> F[i]]
           chosen == CHOOSE f : Rule(f)
<1>1. n \in Nat /\ \A i \in 1 .. n : parts[i] \in Seq(S)
  <2>1. n \in Nat
    OBVIOUS
  <2>2. \A i \in 1 .. n : parts[i] \in Seq(S)
    BY ElementOfSeq
  <2> QED BY <2>1, <2>2
<1>2. /\ F \in [0 .. n -> Seq(S)] /\ F[0] = <<>>
      /\ \A i \in 0 .. n - 1 : F[i + 1] = F[i] \o parts[i + 1]
  BY DEF Flat
<1>3. CASE n = 0
  <2>1. FlattenSeq(parts) = parts
    BY <1>3 DEF FlattenSeq
  <2>2. parts = <<>>
    BY <1>3, EmptySeq
  <2> QED BY <1>2, <1>3, <2>1, <2>2
<1>4. CASE n # 0
  <2>1. FlattenSeq(parts) = chosen[n]
    BY <1>4 DEF FlattenSeq
  <2> HIDE DEF n
  <2>2. ASSUME NEW i \in 1 .. n
        PROVE  F[i] = IF i = 1 THEN parts[i] ELSE F[i - 1] \o parts[i]
    <3>1. i - 1 \in 0 .. n - 1 /\ (i - 1) + 1 = i
      BY <1>1
    <3>2. F[(i - 1) + 1] = F[i - 1] \o parts[(i - 1) + 1]
      BY <1>2, <3>1
    <3>3. F[i] = F[i - 1] \o parts[i]
      BY <3>1, <3>2
    <3>4. CASE i = 1
      <4>1. F[i - 1] = <<>> /\ parts[i] \in Seq(S)
        BY <1>1, <1>2, <3>4
      <4>2. <<>> \o parts[i] = parts[i]
        BY <4>1, ConcatEmptySeq
      <4> QED BY <3>3, <3>4, <4>1, <4>2
    <3> QED BY <3>3, <3>4
  <2>3. Rule(G)
    <3>1. ASSUME NEW i \in 1 .. n
          PROVE  F[i] = IF i = 1 THEN parts[i] ELSE G[i - 1] \o parts[i]
      <4>1. CASE i = 1
        BY <2>2, <4>1
      <4>2. CASE i # 1
        <5>1. i - 1 \in 1 .. n
          BY <1>1, <4>2
        <5>2. G[i - 1] = F[i - 1]
          BY <5>1
        <5> HIDE DEF G
        <5> QED BY <2>2, <4>2, <5>2
      <4> QED BY <4>1, <4>2
    <3>2. [i \in 1 .. n |-> F[i]]
            = [i \in 1 .. n |-> IF i = 1 THEN parts[i] ELSE G[i - 1] \o parts[i]]
      BY <3>1
    <3> QED BY <3>2
  <2> HIDE DEF Rule, G
  <2>4. Rule(chosen)
    BY <2>3
  <2> HIDE DEF chosen
  <2>5. \A i \in 1 .. n : chosen[i] = IF i = 1 THEN parts[i] ELSE chosen[i - 1] \o parts[i]
    BY <2>4 DEF Rule
  <2> DEFINE T == {i \in Nat : i + 1 <= n => chosen[i + 1] = F[i + 1]}
  <2>6. 0 \in T
    <3>1. 1 \in 1 .. n /\ 0 + 1 = 1
      BY <1>1, <1>4
    <3>2. chosen[1] = parts[1] /\ F[1] = parts[1]
      BY <2>2, <2>5, <3>1
    <3> QED BY <3>1, <3>2
  <2>7. ASSUME NEW i \in Nat, i \in T PROVE i + 1 \in T
    <3>1. SUFFICES ASSUME (i + 1) + 1 <= n PROVE chosen[(i + 1) + 1] = F[(i + 1) + 1]
      OBVIOUS
    <3> DEFINE k == (i + 1) + 1
    <3>2. k \in 1 .. n /\ k # 1 /\ k - 1 = i + 1 /\ i + 1 <= n
      BY <1>1, <3>1
    <3>3. chosen[k - 1] = F[k - 1]
      BY <2>7, <3>2
    <3> HIDE DEF k
    <3>4. chosen[k] = chosen[k - 1] \o parts[k] /\ F[k] = F[k - 1] \o parts[k]
      BY <2>2, <2>5, <3>2
    <3>5. chosen[k] = F[k]
      BY <3>3, <3>4
    <3> QED BY <3>5 DEF k
  <2> HIDE DEF T
  <2>8. Nat \subseteq T
    BY <2>6, <2>7, Induction
  <2>9. chosen[n] = F[n]
    <3>1. n - 1 \in Nat /\ (n - 1) + 1 = n /\ n <= n
      BY <1>1, <1>4
    <3>2. n - 1 \in T
      BY <2>8, <3>1
    <3>3. (n - 1) + 1 <= n => chosen[(n - 1) + 1] = F[(n - 1) + 1]
      BY <3>2 DEF T
    <3> QED BY <3>1, <3>3
  <2> QED BY <2>1, <2>9 DEF n
<1> QED BY <1>3, <1>4

(* The first parts are flattened to a beginning of the whole.              *)
LEMMA FlatPrefix ==
    ASSUME NEW S, NEW parts \in Seq(Seq(S)), NEW F, Flat(F, parts, S), NEW i \in 0 .. Len(parts)
    PROVE  FlattenSeq(SubSeq(parts, 1, i)) = F[i]
<1> DEFINE n == Len(parts)
           first == SubSeq(parts, 1, i)
           G == [k \in 0 .. i |-> F[k]]
<1>1. n \in Nat /\ \A k \in 1 .. n : parts[k] \in Seq(S)
  <2>1. n \in Nat
    OBVIOUS
  <2>2. \A k \in 1 .. n : parts[k] \in Seq(S)
    BY ElementOfSeq
  <2> QED BY <2>1, <2>2
<1>2. /\ F \in [0 .. n -> Seq(S)] /\ F[0] = <<>>
      /\ \A k \in 0 .. n - 1 : F[k + 1] = F[k] \o parts[k + 1]
  BY DEF Flat
<1>3. i \in 0 .. n
  OBVIOUS
<1> HIDE DEF n
<1>4. /\ first \in Seq(Seq(S)) /\ Len(first) = i /\ \A k \in 1 .. i : first[k] = parts[k]
  <2>1. \A k \in 1 .. i : parts[k] \in Seq(S)
    BY <1>1, <1>3
  <2>2. 1 \in Int /\ i \in Int
    BY <1>3
  <2>3. /\ first \in Seq(Seq(S)) /\ Len(first) = IF 1 <= i THEN i - 1 + 1 ELSE 0
        /\ \A k \in 1 .. i - 1 + 1 : first[k] = parts[1 + k - 1]
    BY <2>1, <2>2, SubSeqProperties
  <2>4. i - 1 + 1 = i /\ \A k \in 1 .. i : 1 + k - 1 = k
    BY <1>3
  <2>5. Len(first) = i
    BY <1>3, <2>3
  <2>6. \A k \in 1 .. i : first[k] = parts[k]
    BY <2>3, <2>4
  <2> QED BY <2>3, <2>5, <2>6
<1> HIDE DEF first
<1>5. Flat(G, first, S)
  <2>1. 0 .. i \subseteq 0 .. n
    BY <1>1, <1>3
  <2>2. G \in [0 .. i -> Seq(S)]
    BY <1>2, <2>1
  <2>3. 0 \in 0 .. i
    BY <1>3
  <2>4. ASSUME NEW k \in 0 .. i - 1 PROVE G[k + 1] = G[k] \o first[k + 1]
    <3>1. k \in 0 .. n - 1 /\ k \in 0 .. i /\ k + 1 \in 0 .. i /\ k + 1 \in 1 .. i
      BY <1>1, <1>3
    <3>2. F[k + 1] = F[k] \o parts[k + 1] /\ first[k + 1] = parts[k + 1]
      BY <1>2, <1>4, <3>1
    <3>3. G[k + 1] = F[k + 1] /\ G[k] = F[k]
      BY <3>1
    <3> HIDE DEF G
    <3> QED BY <3>2, <3>3
  <2> QED BY <1>2, <1>4, <2>2, <2>3, <2>4 DEF Flat
<1>6. FlattenSeq(first) = G[i]
  BY <1>4, <1>5, FlatIs
<1>7. i \in 0 .. i
  BY <1>3
<1> QED BY <1>6, <1>7 DEF first

(* Every part lies in the whole from where it begins, and every place of   *)
(* the whole is one of a part.                                             *)
Pieces(parts, whole) ==
    /\ \A i \in 1 .. Len(parts) :
          /\ Begin(parts, i) \in Nat /\ Begin(parts, i) + Len(parts[i]) <= Len(whole)
          /\ \A k \in 1 .. Len(parts[i]) : whole[Begin(parts, i) + k] = parts[i][k]
    /\ \A p \in 1 .. Len(whole) :
          \E i \in 1 .. Len(parts) : \E k \in 1 .. Len(parts[i]) : p = Begin(parts, i) + k

(* Where part i begins: behind the i - 1 parts before it.                  *)
LEMMA BeginIs ==
    ASSUME NEW S, NEW parts \in Seq(Seq(S)), NEW F, Flat(F, parts, S), NEW i \in 1 .. Len(parts)
    PROVE  Begin(parts, i) = Len(F[i - 1])
<1>1. i - 1 \in 0 .. Len(parts)
  OBVIOUS
<1> QED BY <1>1, FlatPrefix DEF Begin

(* What FlattenSeq makes of its parts.                                     *)
LEMMA FlattenPieces ==
    ASSUME NEW S, NEW parts \in Seq(Seq(S))
    PROVE  FlattenSeq(parts) \in Seq(S) /\ Pieces(parts, FlattenSeq(parts))
<1> DEFINE n == Len(parts)
<1>1. n \in Nat /\ \A i \in 1 .. n : parts[i] \in Seq(S) /\ Len(parts[i]) \in Nat
  <2>1. n \in Nat
    OBVIOUS
  <2>2. \A i \in 1 .. n : parts[i] \in Seq(S)
    BY ElementOfSeq
  <2> QED BY <2>1, <2>2, LenProperties
<1>2. PICK F : Flat(F, parts, S)
  BY FlatExists
<1>3. /\ F \in [0 .. n -> Seq(S)] /\ F[0] = <<>>
      /\ \A i \in 0 .. n - 1 : F[i + 1] = F[i] \o parts[i + 1]
  BY <1>2 DEF Flat
<1>4. FlattenSeq(parts) = F[n] /\ \A i \in 1 .. n : Begin(parts, i) = Len(F[i - 1])
  BY <1>2, FlatIs, BeginIs
<1> HIDE DEF n
<1>5. \A i \in 0 .. n : F[i] \in Seq(S) /\ Len(F[i]) \in Nat
  BY <1>3, LenProperties
<1> DEFINE b(i) == Len(F[i - 1])
           Holds(m, i) == /\ b(i) + Len(parts[i]) <= Len(F[m])
                          /\ \A k \in 1 .. Len(parts[i]) : F[m][b(i) + k] = parts[i][k]
           Covers(m, p) == \E i \in 1 .. m : \E k \in 1 .. Len(parts[i]) : p = b(i) + k
           Good(m) == /\ \A i \in 1 .. m : Holds(m, i)
                      /\ \A p \in 1 .. Len(F[m]) : Covers(m, p)
           T == {m \in Nat : m <= n => Good(m)}
<1>6. 0 \in T
  <2>1. Len(F[0]) = 0
    BY <1>3, EmptySeq
  <2>2. \A p \in 1 .. Len(F[0]) : Covers(0, p)
    <3> HIDE DEF Covers
    <3> QED BY <2>1
  <2>3. \A i \in 1 .. 0 : Holds(0, i)
    OBVIOUS
  <2> QED BY <2>2, <2>3
<1>7. ASSUME NEW m \in Nat, m \in T PROVE m + 1 \in T
  <2>1. SUFFICES ASSUME m + 1 <= n PROVE Good(m + 1)
    <3> HIDE DEF Good
    <3> QED OBVIOUS
  <2>2. m \in 0 .. n - 1 /\ m \in 0 .. n /\ m + 1 \in 1 .. n /\ m + 1 \in 0 .. n /\ m <= n
        /\ (m + 1) - 1 = m
    BY <1>1, <2>1
  <2>3. Good(m)
    BY <1>7, <2>2
  <2> DEFINE old == F[m]
             part == parts[m + 1]
             new == F[m + 1]
  <2>4. new = old \o part /\ old \in Seq(S) /\ part \in Seq(S)
    BY <1>1, <1>3, <1>5, <2>2
  <2>5. /\ Len(new) = Len(old) + Len(part) /\ Len(old) \in Nat /\ Len(part) \in Nat
        /\ \A k \in 1 .. Len(old) + Len(part) :
              new[k] = IF k <= Len(old) THEN old[k] ELSE part[k - Len(old)]
    <3> HIDE DEF old, part, new
    <3> QED BY <2>4, ConcatProperties, LenProperties
  <2>6. b(m + 1) = Len(old)
    BY <2>2
  <2>7. \A i \in 1 .. m : b(i) \in Nat /\ Len(parts[i]) \in Nat
    <3>1. \A i \in 1 .. m : i - 1 \in 0 .. n /\ i \in 1 .. n
      BY <1>1, <2>2
    <3> QED BY <1>1, <1>5, <3>1
  <2>8. ASSUME NEW i \in 1 .. m PROVE Holds(m + 1, i)
    <3>1. Holds(m, i)
      BY <2>3
    <3> DEFINE at == b(i)
               len == Len(parts[i])
    <3>2. at \in Nat /\ len \in Nat /\ at + len <= Len(old)
      BY <2>7, <3>1
    <3>3. \A k \in 1 .. len : old[at + k] = parts[i][k]
      BY <3>1
    <3> HIDE DEF at, len, old, new, part
    <3>4. at + len <= Len(new)
      BY <2>5, <3>2
    <3>5. \A k \in 1 .. len : new[at + k] = old[at + k]
      <4>1. SUFFICES ASSUME NEW k \in 1 .. len PROVE new[at + k] = old[at + k]
        OBVIOUS
      <4>2. at + k \in 1 .. Len(old) + Len(part) /\ at + k <= Len(old)
        BY <2>5, <3>2
      <4> QED BY <2>5, <4>2
    <3> QED BY <3>3, <3>4, <3>5 DEF at, len, new
  <2>9. Holds(m + 1, m + 1)
    <3> HIDE DEF old, new, part
    <3>1. Len(old) + Len(part) <= Len(new)
      BY <2>5
    <3>2. \A k \in 1 .. Len(part) : new[Len(old) + k] = part[k]
      <4>1. SUFFICES ASSUME NEW k \in 1 .. Len(part) PROVE new[Len(old) + k] = part[k]
        OBVIOUS
      <4>2. Len(old) + k \in 1 .. Len(old) + Len(part) /\ ~(Len(old) + k <= Len(old))
            /\ (Len(old) + k) - Len(old) = k
        BY <2>5
      <4> QED BY <2>5, <4>2
    <3> QED BY <2>6, <3>1, <3>2 DEF new, part
  <2>10. ASSUME NEW p \in 1 .. Len(new) PROVE Covers(m + 1, p)
    <3> HIDE DEF old, new, part
    <3>1. CASE p <= Len(old)
      <4>1. p \in 1 .. Len(old)
        BY <2>5, <3>1
      <4>2. Covers(m, p)
        BY <2>3, <4>1 DEF old
      <4>3. 1 .. m \subseteq 1 .. m + 1
        BY <2>2
      <4> QED BY <4>2, <4>3
    <3>2. CASE ~(p <= Len(old))
      <4>1. p - Len(old) \in 1 .. Len(part) /\ p = Len(old) + (p - Len(old)) /\ m + 1 \in 1 .. m + 1
        BY <2>2, <2>5, <3>2
      <4> QED BY <2>6, <4>1 DEF part
    <3> QED BY <3>1, <3>2
  <2>11. \A i \in 1 .. m + 1 : i \in 1 .. m \/ i = m + 1
    BY <2>2
  <2> HIDE DEF Holds, Covers, b
  <2> QED BY <2>8, <2>9, <2>10, <2>11
<1> HIDE DEF T, Good, Holds, Covers
<1>8. Nat \subseteq T
  BY <1>6, <1>7, Induction
<1>9. Good(n)
  <2>1. n \in T /\ n <= n
    BY <1>1, <1>8
  <2> QED BY <2>1 DEF T
<1>10. ASSUME NEW i \in 1 .. n
       PROVE  /\ Begin(parts, i) \in Nat /\ Begin(parts, i) + Len(parts[i]) <= Len(F[n])
              /\ \A k \in 1 .. Len(parts[i]) : F[n][Begin(parts, i) + k] = parts[i][k]
  <2>1. i - 1 \in 0 .. n
    BY <1>1
  <2>2. Begin(parts, i) = b(i) /\ b(i) \in Nat
    BY <1>4, <1>5, <2>1
  <2>3. Holds(n, i)
    BY <1>9 DEF Good
  <2> HIDE DEF b
  <2> QED BY <2>2, <2>3 DEF Holds
<1>11. ASSUME NEW p \in 1 .. Len(F[n])
       PROVE  \E i \in 1 .. n : \E k \in 1 .. Len(parts[i]) : p = Begin(parts, i) + k
  <2>1. Covers(n, p)
    BY <1>9 DEF Good
  <2> QED BY <1>4, <2>1 DEF Covers
<1>12. F[n] \in Seq(S)
  <2>1. n \in 0 .. n
    BY <1>1
  <2> QED BY <1>5, <2>1
<1> QED BY <1>4, <1>10, <1>11, <1>12 DEF Pieces, n

(* Parts of the same lengths.                                              *)
SameLengths(parts, others) ==
    Len(parts) = Len(others) /\ \A i \in 1 .. Len(parts) : Len(parts[i]) = Len(others[i])

(* Where parts begin depends on their lengths only.                        *)
LEMMA BeginSame ==
    ASSUME NEW S, NEW R, NEW parts \in Seq(Seq(S)), NEW others \in Seq(Seq(R)),
           SameLengths(parts, others)
    PROVE  \A i \in 1 .. Len(parts) : Begin(parts, i) = Begin(others, i)
<1> DEFINE n == Len(parts)
<1>1. n \in Nat /\ n = Len(others)
      /\ \A i \in 1 .. n : parts[i] \in Seq(S) /\ others[i] \in Seq(R)
  <2>1. n \in Nat /\ n = Len(others)
    BY DEF SameLengths
  <2>2. \A i \in 1 .. n : parts[i] \in Seq(S)
    BY ElementOfSeq
  <2>3. \A i \in 1 .. Len(others) : others[i] \in Seq(R)
    BY ElementOfSeq
  <2> QED BY <2>1, <2>2, <2>3
<1>2. PICK F : Flat(F, parts, S)
  BY FlatExists
<1>3. PICK G : Flat(G, others, R)
  BY FlatExists
<1>4. \A i \in 1 .. n : Begin(parts, i) = Len(F[i - 1]) /\ Begin(others, i) = Len(G[i - 1])
  BY <1>1, <1>2, <1>3, BeginIs
<1>5. /\ F \in [0 .. n -> Seq(S)] /\ F[0] = <<>>
      /\ \A i \in 0 .. n - 1 : F[i + 1] = F[i] \o parts[i + 1]
  BY <1>2 DEF Flat
<1>6. /\ G \in [0 .. n -> Seq(R)] /\ G[0] = <<>>
      /\ \A i \in 0 .. n - 1 : G[i + 1] = G[i] \o others[i + 1]
  BY <1>1, <1>3 DEF Flat
<1> HIDE DEF n
<1>7. \A i \in 1 .. n : Len(parts[i]) = Len(others[i])
  BY DEF n, SameLengths
<1> DEFINE T == {i \in Nat : i <= n => Len(F[i]) = Len(G[i])}
<1>8. 0 \in T
  BY <1>5, <1>6
<1>9. ASSUME NEW i \in Nat, i \in T PROVE i + 1 \in T
  <2>1. SUFFICES ASSUME i + 1 <= n PROVE Len(F[i + 1]) = Len(G[i + 1])
    OBVIOUS
  <2>2. i \in 0 .. n - 1 /\ i \in 0 .. n /\ i + 1 \in 1 .. n
    BY <1>1, <2>1
  <2>3. F[i] \in Seq(S) /\ G[i] \in Seq(R) /\ parts[i + 1] \in Seq(S) /\ others[i + 1] \in Seq(R)
    BY <1>1, <1>5, <1>6, <2>2
  <2>4. Len(F[i] \o parts[i + 1]) = Len(F[i]) + Len(parts[i + 1])
    BY <2>3, ConcatProperties
  <2>5. Len(G[i] \o others[i + 1]) = Len(G[i]) + Len(others[i + 1])
    BY <2>3, ConcatProperties
  <2>6. Len(F[i]) = Len(G[i]) /\ Len(parts[i + 1]) = Len(others[i + 1])
    BY <1>1, <1>7, <1>9, <2>2
  <2>7. F[i + 1] = F[i] \o parts[i + 1] /\ G[i + 1] = G[i] \o others[i + 1]
    BY <1>5, <1>6, <2>2
  <2> QED BY <2>4, <2>5, <2>6, <2>7
<1> HIDE DEF T
<1>10. Nat \subseteq T
  BY <1>8, <1>9, Induction
<1>11. ASSUME NEW i \in 1 .. n PROVE Begin(parts, i) = Begin(others, i)
  <2>1. i - 1 \in Nat /\ i - 1 <= n
    BY <1>1
  <2>2. i - 1 \in T
    BY <1>10, <2>1
  <2>3. Len(F[i - 1]) = Len(G[i - 1])
    BY <2>1, <2>2 DEF T
  <2> QED BY <1>4, <2>3
<1> QED BY <1>11 DEF n

(* The entries of the name index, and the order they are kept in.          *)
IndexEntries == [hash : Int, name : Nat, kind : Kinds, idx : Nat]

(* Kinds are numbered apart.                                               *)
LEMMA KindNumbers ==
    /\ \A k \in Kinds : KindNo(k) \in Nat
    /\ \A k, l \in Kinds : KindNo(k) = KindNo(l) => k = l
<1>1. KindNo("ecu") = 1
  BY DEF KindNo
<1>2. KindNo("group") = 2
  BY DEF KindNo
<1>3. KindNo("field") = 3
  BY DEF KindNo
<1> QED BY <1>1, <1>2, <1>3 DEF Kinds

(* It is a strict and total order.                                         *)
LEMMA BeforeIsOrder ==
    /\ \A a \in IndexEntries : ~Before(a, a)
    /\ \A a, b, c \in IndexEntries : Before(a, b) /\ Before(b, c) => Before(a, c)
    /\ \A a, b \in IndexEntries : a # b => Before(a, b) \/ Before(b, a)
<1> DEFINE Less(p, q) == \/ p[1] < q[1]
                         \/ p[1] = q[1] /\ p[2] < q[2]
                         \/ p[1] = q[1] /\ p[2] = q[2] /\ p[3] < q[3]
                         \/ p[1] = q[1] /\ p[2] = q[2] /\ p[3] = q[3] /\ p[4] < q[4]
           Key(e) == <<e.hash, KindNo(e.kind), e.idx, e.name>>
           Keys == Int \X Int \X Int \X Int
<1>1. \A e \in IndexEntries : /\ e.hash \in Int /\ e.name \in Nat /\ e.kind \in Kinds /\ e.idx \in Nat
                         /\ e = [hash |-> e.hash, name |-> e.name, kind |-> e.kind, idx |-> e.idx]
  BY DEF IndexEntries
<1>2. \A e \in IndexEntries : Key(e) \in Keys
  <2>1. \A e \in IndexEntries : KindNo(e.kind) \in Int /\ e.hash \in Int /\ e.idx \in Int /\ e.name \in Int
    BY <1>1, KindNumbers
  <2> QED BY <2>1
<1>3. \A a, b \in IndexEntries : Before(a, b) <=> Less(Key(a), Key(b))
  <2>1. SUFFICES ASSUME NEW a \in IndexEntries, NEW b \in IndexEntries
                 PROVE  Before(a, b) <=> Less(Key(a), Key(b))
    OBVIOUS
  <2>2. a.kind = b.kind <=> KindNo(a.kind) = KindNo(b.kind)
    BY <1>1, KindNumbers
  <2> QED BY <2>2 DEF Before
<1>4. \A a, b \in IndexEntries : Key(a) = Key(b) => a = b
  <2>1. SUFFICES ASSUME NEW a \in IndexEntries, NEW b \in IndexEntries, Key(a) = Key(b) PROVE a = b
    OBVIOUS
  <2>2. a.hash = b.hash /\ KindNo(a.kind) = KindNo(b.kind) /\ a.idx = b.idx /\ a.name = b.name
    BY <2>1
  <2>3. a.kind = b.kind
    BY <1>1, <2>2, KindNumbers
  <2> HIDE DEF Key
  <2> QED BY <1>1, <2>2, <2>3
<1>5. \A p \in Keys : ~Less(p, p)
  OBVIOUS
<1>6. \A p, q, r \in Keys : Less(p, q) /\ Less(q, r) => Less(p, r)
  <2>1. SUFFICES ASSUME NEW p \in Keys, NEW q \in Keys, NEW r \in Keys, Less(p, q), Less(q, r)
                 PROVE  Less(p, r)
    OBVIOUS
  <2>2. p[1] \in Int /\ p[2] \in Int /\ p[3] \in Int /\ p[4] \in Int
    OBVIOUS
  <2>3. q[1] \in Int /\ q[2] \in Int /\ q[3] \in Int /\ q[4] \in Int
    OBVIOUS
  <2>4. r[1] \in Int /\ r[2] \in Int /\ r[3] \in Int /\ r[4] \in Int
    OBVIOUS
  <2> HIDE DEF Keys
  <2> QED BY <2>1, <2>2, <2>3, <2>4
<1>7. \A p, q \in Keys : p # q => Less(p, q) \/ Less(q, p)
  <2>1. SUFFICES ASSUME NEW p \in Keys, NEW q \in Keys, ~Less(p, q), ~Less(q, p) PROVE p = q
    OBVIOUS
  <2>2. p[1] = q[1] /\ p[2] = q[2] /\ p[3] = q[3] /\ p[4] = q[4]
    BY <2>1
  <2> QED BY <2>2
<1> HIDE DEF Less, Key, Keys
<1>8. \A a \in IndexEntries : ~Before(a, a)
  BY <1>2, <1>3, <1>5
<1>9. \A a, b, c \in IndexEntries : Before(a, b) /\ Before(b, c) => Before(a, c)
  BY <1>2, <1>3, <1>6
<1>10. \A a, b \in IndexEntries : a # b => Before(a, b) \/ Before(b, a)
  BY <1>2, <1>3, <1>4, <1>7
<1> QED BY <1>8, <1>9, <1>10

(* A set of entries in its order.                                          *)
Preceding(S, e) == {x \in S : Before(x, e)}
Ordered(S) ==
    [i \in 1 .. Cardinality(S) |-> CHOOSE e \in S : Cardinality({x \in S : Before(x, e)}) = i - 1]

(* Every one of them is there, and each stands before those behind it.     *)
LEMMA OrderedIs ==
    ASSUME NEW S, IsFiniteSet(S), S \subseteq IndexEntries
    PROVE  /\ Cardinality(S) \in Nat /\ Ordered(S) \in [1 .. Cardinality(S) -> S]
           /\ \A e \in S : \E i \in 1 .. Cardinality(S) : Ordered(S)[i] = e
           /\ \A i, j \in 1 .. Cardinality(S) : i < j => Before(Ordered(S)[i], Ordered(S)[j])
<1> DEFINE n == Cardinality(S)
           rank == [e \in S |-> Cardinality(Preceding(S, e))]
           ix == Ordered(S)
<1>1. n \in Nat
  BY FS_CardinalityType
<1>2. ASSUME NEW e \in S
      PROVE  /\ IsFiniteSet(Preceding(S, e)) /\ Cardinality(Preceding(S, e)) \in 0 .. n - 1
             /\ Cardinality(Preceding(S, e) \cup {e}) = Cardinality(Preceding(S, e)) + 1
  <2> DEFINE B == Preceding(S, e)
  <2>1. B \in SUBSET S /\ B \cup {e} \in SUBSET S /\ e \notin B
    <3>1. ~Before(e, e)
      BY BeforeIsOrder
    <3> QED BY <3>1 DEF Preceding
  <2> HIDE DEF B
  <2>2. IsFiniteSet(B) /\ Cardinality(B) \in Nat
    BY <2>1, FS_Subset, FS_CardinalityType
  <2>3. Cardinality(B \cup {e}) = Cardinality(B) + 1
    BY <2>1, <2>2, FS_AddElement
  <2>4. Cardinality(B \cup {e}) <= n
    BY <2>1, FS_Subset
  <2> DEFINE b == Cardinality(B)
             u == Cardinality(B \cup {e})
  <2>5. b \in Nat /\ u = b + 1 /\ u <= n
    BY <2>2, <2>3, <2>4
  <2> HIDE DEF b, u, n
  <2>6. b \in 0 .. n - 1
    BY <1>1, <2>5
  <2> QED BY <2>2, <2>5, <2>6 DEF b, u, B
<1>3. ASSUME NEW a \in S, NEW b \in S, Before(a, b)
      PROVE  Cardinality(Preceding(S, a)) < Cardinality(Preceding(S, b))
  <2>1. Preceding(S, a) \cup {a} \in SUBSET Preceding(S, b)
    <3>1. ASSUME NEW x \in Preceding(S, a) PROVE x \in Preceding(S, b)
      <4>1. x \in S /\ Before(x, a)
        BY DEF Preceding
      <4>2. Before(x, b)
        BY <1>3, <4>1, BeforeIsOrder
      <4> QED BY <4>1, <4>2 DEF Preceding
    <3>2. a \in Preceding(S, b)
      BY <1>3 DEF Preceding
    <3> QED BY <3>1, <3>2
  <2> DEFINE p == Cardinality(Preceding(S, a))
             q == Cardinality(Preceding(S, b))
             u == Cardinality(Preceding(S, a) \cup {a})
  <2>2. u <= q
    BY <1>2, <2>1, FS_Subset
  <2>3. p \in 0 .. n - 1 /\ q \in 0 .. n - 1 /\ u = p + 1
    BY <1>2
  <2> HIDE DEF p, q, u, n
  <2>4. p < q
    BY <1>1, <2>2, <2>3
  <2> QED BY <2>4 DEF p, q
<1>4. rank \in Injection(S, 0 .. n - 1)
  <2>1. rank \in [S -> 0 .. n - 1]
    BY <1>2
  <2>2. ASSUME NEW a \in S, NEW b \in S, rank[a] = rank[b] PROVE a = b
    <3>1. SUFFICES ASSUME a # b PROVE FALSE
      OBVIOUS
    <3>2. Before(a, b) \/ Before(b, a)
      BY <3>1, BeforeIsOrder
    <3>3. rank[a] = Cardinality(Preceding(S, a)) /\ rank[b] = Cardinality(Preceding(S, b))
      OBVIOUS
    <3>4. rank[a] \in 0 .. n - 1 /\ rank[b] \in 0 .. n - 1
      BY <2>1
    <3> HIDE DEF rank, n
    <3>5. rank[a] < rank[b] \/ rank[b] < rank[a]
      BY <1>3, <3>2, <3>3
    <3> QED BY <1>1, <2>2, <3>4, <3>5
  <2> HIDE DEF rank
  <2>3. DOMAIN rank = S
    BY <2>1
  <2>4. IsInjective(rank)
    BY <2>2, <2>3 DEF IsInjective
  <2> QED BY <2>1, <2>4 DEF Injection
<1>5. IsFiniteSet(0 .. n - 1) /\ Cardinality(0 .. n - 1) = n
  <2>1. 0 \in Int /\ n - 1 \in Int
    BY <1>1
  <2>2. IsFiniteSet(0 .. n - 1) /\ Cardinality(0 .. n - 1) = IF 0 > n - 1 THEN 0 ELSE (n - 1) - 0 + 1
    BY <2>1, FS_Interval
  <2>3. (IF 0 > n - 1 THEN 0 ELSE (n - 1) - 0 + 1) = n
    BY <1>1
  <2> QED BY <2>2, <2>3
<1>6. rank \in Surjection(S, 0 .. n - 1)
  <2> HIDE DEF rank
  <2> QED BY <1>4, <1>5, FS_Injection
<1>7. \A m \in 0 .. n - 1 : \E e \in S : Cardinality(Preceding(S, e)) = m
  BY <1>6 DEF Surjection
<1>8. ASSUME NEW i \in 1 .. n
      PROVE  ix[i] \in S /\ Cardinality(Preceding(S, ix[i])) = i - 1
  <2>1. ix[i] = CHOOSE e \in S : Cardinality({x \in S : Before(x, e)}) = i - 1
    BY DEF Ordered
  <2>2. i - 1 \in 0 .. n - 1
    BY <1>1
  <2>3. \E e \in S : Cardinality({x \in S : Before(x, e)}) = i - 1
    BY <1>7, <2>2 DEF Preceding
  <2> HIDE DEF ix
  <2> QED BY <2>1, <2>3 DEF Preceding
<1>9. ix \in [1 .. n -> S]
  <2> DEFINE pick(i) == CHOOSE e \in S : Cardinality({x \in S : Before(x, e)}) = i - 1
  <2>1. ix = [i \in 1 .. n |-> pick(i)]
    BY DEF Ordered
  <2> HIDE DEF ix, pick
  <2>2. ix = [i \in 1 .. n |-> ix[i]]
    BY <2>1
  <2> QED BY <1>8, <2>2
<1> HIDE DEF ix, rank
<1>10. ASSUME NEW e \in S PROVE \E i \in 1 .. n : ix[i] = e
  <2> DEFINE r == Cardinality(Preceding(S, e))
             i == r + 1
  <2>1. r \in 0 .. n - 1
    BY <1>2
  <2> HIDE DEF r
  <2>2. i \in 1 .. n /\ i - 1 = r
    BY <1>1, <2>1
  <2> HIDE DEF i
  <2>3. ix[i] \in S /\ Cardinality(Preceding(S, ix[i])) = r
    BY <1>8, <2>2
  <2>4. ix[i] = e
    <3>1. SUFFICES ASSUME ix[i] # e PROVE FALSE
      OBVIOUS
    <3>2. Before(ix[i], e) \/ Before(e, ix[i])
      BY <2>3, <3>1, BeforeIsOrder
    <3>3. Cardinality(Preceding(S, ix[i])) < r \/ r < Cardinality(Preceding(S, ix[i]))
      BY <1>3, <2>3, <3>2 DEF r
    <3> QED BY <1>1, <2>1, <2>3, <3>3
  <2> QED BY <2>2, <2>4
<1>11. ASSUME NEW i \in 1 .. n, NEW j \in 1 .. n, i < j PROVE Before(ix[i], ix[j])
  <2>1. /\ ix[i] \in S /\ Cardinality(Preceding(S, ix[i])) = i - 1
        /\ ix[j] \in S /\ Cardinality(Preceding(S, ix[j])) = j - 1
    BY <1>8
  <2>2. ix[i] # ix[j]
    BY <1>1, <1>11, <2>1
  <2>3. ~Before(ix[j], ix[i])
    <3>1. SUFFICES ASSUME Before(ix[j], ix[i]) PROVE FALSE
      OBVIOUS
    <3>2. j - 1 < i - 1
      BY <1>3, <2>1, <3>1
    <3> QED BY <1>1, <1>11, <3>2
  <2> QED BY <2>1, <2>2, <2>3, BeforeIsOrder
<1> QED BY <1>1, <1>9, <1>10, <1>11 DEF ix, n

(* A function on 1 .. n is a sequence.                                     *)
LEMMA FunctionIsSeq ==
    ASSUME NEW S, NEW n \in Nat, NEW f \in [1 .. n -> S]
    PROVE  f \in Seq(S) /\ Len(f) = n /\ DOMAIN f = 1 .. n
OBVIOUS

(* What two sequences hold one behind the other.                           *)
LEMMA ConcatHolds ==
    ASSUME NEW S, NEW s \in Seq(S), NEW t \in Seq(S)
    PROVE  s \o t \in Seq(S) /\ ToSet(s \o t) = ToSet(s) \cup ToSet(t)
<1> DEFINE m == Len(s)
           n == Len(t)
           w == s \o t
<1>1. /\ m \in Nat /\ n \in Nat /\ DOMAIN s = 1 .. m /\ DOMAIN t = 1 .. n
      /\ w \in Seq(S) /\ Len(w) = m + n
      /\ \A i \in 1 .. m + n : w[i] = IF i <= m THEN s[i] ELSE t[i - m]
  BY ConcatProperties, LenProperties
<1>2. DOMAIN w = 1 .. m + n
  BY <1>1, LenProperties
<1> HIDE DEF m, n, w
<1>3. ASSUME NEW x \in ToSet(w) PROVE x \in ToSet(s) \cup ToSet(t)
  <2>1. PICK i \in 1 .. m + n : x = w[i]
    BY <1>2 DEF ToSet
  <2>2. i <= m => i \in 1 .. m
    BY <1>1
  <2>3. ~(i <= m) => i - m \in 1 .. n
    BY <1>1
  <2> QED BY <1>1, <2>1, <2>2, <2>3 DEF ToSet
<1>4. ASSUME NEW i \in 1 .. m PROVE s[i] \in ToSet(w)
  <2>1. i \in 1 .. m + n /\ i <= m
    BY <1>1
  <2>2. w[i] = s[i]
    BY <1>1, <2>1
  <2> QED BY <1>2, <2>1, <2>2 DEF ToSet
<1>5. ASSUME NEW i \in 1 .. n PROVE t[i] \in ToSet(w)
  <2>1. m + i \in 1 .. m + n /\ ~(m + i <= m) /\ (m + i) - m = i
    BY <1>1
  <2>2. w[m + i] = t[i]
    BY <1>1, <2>1
  <2> QED BY <1>2, <2>1, <2>2 DEF ToSet
<1>6. ToSet(s) = {s[i] : i \in 1 .. m} /\ ToSet(t) = {t[i] : i \in 1 .. n}
  BY <1>1 DEF ToSet
<1>7. ToSet(w) = ToSet(s) \cup ToSet(t)
  BY <1>3, <1>4, <1>5, <1>6
<1> QED BY <1>1, <1>7 DEF w

(* What parts hold, the whole holds.                                       *)
LEMMA FlattenHolds ==
    ASSUME NEW S, NEW parts \in Seq(Seq(S)), NEW i \in 1 .. Len(parts)
    PROVE  ToSet(parts[i]) \subseteq ToSet(FlattenSeq(parts))
<1> DEFINE whole == FlattenSeq(parts)
<1>1. whole \in Seq(S) /\ Pieces(parts, whole)
  BY FlattenPieces
<1>2. parts[i] \in Seq(S)
  BY ElementOfSeq
<1> HIDE DEF whole
<1>3. DOMAIN whole = 1 .. Len(whole) /\ Len(whole) \in Nat
      /\ DOMAIN parts[i] = 1 .. Len(parts[i]) /\ Len(parts[i]) \in Nat
  BY <1>1, <1>2, LenProperties
<1> DEFINE b == Begin(parts, i)
           n == Len(parts[i])
           m == Len(whole)
<1>4. b \in Nat /\ b + n <= m /\ \A k \in 1 .. n : whole[b + k] = parts[i][k]
  BY <1>1 DEF Pieces
<1>5. m \in Nat /\ n \in Nat
  BY <1>3
<1>6. DOMAIN whole = 1 .. m /\ DOMAIN parts[i] = 1 .. n
  BY <1>3
<1> HIDE DEF b, n, m
<1>7. ASSUME NEW k \in 1 .. n PROVE parts[i][k] \in ToSet(whole)
  <2>1. b + k \in 1 .. m
    BY <1>4, <1>5
  <2> QED BY <1>4, <1>6, <2>1 DEF ToSet
<1>8. ToSet(parts[i]) = {parts[i][k] : k \in 1 .. n}
  BY <1>6 DEF ToSet
<1> QED BY <1>7, <1>8 DEF whole

(* A finite set as a sequence.                                             *)
LEMMA SetToSeqIs ==
    ASSUME NEW T, IsFiniteSet(T)
    PROVE  SetToSeq(T) \in Seq(T) /\ ToSet(SetToSeq(T)) = T
<1> DEFINE n == Cardinality(T)
           f == SetToSeq(T)
<1>1. n \in Nat /\ ExistsBijection(1 .. n, T)
  BY FS_CardinalityType
<1>2. \E g \in [1 .. n -> T] : IsInjective(g)
  BY <1>1 DEF ExistsBijection, Bijection, Injection
<1>3. f \in [1 .. n -> T] /\ IsInjective(f)
  BY <1>2 DEF SetToSeq
<1> HIDE DEF f
<1>4. f \in Injection(1 .. n, T)
  BY <1>3 DEF Injection
<1>5. Cardinality(1 .. n) = Cardinality(T)
  BY <1>1, CountTo
<1>6. f \in Surjection(1 .. n, T)
  BY <1>4, <1>5, FS_Injection
<1>7. \A t \in T : \E i \in 1 .. n : f[i] = t
  BY <1>6 DEF Surjection
<1> HIDE DEF n
<1>8. DOMAIN f = 1 .. n /\ \A i \in 1 .. n : f[i] \in T
  BY <1>3
<1>9. ToSet(f) = T
  BY <1>7, <1>8 DEF ToSet
<1>10. f \in Seq(T)
  BY <1>1, <1>3, FunctionIsSeq
<1> QED BY <1>9, <1>10 DEF f

(* A catalog as a database makes it.                                       *)
DbField ==
    [name : Names, pos : Nat, size : Nat, count : Nat, stride : Nat, block : BOOLEAN,
     unit : STRING, scales : Seq(RowShapes)]
DbGroup ==
    {g \in [name : Names, request : Seq(Nat), level : Nat, aliases : SUBSET Names,
            fields : Seq(DbField)] : g.name \notin g.aliases /\ "" \notin g.aliases}
DbEcu == [name : EcuNames, groups : Seq(DbGroup)]
Catalogs == Seq(DbEcu)

(* What its records hold.                                                  *)
LEMMA DbFieldIs ==
    ASSUME NEW f \in DbField
    PROVE  /\ f.name \in Names /\ f.name \in STRING /\ f.pos \in Nat /\ f.size \in Nat
           /\ f.count \in Nat /\ f.stride \in Nat /\ f.block \in BOOLEAN /\ f.unit \in STRING
           /\ f.scales \in Seq(RowShapes)
BY CatalogAssumption DEF DbField

(* Of a group.                                                             *)
LEMMA DbGroupIs ==
    ASSUME NEW g \in DbGroup
    PROVE  /\ g.name \in Names /\ g.name \in STRING /\ g.request \in Seq(Nat) /\ g.level \in Nat
           /\ g.aliases \subseteq Names /\ g.name \notin g.aliases /\ g.fields \in Seq(DbField)
           /\ "" \notin g.aliases
           /\ g = [name |-> g.name, request |-> g.request, level |-> g.level,
                   aliases |-> g.aliases, fields |-> g.fields]
BY CatalogAssumption DEF DbGroup

(* Of an ECU.                                                              *)
LEMMA DbEcuIs ==
    ASSUME NEW e \in DbEcu
    PROVE  /\ e.name \in EcuNames /\ e.name \in STRING /\ e.groups \in Seq(DbGroup)
           /\ e = [name |-> e.name, groups |-> e.groups]
BY CatalogAssumption DEF DbEcu

(* The groups of the ECUs, and the fields of the groups, lie one behind the*)
(* other.                                                                  *)
GroupParts(c) == [e \in DOMAIN c |-> c[e].groups]
FieldParts(gs) == [g \in DOMAIN gs |-> gs[g].fields]

(* Nothing else does.                                                      *)
LEMMA GroupsAre ==
    ASSUME NEW c \in Catalogs
    PROVE  /\ GroupParts(c) \in Seq(Seq(DbGroup)) /\ Len(GroupParts(c)) = Len(c)
           /\ \A i \in 1 .. Len(c) : GroupParts(c)[i] = c[i].groups /\ c[i] \in DbEcu
           /\ Groups(c) \in Seq(DbGroup) /\ Pieces(GroupParts(c), Groups(c))
<1> DEFINE n == Len(c)
           p == GroupParts(c)
<1>1. n \in Nat /\ DOMAIN c = 1 .. n /\ \A i \in 1 .. n : c[i] \in DbEcu
  <2>1. n \in Nat /\ DOMAIN c = 1 .. n
    BY LenProperties DEF Catalogs
  <2>2. \A i \in 1 .. n : c[i] \in DbEcu
    BY ElementOfSeq DEF Catalogs
  <2> QED BY <2>1, <2>2
<1> HIDE DEF n
<1>2. \A i \in 1 .. n : c[i].groups \in Seq(DbGroup)
  BY <1>1, DbEcuIs
<1>3. p \in [1 .. n -> Seq(DbGroup)] /\ \A i \in 1 .. n : p[i] = c[i].groups
  BY <1>1, <1>2 DEF GroupParts
<1>4. Groups(c) = FlattenSeq(p)
  BY DEF Groups, GroupParts
<1> HIDE DEF p
<1>5. p \in Seq(Seq(DbGroup)) /\ Len(p) = n
  BY <1>1, <1>3, FunctionIsSeq
<1>6. Groups(c) \in Seq(DbGroup) /\ Pieces(p, Groups(c))
  BY <1>4, <1>5, FlattenPieces
<1> QED BY <1>1, <1>3, <1>5, <1>6 DEF n, p

(* Nor among the fields.                                                   *)
LEMMA FieldsAre ==
    ASSUME NEW gs \in Seq(DbGroup)
    PROVE  /\ FieldParts(gs) \in Seq(Seq(DbField)) /\ Len(FieldParts(gs)) = Len(gs)
           /\ \A i \in 1 .. Len(gs) : FieldParts(gs)[i] = gs[i].fields /\ gs[i] \in DbGroup
           /\ FieldsIn(gs) \in Seq(DbField) /\ Pieces(FieldParts(gs), FieldsIn(gs))
<1> DEFINE n == Len(gs)
           p == FieldParts(gs)
<1>1. n \in Nat /\ DOMAIN gs = 1 .. n /\ \A i \in 1 .. n : gs[i] \in DbGroup
  <2>1. n \in Nat /\ DOMAIN gs = 1 .. n
    BY LenProperties
  <2>2. \A i \in 1 .. n : gs[i] \in DbGroup
    BY ElementOfSeq
  <2> QED BY <2>1, <2>2
<1> HIDE DEF n
<1>2. \A i \in 1 .. n : gs[i].fields \in Seq(DbField)
  BY <1>1, DbGroupIs
<1>3. p \in [1 .. n -> Seq(DbField)] /\ \A i \in 1 .. n : p[i] = gs[i].fields
  BY <1>1, <1>2 DEF FieldParts
<1>4. FieldsIn(gs) = FlattenSeq(p)
  BY DEF FieldsIn, FieldParts
<1> HIDE DEF p
<1>5. p \in Seq(Seq(DbField)) /\ Len(p) = n
  BY <1>1, <1>3, FunctionIsSeq
<1>6. FieldsIn(gs) \in Seq(DbField) /\ Pieces(p, FieldsIn(gs))
  BY <1>4, <1>5, FlattenPieces
<1> QED BY <1>1, <1>3, <1>5, <1>6 DEF n, p

(* The strings of a field.                                                 *)
LEMMA FieldStringsAre ==
    ASSUME NEW f \in DbField
    PROVE  /\ FieldStrings(f) \in Seq(STRING)
           /\ f.name \in ToSet(FieldStrings(f)) /\ f.unit \in ToSet(FieldStrings(f))
           /\ \A r \in 1 .. Len(f.scales) : f.scales[r].text \in ToSet(FieldStrings(f))
<1> DEFINE n == Len(f.scales)
           head == <<f.name, f.unit>>
           texts == [r \in DOMAIN f.scales |-> f.scales[r].text]
<1>1. f.name \in STRING /\ f.unit \in STRING /\ f.scales \in Seq(RowShapes)
  BY DbFieldIs
<1>2. n \in Nat /\ DOMAIN f.scales = 1 .. n /\ \A r \in 1 .. n : f.scales[r] \in RowShapes
  <2>1. n \in Nat /\ DOMAIN f.scales = 1 .. n
    BY <1>1, LenProperties
  <2>2. \A r \in 1 .. n : f.scales[r] \in RowShapes
    BY <1>1, ElementOfSeq
  <2> QED BY <2>1, <2>2
<1>3. \A r \in 1 .. n : f.scales[r].text \in STRING
  BY <1>2 DEF RowShapes
<1> HIDE DEF n
<1>4. texts \in [1 .. n -> STRING] /\ \A r \in 1 .. n : texts[r] = f.scales[r].text
  BY <1>2, <1>3
<1>5. head \in Seq(STRING) /\ ToSet(head) = {f.name, f.unit}
  <2>1. head \in Seq(STRING) /\ DOMAIN head = {1, 2} /\ head[1] = f.name /\ head[2] = f.unit
    BY <1>1
  <2> HIDE DEF head
  <2> QED BY <2>1 DEF ToSet
<1>6. FieldStrings(f) = head \o texts
  BY DEF FieldStrings
<1> HIDE DEF head, texts
<1>7. texts \in Seq(STRING) /\ DOMAIN texts = 1 .. n
  BY <1>2, <1>4, FunctionIsSeq
<1>8. \A r \in 1 .. n : texts[r] \in ToSet(texts)
  BY <1>7 DEF ToSet
<1>9. head \o texts \in Seq(STRING) /\ ToSet(head \o texts) = ToSet(head) \cup ToSet(texts)
  BY <1>5, <1>7, ConcatHolds
<1> QED BY <1>4, <1>5, <1>6, <1>8, <1>9 DEF n

(* The strings of a group.                                                 *)
LEMMA GroupStringsAre ==
    ASSUME NEW g \in DbGroup
    PROVE  /\ GroupStrings(g) \in Seq(STRING)
           /\ g.name \in ToSet(GroupStrings(g)) /\ g.aliases \subseteq ToSet(GroupStrings(g))
           /\ \A i \in 1 .. Len(g.fields) :
                 ToSet(FieldStrings(g.fields[i])) \subseteq ToSet(GroupStrings(g))
<1> DEFINE n == Len(g.fields)
           head == <<g.name>>
           others == SetToSeq(g.aliases)
           parts == [i \in DOMAIN g.fields |-> FieldStrings(g.fields[i])]
           rest == FlattenSeq(parts)
<1>1. g.name \in STRING /\ g.fields \in Seq(DbField) /\ g.aliases \subseteq Names
  BY DbGroupIs
<1>2. n \in Nat /\ DOMAIN g.fields = 1 .. n /\ \A i \in 1 .. n : g.fields[i] \in DbField
  <2>1. n \in Nat /\ DOMAIN g.fields = 1 .. n
    BY <1>1, LenProperties
  <2>2. \A i \in 1 .. n : g.fields[i] \in DbField
    BY <1>1, ElementOfSeq
  <2> QED BY <2>1, <2>2
<1>3. \A i \in 1 .. n : FieldStrings(g.fields[i]) \in Seq(STRING)
  BY <1>2, FieldStringsAre
<1> HIDE DEF n
<1>4. parts \in [1 .. n -> Seq(STRING)] /\ \A i \in 1 .. n : parts[i] = FieldStrings(g.fields[i])
  BY <1>2, <1>3
<1>5. head \in Seq(STRING) /\ ToSet(head) = {g.name}
  <2>1. head \in Seq(STRING) /\ DOMAIN head = {1} /\ head[1] = g.name
    BY <1>1
  <2> HIDE DEF head
  <2> QED BY <2>1 DEF ToSet
<1>6. GroupStrings(g) = head \o others \o rest
  BY DEF GroupStrings
<1>7. others \in Seq(STRING) /\ ToSet(others) = g.aliases
  <2>1. IsFiniteSet(g.aliases)
    BY <1>1, CatalogAssumption, FS_Subset
  <2>2. others \in Seq(g.aliases) /\ ToSet(others) = g.aliases
    BY <2>1, SetToSeqIs
  <2>3. g.aliases \subseteq STRING
    BY <1>1, CatalogAssumption
  <2> HIDE DEF others
  <2> QED BY <2>2, <2>3, SeqMonotonic
<1> HIDE DEF head, others, parts, rest
<1>8. parts \in Seq(Seq(STRING)) /\ Len(parts) = n
  BY <1>2, <1>4, FunctionIsSeq
<1>9. rest \in Seq(STRING) /\ \A i \in 1 .. n : ToSet(parts[i]) \subseteq ToSet(rest)
  BY <1>8, FlattenPieces, FlattenHolds DEF rest
<1>10. head \o others \in Seq(STRING) /\ ToSet(head \o others) = ToSet(head) \cup ToSet(others)
  BY <1>5, <1>7, ConcatHolds
<1> DEFINE begun == head \o others
<1>11. begun \in Seq(STRING)
  BY <1>10
<1> HIDE DEF begun
<1>12. begun \o rest \in Seq(STRING) /\ ToSet(begun \o rest) = ToSet(begun) \cup ToSet(rest)
  BY <1>9, <1>11, ConcatHolds
<1>13. ToSet(begun) = {g.name} \cup g.aliases
  BY <1>5, <1>7, <1>10 DEF begun
<1>14. GroupStrings(g) = begun \o rest
  BY <1>6 DEF begun
<1>15. \A i \in 1 .. n : ToSet(FieldStrings(g.fields[i])) \subseteq ToSet(rest)
  BY <1>4, <1>9
<1> QED BY <1>12, <1>13, <1>14, <1>15 DEF n

(* The strings of an ECU.                                                  *)
EcuStrings(e) ==
    <<e.name>> \o FlattenSeq([g \in DOMAIN e.groups |-> GroupStrings(e.groups[g])])

(* Those of its groups are among them.                                     *)
LEMMA EcuStringsAre ==
    ASSUME NEW e \in DbEcu
    PROVE  /\ EcuStrings(e) \in Seq(STRING) /\ e.name \in ToSet(EcuStrings(e))
           /\ \A i \in 1 .. Len(e.groups) :
                 ToSet(GroupStrings(e.groups[i])) \subseteq ToSet(EcuStrings(e))
<1> DEFINE n == Len(e.groups)
           head == <<e.name>>
           parts == [i \in DOMAIN e.groups |-> GroupStrings(e.groups[i])]
           rest == FlattenSeq(parts)
<1>1. e.name \in STRING /\ e.groups \in Seq(DbGroup)
  BY DbEcuIs
<1>2. n \in Nat /\ DOMAIN e.groups = 1 .. n /\ \A i \in 1 .. n : e.groups[i] \in DbGroup
  <2>1. n \in Nat /\ DOMAIN e.groups = 1 .. n
    BY <1>1, LenProperties
  <2>2. \A i \in 1 .. n : e.groups[i] \in DbGroup
    BY <1>1, ElementOfSeq
  <2> QED BY <2>1, <2>2
<1>3. \A i \in 1 .. n : GroupStrings(e.groups[i]) \in Seq(STRING)
  BY <1>2, GroupStringsAre
<1> HIDE DEF n
<1>4. parts \in [1 .. n -> Seq(STRING)] /\ \A i \in 1 .. n : parts[i] = GroupStrings(e.groups[i])
  BY <1>2, <1>3
<1>5. head \in Seq(STRING) /\ ToSet(head) = {e.name}
  <2>1. head \in Seq(STRING) /\ DOMAIN head = {1} /\ head[1] = e.name
    BY <1>1
  <2> HIDE DEF head
  <2> QED BY <2>1 DEF ToSet
<1>6. EcuStrings(e) = head \o rest
  BY DEF EcuStrings
<1> HIDE DEF head, parts, rest
<1>7. parts \in Seq(Seq(STRING)) /\ Len(parts) = n
  BY <1>2, <1>4, FunctionIsSeq
<1>8. rest \in Seq(STRING) /\ \A i \in 1 .. n : ToSet(parts[i]) \subseteq ToSet(rest)
  BY <1>7, FlattenPieces, FlattenHolds DEF rest
<1>9. head \o rest \in Seq(STRING) /\ ToSet(head \o rest) = ToSet(head) \cup ToSet(rest)
  BY <1>5, <1>8, ConcatHolds
<1>10. \A i \in 1 .. n : ToSet(GroupStrings(e.groups[i])) \subseteq ToSet(rest)
  BY <1>4, <1>8
<1> QED BY <1>5, <1>6, <1>9, <1>10 DEF n

(* The strings of a catalog.                                               *)
LEMMA StringsAre ==
    ASSUME NEW c \in Catalogs
    PROVE  /\ Strings(c) \in Seq(STRING)
           /\ \A i \in 1 .. Len(c) : ToSet(EcuStrings(c[i])) \subseteq ToSet(Strings(c))
<1> DEFINE n == Len(c)
           parts == [i \in DOMAIN c |-> EcuStrings(c[i])]
<1>1. n \in Nat /\ DOMAIN c = 1 .. n
  BY LenProperties DEF Catalogs
<1>2. \A i \in 1 .. n : EcuStrings(c[i]) \in Seq(STRING)
  BY GroupsAre, EcuStringsAre
<1> HIDE DEF n
<1>3. parts \in [1 .. n -> Seq(STRING)] /\ \A i \in 1 .. n : parts[i] = EcuStrings(c[i])
  BY <1>1, <1>2
<1>4. Strings(c) = FlattenSeq(parts)
  BY DEF Strings, EcuStrings
<1> HIDE DEF parts
<1>5. parts \in Seq(Seq(STRING)) /\ Len(parts) = n
  BY <1>1, <1>3, FunctionIsSeq
<1>6. Strings(c) \in Seq(STRING) /\ \A i \in 1 .. n : ToSet(parts[i]) \subseteq ToSet(Strings(c))
  BY <1>4, <1>5, FlattenPieces, FlattenHolds
<1> QED BY <1>3, <1>6 DEF n

(* Every place of a whole is one of a part.                                *)
LEMMA PieceAt ==
    ASSUME NEW parts, NEW whole, Pieces(parts, whole), NEW p \in 1 .. Len(whole)
    PROVE  \E i \in 1 .. Len(parts) : \E k \in 1 .. Len(parts[i]) :
              p = Begin(parts, i) + k /\ whole[p] = parts[i][k]
<1>1. PICK i \in 1 .. Len(parts) : \E k \in 1 .. Len(parts[i]) : p = Begin(parts, i) + k
  BY DEF Pieces
<1>2. PICK k \in 1 .. Len(parts[i]) : p = Begin(parts, i) + k
  BY <1>1
<1>3. whole[Begin(parts, i) + k] = parts[i][k]
  BY DEF Pieces
<1> QED BY <1>2, <1>3

(* The pool: the empty string, which the provers do not know for one, and  *)
(* every string of the catalog.                                            *)
Texts == STRING \cup {""}
Pool(c) == Distinct(<<"">> \o Strings(c))

(* Every string a record of the catalog refers to is there.                *)
LEMMA PoolHolds ==
    ASSUME NEW c \in Catalogs
    PROVE  /\ Pool(c) \in Seq(Texts) /\ Len(Pool(c)) \in Nat \ {0}
           /\ \A i \in 1 .. Len(c) : c[i].name \in ToSet(Pool(c))
           /\ \A g \in 1 .. Len(Groups(c)) :
                 Groups(c)[g].name \in ToSet(Pool(c)) /\ Groups(c)[g].aliases \subseteq ToSet(Pool(c))
           /\ \A f \in 1 .. Len(Fields(c)) :
                 /\ Fields(c)[f].name \in ToSet(Pool(c)) /\ Fields(c)[f].unit \in ToSet(Pool(c))
                 /\ \A r \in 1 .. Len(Fields(c)[f].scales) :
                       Fields(c)[f].scales[r].text \in ToSet(Pool(c))
<1> DEFINE gs == Groups(c)
           fs == Fields(c)
           all == ToSet(Strings(c))
           blank == ""
           first == <<blank>>
           pool == Pool(c)
<1>1. first \in Seq(Texts) /\ ToSet(first) = {blank}
  <2>1. blank \in Texts
    BY DEF Texts
  <2> HIDE DEF blank
  <2>2. first \in Seq(Texts) /\ DOMAIN first = {1} /\ first[1] = blank
    BY <2>1
  <2> HIDE DEF first
  <2> QED BY <2>2 DEF ToSet
<1>2. pool = Distinct(first \o Strings(c))
  BY DEF Pool
<1> HIDE DEF first, blank
<1>3. /\ first \o Strings(c) \in Seq(Texts)
      /\ ToSet(first \o Strings(c)) = ToSet(first) \cup all
  <2>1. Strings(c) \in Seq(Texts)
    BY StringsAre, SeqMonotonic DEF Texts
  <2> QED BY <1>1, <2>1, ConcatHolds
<1>4. pool \in Seq(Texts) /\ ToSet(pool) = {blank} \cup all
  <2> HIDE DEF all, pool
  <2> QED BY <1>1, <1>2, <1>3, DistinctIs
<1>5. Len(pool) \in Nat \ {0}
  <2> HIDE DEF pool, all
  <2> DEFINE m == Len(pool)
  <2>1. blank \in ToSet(pool)
    BY <1>4
  <2>2. PICK i \in DOMAIN pool : pool[i] = blank
    BY <2>1 DEF ToSet
  <2>3. DOMAIN pool = 1 .. m /\ m \in Nat
    BY <1>4, LenProperties
  <2> HIDE DEF m
  <2>4. i \in 1 .. m
    BY <2>2, <2>3
  <2> QED BY <2>3, <2>4 DEF m
<1>6. ASSUME NEW i \in 1 .. Len(c)
      PROVE  c[i] \in DbEcu /\ c[i].name \in all
             /\ \A k \in 1 .. Len(c[i].groups) : ToSet(GroupStrings(c[i].groups[k])) \subseteq all
  <2>1. c[i] \in DbEcu /\ ToSet(EcuStrings(c[i])) \subseteq all
    BY GroupsAre, StringsAre
  <2> HIDE DEF all
  <2> QED BY <2>1, EcuStringsAre
<1>7. gs \in Seq(DbGroup) /\ \A g \in 1 .. Len(gs) : gs[g] \in DbGroup
  BY GroupsAre, FieldsAre
<1>8. ASSUME NEW g \in 1 .. Len(gs) PROVE ToSet(GroupStrings(gs[g])) \subseteq all
  <2>1. Pieces(GroupParts(c), gs) /\ Len(GroupParts(c)) = Len(c)
        /\ \A i \in 1 .. Len(c) : GroupParts(c)[i] = c[i].groups
    BY GroupsAre
  <2> HIDE DEF gs
  <2>2. PICK i \in 1 .. Len(GroupParts(c)) : \E k \in 1 .. Len(GroupParts(c)[i]) :
           gs[g] = GroupParts(c)[i][k]
    BY <2>1, PieceAt
  <2>3. PICK k \in 1 .. Len(GroupParts(c)[i]) : gs[g] = GroupParts(c)[i][k]
    BY <2>2
  <2>4. i \in 1 .. Len(c) /\ k \in 1 .. Len(c[i].groups) /\ gs[g] = c[i].groups[k]
    BY <2>1, <2>2, <2>3
  <2> HIDE DEF all
  <2> QED BY <1>6, <2>4
<1>9. Fields(c) = FieldsIn(gs)
  BY DEF Fields
<1>10. ASSUME NEW f \in 1 .. Len(fs) PROVE fs[f] \in DbField /\ ToSet(FieldStrings(fs[f])) \subseteq all
  <2> HIDE DEF gs, all
  <2>1. /\ Pieces(FieldParts(gs), fs) /\ Len(FieldParts(gs)) = Len(gs) /\ fs \in Seq(DbField)
        /\ \A i \in 1 .. Len(gs) : FieldParts(gs)[i] = gs[i].fields
    BY <1>7, <1>9, FieldsAre
  <2> HIDE DEF fs
  <2>2. PICK i \in 1 .. Len(FieldParts(gs)) : \E k \in 1 .. Len(FieldParts(gs)[i]) :
           fs[f] = FieldParts(gs)[i][k]
    BY <2>1, PieceAt
  <2>3. PICK k \in 1 .. Len(FieldParts(gs)[i]) : fs[f] = FieldParts(gs)[i][k]
    BY <2>2
  <2>4. i \in 1 .. Len(gs) /\ k \in 1 .. Len(gs[i].fields) /\ fs[f] = gs[i].fields[k]
    BY <2>1, <2>2, <2>3
  <2>5. ToSet(FieldStrings(gs[i].fields[k])) \subseteq ToSet(GroupStrings(gs[i]))
    BY <1>7, <2>4, GroupStringsAre
  <2>6. fs[f] \in DbField
    BY <2>1, ElementOfSeq
  <2> QED BY <1>8, <2>4, <2>5, <2>6
<1> HIDE DEF gs, fs, all, pool
<1>11. \A g \in 1 .. Len(gs) : gs[g].name \in ToSet(pool) /\ gs[g].aliases \subseteq ToSet(pool)
  BY <1>4, <1>7, <1>8, GroupStringsAre
<1>12. \A f \in 1 .. Len(fs) :
          /\ fs[f].name \in ToSet(pool) /\ fs[f].unit \in ToSet(pool)
          /\ \A r \in 1 .. Len(fs[f].scales) : fs[f].scales[r].text \in ToSet(pool)
  BY <1>4, <1>10, FieldStringsAre
<1>13. \A i \in 1 .. Len(c) : c[i].name \in ToSet(pool)
  BY <1>4, <1>6
<1> QED BY <1>4, <1>5, <1>11, <1>12, <1>13 DEF gs, fs, pool

(* What a name stands for.                                                 *)
Stands(c, n, k, x) ==
    /\ n # ""
    /\ \/ k = "ecu" /\ x \in 1 .. Len(c) /\ n = c[x].name
       \/ k = "group" /\ x \in 1 .. Len(Groups(c))
          /\ (n = Groups(c)[x].name \/ n \in Groups(c)[x].aliases)
       \/ k = "field" /\ x \in 1 .. Len(Fields(c)) /\ n = Fields(c)[x].name

(* The targets are all of it, and nothing else.                            *)
LEMMA TargetsAre ==
    ASSUME NEW c \in Catalogs
    PROVE  /\ \A n, k, x : <<n, k, x>> \in Targets(c) <=> Stands(c, n, k, x)
           /\ \A t \in Targets(c) :
                 \E n \in EcuNames \cup Names, k \in Kinds, x \in Nat : t = <<n, k, x>>
<1> DEFINE gs == Groups(c)
           fs == Fields(c)
<1>1. gs \in Seq(DbGroup) /\ fs \in Seq(DbField)
  BY GroupsAre, FieldsAre DEF Fields
<1>2. /\ DOMAIN c = 1 .. Len(c) /\ Len(c) \in Nat /\ DOMAIN gs = 1 .. Len(gs) /\ Len(gs) \in Nat
      /\ DOMAIN fs = 1 .. Len(fs) /\ Len(fs) \in Nat
  BY <1>1, LenProperties DEF Catalogs
<1>3. /\ \A i \in 1 .. Len(c) : c[i].name \in EcuNames
      /\ \A i \in 1 .. Len(gs) : gs[i].name \in Names /\ gs[i].aliases \subseteq Names
      /\ \A i \in 1 .. Len(fs) : fs[i].name \in Names
  <2>1. \A i \in 1 .. Len(c) : c[i] \in DbEcu
    BY GroupsAre
  <2>2. \A i \in 1 .. Len(gs) : gs[i] \in DbGroup
    BY <1>1, ElementOfSeq
  <2>3. \A i \in 1 .. Len(fs) : fs[i] \in DbField
    BY <1>1, ElementOfSeq
  <2> HIDE DEF gs, fs
  <2> QED BY <2>1, <2>2, <2>3, DbEcuIs, DbGroupIs, DbFieldIs
<1> DEFINE Ecus == {<<c[i].name, "ecu", i>> : i \in 1 .. Len(c)}
           Heads == {<<gs[i].name, "group", i>> : i \in 1 .. Len(gs)}
           Others == UNION {{<<a, "group", i>> : a \in gs[i].aliases} : i \in 1 .. Len(gs)}
           Leaves == {<<fs[i].name, "field", i>> : i \in 1 .. Len(fs)}
           All == Ecus \cup Heads \cup Others \cup Leaves
<1>4. Targets(c) = {t \in All : t[1] # ""}
  BY <1>2 DEF Targets
<1> HIDE DEF gs, fs
<1>40. \A n, k, x : <<n, k, x>>[1] = n
  OBVIOUS
<1>5. ASSUME NEW n, NEW k, NEW x
      PROVE  <<n, k, x>> \in Targets(c) <=> Stands(c, n, k, x)
  <2>1. <<n, k, x>> \in Ecus <=> k = "ecu" /\ x \in 1 .. Len(c) /\ n = c[x].name
    OBVIOUS
  <2>2. <<n, k, x>> \in Heads <=> k = "group" /\ x \in 1 .. Len(gs) /\ n = gs[x].name
    OBVIOUS
  <2>3. <<n, k, x>> \in Others <=> k = "group" /\ x \in 1 .. Len(gs) /\ n \in gs[x].aliases
    OBVIOUS
  <2>4. <<n, k, x>> \in Leaves <=> k = "field" /\ x \in 1 .. Len(fs) /\ n = fs[x].name
    OBVIOUS
  <2> HIDE DEF Ecus, Heads, Others, Leaves
  <2>5. <<n, k, x>> \in Targets(c) <=> <<n, k, x>> \in All /\ n # ""
    <3> HIDE DEF All
    <3> QED BY <1>4, <1>40
  <2> QED BY <2>1, <2>2, <2>3, <2>4, <2>5 DEF Stands, gs, fs
<1>6. ASSUME NEW t \in Targets(c)
      PROVE  \E n \in EcuNames \cup Names, k \in Kinds, x \in Nat : t = <<n, k, x>>
  <2>0. "ecu" \in Kinds /\ "group" \in Kinds /\ "field" \in Kinds
    BY DEF Kinds
  <2>1. CASE t \in Ecus
    <3>1. PICK i \in 1 .. Len(c) : t = <<c[i].name, "ecu", i>>
      BY <2>1
    <3>2. i \in Nat /\ c[i].name \in EcuNames \cup Names
      BY <1>3
    <3> QED BY <2>0, <3>1, <3>2
  <2>2. CASE t \in Heads
    <3>1. PICK i \in 1 .. Len(gs) : t = <<gs[i].name, "group", i>>
      BY <2>2
    <3>2. i \in Nat /\ gs[i].name \in EcuNames \cup Names
      BY <1>3
    <3> QED BY <2>0, <3>1, <3>2
  <2>3. CASE t \in Others
    <3>1. PICK i \in 1 .. Len(gs), a \in Names : t = <<a, "group", i>>
      BY <1>3, <2>3
    <3>2. i \in Nat /\ a \in EcuNames \cup Names
      OBVIOUS
    <3> QED BY <2>0, <3>1, <3>2
  <2>4. CASE t \in Leaves
    <3>1. PICK i \in 1 .. Len(fs) : t = <<fs[i].name, "field", i>>
      BY <2>4
    <3>2. i \in Nat /\ fs[i].name \in EcuNames \cup Names
      BY <1>3
    <3> QED BY <2>0, <3>1, <3>2
  <2> HIDE DEF Ecus, Heads, Others, Leaves
  <2> QED BY <1>4, <2>1, <2>2, <2>3, <2>4
<1> QED BY <1>5, <1>6

(* The images of finitely many are finitely many.                          *)
LEMMA ImageIsFinite ==
    ASSUME NEW D, IsFiniteSet(D), NEW f, DOMAIN f = D, NEW T, T = {f[d] : d \in D}, f = [d \in D |-> f[d]]
    PROVE  IsFiniteSet(T)
<1>1. f \in [D -> T] /\ \A t \in T : \E d \in D : f[d] = t
  OBVIOUS
<1>2. f \in Surjection(D, T)
  BY <1>1 DEF Surjection
<1> QED BY <1>2, FS_Surjection

(* There are finitely many.                                                *)
LEMMA TargetsAreFinite == ASSUME NEW c \in Catalogs PROVE IsFiniteSet(Targets(c))
<1> DEFINE named == [i \in 1 .. Len(c) |-> c[i].name]
           N == {named[i] : i \in 1 .. Len(c)} \cup Names
           X == (1 .. Len(c)) \cup (1 .. Len(Groups(c))) \cup (1 .. Len(Fields(c)))
           D == (N \X Kinds) \X X
           triple == [d \in D |-> <<d[1][1], d[1][2], d[2]>>]
           T == {triple[d] : d \in D}
<1>1. Len(c) \in Nat /\ Len(Groups(c)) \in Nat /\ Len(Fields(c)) \in Nat
  <2>1. Groups(c) \in Seq(DbGroup) /\ Fields(c) \in Seq(DbField)
    BY GroupsAre, FieldsAre DEF Fields
  <2> QED BY <2>1, LenProperties DEF Catalogs
<1>2. IsFiniteSet(1 .. Len(c)) /\ IsFiniteSet(1 .. Len(Groups(c))) /\ IsFiniteSet(1 .. Len(Fields(c)))
  BY <1>1, CountTo
<1>3. IsFiniteSet(X)
  <2>1. IsFiniteSet((1 .. Len(c)) \cup (1 .. Len(Groups(c))))
    BY <1>2, FS_Union
  <2> QED BY <1>2, <2>1, FS_Union
<1>4. IsFiniteSet({named[i] : i \in 1 .. Len(c)})
  <2> DEFINE M == {named[i] : i \in 1 .. Len(c)}
  <2>1. DOMAIN named = 1 .. Len(c) /\ named = [i \in 1 .. Len(c) |-> named[i]]
    OBVIOUS
  <2> HIDE DEF named
  <2>2. M = {named[i] : i \in 1 .. Len(c)}
    OBVIOUS
  <2> HIDE DEF M
  <2>3. IsFiniteSet(M)
    BY <1>2, <2>1, <2>2, ImageIsFinite
  <2> QED BY <2>3 DEF M
<1>5. IsFiniteSet(N)
  BY <1>4, FS_Union, CatalogAssumption
<1>6. IsFiniteSet(Kinds)
  <2>1. IsFiniteSet({"ecu"} \cup {"group"})
    BY FS_Singleton, FS_Union
  <2>2. IsFiniteSet({"ecu"} \cup {"group"} \cup {"field"})
    BY <2>1, FS_Singleton, FS_Union
  <2>3. Kinds = {"ecu"} \cup {"group"} \cup {"field"}
    BY DEF Kinds
  <2> QED BY <2>2, <2>3
<1>7. \A i \in 1 .. Len(c) : named[i] = c[i].name
  OBVIOUS
<1> HIDE DEF named
<1>8. ASSUME NEW t \in Targets(c) PROVE t \in T
  <2>1. PICK n \in EcuNames \cup Names, k \in Kinds, x \in Nat : t = <<n, k, x>>
    BY TargetsAre
  <2>2. Stands(c, n, k, x)
    BY <2>1, TargetsAre
  <2>3. x \in X
    BY <2>2 DEF Stands
  <2>4. n \in N
    <3>1. CASE k = "ecu" /\ x \in 1 .. Len(c) /\ n = c[x].name
      BY <1>7, <3>1
    <3>2. CASE x \in 1 .. Len(Groups(c)) /\ (n = Groups(c)[x].name \/ n \in Groups(c)[x].aliases)
      <4>1. Groups(c)[x] \in DbGroup
        BY <3>2, GroupsAre, ElementOfSeq
      <4>2. n \in Names
        BY <3>2, <4>1, DbGroupIs
      <4> QED BY <4>2
    <3>3. CASE x \in 1 .. Len(Fields(c)) /\ n = Fields(c)[x].name
      <4>1. Fields(c) \in Seq(DbField)
        BY GroupsAre, FieldsAre DEF Fields
      <4>2. Fields(c)[x] \in DbField
        BY <3>3, <4>1, ElementOfSeq
      <4> QED BY <3>3, <4>2, DbFieldIs
    <3> QED BY <2>2, <3>1, <3>2, <3>3 DEF Stands
  <2> HIDE DEF N, X
  <2> DEFINE d == <<<<n, k>>, x>>
  <2>5. d \in D
    BY <2>3, <2>4
  <2>6. triple[d] = t
    BY <2>1, <2>5
  <2> HIDE DEF d, triple, D
  <2> QED BY <2>5, <2>6
<1> HIDE DEF N, X
<1>9. IsFiniteSet(D)
  <2>1. IsFiniteSet(N \X Kinds)
    BY <1>5, <1>6, FS_Product
  <2> QED BY <1>3, <2>1, FS_Product
<1>10. DOMAIN triple = D /\ triple = [d \in D |-> triple[d]]
  OBVIOUS
<1> HIDE DEF D, triple
<1>11. T = {triple[d] : d \in D}
  OBVIOUS
<1> HIDE DEF T
<1>12. IsFiniteSet(T)
  BY <1>9, <1>10, <1>11, ImageIsFinite
<1>13. Targets(c) \in SUBSET T
  BY <1>8
<1> QED BY <1>12, <1>13, FS_Subset

(* The entry of a name.                                                    *)
EntryOf(c, t) == [hash |-> HashOf[t[1]], name |-> At(Pool(c), t[1]), kind |-> t[2], idx |-> t[3]]

(* What a name stands for is in the pool.                                  *)
LEMMA StandsIsPooled ==
    ASSUME NEW c \in Catalogs, NEW n, NEW k, NEW x, Stands(c, n, k, x)
    PROVE  n \in ToSet(Pool(c))
BY PoolHolds DEF Stands

(* The index of a catalog: an entry for each name, in order.               *)
LEMMA IndexIs ==
    ASSUME NEW c \in Catalogs, NEW ix, ix = NameIndex(c, Pool(c))
    PROVE  /\ ix \in Seq(IndexEntries)
           /\ \A i \in 1 .. Len(ix) : \E t \in Targets(c) : ix[i] = EntryOf(c, t)
           /\ \A t \in Targets(c) : \E i \in 1 .. Len(ix) : ix[i] = EntryOf(c, t)
           /\ \A i, j \in 1 .. Len(ix) : i < j => Before(ix[i], ix[j])
<1> DEFINE S == {EntryOf(c, t) : t \in Targets(c)}
           entry == [t \in Targets(c) |-> EntryOf(c, t)]
<1>1. ix = Ordered(S)
  BY DEF NameIndex, Ordered, EntryOf
<1>2. IsFiniteSet(S)
  <2>1. DOMAIN entry = Targets(c) /\ \A t \in Targets(c) : entry[t] = EntryOf(c, t)
    OBVIOUS
  <2>2. entry = [t \in Targets(c) |-> entry[t]]
    OBVIOUS
  <2> HIDE DEF entry
  <2>3. S = {entry[t] : t \in Targets(c)}
    BY <2>1
  <2> HIDE DEF S
  <2> QED BY <2>1, <2>2, <2>3, TargetsAreFinite, ImageIsFinite
<1>3. ASSUME NEW t \in Targets(c) PROVE EntryOf(c, t) \in IndexEntries
  <2>1. PICK n \in EcuNames \cup Names, k \in Kinds, x \in Nat : t = <<n, k, x>>
    BY TargetsAre
  <2>2. Stands(c, n, k, x)
    BY <2>1, TargetsAre
  <2>3. n \in ToSet(Pool(c))
    BY <2>2, StandsIsPooled
  <2>4. At(Pool(c), n) \in DOMAIN Pool(c)
    BY <2>3, AtIs
  <2>5. DOMAIN Pool(c) = 1 .. Len(Pool(c))
    BY PoolHolds, LenProperties
  <2>6. At(Pool(c), n) \in Nat
    BY <2>4, <2>5
  <2>7. HashOf[n] \in Int
    BY CatalogAssumption
  <2>8. EntryOf(c, t) = [hash |-> HashOf[n], name |-> At(Pool(c), n), kind |-> k, idx |-> x]
    BY <2>1 DEF EntryOf
  <2> QED BY <2>6, <2>7, <2>8 DEF IndexEntries
<1>4. S \subseteq IndexEntries
  BY <1>3
<1>5. \A e \in S : \E t \in Targets(c) : e = EntryOf(c, t)
  OBVIOUS
<1>6. \A t \in Targets(c) : EntryOf(c, t) \in S
  OBVIOUS
<1> HIDE DEF S
<1> DEFINE n == Cardinality(S)
<1>7. /\ n \in Nat /\ ix \in [1 .. n -> S]
      /\ \A e \in S : \E i \in 1 .. n : ix[i] = e
      /\ \A i, j \in 1 .. n : i < j => Before(ix[i], ix[j])
  BY <1>1, <1>2, <1>4, OrderedIs
<1> HIDE DEF n
<1>8. ix \in [1 .. n -> IndexEntries] /\ \A i \in 1 .. n : ix[i] \in S
  BY <1>4, <1>7
<1>9. ix \in Seq(IndexEntries) /\ Len(ix) = n
  BY <1>7, <1>8, FunctionIsSeq
<1>10. \A i \in 1 .. n : \E t \in Targets(c) : ix[i] = EntryOf(c, t)
  BY <1>5, <1>8
<1>11. \A t \in Targets(c) : \E i \in 1 .. n : ix[i] = EntryOf(c, t)
  BY <1>6, <1>7
<1> QED BY <1>7, <1>9, <1>10, <1>11

(* An entry for each target, and no other.                                 *)
Indexed(c, ix) ==
    /\ \A i \in 1 .. Len(ix) : \E t \in Targets(c) : ix[i] = EntryOf(c, t)
    /\ \A t \in Targets(c) : \E i \in 1 .. Len(ix) : ix[i] = EntryOf(c, t)

(* So it is.                                                               *)
LEMMA IndexedIs ==
    ASSUME NEW c \in Catalogs, NEW ix, ix = NameIndex(c, Pool(c))
    PROVE  Indexed(c, ix)
BY IndexIs DEF Indexed

(* A run that lies inside its table is read in full.                       *)
LEMMA SliceIs ==
    ASSUME NEW S, NEW s \in Seq(S), NEW first \in Nat, NEW n \in Nat, first + n <= Len(s)
    PROVE  /\ Slice(s, first, n) \in Seq(S) /\ Len(Slice(s, first, n)) = n
           /\ DOMAIN Slice(s, first, n) = 1 .. n
           /\ \A k \in 1 .. n : Slice(s, first, n)[k] = s[first + k]
<1> DEFINE m == Len(s)
           a == first + 1
           b == first + n
           part == SubSeq(s, a, b)
<1>1. m \in Nat /\ b <= m /\ a \in Int /\ b \in Int /\ a \in Nat \ {0}
  OBVIOUS
<1>2. Slice(s, first, n) = part
  BY <1>1 DEF Slice
<1>3. \A i \in a .. b : s[i] \in S
  <2>1. \A i \in 1 .. m : s[i] \in S
    BY ElementOfSeq
  <2> HIDE DEF m, a, b
  <2>2. \A i \in a .. b : i \in 1 .. m
    BY <1>1
  <2> QED BY <2>1, <2>2
<1>4. /\ b - a + 1 = n /\ (IF a <= b THEN b - a + 1 ELSE 0) = n
      /\ \A k \in 1 .. n : a + k - 1 = first + k
  OBVIOUS
<1> HIDE DEF a, b
<1>5. /\ part \in Seq(S) /\ Len(part) = IF a <= b THEN b - a + 1 ELSE 0
      /\ \A k \in 1 .. b - a + 1 : part[k] = s[a + k - 1]
  BY <1>1, <1>3, SubSeqProperties
<1> HIDE DEF part
<1>6. Len(part) = n /\ \A k \in 1 .. n : part[k] = s[first + k]
  BY <1>4, <1>5
<1>7. DOMAIN part = 1 .. n
  BY <1>5, <1>6, LenProperties
<1> QED BY <1>2, <1>5, <1>6, <1>7

(* An item lies at a place of what is shared.                              *)
SharedAt(items, i, b) ==
    /\ b \in Nat /\ b + Len(items[i]) <= Len(FlattenSeq(Distinct(items)))
    /\ \A k \in 1 .. Len(items[i]) : FlattenSeq(Distinct(items))[b + k] = items[i][k]

(* A sequence that is shared lies in full where its place in the pool      *)
(* begins.                                                                 *)
LEMMA SharedIs ==
    ASSUME NEW S, NEW items \in Seq(Seq(S)), NEW i \in 1 .. Len(items),
           NEW b, b = Begin(Distinct(items), At(Distinct(items), items[i]))
    PROVE  SharedAt(items, i, b)
<1> DEFINE pool == Distinct(items)
           p == At(pool, items[i])
<1>1. pool \in Seq(Seq(S)) /\ ToSet(pool) = ToSet(items)
  BY DistinctIs
<1>2. items[i] \in ToSet(pool)
  <2>1. DOMAIN items = 1 .. Len(items)
    BY LenProperties
  <2> HIDE DEF pool
  <2> QED BY <1>1, <2>1 DEF ToSet
<1> HIDE DEF pool
<1>3. p \in DOMAIN pool /\ pool[p] = items[i]
  BY <1>2, AtIs
<1>4. p \in 1 .. Len(pool)
  BY <1>1, <1>3, LenProperties
<1> HIDE DEF p
<1>5. Pieces(pool, FlattenSeq(pool))
  BY <1>1, FlattenPieces
<1>6. b = Begin(pool, p)
  BY DEF pool, p
<1> QED BY <1>3, <1>4, <1>5, <1>6 DEF Pieces, pool, SharedAt

(* What of a catalog is laid out, table by table.                          *)
RequestsOf(c) == [g \in DOMAIN Groups(c) |-> Groups(c)[g].request]
ScalesOf(c) == [f \in DOMAIN Fields(c) |-> Fields(c)[f].scales]
RowsOf(c) == FlattenSeq(Distinct(ScalesOf(c)))
OwnerParts(gs) == [g \in DOMAIN gs |-> [f \in DOMAIN gs[g].fields |-> g]]
Owners(c) == FlattenSeq(OwnerParts(Groups(c)))
LayoutOf(c) ==
    Layout([ecus |-> Len(c), groups |-> Len(Groups(c)), fields |-> Len(Fields(c)),
            scales |-> Len(RowsOf(c)), req |-> Len(FlattenSeq(Distinct(RequestsOf(c)))),
            index |-> Len(NameIndex(c, Pool(c))), strings |-> Len(Pool(c))])
EcuRecord(c, e) ==
    [name |-> At(Pool(c), c[e].name), n |-> Len(c[e].groups), first |-> Begin(GroupParts(c), e)]
GroupRecord(c, g) ==
    [name |-> At(Pool(c), Groups(c)[g].name), level |-> Groups(c)[g].level % 16,
     req |-> Begin(Distinct(RequestsOf(c)), At(Distinct(RequestsOf(c)), Groups(c)[g].request)),
     reqLen |-> Len(Groups(c)[g].request), sid |-> Head(Groups(c)[g].request),
     n |-> Len(Groups(c)[g].fields), first |-> Begin(FieldParts(Groups(c)), g)]
RowsBegin(c, f) ==
    IF Fields(c)[f].scales = <<>> THEN 0
    ELSE Begin(Distinct(ScalesOf(c)), At(Distinct(ScalesOf(c)), Fields(c)[f].scales))
FieldRecord(c, f) ==
    [name |-> At(Pool(c), Fields(c)[f].name), unit |-> At(Pool(c), Fields(c)[f].unit),
     pos |-> Fields(c)[f].pos, size |-> Fields(c)[f].size, block |-> Fields(c)[f].block,
     first |-> RowsBegin(c, f), n |-> Len(Fields(c)[f].scales), count |-> Fields(c)[f].count,
     stride |-> Fields(c)[f].stride, group |-> Owners(c)[f]]
RowRecord(c, r) == [RowsOf(c)[r] EXCEPT !.text = At(Pool(c), RowsOf(c)[r].text)]

(* Nothing else goes into the blob.                                        *)
LEMMA WriteIs ==
    ASSUME NEW c
    PROVE  Write(c) = [ecus |-> [e \in DOMAIN c |-> EcuRecord(c, e)],
                       groups |-> [g \in DOMAIN Groups(c) |-> GroupRecord(c, g)],
                       fields |-> [f \in DOMAIN Fields(c) |-> FieldRecord(c, f)],
                       scales |-> [r \in DOMAIN RowsOf(c) |-> RowRecord(c, r)],
                       req |-> FlattenSeq(Distinct(RequestsOf(c))), index |-> NameIndex(c, Pool(c)),
                       strings |-> Pool(c), off |-> LayoutOf(c), total |-> LayoutOf(c).total]
BY DEF Write, EcuRecord, GroupRecord, FieldRecord, RowRecord, RowsBegin, RowsOf, RequestsOf, ScalesOf,
       Owners, OwnerParts, LayoutOf, Pool, GroupParts, FieldParts

(* The requests, the rows and the owners of a catalog.                     *)
LEMMA RequestsAre ==
    ASSUME NEW c \in Catalogs
    PROVE  /\ RequestsOf(c) \in Seq(Seq(Nat)) /\ Len(RequestsOf(c)) = Len(Groups(c))
           /\ \A g \in 1 .. Len(Groups(c)) : RequestsOf(c)[g] = Groups(c)[g].request
<1> DEFINE gs == Groups(c)
           n == Len(gs)
           p == RequestsOf(c)
<1>1. gs \in Seq(DbGroup)
  BY GroupsAre
<1>2. n \in Nat /\ DOMAIN gs = 1 .. n /\ \A i \in 1 .. n : gs[i] \in DbGroup
  BY <1>1, LenProperties, FieldsAre
<1> HIDE DEF n
<1>3. \A i \in 1 .. n : gs[i].request \in Seq(Nat)
  BY <1>2, DbGroupIs
<1>4. p \in [1 .. n -> Seq(Nat)] /\ \A i \in 1 .. n : p[i] = gs[i].request
  BY <1>2, <1>3 DEF RequestsOf
<1> HIDE DEF p, gs
<1>5. p \in Seq(Seq(Nat)) /\ Len(p) = n
  BY <1>2, <1>4, FunctionIsSeq
<1> QED BY <1>4, <1>5 DEF p, n, gs

(* The rows of its fields.                                                 *)
LEMMA ScalesAre ==
    ASSUME NEW c \in Catalogs
    PROVE  /\ ScalesOf(c) \in Seq(Seq(RowShapes)) /\ Len(ScalesOf(c)) = Len(Fields(c))
           /\ \A f \in 1 .. Len(Fields(c)) : ScalesOf(c)[f] = Fields(c)[f].scales
           /\ Fields(c) \in Seq(DbField) /\ \A f \in 1 .. Len(Fields(c)) : Fields(c)[f] \in DbField
<1> DEFINE fs == Fields(c)
           n == Len(fs)
           p == ScalesOf(c)
<1>1. fs \in Seq(DbField)
  BY GroupsAre, FieldsAre DEF Fields
<1>2. n \in Nat /\ DOMAIN fs = 1 .. n
  BY <1>1, LenProperties
<1>3. \A i \in 1 .. n : fs[i] \in DbField
  BY <1>1, ElementOfSeq
<1> HIDE DEF n
<1>4. \A i \in 1 .. n : fs[i].scales \in Seq(RowShapes)
  BY <1>3, DbFieldIs
<1>5. p \in [1 .. n -> Seq(RowShapes)] /\ \A i \in 1 .. n : p[i] = fs[i].scales
  BY <1>2, <1>4 DEF ScalesOf
<1> HIDE DEF p, fs
<1>6. p \in Seq(Seq(RowShapes)) /\ Len(p) = n
  BY <1>2, <1>5, FunctionIsSeq
<1> QED BY <1>1, <1>3, <1>5, <1>6 DEF p, n, fs

(* Every row in the table is one of a field.                               *)
LEMMA RowsAre ==
    ASSUME NEW c \in Catalogs
    PROVE  /\ RowsOf(c) \in Seq(RowShapes)
           /\ \A r \in 1 .. Len(RowsOf(c)) :
                 RowsOf(c)[r] \in RowShapes /\ RowsOf(c)[r].text \in ToSet(Pool(c))
<1> DEFINE items == ScalesOf(c)
           runs == Distinct(items)
           rows == RowsOf(c)
<1>1. /\ items \in Seq(Seq(RowShapes)) /\ Len(items) = Len(Fields(c))
      /\ \A f \in 1 .. Len(Fields(c)) : items[f] = Fields(c)[f].scales
  BY ScalesAre
<1>2. DOMAIN items = 1 .. Len(Fields(c))
  BY <1>1, LenProperties
<1> HIDE DEF items
<1>3. runs \in Seq(Seq(RowShapes)) /\ ToSet(runs) = ToSet(items)
  BY <1>1, DistinctIs
<1>4. rows = FlattenSeq(runs)
  BY DEF RowsOf, items
<1> HIDE DEF runs, rows
<1>5. rows \in Seq(RowShapes) /\ Pieces(runs, rows)
  BY <1>3, <1>4, FlattenPieces
<1>6. ASSUME NEW r \in 1 .. Len(rows) PROVE rows[r] \in RowShapes /\ rows[r].text \in ToSet(Pool(c))
  <2>1. PICK i \in 1 .. Len(runs) : \E k \in 1 .. Len(runs[i]) : rows[r] = runs[i][k]
    BY <1>5, PieceAt
  <2>2. PICK k \in 1 .. Len(runs[i]) : rows[r] = runs[i][k]
    BY <2>1
  <2>3. runs[i] \in ToSet(runs)
    BY <1>3, LenProperties DEF ToSet
  <2>4. PICK f \in 1 .. Len(Fields(c)) : runs[i] = items[f]
    BY <1>2, <1>3, <2>3 DEF ToSet
  <2>5. runs[i] = Fields(c)[f].scales
    BY <1>1, <2>4
  <2>6. rows[r].text \in ToSet(Pool(c))
    BY <2>2, <2>5, PoolHolds
  <2>7. rows[r] \in RowShapes
    BY <1>5, ElementOfSeq
  <2> QED BY <2>6, <2>7
<1> QED BY <1>5, <1>6 DEF rows

(* Every field names the group it lies in.                                 *)
LEMMA OwnersAre ==
    ASSUME NEW c \in Catalogs
    PROVE  /\ Owners(c) \in Seq(Nat)
           /\ \A g \in 1 .. Len(Groups(c)) : \A k \in 1 .. Len(Groups(c)[g].fields) :
                 Owners(c)[Begin(FieldParts(Groups(c)), g) + k] = g
           /\ \A f \in 1 .. Len(Fields(c)) : Owners(c)[f] \in 1 .. Len(Groups(c))
<1> DEFINE gs == Groups(c)
           n == Len(gs)
           p == OwnerParts(gs)
           q == FieldParts(gs)
<1>1. /\ gs \in Seq(DbGroup)
      /\ q \in Seq(Seq(DbField)) /\ Len(q) = n
      /\ \A i \in 1 .. n : q[i] = gs[i].fields /\ gs[i] \in DbGroup
      /\ Pieces(q, Fields(c))
  BY GroupsAre, FieldsAre DEF Fields
<1>2. n \in Nat /\ DOMAIN gs = 1 .. n
  BY <1>1, LenProperties
<1>3. ASSUME NEW i \in 1 .. n
      PROVE  /\ p[i] \in Seq(Nat) /\ Len(p[i]) = Len(gs[i].fields)
             /\ \A k \in 1 .. Len(gs[i].fields) : p[i][k] = i
  <2> DEFINE m == Len(gs[i].fields)
             part == [f \in 1 .. m |-> i]
  <2>1. gs[i].fields \in Seq(DbField)
    BY <1>1, DbGroupIs
  <2>2. m \in Nat /\ DOMAIN gs[i].fields = 1 .. m
    BY <2>1, LenProperties
  <2>3. p[i] = part
    BY <1>2, <2>2 DEF OwnerParts
  <2> HIDE DEF m
  <2>4. part \in [1 .. m -> Nat] /\ \A k \in 1 .. m : part[k] = i
    OBVIOUS
  <2> HIDE DEF part
  <2>5. part \in Seq(Nat) /\ Len(part) = m
    BY <2>2, <2>4, FunctionIsSeq
  <2> QED BY <2>3, <2>4, <2>5 DEF m
<1>4. p \in [1 .. n -> Seq(Nat)]
  <2>1. p = [i \in 1 .. n |-> p[i]]
    BY <1>2 DEF OwnerParts
  <2> HIDE DEF p
  <2> QED BY <1>3, <2>1
<1> HIDE DEF p, q, n, gs
<1>5. p \in Seq(Seq(Nat)) /\ Len(p) = n
  BY <1>2, <1>4, FunctionIsSeq
<1>6. Owners(c) = FlattenSeq(p)
  BY DEF Owners, p, gs
<1>7. Owners(c) \in Seq(Nat) /\ Pieces(p, Owners(c))
  BY <1>5, <1>6, FlattenPieces
<1>8. \A i \in 1 .. n : Begin(p, i) = Begin(q, i)
  <2>1. Len(p) = Len(q)
    BY <1>1, <1>5
  <2>2. \A i \in 1 .. Len(p) : Len(p[i]) = Len(q[i])
    BY <1>1, <1>3, <1>5
  <2>3. \A i \in 1 .. Len(p) : Begin(p, i) = Begin(q, i)
    <3>1. p \in Seq(Seq(Nat)) /\ q \in Seq(Seq(DbField)) /\ SameLengths(p, q)
      BY <1>1, <1>5, <2>1, <2>2 DEF SameLengths
    <3> QED BY <3>1, BeginSame
  <2> QED BY <1>5, <2>3
<1>9. ASSUME NEW g \in 1 .. n, NEW k \in 1 .. Len(gs[g].fields) PROVE Owners(c)[Begin(q, g) + k] = g
  <2>1. k \in 1 .. Len(p[g]) /\ p[g][k] = g
    BY <1>3
  <2>2. Owners(c)[Begin(p, g) + k] = p[g][k]
    BY <1>5, <1>7, <2>1 DEF Pieces
  <2> QED BY <1>8, <2>1, <2>2
<1>10. ASSUME NEW f \in 1 .. Len(Fields(c)) PROVE Owners(c)[f] \in 1 .. n
  <2>1. PICK i \in 1 .. Len(q) : \E k \in 1 .. Len(q[i]) : f = Begin(q, i) + k
    BY <1>1, PieceAt
  <2>2. PICK k \in 1 .. Len(q[i]) : f = Begin(q, i) + k
    BY <2>1
  <2>3. i \in 1 .. n /\ k \in 1 .. Len(gs[i].fields)
    BY <1>1, <2>2
  <2> QED BY <1>9, <2>2, <2>3
<1> QED BY <1>7, <1>9, <1>10 DEF n, gs, q

(* A blob, field by field.                                                 *)
EcuRecords == [name : Nat, n : Nat, first : Nat]
GroupRecords ==
    [name : Nat, level : Nat, req : Nat, reqLen : Nat, sid : Nat, n : Nat, first : Nat]
FieldRecords ==
    [name : Nat, unit : Nat, pos : Nat, size : Nat, block : BOOLEAN, first : Nat, n : Nat,
     count : Nat, stride : Nat, group : Nat]
RowRecords == [low : Int, high : Int, text : Nat, invalid : BOOLEAN]
Offsets ==
    [ecus : Nat, groups : Nat, fields : Nat, scales : Nat, req : Nat, index : Nat, strings : Nat,
     total : Nat]
Blobs ==
    [ecus : Seq(EcuRecords), groups : Seq(GroupRecords), fields : Seq(FieldRecords),
     scales : Seq(RowRecords), req : Seq(Nat), index : Seq(IndexEntries), strings : Seq(Texts),
     off : Offsets, total : Int]

(* The sizes of the tables, and where one may lie.                         *)
Sizes == [ecus : Nat, groups : Nat, fields : Nat, scales : Nat, req : Nat, index : Nat, strings : Nat]
OnWord(off, len, total) == off % 4 = 0 /\ 80 <= off /\ off + len <= total

(* The layout leaves nothing out and keeps the tables on words.            *)
LEMMA LayoutIs ==
    ASSUME NEW n \in Sizes, NEW off, off = Layout(n)
    PROVE  /\ off \in Offsets
           /\ OnWord(off.ecus, n.ecus * 24, off.total) /\ OnWord(off.groups, n.groups * 20, off.total)
           /\ OnWord(off.fields, n.fields * 20, off.total)
           /\ OnWord(off.scales, n.scales * 24, off.total)
           /\ OnWord(off.index, n.index * 12, off.total)
           /\ 80 <= off.req /\ off.req + n.req <= off.total
           /\ 80 <= off.strings /\ off.strings + n.strings <= off.total
<1> DEFINE groups == 80 + n.ecus * 24
           fields == groups + n.groups * 20
           scales == fields + n.fields * 20
           req == scales + n.scales * 24
           index == Pad4(req + n.req)
           strings == index + n.index * 12
           total == strings + n.strings
<1>1. /\ n.ecus \in Nat /\ n.groups \in Nat /\ n.fields \in Nat /\ n.scales \in Nat
      /\ n.req \in Nat /\ n.index \in Nat /\ n.strings \in Nat
  BY DEF Sizes
<1>2. off = [ecus |-> 80, groups |-> groups, fields |-> fields, scales |-> scales,
             req |-> req, index |-> index, strings |-> strings, total |-> total]
  BY DEF Layout
<1>3. groups \in Nat /\ groups % 4 = 0 /\ groups = 80 + n.ecus * 24
  BY <1>1
<1> HIDE DEF groups
<1>4. fields \in Nat /\ fields % 4 = 0 /\ fields = groups + n.groups * 20
  BY <1>1, <1>3
<1> HIDE DEF fields
<1>5. scales \in Nat /\ scales % 4 = 0 /\ scales = fields + n.fields * 20
  BY <1>1, <1>4
<1> HIDE DEF scales
<1>6. req \in Nat /\ req = scales + n.scales * 24
  BY <1>1, <1>5
<1> HIDE DEF req
<1> DEFINE end == req + n.req
<1>7. end \in Nat /\ end = req + n.req
  BY <1>1, <1>6
<1>8. index = Pad4(end)
  OBVIOUS
<1> HIDE DEF end, index
<1>9. index \in Nat /\ index % 4 = 0 /\ end <= index
  BY <1>7, <1>8 DEF Pad4
<1>10. strings \in Nat /\ strings = index + n.index * 12
  BY <1>1, <1>9
<1> HIDE DEF strings
<1>11. total \in Nat /\ total = strings + n.strings
  BY <1>1, <1>10
<1> HIDE DEF total
<1>12. off \in Offsets
  BY <1>2, <1>3, <1>4, <1>5, <1>6, <1>9, <1>10, <1>11 DEF Offsets
<1>13. /\ off.ecus = 80 /\ off.groups = groups /\ off.fields = fields /\ off.scales = scales
       /\ off.req = req /\ off.index = index /\ off.strings = strings /\ off.total = total
  BY <1>2
<1> DEFINE e == n.ecus * 24
           g == n.groups * 20
           f == n.fields * 20
           s == n.scales * 24
           i == n.index * 12
<1>14. e \in Nat /\ g \in Nat /\ f \in Nat /\ s \in Nat /\ i \in Nat
  BY <1>1
<1>15. /\ groups = 80 + e /\ fields = groups + g /\ scales = fields + f /\ req = scales + s
       /\ strings = index + i
  BY <1>3, <1>4, <1>5, <1>6, <1>10
<1> HIDE DEF e, g, f, s, i
<1>16. /\ OnWord(80, e, total) /\ OnWord(groups, g, total) /\ OnWord(fields, f, total)
       /\ OnWord(scales, s, total) /\ OnWord(index, i, total)
       /\ 80 <= req /\ req + n.req <= total /\ 80 <= strings /\ strings + n.strings <= total
  <2>1. 80 % 4 = 0
    OBVIOUS
  <2> DEFINE nreq == n.req
             ntext == n.strings
  <2>2. nreq \in Nat /\ ntext \in Nat /\ end = req + nreq /\ total = strings + ntext
    BY <1>1, <1>7, <1>11
  <2> HIDE DEF nreq, ntext
  <2>3. groups \in Int /\ fields \in Int /\ scales \in Int /\ req \in Int /\ index \in Int
        /\ strings \in Int /\ total \in Int /\ end \in Int
    BY <1>3, <1>4, <1>5, <1>6, <1>7, <1>9, <1>10, <1>11
  <2>4. end <= index
    BY <1>9
  <2>5. 80 <= groups /\ groups <= fields /\ fields <= scales /\ scales <= req /\ req <= end
        /\ index <= strings /\ strings <= total
    BY <1>14, <1>15, <2>2, <2>3
  <2>6. 80 + e <= total /\ groups + g <= total /\ fields + f <= total /\ scales + s <= total
        /\ index + i <= total /\ req + nreq <= total /\ strings + ntext <= total
    BY <1>15, <2>2, <2>3, <2>4, <2>5
  <2>7. 80 <= fields /\ 80 <= scales /\ 80 <= index /\ 80 <= req /\ 80 <= strings
    BY <2>3, <2>4, <2>5
  <2> QED BY <1>3, <1>4, <1>5, <1>9, <2>1, <2>5, <2>6, <2>7 DEF OnWord, nreq, ntext
<1> QED BY <1>12, <1>13, <1>16 DEF e, g, f, s, i

(* A string of the catalog has its place in the pool.                      *)
LEMMA PoolAt ==
    ASSUME NEW c \in Catalogs, NEW x \in ToSet(Pool(c))
    PROVE  /\ At(Pool(c), x) \in Nat /\ At(Pool(c), x) \in DOMAIN Pool(c)
           /\ Pool(c)[At(Pool(c), x)] = x
<1>1. At(Pool(c), x) \in DOMAIN Pool(c) /\ Pool(c)[At(Pool(c), x)] = x
  BY AtIs
<1>2. DOMAIN Pool(c) = 1 .. Len(Pool(c))
  BY PoolHolds, LenProperties
<1> QED BY <1>1, <1>2

(* What the limits say of each group and of each field.                    *)
LEMMA LimitsAre ==
    ASSUME NEW c \in Catalogs, Limits(c)
    PROVE  /\ \A g \in 1 .. Len(Groups(c)) : GroupFits(Groups(c)[g])
           /\ \A f \in 1 .. Len(Fields(c)) : FieldFits(Fields(c)[f])
<1> DEFINE gs == Groups(c)
<1>1. /\ gs \in Seq(DbGroup) /\ DOMAIN gs = 1 .. Len(gs)
      /\ Len(FieldParts(gs)) = Len(gs) /\ Pieces(FieldParts(gs), Fields(c))
      /\ \A i \in 1 .. Len(gs) : FieldParts(gs)[i] = gs[i].fields /\ gs[i] \in DbGroup
  BY GroupsAre, FieldsAre, LenProperties DEF Fields
<1>2. \A g \in 1 .. Len(gs) : GroupFits(gs[g])
  BY <1>1 DEF Limits
<1> HIDE DEF gs
<1>3. ASSUME NEW f \in 1 .. Len(Fields(c)) PROVE FieldFits(Fields(c)[f])
  <2>1. PICK i \in 1 .. Len(FieldParts(gs)) : \E k \in 1 .. Len(FieldParts(gs)[i]) :
           Fields(c)[f] = FieldParts(gs)[i][k]
    BY <1>1, PieceAt
  <2>2. PICK k \in 1 .. Len(FieldParts(gs)[i]) : Fields(c)[f] = FieldParts(gs)[i][k]
    BY <2>1
  <2>3. i \in 1 .. Len(gs) /\ k \in 1 .. Len(gs[i].fields) /\ Fields(c)[f] = gs[i].fields[k]
    BY <1>1, <2>1, <2>2
  <2>4. k \in DOMAIN gs[i].fields
    BY <1>1, <2>3, DbGroupIs, LenProperties
  <2>5. GroupFits(gs[i])
    BY <1>2, <2>3
  <2>6. FieldFits(gs[i].fields[k])
    BY <2>4, <2>5 DEF GroupFits
  <2> QED BY <2>3, <2>6
<1> QED BY <1>2, <1>3 DEF gs

(* The rows of a field, and the request of a group, are where its record   *)
(* says.                                                                   *)
LEMMA RowsLie ==
    ASSUME NEW c \in Catalogs, NEW f \in 1 .. Len(Fields(c)),
           NEW first, first = RowsBegin(c, f), NEW n, n = Len(Fields(c)[f].scales)
    PROVE  /\ first \in Nat /\ n \in Nat /\ first + n <= Len(RowsOf(c))
           /\ \A k \in 1 .. n : RowsOf(c)[first + k] = Fields(c)[f].scales[k]
<1> DEFINE rows == Fields(c)[f].scales
           items == ScalesOf(c)
<1>1. items \in Seq(Seq(RowShapes)) /\ f \in 1 .. Len(items) /\ items[f] = rows
  BY ScalesAre
<1>2. rows \in Seq(RowShapes)
  BY <1>1, ElementOfSeq
<1>3. Len(RowsOf(c)) \in Nat /\ n \in Nat
  BY <1>2, RowsAre, LenProperties
<1>4. CASE rows = <<>>
  <2>1. first = 0 /\ n = 0
    BY <1>4 DEF RowsBegin
  <2> QED BY <1>3, <2>1
<1>5. CASE rows # <<>>
  <2>1. first = Begin(Distinct(items), At(Distinct(items), items[f]))
    BY <1>1, <1>5 DEF RowsBegin
  <2> HIDE DEF items
  <2>2. /\ first \in Nat /\ first + Len(items[f]) <= Len(FlattenSeq(Distinct(items)))
        /\ \A k \in 1 .. Len(items[f]) : FlattenSeq(Distinct(items))[first + k] = items[f][k]
    <3>1. items \in Seq(Seq(RowShapes)) /\ f \in 1 .. Len(items)
      BY <1>1
    <3>2. SharedAt(items, f, first)
      BY <2>1, <3>1, SharedIs
    <3> QED BY <3>2 DEF SharedAt
  <2>3. RowsOf(c) = FlattenSeq(Distinct(items))
    BY DEF RowsOf, items
  <2>4. n = Len(items[f]) /\ items[f] = Fields(c)[f].scales
    BY <1>1
  <2> QED BY <1>3, <2>2, <2>3, <2>4
<1> QED BY <1>4, <1>5

(* A request lies in the pool of the requests.                             *)
RequestAt(c, g, first, n, req) ==
    /\ req \in Seq(Nat) /\ first \in Nat /\ n \in Nat /\ first + n <= Len(req)
    /\ \A k \in 1 .. n : req[first + k] = Groups(c)[g].request[k]

(* The request of a group.                                                 *)
LEMMA RequestLies ==
    ASSUME NEW c \in Catalogs, NEW g \in 1 .. Len(Groups(c)), NEW first, first = GroupRecord(c, g).req,
           NEW n, n = Len(Groups(c)[g].request), NEW req, req = FlattenSeq(Distinct(RequestsOf(c)))
    PROVE  RequestAt(c, g, first, n, req)
<1> DEFINE items == RequestsOf(c)
<1>1. items \in Seq(Seq(Nat)) /\ g \in 1 .. Len(items) /\ items[g] = Groups(c)[g].request
  BY RequestsAre
<1>2. items[g] \in Seq(Nat)
  BY <1>1, ElementOfSeq
<1>3. first = Begin(Distinct(items), At(Distinct(items), items[g]))
  BY <1>1 DEF GroupRecord
<1>4. req = FlattenSeq(Distinct(items))
  OBVIOUS
<1>5. n = Len(items[g])
  BY <1>1
<1> HIDE DEF items
<1>6. /\ first \in Nat /\ first + Len(items[g]) <= Len(FlattenSeq(Distinct(items)))
      /\ \A k \in 1 .. Len(items[g]) : FlattenSeq(Distinct(items))[first + k] = items[g][k]
  <2>1. SharedAt(items, g, first)
    BY <1>1, <1>3, SharedIs
  <2> QED BY <2>1 DEF SharedAt
<1>7. req \in Seq(Nat)
  BY <1>1, <1>4, DistinctIs, FlattenPieces
<1>8. n \in Nat
  BY <1>2, <1>5, LenProperties
<1> QED BY <1>1, <1>4, <1>5, <1>6, <1>7, <1>8 DEF RequestAt

(* The record of an ECU.                                                   *)
LEMMA EcuRecordIs ==
    ASSUME NEW c \in Catalogs, NEW e \in 1 .. Len(c)
    PROVE  EcuRecord(c, e) \in EcuRecords
<1>1. At(Pool(c), c[e].name) \in Nat
  BY PoolHolds, PoolAt
<1>2. Begin(GroupParts(c), e) \in Nat
  BY GroupsAre DEF Pieces
<1>3. Len(c[e].groups) \in Nat
  BY GroupsAre, DbEcuIs, LenProperties
<1> QED BY <1>1, <1>2, <1>3 DEF EcuRecord, EcuRecords

(* Of a group.                                                             *)
LEMMA GroupRecordIs ==
    ASSUME NEW c \in Catalogs, NEW g \in 1 .. Len(Groups(c)), GroupFits(Groups(c)[g])
    PROVE  GroupRecord(c, g) \in GroupRecords
<1> DEFINE r == GroupRecord(c, g)
           h == Groups(c)[g]
<1>1. h \in DbGroup
  BY GroupsAre, ElementOfSeq
<1>2. At(Pool(c), h.name) \in Nat
  BY PoolHolds, PoolAt
<1>3. h.level % 16 \in Nat
  <2> DEFINE l == h.level
  <2>1. l \in Nat
    BY <1>1, DbGroupIs
  <2> HIDE DEF l
  <2>2. l % 16 \in Nat
    BY <2>1
  <2> QED BY <2>2 DEF l
<1>4. r.req \in Nat /\ Len(h.request) \in Nat
  <2>1. RequestAt(c, g, r.req, Len(h.request), FlattenSeq(Distinct(RequestsOf(c))))
    BY RequestLies
  <2> QED BY <2>1 DEF RequestAt
<1>5. Head(h.request) \in Nat
  <2>1. h.request \in Seq(Nat)
    BY <1>1, DbGroupIs
  <2>2. h.request # <<>>
    <3>1. Len(h.request) \in 1 .. MaxReqLen
      BY DEF GroupFits
    <3>2. Len(h.request) # 0
      BY <3>1
    <3> QED BY <3>2
  <2> HIDE DEF h
  <2> QED BY <2>1, <2>2, HeadTailProperties
<1>6. Len(h.fields) \in Nat
  BY <1>1, DbGroupIs, LenProperties
<1>7. Begin(FieldParts(Groups(c)), g) \in Nat
  BY GroupsAre, FieldsAre DEF Pieces
<1>8. r = [name |-> At(Pool(c), h.name), level |-> h.level % 16, req |-> r.req, reqLen |-> Len(h.request),
           sid |-> Head(h.request), n |-> Len(h.fields), first |-> Begin(FieldParts(Groups(c)), g)]
  BY DEF GroupRecord
<1> HIDE DEF r, h
<1> QED BY <1>2, <1>3, <1>4, <1>5, <1>6, <1>7, <1>8 DEF GroupRecords, r

(* Of a field.                                                             *)
LEMMA FieldRecordIs ==
    ASSUME NEW c \in Catalogs, NEW f \in 1 .. Len(Fields(c))
    PROVE  FieldRecord(c, f) \in FieldRecords
<1> DEFINE d == Fields(c)[f]
<1>1. d \in DbField
  BY ScalesAre
<1>2. At(Pool(c), d.name) \in Nat /\ At(Pool(c), d.unit) \in Nat
  BY PoolHolds, PoolAt
<1>3. RowsBegin(c, f) \in Nat /\ Len(d.scales) \in Nat
  BY RowsLie
<1>4. Owners(c)[f] \in Nat
  BY OwnersAre
<1>5. FieldRecord(c, f) =
        [name |-> At(Pool(c), d.name), unit |-> At(Pool(c), d.unit), pos |-> d.pos, size |-> d.size,
         block |-> d.block, first |-> RowsBegin(c, f), n |-> Len(d.scales), count |-> d.count,
         stride |-> d.stride, group |-> Owners(c)[f]]
  BY DEF FieldRecord
<1> HIDE DEF d
<1>6. d.pos \in Nat /\ d.size \in Nat /\ d.count \in Nat /\ d.stride \in Nat /\ d.block \in BOOLEAN
  BY <1>1, DbFieldIs
<1> QED BY <1>2, <1>3, <1>4, <1>5, <1>6 DEF FieldRecords

(* Of a row.                                                               *)
LEMMA RowRecordIs ==
    ASSUME NEW c \in Catalogs, NEW r \in 1 .. Len(RowsOf(c))
    PROVE  /\ RowRecord(c, r) \in RowRecords
           /\ RowRecord(c, r).text \in DOMAIN Pool(c)
           /\ [RowRecord(c, r) EXCEPT !.text = Pool(c)[RowRecord(c, r).text]] = RowsOf(c)[r]
<1> DEFINE row == RowsOf(c)[r]
           at == At(Pool(c), row.text)
<1>1. row \in RowShapes /\ row.text \in ToSet(Pool(c))
  BY RowsAre
<1>2. at \in Nat /\ at \in DOMAIN Pool(c) /\ Pool(c)[at] = row.text
  BY <1>1, PoolAt
<1>3. RowRecord(c, r) = [row EXCEPT !.text = at]
  BY DEF RowRecord
<1> HIDE DEF row, at
<1>4. /\ row.low \in Int /\ row.high \in Int /\ row.invalid \in BOOLEAN
      /\ row = [low |-> row.low, high |-> row.high, text |-> row.text, invalid |-> row.invalid]
  BY <1>1 DEF RowShapes
<1>5. [row EXCEPT !.text = at] = [low |-> row.low, high |-> row.high, text |-> at, invalid |-> row.invalid]
  BY <1>4
<1> DEFINE w == [low |-> row.low, high |-> row.high, text |-> at, invalid |-> row.invalid]
<1>6. w.text = at /\ w \in RowRecords
  BY <1>2, <1>4 DEF RowRecords
<1>7. [w EXCEPT !.text = row.text] = row
  BY <1>4
<1>8. RowRecord(c, r) = w
  BY <1>3, <1>5
<1> HIDE DEF w
<1> QED BY <1>2, <1>6, <1>7, <1>8 DEF row

(* What the blob of a catalog holds.                                       *)
Written(c, b) ==
    /\ Len(b.ecus) = Len(c) /\ \A e \in 1 .. Len(c) : b.ecus[e] = EcuRecord(c, e)
    /\ Len(b.groups) = Len(Groups(c)) /\ \A g \in 1 .. Len(Groups(c)) : b.groups[g] = GroupRecord(c, g)
    /\ Len(b.fields) = Len(Fields(c)) /\ \A f \in 1 .. Len(Fields(c)) : b.fields[f] = FieldRecord(c, f)
    /\ Len(b.scales) = Len(RowsOf(c)) /\ \A r \in 1 .. Len(RowsOf(c)) : b.scales[r] = RowRecord(c, r)
    /\ b.req = FlattenSeq(Distinct(RequestsOf(c))) /\ b.index = NameIndex(c, Pool(c))
    /\ b.strings = Pool(c) /\ b.off = LayoutOf(c) /\ b.total = b.off.total

(* write_catalog makes one.                                                *)
LEMMA WrittenIs ==
    ASSUME NEW c \in Catalogs, Limits(c), NEW b, b = Write(c)
    PROVE  b \in Blobs /\ Written(c, b)
<1> DEFINE es == [e \in DOMAIN c |-> EcuRecord(c, e)]
           gs == [g \in DOMAIN Groups(c) |-> GroupRecord(c, g)]
           fs == [f \in DOMAIN Fields(c) |-> FieldRecord(c, f)]
           rs == [r \in DOMAIN RowsOf(c) |-> RowRecord(c, r)]
           req == FlattenSeq(Distinct(RequestsOf(c)))
           ix == NameIndex(c, Pool(c))
           off == LayoutOf(c)
<1>1. b = [ecus |-> es, groups |-> gs, fields |-> fs, scales |-> rs, req |-> req, index |-> ix,
           strings |-> Pool(c), off |-> off, total |-> off.total]
  BY WriteIs
<1>2. /\ DOMAIN c = 1 .. Len(c) /\ Len(c) \in Nat
      /\ DOMAIN Groups(c) = 1 .. Len(Groups(c)) /\ Len(Groups(c)) \in Nat
      /\ DOMAIN Fields(c) = 1 .. Len(Fields(c)) /\ Len(Fields(c)) \in Nat
      /\ DOMAIN RowsOf(c) = 1 .. Len(RowsOf(c)) /\ Len(RowsOf(c)) \in Nat
  <2>1. c \in Seq(DbEcu) /\ Groups(c) \in Seq(DbGroup)
    BY GroupsAre DEF Catalogs
  <2>2. Fields(c) \in Seq(DbField) /\ RowsOf(c) \in Seq(RowShapes)
    BY ScalesAre, RowsAre
  <2> QED BY <2>1, <2>2, LenProperties
<1>3. es \in Seq(EcuRecords) /\ Len(es) = Len(c) /\ \A e \in 1 .. Len(c) : es[e] = EcuRecord(c, e)
  <2>1. es \in [1 .. Len(c) -> EcuRecords] /\ \A e \in 1 .. Len(c) : es[e] = EcuRecord(c, e)
    BY <1>2, EcuRecordIs
  <2> HIDE DEF es
  <2> QED BY <1>2, <2>1, FunctionIsSeq
<1>4. gs \in Seq(GroupRecords) /\ Len(gs) = Len(Groups(c))
      /\ \A g \in 1 .. Len(Groups(c)) : gs[g] = GroupRecord(c, g)
  <2>1. gs \in [1 .. Len(Groups(c)) -> GroupRecords]
        /\ \A g \in 1 .. Len(Groups(c)) : gs[g] = GroupRecord(c, g)
    BY <1>2, GroupRecordIs, LimitsAre
  <2> HIDE DEF gs
  <2> QED BY <1>2, <2>1, FunctionIsSeq
<1>5. fs \in Seq(FieldRecords) /\ Len(fs) = Len(Fields(c))
      /\ \A f \in 1 .. Len(Fields(c)) : fs[f] = FieldRecord(c, f)
  <2>1. fs \in [1 .. Len(Fields(c)) -> FieldRecords]
        /\ \A f \in 1 .. Len(Fields(c)) : fs[f] = FieldRecord(c, f)
    BY <1>2, FieldRecordIs
  <2> HIDE DEF fs
  <2> QED BY <1>2, <2>1, FunctionIsSeq
<1>6. rs \in Seq(RowRecords) /\ Len(rs) = Len(RowsOf(c))
      /\ \A r \in 1 .. Len(RowsOf(c)) : rs[r] = RowRecord(c, r)
  <2>1. rs \in [1 .. Len(RowsOf(c)) -> RowRecords]
        /\ \A r \in 1 .. Len(RowsOf(c)) : rs[r] = RowRecord(c, r)
    BY <1>2, RowRecordIs
  <2> HIDE DEF rs
  <2> QED BY <1>2, <2>1, FunctionIsSeq
<1>7. req \in Seq(Nat)
  BY RequestsAre, DistinctIs, FlattenPieces
<1>8. ix \in Seq(IndexEntries)
  BY IndexIs
<1>9. Pool(c) \in Seq(Texts)
  BY PoolHolds
<1>10. off \in Offsets
  <2> DEFINE n == [ecus |-> Len(c), groups |-> Len(Groups(c)), fields |-> Len(Fields(c)),
                   scales |-> Len(RowsOf(c)), req |-> Len(req), index |-> Len(ix),
                   strings |-> Len(Pool(c))]
  <2>1. n \in Sizes
    <3> HIDE DEF req, ix
    <3>1. Len(req) \in Nat /\ Len(ix) \in Nat /\ Len(Pool(c)) \in Nat
      BY <1>7, <1>8, <1>9, LenProperties
    <3> QED BY <1>2, <3>1 DEF Sizes
  <2>2. off = Layout(n)
    BY DEF LayoutOf
  <2> HIDE DEF n, off
  <2> QED BY <2>1, <2>2, LayoutIs
<1> HIDE DEF es, gs, fs, rs, req, ix, off
<1>11. off.total \in Int
  BY <1>10 DEF Offsets
<1>12. b \in Blobs
  BY <1>1, <1>3, <1>4, <1>5, <1>6, <1>7, <1>8, <1>9, <1>10, <1>11 DEF Blobs
<1>13. /\ b.ecus = es /\ b.groups = gs /\ b.fields = fs /\ b.scales = rs /\ b.req = req
       /\ b.index = ix /\ b.strings = Pool(c) /\ b.off = off /\ b.total = off.total
  BY <1>1
<1>14. Written(c, b)
  BY <1>3, <1>4, <1>5, <1>6, <1>13 DEF Written, req, ix, off
<1> QED BY <1>12, <1>14

(* The parts of a blob.                                                    *)
LEMMA BlobIs ==
    ASSUME NEW b \in Blobs
    PROVE  /\ b.ecus \in Seq(EcuRecords) /\ b.groups \in Seq(GroupRecords)
           /\ b.fields \in Seq(FieldRecords) /\ b.scales \in Seq(RowRecords) /\ b.req \in Seq(Nat)
           /\ b.index \in Seq(IndexEntries) /\ b.strings \in Seq(Texts)
           /\ b.off \in Offsets /\ b.total \in Int
           /\ b = [ecus |-> b.ecus, groups |-> b.groups, fields |-> b.fields, scales |-> b.scales,
                   req |-> b.req, index |-> b.index, strings |-> b.strings, off |-> b.off,
                   total |-> b.total]
BY DEF Blobs

(* Where its tables have their records.                                    *)
LEMMA BlobDomains ==
    ASSUME NEW b \in Blobs
    PROVE  /\ DOMAIN b.ecus = 1 .. Len(b.ecus) /\ Len(b.ecus) \in Nat
           /\ DOMAIN b.groups = 1 .. Len(b.groups) /\ Len(b.groups) \in Nat
           /\ DOMAIN b.fields = 1 .. Len(b.fields) /\ Len(b.fields) \in Nat
           /\ DOMAIN b.scales = 1 .. Len(b.scales) /\ Len(b.scales) \in Nat
           /\ DOMAIN b.index = 1 .. Len(b.index) /\ Len(b.index) \in Nat
           /\ DOMAIN b.strings = 1 .. Len(b.strings) /\ Len(b.strings) \in Nat
           /\ DOMAIN b.req = 1 .. Len(b.req) /\ Len(b.req) \in Nat
BY BlobIs, LenProperties

(* Its layout is one read_catalog takes.                                   *)
LEMMA WrittenLayout ==
    ASSUME NEW c \in Catalogs, NEW b \in Blobs, Written(c, b)
    PROVE  LayoutOk(b)
<1> DEFINE n == [ecus |-> Len(c), groups |-> Len(Groups(c)), fields |-> Len(Fields(c)),
                 scales |-> Len(RowsOf(c)), req |-> Len(FlattenSeq(Distinct(RequestsOf(c)))),
                 index |-> Len(NameIndex(c, Pool(c))), strings |-> Len(Pool(c))]
           off == b.off
<1>1. /\ n.ecus = Len(b.ecus) /\ n.groups = Len(b.groups) /\ n.fields = Len(b.fields)
      /\ n.scales = Len(b.scales) /\ n.req = Len(b.req) /\ n.index = Len(b.index)
      /\ n.strings = Len(b.strings)
  BY DEF Written
<1>2. n = [ecus |-> Len(b.ecus), groups |-> Len(b.groups), fields |-> Len(b.fields),
           scales |-> Len(b.scales), req |-> Len(b.req), index |-> Len(b.index),
           strings |-> Len(b.strings)]
  BY DEF Written
<1>3. off = Layout(n) /\ b.total = off.total
  BY DEF Written, LayoutOf
<1>4. Len(b.strings) \in Nat \ {0}
  BY PoolHolds DEF Written
<1> HIDE DEF n
<1>5. n \in Sizes
  BY <1>2, BlobDomains DEF Sizes
<1>6. /\ OnWord(off.ecus, n.ecus * 24, off.total) /\ OnWord(off.groups, n.groups * 20, off.total)
      /\ OnWord(off.fields, n.fields * 20, off.total)
      /\ OnWord(off.scales, n.scales * 24, off.total)
      /\ OnWord(off.index, n.index * 12, off.total)
      /\ 80 <= off.req /\ off.req + n.req <= off.total
      /\ 80 <= off.strings /\ off.strings + n.strings <= off.total
  BY <1>3, <1>5, LayoutIs
<1>7. Len(b.strings) >= 1
  BY <1>4
<1> HIDE DEF off
<1>8. /\ Inside(b, off.req, Len(b.req)) /\ Inside(b, off.strings, Len(b.strings))
  BY <1>1, <1>3, <1>6 DEF Inside
<1>9. /\ TableOk(b, off.ecus, Len(b.ecus), 24) /\ TableOk(b, off.groups, Len(b.groups), 20)
      /\ TableOk(b, off.fields, Len(b.fields), 20) /\ TableOk(b, off.scales, Len(b.scales), 24)
      /\ TableOk(b, off.index, Len(b.index), 12)
  BY <1>1, <1>3, <1>6 DEF TableOk, Inside, OnWord
<1> QED BY <1>7, <1>8, <1>9 DEF LayoutOk, off

(* So are its fields.                                                      *)
LEMMA WrittenField ==
    ASSUME NEW c \in Catalogs, NEW b \in Blobs, Written(c, b), Limits(c), NEW f \in 1 .. Len(Fields(c))
    PROVE  FieldOk(b, b.fields[f])
<1> DEFINE r == b.fields[f]
           d == Fields(c)[f]
<1>1. /\ r = FieldRecord(c, f) /\ b.strings = Pool(c) /\ Len(b.scales) = Len(RowsOf(c))
      /\ Len(b.groups) = Len(Groups(c))
  BY DEF Written
<1>2. d \in DbField /\ FieldFits(d)
  BY ScalesAre, LimitsAre
<1>3. /\ r.first = RowsBegin(c, f) /\ r.n = Len(d.scales) /\ r.group = Owners(c)[f]
      /\ r.block = d.block /\ r.size = d.size /\ r.pos = d.pos
      /\ r.name = At(Pool(c), d.name) /\ r.unit = At(Pool(c), d.unit)
  BY <1>1 DEF FieldRecord
<1>4. RowsBegin(c, f) + Len(d.scales) <= Len(RowsOf(c))
  BY RowsLie
<1>5. Owners(c)[f] \in DOMAIN b.groups
  <2>1. Owners(c)[f] \in 1 .. Len(Groups(c))
    BY OwnersAre
  <2> QED BY <1>1, <2>1, BlobDomains
<1>6. RefOk(b, r.name) /\ RefOk(b, r.unit)
  <2>1. d.name \in ToSet(Pool(c)) /\ d.unit \in ToSet(Pool(c))
    BY PoolHolds
  <2>2. At(Pool(c), d.name) \in DOMAIN Pool(c)
    BY <2>1, PoolAt
  <2>3. At(Pool(c), d.unit) \in DOMAIN Pool(c)
    BY <2>1, PoolAt
  <2> QED BY <1>1, <1>3, <2>2, <2>3 DEF RefOk
<1>7. IF d.block THEN d.size % 8 = 0 /\ d.size \in 8 .. MaxBlockBits /\ d.pos % 8 = 0
                 ELSE d.size \in 1 .. MaxNumericBits
  BY <1>2 DEF FieldFits
<1> HIDE DEF r, d
<1> QED BY <1>1, <1>3, <1>4, <1>5, <1>6, <1>7 DEF FieldOk, r

(* Its index.                                                              *)
LEMMA WrittenIndex ==
    ASSUME NEW c \in Catalogs, NEW b \in Blobs, Written(c, b)
    PROVE  IndexOk(b)
<1> DEFINE ix == b.index
<1>1. ix = NameIndex(c, Pool(c)) /\ b.strings = Pool(c)
  BY DEF Written
<1>2. /\ ix \in Seq(IndexEntries)
      /\ \A i \in 1 .. Len(ix) : \E t \in Targets(c) : ix[i] = EntryOf(c, t)
      /\ \A i, j \in 1 .. Len(ix) : i < j => Before(ix[i], ix[j])
  BY <1>1, IndexIs
<1>3. DOMAIN ix = 1 .. Len(ix) /\ Len(ix) \in Nat /\ \A i \in 1 .. Len(ix) : ix[i] \in IndexEntries
  BY <1>2, LenProperties, ElementOfSeq
<1> HIDE DEF ix
<1>4. ASSUME NEW i \in 1 .. Len(ix), i > 1
      PROVE  ~Before([ix[i] EXCEPT !.name = 0], [ix[i - 1] EXCEPT !.name = 0])
  <2> DEFINE x == ix[i - 1]
             y == ix[i]
  <2>1. i - 1 \in 1 .. Len(ix) /\ i - 1 < i
    BY <1>3, <1>4
  <2>2. x \in IndexEntries /\ y \in IndexEntries /\ Before(x, y)
    BY <1>2, <1>3, <2>1
  <2> HIDE DEF x, y
  <2>3. /\ x.hash \in Int /\ x.name \in Nat /\ x.kind \in Kinds /\ x.idx \in Nat
        /\ y.hash \in Int /\ y.name \in Nat /\ y.kind \in Kinds /\ y.idx \in Nat
        /\ x = [hash |-> x.hash, name |-> x.name, kind |-> x.kind, idx |-> x.idx]
        /\ y = [hash |-> y.hash, name |-> y.name, kind |-> y.kind, idx |-> y.idx]
    BY <2>2 DEF IndexEntries
  <2> DEFINE u == [x EXCEPT !.name = 0]
             v == [y EXCEPT !.name = 0]
  <2>4. /\ u.hash = x.hash /\ u.kind = x.kind /\ u.idx = x.idx /\ u.name = 0
        /\ v.hash = y.hash /\ v.kind = y.kind /\ v.idx = y.idx /\ v.name = 0
    BY <2>3
  <2> HIDE DEF u, v
  <2>5. KindNo(x.kind) \in Nat /\ KindNo(y.kind) \in Nat
    BY <2>3, KindNumbers
  <2>6. ~Before(v, u)
    BY <2>2, <2>3, <2>4, <2>5 DEF Before
  <2> QED BY <2>6 DEF u, v, x, y
<1>5. ASSUME NEW i \in 1 .. Len(ix)
      PROVE  /\ RefOk(b, ix[i].name) /\ HashOf[b.strings[ix[i].name]] = ix[i].hash
             /\ ix[i].idx \in CASE ix[i].kind = "ecu" -> DOMAIN b.ecus
                                [] ix[i].kind = "group" -> DOMAIN b.groups
                                [] OTHER -> DOMAIN b.fields
  <2>1. PICK t \in Targets(c) : ix[i] = EntryOf(c, t)
    BY <1>2
  <2>2. PICK n \in EcuNames \cup Names, k \in Kinds, x \in Nat : t = <<n, k, x>>
    BY TargetsAre
  <2>3. Stands(c, n, k, x)
    BY <2>2, TargetsAre
  <2>4. ix[i].hash = HashOf[n] /\ ix[i].name = At(Pool(c), n) /\ ix[i].kind = k /\ ix[i].idx = x
    BY <2>1, <2>2 DEF EntryOf
  <2>5. At(Pool(c), n) \in DOMAIN Pool(c) /\ Pool(c)[At(Pool(c), n)] = n
    BY <2>3, StandsIsPooled, PoolAt
  <2>6. RefOk(b, ix[i].name) /\ HashOf[b.strings[ix[i].name]] = ix[i].hash
    BY <1>1, <2>4, <2>5 DEF RefOk
  <2>7. /\ DOMAIN b.ecus = 1 .. Len(c) /\ DOMAIN b.groups = 1 .. Len(Groups(c))
        /\ DOMAIN b.fields = 1 .. Len(Fields(c))
    BY BlobDomains DEF Written
  <2>8. CASE k = "ecu"
    <3>1. x \in 1 .. Len(c)
      BY <2>3, <2>8 DEF Stands
    <3> QED BY <2>4, <2>6, <2>7, <2>8, <3>1
  <2>9. CASE k = "group"
    <3>1. x \in 1 .. Len(Groups(c))
      BY <2>3, <2>9 DEF Stands
    <3> QED BY <2>4, <2>6, <2>7, <2>9, <3>1
  <2>10. CASE k = "field"
    <3>1. x \in 1 .. Len(Fields(c))
      BY <2>3, <2>10 DEF Stands
    <3> QED BY <2>4, <2>6, <2>7, <2>10, <3>1
  <2> QED BY <2>8, <2>9, <2>10 DEF Kinds
<1> QED BY <1>3, <1>4, <1>5 DEF IndexOk, ix

(* Its groups.                                                             *)
LEMMA WrittenGroup ==
    ASSUME NEW c \in Catalogs, NEW b \in Blobs, Written(c, b), Limits(c), NEW g \in 1 .. Len(Groups(c))
    PROVE  GroupOk(b, g)
<1> DEFINE r == b.groups[g]
           d == Groups(c)[g]
           q == FieldParts(Groups(c))
           at == Begin(q, g)
           n == Len(d.fields)
<1>1. /\ r = GroupRecord(c, g) /\ b.strings = Pool(c) /\ Len(b.fields) = Len(Fields(c))
      /\ b.req = FlattenSeq(Distinct(RequestsOf(c)))
  BY DEF Written
<1>2. d \in DbGroup /\ GroupFits(d)
  BY GroupsAre, ElementOfSeq, LimitsAre
<1>3. /\ r.name = At(Pool(c), d.name) /\ r.reqLen = Len(d.request) /\ r.sid = Head(d.request)
      /\ r.n = n /\ r.first = at
  BY <1>1 DEF GroupRecord
<1>4. at \in Nat /\ at + n <= Len(Fields(c)) /\ n \in Nat
  <2>1. /\ Pieces(q, Fields(c)) /\ Len(q) = Len(Groups(c)) /\ q[g] = d.fields
    BY GroupsAre, FieldsAre DEF Fields
  <2>2. n \in Nat
    BY <1>2, DbGroupIs, LenProperties
  <2> HIDE DEF q
  <2>3. Begin(q, g) \in Nat /\ Begin(q, g) + Len(q[g]) <= Len(Fields(c))
    BY <2>1 DEF Pieces
  <2> QED BY <2>1, <2>2, <2>3
<1>5. r.req = GroupRecord(c, g).req
  BY <1>1
<1> DEFINE m == Len(d.request)
<1>6. /\ r.req \in Nat /\ m \in Nat /\ r.req + m <= Len(b.req)
      /\ \A k \in 1 .. m : b.req[r.req + k] = d.request[k]
  <2> DEFINE start == GroupRecord(c, g).req
             whole == FlattenSeq(Distinct(RequestsOf(c)))
  <2>1. start = GroupRecord(c, g).req /\ whole = FlattenSeq(Distinct(RequestsOf(c)))
        /\ m = Len(Groups(c)[g].request)
    OBVIOUS
  <2>2. r.req = start /\ b.req = whole
    BY <1>1, <1>5
  <2> HIDE DEF start, whole, m, r
  <2>3. /\ start \in Nat /\ m \in Nat /\ start + m <= Len(whole)
        /\ \A k \in 1 .. m : whole[start + k] = Groups(c)[g].request[k]
    <3>1. RequestAt(c, g, start, m, whole)
      BY <2>1, RequestLies
    <3> QED BY <3>1 DEF RequestAt
  <2> QED BY <2>2, <2>3
<1>7. m >= 1
  <2>1. m \in 1 .. MaxReqLen
    BY <1>2 DEF GroupFits
  <2> QED BY <2>1
<1>8. b.req[r.req + 1] = Head(d.request)
  <2>1. 1 \in 1 .. m
    BY <1>6, <1>7
  <2>2. Head(d.request) = d.request[1]
    OBVIOUS
  <2> QED BY <1>6, <2>1, <2>2
<1>9. RefOk(b, r.name)
  BY <1>1, <1>3, PoolHolds, PoolAt DEF RefOk
<1>10. ParentOk(b, g)
  <2>1. SUFFICES ASSUME NEW f \in at + 1 .. at + n PROVE b.fields[f].group = g
    BY <1>3 DEF ParentOk
  <2> DEFINE k == f - at
  <2> HIDE DEF at, n
  <2>2. k \in 1 .. n /\ f = at + k /\ f \in 1 .. Len(Fields(c))
    <3>1. Len(Fields(c)) \in Nat
      BY ScalesAre, LenProperties
    <3> QED BY <1>4, <3>1
  <2> HIDE DEF k
  <2>3. b.fields[f] = FieldRecord(c, f)
    BY <2>2 DEF Written
  <2>4. b.fields[f].group = Owners(c)[f]
    BY <2>3 DEF FieldRecord
  <2>5. Owners(c)[at + k] = g
    BY <2>2, OwnersAre DEF at, n
  <2> QED BY <2>2, <2>4, <2>5
<1>11. RunOk(b, g)
  BY <1>1, <1>3, <1>4 DEF RunOk
<1> HIDE DEF r, d, at, n, m
<1>12. r.req + r.reqLen <= Len(b.req) /\ r.reqLen >= 1 /\ b.req[r.req + 1] = r.sid
  BY <1>3, <1>6, <1>7, <1>8 DEF m
<1> QED BY <1>9, <1>10, <1>11, <1>12 DEF GroupOk, r

(* Its ECUs.                                                               *)
LEMMA WrittenEcu ==
    ASSUME NEW c \in Catalogs, NEW b \in Blobs, Written(c, b), NEW e \in 1 .. Len(c)
    PROVE  EcuOk(b, e)
<1> DEFINE p == GroupParts(c)
<1>1. b.ecus[e] = EcuRecord(c, e) /\ b.strings = Pool(c) /\ Len(b.groups) = Len(Groups(c))
  BY DEF Written
<1>2. /\ b.ecus[e].name = At(Pool(c), c[e].name) /\ b.ecus[e].n = Len(c[e].groups)
      /\ b.ecus[e].first = Begin(p, e)
  BY <1>1 DEF EcuRecord
<1>3. Pieces(p, Groups(c)) /\ Len(p) = Len(c) /\ p[e] = c[e].groups
  BY GroupsAre
<1> HIDE DEF p
<1>4. Begin(p, e) + Len(p[e]) <= Len(Groups(c))
  BY <1>3 DEF Pieces
<1>5. RefOk(b, b.ecus[e].name)
  BY <1>1, <1>2, PoolHolds, PoolAt DEF RefOk
<1> QED BY <1>1, <1>2, <1>3, <1>4, <1>5 DEF EcuOk

(* What write_catalog makes, read_catalog takes.                           *)
LEMMA WrittenIsAccepted ==
    ASSUME NEW c \in Catalogs, NEW b \in Blobs, Written(c, b), Limits(c)
    PROVE  Accepts(b)
<1>1. /\ DOMAIN b.ecus = 1 .. Len(c) /\ DOMAIN b.groups = 1 .. Len(Groups(c))
      /\ DOMAIN b.fields = 1 .. Len(Fields(c)) /\ DOMAIN b.scales = 1 .. Len(RowsOf(c))
      /\ b.strings = Pool(c) /\ \A r \in 1 .. Len(RowsOf(c)) : b.scales[r] = RowRecord(c, r)
  BY BlobDomains DEF Written
<1>2. \A r \in DOMAIN b.scales : RefOk(b, b.scales[r].text)
  BY <1>1, RowRecordIs DEF RefOk
<1>3. \A f \in DOMAIN b.fields : FieldOk(b, b.fields[f])
  BY <1>1, WrittenField
<1>4. \A g \in DOMAIN b.groups : GroupOk(b, g)
  BY <1>1, WrittenGroup
<1>5. \A e \in DOMAIN b.ecus : EcuOk(b, e)
  BY <1>1, WrittenEcu
<1>6. LayoutOk(b) /\ IndexOk(b)
  BY WrittenLayout, WrittenIndex
<1> QED BY <1>2, <1>3, <1>4, <1>5, <1>6 DEF Accepts

(* A sequence is its elements.                                             *)
LEMMA SeqIsFunction ==
    ASSUME NEW S, NEW s \in Seq(S), NEW n, n = Len(s)
    PROVE  n \in Nat /\ DOMAIN s = 1 .. n /\ s = [i \in 1 .. n |-> s[i]]
OBVIOUS

(* What one record of the field table is read as.                          *)
FieldRead(b, r) ==
    LET rows == Slice(b.scales, r.first, r.n) IN
    [name |-> b.strings[r.name], unit |-> b.strings[r.unit], pos |-> r.pos,
     size |-> r.size, block |-> r.block, stride |-> r.stride,
     count |-> IF r.count > 1 THEN r.count ELSE 1,
     scales |-> [k \in DOMAIN rows |-> [rows[k] EXCEPT !.text = b.strings[rows[k].text]]]]

(* The field it was made for.                                              *)
LEMMA FieldReadIs ==
    ASSUME NEW c \in Catalogs, NEW b \in Blobs, Written(c, b), Limits(c), NEW f \in 1 .. Len(Fields(c))
    PROVE  FieldRead(b, b.fields[f]) = Fields(c)[f]
<1> DEFINE r == b.fields[f]
           d == Fields(c)[f]
           first == RowsBegin(c, f)
           n == Len(d.scales)
           rows == Slice(b.scales, first, n)
           read == [k \in DOMAIN rows |-> [rows[k] EXCEPT !.text = b.strings[rows[k].text]]]
<1>1. /\ r = FieldRecord(c, f) /\ b.strings = Pool(c) /\ Len(b.scales) = Len(RowsOf(c))
      /\ \A k \in 1 .. Len(RowsOf(c)) : b.scales[k] = RowRecord(c, k)
  BY DEF Written
<1>2. d \in DbField /\ FieldFits(d)
  BY ScalesAre, LimitsAre
<1>3. /\ r.first = first /\ r.n = n /\ r.block = d.block /\ r.size = d.size /\ r.pos = d.pos
      /\ r.count = d.count /\ r.stride = d.stride
      /\ r.name = At(Pool(c), d.name) /\ r.unit = At(Pool(c), d.unit)
  BY <1>1 DEF FieldRecord
<1>4. /\ first \in Nat /\ n \in Nat /\ first + n <= Len(RowsOf(c))
      /\ \A k \in 1 .. n : RowsOf(c)[first + k] = d.scales[k]
  <2>1. first = RowsBegin(c, f) /\ n = Len(Fields(c)[f].scales)
    OBVIOUS
  <2> HIDE DEF first, n
  <2> QED BY <2>1, RowsLie
<1>5. b.strings[r.name] = d.name /\ b.strings[r.unit] = d.unit
  BY <1>1, <1>3, PoolHolds, PoolAt
<1>6. d.count \in Nat /\ d.count >= 1
  <2>1. d.count \in 1 .. MaxRepeatCount
    BY <1>2 DEF FieldFits
  <2> QED BY <2>1
<1>7. (IF d.count > 1 THEN d.count ELSE 1) = d.count
  BY <1>6
<1>8. FieldRead(b, r) =
        [name |-> b.strings[r.name], unit |-> b.strings[r.unit], pos |-> r.pos,
         size |-> r.size, block |-> r.block, stride |-> r.stride,
         count |-> IF r.count > 1 THEN r.count ELSE 1, scales |-> read]
  BY <1>3 DEF FieldRead
<1>9. /\ DOMAIN rows = 1 .. n
      /\ \A k \in 1 .. n : rows[k] = b.scales[first + k]
  <2>1. b.scales \in Seq(RowRecords)
    BY BlobIs
  <2>2. first + n <= Len(b.scales)
    BY <1>1, <1>4
  <2> HIDE DEF first, n
  <2> QED BY <1>4, <2>1, <2>2, SliceIs
<1>10. d.scales \in Seq(RowShapes)
  BY <1>2, DbFieldIs
<1>11. Len(RowsOf(c)) \in Nat
  BY RowsAre, LenProperties
<1> HIDE DEF rows, first
<1>12. ASSUME NEW k \in 1 .. n PROVE [rows[k] EXCEPT !.text = b.strings[rows[k].text]] = d.scales[k]
  <2> DEFINE p == first + k
  <2>0. k \in Nat /\ 1 <= k /\ k <= n
    BY <1>4
  <2>1. p \in 1 .. Len(RowsOf(c))
    <3> HIDE DEF n
    <3> QED BY <1>4, <1>11, <2>0
  <2>2. rows[k] = RowRecord(c, p) /\ RowsOf(c)[p] = d.scales[k]
    BY <1>1, <1>4, <1>9, <2>1
  <2> HIDE DEF p
  <2>3. [RowRecord(c, p) EXCEPT !.text = Pool(c)[RowRecord(c, p).text]] = RowsOf(c)[p]
    BY <2>1, RowRecordIs
  <2> QED BY <1>1, <2>2, <2>3
<1>13. read = d.scales
  <2>1. read = [k \in 1 .. n |-> [rows[k] EXCEPT !.text = b.strings[rows[k].text]]]
    BY <1>9
  <2>2. d.scales = [k \in 1 .. n |-> d.scales[k]]
    BY <1>10, SeqIsFunction
  <2>3. [k \in 1 .. n |-> [rows[k] EXCEPT !.text = b.strings[rows[k].text]]] = [k \in 1 .. n |-> d.scales[k]]
    BY <1>12
  <2> QED BY <2>1, <2>2, <2>3
<1> HIDE DEF read, n, r, d
<1>14. FieldRead(b, r) =
        [name |-> d.name, unit |-> d.unit, pos |-> d.pos, size |-> d.size, block |-> d.block,
         stride |-> d.stride, count |-> d.count, scales |-> d.scales]
  BY <1>3, <1>5, <1>7, <1>8, <1>13
<1>15. d = [name |-> d.name, unit |-> d.unit, pos |-> d.pos, size |-> d.size, block |-> d.block,
            stride |-> d.stride, count |-> d.count, scales |-> d.scales]
  BY <1>2 DEF DbField
<1> QED BY <1>14, <1>15 DEF r, d

(* A run of the field table that lies inside it.                           *)
LEMMA FieldRunIs ==
    ASSUME NEW b \in Blobs, NEW at \in Nat, NEW n \in Nat, at + n <= Len(b.fields)
    PROVE  /\ Len(Slice(b.fields, at, n)) = n /\ DOMAIN Slice(b.fields, at, n) = 1 .. n
           /\ \A i \in 1 .. n : Slice(b.fields, at, n)[i] = b.fields[at + i]
<1>1. b.fields \in Seq(FieldRecords)
  BY BlobIs
<1>2. Len(Slice(b.fields, at, n)) = n
  BY <1>1, SliceIs
<1>3. DOMAIN Slice(b.fields, at, n) = 1 .. n
  BY <1>1, SliceIs
<1>4. \A i \in 1 .. n : Slice(b.fields, at, n)[i] = b.fields[at + i]
  BY <1>1, SliceIs
<1> QED BY <1>2, <1>3, <1>4

(* A run of numbers.                                                       *)
LEMMA NumbersRunIs ==
    ASSUME NEW s \in Seq(Nat), NEW first \in Nat, NEW n \in Nat, first + n <= Len(s),
           NEW run, run = Slice(s, first, n)
    PROVE  /\ run \in Seq(Nat) /\ Len(run) = n /\ DOMAIN run = 1 .. n
           /\ \A k \in 1 .. n : run[k] = s[first + k]
<1>1. Slice(s, first, n) \in Seq(Nat) /\ Len(Slice(s, first, n)) = n
  BY SliceIs
<1>2. DOMAIN Slice(s, first, n) = 1 .. n
  BY SliceIs
<1>3. \A k \in 1 .. n : Slice(s, first, n)[k] = s[first + k]
  BY SliceIs
<1> QED BY <1>1, <1>2, <1>3

(* The fields of a group are read back.                                    *)
LEMMA FieldsReadIs ==
    ASSUME NEW c \in Catalogs, NEW b \in Blobs, Written(c, b), Limits(c), NEW g \in 1 .. Len(Groups(c)),
           NEW at, at = Begin(FieldParts(Groups(c)), g), NEW n, n = Len(Groups(c)[g].fields)
    PROVE  ReadFields(b, at, n) = Groups(c)[g].fields
<1> DEFINE d == Groups(c)[g]
           q == FieldParts(Groups(c))
           run == Slice(b.fields, at, n)
<1>1. d \in DbGroup
  BY GroupsAre, ElementOfSeq
<1>2. d.fields \in Seq(DbField)
  BY <1>1, DbGroupIs
<1>3. n \in Nat /\ d.fields = [i \in 1 .. n |-> d.fields[i]]
  BY <1>2, SeqIsFunction
<1>4. /\ Pieces(q, Fields(c)) /\ Len(q) = Len(Groups(c)) /\ q[g] = d.fields
  BY GroupsAre, FieldsAre DEF Fields
<1>5. /\ at \in Nat /\ at + n <= Len(Fields(c))
      /\ \A i \in 1 .. n : Fields(c)[at + i] = d.fields[i]
  <2> HIDE DEF q
  <2>1. g \in 1 .. Len(q)
    BY <1>4
  <2>2. /\ Begin(q, g) \in Nat /\ Begin(q, g) + Len(q[g]) <= Len(Fields(c))
        /\ \A k \in 1 .. Len(q[g]) : Fields(c)[Begin(q, g) + k] = q[g][k]
    BY <1>4, <2>1 DEF Pieces
  <2>3. at = Begin(q, g)
    BY DEF q
  <2> QED BY <1>4, <2>2, <2>3
<1>6. /\ DOMAIN run = 1 .. n /\ \A i \in 1 .. n : run[i] = b.fields[at + i]
  <2>1. at + n <= Len(b.fields)
    BY <1>5 DEF Written
  <2>2. at \in Nat /\ n \in Nat
    BY <1>3, <1>5
  <2>3. DOMAIN Slice(b.fields, at, n) = 1 .. n
    BY <2>1, <2>2, FieldRunIs
  <2>4. \A i \in 1 .. n : Slice(b.fields, at, n)[i] = b.fields[at + i]
    BY <2>1, <2>2, FieldRunIs
  <2> QED BY <2>3, <2>4
<1>7. ReadFields(b, at, n) = [i \in DOMAIN run |-> FieldRead(b, run[i])]
  BY DEF ReadFields, FieldRead
<1> HIDE DEF run
<1>8. Len(Fields(c)) \in Nat
  BY ScalesAre, LenProperties
<1>9. ASSUME NEW i \in 1 .. n PROVE FieldRead(b, run[i]) = d.fields[i]
  <2> DEFINE p == at + i
  <2>1. p \in 1 .. Len(Fields(c))
    BY <1>3, <1>5, <1>8
  <2>2. run[i] = b.fields[p] /\ Fields(c)[p] = d.fields[i]
    BY <1>5, <1>6
  <2> HIDE DEF p, d
  <2>3. FieldRead(b, b.fields[p]) = Fields(c)[p]
    BY <2>1, FieldReadIs
  <2> QED BY <2>2, <2>3
<1>10. [i \in DOMAIN run |-> FieldRead(b, run[i])] = [i \in 1 .. n |-> d.fields[i]]
  BY <1>6, <1>9
<1> QED BY <1>3, <1>7, <1>10

(* A group is read back, its aliases from the index.                       *)
LEMMA GroupReadIs ==
    ASSUME NEW c \in Catalogs, NEW b \in Blobs, Written(c, b), Limits(c), NEW g \in 1 .. Len(Groups(c))
    PROVE  ReadGroup(b, g) = Groups(c)[g]
<1> DEFINE r == b.groups[g]
           d == Groups(c)[g]
           name == b.strings[r.name]
           entries == {i \in DOMAIN b.index : b.index[i].kind = "group" /\ b.index[i].idx = g}
           told == {b.strings[b.index[i].name] : i \in entries}
           m == Len(d.request)
<1>1. /\ r = GroupRecord(c, g) /\ b.strings = Pool(c)
      /\ b.req = FlattenSeq(Distinct(RequestsOf(c))) /\ b.index = NameIndex(c, Pool(c))
  BY DEF Written
<1>2. d \in DbGroup /\ GroupFits(d)
  BY GroupsAre, ElementOfSeq, LimitsAre
<1>3. /\ r.name = At(Pool(c), d.name) /\ r.reqLen = m /\ r.level = d.level % 16
      /\ r.n = Len(d.fields) /\ r.first = Begin(FieldParts(Groups(c)), g)
  BY <1>1 DEF GroupRecord
<1>4. name = d.name
  BY <1>1, <1>3, PoolHolds, PoolAt
<1>5. d.level % 16 = d.level
  <2>1. d.level \in 0 .. 15
    BY <1>2 DEF GroupFits
  <2> DEFINE l == d.level
  <2>2. l \in 0 .. 15
    BY <2>1
  <2> HIDE DEF l
  <2>3. l % 16 = l
    BY <2>2
  <2> QED BY <2>3 DEF l
<1>6. Slice(b.req, r.req, m) = d.request
  <2> DEFINE start == GroupRecord(c, g).req
             whole == FlattenSeq(Distinct(RequestsOf(c)))
             part == Slice(whole, start, m)
  <2>1. start = GroupRecord(c, g).req /\ whole = FlattenSeq(Distinct(RequestsOf(c)))
        /\ m = Len(Groups(c)[g].request)
    OBVIOUS
  <2>2. r.req = start /\ b.req = whole
    BY <1>1
  <2>3. d.request \in Seq(Nat)
    BY <1>2, DbGroupIs
  <2>4. d.request = [k \in 1 .. m |-> d.request[k]]
    BY <2>3, SeqIsFunction
  <2> HIDE DEF start, whole, m, r
  <2>5. /\ whole \in Seq(Nat) /\ start \in Nat /\ m \in Nat /\ start + m <= Len(whole)
        /\ \A k \in 1 .. m : whole[start + k] = Groups(c)[g].request[k]
    <3>1. RequestAt(c, g, start, m, whole)
      BY <2>1, RequestLies
    <3> QED BY <3>1 DEF RequestAt
  <2>6. /\ part \in Seq(Nat) /\ Len(part) = m /\ DOMAIN part = 1 .. m
        /\ \A k \in 1 .. m : part[k] = whole[start + k]
    BY <2>5, NumbersRunIs
  <2> HIDE DEF part
  <2>7. part = [k \in 1 .. m |-> part[k]]
    BY <2>6, SeqIsFunction
  <2>8. [k \in 1 .. m |-> part[k]] = [k \in 1 .. m |-> d.request[k]]
    BY <2>5, <2>6
  <2>9. part = d.request
    BY <2>4, <2>7, <2>8
  <2> QED BY <2>2, <2>9 DEF part
<1> DEFINE known == ({d.name} \cup d.aliases) \ {""}
<1>7. told = known
  <2>1. /\ DOMAIN b.index = 1 .. Len(b.index)
        /\ \A i \in 1 .. Len(b.index) : \E t \in Targets(c) : b.index[i] = EntryOf(c, t)
        /\ \A t \in Targets(c) : \E i \in 1 .. Len(b.index) : b.index[i] = EntryOf(c, t)
    <3>1. Indexed(c, b.index)
      BY <1>1, IndexedIs
    <3> QED BY <3>1, BlobDomains DEF Indexed
  <2>2. ASSUME NEW i \in entries
        PROVE  b.strings[b.index[i].name] \in known
    <3>1. i \in 1 .. Len(b.index) /\ b.index[i].kind = "group" /\ b.index[i].idx = g
      BY <2>1
    <3>2. PICK t \in Targets(c) : b.index[i] = EntryOf(c, t)
      BY <2>1, <3>1
    <3>3. PICK n \in EcuNames \cup Names, k \in Kinds, x \in Nat : t = <<n, k, x>>
      BY TargetsAre
    <3>4. Stands(c, n, k, x)
      BY <3>3, TargetsAre
    <3>5. b.index[i].name = At(Pool(c), n) /\ b.index[i].kind = k /\ b.index[i].idx = x
      BY <3>2, <3>3 DEF EntryOf
    <3>6. n # "" /\ (n = d.name \/ n \in d.aliases)
      BY <3>1, <3>4, <3>5 DEF Stands
    <3>7. b.strings[b.index[i].name] = n
      BY <1>1, <3>4, <3>5, StandsIsPooled, PoolAt
    <3> QED BY <3>6, <3>7
  <2>3. ASSUME NEW n \in known PROVE \E i \in entries : b.strings[b.index[i].name] = n
    <3>1. Stands(c, n, "group", g)
      BY DEF Stands
    <3> DEFINE t == <<n, "group", g>>
    <3>2. t \in Targets(c)
      BY <3>1, TargetsAre
    <3>3. EntryOf(c, t).name = At(Pool(c), n) /\ EntryOf(c, t).kind = "group" /\ EntryOf(c, t).idx = g
      BY DEF EntryOf
    <3> HIDE DEF t
    <3>4. PICK i \in 1 .. Len(b.index) : b.index[i] = EntryOf(c, t)
      BY <2>1, <3>2
    <3>5. i \in entries
      BY <2>1, <3>3, <3>4
    <3>6. b.strings[b.index[i].name] = n
      BY <1>1, <3>1, <3>3, <3>4, StandsIsPooled, PoolAt
    <3> QED BY <3>5, <3>6
  <2> HIDE DEF entries, known
  <2> QED BY <2>2, <2>3
<1>8. told \ {name} = d.aliases
  <2>1. d.name \notin d.aliases /\ "" \notin d.aliases
    BY <1>2, DbGroupIs
  <2> HIDE DEF told, name
  <2> QED BY <1>4, <1>7, <2>1
<1>9. ReadFields(b, r.first, r.n) = d.fields
  BY <1>3, FieldsReadIs
<1>10. ReadGroup(b, g) = [name |-> name, level |-> r.level, request |-> Slice(b.req, r.req, r.reqLen),
                          aliases |-> told \ {name}, fields |-> ReadFields(b, r.first, r.n)]
  BY DEF ReadGroup
<1>11. d = [name |-> d.name, request |-> d.request, level |-> d.level, aliases |-> d.aliases,
            fields |-> d.fields]
  BY <1>2, DbGroupIs
<1> HIDE DEF told, name, r, d, m
<1> QED BY <1>3, <1>4, <1>5, <1>6, <1>8, <1>9, <1>10, <1>11 DEF d

(* What write_catalog makes, read_catalog reads back.                      *)
LEMMA WrittenIsRead ==
    ASSUME NEW c \in Catalogs, NEW b \in Blobs, Written(c, b), Limits(c)
    PROVE  Read(b) = c
<1> DEFINE p == GroupParts(c)
           n == Len(c)
           groupsOf(e) == [i \in 1 .. Len(Slice(b.groups, b.ecus[e].first, b.ecus[e].n)) |->
                              ReadGroup(b, b.ecus[e].first + i)]
           ecuRead(e) == [name |-> b.strings[b.ecus[e].name], groups |-> groupsOf(e)]
<1>1. n \in Nat /\ c = [e \in 1 .. n |-> c[e]]
  BY SeqIsFunction DEF Catalogs
<1>2. DOMAIN b.ecus = 1 .. n /\ b.strings = Pool(c) /\ Len(b.groups) = Len(Groups(c))
  BY BlobDomains DEF Written
<1>3. Read(b) = [e \in 1 .. n |-> ecuRead(e)]
  BY <1>2 DEF Read
<1>4. Pieces(p, Groups(c)) /\ Len(p) = n /\ \A e \in 1 .. n : p[e] = c[e].groups /\ c[e] \in DbEcu
  BY GroupsAre
<1>5. Len(Groups(c)) \in Nat
  BY GroupsAre, LenProperties
<1>6. b.groups \in Seq(GroupRecords)
  BY BlobIs
<1> HIDE DEF p
<1>7. ASSUME NEW e \in 1 .. n PROVE ecuRead(e) = c[e]
  <2> DEFINE at == Begin(p, e)
             m == Len(c[e].groups)
  <2>1. b.ecus[e] = EcuRecord(c, e)
    BY DEF Written
  <2>2. /\ b.ecus[e].name = At(Pool(c), c[e].name) /\ b.ecus[e].n = m /\ b.ecus[e].first = at
    BY <2>1 DEF EcuRecord, p
  <2>3. at \in Nat /\ at + m <= Len(Groups(c))
        /\ \A i \in 1 .. m : Groups(c)[at + i] = c[e].groups[i]
    <3>1. e \in 1 .. Len(p) /\ p[e] = c[e].groups
      BY <1>4
    <3>2. /\ Begin(p, e) \in Nat /\ Begin(p, e) + Len(p[e]) <= Len(Groups(c))
          /\ \A i \in 1 .. Len(p[e]) : Groups(c)[Begin(p, e) + i] = p[e][i]
      BY <1>4, <3>1 DEF Pieces
    <3> QED BY <3>1, <3>2
  <2>4. c[e].groups \in Seq(DbGroup) /\ c[e] = [name |-> c[e].name, groups |-> c[e].groups]
    BY <1>4, DbEcuIs
  <2>5. m \in Nat /\ c[e].groups = [i \in 1 .. m |-> c[e].groups[i]]
    BY <2>4, SeqIsFunction
  <2>6. b.strings[b.ecus[e].name] = c[e].name
    BY <1>2, <2>2, PoolHolds, PoolAt
  <2> HIDE DEF at, m, n
  <2>7. Len(Slice(b.groups, at, m)) = m
    BY <1>2, <1>6, <2>3, <2>5, SliceIs
  <2>8. ASSUME NEW i \in 1 .. m PROVE ReadGroup(b, at + i) = c[e].groups[i]
    <3>1. at + i \in 1 .. Len(Groups(c))
      BY <1>5, <2>3, <2>5
    <3>2. ReadGroup(b, at + i) = Groups(c)[at + i]
      BY <3>1, GroupReadIs
    <3> QED BY <2>3, <3>2
  <2>9. groupsOf(e) = [i \in 1 .. m |-> ReadGroup(b, at + i)]
    BY <2>2, <2>7
  <2>10. [i \in 1 .. m |-> ReadGroup(b, at + i)] = [i \in 1 .. m |-> c[e].groups[i]]
    BY <2>8
  <2>11. groupsOf(e) = c[e].groups
    BY <2>5, <2>9, <2>10
  <2> HIDE DEF groupsOf
  <2> QED BY <2>4, <2>6, <2>11
<1> HIDE DEF ecuRead, n
<1>8. [e \in 1 .. n |-> ecuRead(e)] = [e \in 1 .. n |-> c[e]]
  BY <1>7
<1> QED BY <1>1, <1>3, <1>8

(* The entries a lookup stops at.                                          *)
Same(b, n, k) ==
    {i \in 1 .. Len(b.index) : /\ b.index[i].hash = HashOf[n] /\ b.index[i].kind = k
                               /\ b.strings[b.index[i].name] = n}

(* Each of them is one, and each one has its entry.                        *)
LEMMA SameIs ==
    ASSUME NEW c \in Catalogs, NEW b \in Blobs, Written(c, b), NEW n \in EcuNames \cup Names, NEW k \in Kinds
    PROVE  /\ \A i \in Same(b, n, k) : Stands(c, n, k, b.index[i].idx)
           /\ \A x : Stands(c, n, k, x) => \E i \in Same(b, n, k) : b.index[i].idx = x
<1>1. b.strings = Pool(c) /\ b.index = NameIndex(c, Pool(c))
  BY DEF Written
<1>2. /\ \A i \in 1 .. Len(b.index) : \E t \in Targets(c) : b.index[i] = EntryOf(c, t)
      /\ \A t \in Targets(c) : \E i \in 1 .. Len(b.index) : b.index[i] = EntryOf(c, t)
  <2>1. Indexed(c, b.index)
    BY <1>1, IndexedIs
  <2> QED BY <2>1 DEF Indexed
<1>3. ASSUME NEW i \in Same(b, n, k) PROVE Stands(c, n, k, b.index[i].idx)
  <2>1. i \in 1 .. Len(b.index) /\ b.index[i].kind = k /\ b.strings[b.index[i].name] = n
    BY DEF Same
  <2>2. PICK t \in Targets(c) : b.index[i] = EntryOf(c, t)
    BY <1>2, <2>1
  <2>3. PICK m \in EcuNames \cup Names, l \in Kinds, x \in Nat : t = <<m, l, x>>
    BY TargetsAre
  <2>4. Stands(c, m, l, x)
    BY <2>3, TargetsAre
  <2>5. b.index[i].name = At(Pool(c), m) /\ b.index[i].kind = l /\ b.index[i].idx = x
    BY <2>2, <2>3 DEF EntryOf
  <2>6. b.strings[b.index[i].name] = m
    BY <1>1, <2>4, <2>5, StandsIsPooled, PoolAt
  <2> QED BY <2>1, <2>4, <2>5, <2>6
<1>4. ASSUME NEW x, Stands(c, n, k, x) PROVE \E i \in Same(b, n, k) : b.index[i].idx = x
  <2> DEFINE t == <<n, k, x>>
  <2>1. t \in Targets(c)
    BY <1>4, TargetsAre
  <2>2. /\ EntryOf(c, t).hash = HashOf[n] /\ EntryOf(c, t).name = At(Pool(c), n)
        /\ EntryOf(c, t).kind = k /\ EntryOf(c, t).idx = x
    BY DEF EntryOf
  <2> HIDE DEF t
  <2>3. PICK i \in 1 .. Len(b.index) : b.index[i] = EntryOf(c, t)
    BY <1>2, <2>1
  <2>4. b.strings[b.index[i].name] = n
    BY <1>1, <1>4, <2>2, <2>3, StandsIsPooled, PoolAt
  <2>5. i \in Same(b, n, k)
    BY <2>2, <2>3, <2>4 DEF Same
  <2> QED BY <2>2, <2>3, <2>5
<1> QED BY <1>3, <1>4

(* The first of them is what Catalog::find returns.                        *)
LEMMA FindIs ==
    ASSUME NEW b \in Blobs, NEW n \in EcuNames \cup Names, NEW k \in Kinds
    PROVE  /\ Same(b, n, k) = {} => Find(b, n, k) = 0
           /\ Same(b, n, k) # {} => \E i \in Same(b, n, k) : Find(b, n, k) = b.index[i].idx
<1> DEFINE from == {i \in DOMAIN b.index : b.index[i].hash >= HashOf[n]}
           same == {i \in from : /\ b.index[i].hash = HashOf[n] /\ b.index[i].kind = k
                                 /\ b.strings[b.index[i].name] = n}
           least == CHOOSE i \in same : \A j \in same : i <= j
<1>1. Find(b, n, k) = IF same = {} THEN 0 ELSE b.index[least].idx
  BY DEF Find
<1>2. DOMAIN b.index = 1 .. Len(b.index) /\ HashOf[n] \in Int
  BY BlobDomains, CatalogAssumption
<1>3. same = Same(b, n, k)
  <2>1. ASSUME NEW i \in 1 .. Len(b.index), b.index[i].hash = HashOf[n] PROVE b.index[i].hash >= HashOf[n]
    BY <1>2, <2>1
  <2> QED BY <1>2, <2>1 DEF Same
<1>4. same \subseteq Nat
  BY <1>2
<1> HIDE DEF from, same
<1>5. ASSUME same # {} PROVE least \in same
  <2>1. \E i \in same : \A j \in same : i <= j
    BY <1>4, <1>5, LeastOf
  <2> QED BY <2>1
<1> HIDE DEF least
<1>6. CASE same = {}
  BY <1>1, <1>3, <1>6
<1>7. CASE same # {}
  <2>1. Find(b, n, k) = b.index[least].idx /\ least \in same
    BY <1>1, <1>5, <1>7
  <2> QED BY <1>3, <1>7, <2>1
<1> QED BY <1>6, <1>7

(* What Catalog.resolve returns for a name and a kind.                     *)
Hits(c, n, k) == {t[3] : t \in {t \in Targets(c) : t[1] = n /\ t[2] = k}}

(* The one record, or none.                                                *)
LEMMA ResolveIs ==
    ASSUME NEW c \in Catalogs, NEW n, NEW k
    PROVE  /\ \A x : x \in Hits(c, n, k) <=> Stands(c, n, k, x)
           /\ Hits(c, n, k) = {} => Resolve(c, n, k) = 0
           /\ Hits(c, n, k) # {} /\ Resolve(c, n, k) # -1 => Hits(c, n, k) = {Resolve(c, n, k)}
<1> DEFINE named == {t \in Targets(c) : t[1] = n /\ t[2] = k}
           third == [t \in named |-> t[3]]
           hits == Hits(c, n, k)
<1>1. Resolve(c, n, k) =
        IF hits = {} THEN 0 ELSE IF Cardinality(hits) > 1 THEN -1 ELSE CHOOSE i \in hits : TRUE
  BY DEF Resolve, Hits
<1>2. ASSUME NEW x \in hits PROVE Stands(c, n, k, x)
  <2>1. PICK t \in Targets(c) : t[1] = n /\ t[2] = k /\ t[3] = x
    BY DEF Hits
  <2>2. PICK m \in EcuNames \cup Names, l \in Kinds, y \in Nat : t = <<m, l, y>>
    BY TargetsAre
  <2>3. t = <<n, k, x>>
    BY <2>1, <2>2
  <2> QED BY <2>3, TargetsAre
<1>3. ASSUME NEW x, Stands(c, n, k, x) PROVE x \in hits
  <2>1. <<n, k, x>> \in Targets(c)
    BY <1>3, TargetsAre
  <2> DEFINE t == <<n, k, x>>
  <2>2. t \in named /\ t[3] = x
    BY <2>1
  <2> HIDE DEF t
  <2> QED BY <2>2 DEF Hits
<1>4. IsFiniteSet(hits)
  <2>1. IsFiniteSet(named)
    BY TargetsAreFinite, FS_Subset
  <2>2. hits = {third[t] : t \in named} /\ third = [t \in named |-> third[t]] /\ DOMAIN third = named
    BY DEF Hits
  <2> HIDE DEF hits, named, third
  <2> QED BY <2>1, <2>2, ImageIsFinite
<1> HIDE DEF hits
<1>5. ASSUME hits # {}, Resolve(c, n, k) # -1 PROVE hits = {Resolve(c, n, k)}
  <2>1. ~ (Cardinality(hits) > 1) /\ Resolve(c, n, k) = CHOOSE i \in hits : TRUE
    BY <1>1, <1>5
  <2>2. Cardinality(hits) \in Nat /\ Cardinality(hits) # 0
    BY <1>4, <1>5, FS_CardinalityType, FS_EmptySet
  <2>3. Cardinality(hits) = 1
    BY <2>1, <2>2
  <2>4. PICK x : hits = {x}
    BY <1>4, <2>3, FS_Singleton
  <2> QED BY <2>1, <2>4
<1> QED BY <1>1, <1>2, <1>3, <1>5 DEF hits

(* Both sides agree.                                                       *)
LEMMA WrittenIsFound ==
    ASSUME NEW c \in Catalogs, NEW b \in Blobs, Written(c, b), NEW n \in EcuNames \cup Names, NEW k \in Kinds,
           Resolve(c, n, k) # -1
    PROVE  Find(b, n, k) = Resolve(c, n, k)
<1>1. /\ \A i \in Same(b, n, k) : b.index[i].idx \in Hits(c, n, k)
      /\ \A x \in Hits(c, n, k) : Same(b, n, k) # {}
  BY SameIs, ResolveIs
<1>2. CASE Hits(c, n, k) = {}
  BY <1>1, <1>2, FindIs, ResolveIs
<1>3. CASE Hits(c, n, k) # {}
  <2>1. Same(b, n, k) # {} /\ Hits(c, n, k) = {Resolve(c, n, k)}
    BY <1>1, <1>3, ResolveIs
  <2>2. PICK i \in Same(b, n, k) : Find(b, n, k) = b.index[i].idx
    BY <2>1, FindIs
  <2> QED BY <1>1, <2>1, <2>2
<1> QED BY <1>2, <1>3

(* What a reading of a run of length n is as long as.                      *)
LEMMA LenOfFunction ==
    ASSUME NEW n \in Nat, NEW f, DOMAIN f = 1 .. n
    PROVE  Len(f) = n
OBVIOUS

(* The rows of a field an accepted blob holds lie in the table.            *)
LEMMA RowsAreWhole ==
    ASSUME NEW b \in Blobs, NEW f \in 1 .. Len(b.fields), FieldOk(b, b.fields[f])
    PROVE  Len(FieldRead(b, b.fields[f]).scales) = b.fields[f].n
<1> DEFINE r == b.fields[f]
           rows == Slice(b.scales, r.first, r.n)
<1>1. r \in FieldRecords
  BY BlobIs, ElementOfSeq
<1>2. r.first \in Nat /\ r.n \in Nat
  BY <1>1 DEF FieldRecords
<1>3. r.first + r.n <= Len(b.scales)
  BY DEF FieldOk
<1>4. b.scales \in Seq(RowRecords)
  BY BlobIs
<1> DEFINE first == r.first
           n == r.n
<1>5. DOMAIN rows = 1 .. r.n
  <2>1. first \in Nat /\ n \in Nat /\ first + n <= Len(b.scales)
    BY <1>2, <1>3
  <2> HIDE DEF first, n
  <2>2. DOMAIN Slice(b.scales, first, n) = 1 .. n
    BY <1>4, <2>1, SliceIs
  <2> QED BY <2>2 DEF first, n
<1> DEFINE read == [k \in DOMAIN rows |-> [rows[k] EXCEPT !.text = b.strings[rows[k].text]]]
<1>6. FieldRead(b, r).scales = read
  BY DEF FieldRead
<1>7. DOMAIN read = 1 .. r.n
  BY <1>5
<1> HIDE DEF read, rows, r
<1> QED BY <1>2, <1>6, <1>7, LenOfFunction DEF r

(* A group of a blob and the fields it was read as.                        *)
GroupInFull(b, g, fs) ==
    /\ Len(fs) = b.groups[g].n
    /\ \A k \in DOMAIN fs :
          /\ Len(fs[k].scales) = b.fields[b.groups[g].first + k].n
          /\ b.fields[b.groups[g].first + k].group = g

(* The fields of a group lie in their table too, each of them its own.     *)
LEMMA FieldsAreWhole ==
    ASSUME NEW b \in Blobs, Accepts(b), NEW g \in 1 .. Len(b.groups),
           NEW fs, fs = ReadGroup(b, g).fields
    PROVE  GroupInFull(b, g, fs)
<1> DEFINE r == b.groups[g]
           first == r.first
           n == r.n
           run == Slice(b.fields, first, n)
<1>1. r \in GroupRecords
  BY BlobIs, ElementOfSeq
<1>2. first \in Nat /\ n \in Nat
  BY <1>1 DEF GroupRecords
<1>3. GroupOk(b, g) /\ \A f \in 1 .. Len(b.fields) : FieldOk(b, b.fields[f])
  BY BlobDomains DEF Accepts
<1>4. first + n <= Len(b.fields) /\ \A f \in first + 1 .. first + n : b.fields[f].group = g
  BY <1>3 DEF GroupOk, RunOk, ParentOk
<1>5. fs = ReadFields(b, first, n)
  BY DEF ReadGroup
<1>6. ReadFields(b, first, n) = [i \in DOMAIN run |-> FieldRead(b, run[i])]
  BY DEF ReadFields, FieldRead
<1>7. Len(b.fields) \in Nat
  BY BlobDomains
<1> HIDE DEF first, n
<1>8. DOMAIN Slice(b.fields, first, n) = 1 .. n
  BY <1>2, <1>4, FieldRunIs
<1>9. \A i \in 1 .. n : Slice(b.fields, first, n)[i] = b.fields[first + i]
  BY <1>2, <1>4, FieldRunIs
<1>10. DOMAIN fs = 1 .. n /\ \A i \in 1 .. n : fs[i] = FieldRead(b, b.fields[first + i])
  BY <1>5, <1>6, <1>8, <1>9
<1> HIDE DEF run
<1>11. Len(fs) = n
  BY <1>2, <1>10, LenOfFunction
<1>12. ASSUME NEW k \in 1 .. n
       PROVE  Len(fs[k].scales) = b.fields[first + k].n /\ b.fields[first + k].group = g
  <2> DEFINE f == first + k
  <2>1. f \in 1 .. Len(b.fields) /\ f \in first + 1 .. first + n
    BY <1>2, <1>4, <1>7
  <2>2. fs[k] = FieldRead(b, b.fields[f])
    BY <1>10
  <2> HIDE DEF f
  <2>3. Len(FieldRead(b, b.fields[f]).scales) = b.fields[f].n
    BY <1>3, <2>1, RowsAreWhole
  <2>4. b.fields[f].group = g
    BY <1>4, <2>1
  <2> QED BY <2>2, <2>3, <2>4 DEF f
<1> QED BY <1>10, <1>11, <1>12 DEF first, n, GroupInFull

(* And the groups of an ECU: what is accepted is read in full.             *)
InFull(b, e) ==
    LET c == Read(b) IN
    /\ Len(c[e].groups) = b.ecus[e].n
    /\ \A i \in DOMAIN c[e].groups : GroupInFull(b, b.ecus[e].first + i, c[e].groups[i].fields)

(* It is.                                                                  *)
LEMMA AcceptedIsWhole ==
    ASSUME NEW b \in Blobs, Accepts(b), NEW e \in DOMAIN Read(b)
    PROVE  InFull(b, e)
<1> DEFINE r == b.ecus[e]
           first == r.first
           n == r.n
           gs == [i \in 1 .. Len(Slice(b.groups, first, n)) |-> ReadGroup(b, first + i)]
<1>1. DOMAIN Read(b) = 1 .. Len(b.ecus) /\ e \in 1 .. Len(b.ecus)
  BY BlobDomains DEF Read
<1>2. Read(b)[e].groups = gs
  BY <1>1 DEF Read
<1>3. r \in EcuRecords
  BY <1>1, BlobIs, ElementOfSeq
<1>4. first \in Nat /\ n \in Nat
  BY <1>3 DEF EcuRecords
<1>5. first + n <= Len(b.groups)
  BY <1>1, BlobDomains DEF Accepts, EcuOk
<1>6. b.groups \in Seq(GroupRecords) /\ Len(b.groups) \in Nat
  BY BlobIs, BlobDomains
<1> HIDE DEF first, n
<1>7. Len(Slice(b.groups, first, n)) = n
  BY <1>4, <1>5, <1>6, SliceIs
<1>8. DOMAIN gs = 1 .. n /\ \A i \in 1 .. n : gs[i] = ReadGroup(b, first + i)
  BY <1>7
<1> HIDE DEF gs
<1>9. Len(gs) = n
  BY <1>4, <1>8, LenOfFunction
<1>10. ASSUME NEW i \in 1 .. n PROVE GroupInFull(b, first + i, gs[i].fields)
  <2> DEFINE g == first + i
  <2>1. g \in 1 .. Len(b.groups)
    BY <1>4, <1>5, <1>6
  <2>2. gs[i].fields = ReadGroup(b, g).fields
    BY <1>8
  <2> HIDE DEF g
  <2>3. GroupInFull(b, g, gs[i].fields)
    BY <2>1, <2>2, FieldsAreWhole
  <2> QED BY <2>3 DEF g
<1>11. Len(Read(b)[e].groups) = r.n
  BY <1>2, <1>9 DEF n
<1>12. \A i \in DOMAIN Read(b)[e].groups : GroupInFull(b, r.first + i, Read(b)[e].groups[i].fields)
  BY <1>2, <1>8, <1>10 DEF first
<1> QED BY <1>11, <1>12 DEF InFull

(* What is on flash and what it was made of.                               *)
CatalogInv ==
    /\ cat \in Catalogs
    /\ blob # Absent => blob \in Blobs
    /\ blob # Absent /\ intact => Written(cat, blob) /\ Limits(cat)

(* It says what is read back and what is found.                            *)
LEMMA CatalogRoundTrip == CatalogInv => RoundTrip
<1> SUFFICES ASSUME CatalogInv PROVE RoundTrip
  OBVIOUS
<1>1. ASSUME blob # Absent, intact PROVE Accepts(blob) /\ Read(blob) = cat
  <2>1. cat \in Catalogs /\ blob \in Blobs /\ Written(cat, blob) /\ Limits(cat)
    BY <1>1 DEF CatalogInv
  <2> QED BY <2>1, WrittenIsAccepted, WrittenIsRead
<1>2. ResolvedIsFound
  <2> SUFFICES ASSUME blob # Absent, intact, NEW n \in EcuNames \cup Names, NEW k \in Kinds,
                      Resolve(cat, n, k) # -1
               PROVE  Find(blob, n, k) = Resolve(cat, n, k)
    BY DEF ResolvedIsFound
  <2>1. cat \in Catalogs /\ blob \in Blobs /\ Written(cat, blob)
    BY DEF CatalogInv
  <2> QED BY <2>1, WrittenIsFound
<1>3. AcceptedIsComplete
  <2> SUFFICES ASSUME blob # Absent, Accepts(blob)
               PROVE  \A e \in DOMAIN Read(blob) : InFull(blob, e)
    BY DEF AcceptedIsComplete, InFull, GroupInFull
  <2>1. blob \in Blobs
    BY DEF CatalogInv
  <2> QED BY <2>1, AcceptedIsWhole
<1> QED BY <1>1, <1>2, <1>3 DEF RoundTrip

(* Nothing is on flash before the first compilation.                       *)
LEMMA CatalogStarts == CatInit => CatalogInv
<1> SUFFICES ASSUME CatInit PROVE CatalogInv
  OBVIOUS
<1>1. cat = <<>> /\ blob = Absent
  BY DEF CatInit
<1>2. <<>> \in Seq(DbEcu)
  BY EmptySeq
<1> QED BY <1>1, <1>2 DEF CatalogInv, Catalogs

(* The catalog being put together, while nothing is on flash.              *)
LEMMA PuttingTogether ==
    ASSUME CatalogInv, AddEcu \/ AddGroup \/ AddField
    PROVE  cat' \in Catalogs /\ blob' = Absent
<1> DEFINE n == Len(cat)
<1>1. cat \in Seq(DbEcu) /\ n \in Nat
  BY LenProperties DEF CatalogInv, Catalogs
<1>2. blob' = Absent
  BY DEF AddEcu, AddGroup, AddField
<1>3. CASE AddEcu
  <2>1. PICK m \in EcuNames : cat' = Append(cat, [name |-> m, groups |-> <<>>])
    BY <1>3 DEF AddEcu
  <2>2. <<>> \in Seq(DbGroup)
    BY EmptySeq
  <2>3. [name |-> m, groups |-> <<>>] \in DbEcu
    BY <2>2 DEF DbEcu
  <2>4. cat' \in Seq(DbEcu)
    BY <1>1, <2>1, <2>3, AppendProperties
  <2> QED BY <1>2, <2>4 DEF Catalogs
<1> DEFINE e == cat[n]
<1>4. ASSUME cat # <<>> PROVE n \in 1 .. n /\ e \in DbEcu
  <2>1. n # 0
    BY <1>1, <1>4, EmptySeq
  <2>2. n \in 1 .. n
    BY <1>1, <2>1
  <2> QED BY <1>1, <2>2, ElementOfSeq
<1>5. CASE AddGroup
  <2>1. cat # <<>>
    BY <1>5 DEF AddGroup
  <2>2. PICK m \in Names, r \in Requests, l \in Levels, a \in SUBSET Names :
          cat' = [cat EXCEPT ![Len(cat)].groups =
                    Append(@, [name |-> m, request |-> r, level |-> l,
                               aliases |-> a \ {m, ""}, fields |-> <<>>])]
    BY <1>5 DEF AddGroup
  <2> DEFINE g == [name |-> m, request |-> r, level |-> l, aliases |-> a \ {m, ""}, fields |-> <<>>]
             more == Append(e.groups, g)
             new == [name |-> e.name, groups |-> more]
  <2>3. g \in DbGroup
    <3>1. <<>> \in Seq(DbField) /\ r \in Seq(Nat) /\ l \in Nat
      BY EmptySeq, CatalogAssumption
    <3> QED BY <3>1 DEF DbGroup
  <2>4. e.groups \in Seq(DbGroup) /\ e.name \in EcuNames /\ e = [name |-> e.name, groups |-> e.groups]
    BY <1>4, <2>1, DbEcuIs
  <2> HIDE DEF g
  <2>5. more \in Seq(DbGroup)
    BY <2>3, <2>4, AppendProperties
  <2>6. new \in DbEcu
    BY <2>4, <2>5 DEF DbEcu
  <2>7. cat' = [cat EXCEPT ![n] = new]
    <3>1. [e EXCEPT !.groups = more] = new
      <4> HIDE DEF more
      <4> QED BY <2>4
    <3>2. cat' = [cat EXCEPT ![n] = [e EXCEPT !.groups = more]]
      BY <2>2 DEF g
    <3> QED BY <3>1, <3>2
  <2> HIDE DEF new, n
  <2>8. cat' \in Seq(DbEcu)
    BY <1>1, <1>4, <2>1, <2>6, <2>7, ExceptSeq DEF n
  <2> QED BY <1>2, <2>8 DEF Catalogs
<1>6. CASE AddField
  <2>1. cat # <<>> /\ e.groups # <<>>
    BY <1>6 DEF AddField
  <2>2. PICK m \in Names, s \in Shapes :
          cat' = [cat EXCEPT ![Len(cat)].groups[Len(cat[Len(cat)].groups)].fields =
                    Append(@, [name |-> m, pos |-> s.pos, size |-> s.size, count |-> s.count,
                               stride |-> s.stride, block |-> s.block, unit |-> s.unit,
                               scales |-> s.scales])]
    BY <1>6 DEF AddField
  <2> DEFINE f == [name |-> m, pos |-> s.pos, size |-> s.size, count |-> s.count,
                   stride |-> s.stride, block |-> s.block, unit |-> s.unit, scales |-> s.scales]
             k == Len(e.groups)
             g == e.groups[k]
             fields == Append(g.fields, f)
             newG == [g EXCEPT !.fields = fields]
             groups == [e.groups EXCEPT ![k] = newG]
             new == [name |-> e.name, groups |-> groups]
  <2>3. f \in DbField
    BY CatalogAssumption DEF FieldShapes, DbField
  <2>4. e.groups \in Seq(DbGroup) /\ e.name \in EcuNames /\ e = [name |-> e.name, groups |-> e.groups]
    BY <1>4, <2>1, DbEcuIs
  <2>5. k \in 1 .. k /\ g \in DbGroup
    <3>1. k \in Nat /\ k # 0
      BY <2>1, <2>4, EmptySeq
    <3>2. k \in 1 .. k
      BY <3>1
    <3> QED BY <2>4, <3>2, ElementOfSeq
  <2>6. cat' = [cat EXCEPT ![n] = new]
    <3>1. [e EXCEPT !.groups = groups] = new
      BY <2>4
    <3>2. cat' = [cat EXCEPT ![n] = [e EXCEPT !.groups = groups]]
      BY <2>2
    <3> QED BY <3>1, <3>2
  <2> HIDE DEF f, k
  <2>7. newG \in DbGroup
    <3> HIDE DEF g
    <3>1. fields \in Seq(DbField)
      BY <2>3, <2>5, DbGroupIs, AppendProperties
    <3> HIDE DEF fields
    <3>2. newG = [name |-> g.name, request |-> g.request, level |-> g.level, aliases |-> g.aliases,
                  fields |-> fields]
      <4>1. g \in DbGroup
        BY <2>5
      <4> HIDE DEF groups, new, newG, n, e
      <4>2. g = [name |-> g.name, request |-> g.request, level |-> g.level,
                 aliases |-> g.aliases, fields |-> g.fields]
        BY ONLY <4>1, DbGroupIs, CatalogAssumption
      <4>3. [g EXCEPT !.fields = fields] =
               [name |-> g.name, request |-> g.request, level |-> g.level,
                aliases |-> g.aliases, fields |-> fields]
        BY ONLY <4>2
      <4> QED BY <4>3 DEF newG
    <3> HIDE DEF newG
    <3>3. /\ newG.name = g.name /\ newG.aliases = g.aliases
          /\ newG \in [name : Names, request : Seq(Nat), level : Nat, aliases : SUBSET Names,
                       fields : Seq(DbField)]
      BY <2>5, <3>1, <3>2, DbGroupIs
    <3>4. g.name \notin g.aliases /\ "" \notin g.aliases
      BY <2>5, DbGroupIs
    <3> QED BY <3>3, <3>4 DEF DbGroup
  <2> HIDE DEF newG
  <2>8. groups \in Seq(DbGroup)
    BY <2>4, <2>5, <2>7, ExceptSeq DEF k
  <2> HIDE DEF groups
  <2>9. new \in DbEcu
    BY <2>4, <2>8 DEF DbEcu
  <2> HIDE DEF new, n
  <2>10. cat' \in Seq(DbEcu)
    BY <1>1, <1>4, <2>1, <2>6, <2>9, ExceptSeq DEF n
  <2> QED BY <1>2, <2>10 DEF Catalogs
<1> QED BY <1>3, <1>5, <1>6

(* A record of a table is another one, and the table is one still.         *)
LEMMA DamagedTable ==
    ASSUME NEW S, NEW s \in Seq(S), NEW i \in DOMAIN s, NEW r \in S
    PROVE  [s EXCEPT ![i] = r] \in Seq(S)
<1>1. DOMAIN s = 1 .. Len(s)
  BY LenProperties
<1> QED BY <1>1, ExceptSeq

(* One number of a record is another, and the record is one still.         *)
LEMMA DamagedRecords ==
    ASSUME NEW v \in 0 .. 2
    PROVE  /\ \A r \in FieldRecords :
                 {[r EXCEPT !.name = v], [r EXCEPT !.first = v], [r EXCEPT !.n = v],
                  [r EXCEPT !.group = v]} \subseteq FieldRecords
           /\ \A r \in GroupRecords :
                 {[r EXCEPT !.name = v], [r EXCEPT !.first = v], [r EXCEPT !.n = v],
                  [r EXCEPT !.req = v], [r EXCEPT !.reqLen = v]} \subseteq GroupRecords
           /\ \A r \in EcuRecords :
                 {[r EXCEPT !.name = v], [r EXCEPT !.first = v], [r EXCEPT !.n = v]} \subseteq EcuRecords
           /\ \A r \in IndexEntries :
                 {[r EXCEPT !.name = v], [r EXCEPT !.idx = v]} \subseteq IndexEntries
<1>1. v \in Nat
  OBVIOUS
<1>2. ASSUME NEW r \in FieldRecords
      PROVE  {[r EXCEPT !.name = v], [r EXCEPT !.first = v], [r EXCEPT !.n = v],
              [r EXCEPT !.group = v]} \subseteq FieldRecords
  BY <1>1 DEF FieldRecords
<1>3. ASSUME NEW r \in GroupRecords
      PROVE  {[r EXCEPT !.name = v], [r EXCEPT !.first = v], [r EXCEPT !.n = v],
              [r EXCEPT !.req = v], [r EXCEPT !.reqLen = v]} \subseteq GroupRecords
  BY <1>1 DEF GroupRecords
<1>4. ASSUME NEW r \in EcuRecords
      PROVE  {[r EXCEPT !.name = v], [r EXCEPT !.first = v], [r EXCEPT !.n = v]} \subseteq EcuRecords
  BY <1>1 DEF EcuRecords
<1>5. ASSUME NEW r \in IndexEntries
      PROVE  {[r EXCEPT !.name = v], [r EXCEPT !.idx = v]} \subseteq IndexEntries
  BY <1>1 DEF IndexEntries
<1> QED BY <1>2, <1>3, <1>4, <1>5

(* A blob with one number changed is a blob still.                         *)
LEMMA DamageIsBlob ==
    ASSUME blob \in Blobs, Damage
    PROVE  blob' \in Blobs
<1>1. /\ blob.ecus \in Seq(EcuRecords) /\ blob.groups \in Seq(GroupRecords)
      /\ blob.fields \in Seq(FieldRecords) /\ blob.index \in Seq(IndexEntries) /\ blob.total \in Int
  BY BlobIs
<1>2. CASE \E f \in DOMAIN blob.fields, v \in 0 .. 2 :
              \E r \in LET old == blob.fields[f] IN
                 {[old EXCEPT !.name = v], [old EXCEPT !.first = v],
                  [old EXCEPT !.n = v], [old EXCEPT !.group = v]} :
                 blob' = [blob EXCEPT !.fields[f] = r]
  <2>1. PICK f \in DOMAIN blob.fields, v \in 0 .. 2 :
              \E r \in LET old == blob.fields[f] IN
                 {[old EXCEPT !.name = v], [old EXCEPT !.first = v],
                  [old EXCEPT !.n = v], [old EXCEPT !.group = v]} :
                 blob' = [blob EXCEPT !.fields[f] = r]
    BY <1>2
  <2> DEFINE old == blob.fields[f]
  <2>2. PICK r \in {[old EXCEPT !.name = v], [old EXCEPT !.first = v],
                  [old EXCEPT !.n = v], [old EXCEPT !.group = v]} :
          blob' = [blob EXCEPT !.fields[f] = r]
    BY <2>1
  <2>3. old \in FieldRecords
    BY <1>1
  <2> HIDE DEF old
  <2>4. r \in FieldRecords
    BY <2>2, <2>3, DamagedRecords
  <2> DEFINE records == [blob.fields EXCEPT ![f] = r]
  <2>5. records \in Seq(FieldRecords)
    BY <1>1, <2>4, DamagedTable
  <2>6. blob' = [blob EXCEPT !.fields = records]
    BY <2>2
  <2> HIDE DEF records
  <2> QED BY <2>5, <2>6 DEF Blobs
<1>3. CASE \E g \in DOMAIN blob.groups, v \in 0 .. 2 :
              \E r \in LET old == blob.groups[g] IN
                 {[old EXCEPT !.name = v], [old EXCEPT !.first = v], [old EXCEPT !.n = v],
                  [old EXCEPT !.req = v], [old EXCEPT !.reqLen = v]} :
                 blob' = [blob EXCEPT !.groups[g] = r]
  <2>1. PICK g \in DOMAIN blob.groups, v \in 0 .. 2 :
              \E r \in LET old == blob.groups[g] IN
                 {[old EXCEPT !.name = v], [old EXCEPT !.first = v], [old EXCEPT !.n = v],
                  [old EXCEPT !.req = v], [old EXCEPT !.reqLen = v]} :
                 blob' = [blob EXCEPT !.groups[g] = r]
    BY <1>3
  <2> DEFINE old == blob.groups[g]
  <2>2. PICK r \in {[old EXCEPT !.name = v], [old EXCEPT !.first = v], [old EXCEPT !.n = v],
                  [old EXCEPT !.req = v], [old EXCEPT !.reqLen = v]} :
          blob' = [blob EXCEPT !.groups[g] = r]
    BY <2>1
  <2>3. old \in GroupRecords
    BY <1>1
  <2> HIDE DEF old
  <2>4. r \in GroupRecords
    BY <2>2, <2>3, DamagedRecords
  <2> DEFINE records == [blob.groups EXCEPT ![g] = r]
  <2>5. records \in Seq(GroupRecords)
    BY <1>1, <2>4, DamagedTable
  <2>6. blob' = [blob EXCEPT !.groups = records]
    BY <2>2
  <2> HIDE DEF records
  <2> QED BY <2>5, <2>6 DEF Blobs
<1>4. CASE \E e \in DOMAIN blob.ecus, v \in 0 .. 2 :
              \E r \in LET old == blob.ecus[e] IN
                 {[old EXCEPT !.name = v], [old EXCEPT !.first = v], [old EXCEPT !.n = v]} :
                 blob' = [blob EXCEPT !.ecus[e] = r]
  <2>1. PICK e \in DOMAIN blob.ecus, v \in 0 .. 2 :
              \E r \in LET old == blob.ecus[e] IN
                 {[old EXCEPT !.name = v], [old EXCEPT !.first = v], [old EXCEPT !.n = v]} :
                 blob' = [blob EXCEPT !.ecus[e] = r]
    BY <1>4
  <2> DEFINE old == blob.ecus[e]
  <2>2. PICK r \in {[old EXCEPT !.name = v], [old EXCEPT !.first = v], [old EXCEPT !.n = v]} :
          blob' = [blob EXCEPT !.ecus[e] = r]
    BY <2>1
  <2>3. old \in EcuRecords
    BY <1>1
  <2> HIDE DEF old
  <2>4. r \in EcuRecords
    BY <2>2, <2>3, DamagedRecords
  <2> DEFINE records == [blob.ecus EXCEPT ![e] = r]
  <2>5. records \in Seq(EcuRecords)
    BY <1>1, <2>4, DamagedTable
  <2>6. blob' = [blob EXCEPT !.ecus = records]
    BY <2>2
  <2> HIDE DEF records
  <2> QED BY <2>5, <2>6 DEF Blobs
<1>5. CASE \E i \in DOMAIN blob.index, v \in 0 .. 2 :
              \E r \in LET old == blob.index[i] IN
                 {[old EXCEPT !.name = v], [old EXCEPT !.idx = v]} :
                 blob' = [blob EXCEPT !.index[i] = r]
  <2>1. PICK i \in DOMAIN blob.index, v \in 0 .. 2 :
              \E r \in LET old == blob.index[i] IN
                 {[old EXCEPT !.name = v], [old EXCEPT !.idx = v]} :
                 blob' = [blob EXCEPT !.index[i] = r]
    BY <1>5
  <2> DEFINE old == blob.index[i]
  <2>2. PICK r \in {[old EXCEPT !.name = v], [old EXCEPT !.idx = v]} :
          blob' = [blob EXCEPT !.index[i] = r]
    BY <2>1
  <2>3. old \in IndexEntries
    BY <1>1
  <2> HIDE DEF old
  <2>4. r \in IndexEntries
    BY <2>2, <2>3, DamagedRecords
  <2> DEFINE records == [blob.index EXCEPT ![i] = r]
  <2>5. records \in Seq(IndexEntries)
    BY <1>1, <2>4, DamagedTable
  <2>6. blob' = [blob EXCEPT !.index = records]
    BY <2>2
  <2> HIDE DEF records
  <2> QED BY <2>5, <2>6 DEF Blobs
<1>6. CASE \E cut \in {1, 12} : blob' = [blob EXCEPT !.total = @ - cut]
  <2>1. PICK cut \in {1, 12} : blob' = [blob EXCEPT !.total = @ - cut]
    BY <1>6
  <2> DEFINE total == blob.total - cut
  <2>2. total \in Int
    BY <1>1
  <2>3. blob' = [blob EXCEPT !.total = total]
    BY <2>1
  <2> HIDE DEF total
  <2> QED BY <2>2, <2>3 DEF Blobs
<1> QED BY <1>2, <1>3, <1>4, <1>5, <1>6 DEF Damage

(* Every step on the catalog keeps the invariant.                          *)
LEMMA FormatKeepsCatalog == CatalogInv /\ CatNext => CatalogInv'
<1> SUFFICES ASSUME CatalogInv, CatNext PROVE CatalogInv'
  OBVIOUS
<1>1. CASE AddEcu \/ AddGroup \/ AddField
  BY <1>1, PuttingTogether DEF CatalogInv
<1>2. CASE Compile
  <2>1. cat \in Catalogs /\ Limits(cat) /\ blob' = Write(cat) /\ cat' = cat
    BY <1>2 DEF CatalogInv, Compile
  <2>2. blob' \in Blobs /\ Written(cat, blob')
    BY <2>1, WrittenIs
  <2>3. cat' \in Catalogs /\ Limits(cat') /\ Written(cat', blob')
    BY <2>1, <2>2
  <2> QED BY <2>2, <2>3 DEF CatalogInv
<1>3. CASE Damage
  <2>1. blob \in Blobs /\ cat' = cat /\ intact' = FALSE
    BY <1>3 DEF CatalogInv, Damage
  <2>2. blob' \in Blobs
    BY <1>3, <2>1, DamageIsBlob
  <2> QED BY <2>1, <2>2 DEF CatalogInv
<1> QED BY <1>1, <1>2, <1>3 DEF CatNext

(* Nothing else writes it.                                                 *)
LEMMA RestKeepsCatalog == CatalogInv /\ UNCHANGED catVars => CatalogInv'
BY DEF CatalogInv, catVars

(* A catalog of any size survives the way to flash and back: what          *)
(* write_catalog makes is accepted and read back as it was, a name the     *)
(* code generator resolves is found by the device as the same record, and  *)
(* whatever one number is changed to, what read_catalog accepts it reads   *)
(* in full (components/uds/catalog.py, Catalog::find in uds_catalog.h).    *)
THEOREM CatalogSurvives == ConfigSpec => []RoundTrip
<1>1. ConfigInit => CatalogInv
  BY CatalogStarts DEF ConfigInit
<1>2. CatalogInv /\ [ConfigNext]_configVars => CatalogInv'
  <2> SUFFICES ASSUME CatalogInv, [ConfigNext]_configVars PROVE CatalogInv'
    OBVIOUS
  <2>1. CASE UNCHANGED catVars
    BY <2>1, RestKeepsCatalog
  <2>2. CASE CatNext
    BY <2>2, FormatKeepsCatalog
  <2>3. CASE UNCHANGED configVars
    BY <2>1, <2>3 DEF configVars
  <2> QED BY <2>1, <2>2, <2>3 DEF ConfigNext, Format, Compiler, Gateway, Logger, Log
<1> QED BY <1>1, <1>2, CatalogRoundTrip, PTL DEF ConfigSpec
=============================================================================
