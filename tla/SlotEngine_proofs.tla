-------------------------- MODULE SlotEngine_proofs --------------------------
(***************************************************************************)
(* The slot engine answers what its answers mean, for every length of the  *)
(* day, grid, duration, number of rules, of busy intervals and of days     *)
(* ahead.  The loops of the engine are recursive functions over the number *)
(* of rounds done; what holds after every round is proved by induction on  *)
(* it.                                                                     *)
(***************************************************************************)
EXTENDS MCSlotEngine, FiniteSetTheorems, SequenceTheorems, WellFoundedInduction, TLAPS

-----------------------------------------------------------------------------
(* Loops.                                                                    *)

\* A set of numbers that holds 0 and, with each of its members, the next, is Nat.
LEMMA NumbersByCounting ==
    ASSUME NEW S \in SUBSET Nat, 0 \in S, \A n \in S : n + 1 \in S
    PROVE  S = Nat
<1> SUFFICES ASSUME Nat \ S # {} PROVE FALSE
  OBVIOUS
<1> DEFINE R == OpToRel(<, Nat)
<1>1. PICK x \in Nat \ S : \A y \in Nat \ S : <<y, x>> \notin R
  <2>1. IsWellFoundedOn(R, Nat)
    BY NatLessThanWellFounded
  <2>2. Nat \ S \subseteq Nat
    OBVIOUS
  <2> HIDE DEF R
  <2> QED BY <2>1, <2>2, WFMin
<1>2. \A y \in Nat \ S : ~(y < x)
  BY <1>1 DEF OpToRel
<1>3. x - 1 \in Nat /\ x - 1 < x
  OBVIOUS
<1>4. x - 1 \in S
  BY <1>2, <1>3
<1>5. (x - 1) + 1 \in S
  BY <1>4
<1> QED BY <1>5

\* What holds before the first round and is kept by each holds after all n of them.
LEMMA RoundByRound ==
    ASSUME NEW n \in Nat, NEW S, 0 \in S, \A k \in 0 .. n - 1 : k \in S => k + 1 \in S
    PROVE  \A k \in 0 .. n : k \in S
<1> DEFINE T == {k \in Nat : k <= n => k \in S}
<1>1. T \in SUBSET Nat /\ 0 \in T
  OBVIOUS
<1>2. \A k \in T : k + 1 \in T
  OBVIOUS
<1>3. T = Nat
  <2> HIDE DEF T
  <2> QED BY <1>1, <1>2, NumbersByCounting
<1> QED BY <1>3

\* A loop whose rounds keep its state in X stays in X.
LEMMA LoopStays ==
    ASSUME NEW n \in Nat, NEW X, NEW c, c[0] \in X,
           \A k \in 1 .. n : c[k - 1] \in X => c[k] \in X
    PROVE  \A k \in 0 .. n : c[k] \in X
<1> DEFINE S == {k \in 0 .. n : c[k] \in X}
<1>1. 0 \in S
  OBVIOUS
<1>2. ASSUME NEW k \in 0 .. n - 1, k \in S PROVE k + 1 \in S
  <2>1. k + 1 \in 1 .. n /\ (k + 1) - 1 = k
    OBVIOUS
  <2> QED BY <2>1, <1>2
<1>3. \A k \in 0 .. n : k \in S
  <2> HIDE DEF S
  <2> QED BY <1>1, <1>2, RoundByRound
<1> QED BY <1>3

\* A function from rounds to the states a loop of n rounds over X goes through.
HasRun(X, init, n, step) ==
    \E f \in [0 .. n -> X] :
        f[0] = init /\ \A k \in 1 .. n : f[k] = step[k][f[k - 1]]

\* Every loop has one.
LEMMA LoopExists ==
    ASSUME NEW X, NEW init \in X, NEW n \in Nat, NEW step \in [1 .. n -> [X -> X]]
    PROVE  HasRun(X, init, n, step)
<1> DEFINE Runs(m) == \E f \in [0 .. m -> X] :
                          f[0] = init /\ \A k \in 1 .. m : f[k] = step[k][f[k - 1]]
           S == {m \in 0 .. n : Runs(m)}
<1>1. 0 \in S
  <2>1. [k \in 0 .. 0 |-> init] \in [0 .. 0 -> X]
    OBVIOUS
  <2>2. [k \in 0 .. 0 |-> init][0] = init /\ 1 .. 0 = {}
    OBVIOUS
  <2>3. Runs(0)
    BY <2>1, <2>2
  <2> QED BY <2>3
<1>2. ASSUME NEW m \in 0 .. n - 1, m \in S PROVE m + 1 \in S
  <2>1. PICK f \in [0 .. m -> X] :
            f[0] = init /\ \A k \in 1 .. m : f[k] = step[k][f[k - 1]]
    BY <1>2
  <2> DEFINE g == [k \in 0 .. m + 1 |-> IF k <= m THEN f[k] ELSE step[k][f[k - 1]]]
  <2>2. f[m] \in X /\ step[m + 1][f[m]] \in X
    OBVIOUS
  <2>3. g \in [0 .. m + 1 -> X]
    BY <2>2
  <2>4. g[0] = init
    BY <2>1
  <2>5. \A k \in 1 .. m + 1 : g[k] = step[k][g[k - 1]]
    BY <2>1
  <2> HIDE DEF g
  <2>6. Runs(m + 1)
    BY <2>3, <2>4, <2>5
  <2>7. m + 1 \in 0 .. n
    OBVIOUS
  <2> HIDE DEF Runs
  <2> QED BY <2>6, <2>7
<1>3. \A m \in 0 .. n : m \in S
  <2> HIDE DEF S
  <2> QED BY <1>1, <1>2, RoundByRound
<1> QED BY <1>3 DEF HasRun

-----------------------------------------------------------------------------
(* Sequences.                                                                *)

Has(s, x) == \E k \in 1 .. Len(s) : s[k] = x
Ordered(order, s) == \A j, k \in 1 .. Len(s) : j < k => <<s[j], s[k]>> \in order

LEMMA FlattenRounds ==
    ASSUME NEW X, NEW n \in Nat, NEW parts \in [1 .. n -> Seq(X)]
    PROVE  \E f \in [0 .. n -> Seq(X)] :
               /\ f[0] = <<>>
               /\ \A k \in 1 .. n : f[k] = f[k - 1] \o parts[k]
               /\ FlattenSeq(parts) = f[n]
<1> DEFINE T == Seq(X)
           step == [k \in 1 .. n |-> [t \in T |-> t \o parts[k]]]
<1>0. n \in Nat /\ Len(parts) = n
  OBVIOUS
<1>a. \A k \in 1 .. n : parts[k] \in T
  OBVIOUS
<1>1. step \in [1 .. n -> [T -> T]]
  BY <1>a
<1>2. PICK none \in T : none = <<>>
  <2>1. <<>> \in T
    OBVIOUS
  <2> HIDE DEF T
  <2> QED BY <2>1
<1>3. PICK f \in [0 .. n -> T] : f[0] = none /\ \A k \in 1 .. n : f[k] = step[k][f[k - 1]]
  <2>1. HasRun(T, none, n, step)
    <3> HIDE DEF step, T
    <3> QED BY <1>1, LoopExists
  <2> HIDE DEF step, T
  <2> QED BY <2>1 DEF HasRun
<1>4. \A k \in 1 .. n : f[k] = f[k - 1] \o parts[k]
  <2> SUFFICES ASSUME NEW k \in 1 .. n PROVE f[k] = f[k - 1] \o parts[k]
    OBVIOUS
  <2>1. f[k - 1] \in T
    BY <1>0
  <2> QED BY <1>3, <2>1
<1>5. FlattenSeq(parts) = f[n]
  <2>1. CASE n = 0
    BY <2>1, <1>2, <1>3 DEF FlattenSeq
  <2>2. CASE n # 0
    <3> DEFINE Eq(g) == g = [i \in 1 .. n |-> IF i = 1 THEN parts[i] ELSE g[i - 1] \o parts[i]]
               g0 == [i \in 1 .. n |-> f[i]]
               c == CHOOSE g : Eq(g)
    <3>1. f[1] = parts[1]
      <4>1. 1 \in 1 .. n /\ 1 - 1 = 0
        BY <1>0, <2>2
      <4>2. f[1] = f[0] \o parts[1]
        BY <4>1, <1>4
      <4>3. parts[1] \in Seq(X) /\ f[0] = <<>>
        BY <4>1, <1>a, <1>2, <1>3
      <4> QED BY <4>2, <4>3
    <3>2. Eq(g0)
      <4>1. \A i \in 1 .. n : i # 1 => i - 1 \in 1 .. n
        BY <1>0
      <4> QED BY <3>1, <4>1, <1>4
    <3>3. Eq(c)
      <4> HIDE DEF Eq
      <4> QED BY <3>2
    <3>4. FlattenSeq(parts) = c[n]
      BY <1>0, <2>2 DEF FlattenSeq
    <3> HIDE DEF c
    <3>5. \A k \in 1 .. n : c[k] = IF k = 1 THEN parts[k] ELSE c[k - 1] \o parts[k]
      BY <3>3, <1>0
    <3> DEFINE S == {k \in 0 .. n : k = 0 \/ c[k] = f[k]}
    <3>6. 0 \in S
      BY <1>0
    <3>7. ASSUME NEW k \in 0 .. n - 1, k \in S PROVE k + 1 \in S
      <4>1. k + 1 \in 1 .. n /\ k + 1 \in 0 .. n /\ (k + 1) - 1 = k /\ (k = 0 <=> k + 1 = 1)
        BY <1>0
      <4>2. CASE k = 0
        BY <4>1, <4>2, <3>1, <3>5
      <4>3. CASE k # 0
        <5>1. c[k + 1] = c[k] \o parts[k + 1] /\ f[k + 1] = f[k] \o parts[k + 1] /\ c[k] = f[k]
          BY <4>1, <4>3, <3>5, <3>7, <1>4
        <5> QED BY <4>1, <5>1
      <4> QED BY <4>1, <4>2, <4>3
    <3>8. \A k \in 0 .. n : k \in S
      <4> HIDE DEF S
      <4> QED BY <1>0, <3>6, <3>7, RoundByRound
    <3> QED BY <3>4, <3>8, <2>2, <1>0
  <2> QED BY <2>1, <2>2
<1> QED BY <1>2, <1>3, <1>4, <1>5

LEMMA ConcatKeeps ==
    ASSUME NEW X, NEW s \in Seq(X), NEW t \in Seq(X), NEW y
    PROVE  Has(s \o t, y) <=> Has(s, y) \/ Has(t, y)
<1>1. /\ Len(s) \in Nat /\ Len(t) \in Nat /\ Len(s \o t) = Len(s) + Len(t)
      /\ \A k \in 1 .. Len(s) : (s \o t)[k] = s[k]
      /\ \A k \in 1 .. Len(t) : (s \o t)[Len(s) + k] = t[k]
  OBVIOUS
<1>2. ASSUME Has(s \o t, y) PROVE Has(s, y) \/ Has(t, y)
  <2>1. PICK k \in 1 .. Len(s) + Len(t) : (s \o t)[k] = y
    BY <1>1, <1>2 DEF Has
  <2>2. CASE k <= Len(s)
    BY <2>1, <2>2, <1>1 DEF Has
  <2>3. CASE k > Len(s)
    <3>1. k - Len(s) \in 1 .. Len(t) /\ k = Len(s) + (k - Len(s))
      BY <2>3, <1>1
    <3>2. (s \o t)[Len(s) + (k - Len(s))] = t[k - Len(s)]
      BY <3>1, <1>1
    <3> QED BY <2>1, <3>1, <3>2 DEF Has
  <2> QED BY <2>2, <2>3, <1>1
<1>3. ASSUME Has(s, y) PROVE Has(s \o t, y)
  <2>1. PICK k \in 1 .. Len(s) : s[k] = y
    BY <1>3 DEF Has
  <2>2. k \in 1 .. Len(s \o t) /\ (s \o t)[k] = y
    BY <2>1, <1>1
  <2> QED BY <2>2 DEF Has
<1>4. ASSUME Has(t, y) PROVE Has(s \o t, y)
  <2>1. PICK k \in 1 .. Len(t) : t[k] = y
    BY <1>4 DEF Has
  <2>2. Len(s) + k \in 1 .. Len(s \o t) /\ (s \o t)[Len(s) + k] = y
    BY <2>1, <1>1
  <2> QED BY <2>2 DEF Has
<1> QED BY <1>2, <1>3, <1>4

LEMMA FlattenKeeps ==
    ASSUME NEW X, NEW n \in Nat, NEW parts \in [1 .. n -> Seq(X)]
    PROVE  /\ FlattenSeq(parts) \in Seq(X)
           /\ \A y : Has(FlattenSeq(parts), y) <=> \E k \in 1 .. n : Has(parts[k], y)
<1>1. PICK f \in [0 .. n -> Seq(X)] :
          /\ f[0] = <<>>
          /\ \A k \in 1 .. n : f[k] = f[k - 1] \o parts[k]
          /\ FlattenSeq(parts) = f[n]
  BY FlattenRounds
<1> DEFINE Done(k) == \A y : Has(f[k], y) <=> \E j \in 1 .. k : Has(parts[j], y)
           S == {k \in 0 .. n : Done(k)}
<1>2. 0 \in S
  <2>1. Len(f[0]) = 0
    BY <1>1
  <2>2. Done(0)
    BY <2>1 DEF Has
  <2> HIDE DEF Done
  <2> QED BY <2>2
<1>3. ASSUME NEW k \in 0 .. n - 1, k \in S PROVE k + 1 \in S
  <2>1. k + 1 \in 1 .. n /\ (k + 1) - 1 = k /\ f[k] \in Seq(X) /\ parts[k + 1] \in Seq(X)
    OBVIOUS
  <2>2. f[k + 1] = f[k] \o parts[k + 1]
    BY <1>1, <2>1
  <2>3. \A y : Has(f[k + 1], y) <=> Has(f[k], y) \/ Has(parts[k + 1], y)
    BY <2>1, <2>2, ConcatKeeps
  <2>4. Done(k)
    BY <1>3
  <2>5. Done(k + 1)
    <3> SUFFICES ASSUME NEW y
                 PROVE  Has(f[k + 1], y) <=> \E j \in 1 .. k + 1 : Has(parts[j], y)
      OBVIOUS
    <3>1. (\E j \in 1 .. k + 1 : Has(parts[j], y))
              <=> (\E j \in 1 .. k : Has(parts[j], y)) \/ Has(parts[k + 1], y)
      BY <2>1
    <3> QED BY <2>3, <2>4, <3>1
  <2> HIDE DEF Done
  <2> QED BY <2>1, <2>5
<1>4. \A k \in 0 .. n : k \in S
  <2> HIDE DEF S
  <2> QED BY <1>2, <1>3, RoundByRound
<1>5. Done(n) /\ f[n] \in Seq(X)
  <2> HIDE DEF Done
  <2> QED BY <1>4
<1> QED BY <1>1, <1>5

\* Each element of an earlier part may come before each of a later one.
PartsInOrder(order, n, parts) ==
    /\ \A k \in 1 .. n : Ordered(order, parts[k])
    /\ \A j, k \in 1 .. n : j < k =>
           \A x, y : Has(parts[j], x) /\ Has(parts[k], y) => <<x, y>> \in order

LEMMA ConcatOrdered ==
    ASSUME NEW X, NEW s \in Seq(X), NEW t \in Seq(X), NEW order,
           Ordered(order, s), Ordered(order, t),
           \A x, y : Has(s, x) /\ Has(t, y) => <<x, y>> \in order
    PROVE  Ordered(order, s \o t)
<1>1. /\ Len(s) \in Nat /\ Len(t) \in Nat /\ Len(s \o t) = Len(s) + Len(t)
      /\ \A k \in 1 .. Len(s) : (s \o t)[k] = s[k]
      /\ \A k \in 1 .. Len(t) : (s \o t)[Len(s) + k] = t[k]
  OBVIOUS
<1>2. SUFFICES ASSUME NEW j \in 1 .. Len(s) + Len(t), NEW k \in 1 .. Len(s) + Len(t), j < k
               PROVE  <<(s \o t)[j], (s \o t)[k]>> \in order
  BY <1>1 DEF Ordered
<1>3. \A i \in 1 .. Len(s) + Len(t) : i > Len(s) =>
          i - Len(s) \in 1 .. Len(t) /\ (s \o t)[i] = t[i - Len(s)]
  <2> SUFFICES ASSUME NEW i \in 1 .. Len(s) + Len(t), i > Len(s)
               PROVE  i - Len(s) \in 1 .. Len(t) /\ (s \o t)[i] = t[i - Len(s)]
    OBVIOUS
  <2>1. i - Len(s) \in 1 .. Len(t) /\ i = Len(s) + (i - Len(s))
    BY <1>1
  <2>2. (s \o t)[Len(s) + (i - Len(s))] = t[i - Len(s)]
    BY <2>1, <1>1
  <2> QED BY <2>1, <2>2
<1>4. CASE k <= Len(s)
  <2>1. j \in 1 .. Len(s) /\ k \in 1 .. Len(s)
    BY <1>1, <1>2, <1>4
  <2> QED BY <2>1, <1>1, <1>2 DEF Ordered
<1>5. CASE j > Len(s)
  <2>1. /\ j - Len(s) \in 1 .. Len(t) /\ k - Len(s) \in 1 .. Len(t) /\ j - Len(s) < k - Len(s)
        /\ (s \o t)[j] = t[j - Len(s)] /\ (s \o t)[k] = t[k - Len(s)]
    BY <1>1, <1>2, <1>3, <1>5
  <2> QED BY <2>1 DEF Ordered
<1>6. CASE j <= Len(s) /\ k > Len(s)
  <2>1. Has(s, (s \o t)[j])
    BY <1>1, <1>6 DEF Has
  <2>2. Has(t, (s \o t)[k])
    BY <1>3, <1>6 DEF Has
  <2> QED BY <2>1, <2>2
<1>7. k <= Len(s) \/ j > Len(s) \/ (j <= Len(s) /\ k > Len(s))
  BY <1>1
<1> QED BY <1>4, <1>5, <1>6, <1>7

LEMMA FlattenOrdered ==
    ASSUME NEW X, NEW n \in Nat, NEW parts \in [1 .. n -> Seq(X)],
           NEW order, PartsInOrder(order, n, parts)
    PROVE  Ordered(order, FlattenSeq(parts))
<1>1. PICK f \in [0 .. n -> Seq(X)] :
          /\ f[0] = <<>>
          /\ \A k \in 1 .. n : f[k] = f[k - 1] \o parts[k]
          /\ FlattenSeq(parts) = f[n]
  BY FlattenRounds
<1> DEFINE Done(k) == /\ Ordered(order, f[k])
                      /\ \A y : Has(f[k], y) => \E j \in 1 .. k : Has(parts[j], y)
           S == {k \in 0 .. n : Done(k)}
<1>2. 0 \in S
  <2>1. Len(f[0]) = 0
    BY <1>1
  <2>2. Done(0)
    BY <2>1 DEF Has, Ordered
  <2> HIDE DEF Done
  <2> QED BY <2>2
<1>3. ASSUME NEW k \in 0 .. n - 1, k \in S PROVE k + 1 \in S
  <2>1. k + 1 \in 1 .. n /\ (k + 1) - 1 = k /\ f[k] \in Seq(X) /\ parts[k + 1] \in Seq(X)
    OBVIOUS
  <2>2. f[k + 1] = f[k] \o parts[k + 1]
    BY <1>1, <2>1
  <2>3. \A y : Has(f[k + 1], y) <=> Has(f[k], y) \/ Has(parts[k + 1], y)
    BY <2>1, <2>2, ConcatKeeps
  <2>4. Done(k)
    BY <1>3
  <2>5. \A x, y : Has(f[k], x) /\ Has(parts[k + 1], y) => <<x, y>> \in order
    <3> SUFFICES ASSUME NEW x, NEW y, Has(f[k], x), Has(parts[k + 1], y)
                 PROVE  <<x, y>> \in order
      OBVIOUS
    <3>1. PICK j \in 1 .. k : Has(parts[j], x)
      BY <2>4
    <3>2. j \in 1 .. n /\ j < k + 1
      BY <2>1
    <3> QED BY <2>1, <3>1, <3>2 DEF PartsInOrder
  <2>6. Ordered(order, parts[k + 1]) /\ Ordered(order, f[k])
    BY <2>1, <2>4 DEF PartsInOrder
  <2>7. Ordered(order, f[k + 1])
    BY <2>1, <2>2, <2>5, <2>6, ConcatOrdered
  <2>8. \A y : Has(f[k + 1], y) => \E j \in 1 .. k + 1 : Has(parts[j], y)
    <3> SUFFICES ASSUME NEW y, Has(f[k + 1], y) PROVE \E j \in 1 .. k + 1 : Has(parts[j], y)
      OBVIOUS
    <3>1. CASE Has(parts[k + 1], y)
      BY <2>1, <3>1
    <3>2. CASE Has(f[k], y)
      <4>1. PICK j \in 1 .. k : Has(parts[j], y)
        BY <2>4, <3>2
      <4>2. j \in 1 .. k + 1
        BY <2>1
      <4> QED BY <4>1, <4>2
    <3> QED BY <2>3, <3>1, <3>2
  <2>9. Done(k + 1)
    BY <2>7, <2>8
  <2> HIDE DEF Done
  <2> QED BY <2>1, <2>9
<1>4. \A k \in 0 .. n : k \in S
  <2> HIDE DEF S
  <2> QED BY <1>2, <1>3, RoundByRound
<1>5. Ordered(order, f[n])
  BY <1>4
<1> QED BY <1>1, <1>5

LEMMA KeptKeeps ==
    ASSUME NEW X, NEW s \in Seq(X), NEW S
    PROVE  /\ Kept(s, S) \in Seq(X)
           /\ \A y : Has(Kept(s, S), y) <=> Has(s, y) /\ y \in S
<1> DEFINE n == Len(s)
           parts == [k \in 1 .. n |-> IF s[k] \in S THEN <<s[k]>> ELSE <<>>]
<1>1. n \in Nat /\ DOMAIN s = 1 .. n
  OBVIOUS
<1>2. parts \in [1 .. n -> Seq(X)]
  <2>1. \A k \in 1 .. n : s[k] \in X
    OBVIOUS
  <2>2. \A x \in X : <<x>> \in Seq(X)
    OBVIOUS
  <2>3. <<>> \in Seq(X)
    OBVIOUS
  <2> QED BY <2>1, <2>2, <2>3
<1>3. Kept(s, S) = FlattenSeq(parts)
  BY <1>1 DEF Kept
<1>4. ASSUME NEW k \in 1 .. n, NEW y PROVE Has(parts[k], y) <=> y = s[k] /\ y \in S
  <2>1. CASE s[k] \in S
    BY <2>1 DEF Has
  <2>2. CASE s[k] \notin S
    <3>1. parts[k] = <<>>
      BY <2>2
    <3>2. Len(parts[k]) = 0
      BY <3>1
    <3> QED BY <2>2, <3>2 DEF Has
  <2> QED BY <2>1, <2>2
<1> HIDE DEF parts
<1>5. /\ FlattenSeq(parts) \in Seq(X)
      /\ \A y : Has(FlattenSeq(parts), y) <=> \E k \in 1 .. n : Has(parts[k], y)
  BY <1>1, <1>2, FlattenKeeps
<1>6. \A y : Has(s, y) <=> \E k \in 1 .. n : y = s[k]
  BY DEF Has
<1> HIDE DEF n
<1>7. Kept(s, S) \in Seq(X)
  BY <1>3, <1>5
<1>8. ASSUME NEW y PROVE Has(Kept(s, S), y) <=> Has(s, y) /\ y \in S
  <2>1. Has(Kept(s, S), y) <=> \E k \in 1 .. n : Has(parts[k], y)
    BY <1>3, <1>5
  <2> QED BY <2>1, <1>4, <1>6
<1> QED BY <1>7, <1>8

LEMMA KeptOrdered ==
    ASSUME NEW X, NEW s \in Seq(X), NEW S, NEW order, Ordered(order, s)
    PROVE  Ordered(order, Kept(s, S))
<1> DEFINE n == Len(s)
           parts == [k \in 1 .. n |-> IF s[k] \in S THEN <<s[k]>> ELSE <<>>]
<1>1. n \in Nat /\ DOMAIN s = 1 .. n
  OBVIOUS
<1>2. parts \in [1 .. n -> Seq(X)]
  <2>1. \A k \in 1 .. n : s[k] \in X
    OBVIOUS
  <2>2. \A x \in X : <<x>> \in Seq(X)
    OBVIOUS
  <2>3. <<>> \in Seq(X)
    OBVIOUS
  <2> QED BY <2>1, <2>2, <2>3
<1>3. Kept(s, S) = FlattenSeq(parts)
  BY <1>1 DEF Kept
<1>4. ASSUME NEW k \in 1 .. n
      PROVE  /\ Len(parts[k]) \in 0 .. 1
             /\ \A y : Has(parts[k], y) => y = s[k]
  <2>1. CASE s[k] \in S
    BY <2>1 DEF Has
  <2>2. CASE s[k] \notin S
    <3>1. parts[k] = <<>>
      BY <2>2
    <3>2. Len(parts[k]) = 0
      BY <3>1
    <3> QED BY <2>2, <3>2 DEF Has
  <2> QED BY <2>1, <2>2
<1> HIDE DEF parts
<1>5. PartsInOrder(order, n, parts)
  <2>1. ASSUME NEW k \in 1 .. n PROVE Ordered(order, parts[k])
    BY <1>4 DEF Ordered
  <2>2. ASSUME NEW j \in 1 .. n, NEW k \in 1 .. n, j < k, NEW x, NEW y,
               Has(parts[j], x), Has(parts[k], y)
        PROVE  <<x, y>> \in order
    <3>1. x = s[j] /\ y = s[k]
      BY <1>4, <2>2
    <3> QED BY <2>2, <3>1 DEF Ordered
  <2> QED BY <2>1, <2>2 DEF PartsInOrder
<1> QED BY <1>1, <1>2, <1>3, <1>5, FlattenOrdered

-----------------------------------------------------------------------------
(* sorted().                                                                 *)

\* A key: of any two elements one may come first, and the relation is transitive.
KeyOrder(order, X) ==
    /\ \A a, b \in X : <<a, b>> \in order \/ <<b, a>> \in order
    /\ \A a, b, c \in X : <<a, b>> \in order /\ <<b, c>> \in order => <<a, c>> \in order

LEMMA InsertedKeeps ==
    ASSUME NEW X, NEW order, NEW placed \in Seq(X), NEW x \in X
    PROVE  /\ Inserted(order, placed, x) \in Seq(X)
           /\ \A y : Has(Inserted(order, placed, x), y) <=> Has(placed, y) \/ y = x
<1> DEFINE first == {y \in ToSet(placed) : <<y, x>> \in order}
           rest == ToSet(placed) \ first
           s == Kept(placed, first)
           t == Kept(placed, rest)
<1>1. Inserted(order, placed, x) = s \o <<x>> \o t
  BY DEF Inserted
<1>2. \A y : Has(placed, y) <=> y \in first \/ y \in rest
  <2>1. DOMAIN placed = 1 .. Len(placed)
    OBVIOUS
  <2> QED BY <2>1 DEF ToSet, Has
<1> HIDE DEF first, rest
<1>3. /\ s \in Seq(X) /\ \A y : Has(s, y) <=> Has(placed, y) /\ y \in first
      /\ t \in Seq(X) /\ \A y : Has(t, y) <=> Has(placed, y) /\ y \in rest
  BY KeptKeeps
<1> HIDE DEF s, t
<1>4. <<x>> \in Seq(X) /\ \A y : Has(<<x>>, y) <=> y = x
  BY DEF Has
<1>5. s \o <<x>> \in Seq(X) /\ \A y : Has(s \o <<x>>, y) <=> Has(s, y) \/ Has(<<x>>, y)
  <2>1. s \o <<x>> \in Seq(X)
    BY <1>3, <1>4
  <2> QED BY <2>1, <1>3, <1>4, ConcatKeeps
<1>6. /\ s \o <<x>> \o t \in Seq(X)
      /\ \A y : Has(s \o <<x>> \o t, y) <=> Has(s \o <<x>>, y) \/ Has(t, y)
  <2> DEFINE u == s \o <<x>>
  <2>1. u \in Seq(X)
    BY <1>5
  <2> HIDE DEF u
  <2>2. u \o t \in Seq(X) /\ \A y : Has(u \o t, y) <=> Has(u, y) \/ Has(t, y)
    BY <2>1, <1>3, ConcatKeeps
  <2> QED BY <2>2 DEF u
<1> QED BY <1>1, <1>2, <1>3, <1>4, <1>5, <1>6

\* What goes before x may come before x, what goes after it may come after it, and the
\* ones before the others: then the whole is in that relation, which need not be the key's.
LEMMA InsertedRelates ==
    ASSUME NEW X, NEW order, NEW placed \in Seq(X), NEW x \in X,
           NEW rel, Ordered(rel, placed),
           \A y \in X : Has(placed, y) =>
               /\ <<y, x>> \in order => <<y, x>> \in rel
               /\ <<y, x>> \notin order => <<x, y>> \in rel,
           \A y, z \in X : Has(placed, y) /\ Has(placed, z) /\ <<y, x>> \in order /\ <<z, x>> \notin order
                               => <<y, z>> \in rel
    PROVE  Ordered(rel, Inserted(order, placed, x))
<1> DEFINE first == {y \in ToSet(placed) : <<y, x>> \in order}
           rest == ToSet(placed) \ first
           s == Kept(placed, first)
           t == Kept(placed, rest)
<1>1. Inserted(order, placed, x) = s \o <<x>> \o t
  BY DEF Inserted
<1>2. /\ \A y : y \in first <=> Has(placed, y) /\ <<y, x>> \in order
      /\ \A y : y \in rest <=> Has(placed, y) /\ <<y, x>> \notin order
  <2>1. DOMAIN placed = 1 .. Len(placed)
    OBVIOUS
  <2> QED BY <2>1 DEF ToSet, Has
<1> HIDE DEF first, rest
<1>3. /\ s \in Seq(X) /\ \A y : Has(s, y) <=> Has(placed, y) /\ y \in first
      /\ t \in Seq(X) /\ \A y : Has(t, y) <=> Has(placed, y) /\ y \in rest
  BY KeptKeeps
<1>4. Ordered(rel, s) /\ Ordered(rel, t)
  BY KeptOrdered
<1>5. \A y : Has(placed, y) => y \in X
  BY DEF Has
<1> HIDE DEF s, t
<1>6. /\ <<x>> \in Seq(X) /\ \A y : Has(<<x>>, y) <=> y = x
      /\ Ordered(rel, <<x>>)
  BY DEF Has, Ordered
<1> DEFINE u == s \o <<x>>
<1>7. u \in Seq(X) /\ \A y : Has(u, y) <=> Has(s, y) \/ y = x
  <2>1. u \in Seq(X)
    BY <1>3, <1>6
  <2>2. \A y : Has(u, y) <=> Has(s, y) \/ Has(<<x>>, y)
    BY <1>3, <1>6, ConcatKeeps
  <2> QED BY <2>1, <2>2, <1>6
<1>8. Ordered(rel, u)
  <2>1. \A y, z : Has(s, y) /\ Has(<<x>>, z) => <<y, z>> \in rel
    BY <1>2, <1>3, <1>5, <1>6
  <2> QED BY <2>1, <1>3, <1>4, <1>6, ConcatOrdered
<1> HIDE DEF u
<1>9. \A y, z : Has(u, y) /\ Has(t, z) => <<y, z>> \in rel
  BY <1>2, <1>3, <1>5, <1>7
<1>10. Ordered(rel, u \o t)
  BY <1>3, <1>4, <1>7, <1>8, <1>9, ConcatOrdered
<1> QED BY <1>1, <1>10 DEF u

LEMMA InsertedIsSorted ==
    ASSUME NEW X, NEW order, KeyOrder(order, X),
           NEW placed \in Seq(X), Ordered(order, placed), NEW x \in X
    PROVE  Ordered(order, Inserted(order, placed, x))
<1>1. \A y \in X : <<y, x>> \notin order => <<x, y>> \in order
  BY DEF KeyOrder
<1>2. \A y, z \in X : <<y, x>> \in order /\ <<z, x>> \notin order => <<y, z>> \in order
  BY <1>1 DEF KeyOrder
<1> QED BY <1>1, <1>2, InsertedRelates

LEMMA SortingRounds ==
    ASSUME NEW X, NEW order, NEW s \in Seq(X)
    PROVE  /\ Sorting(order, s) \in [0 .. Len(s) -> Seq(X)]
           /\ Sorting(order, s)[0] = <<>>
           /\ \A k \in 1 .. Len(s) :
                  Sorting(order, s)[k] = Inserted(order, Sorting(order, s)[k - 1], s[k])
<1> DEFINE n == Len(s)
           T == Seq(X)
           step == [k \in 1 .. n |-> [t \in T |-> Inserted(order, t, s[k])]]
           c == Sorting(order, s)
<1>0. \A t \in T : \A k \in 1 .. n : Inserted(order, t, s[k]) \in T
  <2> SUFFICES ASSUME NEW t \in T, NEW k \in 1 .. n PROVE Inserted(order, t, s[k]) \in T
    OBVIOUS
  <2>1. s[k] \in X
    OBVIOUS
  <2> QED BY <2>1, InsertedKeeps
<1>1. step \in [1 .. n -> [T -> T]] /\ n \in Nat
  BY <1>0
<1>2. PICK none \in T : none = <<>>
  <2>1. <<>> \in T
    OBVIOUS
  <2> HIDE DEF T
  <2> QED BY <2>1
<1>3. PICK f \in [0 .. n -> T] : f[0] = none /\ \A k \in 1 .. n : f[k] = step[k][f[k - 1]]
  <2>1. HasRun(T, none, n, step)
    <3> HIDE DEF step, T
    <3> QED BY <1>1, LoopExists
  <2> HIDE DEF step, T
  <2> QED BY <2>1 DEF HasRun
<1>4. \A k \in 1 .. n : f[k] = Inserted(order, f[k - 1], s[k])
  <2> SUFFICES ASSUME NEW k \in 1 .. n PROVE f[k] = Inserted(order, f[k - 1], s[k])
    OBVIOUS
  <2>1. f[k - 1] \in T
    BY <1>1
  <2> QED BY <1>3, <2>1
<1>5. f = [k \in 0 .. n |-> IF k = 0 THEN <<>> ELSE Inserted(order, f[k - 1], s[k])]
  BY <1>2, <1>3, <1>4
<1>6. c = [k \in 0 .. n |-> IF k = 0 THEN <<>> ELSE Inserted(order, c[k - 1], s[k])]
  BY <1>5 DEF Sorting
<1>7. c[0] = <<>> /\ \A k \in 1 .. n : c[k] = Inserted(order, c[k - 1], s[k])
  <2> HIDE DEF c
  <2> QED BY <1>6, <1>1
<1>8. \A k \in 0 .. n : c[k] \in T
  <2> DEFINE S == {k \in 0 .. n : c[k] \in T}
  <2> HIDE DEF c
  <2>1. 0 \in S
    <3>1. c[0] \in T
      BY <1>2, <1>7
    <3> HIDE DEF n, T
    <3> QED BY <1>1, <3>1
  <2>2. ASSUME NEW k \in 0 .. n - 1, k \in S PROVE k + 1 \in S
    <3>1. k + 1 \in 1 .. n /\ (k + 1) - 1 = k
      BY <1>1
    <3>2. c[k + 1] = Inserted(order, c[k], s[k + 1])
      BY <3>1, <1>7
    <3> QED BY <2>2, <3>1, <3>2, <1>0
  <2> HIDE DEF S
  <2>3. \A k \in 0 .. n : k \in S
    BY <1>1, <2>1, <2>2, RoundByRound
  <2> QED BY <2>3 DEF S
<1>9. c \in [0 .. n -> T]
  <2> HIDE DEF c
  <2> QED BY <1>6, <1>8
<1> QED BY <1>7, <1>9

\* A stable sort keeps the elements and puts them in the order of their key.
LEMMA SortedIsSorted ==
    ASSUME NEW X, NEW order, KeyOrder(order, X), NEW s \in Seq(X)
    PROVE  /\ Sorted(order, s) \in Seq(X)
           /\ Ordered(order, Sorted(order, s))
           /\ \A y : Has(Sorted(order, s), y) <=> Has(s, y)
<1> DEFINE n == Len(s)
           c == Sorting(order, s)
           Done(k) == /\ Ordered(order, c[k])
                      /\ \A y : Has(c[k], y) <=> \E j \in 1 .. k : s[j] = y
           S == {k \in 0 .. n : Done(k)}
<1>1. n \in Nat
  OBVIOUS
<1>2. /\ c \in [0 .. n -> Seq(X)]
      /\ c[0] = <<>>
      /\ \A k \in 1 .. n : c[k] = Inserted(order, c[k - 1], s[k])
  BY SortingRounds
<1> HIDE DEF c
<1>3. 0 \in S
  <2>1. Len(c[0]) = 0
    BY <1>2
  <2>2. Done(0)
    BY <2>1 DEF Ordered, Has
  <2> HIDE DEF Done, n
  <2> QED BY <1>1, <2>2
<1>4. ASSUME NEW k \in 0 .. n - 1, k \in S PROVE k + 1 \in S
  <2>1. k + 1 \in 1 .. n /\ (k + 1) - 1 = k /\ c[k] \in Seq(X) /\ s[k + 1] \in X
    BY <1>1, <1>2
  <2>2. c[k + 1] = Inserted(order, c[k], s[k + 1])
    BY <1>2, <2>1
  <2>3. Ordered(order, c[k])
    BY <1>4
  <2>4. /\ Ordered(order, c[k + 1])
        /\ \A y : Has(c[k + 1], y) <=> Has(c[k], y) \/ y = s[k + 1]
    <3>1. \A y : Has(Inserted(order, c[k], s[k + 1]), y) <=> Has(c[k], y) \/ y = s[k + 1]
      <4> DEFINE t == c[k]
                 x == s[k + 1]
      <4>1. t \in Seq(X) /\ x \in X
        BY <2>1
      <4> HIDE DEF t, x
      <4>2. \A y : Has(Inserted(order, t, x), y) <=> Has(t, y) \/ y = x
        BY <4>1, InsertedKeeps
      <4> QED BY <4>2 DEF t, x
    <3>2. Ordered(order, Inserted(order, c[k], s[k + 1]))
      BY <2>1, <2>3, InsertedIsSorted
    <3> QED BY <2>2, <3>1, <3>2
  <2>5. \A y : (\E j \in 1 .. k + 1 : s[j] = y) <=> (\E j \in 1 .. k : s[j] = y) \/ y = s[k + 1]
    BY <2>1
  <2>6. \A y : Has(c[k], y) <=> \E j \in 1 .. k : s[j] = y
    BY <1>4
  <2>7. Done(k + 1)
    BY <2>4, <2>5, <2>6
  <2> HIDE DEF Done
  <2> QED BY <2>1, <2>7
<1>5. \A k \in 0 .. n : k \in S
  <2> HIDE DEF S, n
  <2> QED BY <1>1, <1>3, <1>4, RoundByRound
<1>6. Done(n)
  <2> HIDE DEF Done
  <2> QED BY <1>1, <1>5
<1>7. Sorted(order, s) = c[n]
  BY DEF Sorted, c
<1>8. c[n] \in Seq(X)
  BY <1>1, <1>2
<1> QED BY <1>6, <1>7, <1>8 DEF Has

-----------------------------------------------------------------------------
(* _merge_intervals.                                                         *)

Proper(s) == \A k \in 1 .. Len(s) : s[k].from < s[k].to
Apart == {p \in AnyInterval \X AnyInterval : p[1].to < p[2].from}
Meets(a, s) == \E k \in 1 .. Len(s) : Overlaps(a, s[k])
ProperInterval == {a \in AnyInterval : a.from < a.to}

\* One round of the merge keeps the intervals proper and apart, and adds to the
\* time they cover exactly the time of the absorbed one.
LEMMA AbsorbAdds ==
    ASSUME NEW merged \in Seq(AnyInterval), Proper(merged), Ordered(Apart, merged),
           NEW i \in ProperInterval,
           merged = <<>> \/ merged[Len(merged)].from <= i.from
    PROVE  /\ Absorb(merged, i) \in Seq(AnyInterval)
           /\ Proper(Absorb(merged, i))
           /\ Ordered(Apart, Absorb(merged, i))
           /\ Len(Absorb(merged, i)) > 0
           /\ Absorb(merged, i)[Len(Absorb(merged, i))].from <= i.from
           /\ \A a \in ProperInterval :
                  Meets(a, Absorb(merged, i)) <=> Meets(a, merged) \/ Overlaps(a, i)
<1> DEFINE n == Len(merged)
           res == Absorb(merged, i)
<1>0. /\ n \in Nat /\ i.from \in Int /\ i.to \in Int /\ i.from < i.to
      /\ \A k \in 1 .. n : /\ merged[k] \in AnyInterval
                             /\ merged[k].from \in Int /\ merged[k].to \in Int
                             /\ merged[k].from < merged[k].to
  <2>1. n \in Nat /\ \A k \in 1 .. n : merged[k] \in AnyInterval
    OBVIOUS
  <2>2. \A a \in AnyInterval : a.from \in Int /\ a.to \in Int
    BY DEF AnyInterval
  <2>3. i \in AnyInterval /\ i.from < i.to
    BY DEF ProperInterval
  <2>4. \A k \in 1 .. n : merged[k].from < merged[k].to
    BY DEF Proper
  <2> QED BY <2>1, <2>2, <2>3, <2>4
<1>a. \A j, k \in 1 .. n : j < k => merged[j].to < merged[k].from
  BY DEF Ordered, Apart
<1>1. CASE merged # <<>> /\ i.from <= merged[n].to
  <2> DEFINE I == Interval(merged[n].from, Greatest(merged[n].to, i.to))
  <2>1. n \in 1 .. n /\ merged[n].from <= i.from
    BY <1>0, <1>1
  <2>2. /\ I \in AnyInterval /\ I.from = merged[n].from
        /\ I.to >= merged[n].to /\ I.to >= i.to /\ (I.to = merged[n].to \/ I.to = i.to)
    BY <1>0, <2>1 DEF Interval, Greatest, AnyInterval
  <2>3. /\ res \in Seq(AnyInterval) /\ Len(res) = n
        /\ res[n] = I /\ \A k \in 1 .. n - 1 : res[k] = merged[k]
    <3>1. res = Append(SubSeq(merged, 1, n - 1), I)
      BY <1>1 DEF Absorb, Front, Last
    <3>2. /\ SubSeq(merged, 1, n - 1) \in Seq(AnyInterval)
          /\ Len(SubSeq(merged, 1, n - 1)) = n - 1
          /\ \A k \in 1 .. n - 1 : SubSeq(merged, 1, n - 1)[k] = merged[k]
      <4>1. n \in Nat /\ n >= 1
        BY <1>0, <2>1
      <4>2. \A k \in 1 .. n - 1 : merged[k] \in AnyInterval
        BY <1>0
      <4> DEFINE m == n - 1
      <4>3. m \in Nat /\ (IF 1 <= m THEN m - 1 + 1 ELSE 0) = m /\ 1 .. m - 1 + 1 = 1 .. m
        <5>1. m \in Nat
          BY <4>1
        <5> HIDE DEF m
        <5>2. m - 1 + 1 = m /\ (1 <= m \/ m = 0)
          BY <5>1
        <5> QED BY <5>1, <5>2
      <4>4. \A k \in 1 .. m : 1 + k - 1 = k
        BY <4>3
      <4> HIDE DEF m
      <4>5. /\ SubSeq(merged, 1, m) \in Seq(AnyInterval)
            /\ Len(SubSeq(merged, 1, m)) = IF 1 <= m THEN m - 1 + 1 ELSE 0
            /\ \A k \in 1 .. m - 1 + 1 : SubSeq(merged, 1, m)[k] = merged[1 + k - 1]
        <5>1. \A k \in 1 .. m : merged[k] \in AnyInterval
          BY <4>2 DEF m
        <5> QED BY <4>3, <5>1, SubSeqProperties
      <4>6. \A k \in 1 .. m : SubSeq(merged, 1, m)[k] = merged[k]
        BY <4>3, <4>4, <4>5
      <4>7. Len(SubSeq(merged, 1, m)) = m
        BY <4>3, <4>5
      <4> QED BY <4>5, <4>6, <4>7 DEF m
    <3> HIDE DEF I
    <3> QED BY <3>1, <3>2, <2>1, <2>2, <1>0
  <2> HIDE DEF I, res
  <2>4. Proper(res)
    <3> SUFFICES ASSUME NEW k \in 1 .. n PROVE res[k].from < res[k].to
      BY <2>3 DEF Proper
    <3>1. CASE k = n
      BY <3>1, <1>0, <2>1, <2>2, <2>3 DEF AnyInterval
    <3>2. CASE k # n
      BY <3>2, <1>0, <2>3
    <3> QED BY <3>1, <3>2
  <2>5. Ordered(Apart, res)
    <3> SUFFICES ASSUME NEW j \in 1 .. n, NEW k \in 1 .. n, j < k
                 PROVE  <<res[j], res[k]>> \in Apart
      BY <2>3 DEF Ordered
    <3>1. j \in 1 .. n - 1 /\ res[j] = merged[j] /\ res[k].from = merged[k].from
      BY <1>0, <2>2, <2>3
    <3>2. res[j] \in AnyInterval /\ res[k] \in AnyInterval
      BY <2>3
    <3>3. res[j].to < res[k].from
      BY <3>1, <1>a
    <3> QED BY <3>2, <3>3 DEF Apart
  <2>6. ASSUME NEW a \in ProperInterval
        PROVE  Meets(a, res) <=> Meets(a, merged) \/ Overlaps(a, i)
    <3>0. a.from \in Int /\ a.to \in Int /\ a.from < a.to
      BY DEF ProperInterval, AnyInterval
    <3>1. Overlaps(a, I) <=> Overlaps(a, merged[n]) \/ Overlaps(a, i)
      BY <3>0, <1>0, <1>1, <2>1, <2>2 DEF Overlaps, AnyInterval
    <3>2. Meets(a, res) <=> (\E k \in 1 .. n - 1 : Overlaps(a, merged[k])) \/ Overlaps(a, I)
      BY <1>0, <2>1, <2>3 DEF Meets
    <3>3. Meets(a, merged)
              <=> (\E k \in 1 .. n - 1 : Overlaps(a, merged[k])) \/ Overlaps(a, merged[n])
      BY <1>0, <2>1 DEF Meets
    <3> QED BY <3>1, <3>2, <3>3
  <2> QED BY <1>0, <2>1, <2>2, <2>3, <2>4, <2>5, <2>6 DEF res
<1>2. CASE ~(merged # <<>> /\ i.from <= merged[n].to)
  <2>1. res = Append(merged, i) /\ i \in AnyInterval
    BY <1>2 DEF Absorb, Last, ProperInterval
  <2>2. /\ res \in Seq(AnyInterval) /\ Len(res) = n + 1
        /\ res[n + 1] = i /\ \A k \in 1 .. n : res[k] = merged[k]
    BY <2>1
  <2> HIDE DEF res
  <2>3. Proper(res)
    <3> SUFFICES ASSUME NEW k \in 1 .. n + 1 PROVE res[k].from < res[k].to
      BY <2>2 DEF Proper
    <3>1. k = n + 1 \/ k \in 1 .. n
      BY <1>0
    <3> QED BY <3>1, <1>0, <2>2
  <2>4. Ordered(Apart, res)
    <3> SUFFICES ASSUME NEW j \in 1 .. n + 1, NEW k \in 1 .. n + 1, j < k
                 PROVE  <<res[j], res[k]>> \in Apart
      BY <2>2 DEF Ordered
    <3>a. n \in Nat
      BY <1>0
    <3>b. j \in 1 .. n /\ (k = n + 1 \/ k \in 1 .. n)
      BY <3>a
    <3>1. j \in 1 .. n /\ res[j] = merged[j] /\ (k = n + 1 \/ k \in 1 .. n)
      BY <3>b, <2>2
    <3>2. res[j] \in AnyInterval /\ res[k] \in AnyInterval
      BY <2>2
    <3>3. res[j].to < res[k].from
      <4>1. CASE k \in 1 .. n
        BY <3>1, <4>1, <1>a, <2>2
      <4>2. CASE k = n + 1
        <5>1. n \in 1 .. n /\ merged # <<>> /\ merged[n].to < i.from
          BY <1>0, <1>2, <3>1
        <5>2. j = n \/ (j < n /\ merged[j].to < merged[n].from)
          BY <1>0, <1>a, <3>1, <5>1
        <5> QED BY <3>1, <4>2, <5>1, <5>2, <1>0, <2>2
      <4> QED BY <3>1, <4>1, <4>2
    <3> QED BY <3>2, <3>3 DEF Apart
  <2>5. ASSUME NEW a \in ProperInterval
        PROVE  Meets(a, res) <=> Meets(a, merged) \/ Overlaps(a, i)
    BY <1>0, <2>2 DEF Meets
  <2> QED BY <1>0, <2>2, <2>3, <2>4, <2>5 DEF res
<1> QED BY <1>1, <1>2

LEMMA AbsorbType ==
    ASSUME NEW merged \in Seq(AnyInterval), NEW i \in AnyInterval
    PROVE  Absorb(merged, i) \in Seq(AnyInterval)
<1> DEFINE n == Len(merged)
<1>1. CASE merged # <<>> /\ i.from <= merged[n].to
  <2>1. n \in Nat /\ n \in 1 .. n /\ merged[n] \in AnyInterval
    BY <1>1
  <2>2. Interval(merged[n].from, Greatest(merged[n].to, i.to)) \in AnyInterval
    BY <2>1 DEF Interval, Greatest, AnyInterval
  <2>3. SubSeq(merged, 1, n - 1) \in Seq(AnyInterval)
    <3>1. \A k \in 1 .. n - 1 : merged[k] \in AnyInterval
      BY <2>1
    <3>2. n - 1 \in Int
      BY <2>1
    <3> QED BY <3>1, <3>2, SubSeqProperties
  <2>4. Absorb(merged, i)
            = Append(SubSeq(merged, 1, n - 1),
                     Interval(merged[n].from, Greatest(merged[n].to, i.to)))
    BY <1>1 DEF Absorb, Front, Last
  <2> QED BY <2>2, <2>3, <2>4
<1>2. CASE ~(merged # <<>> /\ i.from <= merged[n].to)
  BY <1>2 DEF Absorb, Last
<1> QED BY <1>1, <1>2

LEMMA MergingRounds ==
    ASSUME NEW n \in Nat, NEW s \in [1 .. n -> AnyInterval]
    PROVE  /\ Merging(s) \in [0 .. n -> Seq(AnyInterval)]
           /\ Merging(s)[0] = <<>>
           /\ \A k \in 1 .. n : Merging(s)[k] = Absorb(Merging(s)[k - 1], s[k])
<1> DEFINE T == Seq(AnyInterval)
           step == [k \in 1 .. n |-> [t \in T |-> Absorb(t, s[k])]]
           c == Merging(s)
<1>0. \A t \in T : \A k \in 1 .. n : Absorb(t, s[k]) \in T
  BY AbsorbType
<1>a. Len(s) = n
  OBVIOUS
<1>1. step \in [1 .. n -> [T -> T]]
  BY <1>0
<1>2. PICK none \in T : none = <<>>
  <2>1. <<>> \in T
    OBVIOUS
  <2> HIDE DEF T
  <2> QED BY <2>1
<1>3. PICK f \in [0 .. n -> T] : f[0] = none /\ \A k \in 1 .. n : f[k] = step[k][f[k - 1]]
  <2>1. HasRun(T, none, n, step)
    <3> HIDE DEF step, T
    <3> QED BY <1>1, LoopExists
  <2> HIDE DEF step, T
  <2> QED BY <2>1 DEF HasRun
<1>4. \A k \in 1 .. n : f[k] = Absorb(f[k - 1], s[k])
  <2> SUFFICES ASSUME NEW k \in 1 .. n PROVE f[k] = Absorb(f[k - 1], s[k])
    OBVIOUS
  <2>1. f[k - 1] \in T
    OBVIOUS
  <2> QED BY <1>3, <2>1
<1>5. f = [k \in 0 .. n |-> IF k = 0 THEN <<>> ELSE Absorb(f[k - 1], s[k])]
  BY <1>2, <1>3, <1>4
<1>6. c = [k \in 0 .. n |-> IF k = 0 THEN <<>> ELSE Absorb(c[k - 1], s[k])]
  BY <1>5, <1>a DEF Merging
<1>7. c[0] = <<>> /\ \A k \in 1 .. n : c[k] = Absorb(c[k - 1], s[k])
  <2> HIDE DEF c
  <2> QED BY <1>6
<1>8. \A k \in 0 .. n : c[k] \in T
  <2> HIDE DEF c
  <2>1. c[0] \in T
    BY <1>2, <1>7
  <2>2. ASSUME NEW k \in 1 .. n, c[k - 1] \in T PROVE c[k] \in T
    BY <1>0, <1>7, <2>2
  <2> HIDE DEF T
  <2> QED BY <2>1, <2>2, LoopStays
<1>9. c \in [0 .. n -> T]
  <2> HIDE DEF c
  <2> QED BY <1>6, <1>8
<1> QED BY <1>7, <1>9

\* What the day keeps busy after the merge is what kept it busy before.
LEMMA MergeMeans ==
    ASSUME NEW intervals \in Seq(AnyInterval)
    PROVE  /\ MergeIntervals(intervals) \in Seq(AnyInterval)
           /\ Proper(MergeIntervals(intervals))
           /\ Ordered(Apart, MergeIntervals(intervals))
           /\ \A a \in ProperInterval :
                  Meets(a, MergeIntervals(intervals))
                      <=> \E k \in 1 .. Len(intervals) :
                              intervals[k] \in ProperInterval /\ Overlaps(a, intervals[k])
<1> DEFINE clean == Kept(intervals, {i \in AnyInterval : i.from < i.to})
           s == Sorted(ByStart, clean)
           n == Len(s)
           c == Merging(s)
<1>1. /\ clean \in Seq(AnyInterval)
      /\ \A y : Has(clean, y) <=> Has(intervals, y) /\ y \in ProperInterval
  BY KeptKeeps DEF ProperInterval
<1>2. /\ s \in Seq(AnyInterval)
      /\ Ordered(ByStart, s)
      /\ \A y : Has(s, y) <=> Has(intervals, y) /\ y \in ProperInterval
  <2>1. KeyOrder(ByStart, AnyInterval)
    BY DEF KeyOrder, ByStart, AnyInterval
  <2> HIDE DEF clean
  <2> QED BY <1>1, <2>1, SortedIsSorted
<1>3. MergeIntervals(intervals) = c[n]
  BY DEF MergeIntervals
<1> HIDE DEF s
<1>4. /\ n \in Nat /\ s \in [1 .. n -> AnyInterval]
      /\ \A k \in 1 .. n : s[k] \in ProperInterval
  <2>1. n \in Nat /\ s \in [1 .. n -> AnyInterval]
    BY <1>2
  <2>2. \A k \in 1 .. n : Has(s, s[k])
    BY DEF Has
  <2> QED BY <1>2, <2>1, <2>2
<1> HIDE DEF n
<1>5. /\ c \in [0 .. n -> Seq(AnyInterval)]
      /\ c[0] = <<>>
      /\ \A k \in 1 .. n : c[k] = Absorb(c[k - 1], s[k])
  BY <1>4, MergingRounds
<1> HIDE DEF c
<1> DEFINE Done(k) ==
               /\ Proper(c[k])
               /\ Ordered(Apart, c[k])
               /\ k # 0 => Len(c[k]) > 0 /\ c[k][Len(c[k])].from <= s[k].from
               /\ \A a \in ProperInterval :
                      Meets(a, c[k]) <=> \E j \in 1 .. k : Overlaps(a, s[j])
           S == {k \in 0 .. n : Done(k)}
<1>6. 0 \in S
  <2>1. Len(c[0]) = 0
    BY <1>5
  <2>2. Done(0)
    BY <2>1 DEF Proper, Ordered, Meets
  <2> HIDE DEF Done
  <2> QED BY <1>4, <2>2
<1>7. ASSUME NEW k \in 0 .. n - 1, k \in S PROVE k + 1 \in S
  <2>1. k + 1 \in 1 .. n /\ k + 1 \in 0 .. n /\ (k + 1) - 1 = k /\ c[k] \in Seq(AnyInterval)
    BY <1>4, <1>5
  <2>2. c[k + 1] = Absorb(c[k], s[k + 1]) /\ s[k + 1] \in ProperInterval
    BY <1>4, <1>5, <2>1
  <2>3. Done(k)
    BY <1>7
  <2>4. c[k] = <<>> \/ c[k][Len(c[k])].from <= s[k + 1].from
    <3>1. CASE k = 0
      BY <3>1, <1>5
    <3>2. CASE k # 0
      <4>1. k \in 1 .. n /\ k < k + 1
        BY <3>2, <1>4
      <4>2. <<s[k], s[k + 1]>> \in ByStart
        BY <4>1, <2>1, <1>2 DEF Ordered, n
      <4>3. s[k].from <= s[k + 1].from
        BY <4>2 DEF ByStart
      <4>4. c[k][Len(c[k])] \in AnyInterval
        BY <2>1, <2>3, <3>2
      <4>5. c[k][Len(c[k])].from \in Int /\ s[k].from \in Int /\ s[k + 1].from \in Int
        BY <4>1, <4>4, <2>1, <1>4 DEF AnyInterval
      <4> QED BY <4>3, <4>5, <2>3, <3>2
    <3> QED BY <3>1, <3>2
  <2>5. /\ Proper(c[k + 1]) /\ Ordered(Apart, c[k + 1])
        /\ Len(c[k + 1]) > 0 /\ c[k + 1][Len(c[k + 1])].from <= s[k + 1].from
        /\ \A a \in ProperInterval :
               Meets(a, c[k + 1]) <=> Meets(a, c[k]) \/ Overlaps(a, s[k + 1])
    <3> DEFINE t == c[k]
               i == s[k + 1]
    <3>1. /\ t \in Seq(AnyInterval) /\ Proper(t) /\ Ordered(Apart, t) /\ i \in ProperInterval
          /\ t = <<>> \/ t[Len(t)].from <= i.from
      BY <2>1, <2>2, <2>3, <2>4
    <3> HIDE DEF t, i
    <3>2. /\ Proper(Absorb(t, i)) /\ Ordered(Apart, Absorb(t, i))
          /\ Len(Absorb(t, i)) > 0 /\ Absorb(t, i)[Len(Absorb(t, i))].from <= i.from
          /\ \A a \in ProperInterval :
                 Meets(a, Absorb(t, i)) <=> Meets(a, t) \/ Overlaps(a, i)
      BY <3>1, AbsorbAdds
    <3>3. c[k + 1] = Absorb(t, i)
      BY <2>2 DEF t, i
    <3> QED BY <3>2, <3>3 DEF t, i
  <2>6. \A a \in ProperInterval :
            (\E j \in 1 .. k + 1 : Overlaps(a, s[j]))
                <=> (\E j \in 1 .. k : Overlaps(a, s[j])) \/ Overlaps(a, s[k + 1])
    BY <2>1
  <2>7. Done(k + 1)
    BY <2>3, <2>5, <2>6
  <2> HIDE DEF Done
  <2> QED BY <2>1, <2>7
<1>8. Done(n)
  <2>1. \A k \in 0 .. n : k \in S
    <3> HIDE DEF S
    <3> QED BY <1>4, <1>6, <1>7, RoundByRound
  <2>2. n \in 0 .. n
    BY <1>4
  <2> HIDE DEF Done
  <2> QED BY <2>1, <2>2
<1>9. \A a \in ProperInterval :
          (\E j \in 1 .. n : Overlaps(a, s[j]))
              <=> \E k \in 1 .. Len(intervals) :
                      intervals[k] \in ProperInterval /\ Overlaps(a, intervals[k])
  BY <1>2 DEF Has, n
<1>10. c[n] \in Seq(AnyInterval)
  BY <1>4, <1>5
<1> QED BY <1>3, <1>8, <1>9, <1>10

-----------------------------------------------------------------------------
(* _subtract_busy_intervals.                                                 *)

CutState == [cursor : Int, free : Seq(AnyInterval)]
FitsIn(a, s) == \E k \in 1 .. Len(s) : Within(a, s[k])

LEMMA CutType ==
    ASSUME NEW i \in AnyInterval, NEW st \in CutState, NEW b \in AnyInterval
    PROVE  Cut(i, st, b) \in CutState
<1>1. st.cursor \in Int /\ st.free \in Seq(AnyInterval) /\ b.to \in Int /\ b.from \in Int /\ i.to \in Int
  BY DEF CutState, AnyInterval
<1>2. Greatest(st.cursor, b.to) \in Int
  BY <1>1 DEF Greatest
<1>3. Interval(st.cursor, Least(b.from, i.to)) \in AnyInterval
  BY <1>1 DEF Interval, Least, AnyInterval
<1>4. Append(st.free, Interval(st.cursor, Least(b.from, i.to))) \in Seq(AnyInterval)
  BY <1>1, <1>3
<1> QED BY <1>1, <1>2, <1>4 DEF Cut, CutState

LEMMA CuttingRounds ==
    ASSUME NEW i \in AnyInterval, NEW n \in Nat, NEW busy \in [1 .. n -> AnyInterval]
    PROVE  /\ Cutting(i, busy) \in [0 .. n -> CutState]
           /\ Cutting(i, busy)[0] = [cursor |-> i.from, free |-> <<>>]
           /\ \A k \in 1 .. n : Cutting(i, busy)[k] = Cut(i, Cutting(i, busy)[k - 1], busy[k])
<1> DEFINE T == CutState
           step == [k \in 1 .. n |-> [t \in T |-> Cut(i, t, busy[k])]]
           c == Cutting(i, busy)
           start == [cursor |-> i.from, free |-> <<>>]
<1>0. \A t \in T : \A k \in 1 .. n : Cut(i, t, busy[k]) \in T
  BY CutType
<1>a. Len(busy) = n
  OBVIOUS
<1>1. step \in [1 .. n -> [T -> T]]
  BY <1>0
<1>2. start \in T
  <2>1. <<>> \in Seq(AnyInterval)
    OBVIOUS
  <2>2. i.from \in Int
    BY DEF AnyInterval
  <2> QED BY <2>1, <2>2 DEF CutState
<1> HIDE DEF start
<1>3. PICK f \in [0 .. n -> T] : f[0] = start /\ \A k \in 1 .. n : f[k] = step[k][f[k - 1]]
  <2>1. HasRun(T, start, n, step)
    <3> HIDE DEF step, T
    <3> QED BY <1>1, <1>2, LoopExists
  <2> HIDE DEF step, T
  <2> QED BY <2>1 DEF HasRun
<1>4. \A k \in 1 .. n : f[k] = Cut(i, f[k - 1], busy[k])
  <2> SUFFICES ASSUME NEW k \in 1 .. n PROVE f[k] = Cut(i, f[k - 1], busy[k])
    OBVIOUS
  <2>1. f[k - 1] \in T
    OBVIOUS
  <2> QED BY <1>3, <2>1
<1>5. f = [k \in 0 .. n |-> IF k = 0 THEN start ELSE Cut(i, f[k - 1], busy[k])]
  BY <1>3, <1>4
<1>6. c = [k \in 0 .. n |-> IF k = 0 THEN start ELSE Cut(i, c[k - 1], busy[k])]
  BY <1>5, <1>a DEF Cutting, start
<1>7. c[0] = start /\ \A k \in 1 .. n : c[k] = Cut(i, c[k - 1], busy[k])
  <2> HIDE DEF c
  <2> QED BY <1>6
<1>8. \A k \in 0 .. n : c[k] \in T
  <2> HIDE DEF c
  <2>1. c[0] \in T
    BY <1>2, <1>7
  <2>2. ASSUME NEW k \in 1 .. n, c[k - 1] \in T PROVE c[k] \in T
    BY <1>0, <1>7, <2>2
  <2> HIDE DEF T
  <2> QED BY <2>1, <2>2, LoopStays
<1>9. c \in [0 .. n -> T]
  <2> HIDE DEF c
  <2> QED BY <1>6, <1>8
<1> QED BY <1>7, <1>9 DEF start

(***************************************************************************)
(* After k busy intervals: what fits in the free ones found, or lies past  *)
(* the cursor, is what touches none of the k.                              *)
(***************************************************************************)
FreeSoFar(i, busy, k, st) ==
    /\ st \in CutState
    /\ st.cursor >= i.from
    /\ \/ st.cursor = i.from /\ st.free = <<>>
       \/ k >= 1 /\ st.cursor <= busy[k].to
    /\ Proper(st.free)
    /\ Ordered(Apart, st.free)
    /\ \A j \in 1 .. Len(st.free) :
           i.from <= st.free[j].from /\ st.free[j].to < st.cursor /\ st.free[j].to <= i.to
    /\ \A a \in ProperInterval : Within(a, i) =>
           ((\A j \in 1 .. k : ~Overlaps(a, busy[j]))
                <=> FitsIn(a, st.free) \/ a.from >= st.cursor)

LEMMA CutKeepsSound ==
    ASSUME NEW i \in ProperInterval, NEW n \in Nat, NEW busy \in [1 .. n -> ProperInterval],
           \A j, k \in 1 .. n : j < k => busy[j].to < busy[k].from,
           NEW k \in 0 .. n - 1, NEW st, FreeSoFar(i, busy, k, st)
    PROVE  FreeSoFar(i, busy, k + 1, Cut(i, st, busy[k + 1]))
<1> DEFINE b == busy[k + 1]
           cu == st.cursor
           fr == st.free
           m == Len(fr)
<1>1. /\ i \in AnyInterval /\ i.from \in Int /\ i.to \in Int /\ i.from < i.to
      /\ b \in AnyInterval /\ b.from \in Int /\ b.to \in Int /\ b.from < b.to
  <2>1. k + 1 \in 1 .. n
    OBVIOUS
  <2> QED BY <2>1 DEF ProperInterval, AnyInterval
<1>2. /\ st \in CutState /\ cu \in Int /\ fr \in Seq(AnyInterval) /\ m \in Nat /\ cu >= i.from
      /\ \A j \in 1 .. m : fr[j] \in AnyInterval /\ fr[j].from \in Int /\ fr[j].to \in Int
  <2>1. st \in CutState /\ cu >= i.from
    BY DEF FreeSoFar
  <2>2. cu \in Int /\ fr \in Seq(AnyInterval)
    BY <2>1 DEF CutState
  <2>3. m \in Nat /\ \A j \in 1 .. m : fr[j] \in AnyInterval
    BY <2>2
  <2> QED BY <2>1, <2>2, <2>3 DEF AnyInterval
<1>3. /\ Proper(fr) /\ Ordered(Apart, fr)
      /\ \A j \in 1 .. m : i.from <= fr[j].from /\ fr[j].to < cu /\ fr[j].to <= i.to
  BY DEF FreeSoFar
<1>4. (cu = i.from /\ fr = <<>>) \/ cu < b.from
  <2>1. CASE k >= 1 /\ cu <= busy[k].to
    <3>1. k \in 1 .. n /\ k + 1 \in 1 .. n /\ k < k + 1
      BY <2>1
    <3>2. busy[k].to < b.from /\ busy[k].to \in Int
      BY <3>1 DEF ProperInterval, AnyInterval
    <3> QED BY <2>1, <3>2, <1>1, <1>2
  <2> QED BY <2>1 DEF FreeSoFar
<1>5. \A a \in ProperInterval : a.from \in Int /\ a.to \in Int /\ a.from < a.to
  BY DEF ProperInterval, AnyInterval
<1>6. \A a \in ProperInterval : Within(a, i) =>
          ((\A j \in 1 .. k : ~Overlaps(a, busy[j])) <=> FitsIn(a, fr) \/ a.from >= cu)
  BY DEF FreeSoFar
<1>7. \A a : (\A j \in 1 .. k + 1 : ~Overlaps(a, busy[j]))
                <=> (\A j \in 1 .. k : ~Overlaps(a, busy[j])) /\ ~Overlaps(a, b)
  <2> SUFFICES ASSUME NEW a
               PROVE  (\A j \in 1 .. k + 1 : ~Overlaps(a, busy[j]))
                         <=> (\A j \in 1 .. k : ~Overlaps(a, busy[j])) /\ ~Overlaps(a, b)
    OBVIOUS
  <2>1. \A j : j \in 1 .. k + 1 <=> j \in 1 .. k \/ j = k + 1
    OBVIOUS
  <2> QED BY <2>1
\* What fits in a free interval found so far ends before the cursor.
<1>8. ASSUME NEW a \in ProperInterval, FitsIn(a, fr) PROVE a.to < cu /\ cu < b.from
  <2>1. PICK j \in 1 .. m : Within(a, fr[j])
    BY <1>8 DEF FitsIn
  <2>2. fr # <<>>
    BY <1>2, <2>1
  <2> QED BY <2>1, <2>2, <1>2, <1>3, <1>4, <1>5 DEF Within
<1>9. CASE b.to <= cu \/ b.from >= i.to
  <2>1. Cut(i, st, b) = st
    BY <1>9 DEF Cut
  <2>2. \/ cu = i.from /\ fr = <<>>
        \/ k + 1 >= 1 /\ cu <= b.to
    BY <1>1, <1>2, <1>4
  <2>3. ASSUME NEW a \in ProperInterval, Within(a, i)
        PROVE  (\A j \in 1 .. k + 1 : ~Overlaps(a, busy[j])) <=> FitsIn(a, fr) \/ a.from >= cu
    <3>1. FitsIn(a, fr) \/ a.from >= cu => ~Overlaps(a, b)
      BY <1>1, <1>2, <1>5, <1>8, <1>9, <2>3 DEF Overlaps, Within
    <3> QED BY <3>1, <1>6, <1>7, <2>3
  <2> QED BY <2>1, <2>2, <2>3, <1>2, <1>3 DEF FreeSoFar
<1>10. CASE ~(b.to <= cu \/ b.from >= i.to) /\ b.from > cu
  <2> DEFINE gap == Interval(cu, b.from)
             fr2 == Append(fr, gap)
             st2 == [cursor |-> b.to, free |-> fr2]
  <2>1. Cut(i, st, b) = st2
    <3>1. Greatest(cu, b.to) = b.to /\ Least(b.from, i.to) = b.from
      BY <1>1, <1>2, <1>10 DEF Greatest, Least
    <3> QED BY <3>1, <1>10 DEF Cut
  <2>2. gap \in AnyInterval /\ gap.from = cu /\ gap.to = b.from
    BY <1>1, <1>2 DEF Interval, AnyInterval
  <2>3. /\ fr2 \in Seq(AnyInterval) /\ Len(fr2) = m + 1 /\ fr2[m + 1] = gap
        /\ \A j \in 1 .. m : fr2[j] = fr[j]
    BY <1>2, <2>2
  <2> HIDE DEF gap, fr2
  <2>4. Proper(fr2)
    <3> SUFFICES ASSUME NEW j \in 1 .. m + 1 PROVE fr2[j].from < fr2[j].to
      BY <2>3 DEF Proper
    <3>1. CASE j = m + 1
      BY <3>1, <2>2, <2>3, <1>10
    <3>2. CASE j \in 1 .. m
      BY <3>2, <2>3, <1>3 DEF Proper
    <3> QED BY <3>1, <3>2, <1>2
  <2>5. Ordered(Apart, fr2)
    <3> SUFFICES ASSUME NEW j \in 1 .. m + 1, NEW l \in 1 .. m + 1, j < l
                 PROVE  <<fr2[j], fr2[l]>> \in Apart
      BY <2>3 DEF Ordered
    <3>1. j \in 1 .. m /\ (l \in 1 .. m \/ l = m + 1)
      <4>1. m \in Nat
        BY <1>2
      <4> HIDE DEF m
      <4> QED BY <4>1
    <3>2. CASE l \in 1 .. m
      BY <3>1, <3>2, <2>3, <1>3 DEF Ordered
    <3>3. CASE l = m + 1
      BY <3>1, <3>3, <2>2, <2>3, <1>2, <1>3 DEF Apart
    <3> QED BY <3>1, <3>2, <3>3
  <2>6. \A j \in 1 .. m + 1 :
            i.from <= fr2[j].from /\ fr2[j].to < b.to /\ fr2[j].to <= i.to
    <3> SUFFICES ASSUME NEW j \in 1 .. m + 1
                 PROVE  i.from <= fr2[j].from /\ fr2[j].to < b.to /\ fr2[j].to <= i.to
      OBVIOUS
    <3>1. CASE j = m + 1
      BY <3>1, <2>2, <2>3, <1>1, <1>2, <1>10
    <3>2. CASE j \in 1 .. m
      <4>1. fr2[j] = fr[j] /\ fr[j].to \in Int
        BY <3>2, <2>3, <1>2
      <4>2. i.from <= fr[j].from /\ fr[j].to < cu /\ fr[j].to <= i.to
        BY <3>2, <1>3
      <4> QED BY <4>1, <4>2, <1>1, <1>2, <1>10
    <3> QED BY <3>1, <3>2, <1>2
  <2>7. ASSUME NEW a \in ProperInterval, Within(a, i)
        PROVE  (\A j \in 1 .. k + 1 : ~Overlaps(a, busy[j]))
                   <=> FitsIn(a, fr2) \/ a.from >= b.to
    <3>1. FitsIn(a, fr2) <=> FitsIn(a, fr) \/ Within(a, gap)
      <4>1. \A j : j \in 1 .. m + 1 <=> j \in 1 .. m \/ j = m + 1
        BY <1>2
      <4> QED BY <4>1, <2>3 DEF FitsIn
    <3>2. Within(a, gap) <=> cu <= a.from /\ a.to <= b.from
      BY <2>2 DEF Within
    <3>3. ~Overlaps(a, b) <=> a.to <= b.from \/ a.from >= b.to
      BY <1>1, <1>5 DEF Overlaps
    <3>4. FitsIn(a, fr) => a.to < cu /\ cu < b.from
      BY <1>8
    <3>5. (FitsIn(a, fr) \/ a.from >= cu) /\ ~Overlaps(a, b)
              <=> FitsIn(a, fr) \/ Within(a, gap) \/ a.from >= b.to
      <4>1. /\ a.from \in Int /\ a.to \in Int /\ cu \in Int /\ b.from \in Int /\ b.to \in Int
            /\ cu < b.from
        BY <1>1, <1>2, <1>5, <1>10
      <4>2. cu < b.to
        BY <4>1, <1>10
      <4>3. (FitsIn(a, fr) => a.to <= b.from) /\ (a.from >= b.to => a.from >= cu)
        BY <4>1, <4>2, <3>4
      <4> QED BY <4>3, <3>2, <3>3
    <3> QED BY <3>1, <3>5, <1>6, <1>7, <2>7
  <2>8. st2 \in CutState /\ b.to >= i.from
    BY <1>1, <1>2, <1>10, <2>3 DEF CutState
  <2>9. FreeSoFar(i, busy, k + 1, st2)
    BY <2>3, <2>4, <2>5, <2>6, <2>7, <2>8, <1>1 DEF FreeSoFar
  <2> QED BY <2>1, <2>9
<1>11. CASE ~(b.to <= cu \/ b.from >= i.to) /\ ~(b.from > cu)
  <2> DEFINE st2 == [cursor |-> b.to, free |-> fr]
  <2>1. Cut(i, st, b) = st2
    BY <1>1, <1>2, <1>11 DEF Cut, Greatest, Least
  <2>2. fr = <<>>
    BY <1>1, <1>2, <1>4, <1>11
  <2>3. ASSUME NEW a \in ProperInterval, Within(a, i)
        PROVE  (\A j \in 1 .. k + 1 : ~Overlaps(a, busy[j]))
                   <=> FitsIn(a, fr) \/ a.from >= b.to
    <3>1. ~FitsIn(a, fr)
      BY <1>8, <1>1, <1>2, <1>11
    <3>2. (a.from >= cu /\ ~Overlaps(a, b)) <=> a.from >= b.to
      BY <1>1, <1>2, <1>5, <1>11 DEF Overlaps
    <3> QED BY <3>1, <3>2, <1>6, <1>7, <2>3
  <2>4. \A j \in 1 .. m : i.from <= fr[j].from /\ fr[j].to < b.to /\ fr[j].to <= i.to
    BY <1>1, <1>2, <1>3, <1>11
  <2>5. st2 \in CutState /\ b.to >= i.from
    BY <1>1, <1>2, <1>11 DEF CutState
  <2>6. FreeSoFar(i, busy, k + 1, st2)
    BY <2>3, <2>4, <2>5, <1>1, <1>3 DEF FreeSoFar
  <2> QED BY <2>1, <2>6
<1> QED BY <1>9, <1>10, <1>11

LEMMA CuttingSound ==
    ASSUME NEW i \in ProperInterval, NEW n \in Nat, NEW busy \in [1 .. n -> ProperInterval],
           \A j, k \in 1 .. n : j < k => busy[j].to < busy[k].from
    PROVE  FreeSoFar(i, busy, n, Cutting(i, busy)[n])
<1> DEFINE c == Cutting(i, busy)
           S == {k \in 0 .. n : FreeSoFar(i, busy, k, c[k])}
<1>1. /\ c \in [0 .. n -> CutState]
      /\ c[0] = [cursor |-> i.from, free |-> <<>>]
      /\ \A k \in 1 .. n : c[k] = Cut(i, c[k - 1], busy[k])
  <2>1. i \in AnyInterval /\ busy \in [1 .. n -> AnyInterval]
    BY DEF ProperInterval
  <2> QED BY <2>1, CuttingRounds
<1> HIDE DEF c
<1>2. 0 \in S
  <2>1. c[0] \in CutState /\ c[0].cursor = i.from /\ c[0].free = <<>> /\ Len(c[0].free) = 0
    BY <1>1
  <2>2. i.from \in Int
    BY DEF ProperInterval, AnyInterval
  <2>3. ASSUME NEW a \in ProperInterval, Within(a, i) PROVE a.from >= c[0].cursor
    BY <2>1, <2>2, <2>3 DEF Within, ProperInterval, AnyInterval
  <2>4. FreeSoFar(i, busy, 0, c[0])
    BY <2>1, <2>2, <2>3 DEF FreeSoFar, Proper, Ordered
  <2> QED BY <2>4
<1>3. ASSUME NEW k \in 0 .. n - 1, k \in S PROVE k + 1 \in S
  <2>1. k + 1 \in 1 .. n /\ k + 1 \in 0 .. n /\ (k + 1) - 1 = k
    OBVIOUS
  <2>2. c[k + 1] = Cut(i, c[k], busy[k + 1])
    BY <1>1, <2>1
  <2>3. FreeSoFar(i, busy, k, c[k])
    BY <1>3
  <2>4. FreeSoFar(i, busy, k + 1, c[k + 1])
    BY <2>2, <2>3, CutKeepsSound
  <2> QED BY <2>1, <2>4
<1>4. \A k \in 0 .. n : k \in S
  <2> HIDE DEF S
  <2> QED BY <1>2, <1>3, RoundByRound
<1>5. n \in S
  <2> HIDE DEF S
  <2> QED BY <1>4
<1> QED BY <1>5 DEF c

LEMMA AppendKeeps ==
    ASSUME NEW X, NEW s \in Seq(X), NEW x \in X
    PROVE  /\ Append(s, x) \in Seq(X)
           /\ Len(s) \in Nat /\ Len(Append(s, x)) = Len(s) + 1
           /\ Append(s, x)[Len(s) + 1] = x
           /\ \A k \in 1 .. Len(s) : Append(s, x)[k] = s[k]
  OBVIOUS

\* Before: an interval that ends no later than the other starts.
Before == {p \in AnyInterval \X AnyInterval : p[1].to <= p[2].from}

\* An opening interval minus what is busy: proper intervals of it, one after the
\* other, in which fits exactly what fits in it and touches nothing busy.
LEMMA SubtractMeans ==
    ASSUME NEW i \in ProperInterval,
           NEW busy \in Seq(AnyInterval), Proper(busy), Ordered(Apart, busy)
    PROVE  /\ SubtractFrom(i, busy) \in Seq(AnyInterval)
           /\ Proper(SubtractFrom(i, busy))
           /\ Ordered(Before, SubtractFrom(i, busy))
           /\ \A y : Has(SubtractFrom(i, busy), y) => Within(y, i)
           /\ \A a \in ProperInterval :
                  FitsIn(a, SubtractFrom(i, busy)) <=> Within(a, i) /\ ~Meets(a, busy)
<1> DEFINE n == Len(busy)
           end == Cutting(i, busy)[n]
           cu == end.cursor
           fr == end.free
           m == Len(fr)
           res == SubtractFrom(i, busy)
<1>1. n \in Nat /\ busy \in [1 .. n -> ProperInterval]
      /\ \A j, k \in 1 .. n : j < k => busy[j].to < busy[k].from
  <2>1. n \in Nat /\ busy \in [1 .. n -> AnyInterval]
    OBVIOUS
  <2> QED BY <2>1 DEF Proper, Ordered, Apart, ProperInterval
<1>2. FreeSoFar(i, busy, n, end)
  <2> HIDE DEF n
  <2> QED BY <1>1, CuttingSound
<1>0. res = IF cu < i.to THEN Append(fr, Interval(cu, i.to)) ELSE fr
  BY DEF SubtractFrom
<1> HIDE DEF end, res
<1>3. /\ i.from \in Int /\ i.to \in Int
      /\ cu \in Int /\ cu >= i.from /\ fr \in Seq(AnyInterval) /\ m \in Nat
      /\ Proper(fr) /\ Ordered(Apart, fr)
      /\ \A j \in 1 .. m : i.from <= fr[j].from /\ fr[j].to < cu /\ fr[j].to <= i.to
  <2>1. i.from \in Int /\ i.to \in Int
    BY DEF ProperInterval, AnyInterval
  <2>2. end \in CutState
    BY <1>2 DEF FreeSoFar
  <2>3. cu \in Int /\ fr \in Seq(AnyInterval)
    BY <2>2 DEF CutState
  <2>4. m \in Nat
    BY <2>3
  <2> QED BY <2>1, <2>3, <2>4, <1>2 DEF FreeSoFar
<1>4. \A a \in ProperInterval : Within(a, i) =>
          (~Meets(a, busy) <=> FitsIn(a, fr) \/ a.from >= cu)
  BY <1>2 DEF FreeSoFar, Meets
<1>5. \A a \in ProperInterval : a.from \in Int /\ a.to \in Int /\ a.from < a.to
  BY DEF ProperInterval, AnyInterval
<1>6. \A j \in 1 .. m : fr[j] \in AnyInterval /\ fr[j].from \in Int /\ fr[j].to \in Int
  <2>1. \A j \in 1 .. m : fr[j] \in AnyInterval
    BY <1>3
  <2> QED BY <2>1 DEF AnyInterval
<1>7. ASSUME NEW a \in ProperInterval, FitsIn(a, fr) PROVE Within(a, i)
  BY <1>3, <1>5, <1>6, <1>7 DEF FitsIn, Within
<1>8. Ordered(Before, fr)
  <2> SUFFICES ASSUME NEW j \in 1 .. m, NEW l \in 1 .. m, j < l PROVE <<fr[j], fr[l]>> \in Before
    BY DEF Ordered
  <2>1. <<fr[j], fr[l]>> \in Apart
    BY <1>3 DEF Ordered
  <2>2. fr[j].to < fr[l].from
    BY <2>1 DEF Apart
  <2> QED BY <2>2, <1>6 DEF Before
<1>9. \A y : Has(fr, y) => Within(y, i)
  BY <1>3 DEF Has, Within
<1>10. CASE ~(cu < i.to)
  <2>1. res = fr
    BY <1>0, <1>10
  <2>2. ASSUME NEW a \in ProperInterval, Within(a, i) PROVE ~(a.from >= cu)
    BY <2>2, <1>3, <1>5, <1>10 DEF Within
  <2> QED BY <2>1, <2>2, <1>3, <1>4, <1>7, <1>8, <1>9 DEF res
<1>11. CASE cu < i.to
  <2> DEFINE gap == Interval(cu, i.to)
  <2>1. gap \in AnyInterval /\ gap.from = cu /\ gap.to = i.to
    BY <1>3 DEF Interval, AnyInterval
  <2>2. res = Append(fr, gap)
    BY <1>0, <1>11
  <2> HIDE DEF gap
  <2>3. /\ res \in Seq(AnyInterval) /\ Len(res) = m + 1 /\ res[m + 1] = gap
        /\ \A j \in 1 .. m : res[j] = fr[j]
    BY <1>3, <2>1, <2>2, AppendKeeps
  <2>4. \A j : j \in 1 .. m + 1 <=> j \in 1 .. m \/ j = m + 1
    <3>1. m \in Nat
      BY <1>3
    <3> HIDE DEF m
    <3> QED BY <3>1
  <2>5. Proper(res)
    BY <2>1, <2>3, <2>4, <1>3, <1>11 DEF Proper
  <2>6. Ordered(Before, res)
    <3> SUFFICES ASSUME NEW j \in 1 .. m + 1, NEW l \in 1 .. m + 1, j < l
                 PROVE  <<res[j], res[l]>> \in Before
      BY <2>3 DEF Ordered
    <3>1. j \in 1 .. m /\ (l \in 1 .. m \/ l = m + 1)
      <4>1. m \in Nat
        BY <1>3
      <4> HIDE DEF m
      <4> QED BY <4>1
    <3>2. CASE l \in 1 .. m
      BY <3>1, <3>2, <2>3, <1>8 DEF Ordered
    <3>3. CASE l = m + 1
      <4>1. res[j] = fr[j] /\ res[l] = gap
        BY <3>1, <3>3, <2>3
      <4>2. fr[j].to < cu /\ fr[j].to \in Int /\ fr[j] \in AnyInterval /\ cu \in Int
        BY <3>1, <1>3, <1>6
      <4> QED BY <4>1, <4>2, <2>1 DEF Before
    <3> QED BY <3>1, <3>2, <3>3
  <2>7. ASSUME NEW y, Has(res, y) PROVE Within(y, i)
    <3>1. PICK j \in 1 .. m + 1 : res[j] = y
      BY <2>3, <2>7 DEF Has
    <3>2. CASE j = m + 1
      BY <3>1, <3>2, <2>1, <2>3, <1>3 DEF Within
    <3>3. CASE j \in 1 .. m
      BY <3>1, <3>3, <2>3, <1>3 DEF Within
    <3> QED BY <2>4, <3>2, <3>3
  <2>8. ASSUME NEW a \in ProperInterval
        PROVE  FitsIn(a, res) <=> Within(a, i) /\ ~Meets(a, busy)
    <3>1. FitsIn(a, res) <=> FitsIn(a, fr) \/ Within(a, gap)
      BY <2>3, <2>4 DEF FitsIn
    <3>2. Within(a, gap) <=> Within(a, i) /\ a.from >= cu
      BY <2>1, <1>3, <1>5 DEF Within
    <3> QED BY <3>1, <3>2, <1>4, <1>7
  <2> QED BY <2>3, <2>5, <2>6, <2>7, <2>8 DEF res
<1> QED BY <1>10, <1>11

LEMMA SubtractBusyMeans ==
    ASSUME NEW open \in Seq(AnyInterval), Proper(open), Ordered(Before, open),
           NEW busy \in Seq(AnyInterval), Proper(busy), Ordered(Apart, busy)
    PROVE  /\ SubtractBusyIntervals(open, busy) \in Seq(AnyInterval)
           /\ Proper(SubtractBusyIntervals(open, busy))
           /\ Ordered(Before, SubtractBusyIntervals(open, busy))
           /\ \A a \in ProperInterval :
                  FitsIn(a, SubtractBusyIntervals(open, busy))
                      <=> FitsIn(a, open) /\ ~Meets(a, busy)
<1> DEFINE n == Len(open)
           parts == [k \in 1 .. n |-> SubtractFrom(open[k], busy)]
           res == SubtractBusyIntervals(open, busy)
<1>1. n \in Nat /\ DOMAIN open = 1 .. n /\ \A k \in 1 .. n : open[k] \in ProperInterval
  BY DEF Proper, ProperInterval
<1>2. res = FlattenSeq(parts)
  BY <1>1 DEF SubtractBusyIntervals
<1>3. ASSUME NEW k \in 1 .. n
      PROVE  /\ parts[k] \in Seq(AnyInterval)
             /\ Proper(parts[k])
             /\ Ordered(Before, parts[k])
             /\ \A y : Has(parts[k], y) => Within(y, open[k])
             /\ \A a \in ProperInterval :
                    FitsIn(a, parts[k]) <=> Within(a, open[k]) /\ ~Meets(a, busy)
  <2>1. open[k] \in ProperInterval /\ parts[k] = SubtractFrom(open[k], busy)
    BY <1>1
  <2> HIDE DEF parts
  <2> QED BY <2>1, SubtractMeans
<1>4. parts \in [1 .. n -> Seq(AnyInterval)]
  BY <1>3
<1> HIDE DEF parts, res
<1>5. res \in Seq(AnyInterval) /\ \A y : Has(res, y) <=> \E k \in 1 .. n : Has(parts[k], y)
  BY <1>1, <1>2, <1>4, FlattenKeeps
<1>6. Proper(res)
  <2> SUFFICES ASSUME NEW j \in 1 .. Len(res) PROVE res[j].from < res[j].to
    BY DEF Proper
  <2>1. PICK k \in 1 .. n : Has(parts[k], res[j])
    BY <1>5 DEF Has
  <2> QED BY <2>1, <1>3 DEF Has, Proper
<1>7. PartsInOrder(Before, n, parts)
  <2>1. ASSUME NEW j \in 1 .. n, NEW k \in 1 .. n, j < k, NEW x, NEW y,
               Has(parts[j], x), Has(parts[k], y)
        PROVE  <<x, y>> \in Before
    <3>1. Within(x, open[j]) /\ Within(y, open[k])
      BY <1>3, <2>1
    <3>2. x \in AnyInterval /\ y \in AnyInterval
      BY <1>3, <2>1 DEF Has
    <3>3. open[j].to <= open[k].from /\ open[j] \in AnyInterval /\ open[k] \in AnyInterval
      BY <2>1 DEF Ordered, Before
    <3>4. /\ x.to \in Int /\ y.from \in Int
          /\ open[j].to \in Int /\ open[k].from \in Int
      BY <3>2, <3>3 DEF AnyInterval
    <3>5. x.to <= y.from
      BY <3>1, <3>3, <3>4 DEF Within
    <3> QED BY <3>2, <3>5 DEF Before
  <2> QED BY <2>1, <1>3 DEF PartsInOrder
<1>8. Ordered(Before, res)
  BY <1>1, <1>2, <1>4, <1>7, FlattenOrdered
<1>9. ASSUME NEW a \in ProperInterval
      PROVE  FitsIn(a, res) <=> FitsIn(a, open) /\ ~Meets(a, busy)
  <2>1. FitsIn(a, res) <=> \E y : Has(res, y) /\ Within(a, y)
    BY DEF FitsIn, Has
  <2>2. \A k \in 1 .. n : FitsIn(a, parts[k]) <=> \E y : Has(parts[k], y) /\ Within(a, y)
    BY DEF FitsIn, Has
  <2>3. FitsIn(a, res) <=> \E k \in 1 .. n : FitsIn(a, parts[k])
    BY <2>1, <2>2, <1>5
  <2>4. \A k \in 1 .. n : FitsIn(a, parts[k]) <=> Within(a, open[k]) /\ ~Meets(a, busy)
    BY <1>3
  <2> QED BY <2>3, <2>4 DEF FitsIn
<1> QED BY <1>5, <1>6, <1>8, <1>9 DEF res

-----------------------------------------------------------------------------
(* _trim_intervals_before.                                                   *)

LEMMA OpenFromMeans ==
    ASSUME NEW open \in Seq(AnyInterval), Proper(open), Ordered(Before, open),
           NEW threshold \in Int
    PROVE  /\ OpenFrom(open, threshold) \in Seq(AnyInterval)
           /\ Proper(OpenFrom(open, threshold))
           /\ Ordered(Before, OpenFrom(open, threshold))
           /\ \A a \in ProperInterval :
                  FitsIn(a, OpenFrom(open, threshold))
                      <=> \E k \in 1 .. Len(open) :
                              TrimFrom(threshold, open[k]) <= a.from /\ a.to <= open[k].to
<1>0. \A a \in AnyInterval : a.from \in Int /\ a.to \in Int
  BY DEF AnyInterval
<1>1. CASE ~(threshold < DayLen)
  <2>1. OpenFrom(open, threshold) = open
    BY <1>1 DEF OpenFrom
  <2>2. \A a \in ProperInterval :
            FitsIn(a, open) <=> \E k \in 1 .. Len(open) :
                              TrimFrom(threshold, open[k]) <= a.from /\ a.to <= open[k].to
    BY <1>1 DEF FitsIn, TrimFrom, Within
  <2> QED BY <2>1, <2>2
<1>2. CASE threshold < DayLen
  <2> DEFINE kept == Kept(open, {i \in AnyInterval : i.to > threshold})
             n == Len(kept)
             Clip(i) == Interval(Greatest(i.from, threshold), i.to)
             res == [k \in DOMAIN kept |-> Clip(kept[k])]
  <2>1. OpenFrom(open, threshold) = res
    BY <1>2 DEF OpenFrom, TrimIntervalsBefore
  <2>2. /\ kept \in Seq(AnyInterval)
        /\ \A y : Has(kept, y) <=> Has(open, y) /\ y \in {i \in AnyInterval : i.to > threshold}
        /\ Ordered(Before, kept)
    BY KeptKeeps, KeptOrdered
  <2> HIDE DEF kept
  <2>3. \A k \in 1 .. n : /\ kept[k] \in AnyInterval /\ kept[k].to > threshold
                           /\ kept[k].from < kept[k].to
    <3> SUFFICES ASSUME NEW k \in 1 .. n
                 PROVE  /\ kept[k] \in AnyInterval /\ kept[k].to > threshold
                        /\ kept[k].from < kept[k].to
      OBVIOUS
    <3>1. Has(kept, kept[k])
      BY DEF Has
    <3> QED BY <3>1, <2>2 DEF Has, Proper
  <2>4. \A i \in AnyInterval : /\ Clip(i) \in AnyInterval /\ Clip(i).to = i.to
                                /\ Clip(i).from = (IF i.from < threshold THEN threshold ELSE i.from)
    BY <1>0 DEF Interval, Greatest, AnyInterval
  <2>5. /\ n \in Nat /\ res \in Seq(AnyInterval) /\ Len(res) = n
        /\ \A k \in 1 .. n : res[k] = Clip(kept[k])
    <3>1. n \in Nat /\ DOMAIN kept = 1 .. n
      BY <2>2
    <3> HIDE DEF Clip
    <3>2. res \in [1 .. n -> AnyInterval]
      BY <3>1, <2>3, <2>4
    <3> QED BY <3>1, <3>2
  <2> HIDE DEF res, Clip
  <2>6. Proper(res)
    BY <1>0, <2>3, <2>4, <2>5 DEF Proper
  <2>7. Ordered(Before, res)
    <3> SUFFICES ASSUME NEW j \in 1 .. n, NEW k \in 1 .. n, j < k
                 PROVE  <<res[j], res[k]>> \in Before
      BY <2>5 DEF Ordered
    <3>1. <<kept[j], kept[k]>> \in Before
      BY <2>2 DEF Ordered
    <3>2. kept[j].to <= kept[k].from /\ kept[j] \in AnyInterval /\ kept[k] \in AnyInterval
      BY <3>1 DEF Before
    <3>3. res[j].to <= res[k].from /\ res[j] \in AnyInterval /\ res[k] \in AnyInterval
      BY <3>2, <1>0, <2>3, <2>4, <2>5
    <3> QED BY <3>3 DEF Before
  <2>8. ASSUME NEW a \in ProperInterval
        PROVE  FitsIn(a, res) <=> \E k \in 1 .. Len(open) :
                              TrimFrom(threshold, open[k]) <= a.from /\ a.to <= open[k].to
    <3>0. a.from \in Int /\ a.to \in Int /\ a.from < a.to
      BY DEF ProperInterval, AnyInterval
    <3>1. \A i \in AnyInterval : TrimFrom(threshold, i) = Clip(i).from
      BY <1>2, <2>4 DEF TrimFrom
    <3>2. FitsIn(a, res) <=> \E k \in 1 .. n : Within(a, Clip(kept[k]))
      BY <2>5 DEF FitsIn
    <3>3. (\E k \in 1 .. n : Within(a, Clip(kept[k])))
              <=> \E y : Has(kept, y) /\ Within(a, Clip(y))
      BY DEF Has
    <3>4. (\E y : Has(kept, y) /\ Within(a, Clip(y)))
              <=> \E y : Has(open, y) /\ Within(a, Clip(y))
      <4> SUFFICES ASSUME NEW y, Has(open, y), Within(a, Clip(y))
                   PROVE  y \in AnyInterval /\ y.to > threshold
        BY <2>2
      <4>1. y \in AnyInterval
        BY DEF Has
      <4> QED BY <4>1, <3>0, <1>0, <2>4 DEF Within
    <3>5. (\E y : Has(open, y) /\ Within(a, Clip(y)))
              <=> \E k \in 1 .. Len(open) : Within(a, Clip(open[k]))
      BY DEF Has
    <3>6. \A k \in 1 .. Len(open) :
              Within(a, Clip(open[k]))
                  <=> TrimFrom(threshold, open[k]) <= a.from /\ a.to <= open[k].to
      BY <3>1, <2>4 DEF Within
    <3> QED BY <3>2, <3>3, <3>4, <3>5, <3>6
  <2> QED BY <2>1, <2>5, <2>6, <2>7, <2>8 DEF res, Clip
<1> QED BY <1>1, <1>2

-----------------------------------------------------------------------------
(* The grid.                                                                 *)

LEMMA DivisionByStep ==
    ASSUME NEW x \in Int
    PROVE  /\ x \div Step \in Int /\ x % Step \in Int
           /\ x = Step * (x \div Step) + (x % Step)
           /\ 0 <= x % Step /\ x % Step < Step
  BY DayAssumption

LEMMA Remainder ==
    ASSUME NEW q \in Int, NEW r \in Int, 0 <= r, r < Step
    PROVE  (Step * q + r) % Step = r /\ (Step * q + r) \div Step = q
  BY DayAssumption

LEMMA StepTimes ==
    ASSUME NEW p \in Int, NEW q \in Int
    PROVE  /\ Step * p \in Int /\ p * Step = Step * p
           /\ Step * (p + q) = Step * p + Step * q
           /\ Step * (p - q) = Step * p - Step * q
           /\ Step * (p + 1) = Step * p + Step
           /\ p <= q => Step * p <= Step * q
           /\ Step * p < Step * q + Step => p <= q
  BY DayAssumption

\* A moment is on the grid exactly when it is a number of steps.
LEMMA GridIsSteps ==
    ASSUME NEW s \in Int
    PROVE  OnGrid(s) <=> \E q \in Int : s = Step * q
<1>1. ASSUME OnGrid(s) PROVE \E q \in Int : s = Step * q
  <2>1. s = Step * (s \div Step) /\ s \div Step \in Int
    <3>1. s \div Step \in Int /\ s = Step * (s \div Step) + (s % Step) /\ s % Step = 0
      BY <1>1, DivisionByStep DEF OnGrid
    <3>2. Step * (s \div Step) \in Int
      BY <3>1, StepTimes
    <3> QED BY <3>1, <3>2
  <2> QED BY <2>1
<1>2. ASSUME NEW q \in Int, s = Step * q PROVE OnGrid(s)
  <2>1. 0 < Step /\ Step \in Int
    BY DayAssumption
  <2>2. (Step * q + 0) % Step = 0
    BY <2>1, Remainder
  <2>3. Step * q + 0 = s
    BY <1>2
  <2> QED BY <2>2, <2>3 DEF OnGrid
<1> QED BY <1>1, <1>2

\* CeilToSlot(m) is the first grid moment not before m.
LEMMA CeilIsFirst ==
    ASSUME NEW m \in Int
    PROVE  /\ CeilToSlot(m) \in Int
           /\ OnGrid(CeilToSlot(m))
           /\ m <= CeilToSlot(m)
           /\ \A s \in Int : OnGrid(s) /\ m <= s => CeilToSlot(m) <= s
<1>1. PICK q \in Int, r \in Int : m = Step * q + r /\ 0 <= r /\ r < Step /\ m % Step = r
  BY DivisionByStep
<1>2. Step \in Int /\ Step * q \in Int /\ Step * (q + 1) \in Int /\ Step * (q + 1) = Step * q + Step
  BY StepTimes, DayAssumption
<1>3. CASE r = 0
  <2>1. CeilToSlot(m) = m /\ OnGrid(m)
    BY <1>1, <1>3 DEF CeilToSlot, OnGrid
  <2> QED BY <2>1
<1>4. CASE r # 0
  <2>1. CeilToSlot(m) = Step * (q + 1)
    <3>1. CeilToSlot(m) = m + Step - r
      BY <1>1, <1>4 DEF CeilToSlot, OnGrid
    <3> QED BY <3>1, <1>1, <1>2
  <2>2. OnGrid(Step * (q + 1))
    BY <1>2, GridIsSteps
  <2>3. m <= Step * (q + 1)
    BY <1>1, <1>2
  <2>4. ASSUME NEW s \in Int, OnGrid(s), m <= s PROVE Step * (q + 1) <= s
    <3>1. PICK p \in Int : s = Step * p
      BY <2>4, GridIsSteps
    <3>2. Step * q < Step * p
      <4>1. 0 < r
        BY <1>1, <1>4
      <4>2. Step * p \in Int
        BY StepTimes
      <4> QED BY <1>1, <1>2, <2>4, <3>1, <4>1, <4>2
    <3>3. ~(p <= q)
      <4>1. p <= q => Step * p <= Step * q
        BY StepTimes
      <4>2. Step * p \in Int
        BY StepTimes
      <4> QED BY <3>2, <4>1, <4>2, <1>2
    <3>4. q + 1 <= p /\ q + 1 \in Int
      BY <3>3
    <3> QED BY <3>1, <3>4, StepTimes
  <2> QED BY <1>2, <2>1, <2>2, <2>3, <2>4
<1> QED BY <1>3, <1>4

-----------------------------------------------------------------------------
(* _slots_from_free_intervals.                                               *)

PlainSlot == [from : Int, to : Int, score : Int]
Earlier == {p \in PlainSlot \X PlainSlot : p[1].from < p[2].from}
StartsAt(slots, s) == \E y : Has(slots, y) /\ y.from = s

LEMMA ScoreType ==
    ASSUME NEW slot \in AnyInterval, NEW gap \in AnyInterval, NEW n \in Int
    PROVE  Score(slot, gap, n) \in Int
  BY DEF Score, Least, AnyInterval

\* The slots of a free gap start at every grid moment from which the duration fits.
LEMMA GapSlots ==
    ASSUME NEW gap \in ProperInterval, NEW n \in Nat \ {0}
    PROVE  /\ SlotsOfGap(gap, n) \in Seq(PlainSlot)
           /\ Ordered(Earlier, SlotsOfGap(gap, n))
           /\ \A y : Has(SlotsOfGap(gap, n), y) =>
                  gap.from <= y.from /\ y.to = y.from + n /\ y.to <= gap.to
           /\ \A s \in Int :
                  StartsAt(SlotsOfGap(gap, n), s)
                      <=> OnGrid(s) /\ gap.from <= s /\ s + n <= gap.to
<1> DEFINE first == CeilToSlot(gap.from)
           room == gap.to - n - first
           count == IF first + n > gap.to THEN 0 ELSE 1 + room \div Step
           At(k) == first + (k - 1) * Step
           slots == SlotsOfGap(gap, n)
<1>1. gap.from \in Int /\ gap.to \in Int /\ gap \in AnyInterval /\ n \in Int /\ n >= 1
  BY DEF ProperInterval, AnyInterval
<1>2. /\ first \in Int /\ OnGrid(first) /\ gap.from <= first
      /\ \A s \in Int : OnGrid(s) /\ gap.from <= s => first <= s
  BY <1>1, CeilIsFirst
<1> HIDE DEF first
<1>3. room \in Int
  BY <1>1, <1>2
<1>4. count \in Nat
  <2>1. CASE first + n > gap.to
    BY <2>1
  <2>2. CASE ~(first + n > gap.to)
    <3>1. room >= 0
      BY <2>2, <1>1, <1>2
    <3> HIDE DEF room
    <3>2. /\ room \div Step \in Int /\ room = Step * (room \div Step) + (room % Step)
          /\ room % Step \in Int /\ room % Step < Step
      BY <1>3, DivisionByStep
    <3>3. Step \in Int /\ Step * (room \div Step) \in Int
      BY <3>2, StepTimes, DayAssumption
    <3>4. Step * 0 < Step * (room \div Step) + Step
      BY <3>1, <3>2, <3>3
    <3>5. 0 <= room \div Step
      BY <3>2, <3>4, StepTimes
    <3> QED BY <2>2, <3>2, <3>5
  <2> QED BY <2>1, <2>2
\* The k-th start is inside exactly when k is not beyond the count.
<1>5. ASSUME NEW k \in Nat, k >= 1
      PROVE  At(k) \in Int /\ OnGrid(At(k)) /\ first <= At(k) /\ (k <= count <=> At(k) + n <= gap.to)
  <2>1. PICK q \in Int : first = Step * q
    BY <1>2, GridIsSteps
  <2>2. /\ k - 1 \in Int /\ (k - 1) * Step = Step * (k - 1) /\ Step * (k - 1) \in Int
        /\ Step * (q + (k - 1)) = Step * q + Step * (k - 1)
    BY StepTimes
  <2>3. At(k) = Step * (q + (k - 1)) /\ At(k) \in Int /\ q + (k - 1) \in Int
    BY <1>2, <2>1, <2>2
  <2>4. OnGrid(At(k))
    BY <2>3, GridIsSteps
  <2>5. Step * 0 <= Step * (k - 1)
    BY <1>5, <2>2, StepTimes
  <2>6. first <= At(k)
    BY <1>2, <2>2, <2>5, DayAssumption
  <2>7. CASE first + n > gap.to
    BY <1>1, <1>2, <1>5, <2>3, <2>6, <2>7, <2>4
  <2>8. CASE ~(first + n > gap.to)
    <3> HIDE DEF room
    <3>1. /\ room \div Step \in Int /\ room = Step * (room \div Step) + (room % Step)
          /\ room % Step \in Int /\ 0 <= room % Step /\ room % Step < Step
      BY <1>3, DivisionByStep
    <3>2. Step \in Int /\ Step * (room \div Step) \in Int
      BY <3>1, StepTimes, DayAssumption
    <3>3. At(k) + n <= gap.to <=> Step * (k - 1) <= room
      BY <1>1, <1>2, <2>2 DEF room
    <3>4. ASSUME Step * (k - 1) <= room PROVE k - 1 <= room \div Step
      <4>1. Step * (k - 1) < Step * (room \div Step) + Step
        BY <3>1, <3>2, <3>4, <2>2
      <4> QED BY <4>1, <3>1, <2>2, StepTimes
    <3>5. ASSUME k - 1 <= room \div Step PROVE Step * (k - 1) <= room
      <4>1. Step * (k - 1) <= Step * (room \div Step)
        BY <3>5, <3>1, <2>2, StepTimes
      <4> QED BY <4>1, <3>1, <3>2, <2>2
    <3>6. k <= count <=> k - 1 <= room \div Step
      BY <2>8, <3>1
    <3> QED BY <2>3, <2>4, <2>6, <3>3, <3>4, <3>5, <3>6
  <2> QED BY <2>7, <2>8
<1>6. slots = [k \in 1 .. count |-> [from |-> At(k), to |-> At(k) + n,
                                      score |-> Score(Interval(At(k), At(k) + n), gap, n)]]
  BY DEF SlotsOfGap, Interval, first
<1> HIDE DEF count, room, At, slots
<1>7. /\ slots \in Seq(PlainSlot) /\ Len(slots) = count
      /\ \A k \in 1 .. count : slots[k].from = At(k) /\ slots[k].to = At(k) + n
  <2>1. ASSUME NEW k \in 1 .. count
        PROVE  [from |-> At(k), to |-> At(k) + n,
                score |-> Score(Interval(At(k), At(k) + n), gap, n)] \in PlainSlot
    <3>1. At(k) \in Int /\ At(k) + n \in Int
      BY <1>1, <1>4, <1>5
    <3>2. Interval(At(k), At(k) + n) \in AnyInterval
      BY <3>1 DEF Interval, AnyInterval
    <3>3. Score(Interval(At(k), At(k) + n), gap, n) \in Int
      BY <3>2, <1>1, ScoreType
    <3> QED BY <3>1, <3>3 DEF PlainSlot
  <2>2. slots \in [1 .. count -> PlainSlot]
    BY <2>1, <1>6
  <2> QED BY <2>2, <1>4, <1>6
<1>8. \A k \in 1 .. count : /\ At(k) \in Int /\ OnGrid(At(k)) /\ first <= At(k)
                             /\ At(k) + n <= gap.to
  BY <1>4, <1>5
<1>9. Ordered(Earlier, slots)
  <2> SUFFICES ASSUME NEW j \in 1 .. count, NEW k \in 1 .. count, j < k
               PROVE  <<slots[j], slots[k]>> \in Earlier
    BY <1>7 DEF Ordered
  <2>1. j \in Nat /\ k \in Nat /\ ~(k - 1 <= j - 1) /\ k - 1 \in Int /\ j - 1 \in Int
    BY <1>4
  <2>2. /\ (j - 1) * Step = Step * (j - 1) /\ (k - 1) * Step = Step * (k - 1)
        /\ Step * (j - 1) \in Int /\ Step * (k - 1) \in Int /\ Step \in Int /\ Step > 0
    BY <2>1, StepTimes, DayAssumption
  <2>3. ~(Step * (k - 1) < Step * (j - 1) + Step)
    BY <2>1, StepTimes
  <2>4. At(j) < At(k)
    BY <1>2, <2>2, <2>3 DEF At
  <2> QED BY <1>4, <1>7, <2>4 DEF Earlier
<1>10. ASSUME NEW y, Has(slots, y)
       PROVE  gap.from <= y.from /\ y.to = y.from + n /\ y.to <= gap.to
  <2>1. PICK k \in 1 .. count : slots[k] = y
    BY <1>7, <1>10 DEF Has
  <2> QED BY <2>1, <1>1, <1>2, <1>7, <1>8
<1>11. ASSUME NEW s \in Int
       PROVE  StartsAt(slots, s) <=> OnGrid(s) /\ gap.from <= s /\ s + n <= gap.to
  <2>1. ASSUME StartsAt(slots, s) PROVE OnGrid(s) /\ gap.from <= s /\ s + n <= gap.to
    <3>1. PICK k \in 1 .. count : slots[k].from = s
      BY <2>1, <1>7 DEF StartsAt, Has
    <3> QED BY <3>1, <1>1, <1>2, <1>7, <1>8
  <2>2. ASSUME OnGrid(s), gap.from <= s, s + n <= gap.to PROVE StartsAt(slots, s)
    <3>1. first <= s
      BY <2>2, <1>2
    <3>2. PICK q \in Int, p \in Int : first = Step * q /\ s = Step * p
      BY <2>2, <1>2, GridIsSteps
    <3>3. Step * q < Step * p + Step /\ Step * q \in Int /\ Step * p \in Int
      BY <3>1, <3>2, <1>2, DayAssumption
    <3>4. q <= p
      BY <3>3, StepTimes
    <3> DEFINE k == p - q + 1
    <3>5. k \in Nat /\ k >= 1 /\ k - 1 = p - q
      BY <3>4
    <3>6. At(k) = s
      <4>1. (p - q) * Step = Step * (p - q) /\ Step * (p - q) = Step * p - Step * q
        BY StepTimes
      <4>2. At(k) = first + (p - q) * Step
        BY <3>5 DEF At
      <4> QED BY <4>1, <4>2, <3>2, <3>3
    <3> HIDE DEF k
    <3>7. k \in 1 .. count
      BY <3>5, <3>6, <1>4, <1>5, <2>2
    <3>8. slots[k].from = s
      BY <3>6, <3>7, <1>7
    <3> QED BY <3>7, <3>8, <1>7 DEF StartsAt, Has
  <2> QED BY <2>1, <2>2
<1> QED BY <1>7, <1>9, <1>10, <1>11 DEF slots

-----------------------------------------------------------------------------
(* The slots of a line.                                                      *)

LEMMA SlotsOfGaps ==
    ASSUME NEW free \in Seq(AnyInterval), Proper(free), Ordered(Before, free),
           NEW n \in Nat \ {0}
    PROVE  LET slots == FlattenSeq([k \in DOMAIN free |-> SlotsOfGap(free[k], n)])
           IN  /\ slots \in Seq(PlainSlot)
               /\ Ordered(Earlier, slots)
               /\ \A s \in Int :
                      StartsAt(slots, s) <=> OnGrid(s) /\ FitsIn(Interval(s, s + n), free)
<1> DEFINE m == Len(free)
           parts == [k \in 1 .. m |-> SlotsOfGap(free[k], n)]
           slots == FlattenSeq([k \in DOMAIN free |-> SlotsOfGap(free[k], n)])
<1>1. m \in Nat /\ DOMAIN free = 1 .. m /\ \A k \in 1 .. m : free[k] \in ProperInterval
  BY DEF Proper, ProperInterval
<1>2. slots = FlattenSeq(parts)
  BY <1>1
<1>3. ASSUME NEW k \in 1 .. m
      PROVE  /\ parts[k] \in Seq(PlainSlot)
             /\ Ordered(Earlier, parts[k])
             /\ \A y : Has(parts[k], y) =>
                    free[k].from <= y.from /\ y.to = y.from + n /\ y.to <= free[k].to
             /\ \A s \in Int :
                    StartsAt(parts[k], s)
                        <=> OnGrid(s) /\ free[k].from <= s /\ s + n <= free[k].to
  <2>1. free[k] \in ProperInterval /\ parts[k] = SlotsOfGap(free[k], n)
    BY <1>1
  <2> HIDE DEF parts
  <2> QED BY <2>1, GapSlots
<1>4. parts \in [1 .. m -> Seq(PlainSlot)]
  BY <1>3
<1> HIDE DEF parts, slots
<1>5. slots \in Seq(PlainSlot) /\ \A y : Has(slots, y) <=> \E k \in 1 .. m : Has(parts[k], y)
  BY <1>1, <1>2, <1>4, FlattenKeeps
<1>6. PartsInOrder(Earlier, m, parts)
  <2>1. ASSUME NEW j \in 1 .. m, NEW k \in 1 .. m, j < k, NEW x, NEW y,
               Has(parts[j], x), Has(parts[k], y)
        PROVE  <<x, y>> \in Earlier
    <3>1. x \in PlainSlot /\ y \in PlainSlot
      BY <1>3, <2>1 DEF Has
    <3>2. x.to = x.from + n /\ x.to <= free[j].to /\ free[k].from <= y.from
      BY <1>3, <2>1
    <3>3. free[j].to <= free[k].from
      BY <2>1 DEF Ordered, Before
    <3>4. /\ x.from \in Int /\ x.to \in Int /\ y.from \in Int
          /\ free[j].to \in Int /\ free[k].from \in Int
      BY <3>1, <1>1 DEF PlainSlot, ProperInterval, AnyInterval
    <3>5. x.from < y.from
      BY <3>2, <3>3, <3>4
    <3> QED BY <3>1, <3>5 DEF Earlier
  <2> QED BY <2>1, <1>3 DEF PartsInOrder
<1>7. Ordered(Earlier, slots)
  BY <1>1, <1>2, <1>4, <1>6, FlattenOrdered
<1>8. ASSUME NEW s \in Int
      PROVE  StartsAt(slots, s) <=> OnGrid(s) /\ FitsIn(Interval(s, s + n), free)
  <2>1. StartsAt(slots, s) <=> \E k \in 1 .. m : StartsAt(parts[k], s)
    BY <1>5 DEF StartsAt
  <2>2. FitsIn(Interval(s, s + n), free)
            <=> \E k \in 1 .. m : free[k].from <= s /\ s + n <= free[k].to
    BY DEF FitsIn, Within, Interval
  <2> QED BY <1>3, <2>1, <2>2
<1> QED BY <1>5, <1>7, <1>8 DEF slots

\* The slots of a line on a day are the starts the rules of the agenda offer.
LEMMA LineSlotsAreOffered ==
    ASSUME NEW open \in Seq(AnyInterval), Proper(open), Ordered(Before, open),
           NEW busy \in Seq(AnyInterval), Proper(busy),
           NEW threshold \in Int, NEW n \in Nat \ {0}
    PROVE  /\ LineSlots(open, busy, threshold, n) \in Seq(PlainSlot)
           /\ Ordered(Earlier, LineSlots(open, busy, threshold, n))
           /\ \A s \in Int :
                  StartsAt(LineSlots(open, busy, threshold, n), s)
                      <=> Offered(ToSet(open), ToSet(busy), threshold, s, n)
<1> DEFINE opened == OpenFrom(open, threshold)
           merged == MergeIntervals(busy)
           free == SubtractBusyIntervals(opened, merged)
           slots == FlattenSeq([k \in DOMAIN free |-> SlotsOfGap(free[k], n)])
<1>1. /\ opened \in Seq(AnyInterval) /\ Proper(opened) /\ Ordered(Before, opened)
      /\ \A a \in ProperInterval :
             FitsIn(a, opened) <=> \E k \in 1 .. Len(open) :
                  TrimFrom(threshold, open[k]) <= a.from /\ a.to <= open[k].to
  BY OpenFromMeans
<1>2. /\ merged \in Seq(AnyInterval) /\ Proper(merged) /\ Ordered(Apart, merged)
      /\ \A a \in ProperInterval :
             Meets(a, merged) <=> \E k \in 1 .. Len(busy) : Overlaps(a, busy[k])
  <2>1. \A k \in 1 .. Len(busy) : busy[k] \in ProperInterval
    BY DEF Proper, ProperInterval
  <2>2. /\ merged \in Seq(AnyInterval) /\ Proper(merged) /\ Ordered(Apart, merged)
        /\ \A a \in ProperInterval :
               Meets(a, merged) <=> \E k \in 1 .. Len(busy) :
                    busy[k] \in ProperInterval /\ Overlaps(a, busy[k])
    BY MergeMeans
  <2> HIDE DEF merged
  <2> QED BY <2>1, <2>2
<1> HIDE DEF opened, merged
<1>3. /\ free \in Seq(AnyInterval) /\ Proper(free) /\ Ordered(Before, free)
      /\ \A a \in ProperInterval : FitsIn(a, free) <=> FitsIn(a, opened) /\ ~Meets(a, merged)
  BY <1>1, <1>2, SubtractBusyMeans
<1> HIDE DEF free
<1>4. /\ slots \in Seq(PlainSlot) /\ Ordered(Earlier, slots)
      /\ \A s \in Int : StartsAt(slots, s) <=> OnGrid(s) /\ FitsIn(Interval(s, s + n), free)
  BY <1>3, SlotsOfGaps
<1>5. LineSlots(open, busy, threshold, n) = slots
  BY DEF LineSlots, free, opened, merged
<1> HIDE DEF slots
<1>6. ASSUME NEW s \in Int
      PROVE  StartsAt(slots, s) <=> Offered(ToSet(open), ToSet(busy), threshold, s, n)
  <2> DEFINE a == Interval(s, s + n)
  <2>1. a \in ProperInterval /\ a.from = s /\ a.to = s + n
    BY DEF ProperInterval, AnyInterval, Interval
  <2>2. FitsIn(a, opened) <=> \E i \in ToSet(open) :
                                TrimFrom(threshold, i) <= s /\ s + n <= i.to
    <3>1. FitsIn(a, opened) <=> \E k \in 1 .. Len(open) :
                                 TrimFrom(threshold, open[k]) <= s /\ s + n <= open[k].to
      BY <1>1, <2>1
    <3>2. DOMAIN open = 1 .. Len(open)
      OBVIOUS
    <3> QED BY <3>1, <3>2 DEF ToSet
  <2>3. Meets(a, merged) <=> \E b \in ToSet(busy) : Overlaps(a, b)
    <3>1. DOMAIN busy = 1 .. Len(busy)
      OBVIOUS
    <3>2. Meets(a, merged) <=> \E k \in 1 .. Len(busy) : Overlaps(a, busy[k])
      BY <1>2, <2>1
    <3> HIDE DEF a
    <3> QED BY <3>1, <3>2 DEF ToSet
  <2>4. StartsAt(slots, s) <=> OnGrid(s) /\ FitsIn(a, opened) /\ ~Meets(a, merged)
    <3>1. StartsAt(slots, s) <=> OnGrid(s) /\ FitsIn(a, free)
      BY <1>4
    <3> HIDE DEF a
    <3> QED BY <3>1, <2>1, <1>3
  <2> QED BY <2>2, <2>3, <2>4 DEF Offered
<1> QED BY <1>4, <1>5, <1>6

-----------------------------------------------------------------------------
(* _appointment_is_covered_by_rules.                                         *)

ReachState == [cursor : Int, covered : BOOLEAN, done : BOOLEAN]

LEMMA ReachType ==
    ASSUME NEW a \in AnyInterval, NEW st \in ReachState, NEW r \in AnyInterval
    PROVE  Reach(a, st, r) \in ReachState
<1>1. r.to \in Int /\ st.cursor \in Int
  BY DEF ReachState, AnyInterval
<1>2. CASE st.done \/ r.to <= st.cursor
  BY <1>2 DEF Reach
<1>3. CASE ~(st.done \/ r.to <= st.cursor) /\ r.from > st.cursor
  BY <1>3 DEF Reach, ReachState
<1>4. CASE ~(st.done \/ r.to <= st.cursor) /\ ~(r.from > st.cursor)
  BY <1>1, <1>4 DEF Reach, ReachState
<1> QED BY <1>2, <1>3, <1>4

LEMMA ReachingRounds ==
    ASSUME NEW a \in AnyInterval, NEW n \in Nat, NEW s \in [1 .. n -> AnyInterval]
    PROVE  /\ Reaching(a, s) \in [0 .. n -> ReachState]
           /\ Reaching(a, s)[0] = [cursor |-> a.from, covered |-> FALSE, done |-> FALSE]
           /\ \A k \in 1 .. n : Reaching(a, s)[k] = Reach(a, Reaching(a, s)[k - 1], s[k])
<1> DEFINE T == ReachState
           step == [k \in 1 .. n |-> [t \in T |-> Reach(a, t, s[k])]]
           c == Reaching(a, s)
           start == [cursor |-> a.from, covered |-> FALSE, done |-> FALSE]
<1>0. \A t \in T : \A k \in 1 .. n : Reach(a, t, s[k]) \in T
  BY ReachType
<1>a. Len(s) = n
  OBVIOUS
<1>1. step \in [1 .. n -> [T -> T]]
  BY <1>0
<1>2. start \in T
  BY DEF ReachState, AnyInterval
<1> HIDE DEF start
<1>3. PICK f \in [0 .. n -> T] : f[0] = start /\ \A k \in 1 .. n : f[k] = step[k][f[k - 1]]
  <2>1. HasRun(T, start, n, step)
    <3> HIDE DEF step, T
    <3> QED BY <1>1, <1>2, LoopExists
  <2> HIDE DEF step, T
  <2> QED BY <2>1 DEF HasRun
<1>4. \A k \in 1 .. n : f[k] = Reach(a, f[k - 1], s[k])
  <2> SUFFICES ASSUME NEW k \in 1 .. n PROVE f[k] = Reach(a, f[k - 1], s[k])
    OBVIOUS
  <2>1. f[k - 1] \in T
    OBVIOUS
  <2> QED BY <1>3, <2>1
<1>5. f = [k \in 0 .. n |-> IF k = 0 THEN start ELSE Reach(a, f[k - 1], s[k])]
  BY <1>3, <1>4
<1>6. c = [k \in 0 .. n |-> IF k = 0 THEN start ELSE Reach(a, c[k - 1], s[k])]
  BY <1>5, <1>a DEF Reaching, start
<1>7. c[0] = start /\ \A k \in 1 .. n : c[k] = Reach(a, c[k - 1], s[k])
  <2> HIDE DEF c
  <2> QED BY <1>6
<1>8. \A k \in 0 .. n : c[k] \in T
  <2> HIDE DEF c
  <2>1. c[0] \in T
    BY <1>2, <1>7
  <2>2. ASSUME NEW k \in 1 .. n, c[k - 1] \in T PROVE c[k] \in T
    BY <1>0, <1>7, <2>2
  <2> HIDE DEF T
  <2> QED BY <2>1, <2>2, LoopStays
<1>9. c \in [0 .. n -> T]
  <2> HIDE DEF c
  <2> QED BY <1>6, <1>8
<1> QED BY <1>7, <1>9 DEF start

Holds(r, m) == r.from <= m /\ m < r.to

(***************************************************************************)
(* After k rules: the walk goes on while every minute before the cursor    *)
(* lies in some rule and no rule walked so far reaches past it; it ends    *)
(* with every minute covered, or at a minute that no rule holds.           *)
(***************************************************************************)
ChainSoFar(a, n, s, k, st) ==
    /\ st \in ReachState
    /\ st.cursor >= a.from
    /\ st.covered => /\ st.done
                     /\ \A m \in a.from .. a.to - 1 : \E j \in 1 .. n : Holds(s[j], m)
    /\ ~st.done => /\ st.cursor < a.to
                   /\ \A m \in a.from .. st.cursor - 1 : \E j \in 1 .. n : Holds(s[j], m)
                   /\ \A j \in 1 .. k : s[j].to <= st.cursor
    /\ st.done /\ ~st.covered => /\ st.cursor < a.to
                                 /\ \A j \in 1 .. n : ~Holds(s[j], st.cursor)

LEMMA ReachKeepsSound ==
    ASSUME NEW a \in ProperInterval, NEW n \in Nat, NEW s \in [1 .. n -> AnyInterval],
           \A i, j \in 1 .. n : i < j => s[i].from <= s[j].from,
           NEW k \in 0 .. n - 1, NEW st, ChainSoFar(a, n, s, k, st)
    PROVE  ChainSoFar(a, n, s, k + 1, Reach(a, st, s[k + 1]))
<1> DEFINE r == s[k + 1]
           cu == st.cursor
<1>0. k + 1 \in 1 .. n /\ \A j : j \in 1 .. k + 1 <=> j \in 1 .. k \/ j = k + 1
  OBVIOUS
<1>1. /\ a.from \in Int /\ a.to \in Int /\ a.from < a.to
      /\ r \in AnyInterval /\ r.from \in Int /\ r.to \in Int
      /\ st \in ReachState /\ cu \in Int /\ cu >= a.from
  <2>1. r \in AnyInterval /\ st \in ReachState /\ cu >= a.from
    BY <1>0 DEF ChainSoFar
  <2> QED BY <2>1 DEF ProperInterval, AnyInterval, ReachState
<1>2. \A j \in 1 .. n : s[j].from \in Int /\ s[j].to \in Int
  BY DEF AnyInterval
<1>3. CASE st.done
  <2>1. Reach(a, st, r) = st
    BY <1>3 DEF Reach
  <2> QED BY <2>1, <1>3 DEF ChainSoFar
<1>4. CASE ~st.done /\ r.to <= cu
  <2>1. Reach(a, st, r) = st
    BY <1>4 DEF Reach
  <2>2. \A j \in 1 .. k + 1 : s[j].to <= cu
    BY <1>0, <1>4 DEF ChainSoFar
  <2> QED BY <2>1, <2>2, <1>4 DEF ChainSoFar
<1>5. CASE ~st.done /\ ~(r.to <= cu) /\ r.from > cu
  <2> DEFINE st2 == [st EXCEPT !.done = TRUE]
  <2>1. Reach(a, st, r) = st2
    BY <1>5 DEF Reach
  <2>2. st2 \in ReachState /\ st2.cursor = cu /\ st2.done = TRUE /\ st2.covered = st.covered
    BY <1>1 DEF ReachState
  <2>3. st.covered = FALSE /\ cu < a.to /\ \A j \in 1 .. k : s[j].to <= cu
    BY <1>1, <1>5 DEF ChainSoFar, ReachState
  <2>4. ASSUME NEW j \in 1 .. n PROVE ~Holds(s[j], cu)
    <3>1. CASE j <= k
      <4>1. s[j].to <= cu
        BY <3>1, <2>3
      <4> QED BY <4>1, <1>1, <1>2 DEF Holds
    <3>2. CASE j = k + 1
      BY <3>2, <1>1, <1>5 DEF Holds
    <3>3. CASE j > k + 1
      <4>1. r.from <= s[j].from
        BY <3>3, <1>0
      <4> QED BY <4>1, <1>1, <1>2, <1>5 DEF Holds
    <3> QED BY <3>1, <3>2, <3>3
  <2> HIDE DEF st2
  <2>5. ChainSoFar(a, n, s, k + 1, st2)
    BY <2>2, <2>3, <2>4, <1>1 DEF ChainSoFar
  <2> QED BY <2>1, <2>5
<1>6. CASE ~st.done /\ ~(r.to <= cu) /\ ~(r.from > cu)
  <2> DEFINE st2 == [cursor |-> r.to, covered |-> r.to >= a.to, done |-> r.to >= a.to]
  <2>1. Reach(a, st, r) = st2
    BY <1>6 DEF Reach
  <2>2. /\ st2 \in ReachState /\ st2.cursor = r.to
        /\ st2.done = (r.to >= a.to) /\ st2.covered = (r.to >= a.to)
    BY <1>1 DEF ReachState
  <2>3. \A m \in a.from .. cu - 1 : \E j \in 1 .. n : Holds(s[j], m)
    BY <1>6 DEF ChainSoFar
  <2>4. ASSUME NEW m \in Int, a.from <= m, m < r.to PROVE \E j \in 1 .. n : Holds(s[j], m)
    <3>1. CASE m < cu
      BY <3>1, <2>3, <2>4, <1>1
    <3>2. CASE m >= cu
      <4>1. Holds(s[k + 1], m)
        BY <3>2, <2>4, <1>1, <1>6 DEF Holds
      <4> QED BY <4>1, <1>0
    <3> QED BY <3>1, <3>2, <1>1
  <2>5. ASSUME NEW j \in 1 .. k + 1 PROVE s[j].to <= r.to
    <3>1. CASE j \in 1 .. k
      <4>1. s[j].to <= cu /\ j \in 1 .. n
        BY <3>1, <1>6 DEF ChainSoFar
      <4> QED BY <4>1, <1>1, <1>2, <1>6
    <3> QED BY <3>1, <1>0, <1>1
  <2>6. r.to >= a.from
    BY <1>1, <1>6
  <2> HIDE DEF st2
  <2>7. CASE r.to >= a.to
    <3>1. \A m \in a.from .. a.to - 1 : \E j \in 1 .. n : Holds(s[j], m)
      BY <2>4, <2>7, <1>1
    <3> QED BY <3>1, <2>1, <2>2, <2>6, <2>7 DEF ChainSoFar
  <2>8. CASE ~(r.to >= a.to)
    <3>1. \A m \in a.from .. r.to - 1 : \E j \in 1 .. n : Holds(s[j], m)
      BY <2>4, <1>1
    <3>2. r.to < a.to
      BY <2>8, <1>1
    <3> QED BY <3>1, <3>2, <2>1, <2>2, <2>5, <2>6, <2>8 DEF ChainSoFar
  <2> QED BY <2>7, <2>8
<1> QED BY <1>3, <1>4, <1>5, <1>6

\* The chain of rules accepts an appointment when each of its minutes lies in a rule.
LEMMA ChainMeansCovered ==
    ASSUME NEW a \in ProperInterval, NEW rules \in Seq(AnyInterval)
    PROVE  CoveredByRuleChain(a, rules) <=> CoveredBy(a, ToSet(rules))
<1> DEFINE s == Sorted(ByStartAndEnd, rules)
           n == Len(s)
           c == Reaching(a, s)
           S == {k \in 0 .. n : ChainSoFar(a, n, s, k, c[k])}
<1>1. /\ s \in Seq(AnyInterval)
      /\ Ordered(ByStartAndEnd, s)
      /\ \A y : Has(s, y) <=> Has(rules, y)
  <2>1. KeyOrder(ByStartAndEnd, AnyInterval)
    <3>1. \A x, y \in AnyInterval :
              <<x, y>> \in ByStartAndEnd <=> x.from < y.from \/ (x.from = y.from /\ x.to <= y.to)
      BY DEF ByStartAndEnd
    <3>2. \A x \in AnyInterval : x.from \in Int /\ x.to \in Int
      BY DEF AnyInterval
    <3> QED BY <3>1, <3>2 DEF KeyOrder
  <2> QED BY <2>1, SortedIsSorted
<1>2. CoveredByRuleChain(a, rules) = c[n].covered
  BY DEF CoveredByRuleChain
<1> HIDE DEF s
<1>3. n \in Nat /\ s \in [1 .. n -> AnyInterval]
  BY <1>1
<1>4. \A i, j \in 1 .. n : i < j => s[i].from <= s[j].from
  <2> SUFFICES ASSUME NEW i \in 1 .. n, NEW j \in 1 .. n, i < j PROVE s[i].from <= s[j].from
    OBVIOUS
  <2>1. <<s[i], s[j]>> \in ByStartAndEnd
    BY <1>1 DEF Ordered
  <2> QED BY <2>1 DEF ByStartAndEnd, AnyInterval
<1>5. CoveredBy(a, ToSet(rules))
          <=> \A m \in a.from .. a.to - 1 : \E j \in 1 .. n : Holds(s[j], m)
  <2>1. DOMAIN rules = 1 .. Len(rules)
    OBVIOUS
  <2>2. \A m : (\E r \in ToSet(rules) : r.from <= m /\ m < r.to)
                   <=> \E r : Has(rules, r) /\ Holds(r, m)
    BY <2>1 DEF ToSet, Has, Holds
  <2>3. \A m : (\E j \in 1 .. n : Holds(s[j], m)) <=> \E r : Has(s, r) /\ Holds(r, m)
    BY DEF Has
  <2> QED BY <2>2, <2>3, <1>1 DEF CoveredBy
<1> HIDE DEF n
<1>6. /\ c \in [0 .. n -> ReachState]
      /\ c[0] = [cursor |-> a.from, covered |-> FALSE, done |-> FALSE]
      /\ \A k \in 1 .. n : c[k] = Reach(a, c[k - 1], s[k])
  <2>1. a \in AnyInterval
    BY DEF ProperInterval
  <2> QED BY <2>1, <1>3, ReachingRounds
<1> HIDE DEF c
<1>7. a.from \in Int /\ a.to \in Int /\ a.from < a.to
  BY DEF ProperInterval, AnyInterval
<1>8. 0 \in S
  <2>1. /\ c[0] \in ReachState /\ c[0].cursor = a.from
        /\ c[0].covered = FALSE /\ c[0].done = FALSE
    <3>1. 0 \in 0 .. n
      BY <1>3
    <3>2. c[0] \in ReachState
      BY <3>1, <1>6
    <3> QED BY <3>2, <1>6
  <2>2. ChainSoFar(a, n, s, 0, c[0])
    BY <2>1, <1>7 DEF ChainSoFar
  <2> QED BY <2>2, <1>3
<1>9. ASSUME NEW k \in 0 .. n - 1, k \in S PROVE k + 1 \in S
  <2>1. k + 1 \in 1 .. n /\ k + 1 \in 0 .. n /\ (k + 1) - 1 = k
    BY <1>3
  <2>2. c[k + 1] = Reach(a, c[k], s[k + 1])
    BY <1>6, <2>1
  <2>3. ChainSoFar(a, n, s, k, c[k])
    BY <1>9
  <2>4. ChainSoFar(a, n, s, k + 1, c[k + 1])
    BY <1>3, <1>4, <2>2, <2>3, ReachKeepsSound
  <2> QED BY <2>1, <2>4
<1>10. ChainSoFar(a, n, s, n, c[n])
  <2>1. \A k \in 0 .. n : k \in S
    <3> HIDE DEF S
    <3> QED BY <1>3, <1>8, <1>9, RoundByRound
  <2>2. n \in S
    <3> HIDE DEF S
    <3> QED BY <2>1, <1>3
  <2> QED BY <2>2
<1>11. c[n].cursor \in Int /\ c[n].covered \in BOOLEAN /\ c[n].done \in BOOLEAN
  BY <1>10 DEF ChainSoFar, ReachState
<1>12. ASSUME ~c[n].covered
       PROVE  /\ c[n].cursor \in a.from .. a.to - 1
              /\ \A j \in 1 .. n : ~Holds(s[j], c[n].cursor)
  <2>1. c[n].cursor >= a.from /\ c[n].cursor < a.to
    BY <1>10, <1>12 DEF ChainSoFar
  <2>2. CASE c[n].done
    BY <2>1, <2>2, <1>7, <1>10, <1>11, <1>12 DEF ChainSoFar
  <2>3. CASE ~c[n].done
    <3>1. \A j \in 1 .. n : s[j].to <= c[n].cursor
      BY <2>3, <1>10 DEF ChainSoFar
    <3>2. \A j \in 1 .. n : s[j].to \in Int
      BY <1>3 DEF AnyInterval
    <3> QED BY <2>1, <3>1, <3>2, <1>7, <1>11 DEF Holds
  <2> QED BY <2>2, <2>3
<1>13. c[n].covered => \A m \in a.from .. a.to - 1 : \E j \in 1 .. n : Holds(s[j], m)
  BY <1>10 DEF ChainSoFar
<1> QED BY <1>2, <1>5, <1>12, <1>13 DEF c, n

-----------------------------------------------------------------------------
(* Sorted sequences of different elements.                                   *)

\* As many numbers as are sent to different ones.
LEMMA NumbersEmbed ==
    ASSUME NEW m \in Nat, NEW n \in Nat, NEW f \in [1 .. m -> 1 .. n],
           \A j, k \in 1 .. m : j < k => f[j] # f[k]
    PROVE  m <= n
<1>1. f \in Injection(1 .. m, 1 .. n)
  <2>1. \A j, k \in 1 .. m : f[j] = f[k] => j = k
    <3> SUFFICES ASSUME NEW j \in 1 .. m, NEW k \in 1 .. m, j # k PROVE f[j] # f[k]
      OBVIOUS
    <3>1. j < k \/ k < j
      OBVIOUS
    <3> QED BY <3>1
  <2> QED BY <2>1 DEF Injection, IsInjective
<1>2. /\ IsFiniteSet(1 .. n) /\ Cardinality(1 .. n) = n
      /\ Cardinality(1 .. m) = m
  <2>1. \A k \in Nat : IsFiniteSet(1 .. k) /\ Cardinality(1 .. k) = k
    <3> SUFFICES ASSUME NEW k \in Nat PROVE IsFiniteSet(1 .. k) /\ Cardinality(1 .. k) = k
      OBVIOUS
    <3>1. /\ IsFiniteSet(1 .. k)
          /\ Cardinality(1 .. k) = IF 1 > k THEN 0 ELSE k - 1 + 1
      BY FS_Interval
    <3> QED BY <3>1
  <2> QED BY <2>1
<1>3. Cardinality(1 .. m) <= Cardinality(1 .. n)
  BY <1>1, <1>2, FS_Injection
<1> QED BY <1>2, <1>3

Different(X) == {p \in X \X X : p[1] # p[2]}

\* A sequence of different elements is no longer than one that has them all.
LEMMA NotLonger ==
    ASSUME NEW X, NEW s \in Seq(X), Ordered(Different(X), s),
           NEW t \in Seq(X), \A y : Has(s, y) => Has(t, y)
    PROVE  Len(s) <= Len(t)
<1> DEFINE m == Len(s)
           n == Len(t)
           f == [j \in 1 .. m |-> CHOOSE i \in 1 .. n : t[i] = s[j]]
<1>1. m \in Nat /\ n \in Nat
  OBVIOUS
<1>2. \A j \in 1 .. m : \E i \in 1 .. n : t[i] = s[j]
  BY DEF Has
<1>3. \A j \in 1 .. m : f[j] \in 1 .. n /\ t[f[j]] = s[j]
  BY <1>2
<1>4. f \in [1 .. m -> 1 .. n]
  BY <1>3
<1>5. \A j, k \in 1 .. m : j < k => s[j] # s[k]
  BY DEF Ordered, Different
<1> HIDE DEF f, m, n
<1>6. \A j, k \in 1 .. m : j < k => f[j] # f[k]
  BY <1>3, <1>5
<1>7. m <= n
  BY <1>1, <1>4, <1>6, NumbersEmbed
<1> QED BY <1>7 DEF m, n

\* A strict order of the elements of S
Strict(lt, S) ==
    /\ \A a \in S : <<a, a>> \notin lt
    /\ \A a, b \in S : <<a, b>> \in lt => <<b, a>> \notin lt

\* Of two sequences in strict order, the one whose elements come first among those of
\* the other is how the other begins.
LEMMA FirstOnesFirst ==
    ASSUME NEW X, NEW lt, Strict(lt, X),
           NEW u \in Seq(X), Ordered(lt, u), NEW v \in Seq(X), Ordered(lt, v),
           \A y : Has(v, y) => Has(u, y),
           \A x, y : Has(v, x) /\ Has(u, y) /\ <<y, x>> \in lt => Has(v, y)
    PROVE  Len(v) <= Len(u) /\ \A i \in 1 .. Len(v) : v[i] = u[i]
<1> DEFINE m == Len(v)
           n == Len(u)
           Agree(k) == k <= n /\ \A i \in 1 .. k : v[i] = u[i]
           S == {k \in 0 .. m : Agree(k)}
<1>1. m \in Nat /\ n \in Nat /\ v \in [1 .. m -> X] /\ u \in [1 .. n -> X]
  OBVIOUS
<1>2. /\ \A j, k \in 1 .. n : j < k => <<u[j], u[k]>> \in lt
      /\ \A j, k \in 1 .. m : j < k => <<v[j], v[k]>> \in lt
  BY DEF Ordered
<1>3. /\ \A j \in 1 .. m : \E i \in 1 .. n : u[i] = v[j]
      /\ \A j \in 1 .. m, i \in 1 .. n : <<u[i], v[j]>> \in lt => \E q \in 1 .. m : v[q] = u[i]
  BY DEF Has
<1> HIDE DEF m, n
<1>4. 0 \in S
  BY <1>1
<1>5. ASSUME NEW k \in 0 .. m - 1, k \in S PROVE k + 1 \in S
  <2>1. k \in Nat /\ k + 1 \in 1 .. m /\ k + 1 \in 0 .. m
    BY <1>1
  <2>2. k <= n /\ \A i \in 1 .. k : v[i] = u[i]
    BY <1>5
  <2>3. PICK p \in 1 .. n : u[p] = v[k + 1]
    BY <1>3, <2>1
  <2>4. p > k
    <3> SUFFICES ASSUME p <= k PROVE FALSE
      BY <1>1, <2>1
    <3>1. p \in 1 .. k /\ p \in 1 .. m /\ p < k + 1
      BY <1>1, <2>1
    <3>2. <<v[p], v[k + 1]>> \in lt /\ v[p] = v[k + 1]
      BY <3>1, <2>1, <2>2, <2>3, <1>2
    <3> QED BY <3>2, <2>1, <1>1 DEF Strict
  <2>5. k + 1 \in 1 .. n
    BY <1>1, <2>1, <2>4
  <2>6. ~(k + 1 < p)
    <3> SUFFICES ASSUME k + 1 < p PROVE FALSE
      OBVIOUS
    <3>1. <<u[k + 1], v[k + 1]>> \in lt
      BY <2>3, <2>5, <1>2
    <3>2. PICK q \in 1 .. m : v[q] = u[k + 1]
      BY <3>1, <1>3, <2>1, <2>5
    <3>3. q < k + 1
      <4> SUFFICES ASSUME ~(q < k + 1) PROVE FALSE
        OBVIOUS
      <4>1. q = k + 1 \/ k + 1 < q
        BY <2>1, <1>1
      <4>2. CASE q = k + 1
        BY <4>2, <3>1, <3>2, <2>1, <1>1 DEF Strict
      <4>3. CASE k + 1 < q
        <5>1. <<v[k + 1], v[q]>> \in lt
          BY <4>3, <2>1, <1>2
        <5> QED BY <5>1, <3>1, <3>2, <2>1, <1>1 DEF Strict
      <4> QED BY <4>1, <4>2, <4>3
    <3>4. q \in 1 .. k /\ q \in 1 .. n
      BY <3>3, <2>1, <2>2, <1>1
    <3>5. <<u[q], u[k + 1]>> \in lt /\ u[q] = u[k + 1]
      BY <3>2, <3>3, <3>4, <2>2, <2>5, <1>2
    <3> QED BY <3>5, <2>5, <1>1 DEF Strict
  <2>7. v[k + 1] = u[k + 1]
    <3>1. p = k + 1
      BY <2>1, <2>4, <2>6, <1>1
    <3> QED BY <3>1, <2>3
  <2>8. Agree(k + 1)
    <3>1. \A i \in 1 .. k + 1 : i \in 1 .. k \/ i = k + 1
      BY <2>1
    <3> QED BY <3>1, <2>2, <2>5, <2>7
  <2> QED BY <2>1, <2>8
<1>6. \A k \in 0 .. m : k \in S
  <2> HIDE DEF S
  <2> QED BY <1>1, <1>4, <1>5, RoundByRound
<1>7. Agree(m)
  BY <1>1, <1>6
<1> QED BY <1>7 DEF m, n

-----------------------------------------------------------------------------
(* The order of suggestions.                                                 *)

\* The slots of up to three lines; no two of a sequence at the same place and time
PublicSlot == [line : 1 .. 3, day : Int, from : Int, to : Int, score : Int]
Elsewhere == {p \in PublicSlot \X PublicSlot :
                 p[1].day # p[2].day \/ p[1].from # p[2].from \/ p[1].line # p[2].line}
Suggested == {p \in PublicSlot \X PublicSlot : SuggestionBefore(p[1], p[2])}

LEMMA SuggestionMeans ==
    ASSUME NEW a \in AnySlot, NEW b \in AnySlot
    PROVE  SuggestionBefore(a, b) <=>
               \/ a.day < b.day
               \/ /\ a.day = b.day
                  /\ \/ a.score > b.score
                     \/ /\ a.score = b.score
                        /\ a.from < b.from \/ (a.from = b.from /\ a.line < b.line)
<1> DEFINE ka == <<a.day, -a.score, a.from, a.line>>
           kb == <<b.day, -b.score, b.from, b.line>>
<1>1. /\ a.day \in Int /\ a.score \in Int /\ a.from \in Int /\ a.line \in Int
      /\ b.day \in Int /\ b.score \in Int /\ b.from \in Int /\ b.line \in Int
  BY DEF AnySlot
<1>2. SuggestionBefore(a, b) <=>
          \E k \in 1 .. 4 : ka[k] < kb[k] /\ \A j \in 1 .. k - 1 : ka[j] = kb[j]
  BY DEF SuggestionBefore
<1>3. /\ ka[1] = a.day /\ ka[2] = -a.score /\ ka[3] = a.from /\ ka[4] = a.line
      /\ kb[1] = b.day /\ kb[2] = -b.score /\ kb[3] = b.from /\ kb[4] = b.line
  OBVIOUS
<1> HIDE DEF ka, kb
<1>4. SuggestionBefore(a, b) <=>
          \/ ka[1] < kb[1]
          \/ ka[2] < kb[2] /\ ka[1] = kb[1]
          \/ ka[3] < kb[3] /\ ka[1] = kb[1] /\ ka[2] = kb[2]
          \/ ka[4] < kb[4] /\ ka[1] = kb[1] /\ ka[2] = kb[2] /\ ka[3] = kb[3]
  <2> DEFINE P(k) == ka[k] < kb[k] /\ \A j \in 1 .. k - 1 : ka[j] = kb[j]
  <2>1. P(1) <=> ka[1] < kb[1]
    OBVIOUS
  <2>2. P(2) <=> ka[2] < kb[2] /\ ka[1] = kb[1]
    OBVIOUS
  <2>3. P(3) <=> ka[3] < kb[3] /\ ka[1] = kb[1] /\ ka[2] = kb[2]
    OBVIOUS
  <2>4. P(4) <=> ka[4] < kb[4] /\ ka[1] = kb[1] /\ ka[2] = kb[2] /\ ka[3] = kb[3]
    OBVIOUS
  <2>5. SuggestionBefore(a, b) <=> P(1) \/ P(2) \/ P(3) \/ P(4)
    <3>1. \A k \in 1 .. 4 : k = 1 \/ k = 2 \/ k = 3 \/ k = 4
      OBVIOUS
    <3>2. SuggestionBefore(a, b) <=> \E k \in 1 .. 4 : P(k)
      BY <1>2
    <3> HIDE DEF P
    <3> QED BY <3>1, <3>2
  <2> HIDE DEF P
  <2> QED BY <2>1, <2>2, <2>3, <2>4, <2>5
<1> QED BY <1>1, <1>3, <1>4

\* A strict order, total on slots at different places
LEMMA SuggestionOrder ==
    /\ PublicSlot \subseteq AnySlot
    /\ KeyOrder(BySuggestion, AnySlot)
    /\ Strict(Suggested, PublicSlot)
    /\ \A a, b \in PublicSlot :
          /\ <<a, b>> \in Suggested <=> SuggestionBefore(a, b)
          /\ <<a, b>> \in BySuggestion /\ <<a, b>> \in Elsewhere => <<a, b>> \in Suggested
    /\ \A a, b, c \in PublicSlot :
          SuggestionBefore(a, b) /\ SuggestionBefore(b, c) => SuggestionBefore(a, c)
<1>1. \A a \in AnySlot : a.day \in Int /\ a.score \in Int /\ a.from \in Int /\ a.line \in Int
  BY DEF AnySlot
<1>2. PublicSlot \subseteq AnySlot
  BY DEF PublicSlot, AnySlot
<1>3. \A a, b \in AnySlot : <<a, b>> \in BySuggestion <=> ~SuggestionBefore(b, a)
  BY DEF BySuggestion
<1>4. KeyOrder(BySuggestion, AnySlot)
  <2>1. ASSUME NEW a \in AnySlot, NEW b \in AnySlot
        PROVE  ~SuggestionBefore(b, a) \/ ~SuggestionBefore(a, b)
    BY <1>1, SuggestionMeans
  <2>2. ASSUME NEW a \in AnySlot, NEW b \in AnySlot, NEW c \in AnySlot,
               ~SuggestionBefore(b, a), ~SuggestionBefore(c, b)
        PROVE  ~SuggestionBefore(c, a)
    BY <2>2, <1>1, SuggestionMeans
  <2> QED BY <2>1, <2>2, <1>3 DEF KeyOrder
<1>5. \A a, b \in PublicSlot : <<a, b>> \in Suggested <=> SuggestionBefore(a, b)
  BY DEF Suggested
<1>6. Strict(Suggested, PublicSlot)
  <2>1. ASSUME NEW a \in AnySlot, NEW b \in AnySlot, SuggestionBefore(a, b)
        PROVE  ~SuggestionBefore(b, a)
    BY <2>1, <1>1, SuggestionMeans
  <2> QED BY <2>1, <1>2, <1>5 DEF Strict
<1>7. ASSUME NEW a \in PublicSlot, NEW b \in PublicSlot,
             <<a, b>> \in BySuggestion, <<a, b>> \in Elsewhere
      PROVE  SuggestionBefore(a, b)
  <2>1. ~SuggestionBefore(b, a)
    BY <1>2, <1>3, <1>7
  <2>2. a.day # b.day \/ a.from # b.from \/ a.line # b.line
    BY <1>7 DEF Elsewhere
  <2>3. a \in AnySlot /\ b \in AnySlot
    BY <1>2
  <2> QED BY <2>1, <2>2, <2>3, <1>1, SuggestionMeans
<1>8. ASSUME NEW a \in PublicSlot, NEW b \in PublicSlot, NEW c \in PublicSlot,
             SuggestionBefore(a, b), SuggestionBefore(b, c)
      PROVE  SuggestionBefore(a, c)
  <2>1. a \in AnySlot /\ b \in AnySlot /\ c \in AnySlot
    BY <1>2
  <2> QED BY <2>1, <1>1, <1>8, SuggestionMeans
<1> QED BY <1>2, <1>4, <1>5, <1>6, <1>7, <1>8

\* Sorting slots at different places orders them strictly.
LEMMA RankedStrictly ==
    ASSUME NEW s \in Seq(PublicSlot), Ordered(Elsewhere, s)
    PROVE  /\ Sorted(BySuggestion, s) \in Seq(PublicSlot)
           /\ Ordered(Suggested, Sorted(BySuggestion, s))
           /\ Ordered(Elsewhere, Sorted(BySuggestion, s))
           /\ \A y : Has(Sorted(BySuggestion, s), y) <=> Has(s, y)
           /\ Len(Sorted(BySuggestion, s)) >= Len(s)
<1> DEFINE n == Len(s)
           c == Sorting(BySuggestion, s)
           u == Sorted(BySuggestion, s)
           Done(k) == /\ Ordered(Elsewhere, c[k])
                      /\ \A y : Has(c[k], y) <=> \E j \in 1 .. k : s[j] = y
           S == {k \in 0 .. n : Done(k)}
<1>1. n \in Nat /\ \A j \in 1 .. n : s[j] \in PublicSlot
  OBVIOUS
<1>2. /\ c \in [0 .. n -> Seq(PublicSlot)]
      /\ c[0] = <<>>
      /\ \A k \in 1 .. n : c[k] = Inserted(BySuggestion, c[k - 1], s[k])
  BY SortingRounds
<1> HIDE DEF c
<1>3. 0 \in S
  <2>1. Len(c[0]) = 0
    BY <1>2
  <2>2. Done(0)
    BY <2>1 DEF Ordered, Has
  <2> HIDE DEF Done, n
  <2> QED BY <1>1, <2>2
<1>4. ASSUME NEW k \in 0 .. n - 1, k \in S PROVE k + 1 \in S
  <2>0. k \in 0 .. n /\ k + 1 \in 1 .. n /\ (k + 1) - 1 = k
    <3> HIDE DEF n
    <3> QED BY <1>1
  <2>1. k + 1 \in 1 .. n /\ (k + 1) - 1 = k /\ c[k] \in Seq(PublicSlot) /\ s[k + 1] \in PublicSlot
    BY <2>0, <1>1, <1>2
  <2> DEFINE t == c[k]
             x == s[k + 1]
  <2>2. c[k + 1] = Inserted(BySuggestion, t, x)
    BY <1>2, <2>1
  <2>3. /\ Ordered(Elsewhere, t) /\ t \in Seq(PublicSlot) /\ x \in PublicSlot
        /\ \A y : Has(t, y) <=> \E j \in 1 .. k : s[j] = y
    BY <1>4, <2>1
  <2>4. \A y : Has(t, y) => y \in PublicSlot /\ <<y, x>> \in Elsewhere /\ <<x, y>> \in Elsewhere
    <3> SUFFICES ASSUME NEW y, Has(t, y)
                 PROVE  y \in PublicSlot /\ <<y, x>> \in Elsewhere /\ <<x, y>> \in Elsewhere
      OBVIOUS
    <3>1. PICK j \in 1 .. k : s[j] = y
      BY <2>3
    <3>2. j \in 1 .. n /\ j < k + 1
      BY <2>1
    <3>3. <<y, x>> \in Elsewhere
      BY <2>1, <3>1, <3>2 DEF Ordered
    <3> HIDE DEF x
    <3> QED BY <3>3 DEF Elsewhere
  <2>5. \A y, z : Has(t, y) /\ Has(t, z) /\ <<y, x>> \in BySuggestion /\ <<z, x>> \notin BySuggestion
                      => <<y, z>> \in Elsewhere
    <3> SUFFICES ASSUME NEW y, NEW z, Has(t, y), Has(t, z),
                        <<y, x>> \in BySuggestion, <<z, x>> \notin BySuggestion
                 PROVE  <<y, z>> \in Elsewhere
      OBVIOUS
    <3>1. PICK i \in 1 .. Len(t) : t[i] = y
      BY DEF Has
    <3>2. PICK j \in 1 .. Len(t) : t[j] = z
      BY DEF Has
    <3>3. y # z
      OBVIOUS
    <3>4. <<y, z>> \in Elsewhere \/ <<z, y>> \in Elsewhere
      <4> HIDE DEF t
      <4>1. Len(t) \in Nat
        BY <2>3
      <4>2. i < j \/ j < i
        BY <4>1, <3>1, <3>2, <3>3
      <4> QED BY <4>2, <3>1, <3>2, <2>3 DEF Ordered
    <3> QED BY <3>4 DEF Elsewhere
  <2> HIDE DEF t, x
  <2>6. \A y : Has(Inserted(BySuggestion, t, x), y) <=> Has(t, y) \/ y = x
    BY <2>3, InsertedKeeps
  <2>7. Ordered(Elsewhere, Inserted(BySuggestion, t, x))
    BY <2>3, <2>4, <2>5, InsertedRelates
  <2>8. \A y : (\E j \in 1 .. k + 1 : s[j] = y) <=> (\E j \in 1 .. k : s[j] = y) \/ y = s[k + 1]
    BY <2>1
  <2>9. Done(k + 1)
    BY <2>2, <2>3, <2>6, <2>7, <2>8 DEF x
  <2> HIDE DEF Done
  <2> QED BY <2>1, <2>9
<1>5. \A k \in 0 .. n : k \in S
  <2> HIDE DEF S, n
  <2> QED BY <1>1, <1>3, <1>4, RoundByRound
<1>6. Done(n)
  <2> HIDE DEF Done
  <2> QED BY <1>1, <1>5
<1>7. u = c[n]
  BY DEF Sorted, c
<1>8. u \in Seq(PublicSlot)
  BY <1>1, <1>2, <1>7
<1>9. Ordered(BySuggestion, u) /\ \A y : Has(u, y) <=> Has(s, y)
  <2>1. s \in Seq(AnySlot)
    <3>1. PublicSlot \subseteq AnySlot
      BY SuggestionOrder
    <3> QED BY <3>1
  <2> QED BY <2>1, SuggestionOrder, SortedIsSorted
<1>10. Ordered(Elsewhere, u)
  BY <1>6, <1>7
<1> HIDE DEF u
<1>11. Ordered(Suggested, u)
  <2> SUFFICES ASSUME NEW j \in 1 .. Len(u), NEW k \in 1 .. Len(u), j < k
               PROVE  <<u[j], u[k]>> \in Suggested
    BY DEF Ordered
  <2>1. u[j] \in PublicSlot /\ u[k] \in PublicSlot
    BY <1>8
  <2>2. <<u[j], u[k]>> \in BySuggestion /\ <<u[j], u[k]>> \in Elsewhere
    BY <1>9, <1>10 DEF Ordered
  <2> QED BY <2>1, <2>2, SuggestionOrder
<1>12. Len(s) <= Len(u)
  <2>1. Ordered(Different(PublicSlot), s)
    BY <1>1 DEF Ordered, Elsewhere, Different
  <2> QED BY <2>1, <1>8, <1>9, NotLonger
<1>13. Len(u) \in Nat
  BY <1>8
<1> QED BY <1>1, <1>8, <1>9, <1>10, <1>11, <1>12, <1>13 DEF u

-----------------------------------------------------------------------------
(* _collapse_public_slots.                                                   *)

LEMMA LeastNumber ==
    ASSUME NEW S \in SUBSET Nat, S # {}
    PROVE  \E n \in S : \A m \in S : n <= m
<1> DEFINE R == OpToRel(<, Nat)
<1>1. PICK n \in S : \A m \in S : <<m, n>> \notin R
  <2>1. IsWellFoundedOn(R, Nat)
    BY NatLessThanWellFounded
  <2> HIDE DEF R
  <2> QED BY <2>1, WFMin
<1>2. \A m \in S : ~(m < n)
  BY <1>1 DEF OpToRel
<1> QED BY <1>2

LEMMA CollapseMeans ==
    ASSUME NEW s \in Seq(PublicSlot), Ordered(Elsewhere, s)
    PROVE  /\ CollapsePublicSlots(s) \in Seq(PublicSlot)
           /\ Ordered(Suggested, CollapsePublicSlots(s))
           /\ \A y : Has(CollapsePublicSlots(s), y) <=>
                  Has(s, y) /\ ~\E o : Has(s, o) /\ SameStart(o, y) /\ SuggestionBefore(o, y)
<1> DEFINE best == BestOfItsStart(s)
           t == Kept(s, best)
<1>1. \A y : y \in best <=>
          Has(s, y) /\ ~\E o : Has(s, o) /\ SameStart(o, y) /\ SuggestionBefore(o, y)
  <2>1. DOMAIN s = 1 .. Len(s)
    OBVIOUS
  <2>2. \A y : y \in ToSet(s) <=> Has(s, y)
    BY <2>1 DEF ToSet, Has
  <2> QED BY <2>2 DEF BestOfItsStart
<1> HIDE DEF best
<1>2. t \in Seq(PublicSlot) /\ \A y : Has(t, y) <=> Has(s, y) /\ y \in best
  BY KeptKeeps
<1>3. Ordered(Elsewhere, t)
  BY KeptOrdered
<1>4. CollapsePublicSlots(s) = Sorted(BySuggestion, t)
  BY DEF CollapsePublicSlots, t, best
<1> HIDE DEF t
<1>5. /\ Sorted(BySuggestion, t) \in Seq(PublicSlot)
      /\ Ordered(Suggested, Sorted(BySuggestion, t))
      /\ \A y : Has(Sorted(BySuggestion, t), y) <=> Has(t, y)
  BY <1>2, <1>3, RankedStrictly
<1> QED BY <1>1, <1>2, <1>4, <1>5

LEMMA ThreeEach ==
    \A b \in Nat : \A i \in 1 .. b : \A l \in 1 .. 3 : 3 * (i - 1) + l \in 1 .. 3 * b
<1>1. ASSUME NEW b \in Nat, NEW i \in 1 .. b, NEW l \in 1 .. 3
      PROVE  3 * (i - 1) + l \in 1 .. 3 * b
  <2>1. i \in Int /\ l \in Int /\ b \in Int /\ 1 <= i /\ i <= b /\ 1 <= l /\ l <= 3
    OBVIOUS
  <2>2. 3 * (i - 1) + l \in Int /\ 3 * b \in Int
    BY <2>1
  <2>3. 1 <= 3 * (i - 1) + l /\ 3 * (i - 1) + l <= 3 * b
    BY <2>1
  <2> QED BY <2>2, <2>3
<1> QED BY <1>1

\* At most three slots share a start.
LEMMA ThreePerStart ==
    ASSUME NEW s \in Seq(PublicSlot), Ordered(Elsewhere, s), Ordered(Suggested, s)
    PROVE  Len(s) <= 3 * Len(CollapsePublicSlots(s))
<1> DEFINE B == CollapsePublicSlots(s)
           m == Len(s)
           b == Len(B)
<1>1. /\ B \in Seq(PublicSlot)
      /\ \A y : Has(B, y) <=>
             Has(s, y) /\ ~\E o : Has(s, o) /\ SameStart(o, y) /\ SuggestionBefore(o, y)
  BY CollapseMeans
<1> HIDE DEF B
<1>2. m \in Nat /\ b \in Nat /\ \A j \in 1 .. m : s[j] \in PublicSlot
  BY <1>1
<1>3. /\ \A j, k \in 1 .. m : j < k => <<s[j], s[k]>> \in Elsewhere /\ <<s[j], s[k]>> \in Suggested
  BY DEF Ordered
<1>4. ASSUME NEW k \in 1 .. m PROVE \E i \in 1 .. b : SameStart(B[i], s[k])
  <2> DEFINE S == {i \in 1 .. m : SameStart(s[i], s[k])}
  <2>1. k \in S
    BY DEF SameStart
  <2>2. S \in SUBSET Nat
    BY <1>2
  <2>3. PICK i \in S : \A j \in S : i <= j
    <3> HIDE DEF S
    <3> QED BY <2>1, <2>2, LeastNumber
  <2>4. i \in 1 .. m /\ SameStart(s[i], s[k])
    BY <2>3
  <2>5. Has(s, s[i])
    BY <2>4 DEF Has
  <2>6. ASSUME NEW o, Has(s, o), SameStart(o, s[i]), SuggestionBefore(o, s[i]) PROVE FALSE
    <3>1. PICK j \in 1 .. m : s[j] = o
      BY <2>6 DEF Has
    <3>2. j \in S
      BY <3>1, <2>4, <2>6 DEF SameStart
    <3>3. i <= j
      BY <3>2, <2>3
    <3>4. i = j \/ i < j
      BY <3>3, <2>4, <1>2
    <3>5. <<s[j], s[i]>> \in Suggested
      BY <3>1, <2>4, <2>6, <1>2, SuggestionOrder
    <3>6. i < j => <<s[i], s[j]>> \in Suggested
      BY <2>4, <1>3
    <3> HIDE DEF m
    <3> QED BY <3>4, <3>5, <3>6, <2>4, <1>2, SuggestionOrder DEF Strict
  <2>7. Has(B, s[i])
    BY <2>5, <2>6, <1>1
  <2>8. PICK h \in 1 .. b : B[h] = s[i]
    BY <2>7 DEF Has
  <2> QED BY <2>4, <2>8
<1> DEFINE at == [k \in 1 .. m |-> CHOOSE i \in 1 .. b : SameStart(B[i], s[k])]
           f == [k \in 1 .. m |-> 3 * (at[k] - 1) + s[k].line]
<1>5. \A k \in 1 .. m : at[k] \in 1 .. b /\ SameStart(B[at[k]], s[k])
  BY <1>4
<1> HIDE DEF at, m, b
<1>6. \A k \in 1 .. m : s[k].line \in 1 .. 3
  BY <1>2 DEF PublicSlot
<1>7. 3 * b \in Nat
  BY <1>2
<1>8. f \in [1 .. m -> 1 .. 3 * b]
  <2> SUFFICES ASSUME NEW k \in 1 .. m PROVE 3 * (at[k] - 1) + s[k].line \in 1 .. 3 * b
    OBVIOUS
  <2>1. at[k] \in 1 .. b /\ s[k].line \in 1 .. 3
    BY <1>5, <1>6
  <2> QED BY <2>1, <1>2, ThreeEach
<1>9. \A j, k \in 1 .. m : j < k => f[j] # f[k]
  <2> SUFFICES ASSUME NEW j \in 1 .. m, NEW k \in 1 .. m, j < k,
                      3 * (at[j] - 1) + s[j].line = 3 * (at[k] - 1) + s[k].line
               PROVE  FALSE
    OBVIOUS
  <2>1. /\ at[j] \in 1 .. b /\ s[j].line \in 1 .. 3
        /\ at[k] \in 1 .. b /\ s[k].line \in 1 .. 3
    BY <1>5, <1>6
  <2>2. at[j] = at[k] /\ s[j].line = s[k].line
    <3>1. at[j] \in Nat /\ at[k] \in Nat
      BY <2>1, <1>2
    <3> DEFINE p == at[j]
               q == at[k]
               l == s[j].line
               h == s[k].line
    <3>2. p \in Nat /\ q \in Nat /\ l \in 1 .. 3 /\ h \in 1 .. 3
      BY <2>1, <3>1
    <3>3. 3 * (p - 1) + l = 3 * (q - 1) + h
      OBVIOUS
    <3> HIDE DEF p, q, l, h
    <3>4. p = q /\ l = h
      BY <3>2, <3>3
    <3> QED BY <3>4 DEF p, q, l, h
  <2>3. s[j].day = s[k].day /\ s[j].from = s[k].from
    BY <2>2, <1>5 DEF SameStart
  <2>4. <<s[j], s[k]>> \in Elsewhere
    BY <1>3
  <2> QED BY <2>2, <2>3, <2>4 DEF Elsewhere
<1> HIDE DEF f
<1>10. m <= 3 * b
  BY <1>2, <1>7, <1>8, <1>9, NumbersEmbed
<1> QED BY <1>10 DEF m, b, B

-----------------------------------------------------------------------------
(* suggest_next_slots.                                                       *)

\* p is how s begins: the whole of it, or its first l elements.
Begins(p, s, l) ==
    /\ Len(p) = Least(l, Len(s))
    /\ \A k \in 1 .. Len(p) : p[k] = s[k]

LEMMA UptoMeans ==
    ASSUME NEW X, NEW s \in Seq(X), NEW l \in Nat
    PROVE  Upto(s, l) \in Seq(X) /\ Begins(Upto(s, l), s, l)
<1> DEFINE m == Least(l, Len(s))
           p == SubSeq(s, 1, m)
<1>1. Len(s) \in Nat /\ m \in Nat /\ m <= Len(s)
  BY DEF Least
<1> HIDE DEF m
<1>2. p \in Seq(X)
  BY <1>1
<1>3. Len(p) = m /\ \A k \in 1 .. m : p[k] = s[k]
  BY <1>1
<1>4. Upto(s, l) = p
  BY DEF Upto, m
<1> HIDE DEF p
<1>5. Begins(p, s, l)
  BY <1>3 DEF Begins, m
<1> QED BY <1>2, <1>4, <1>5

\* c is what each round of the search over n + 1 days has found.
Rounds(c, X, n, slotsOf, l) ==
    /\ c \in [0 .. n + 1 -> Seq(X)]
    /\ c[0] = <<>>
    /\ \A k \in 1 .. n + 1 : c[k] = AddDay(c[k - 1], slotsOf[k - 1], l)

LEMMA FindingRounds ==
    ASSUME NEW X, NEW n \in Nat, NEW slotsOf \in [0 .. n -> Seq(X)], NEW l \in Nat
    PROVE  Rounds(Finding(slotsOf, n, l), X, n, slotsOf, l)
<1> DEFINE T == Seq(X)
           Round(t, k) == AddDay(t, slotsOf[k - 1], l)
           step == [k \in 1 .. n + 1 |-> [t \in T |-> Round(t, k)]]
           c == Finding(slotsOf, n, l)
           N == n + 1
<1>0. \A t \in T : \A k \in 1 .. N : Round(t, k) \in T
  <2> SUFFICES ASSUME NEW t \in T, NEW k \in 1 .. N PROVE Round(t, k) \in T
    OBVIOUS
  <2>1. slotsOf[k - 1] \in Seq(X)
    OBVIOUS
  <2> QED BY <2>1 DEF AddDay
<1>1. step \in [1 .. N -> [T -> T]] /\ N \in Nat
  BY <1>0
<1>2. PICK none \in T : none = <<>>
  <2>1. <<>> \in T
    OBVIOUS
  <2> HIDE DEF T
  <2> QED BY <2>1
<1>3. PICK f \in [0 .. N -> T] : f[0] = none /\ \A k \in 1 .. N : f[k] = step[k][f[k - 1]]
  <2>1. HasRun(T, none, N, step)
    <3> HIDE DEF step, T, N
    <3> QED BY <1>1, LoopExists
  <2> HIDE DEF step, T, N
  <2> QED BY <2>1 DEF HasRun
<1>4. \A k \in 1 .. N : f[k] = Round(f[k - 1], k)
  <2> SUFFICES ASSUME NEW k \in 1 .. N PROVE f[k] = Round(f[k - 1], k)
    OBVIOUS
  <2>1. f[k - 1] \in T
    BY <1>1
  <2>2. step[k][f[k - 1]] = Round(f[k - 1], k)
    BY <2>1
  <2> HIDE DEF step, Round
  <2> QED BY <1>3, <2>2
<1>5. f = [k \in 0 .. N |-> IF k = 0 THEN <<>> ELSE Round(f[k - 1], k)]
  <2> HIDE DEF Round
  <2> QED BY <1>2, <1>3, <1>4
<1>6. c = [k \in 0 .. N |-> IF k = 0 THEN <<>> ELSE Round(c[k - 1], k)]
  <2> DEFINE Eq(g) == g = [k \in 0 .. N |-> IF k = 0 THEN <<>> ELSE Round(g[k - 1], k)]
             h == CHOOSE g : Eq(g)
  <2>1. Eq(h)
    <3>1. Eq(f)
      BY <1>5
    <3> HIDE DEF Eq
    <3> QED BY <3>1
  <2>2. c = h
    BY DEF Finding
  <2> HIDE DEF c, h
  <2> QED BY <2>1, <2>2
<1>7. c[0] = <<>> /\ \A k \in 1 .. N : c[k] = Round(c[k - 1], k)
  <2> HIDE DEF c, Round
  <2> QED BY <1>6, <1>1
<1>8. \A k \in 0 .. N : c[k] \in T
  <2> HIDE DEF c, Round, T, N
  <2>1. c[0] \in T
    BY <1>2, <1>7
  <2>2. \A k \in 1 .. N : c[k - 1] \in T => c[k] \in T
    BY <1>0, <1>7
  <2> QED BY <1>1, <2>1, <2>2, LoopStays
<1>9. c \in [0 .. N -> T]
  <2>1. DOMAIN c = 0 .. N /\ c = [k \in 0 .. N |-> c[k]]
    <3> HIDE DEF c, Round
    <3> QED BY <1>6
  <2> HIDE DEF c, T, N
  <2> QED BY <1>8, <2>1
<1> QED BY <1>7, <1>9 DEF Rounds

\* Each day has slots of its own, no two at the same place and time.
Horizon(n, slotsOf) ==
    /\ slotsOf \in [0 .. n -> Seq(PublicSlot)]
    /\ \A d \in 0 .. n : Ordered(Elsewhere, slotsOf[d])
    /\ \A d \in 0 .. n : \A y : Has(slotsOf[d], y) => y \in PublicSlot /\ y.day = d
AllSlots(n, slotsOf) == FlattenSeq([k \in 1 .. n + 1 |-> slotsOf[k - 1]])
InFirstDays(m, slotsOf, y) == \E d \in 0 .. m - 1 : Has(slotsOf[d], y)

LEMMA ElsewhereByDay ==
    \A a, b \in PublicSlot : a.day # b.day => <<a, b>> \in Elsewhere
  BY DEF Elsewhere

LEMMA AllSlotsMeans ==
    ASSUME NEW n \in Nat, NEW slotsOf, Horizon(n, slotsOf)
    PROVE  /\ AllSlots(n, slotsOf) \in Seq(PublicSlot)
           /\ Ordered(Elsewhere, AllSlots(n, slotsOf))
           /\ \A y : Has(AllSlots(n, slotsOf), y) <=> InFirstDays(n + 1, slotsOf, y)
<1> DEFINE N == n + 1
           parts == [k \in 1 .. N |-> slotsOf[k - 1]]
<1>1. N \in Nat /\ \A k \in 1 .. N : k - 1 \in 0 .. n
  OBVIOUS
<1>2. parts \in [1 .. N -> Seq(PublicSlot)] /\ \A k \in 1 .. N : parts[k] = slotsOf[k - 1]
  BY DEF Horizon
<1> HIDE DEF parts
<1>3. PartsInOrder(Elsewhere, N, parts)
  <2>1. \A k \in 1 .. N : Ordered(Elsewhere, parts[k])
    BY <1>1, <1>2 DEF Horizon
  <2>2. ASSUME NEW j \in 1 .. N, NEW k \in 1 .. N, j < k, NEW x, NEW y,
               Has(parts[j], x), Has(parts[k], y)
        PROVE  <<x, y>> \in Elsewhere
    <3>1. /\ x \in PublicSlot /\ x.day = j - 1
          /\ y \in PublicSlot /\ y.day = k - 1
      BY <1>1, <1>2, <2>2 DEF Horizon
    <3>2. j - 1 # k - 1
      BY <2>2
    <3> QED BY <3>1, <3>2, ElsewhereByDay
  <2> QED BY <2>1, <2>2 DEF PartsInOrder
<1> HIDE DEF N
<1>4. /\ FlattenSeq(parts) \in Seq(PublicSlot)
      /\ \A y : Has(FlattenSeq(parts), y) <=> \E k \in 1 .. N : Has(parts[k], y)
  BY <1>1, <1>2, FlattenKeeps
<1>5. Ordered(Elsewhere, FlattenSeq(parts))
  BY <1>1, <1>2, <1>3, FlattenOrdered
<1>6. AllSlots(n, slotsOf) = FlattenSeq(parts)
  BY DEF AllSlots, parts, N
<1>7. \A y : (\E k \in 1 .. N : Has(parts[k], y)) <=> InFirstDays(N, slotsOf, y)
  <2> SUFFICES ASSUME NEW y
               PROVE  (\E k \in 1 .. N : Has(parts[k], y)) <=> \E d \in 0 .. N - 1 : Has(slotsOf[d], y)
    BY DEF InFirstDays
  <2>1. \A d \in 0 .. N - 1 : d + 1 \in 1 .. N /\ parts[d + 1] = slotsOf[d]
    <3> SUFFICES ASSUME NEW d \in 0 .. N - 1 PROVE d + 1 \in 1 .. N /\ parts[d + 1] = slotsOf[d]
      OBVIOUS
    <3>1. d + 1 \in 1 .. N /\ (d + 1) - 1 = d
      BY <1>1
    <3> QED BY <3>1, <1>2
  <2>2. \A k \in 1 .. N : k - 1 \in 0 .. N - 1
    BY <1>1
  <2> QED BY <2>1, <2>2, <1>2
<1> QED BY <1>4, <1>5, <1>6, <1>7 DEF N

LEMMA FoundMeans ==
    ASSUME NEW n \in Nat, NEW slotsOf, Horizon(n, slotsOf), NEW l \in Nat
    PROVE  LET found == Finding(slotsOf, n, l)[n + 1]
           IN  /\ found \in Seq(PublicSlot)
               /\ Ordered(Elsewhere, found)
               /\ \E m \in 0 .. n + 1 :
                      /\ m = n + 1 \/ Len(found) >= l
                      /\ \A y : Has(found, y) <=> InFirstDays(m, slotsOf, y)
<1> DEFINE N == n + 1
           c == Finding(slotsOf, n, l)
           Done(k) == /\ Ordered(Elsewhere, c[k])
                      /\ \E m \in 0 .. k :
                             /\ m = k \/ Len(c[k]) >= l
                             /\ \A y : Has(c[k], y) <=> InFirstDays(m, slotsOf, y)
           S == {k \in 0 .. N : Done(k)}
<1>1. /\ c \in [0 .. N -> Seq(PublicSlot)]
      /\ c[0] = <<>>
      /\ \A k \in 1 .. N :
             c[k] = AddDay(c[k - 1], slotsOf[k - 1], l)
  <2>1. slotsOf \in [0 .. n -> Seq(PublicSlot)]
    BY DEF Horizon
  <2>2. Rounds(c, PublicSlot, n, slotsOf, l)
    BY <2>1, FindingRounds
  <2> QED BY <2>2 DEF Rounds
<1>2. N \in Nat /\ \A k \in 0 .. N - 1 : k \in 0 .. n
  OBVIOUS
<1> HIDE DEF c
<1>3. 0 \in S
  <2>1. Len(c[0]) = 0
    BY <1>1
  <2>2. \A y : ~Has(c[0], y)
    BY <2>1 DEF Has
  <2>3. \A y : ~InFirstDays(0, slotsOf, y)
    BY DEF InFirstDays
  <2>4. Ordered(Elsewhere, c[0])
    BY <2>1 DEF Ordered
  <2>5. Done(0)
    <3>1. 0 \in 0 .. 0
      OBVIOUS
    <3> QED BY <2>2, <2>3, <2>4, <3>1
  <2> HIDE DEF Done, N
  <2> QED BY <1>2, <2>5
<1>4. ASSUME NEW k \in 0 .. N - 1, k \in S PROVE k + 1 \in S
  <2>1. k \in Nat /\ k + 1 \in 1 .. N /\ k + 1 \in 0 .. N /\ (k + 1) - 1 = k /\ k \in 0 .. n /\ k \in 0 .. N
    OBVIOUS
  <2> DEFINE t == c[k]
             day == slotsOf[k]
             after == c[k + 1]
  <2>2. /\ t \in Seq(PublicSlot) /\ day \in Seq(PublicSlot)
        /\ after = IF Len(t) >= l THEN t ELSE t \o day
    BY <1>1, <2>1 DEF Horizon, AddDay
  <2>3. Ordered(Elsewhere, t)
    BY <1>4
  <2>4. PICK m \in 0 .. k : /\ m = k \/ Len(t) >= l
                            /\ \A y : Has(t, y) <=> InFirstDays(m, slotsOf, y)
    BY <1>4
  <2>5. Ordered(Elsewhere, day) /\ \A y : Has(day, y) => y \in PublicSlot /\ y.day = k
    BY <2>1 DEF Horizon
  <2> HIDE DEF t, day, after
  <2>6. CASE Len(t) >= l
    <3>1. after = t /\ m \in 0 .. k + 1
      BY <2>1, <2>2, <2>6
    <3> QED BY <3>1, <2>1, <2>3, <2>4, <2>6 DEF after
  <2>7. CASE ~(Len(t) >= l)
    <3>1. after = t \o day /\ m = k
      BY <2>2, <2>4, <2>7
    <3>2. \A y : Has(after, y) <=> Has(t, y) \/ Has(day, y)
      <4>1. \A y : Has(t \o day, y) <=> Has(t, y) \/ Has(day, y)
        BY <2>2, ConcatKeeps
      <4> QED BY <3>1, <4>1
    <3>3. \A y : Has(after, y) <=> InFirstDays(k + 1, slotsOf, y)
      <4> SUFFICES ASSUME NEW y PROVE Has(after, y) <=> InFirstDays(k + 1, slotsOf, y)
        OBVIOUS
      <4>1. \A d : d \in 0 .. (k + 1) - 1 <=> d \in 0 .. k - 1 \/ d = k
        BY <2>1
      <4>2. InFirstDays(k + 1, slotsOf, y) <=> InFirstDays(k, slotsOf, y) \/ Has(slotsOf[k], y)
        BY <4>1 DEF InFirstDays
      <4> QED BY <4>2, <3>1, <3>2, <2>4 DEF day
    <3>4. ASSUME NEW x, NEW y, Has(t, x), Has(day, y) PROVE <<x, y>> \in Elsewhere
      <4>1. PICK d \in 0 .. k - 1 : Has(slotsOf[d], x)
        BY <3>1, <3>4, <2>4 DEF InFirstDays
      <4>2. d \in 0 .. n /\ d # k
        BY <2>1
      <4>3. x \in PublicSlot /\ x.day = d /\ y \in PublicSlot /\ y.day = k
        BY <4>1, <4>2, <3>4, <2>5 DEF Horizon
      <4> QED BY <4>2, <4>3, ElsewhereByDay
    <3>5. Ordered(Elsewhere, after)
      BY <2>2, <2>3, <2>5, <3>1, <3>4, ConcatOrdered
    <3>6. k + 1 \in 0 .. k + 1
      BY <2>1
    <3> QED BY <3>3, <3>5, <3>6, <2>1 DEF after
  <2> QED BY <2>6, <2>7
<1>5. \A k \in 0 .. N : k \in S
  <2> HIDE DEF S, N
  <2> QED BY <1>2, <1>3, <1>4, RoundByRound
<1>6. N \in 0 .. N
  OBVIOUS
<1>7. Done(N) /\ c[N] \in Seq(PublicSlot)
  <2> HIDE DEF Done, N
  <2> QED BY <1>1, <1>5, <1>6
<1> QED BY <1>7 DEF c

\* What the search suggests are the first slots of the horizon: all of them, or enough.
LEMMA SuggestMeans ==
    ASSUME NEW n \in Nat, NEW slotsOf, Horizon(n, slotsOf), NEW l \in Nat,
           NEW p, p = SuggestNextSlots(slotsOf, n, l),
           NEW all, all = AllSlots(n, slotsOf)
    PROVE  /\ p \in Seq(PublicSlot) /\ Ordered(Elsewhere, p) /\ Ordered(Suggested, p)
           /\ \A y : Has(p, y) => Has(all, y)
           /\ \A x, y : Has(p, x) /\ Has(all, y) /\ SuggestionBefore(y, x) => Has(p, y)
           /\ Len(p) >= l \/ \A y : Has(all, y) => Has(p, y)
<1> DEFINE f == Finding(slotsOf, n, l)[n + 1]
           u == Sorted(BySuggestion, f)
<1>1. /\ f \in Seq(PublicSlot)
      /\ Ordered(Elsewhere, f)
  BY FoundMeans
<1>2. PICK m \in 0 .. n + 1 : /\ m = n + 1 \/ Len(f) >= l
                              /\ \A y : Has(f, y) <=> InFirstDays(m, slotsOf, y)
  BY FoundMeans
<1> HIDE DEF f
<1>3. /\ u \in Seq(PublicSlot)
      /\ Ordered(Suggested, u)
      /\ Ordered(Elsewhere, u)
      /\ \A y : Has(u, y) <=> Has(f, y)
      /\ Len(u) >= Len(f)
  BY <1>1, RankedStrictly
<1>4. p = Upto(u, l)
  BY DEF SuggestNextSlots, u, f
<1> HIDE DEF u
<1>5. p \in Seq(PublicSlot) /\ Begins(p, u, l)
  BY <1>3, <1>4, UptoMeans
<1>6. /\ Len(p) \in Nat /\ Len(u) \in Nat /\ Len(f) \in Nat /\ m \in Nat /\ m <= n + 1
      /\ Len(p) <= Len(u)
      /\ l <= Len(u) => Len(p) = l
      /\ Len(u) < l => Len(p) = Len(u)
      /\ \A k \in 1 .. Len(p) : k \in 1 .. Len(u) /\ p[k] = u[k]
  BY <1>1, <1>3, <1>5 DEF Begins, Least
<1>7. \A y : Has(all, y) <=> InFirstDays(n + 1, slotsOf, y)
  BY AllSlotsMeans
<1>8. Ordered(Elsewhere, p) /\ Ordered(Suggested, p)
  BY <1>3, <1>6 DEF Ordered
<1>9. \A y : Has(p, y) => Has(u, y)
  BY <1>6 DEF Has
<1>10. \A y : InFirstDays(m, slotsOf, y) => InFirstDays(n + 1, slotsOf, y)
  <2>1. \A d \in 0 .. m - 1 : d \in 0 .. (n + 1) - 1
    BY <1>6
  <2> QED BY <2>1 DEF InFirstDays
<1>11. \A y : Has(p, y) => Has(all, y)
  BY <1>2, <1>3, <1>7, <1>9, <1>10
<1>12. ASSUME NEW x, NEW y, Has(p, x), Has(all, y), SuggestionBefore(y, x) PROVE Has(p, y)
  <2>1. PICK d \in 0 .. n : Has(slotsOf[d], y)
    <3>1. (n + 1) - 1 = n
      OBVIOUS
    <3> QED BY <3>1, <1>7, <1>12 DEF InFirstDays
  <2>2. y \in PublicSlot /\ y.day = d
    BY <2>1 DEF Horizon
  <2>3. PICK e \in 0 .. m - 1 : Has(slotsOf[e], x)
    BY <1>2, <1>3, <1>9, <1>12 DEF InFirstDays
  <2>4. e \in 0 .. n
    BY <1>6
  <2>5. x \in PublicSlot /\ x.day = e
    BY <2>3, <2>4 DEF Horizon
  <2>6. d <= e
    <3>1. x \in AnySlot /\ y \in AnySlot
      BY <2>2, <2>5, SuggestionOrder
    <3>2. y.day <= x.day
      BY <3>1, <1>12, SuggestionMeans DEF AnySlot
    <3> QED BY <3>2, <2>2, <2>5
  <2>7. d \in 0 .. m - 1
    BY <2>6, <1>6
  <2>8. Has(u, y)
    BY <2>1, <2>7, <1>2, <1>3 DEF InFirstDays
  <2>9. PICK j \in 1 .. Len(u) : u[j] = y
    BY <2>8 DEF Has
  <2>10. PICK i \in 1 .. Len(p) : p[i] = x
    BY <1>12 DEF Has
  <2>11. i \in 1 .. Len(u) /\ u[i] = x
    BY <2>10, <1>6
  <2>12. <<y, x>> \in Suggested /\ <<x, y>> \notin Suggested
    <3>1. <<y, x>> \in Suggested
      BY <2>2, <2>5, <1>12, SuggestionOrder
    <3> QED BY <3>1, <2>2, <2>5, SuggestionOrder DEF Strict
  <2>13. ~(i < j)
    BY <2>9, <2>11, <2>12, <1>3 DEF Ordered
  <2>14. j \in 1 .. Len(p)
    BY <2>10, <2>9, <2>13, <1>6
  <2> QED BY <2>14, <2>9, <1>6 DEF Has
<1>13. ASSUME Len(p) < l PROVE \A y : Has(all, y) => Has(p, y)
  <2>1. Len(u) < l /\ Len(p) = Len(u)
    BY <1>6, <1>13
  <2>2. m = n + 1
    BY <2>1, <1>2, <1>3, <1>6
  <2>3. \A y : Has(all, y) => Has(u, y)
    BY <2>2, <1>2, <1>3, <1>7
  <2> QED BY <2>1, <2>3, <1>6 DEF Has
<1> QED BY <1>5, <1>6, <1>8, <1>11, <1>12, <1>13

-----------------------------------------------------------------------------
(* get_public_booking_options.                                               *)

\* Nothing of what the web shows is lost by the bounded search.
LEMMA PublicSearchSuffices ==
    ASSUME NEW n \in Nat, NEW slotsOf, Horizon(n, slotsOf), NEW l \in Nat
    PROVE  GetPublicBookingOptions(slotsOf, n, l) =
               Upto(CollapsePublicSlots(AllSlots(n, slotsOf)), l)
<1> DEFINE L == PublicSearchLimit(l)
           all == AllSlots(n, slotsOf)
           p == SuggestNextSlots(slotsOf, n, L)
           b == CollapsePublicSlots(p)
           c == CollapsePublicSlots(all)
<1>1. L \in Nat /\ L = l * 3
  BY DEF PublicSearchLimit
<1>2. /\ p \in Seq(PublicSlot) /\ Ordered(Elsewhere, p) /\ Ordered(Suggested, p)
      /\ \A y : Has(p, y) => Has(all, y)
      /\ \A x, y : Has(p, x) /\ Has(all, y) /\ SuggestionBefore(y, x) => Has(p, y)
      /\ Len(p) >= L \/ \A y : Has(all, y) => Has(p, y)
  <2> HIDE DEF L
  <2> QED BY <1>1, SuggestMeans
<1>3. all \in Seq(PublicSlot) /\ Ordered(Elsewhere, all)
  BY AllSlotsMeans
<1>4. GetPublicBookingOptions(slotsOf, n, l) = Upto(b, l)
  BY DEF GetPublicBookingOptions
<1> HIDE DEF p, all, L
<1>5. /\ b \in Seq(PublicSlot) /\ Ordered(Suggested, b)
      /\ \A y : Has(b, y) <=>
             Has(p, y) /\ ~\E o : Has(p, o) /\ SameStart(o, y) /\ SuggestionBefore(o, y)
  BY <1>2, CollapseMeans
<1>6. /\ c \in Seq(PublicSlot) /\ Ordered(Suggested, c)
      /\ \A y : Has(c, y) <=>
             Has(all, y) /\ ~\E o : Has(all, o) /\ SameStart(o, y) /\ SuggestionBefore(o, y)
  BY <1>3, CollapseMeans
<1>7. Len(p) <= 3 * Len(b)
  BY <1>2, ThreePerStart
<1> HIDE DEF b, c
<1>8. \A y : Has(b, y) => Has(c, y)
  BY <1>2, <1>5, <1>6
<1>9. \A x, y : Has(b, x) /\ Has(c, y) /\ <<y, x>> \in Suggested => Has(b, y)
  <2> SUFFICES ASSUME NEW x, NEW y, Has(b, x), Has(c, y), <<y, x>> \in Suggested
               PROVE  Has(b, y)
    OBVIOUS
  <2>1. SuggestionBefore(y, x)
    BY DEF Suggested
  <2>2. Has(p, y)
    BY <2>1, <1>2, <1>5, <1>6
  <2> QED BY <2>2, <1>2, <1>5, <1>6
<1>10. Strict(Suggested, PublicSlot)
  BY SuggestionOrder
<1>11. Len(b) <= Len(c) /\ \A i \in 1 .. Len(b) : b[i] = c[i]
  BY <1>5, <1>6, <1>8, <1>9, <1>10, FirstOnesFirst
<1>12. Len(b) >= l \/ Len(b) = Len(c)
  <2>1. CASE Len(p) >= L
    <3>1. Len(p) \in Nat /\ Len(b) \in Nat
      BY <1>2, <1>5
    <3> QED BY <2>1, <3>1, <1>1, <1>7
  <2>2. CASE \A y : Has(all, y) => Has(p, y)
    <3>1. \A y : Has(c, y) => Has(b, y)
      BY <2>2, <1>2, <1>5, <1>6
    <3>2. Ordered(Different(PublicSlot), c)
      <4>1. \A i \in 1 .. Len(c) : c[i] \in PublicSlot
        BY <1>6
      <4> QED BY <4>1, <1>6, <1>10 DEF Ordered, Strict, Different
    <3>3. Len(c) <= Len(b)
      BY <3>1, <3>2, <1>5, <1>6, NotLonger
    <3> QED BY <3>3, <1>5, <1>6, <1>11
  <2> QED BY <2>1, <2>2, <1>2
<1>13. Upto(b, l) = Upto(c, l)
  <2> DEFINE x == Upto(b, l)
             y == Upto(c, l)
  <2>1. x \in Seq(PublicSlot) /\ Begins(x, b, l)
    BY <1>5, UptoMeans
  <2>2. y \in Seq(PublicSlot) /\ Begins(y, c, l)
    BY <1>6, UptoMeans
  <2> HIDE DEF x, y
  <2>3. Len(b) \in Nat /\ Len(c) \in Nat
    BY <1>5, <1>6
  <2>4. Len(x) = Len(y) /\ Len(x) <= Len(b)
    BY <2>1, <2>2, <2>3, <1>11, <1>12 DEF Begins, Least
  <2>5. \A k \in 1 .. Len(x) : x[k] = y[k]
    BY <2>1, <2>2, <2>3, <2>4, <1>11 DEF Begins
  <2>6. x = y
    BY <2>1, <2>2, <2>4, <2>5
  <2> QED BY <2>6 DEF x, y
<1> QED BY <1>4, <1>13 DEF c, all

-----------------------------------------------------------------------------
(* A day of the horizon.                                                     *)

\* The slots of the lines of a day are at different places or times.
LEMMA DaySlotsMeans ==
    ASSUME NEW day \in Int,
           NEW open \in Seq(AnyInterval), Proper(open), Ordered(Before, open),
           NEW busyOf \in [1 .. 3 -> Seq(AnyInterval)], \A l \in 1 .. 3 : Proper(busyOf[l]),
           NEW threshold \in Int, NEW n \in Nat \ {0},
           NEW slots, slots = DaySlots(day, open, busyOf, threshold, n, <<1, 2, 3>>)
    PROVE  /\ slots \in Seq(PublicSlot)
           /\ Ordered(Elsewhere, slots)
           /\ \A y : Has(slots, y) => y \in PublicSlot /\ y.day = day
<1> DEFINE On(l) == LineSlots(open, busyOf[l], threshold, n)
           Of(l) == [k \in DOMAIN On(l) |->
                        [line |-> l, day |-> day, from |-> On(l)[k].from, to |-> On(l)[k].to,
                         score |-> On(l)[k].score]]
           lines == <<1, 2, 3>>
           parts == [k \in DOMAIN lines |-> Of(lines[k])]
           flat == FlattenSeq(parts)
<1>1. slots = Sorted(BySuggestion, flat)
  BY DEF DaySlots, RankSlots
<1>2. DOMAIN lines = 1 .. 3 /\ \A k \in 1 .. 3 : lines[k] = k
  OBVIOUS
<1> HIDE DEF lines
<1>3. DOMAIN parts = 1 .. 3 /\ \A k \in 1 .. 3 : parts[k] = Of(k)
  BY <1>2
<1>4. ASSUME NEW l \in 1 .. 3
      PROVE  /\ Of(l) \in Seq(PublicSlot)
             /\ Ordered(Elsewhere, Of(l))
             /\ \A y : Has(Of(l), y) => y \in PublicSlot /\ y.day = day /\ y.line = l
  <2> DEFINE s == On(l)
             t == Of(l)
  <2>1. busyOf[l] \in Seq(AnyInterval) /\ Proper(busyOf[l])
    OBVIOUS
  <2>2. s \in Seq(PlainSlot) /\ Ordered(Earlier, s)
    BY <2>1, LineSlotsAreOffered
  <2>3. DOMAIN s = 1 .. Len(s) /\ Len(s) \in Nat /\ \A k \in 1 .. Len(s) : s[k] \in PlainSlot
    BY <2>2
  <2>4. /\ DOMAIN t = 1 .. Len(s)
        /\ \A k \in 1 .. Len(s) :
               t[k] = [line |-> l, day |-> day, from |-> s[k].from, to |-> s[k].to,
                       score |-> s[k].score]
    BY <2>3
  <2>5. t = [k \in 1 .. Len(s) |-> t[k]]
    BY <2>3
  <2> HIDE DEF s, t
  <2>6. \A k \in 1 .. Len(s) : /\ t[k] \in PublicSlot /\ t[k].day = day
                               /\ t[k].line = l /\ t[k].from = s[k].from
    <3> SUFFICES ASSUME NEW k \in 1 .. Len(s)
                 PROVE  /\ t[k] \in PublicSlot /\ t[k].day = day
                        /\ t[k].line = l /\ t[k].from = s[k].from
      OBVIOUS
    <3>1. s[k].from \in Int /\ s[k].to \in Int /\ s[k].score \in Int
      BY <2>3 DEF PlainSlot
    <3> QED BY <3>1, <2>4 DEF PublicSlot
  <2>7. t \in [1 .. Len(s) -> PublicSlot]
    BY <2>5, <2>6
  <2>8. t \in Seq(PublicSlot) /\ Len(t) = Len(s)
    <3>1. PICK m \in Nat : m = Len(s)
      BY <2>3
    <3>2. t \in [1 .. m -> PublicSlot]
      BY <2>7, <3>1
    <3>3. t \in Seq(PublicSlot) /\ Len(t) = m
      BY <3>2
    <3> QED BY <3>1, <3>3
  <2>9. Ordered(Elsewhere, t)
    <3> SUFFICES ASSUME NEW j \in 1 .. Len(s), NEW k \in 1 .. Len(s), j < k
                 PROVE  <<t[j], t[k]>> \in Elsewhere
      BY <2>8 DEF Ordered
    <3>1. <<s[j], s[k]>> \in Earlier
      BY <2>2 DEF Ordered
    <3>2. s[j].from # s[k].from
      BY <3>1 DEF Earlier, PlainSlot
    <3> QED BY <3>2, <2>6 DEF Elsewhere
  <2>10. \A y : Has(t, y) => y \in PublicSlot /\ y.day = day /\ y.line = l
    BY <2>6, <2>8 DEF Has
  <2> QED BY <2>8, <2>9, <2>10 DEF t
<1> HIDE DEF Of, parts
<1>5. parts \in [1 .. 3 -> Seq(PublicSlot)]
  <2>1. parts = [k \in 1 .. 3 |-> parts[k]]
    BY <1>3 DEF parts
  <2> QED BY <2>1, <1>3, <1>4
<1>6. PartsInOrder(Elsewhere, 3, parts)
  <2>1. \A k \in 1 .. 3 : Ordered(Elsewhere, parts[k])
    BY <1>3, <1>4
  <2>2. ASSUME NEW j \in 1 .. 3, NEW k \in 1 .. 3, j < k, NEW x, NEW y,
               Has(parts[j], x), Has(parts[k], y)
        PROVE  <<x, y>> \in Elsewhere
    <3>1. x \in PublicSlot /\ x.line = j /\ y \in PublicSlot /\ y.line = k
      BY <1>3, <1>4, <2>2
    <3>2. j # k
      BY <2>2
    <3> QED BY <3>1, <3>2 DEF Elsewhere
  <2> QED BY <2>1, <2>2 DEF PartsInOrder
<1>7. /\ FlattenSeq(parts) \in Seq(PublicSlot)
      /\ \A y : Has(FlattenSeq(parts), y) <=> \E k \in 1 .. 3 : Has(parts[k], y)
  BY <1>5, FlattenKeeps
<1>8. Ordered(Elsewhere, FlattenSeq(parts))
  BY <1>5, <1>6, FlattenOrdered
<1>9. \A y : Has(flat, y) => y \in PublicSlot /\ y.day = day
  BY <1>3, <1>4, <1>7
<1> HIDE DEF flat
<1>10. flat \in Seq(PublicSlot) /\ Ordered(Elsewhere, flat)
  BY <1>7, <1>8 DEF flat
<1>11. /\ Sorted(BySuggestion, flat) \in Seq(PublicSlot)
       /\ Ordered(Elsewhere, Sorted(BySuggestion, flat))
       /\ \A y : Has(Sorted(BySuggestion, flat), y) <=> Has(flat, y)
  BY <1>10, RankedStrictly
<1> QED BY <1>1, <1>9, <1>11

-----------------------------------------------------------------------------
(* The engine.                                                               *)

LEMMA OpeningsAreRules ==
    ASSUME NEW open \in OpeningLists
    PROVE  open \in Seq(AnyInterval) /\ Proper(open) /\ Ordered(Before, open)
<1>1. PICK k \in 1 .. MaxRules : open \in [1 .. k -> Rules]
  BY DEF OpeningLists
<1>2. k \in Nat /\ Len(open) = k /\ DOMAIN open = 1 .. k
  BY <1>1, SizeAssumption
<1>3. \A r \in Rules : r \in AnyInterval /\ r.from < r.to
  BY DayAssumption DEF Rules, Intervals, AnyInterval
<1>4. open \in [1 .. k -> AnyInterval]
  BY <1>1, <1>3
<1>5. open \in Seq(AnyInterval)
  BY <1>2, <1>4
<1>6. Proper(open)
  BY <1>1, <1>2, <1>3 DEF Proper
<1>7. Ordered(Before, open)
  <2> SUFFICES ASSUME NEW i \in 1 .. k, NEW j \in 1 .. k, i < j
               PROVE  <<open[i], open[j]>> \in Before
    BY <1>2 DEF Ordered
  <2>1. i \in 1 .. j - 1
    BY <1>2
  <2>2. open[i].to <= open[j].from
    BY <2>1, <1>2 DEF OpeningLists
  <2> QED BY <2>2, <1>4 DEF Before
<1> QED BY <1>5, <1>6, <1>7

LEMMA BusyDaysAreIntervals ==
    ASSUME NEW busy \in BusyDays
    PROVE  busy \in Seq(AnyInterval) /\ Proper(busy)
<1>1. PICK k \in 0 .. MaxBusy : busy \in [1 .. k -> Intervals]
  BY DEF BusyDays
<1>2. k \in Nat /\ Len(busy) = k
  BY <1>1, SizeAssumption
<1>3. \A r \in Intervals : r \in AnyInterval /\ r.from < r.to
  BY DayAssumption DEF Intervals, AnyInterval
<1>4. busy \in [1 .. k -> AnyInterval]
  BY <1>1, <1>3
<1> QED BY <1>1, <1>2, <1>3, <1>4 DEF Proper

\* Each question about a line is answered by what the answer means.
LEMMA LineAnswerMeans ==
    ASSUME NEW q \in LineQuestions
    PROVE  /\ OffersExactlyTheFreeSlots(q, LineSlots(q.open, q.busy, CeilToSlot(q.clock), q.n))
           /\ CoveredByRuleChain(Interval(q.clock, q.clock + q.n), q.open)
                  <=> CoveredBy(Interval(q.clock, q.clock + q.n), ToSet(q.open))
<1>1. q.open \in OpeningLists /\ q.busy \in BusyDays /\ q.clock \in 0 .. DayLen - 1 /\ q.n \in Lengths
  BY DEF LineQuestions
<1>2. q.open \in Seq(AnyInterval) /\ Proper(q.open) /\ Ordered(Before, q.open)
  BY <1>1, OpeningsAreRules
<1>3. q.busy \in Seq(AnyInterval) /\ Proper(q.busy)
  BY <1>1, BusyDaysAreIntervals
<1>4. q.clock \in Int /\ q.n \in Nat \ {0} /\ CeilToSlot(q.clock) \in Int
  <2>1. q.clock \in Int /\ q.n \in Nat \ {0}
    <3>1. \A n \in Lengths : n \in Nat \ {0}
      BY LengthAssumption
    <3>2. DayLen \in Nat
      BY DayAssumption
    <3>3. q.clock \in Int
      BY <1>1, <3>2
    <3> QED BY <1>1, <3>1, <3>3
  <2> QED BY <2>1, CeilIsFirst
<1> DEFINE slots == LineSlots(q.open, q.busy, CeilToSlot(q.clock), q.n)
           starts == [k \in DOMAIN slots |-> slots[k].from]
<1>5. /\ slots \in Seq(PlainSlot) /\ Ordered(Earlier, slots)
      /\ \A s \in Int : StartsAt(slots, s)
             <=> Offered(ToSet(q.open), ToSet(q.busy), CeilToSlot(q.clock), s, q.n)
  BY <1>2, <1>3, <1>4, LineSlotsAreOffered
<1> HIDE DEF slots
<1>6. DOMAIN slots = 1 .. Len(slots) /\ Len(slots) \in Nat
  BY <1>5
<1>7. /\ DOMAIN starts = 1 .. Len(slots) /\ Len(starts) = Len(slots)
      /\ \A k \in 1 .. Len(slots) : starts[k] = slots[k].from
  BY <1>6
<1>8. \A s : s \in ToSet(starts) <=> StartsAt(slots, s)
  <2> HIDE DEF starts
  <2> QED BY <1>7 DEF ToSet, StartsAt, Has
<1>9. \A k \in 2 .. Len(starts) : starts[k - 1] < starts[k]
  <2> SUFFICES ASSUME NEW k \in 2 .. Len(slots) PROVE slots[k - 1].from < slots[k].from
    <3> HIDE DEF starts
    <3> QED BY <1>6, <1>7
  <2>1. k - 1 \in 1 .. Len(slots) /\ k \in 1 .. Len(slots) /\ k - 1 < k
    BY <1>6
  <2>2. <<slots[k - 1], slots[k]>> \in Earlier
    BY <2>1, <1>5 DEF Ordered
  <2> QED BY <2>2 DEF Earlier
<1>10. 0 .. DayLen \subseteq Int
  OBVIOUS
<1>11. OffersExactlyTheFreeSlots(q, slots)
  <2> HIDE DEF starts
  <2>1. \A s \in 0 .. DayLen : s \in ToSet(starts) <=>
            Offered(ToSet(q.open), ToSet(q.busy), CeilToSlot(q.clock), s, q.n)
    BY <1>5, <1>8, <1>10
  <2> QED BY <2>1, <1>9 DEF OffersExactlyTheFreeSlots, starts
<1>12. Interval(q.clock, q.clock + q.n) \in ProperInterval
  BY <1>4 DEF Interval, ProperInterval, AnyInterval
<1> QED BY <1>2, <1>11, <1>12, ChainMeansCovered DEF slots

\* A question is put once and never changes; an answer to one about a line is its meaning.
EngineInv ==
    /\ question \in LineQuestions \/ question \in PublicQuestions
    /\ EngineMeansWhatItAnswers

(***************************************************************************)
(* For every length of the day, grid and duration, and any number of rules *)
(* and busy intervals: get_day_availability offers on each line exactly    *)
(* the free slots, in order, and _appointment_is_covered_by_rules accepts  *)
(* exactly the appointments all of whose minutes lie in a rule.            *)
(***************************************************************************)
THEOREM EngineSound == QuestionSpec => []EngineMeansWhatItAnswers
<1>1. Asking => EngineInv
  BY DEF Asking, EngineInv, EngineMeansWhatItAnswers, Answered, NotAnswered
<1>2. EngineInv /\ [Answering]_<<question, reply>> => EngineInv'
  <2> SUFFICES ASSUME EngineInv, [Answering]_<<question, reply>> PROVE EngineInv'
    OBVIOUS
  <2>1. CASE Answering /\ AnswerLine
    <3>1. question' = question
      BY <2>1 DEF Answering
    <3>2. question.kind = "line"
      BY <2>1 DEF AnswerLine
    <3>3. question \notin PublicQuestions
      BY <3>2 DEF PublicQuestions
    <3>4. question \in LineQuestions
      BY <3>3 DEF EngineInv
    <3>5. /\ reply'.slots = LineSlots(question.open, question.busy,
                                       CeilToSlot(question.clock), question.n)
          /\ reply'.covered = CoveredByRuleChain(
                 Interval(question.clock, question.clock + question.n), question.open)
      BY <2>1 DEF AnswerLine
    <3>6. EngineMeansWhatItAnswers'
      BY <3>1, <3>4, <3>5, LineAnswerMeans DEF EngineMeansWhatItAnswers
    <3> QED BY <3>1, <3>4, <3>6 DEF EngineInv
  <2>2. CASE Answering /\ AnswerPublic
    <3>1. question' = question
      BY <2>2 DEF Answering
    <3>2. question.kind # "line"
      BY <2>2 DEF AnswerPublic
    <3>3. EngineMeansWhatItAnswers'
      BY <3>1, <3>2 DEF EngineMeansWhatItAnswers, Answered
    <3> QED BY <3>1, <3>3 DEF EngineInv
  <2>3. CASE UNCHANGED <<question, reply>>
    BY <2>3 DEF EngineInv, EngineMeansWhatItAnswers, Answered
  <2> QED BY <2>1, <2>2, <2>3 DEF Answering
<1>3. EngineInv => EngineMeansWhatItAnswers
  BY DEF EngineInv
<1> QED BY <1>1, <1>2, <1>3, PTL DEF QuestionSpec

\* The days of a question about the public web are as the search needs them.
LEMMA QuestionHorizon ==
    ASSUME NEW q \in PublicQuestions
    PROVE  Horizon(DaysAhead, [d \in 0 .. DaysAhead |-> SlotsOf(q, d)])
<1>1. /\ q.busy \in [0 .. DaysAhead -> [1 .. 3 -> Occupations]]
      /\ q.clock \in {0, 1, Step + 1}
  BY DEF PublicQuestions
<1>2. DaysAhead \in Nat /\ Step \in Nat \ {0} /\ DayLen \in Nat /\ Step < DayLen
  BY DayAssumption, SizeAssumption, StepAssumption
<1>3. /\ AllDay \in Seq(AnyInterval) /\ Proper(AllDay) /\ Ordered(Before, AllDay)
  <2> DEFINE i == Interval(0, DayLen - 1)
  <2>1. i \in AnyInterval /\ i.from < i.to
    BY <1>2 DEF Interval, AnyInterval
  <2>2. AllDay = <<i>>
    BY DEF AllDay
  <2> HIDE DEF i
  <2> QED BY <2>1, <2>2 DEF Proper, Ordered
<1>4. ASSUME NEW o \in Occupations PROVE o \in Seq(AnyInterval) /\ Proper(o)
  <2> DEFINE one == Interval(0, Step)
             two == Interval(1, Step + 1)
             day == Interval(0, DayLen)
  <2>1. /\ one \in AnyInterval /\ one.from < one.to
        /\ two \in AnyInterval /\ two.from < two.to
        /\ day \in AnyInterval /\ day.from < day.to
    BY <1>2 DEF Interval, AnyInterval
  <2>2. o = <<>> \/ o = <<one>> \/ o = <<two>> \/ o = <<day>>
    BY DEF Occupations
  <2> HIDE DEF one, two, day
  <2>3. CASE o = <<>>
    <3>1. o \in Seq(AnyInterval) /\ Len(o) = 0
      BY <2>3
    <3> QED BY <3>1 DEF Proper
  <2>4. CASE \E i \in AnyInterval : i.from < i.to /\ o = <<i>>
    BY <2>4 DEF Proper
  <2> QED BY <2>1, <2>2, <2>3, <2>4
<1>5. CeilToSlot(q.clock) \in Int
  <2>1. q.clock \in Int
    BY <1>1, <1>2
  <2> QED BY <2>1, CeilIsFirst
<1>6. ASSUME NEW d \in 0 .. DaysAhead
      PROVE  /\ SlotsOf(q, d) \in Seq(PublicSlot)
             /\ Ordered(Elsewhere, SlotsOf(q, d))
             /\ \A y : Has(SlotsOf(q, d), y) => y \in PublicSlot /\ y.day = d
  <2> DEFINE busy == q.busy[d]
             threshold == IF d = 0 THEN CeilToSlot(q.clock) ELSE 0
  <2>1. busy \in [1 .. 3 -> Occupations]
    BY <1>1
  <2>2. threshold \in Int /\ d \in Int
    BY <1>2, <1>5
  <2>3. SlotsOf(q, d) = DaySlots(d, AllDay, busy, threshold, Step, <<1, 2, 3>>)
    BY DEF SlotsOf
  <2> HIDE DEF busy, threshold
  <2>4. busy \in [1 .. 3 -> Seq(AnyInterval)] /\ \A l \in 1 .. 3 : Proper(busy[l])
    <3>1. \A l \in 1 .. 3 : busy[l] \in Occupations
      BY <2>1
    <3>2. \A l \in 1 .. 3 : busy[l] \in Seq(AnyInterval) /\ Proper(busy[l])
      BY <3>1, <1>4
    <3> QED BY <3>2, <2>1
  <2> QED BY <1>2, <1>3, <2>2, <2>3, <2>4, DaySlotsMeans
<1> DEFINE slotsOf == [d \in 0 .. DaysAhead |-> SlotsOf(q, d)]
<1>7. \A d \in 0 .. DaysAhead : slotsOf[d] = SlotsOf(q, d)
  OBVIOUS
<1>8. slotsOf \in [0 .. DaysAhead -> Seq(PublicSlot)]
  BY <1>6
<1> HIDE DEF slotsOf
<1>9. Horizon(DaysAhead, slotsOf)
  BY <1>6, <1>7, <1>8 DEF Horizon
<1> QED BY <1>9 DEF slotsOf

LEMMA PublicAnswerMeans ==
    ASSUME NEW q \in PublicQuestions
    PROVE  GetPublicBookingOptions([d \in 0 .. DaysAhead |-> SlotsOf(q, d)], DaysAhead, Limit) =
               Upto(CollapsePublicSlots(
                        FlattenSeq([k \in 1 .. DaysAhead + 1 |-> SlotsOf(q, k - 1)])), Limit)
<1> DEFINE slotsOf == [d \in 0 .. DaysAhead |-> SlotsOf(q, d)]
<1>1. Horizon(DaysAhead, slotsOf)
  BY QuestionHorizon
<1>2. DaysAhead \in Nat /\ Limit \in Nat
  BY SizeAssumption
<1>3. [k \in 1 .. DaysAhead + 1 |-> slotsOf[k - 1]] =
          [k \in 1 .. DaysAhead + 1 |-> SlotsOf(q, k - 1)]
  <2>1. \A k \in 1 .. DaysAhead + 1 : k - 1 \in 0 .. DaysAhead
    BY <1>2
  <2> QED BY <2>1
<1>4. AllSlots(DaysAhead, slotsOf) =
          FlattenSeq([k \in 1 .. DaysAhead + 1 |-> SlotsOf(q, k - 1)])
  BY <1>3 DEF AllSlots
<1> HIDE DEF slotsOf
<1>5. GetPublicBookingOptions(slotsOf, DaysAhead, Limit) =
          Upto(CollapsePublicSlots(AllSlots(DaysAhead, slotsOf)), Limit)
  BY <1>1, <1>2, PublicSearchSuffices
<1> QED BY <1>4, <1>5 DEF slotsOf

\* An answer about the public web is its meaning.
PublicInv ==
    /\ question \in LineQuestions \/ question \in PublicQuestions
    /\ PublicOptionsLoseNothing

(***************************************************************************)
(* For every horizon and every number of options: the web shows the first  *)
(* starts of the whole horizon, each with its best line, although          *)
(* get_public_booking_options stops at three times as many raw slots.  A   *)
(* start has at most three of them, one for each line, and whatever the    *)
(* search left out comes after all it found.                               *)
(***************************************************************************)
THEOREM PublicSearchSound == QuestionSpec => []PublicOptionsLoseNothing
<1>1. Asking => PublicInv
  BY DEF Asking, PublicInv, PublicOptionsLoseNothing, Answered, NotAnswered
<1>2. PublicInv /\ [Answering]_<<question, reply>> => PublicInv'
  <2> SUFFICES ASSUME PublicInv, [Answering]_<<question, reply>> PROVE PublicInv'
    OBVIOUS
  <2>1. CASE Answering /\ AnswerPublic
    <3>1. question' = question
      BY <2>1 DEF Answering
    <3>2. question.kind = "public"
      BY <2>1 DEF AnswerPublic
    <3>3. question \notin LineQuestions
      BY <3>2 DEF LineQuestions
    <3>4. question \in PublicQuestions
      BY <3>3 DEF PublicInv
    <3>5. reply'.options = GetPublicBookingOptions(
                                [d \in 0 .. DaysAhead |-> SlotsOf(question, d)], DaysAhead, Limit)
      BY <2>1 DEF AnswerPublic
    <3>6. PublicOptionsLoseNothing'
      BY <3>1, <3>4, <3>5, PublicAnswerMeans DEF PublicOptionsLoseNothing, SlotsOf
    <3> QED BY <3>1, <3>4, <3>6 DEF PublicInv
  <2>2. CASE Answering /\ AnswerLine
    <3>1. question' = question
      BY <2>2 DEF Answering
    <3>2. question.kind # "public"
      BY <2>2 DEF AnswerLine
    <3>3. PublicOptionsLoseNothing'
      BY <3>1, <3>2 DEF PublicOptionsLoseNothing, Answered
    <3> QED BY <3>1, <3>3 DEF PublicInv
  <2>3. CASE UNCHANGED <<question, reply>>
    BY <2>3 DEF PublicInv, PublicOptionsLoseNothing, Answered
  <2> QED BY <2>1, <2>2, <2>3 DEF Answering
<1>3. PublicInv => PublicOptionsLoseNothing
  BY DEF PublicInv
<1> QED BY <1>1, <1>2, <1>3, PTL DEF QuestionSpec
==============================================================================
