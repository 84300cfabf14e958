---------------------------- MODULE NaturalFacts ----------------------------
(***************************************************************************)
(* What the other proofs need of the natural numbers: induction, with a    *)
(* set in the place of a predicate; least and greatest elements; and that  *)
(* a function defined by recursion exists and does what its definition     *)
(* says.                                                                   *)
(***************************************************************************)
EXTENDS Integers, FiniteSets, FiniteSetsExt, FiniteSetTheorems, WellFoundedInduction,
        TLAPS

\* What is true of 0, and of a number's successor whenever it is true of the number, is
\* true of every natural number: a set of numbers takes the place of the predicate.
LEMMA EveryNatural ==
  ASSUME NEW S, 0 \in S, \A n \in Nat : n \in S => n + 1 \in S
  PROVE  \A n \in Nat : n \in S
<1> SUFFICES ASSUME NEW k \in Nat, k \notin S PROVE FALSE
  OBVIOUS
<1> DEFINE T == {0..n : n \in Nat \ S}
<1>1. T \subseteq FiniteSubsetsOf(Nat) /\ T # {}
  <2>1. ASSUME NEW n \in Nat PROVE 0..n \in SUBSET Nat /\ IsFiniteSet(0..n)
    <3>1. 0 \in Int /\ n \in Int
      OBVIOUS
    <3> QED
      BY <3>1, FS_Interval
  <2> QED
    BY <2>1 DEF FiniteSubsetsOf
<1>2. PICK x \in T : \A y \in T : ~(<<y, x>> \in StrictSubsetOrdering(Nat))
  <2> HIDE DEF T
  <2> QED
    BY <1>1, FS_StrictSubsetOrderingWellFounded, WFMin
<1>3. PICK n \in Nat \ S : x = 0..n
  OBVIOUS
<1>4. n - 1 \in Nat /\ (n - 1) + 1 = n
  BY <1>3
<1>5. n - 1 \notin S
  BY <1>3, <1>4
<1>6. 0..(n - 1) \in T
  BY <1>4, <1>5
<1>7. <<0..(n - 1), x>> \in StrictSubsetOrdering(Nat)
  <2>1. 0..(n - 1) \in SUBSET Nat /\ x \in SUBSET Nat
    BY <1>3
  <2>2. 0..(n - 1) \subseteq x /\ n \in x /\ n \notin 0..(n - 1)
    BY <1>3
  <2> QED
    BY <2>1, <2>2 DEF StrictSubsetOrdering
<1> QED
  BY <1>2, <1>6, <1>7


\* Every set of natural numbers that has an element has a least one.
LEMMA LeastNatural ==
  ASSUME NEW S \in SUBSET Nat, S # {}
  PROVE  \E m \in S : \A x \in S : m <= x
<1> SUFFICES ASSUME \A m \in S : \E x \in S : ~(m <= x) PROVE FALSE
  OBVIOUS
<1> DEFINE T == {m \in Nat : \A x \in S : m <= x}
<1>1. 0 \in T
  OBVIOUS
<1>2. \A m \in Nat : m \in T => m + 1 \in T
  <2> SUFFICES ASSUME NEW m \in Nat, \A x \in S : m <= x, NEW x \in S PROVE m + 1 <= x
    OBVIOUS
  <2>1. m \notin S
    OBVIOUS
  <2> QED
    BY <2>1
<1>3. \A m \in Nat : m \in T
  <2> HIDE DEF T
  <2> QED
    BY <1>1, <1>2, EveryNatural
<1>4. PICK x : x \in S
  OBVIOUS
<1>5. x + 1 \in T
  <2> HIDE DEF T
  <2> QED
    BY <1>3, <1>4
<1> QED
  BY <1>4, <1>5

\* Some number of a bounded set of numbers is the greatest.
LEMMA GreatestNumber ==
  ASSUME NEW k \in Nat, NEW S \in SUBSET (1..k), S # {}
  PROVE  \E n \in S : \A m \in S : m <= n
<1> DEFINE T == {k - n : n \in S}
<1>1. \A n \in S : n \in Nat /\ k - n \in Nat
  OBVIOUS
<1>2. T \in SUBSET Nat /\ T # {}
  BY <1>1
<1>3. PICK x \in T : \A y \in T : x <= y
  BY <1>2, LeastNatural
<1>4. PICK n \in S : x = k - n
  OBVIOUS
<1>5. \A m \in S : k - n <= k - m
  BY <1>3, <1>4
<1> QED
  BY <1>1, <1>5

\* Min() of a set of natural numbers is its least element.
LEMMA MinIsLeast ==
  ASSUME NEW S \in SUBSET Nat, S # {}
  PROVE  Min(S) \in S /\ \A x \in S : Min(S) <= x
BY LeastNatural DEF Min

\* Max() of a set of natural numbers below a bound is its greatest element.
LEMMA MaxIsGreatest ==
  ASSUME NEW n \in Nat, NEW S \in SUBSET (0..n), S # {}
  PROVE  Max(S) \in S /\ \A x \in S : Max(S) >= x
<1> DEFINE T == {n - x : x \in S}
<1>1. T \in SUBSET Nat /\ T # {}
  <2>1. \A x \in S : n - x \in Nat
    OBVIOUS
  <2> QED
    BY <2>1
<1>2. PICK t \in T : \A u \in T : t <= u
  <2> HIDE DEF T
  <2> QED
    BY <1>1, LeastNatural
<1>3. PICK m \in S : t = n - m
  OBVIOUS
<1>4. \A x \in S : m >= x
  <2> SUFFICES ASSUME NEW x \in S PROVE m >= x
    OBVIOUS
  <2>1. n - m <= n - x
    BY <1>2, <1>3
  <2> QED
    BY <2>1
<1>5. \E y \in S : \A x \in S : y >= x
  BY <1>4
<1> QED
  BY <1>5 DEF Max

\* the functions on 0..n that go from a first value by a step to the next one
Goes(n, A, init, step) ==
  {g \in [0..n -> A] : g[0] = init /\ \A i \in 1..n : g[i] = step[<<g[i - 1], i>>]}

\* There is one, so that a recursive definition defines something.
LEMMA Folded ==
  ASSUME NEW n \in Nat, NEW A, NEW init \in A, NEW step \in [A \X (1..n) -> A]
  PROVE  Goes(n, A, init, step) # {}
<1> DEFINE Good(m, g) == g \in [0..m -> A] /\ g[0] = init
                           /\ \A i \in 1..m : g[i] = step[<<g[i - 1], i>>]
           S == {m \in Nat : m <= n => \E g : Good(m, g)}
<1>1. 0 \in S
  <2> DEFINE g == [i \in 0..0 |-> init]
  <2>1. g \in [0..0 -> A] /\ g[0] = init /\ 1..0 = {}
    OBVIOUS
  <2>2. Good(0, g)
    <3> HIDE DEF g
    <3> QED
      BY <2>1
  <2> HIDE DEF Good, g
  <2> QED
    BY <2>2
<1>2. \A m \in Nat : m \in S => m + 1 \in S
  <2> SUFFICES ASSUME NEW m \in Nat, m + 1 <= n, NEW g, Good(m, g)
               PROVE  \E h : Good(m + 1, h)
    <3> HIDE DEF Good
    <3> QED
      OBVIOUS
  <2> DEFINE next == step[<<g[m], m + 1>>]
             h == [i \in 0..m + 1 |-> IF i = m + 1 THEN next ELSE g[i]]
  <2>1. m \in 0..m /\ m + 1 \in 1..n /\ g \in [0..m -> A]
    OBVIOUS
  <2>2. next \in A
    BY <2>1
  <2>3. \A i \in 0..m : i \in 0..m + 1 /\ h[i] = g[i] /\ g[i] \in A
    OBVIOUS
  <2>4. h[m + 1] = next
    OBVIOUS
  <2>5. h \in [0..m + 1 -> A]
    <3>1. \A i \in 0..m + 1 : i = m + 1 \/ i \in 0..m
      OBVIOUS
    <3> HIDE DEF next
    <3> QED
      BY <2>2, <2>3, <3>1
  <2> HIDE DEF h
  <2>6. h[0] = init
    BY <2>3
  <2>7. \A i \in 1..m + 1 : h[i] = step[<<h[i - 1], i>>]
    <3> SUFFICES ASSUME NEW i \in 1..m + 1 PROVE h[i] = step[<<h[i - 1], i>>]
      OBVIOUS
    <3>1. i - 1 \in 0..m /\ h[i - 1] = g[i - 1]
      <4>1. i - 1 \in 0..m
        OBVIOUS
      <4> QED
        BY <4>1, <2>3
    <3>2. CASE i = m + 1
      BY <3>1, <3>2, <2>4
    <3>3. CASE i # m + 1
      <4>1. i \in 1..m /\ i \in 0..m
        BY <3>3
      <4> QED
        BY <3>1, <4>1, <2>3
    <3> QED
      BY <3>2, <3>3
  <2> QED
    BY <2>5, <2>6, <2>7
<1>3. n \in S
  <2> HIDE DEF S
  <2> QED
    BY <1>1, <1>2, EveryNatural
<1> QED
  BY <1>3 DEF Goes

\* And whatever takes that step everywhere stays among its values.
LEMMA FoldedTyped ==
  ASSUME NEW n \in Nat, NEW A, NEW h, h[0] \in A,
         \A i \in 1..n : h[i - 1] \in A => h[i] \in A
  PROVE  \A i \in 0..n : h[i] \in A
<1> DEFINE S == {m \in Nat : m <= n => h[m] \in A}
<1>1. 0 \in S
  OBVIOUS
<1>2. \A m \in Nat : m \in S => m + 1 \in S
  <2> SUFFICES ASSUME NEW m \in Nat, m + 1 <= n, h[m] \in A PROVE h[m + 1] \in A
    OBVIOUS
  <2>1. m + 1 \in 1..n /\ (m + 1) - 1 = m
    OBVIOUS
  <2> QED
    BY <2>1
<1>3. \A m \in Nat : m \in S
  <2> HIDE DEF S
  <2> QED
    BY <1>1, <1>2, EveryNatural
<1> QED
  BY <1>3
=============================================================================
