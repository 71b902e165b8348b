----------------------------- MODULE Induction -----------------------------
(***************************************************************************)
(* Induction and recursion over the natural numbers, stated for sets and   *)
(* functions: the steps of a computation are numbered, and what is said of *)
(* every number is membership in a set.                                    *)
(***************************************************************************)
EXTENDS Naturals, FiniteSets, FiniteSetTheorems, WellFoundedInduction, TLAPS

\* A set of natural numbers that is not empty has a least member.
LEMMA LeastNumber ==
    ASSUME NEW S, S \subseteq Nat, S # {}
    PROVE  \E m \in S : \A n \in S : m <= n
<1> DEFINE less == OpToRel(<, Nat)
<1>1. IsWellFoundedOn(less, Nat)
  BY NatLessThanWellFounded
<1>2. PICK m \in S : \A n \in S : <<n, m>> \notin less
  <2> HIDE DEF less
  <2> QED
    BY <1>1, WFMin
<1>3. \A n \in S : ~(n < m)
  BY <1>2 DEF OpToRel
<1> QED
  BY <1>3

\* A set with 0 and the successors of its members holds all natural numbers.
LEMMA SetInduction ==
    ASSUME NEW S, 0 \in S, \A n \in Nat : n \in S => n + 1 \in S
    PROVE  Nat \subseteq S
<1> SUFFICES ASSUME Nat \ S # {} PROVE FALSE
  OBVIOUS
<1>1. PICK m \in Nat \ S : \A n \in Nat \ S : m <= n
  BY LeastNumber
<1>2. m - 1 \in Nat /\ m - 1 \in S
  BY <1>1
<1> QED
  BY <1>1, <1>2

\* A bounded set of numbers has a greatest one.
LEMMA GreatestNumber ==
    ASSUME NEW S, S \subseteq Nat, S # {}, NEW b \in Nat, \A n \in S : n <= b
    PROVE  \E m \in S : \A n \in S : n <= m
<1> DEFINE T == {b - n : n \in S}
<1>1. PICK t \in T : \A u \in T : t <= u
  <2>0. \A n \in S : b - n \in Nat
    OBVIOUS
  <2>1. T \subseteq Nat /\ T # {}
    BY <2>0
  <2> HIDE DEF T
  <2> QED
    BY <2>1, LeastNumber
<1>2. PICK m \in S : t = b - m
  OBVIOUS
<1>3. \A n \in S : b - n \in T
  OBVIOUS
<1> QED
  BY <1>1, <1>2, <1>3

\* The function that starts at a and takes step i from its value at i.
Runs(f, a, F) == f[0] = a /\ \A i \in Nat : f[i + 1] = F[<<i, f[i]>>]

\* Every step function has a run from every start.
LEMMA Recursion ==
    ASSUME NEW T, NEW a \in T, NEW F \in [Nat \X T -> T]
    PROVE  \E f \in [Nat -> T] : Runs(f, a, F)
<1> DEFINE part(n, g) == /\ g[0] = a
                         /\ \A i \in Nat : i < n => g[i + 1] = F[<<i, g[i]>>]
           parted == {n \in Nat : \E g \in [Nat -> T] : part(n, g)}
<1>1. Nat \subseteq parted
  <2>1. 0 \in parted
    <3>1. [i \in Nat |-> a] \in [Nat -> T] /\ part(0, [i \in Nat |-> a])
      OBVIOUS
    <3> QED
      BY <3>1
  <2>2. ASSUME NEW n \in parted
        PROVE  n + 1 \in parted
    <3>1. PICK g \in [Nat -> T] : part(n, g)
      OBVIOUS
    <3> DEFINE h == [i \in Nat |-> IF i = n + 1 THEN F[<<n, g[n]>>] ELSE g[i]]
    <3>2. F[<<n, g[n]>>] \in T
      BY <3>1
    <3>3. h \in [Nat -> T] /\ h[n + 1] = F[<<n, g[n]>>]
      BY <3>1, <3>2
    <3>4. \A i \in Nat : i < n + 1 => h[i] = g[i]
      OBVIOUS
    <3> HIDE DEF h
    <3>5. ASSUME NEW i \in Nat, i < n + 1
          PROVE  h[i + 1] = F[<<i, h[i]>>]
      <4>1. CASE i < n
        <5>1. h[i + 1] = g[i + 1] /\ h[i] = g[i]
          BY <3>4, <4>1
        <5> QED
          BY <3>1, <4>1, <5>1
      <4>2. CASE i = n
        BY <3>3, <3>4, <4>2
      <4> QED
        BY <3>5, <4>1, <4>2
    <3>6. part(n + 1, h)
      BY <3>1, <3>4, <3>5
    <3> QED
      BY <3>3, <3>6
  <2> HIDE DEF parted
  <2> QED
    BY <2>1, <2>2, SetInduction
<1> DEFINE g == [n \in Nat |-> CHOOSE h \in [Nat -> T] : part(n, h)]
           f == [n \in Nat |-> g[n][n]]
<1>2. \A n \in Nat : g[n] \in [Nat -> T] /\ part(n, g[n])
  BY <1>1
<1>3. ASSUME NEW n \in Nat
      PROVE  g[n + 1][n] = g[n][n]
  <2> DEFINE same == {i \in Nat : i <= n => g[n + 1][i] = g[n][i]}
  <2> HIDE DEF g
  <2>1. 0 \in same
    BY <1>2
  <2>2. ASSUME NEW i \in Nat, i \in same
        PROVE  i + 1 \in same
    <3>1. CASE i + 1 <= n
      <4>1. g[n + 1][i] = g[n][i]
        BY <2>2, <3>1
      <4>2. /\ g[n + 1][i + 1] = F[<<i, g[n + 1][i]>>]
            /\ g[n][i + 1] = F[<<i, g[n][i]>>]
        BY <1>2, <3>1
      <4> QED
        BY <4>1, <4>2
    <3> QED
      BY <3>1
  <2>3. Nat \subseteq same
    <3> HIDE DEF same
    <3> QED
      BY <2>1, <2>2, SetInduction
  <2> QED
    BY <2>3
<1>4. f \in [Nat -> T]
  <2> HIDE DEF g
  <2> QED
    BY <1>2
<1>5. f[0] = a
  <2> HIDE DEF g
  <2> QED
    BY <1>2
<1>6. ASSUME NEW i \in Nat
      PROVE  f[i + 1] = F[<<i, f[i]>>]
  <2> HIDE DEF g
  <2>1. g[i + 1][i + 1] = F[<<i, g[i + 1][i]>>]
    BY <1>2
  <2> QED
    BY <1>3, <2>1
<1> QED
  BY <1>4, <1>5, <1>6 DEF Runs
=============================================================================
