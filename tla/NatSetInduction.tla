-------------------------- MODULE NatSetInduction --------------------------
(***************************************************************************)
(* Induction over the naturals stated for sets: the numbers that satisfy a *)
(* formula form a set S, and S contains every number once it contains zero *)
(* and the successor of each of its members.                               *)
(***************************************************************************)
EXTENDS Integers, WellFoundedInduction, TLAPS

\* A set closed under successor that contains 0 contains every natural: the proof
\* takes a least number outside S.  Used for what lists of slots are charged.
LEMMA SetInduction ==
  ASSUME NEW S, 0 \in S, \A n \in Nat : n \in S => n + 1 \in S
  PROVE  Nat \subseteq S
<1> DEFINE T == Nat \ S
<1>1. SUFFICES ASSUME T # {} PROVE FALSE
  BY DEF T
<1>2. T \subseteq Nat
  OBVIOUS
<1>3. PICK x \in T : \A y \in T : ~ (<<y, x>> \in OpToRel(<, Nat))
  <2> HIDE DEF T
  <2> QED BY <1>1, <1>2, WFMin, NatLessThanWellFounded
<1>4. x \in Nat /\ x # 0 /\ x - 1 \in Nat
  <2>1. x \in Nat /\ x \notin S  BY DEF T
  <2> QED  BY <2>1
<1>5. <<x - 1, x>> \in OpToRel(<, Nat)
  BY <1>4 DEF OpToRel
<1>6. x - 1 \in S
  <2>1. x - 1 \notin T  BY <1>3, <1>5
  <2> QED  BY <1>4, <2>1 DEF T
<1>7. x = (x - 1) + 1
  BY <1>4
<1>8. x \in S
  BY <1>4, <1>6, <1>7
<1> QED  BY <1>8 DEF T

\* h comes from applying steps to first, the k-th of n by G, as long as X is not left.
Iterates(h, first, n, G, X) ==
  /\ h[0] = first
  /\ \A k \in 1..n : h[k - 1] \in X => h[k] = G[<<k, h[k - 1]>>]

\* Steps that stay in X: there is a sequence of their values, and every such
\* sequence stays in X.  Used for the operations of a package.
LEMMA Iteration ==
  ASSUME NEW n \in Nat, NEW X, NEW first \in X, NEW G \in [(1..n) \X X -> X]
  PROVE  /\ \E g \in [0..n -> X] : Iterates(g, first, n, G, X)
         /\ \A h : Iterates(h, first, n, G, X) => \A k \in 0..n : h[k] \in X
<1> DEFINE Until(g, m) == /\ g \in [0..m -> X]
                          /\ g[0] = first
                          /\ \A k \in 1..m : g[k] = G[<<k, g[k - 1]>>]
           S == {m \in Nat : m <= n => \E g : Until(g, m)}
<1>1. 0 \in S
  <2>1. Until([k \in 0..0 |-> first], 0)
    OBVIOUS
  <2> QED  BY <2>1
<1>2. ASSUME NEW m \in Nat, m \in S PROVE m + 1 \in S
  <2>1. SUFFICES ASSUME m + 1 <= n PROVE \E g : Until(g, m + 1)
    <3> HIDE DEF Until
    <3> QED  OBVIOUS
  <2>2. PICK g : Until(g, m)
    <3> HIDE DEF Until
    <3>1. m <= n  BY <2>1
    <3> QED  BY <1>2, <3>1
  <2> DEFINE x == G[<<m + 1, g[m]>>]
             h == [k \in 0..(m + 1) |-> IF k = m + 1 THEN x ELSE g[k]]
  <2>3. x \in X
    <3>1. g[m] \in X /\ m + 1 \in 1..n
      BY <2>1, <2>2
    <3> QED  BY <3>1
  <2>4. h \in [0..(m + 1) -> X] /\ h[0] = first
    <3> HIDE DEF x
    <3> QED  BY <2>2, <2>3
  <2>5. \A k \in 1..(m + 1) : h[k] = G[<<k, h[k - 1]>>]
    <3> TAKE k \in 1..(m + 1)
    <3>1. CASE k = m + 1
      <4>1. h[k] = x /\ h[k - 1] = g[m]
        <5> HIDE DEF x
        <5> QED  BY <3>1
      <4> QED  BY <3>1, <4>1
    <3>2. CASE k # m + 1
      <4>1. k \in 1..m
        BY <3>2
      <4>2. h[k] = g[k] /\ h[k - 1] = g[k - 1]
        <5> HIDE DEF x
        <5> QED  BY <4>1
      <4> QED  BY <2>2, <4>1, <4>2
    <3> QED  BY <3>1, <3>2
  <2> HIDE DEF h
  <2> QED  BY <2>4, <2>5
<1>3. Nat \subseteq S
  <2> HIDE DEF S
  <2> QED  BY <1>1, <1>2, SetInduction
<1>4. \E g : Until(g, n)
  <2> HIDE DEF Until
  <2> QED  BY <1>3
<1>5. ASSUME NEW h, Iterates(h, first, n, G, X)
      PROVE  \A k \in 0..n : h[k] \in X
  <2> DEFINE R == {m \in Nat : m <= n => h[m] \in X}
  <2>1. 0 \in R
    BY <1>5 DEF Iterates
  <2>2. ASSUME NEW m \in Nat, m \in R PROVE m + 1 \in R
    <3>1. SUFFICES ASSUME m + 1 <= n PROVE h[m + 1] \in X
      OBVIOUS
    <3>2. m + 1 \in 1..n /\ (m + 1) - 1 = m /\ h[m] \in X
      BY <2>2, <3>1
    <3>3. h[m + 1] = G[<<m + 1, h[m]>>]
      BY <1>5, <3>2 DEF Iterates
    <3> QED  BY <3>2, <3>3
  <2>3. Nat \subseteq R
    <3> HIDE DEF R
    <3> QED  BY <2>1, <2>2, SetInduction
  <2> QED  BY <2>3
<1>6. \E g \in [0..n -> X] : Iterates(g, first, n, G, X)
  BY <1>4 DEF Iterates
<1> QED  BY <1>5, <1>6
============================================================================
