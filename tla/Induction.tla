----------------------------- MODULE Induction -----------------------------
(***************************************************************************)
(* Induction over the naturals and recursive functions in a first-order    *)
(* form: the induction theorems of the library take an operator, these     *)
(* take sets and functions, so a leaf of a proof can cite them.            *)
(***************************************************************************)
EXTENDS Integers, TLAPS, WellFoundedInduction

\* A non-empty set of naturals has a least element: the form in which the
\* proofs about chains, heaps and loops use induction.
LEMMA LeastNat ==
    ASSUME NEW S \in SUBSET Nat, S # {}
    PROVE  \E m \in S : \A k \in S : m <= k
<1> DEFINE R == OpToRel(<, Nat)
<1>1. IsWellFoundedOn(R, Nat)
  BY NatLessThanWellFounded
<1> HIDE DEF R
<1>2. \A x, y \in Nat : <<y, x>> \in R <=> y < x
  BY DEF R, OpToRel
<1>3. PICK m \in S : \A y \in S : ~(<<y, m>> \in R)
  BY <1>1, WFMin
<1>4. ASSUME NEW k \in S PROVE m <= k
  <2>1. <<k, m>> \notin R
    BY <1>3
  <2>2. k \in Nat /\ m \in Nat
    OBVIOUS
  <2>3. ~(k < m)
    BY <2>1, <2>2, <1>2
  <2>4. QED
    BY <2>2, <2>3
<1>5. QED
  BY <1>4

\* step makes the value at i of 1..n from the one at i - 1, and c is the first.
Recursion(n, T, c, step) == n \in Nat /\ c \in T /\ step \in [T \X (1 .. n) -> T]
IsRecursive(f, n, T, c, step) ==
    /\ f \in [0 .. n -> T] /\ f[0] = c
    /\ \A i \in 1 .. n : f[i] = step[<<f[i - 1], i>>]

\* A function defined by recursion on 0..n exists.
LEMMA FiniteRecursion ==
    ASSUME NEW n, NEW T, NEW c, NEW step, Recursion(n, T, c, step)
    PROVE  \E f : IsRecursive(f, n, T, c, step)
<1> n \in Nat /\ c \in T /\ step \in [T \X (1 .. n) -> T]
  BY DEF Recursion
<1> DEFINE Good(f, m) == \A i \in 0 .. m : f[i] = IF i = 0 THEN c ELSE step[<<f[i - 1], i>>]
           Has(m) == \E f \in [0 .. m -> T] : Good(f, m)
           Bad == {m \in 0 .. n : ~Has(m)}
<1>1. Bad = {}
  <2>1. SUFFICES ASSUME Bad # {} PROVE FALSE
    OBVIOUS
  <2>2. Bad \in SUBSET Nat
    OBVIOUS
  <2>3. PICK m \in Bad : \A k \in Bad : m <= k
    BY <2>1, <2>2, LeastNat
  <2>4. m # 0
    <3>1. [i \in 0 .. 0 |-> c] \in [0 .. 0 -> T] /\ Good([i \in 0 .. 0 |-> c], 0)
      OBVIOUS
    <3>2. QED
      BY <3>1
  <2>5. m - 1 \in 0 .. n /\ m \in 1 .. n /\ Has(m - 1)
    <3> HIDE DEF Has
    <3>1. m \in 1 .. n
      BY <2>3, <2>4
    <3>2. QED
      BY <2>3, <3>1
  <2>6. PICK g \in [0 .. m - 1 -> T] : Good(g, m - 1)
    BY <2>5
  <2> DEFINE f == [i \in 0 .. m |-> IF i = m THEN step[<<g[m - 1], m>>] ELSE g[i]]
  <2>7. g[m - 1] \in T /\ <<g[m - 1], m>> \in T \X (1 .. n)
    BY <2>5
  <2>8. step[<<g[m - 1], m>>] \in T
    BY <2>7
  <2>9. f \in [0 .. m -> T]
    BY <2>8, <2>5
  <2>10. \A i \in 0 .. m - 1 : f[i] = g[i]
    BY <2>5
  <2>11. f[m] = step[<<f[m - 1], m>>]
    <3>1. f[m] = step[<<g[m - 1], m>>] /\ f[m - 1] = g[m - 1]
      BY <2>5
    <3>2. QED
      BY <3>1
  <2>12. ASSUME NEW i \in 0 .. m
         PROVE  f[i] = IF i = 0 THEN c ELSE step[<<f[i - 1], i>>]
    <3>1. CASE i = m
      BY <3>1, <2>11, <2>4
    <3>2. CASE i # m /\ i # 0
      <4>1. i \in 0 .. m - 1 /\ i - 1 \in 0 .. m - 1
        BY <3>2, <2>5
      <4>2. g[i] = step[<<g[i - 1], i>>]
        BY <4>1, <2>6, <3>2
      <4>3. QED
        BY <4>1, <4>2, <2>10, <3>2
    <3>3. CASE i = 0
      <4>1. 0 \in 0 .. m - 1
        BY <2>5
      <4>2. QED
        BY <4>1, <2>6, <2>10, <3>3
    <3>4. QED
      BY <3>1, <3>2, <3>3
  <2>13. Good(f, m)
    BY <2>12
  <2>14. QED
    BY <2>9, <2>13, <2>3
<1>2. Has(n)
  <2> HIDE DEF Has
  <2>1. QED
    BY <1>1
<1>3. PICK f \in [0 .. n -> T] : Good(f, n)
  BY <1>2
<1>4. 0 \in 0 .. n /\ \A i \in 1 .. n : i \in 0 .. n /\ i # 0
  OBVIOUS
<1>5. IsRecursive(f, n, T, c, step)
  BY <1>3, <1>4 DEF IsRecursive
<1>6. QED
  BY <1>5
=============================================================================
