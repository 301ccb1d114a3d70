------------------------------ MODULE Recursion ------------------------------
(***************************************************************************)
(* What the proofs about recursive functions of numbers rest on: induction *)
(* on sets, which needs no operator as a parameter, and that a function of *)
(* the form                                                                *)
(*                                                                         *)
(*     f[n \in 0..N] == IF n \in B THEN C[n] ELSE G[n][f[J[n]]]            *)
(*                                                                         *)
(* exists, where J leads from a number not in B to a smaller one.  A       *)
(* function of a specification that is written so is therefore equal to    *)
(* the right side of its definition, which is all a proof needs of it.     *)
(***************************************************************************)
EXTENDS Integers, WellFoundedInduction, TLAPS

\* A set of numbers that is not empty has a least one.
LEMMA LeastNumber ==
  ASSUME NEW T, T \subseteq Nat, T # {}
  PROVE  \E m \in T : \A k \in T : m <= k
<1> DEFINE R == OpToRel(<, Nat)
<1>1. IsWellFoundedOn(R, Nat)
  BY NatLessThanWellFounded
<1>3. \A x, y \in Nat : <<y, x>> \in R <=> y < x
  BY DEF R, OpToRel
<1> HIDE DEF R
<1>2. PICK m \in T : \A k \in T : ~ (<<k, m>> \in R)
  BY <1>1, WFMin
<1>4. \A k \in T : ~(k < m)
  BY <1>2, <1>3
<1>5. \A k \in T : k \in Nat /\ m \in Nat
  BY <1>2
<1>6. \A k \in T : m <= k
  BY <1>4, <1>5
<1> QED
  BY <1>6, <1>2

\* Induction up to N: a set that has each number of 0..N whose predecessors it
\* has, has them all.
LEMMA UpTo ==
  ASSUME NEW N \in Nat, NEW S,
         \A n \in 0..N : (\A k \in 0..(n - 1) : k \in S) => n \in S
  PROVE  \A n \in 0..N : n \in S
<1> DEFINE Bad == {n \in 0..N : n \notin S}
<1>1. Bad = {}
  <2> SUFFICES ASSUME Bad # {} PROVE FALSE
    OBVIOUS
  <2>1. Bad \subseteq Nat
    OBVIOUS
  <2> HIDE DEF Bad
  <2>2. PICK m \in Bad : \A k \in Bad : m <= k
    BY <2>1, LeastNumber
  <2>3. m \in 0..N /\ m \notin S
    BY DEF Bad
  <2>4. ASSUME NEW k \in 0..(m - 1) PROVE k \in S
    <3>1. k \in 0..N /\ ~(m <= k)
      BY <2>3
    <3> QED
      BY <2>2, <3>1 DEF Bad
  <2> QED
    BY <2>3, <2>4
<1> QED
  BY <1>1

-----------------------------------------------------------------------------
\* N, B, C, J and G are as above, with values in X.
IsRecursion(N, X, B, C, J, G) ==
  /\ N \in Nat /\ 0 \in B
  /\ C \in [0..N -> X] /\ J \in [0..N -> 0..N] /\ G \in [0..N -> [X -> X]]
  /\ \A n \in 0..N : n \notin B => J[n] < n

\* f satisfies the equation.
Recurses(f, N, B, C, J, G) ==
  \A n \in 0..N : f[n] = IF n \in B THEN C[n] ELSE G[n][f[J[n]]]

\* The equation has a solution: by induction on n it has one on 0..n, which
\* extends the one on 0..(n - 1).
LEMMA RecursionExists ==
  ASSUME NEW N, NEW X, NEW B, NEW C, NEW J, NEW G,
         IsRecursion(N, X, B, C, J, G)
  PROVE  \E f \in [0..N -> X] : Recurses(f, N, B, C, J, G)
<1> USE DEF IsRecursion
<1> DEFINE Up(n, f) == /\ f \in [0..n -> X]
                       /\ \A i \in 0..n :
                            f[i] = IF i \in B THEN C[i] ELSE G[i][f[J[i]]]
           Bad == {n \in 0..N : ~ \E f : Up(n, f)}
<1>1. Bad = {}
  <2> SUFFICES ASSUME Bad # {} PROVE FALSE
    OBVIOUS
  <2>0. Bad \subseteq Nat
    OBVIOUS
  <2> HIDE DEF Bad
  <2>1. PICK m \in Bad : \A k \in Bad : m <= k
    BY <2>0, LeastNumber
  <2>2. m \in 0..N /\ \A f : ~Up(m, f)
    BY DEF Bad
  <2>3. CASE m = 0
    <3>1. Up(0, [i \in 0..0 |-> C[0]])
      OBVIOUS
    <3> QED
      BY <2>2, <2>3, <3>1
  <2>4. CASE m # 0
    <3>1. m - 1 \in 0..N /\ m - 1 \notin Bad
      <4>1. m - 1 \in 0..N /\ ~(m <= m - 1)
        BY <2>2, <2>4
      <4> QED
        BY <4>1, <2>1
    <3>2. PICK f : Up(m - 1, f)
      BY <3>1 DEF Bad
    <3> DEFINE v == IF m \in B THEN C[m] ELSE G[m][f[J[m]]]
               g == [i \in 0..m |-> IF i = m THEN v ELSE f[i]]
    <3>3. v \in X
      <4>1. m \notin B => J[m] \in 0..(m-1)
        BY <2>2, <2>4
      <4>2. m \notin B => f[J[m]] \in X
        BY <4>1, <3>2
      <4> QED
        BY <4>2, <2>2
    <3>4. \A i \in 0..m : i = m \/ i \in 0..(m-1)
      BY <2>2
    <3>5. g \in [0..m -> X]
      BY <3>2, <3>3, <3>4
    <3>6. ASSUME NEW i \in 0..m
          PROVE  g[i] = IF i \in B THEN C[i] ELSE G[i][g[J[i]]]
      <4>1. i \notin B => J[i] \in 0..(m-1) /\ J[i] \in 0..(i-1)
        BY <2>2
      <4>2. i \notin B => g[J[i]] = f[J[i]]
        <5>1. \A k \in 0..(m - 1) : k \in 0..m /\ k # m
          BY <2>2
        <5>2. \A k \in 0..(m - 1) : g[k] = f[k]
          BY <5>1
        <5> QED
          BY <4>1, <5>2
      <4>3. CASE i = m
        BY <4>3, <4>2
      <4>4. CASE i # m
        BY <4>4, <4>2, <3>4, <3>2
      <4> QED
        BY <4>3, <4>4
    <3> HIDE DEF g
    <3> QED
      BY <3>5, <3>6, <2>2
  <2> QED
    BY <2>3, <2>4
<1>2. PICK f : Up(N, f)
  <2>1. N \in 0..N
    OBVIOUS
  <2> HIDE DEF Up
  <2>2. N \in 0..N => \E f : Up(N, f)
    BY <1>1
  <2> QED
    BY <2>1, <2>2
<1> QED
  BY <1>2 DEF Recurses

\* The case in which f only looks for a number to give the value of.
IsDescent(N, X, B, C, J) ==
  /\ N \in Nat /\ 0 \in B /\ C \in [0..N -> X] /\ J \in [0..N -> 0..N]
  /\ \A n \in 0..N : n \notin B => J[n] < n

LEMMA DescentExists ==
  ASSUME NEW N, NEW X, NEW B, NEW C, NEW J, IsDescent(N, X, B, C, J)
  PROVE  \E f \in [0..N -> X] :
           \A n \in 0..N : f[n] = IF n \in B THEN C[n] ELSE f[J[n]]
<1> DEFINE G == [n \in 0..N |-> [x \in X |-> x]]
<1>1. G \in [0..N -> [X -> X]]
  OBVIOUS
<1>2. PICK f \in [0..N -> X] : Recurses(f, N, B, C, J, G)
  <2> HIDE DEF G
  <2>1. IsRecursion(N, X, B, C, J, G)
    BY <1>1 DEF IsDescent, IsRecursion
  <2> QED
    BY <2>1, RecursionExists
<1> QED
  BY <1>2 DEF IsDescent, Recurses

=============================================================================
