---------------------------- MODULE FoldTheorems ----------------------------
(***************************************************************************)
(* Induction and recursion for sets instead of predicates: the forms that  *)
(* a proof about a counter or a sum needs, and what SumFunction does for a *)
(* function on a finite set.                                               *)
(*                                                                         *)
(* The induction rules of the library take a predicate as a parameter.     *)
(* Here the predicate is the set of the numbers, or of the subsets, that   *)
(* satisfy it.                                                             *)
(***************************************************************************)
EXTENDS Naturals, FiniteSets, Functions, FiniteSetTheorems, TLAPS

\* A set of numbers that is not empty has a least one.
LEMMA LeastNumber ==
    ASSUME NEW S \in SUBSET Nat, S # {}
    PROVE  \E x \in S : \A y \in S : x <= y
  <1>1. PICK x \in S : \A y \in S : <<y, x>> \notin OpToRel(<, Nat)
    BY WFMin, NatLessThanWellFounded
  <1>2. ASSUME NEW y \in S PROVE x <= y
    <2>1. x \in Nat /\ y \in Nat
      OBVIOUS
    <2>2. <<y, x>> \in Nat \X Nat /\ <<y, x>>[1] = y /\ <<y, x>>[2] = x
      BY <2>1
    <2>3. ~(y < x)
      BY <1>1, <2>2, Zenon DEF OpToRel
    <2> QED
      BY <2>1, <2>3
  <1> QED
    BY <1>2

\* A set of numbers with 0 and the successor of each of its members has them all.
LEMMA NumberInduction ==
    ASSUME NEW G, 0 \in G, \A n \in Nat : n \in G => n + 1 \in G
    PROVE  \A n \in Nat : n \in G
  <1> SUFFICES ASSUME Nat \ G # {} PROVE FALSE
    OBVIOUS
  <1>1. PICK x \in Nat \ G : \A y \in Nat \ G : x <= y
    BY LeastNumber
  <1>2. x - 1 \in Nat /\ x - 1 < x /\ (x - 1) + 1 = x
    BY <1>1
  <1>3. x - 1 \in G
    BY <1>1, <1>2
  <1> QED
    BY <1>1, <1>2, <1>3

\* A set of subsets of S with {}, and with each one from which every single
\* member can be removed, has S.
LEMMA SubsetInduction ==
    ASSUME NEW S, IsFiniteSet(S), NEW G, {} \in G,
           \A T \in SUBSET S : T # {} /\ (\A x \in T : T \ {x} \in G) => T \in G
    PROVE  \A T \in SUBSET S : T \in G
  <1> DEFINE N == {n \in Nat : \A T \in SUBSET S : Cardinality(T) = n => T \in G}
  <1>1. 0 \in N
    BY FS_Subset, FS_EmptySet
  <1>2. ASSUME NEW n \in Nat, n \in N PROVE n + 1 \in N
    <2> SUFFICES ASSUME NEW T \in SUBSET S, Cardinality(T) = n + 1 PROVE T \in G
      OBVIOUS
    <2>1. IsFiniteSet(T) /\ T # {}
      BY FS_Subset, FS_EmptySet
    <2>2. ASSUME NEW x \in T PROVE T \ {x} \in G
      <3>1. Cardinality(T \ {x}) = Cardinality(T) - 1
        BY <2>1, FS_RemoveElement
      <3>2. Cardinality(T \ {x}) = n /\ T \ {x} \in SUBSET S
        BY <3>1
      <3> QED
        BY <1>2, <3>2
    <2> QED
      BY <2>1, <2>2
  <1> HIDE DEF N
  <1>3. \A n \in Nat : n \in N
    BY <1>1, <1>2, NumberInduction
  <1> QED
    <2> SUFFICES ASSUME NEW T \in SUBSET S PROVE T \in G
      OBVIOUS
    <2>1. Cardinality(T) \in Nat
      BY FS_Subset, FS_CardinalityType
    <2> QED
      BY <1>3, <2>1 DEF N

-----------------------------------------------------------------------------
(* Recursion.                                                              *)

\* A sequence that starts with b and goes on with h.
Iterates(f, b, h) == f[0] = b /\ \A n \in Nat : f[n + 1] = h[f[n]]

\* A first value and a step determine a sequence.
LEMMA NumberRecursion ==
    ASSUME NEW D, NEW b \in D, NEW h \in [D -> D]
    PROVE  \E f \in [Nat -> D] : Iterates(f, b, h)
  <1> DEFINE Part(n) == {g \in [0..n -> D] : g[0] = b /\ \A k \in 0..n - 1 : g[k + 1] = h[g[k]]}
             P(n) == CHOOSE g \in Part(n) : TRUE
  <1>1. ASSUME NEW n \in Nat PROVE Part(n) # {}
    <2> DEFINE G == {m \in Nat : Part(m) # {}}
    <2>1. 0 \in G
      <3>1. [k \in 0..0 |-> b] \in Part(0)
        OBVIOUS
      <3> QED
        BY <3>1
    <2>2. ASSUME NEW m \in Nat, m \in G PROVE m + 1 \in G
      <3>1. PICK g \in Part(m) : TRUE
        BY <2>2
      <3> DEFINE e == [k \in 0..m + 1 |-> IF k <= m THEN g[k] ELSE h[g[m]]]
      <3>2. e \in [0..m + 1 -> D]
        <4>1. g[m] \in D /\ h[g[m]] \in D
          BY <3>1
        <4>2. \A k \in 0..m + 1 : k <= m => g[k] \in D
          BY <3>1
        <4> QED
          BY <4>1, <4>2
      <3>3. e[0] = b
        BY <3>1
      <3>4. ASSUME NEW k \in 0..(m + 1) - 1 PROVE e[k + 1] = h[e[k]]
        <4>1. k \in 0..m /\ k + 1 \in 0..m + 1
          BY <3>4
        <4>2. e[k] = g[k]
          BY <4>1
        <4>3. CASE k = m
          BY <4>1, <4>2, <4>3
        <4>4. CASE k # m
          <5>1. k \in 0..m - 1 /\ k + 1 <= m
            BY <4>1, <4>4
          <5> QED
            BY <3>1, <4>1, <4>2, <5>1
        <4> QED
          BY <4>3, <4>4
      <3>5. e \in Part(m + 1)
        <4> HIDE DEF e
        <4> QED
          BY <3>2, <3>3, <3>4
      <3> QED
        <4> HIDE DEF e, Part
        <4> QED
          BY <3>5
    <2> HIDE DEF G
    <2>3. \A m \in Nat : m \in G
      BY <2>1, <2>2, NumberInduction
    <2> QED
      BY <2>3 DEF G
  <1>2. ASSUME NEW n \in Nat PROVE P(n) \in Part(n)
    BY <1>1
  <1>3. ASSUME NEW n \in Nat PROVE P(n)[n] = P(n + 1)[n]
    <2> DEFINE G == {k \in Nat : k <= n => P(n)[k] = P(n + 1)[k]}
    <2>1. P(n) \in Part(n) /\ P(n + 1) \in Part(n + 1)
      <3>1. n + 1 \in Nat
        OBVIOUS
      <3> HIDE DEF P, Part
      <3> QED
        BY <1>2, <3>1
    <2> HIDE DEF P
    <2>2. 0 \in G
      BY <2>1
    <2>3. ASSUME NEW k \in Nat, k \in G PROVE k + 1 \in G
      <3> SUFFICES ASSUME k + 1 <= n PROVE P(n)[k + 1] = P(n + 1)[k + 1]
        OBVIOUS
      <3>1. k \in 0..n - 1 /\ k \in 0..(n + 1) - 1 /\ k <= n
        OBVIOUS
      <3>2. P(n)[k] = P(n + 1)[k]
        BY <2>3, <3>1
      <3> QED
        BY <2>1, <3>1, <3>2
    <2> HIDE DEF G
    <2>4. n \in G
      BY <2>2, <2>3, NumberInduction
    <2> QED
      BY <2>4 DEF G
  <1> DEFINE f == [n \in Nat |-> P(n)[n]]
  <1> HIDE DEF P
  <1>4. f \in [Nat -> D]
    BY <1>2
  <1>5. f[0] = b
    BY <1>2
  <1>6. ASSUME NEW n \in Nat PROVE f[n + 1] = h[f[n]]
    <2>1. n \in 0..(n + 1) - 1
      OBVIOUS
    <2>2. P(n + 1)[n + 1] = h[P(n + 1)[n]]
      BY <1>2, <2>1
    <2> QED
      BY <1>3, <2>2
  <1> QED
    <2> HIDE DEF f
    <2> QED
      BY <1>4, <1>5, <1>6 DEF Iterates

-----------------------------------------------------------------------------
(* Sums.                                                                   *)

Pick(s) == CHOOSE x \in s : TRUE

\* The function that MapThenFoldSet defines by recursion when it adds up f.
IsSumOf(iter, f, S) ==
    iter = [s \in SUBSET S |-> IF s = {} THEN 0 ELSE f[Pick(s)] + iter[s \ {Pick(s)}]]

LEMMA SumExists ==
    ASSUME NEW S, IsFiniteSet(S), NEW f \in [S -> Nat]
    PROVE  \E iter \in [SUBSET S -> Nat] : IsSumOf(iter, f, S)
  <1>0. PICK D : D = [SUBSET S -> Nat]
    OBVIOUS
  <1> DEFINE b == [s \in SUBSET S |-> 0]
             Next(g) == [s \in SUBSET S |-> IF s = {} THEN 0 ELSE f[Pick(s)] + g[s \ {Pick(s)}]]
             h == [g \in D |-> Next(g)]
  <1>1. ASSUME NEW s \in SUBSET S, s # {} PROVE Pick(s) \in s /\ s \ {Pick(s)} \in SUBSET S
    BY <1>1 DEF Pick
  <1>2. ASSUME NEW g \in D PROVE Next(g) \in D
    <2>1. ASSUME NEW s \in SUBSET S, s # {} PROVE f[Pick(s)] + g[s \ {Pick(s)}] \in Nat
      <3>1. f[Pick(s)] \in Nat /\ g[s \ {Pick(s)}] \in Nat
        BY <1>0, <1>1, <2>1
      <3> QED
        BY <3>1
    <2> QED
      BY <1>0, <2>1
  <1>3. b \in D /\ h \in [D -> D]
    <2>1. b \in D
      BY <1>0
    <2> HIDE DEF Next
    <2> QED
      BY <1>2, <2>1
  <1> HIDE DEF b, h
  <1>4. PICK F \in [Nat -> D] : Iterates(F, b, h)
    BY <1>3, NumberRecursion
  <1> DEFINE iter == [s \in SUBSET S |-> F[Cardinality(s)][s]]
  <1>5. ASSUME NEW s \in SUBSET S PROVE Cardinality(s) \in Nat /\ IsFiniteSet(s)
    BY FS_Subset, FS_CardinalityType
  <1>6. iter \in [SUBSET S -> Nat]
    <2> SUFFICES ASSUME NEW s \in SUBSET S PROVE F[Cardinality(s)][s] \in Nat
      OBVIOUS
    <2>1. F[Cardinality(s)] \in D
      BY <1>4, <1>5
    <2> QED
      BY <1>0, <2>1
  <1>7. ASSUME NEW s \in SUBSET S, s = {} PROVE iter[s] = 0
    <2>1. Cardinality(s) = 0
      BY <1>7, FS_EmptySet
    <2> QED
      BY <1>4, <2>1 DEF b, Iterates
  <1>8. ASSUME NEW s \in SUBSET S, s # {}
        PROVE  iter[s] = f[Pick(s)] + iter[s \ {Pick(s)}]
    <2> DEFINE t == s \ {Pick(s)}
    <2>1. Pick(s) \in s /\ t \in SUBSET S
      BY <1>1, <1>8
    <2>2. Cardinality(s) = Cardinality(t) + 1 /\ Cardinality(t) \in Nat
      <3>1. Cardinality(t) = Cardinality(s) - 1
        BY <1>5, <2>1, FS_RemoveElement
      <3>2. Cardinality(s) \in Nat /\ Cardinality(t) \in Nat
        BY <1>5, <2>1
      <3> HIDE DEF t
      <3> QED
        BY <3>1, <3>2
    <2>3. F[Cardinality(t)] \in D
      BY <1>4, <2>2
    <2>4. F[Cardinality(s)] = Next(F[Cardinality(t)])
      <3> HIDE DEF Next, t
      <3>1. F[Cardinality(s)] = h[F[Cardinality(t)]]
        BY <1>4, <2>2 DEF Iterates
      <3> QED
        BY <2>3, <3>1 DEF h
    <2>5. F[Cardinality(s)][s] = f[Pick(s)] + F[Cardinality(t)][t]
      BY <1>8, <2>4
    <2> QED
      BY <2>1, <2>5
  <1> HIDE DEF iter
  <1>9. iter = [s \in SUBSET S |-> IF s = {} THEN 0 ELSE f[Pick(s)] + iter[s \ {Pick(s)}]]
    BY <1>6, <1>7, <1>8
  <1> QED
    BY <1>6, <1>9 DEF IsSumOf

LEMMA SumUnfolds ==
    ASSUME NEW S, IsFiniteSet(S), NEW f \in [S -> Nat]
    PROVE  \E iter \in [SUBSET S -> Nat] : IsSumOf(iter, f, S) /\ SumFunction(f) = iter[S]
  <1> DEFINE iter == CHOOSE i : IsSumOf(i, f, S)
  <1>1. IsSumOf(iter, f, S)
    BY SumExists
  <1>2. SumFunction(f) = iter[S]
    BY DEF SumFunction, SumFunctionOnSet, FoldFunctionOnSet, MapThenFoldSet, IsSumOf, Pick
  <1>3. iter \in [SUBSET S -> Nat]
    <2> HIDE DEF iter
    <2> DEFINE G == {s \in SUBSET S : iter[s] \in Nat}
    <2>1. {} \in G
      BY <1>1 DEF IsSumOf
    <2>2. ASSUME NEW s \in SUBSET S, s # {}, \A x \in s : s \ {x} \in G
          PROVE  s \in G
      <3>1. Pick(s) \in s
        BY <2>2 DEF Pick
      <3>2. iter[s] = f[Pick(s)] + iter[s \ {Pick(s)}]
        BY <1>1, <2>2 DEF IsSumOf
      <3>3. f[Pick(s)] \in Nat /\ iter[s \ {Pick(s)}] \in Nat
        BY <2>2, <3>1
      <3> QED
        BY <3>2, <3>3
    <2> HIDE DEF G
    <2>3. \A s \in SUBSET S : s \in G
      BY <2>1, <2>2, SubsetInduction
    <2> QED
      BY <1>1, <2>3 DEF G, IsSumOf
  <1> HIDE DEF iter
  <1> QED
    BY <1>1, <1>2, <1>3

\* A sum of numbers is a number.
LEMMA SumType ==
    ASSUME NEW S, IsFiniteSet(S), NEW f \in [S -> Nat]
    PROVE  SumFunction(f) \in Nat
  <1>1. PICK i \in [SUBSET S -> Nat] : IsSumOf(i, f, S) /\ SumFunction(f) = i[S]
    BY SumUnfolds
  <1> QED
    BY <1>1

\* A sum of zeros is zero.
LEMMA SumOfZeros ==
    ASSUME NEW S, IsFiniteSet(S), NEW f \in [S -> Nat], \A x \in S : f[x] = 0
    PROVE  SumFunction(f) = 0
  <1>1. PICK i \in [SUBSET S -> Nat] : IsSumOf(i, f, S) /\ SumFunction(f) = i[S]
    BY SumUnfolds
  <1> DEFINE G == {s \in SUBSET S : i[s] = 0}
  <1>2. {} \in G
    BY <1>1 DEF IsSumOf
  <1>3. ASSUME NEW s \in SUBSET S, s # {}, \A x \in s : s \ {x} \in G
        PROVE  s \in G
    <2>1. Pick(s) \in s
      BY <1>3 DEF Pick
    <2>2. i[s] = f[Pick(s)] + i[s \ {Pick(s)}]
      BY <1>1, <1>3 DEF IsSumOf
    <2>3. f[Pick(s)] = 0 /\ i[s \ {Pick(s)}] = 0
      BY <1>3, <2>1
    <2> QED
      BY <2>2, <2>3
  <1> HIDE DEF G
  <1>4. \A s \in SUBSET S : s \in G
    BY <1>2, <1>3, SubsetInduction
  <1> QED
    BY <1>1, <1>4 DEF G

OneMore(f, x) == [f EXCEPT ![x] = f[x] + 1]

\* One more in one place is one more in the sum.
LEMMA SumOneMore ==
    ASSUME NEW S, IsFiniteSet(S), NEW f \in [S -> Nat], NEW x \in S
    PROVE  SumFunction(OneMore(f, x)) = SumFunction(f) + 1
  <1> DEFINE g == OneMore(f, x)
  <1>1. /\ g \in [S -> Nat] /\ g[x] = f[x] + 1
        /\ \A y \in S : y # x => g[y] = f[y]
    BY DEF OneMore
  <1> HIDE DEF g
  <1>2. PICK i \in [SUBSET S -> Nat] : IsSumOf(i, f, S) /\ SumFunction(f) = i[S]
    BY SumUnfolds
  <1>3. PICK j \in [SUBSET S -> Nat] : IsSumOf(j, g, S) /\ SumFunction(g) = j[S]
    BY <1>1, SumUnfolds
  <1> DEFINE G == {s \in SUBSET S : j[s] = IF x \in s THEN i[s] + 1 ELSE i[s]}
  <1>4. {} \in G
    BY <1>2, <1>3 DEF IsSumOf
  <1>5. ASSUME NEW s \in SUBSET S, s # {}, \A y \in s : s \ {y} \in G
        PROVE  s \in G
    <2> DEFINE p == Pick(s)
               t == s \ {p}
    <2>1. p \in s /\ p \in S /\ t \in SUBSET S
      BY <1>5 DEF Pick
    <2>2. i[s] = f[p] + i[t] /\ j[s] = g[p] + j[t]
      BY <1>2, <1>3, <1>5 DEF IsSumOf
    <2>3. j[t] = IF x \in t THEN i[t] + 1 ELSE i[t]
      BY <1>5, <2>1
    <2>4. x \in t <=> x \in s /\ x # p
      OBVIOUS
    <2> HIDE DEF p, t
    <2>5. i[s] \in Nat /\ i[t] \in Nat /\ f[p] \in Nat
      BY <2>1
    <2>6. CASE p = x
      <3>1. j[t] = i[t] /\ g[p] = f[p] + 1 /\ x \in s
        BY <1>1, <2>1, <2>3, <2>4, <2>6
      <3> QED
        BY <2>2, <2>5, <3>1
    <2>7. CASE p # x
      <3>1. g[p] = f[p] /\ (x \in t <=> x \in s)
        BY <1>1, <2>1, <2>4, <2>7
      <3> QED
        BY <2>2, <2>3, <2>5, <3>1
    <2> QED
      BY <2>6, <2>7
  <1> HIDE DEF G
  <1>6. \A s \in SUBSET S : s \in G
    BY <1>4, <1>5, SubsetInduction
  <1>7. j[S] = i[S] + 1
    BY <1>6 DEF G
  <1> QED
    BY <1>2, <1>3, <1>7 DEF g
=============================================================================
