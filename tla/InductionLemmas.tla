-------------------------- MODULE InductionLemmas --------------------------
(***************************************************************************)
(* Induction over data, for the proofs about what recursive functions and  *)
(* folds compute.  Each principle is stated about a set, the numbers or    *)
(* the subsets for which the fact holds, and rests on the least element of *)
(* what is left out.                                                       *)
(***************************************************************************)
EXTENDS Integers, FiniteSetTheorems, WellFoundedInduction, TLAPS

\* A set with 0 that is closed under successor has every natural number.
LEMMA ClosedUnderSuccessor ==
  ASSUME NEW Good, 0 \in Good, \A n \in Nat : n \in Good => n + 1 \in Good
  PROVE  Nat \subseteq Good
<1> DEFINE Bad == Nat \ Good
<1> SUFFICES ASSUME Bad # {}
             PROVE  FALSE
  OBVIOUS
<1>1. PICK least \in Bad : \A n \in Bad : ~ (<<n, least>> \in OpToRel(<, Nat))
  <2>1. Bad \subseteq Nat
    OBVIOUS
  <2> HIDE DEF Bad
  <2>2. QED
    BY <2>1, WFMin, NatLessThanWellFounded
<1>2. \A n \in Bad : ~(n < least)
  BY <1>1 DEF OpToRel
<1>3. least \in Nat /\ least # 0 /\ least - 1 \in Nat
  OBVIOUS
<1>4. QED
  BY <1>2, <1>3

\* A family of subsets of a finite set that has the empty set, and every set that
\* becomes a member whichever element it loses, has all subsets.
LEMMA ClosedUnderAddition ==
  ASSUME NEW S, IsFiniteSet(S), NEW Good, {} \in Good,
         \A T \in SUBSET S :
           T # {} /\ (\A x \in T : T \ {x} \in Good) => T \in Good
  PROVE  SUBSET S \subseteq Good
<1> DEFINE Sizes == {n \in Nat : \A T \in SUBSET S : Cardinality(T) = n => T \in Good}
<1>0. \A T \in SUBSET S : IsFiniteSet(T) /\ Cardinality(T) \in Nat
  BY FS_Subset, FS_CardinalityType
<1>1. 0 \in Sizes
  BY <1>0, FS_EmptySet
<1>2. ASSUME NEW n \in Nat, n \in Sizes
      PROVE  n + 1 \in Sizes
  <2>1. SUFFICES ASSUME NEW T \in SUBSET S, Cardinality(T) = n + 1
                 PROVE  T \in Good
    OBVIOUS
  <2>2. T # {}
    BY <1>0, <2>1, FS_EmptySet
  <2>3. \A x \in T : Cardinality(T \ {x}) = n
    BY <1>0, <2>1, FS_RemoveElement
  <2>4. \A x \in T : T \ {x} \in Good
    BY <1>2, <2>3
  <2>5. QED
    BY <2>2, <2>4
<1>3. Nat \subseteq Sizes
  <2> HIDE DEF Sizes
  <2>1. QED
    BY <1>1, <1>2, ClosedUnderSuccessor
<1>4. QED
  BY <1>0, <1>3

\* A finite set of integers has a largest and a smallest element.
LEMMA FiniteHasBounds ==
  ASSUME NEW S, IsFiniteSet(S), S \subseteq Int, S # {}
  PROVE  \E least \in S, most \in S : \A x \in S : least <= x /\ x <= most
<1> DEFINE Bounded(T) == \E least \in T, most \in T : \A x \in T : least <= x /\ x <= most
           Good == {T \in SUBSET S : T # {} => Bounded(T)}
<1>1. {} \in Good
  OBVIOUS
<1>2. ASSUME NEW T \in SUBSET S, T # {}, \A x \in T : T \ {x} \in Good
      PROVE  T \in Good
  <2>0. PICK x \in T : T \ {x} \in Good
    BY <1>2
  <2>1. CASE T = {x}
    <3>1. Bounded(T)
      BY <2>1
    <3>2. QED
      BY <3>1
  <2>2. CASE T # {x}
    <3>1. PICK least \in T \ {x}, most \in T \ {x} :
                 \A y \in T \ {x} : least <= y /\ y <= most
      BY <2>0, <2>2
    <3> DEFINE low  == IF x < least THEN x ELSE least
               high == IF x > most THEN x ELSE most
    <3>2. low \in T /\ high \in T /\ \A y \in T : low <= y /\ y <= high
      BY <3>1
    <3> HIDE DEF low, high
    <3>3. Bounded(T)
      BY <3>2
    <3>4. QED
      BY <3>3
  <2>3. QED
    BY <2>1, <2>2
<1> HIDE DEF Good
<1>3. SUBSET S \subseteq Good
  BY <1>1, <1>2, ClosedUnderAddition
<1>4. QED
  BY <1>3 DEF Good

-----------------------------------------------------------------------------
(* Recursive definitions have solutions.                                   *)

\* The function on 0..last with its start and its step.
IsIteration(f, start, step, last) ==
  f = [n \in 0..last |-> IF n = 0 THEN start ELSE step[f[n - 1]]]

\* There is such a function.
LEMMA IterationExists ==
  ASSUME NEW V, NEW start \in V, NEW step \in [V -> V], NEW last \in Nat
  PROVE  \E f \in [0..last -> V] : IsIteration(f, start, step, last)
<1> DEFINE Solves(f, m) == IsIteration(f, start, step, m)
           Good == {m \in Nat : \E f \in [0..m -> V] : Solves(f, m)}
<1> USE DEF IsIteration
<1>1. 0 \in Good
  <2> DEFINE f == [n \in 0..0 |-> start]
  <2>1. f \in [0..0 -> V] /\ Solves(f, 0)
    OBVIOUS
  <2> HIDE DEF f
  <2>2. QED
    BY <2>1
<1>2. ASSUME NEW m \in Nat, m \in Good
      PROVE  m + 1 \in Good
  <2>1. PICK f \in [0..m -> V] : Solves(f, m)
    BY <1>2
  <2> DEFINE g == [n \in 0..m + 1 |-> IF n \in 0..m THEN f[n] ELSE step[f[m]]]
  <2>2. g \in [0..m + 1 -> V]
    OBVIOUS
  <2>3. ASSUME NEW n \in 0..m + 1
        PROVE  g[n] = IF n = 0 THEN start ELSE step[g[n - 1]]
    <3>1. CASE n = 0
      BY <2>1, <3>1
    <3>2. CASE n # 0 /\ n \in 0..m
      <4>1. n - 1 \in 0..m /\ n - 1 \in 0..m + 1
        BY <3>2
      <4>2. g[n] = f[n] /\ g[n - 1] = f[n - 1]
        BY <3>2, <4>1
      <4>3. f[n] = step[f[n - 1]]
        BY <2>1, <3>2
      <4>4. QED
        BY <3>2, <4>2, <4>3
    <3>3. CASE n = m + 1
      <4>1. n - 1 = m /\ m \in 0..m /\ m \in 0..m + 1 /\ n \notin 0..m /\ n # 0
        BY <3>3
      <4>2. QED
        BY <4>1
    <3>4. QED
      BY <3>1, <3>2, <3>3
  <2> HIDE DEF g
  <2>4. Solves(g, m + 1)
    BY <2>2, <2>3
  <2>5. \E h \in [0..m + 1 -> V] : Solves(h, m + 1)
    BY <2>2, <2>4
  <2> HIDE DEF Solves
  <2>6. m + 1 \in Nat
    OBVIOUS
  <2>7. QED
    BY <2>5, <2>6
<1>3. Nat \subseteq Good
  <2> HIDE DEF Good
  <2>1. QED
    BY <1>1, <1>2, ClosedUnderSuccessor
<1>4. QED
  BY <1>3

\* The folds of subsets of S with values in V, which take the elements away in
\* the order of pick.
FoldArguments(S, V, start, step, pick) ==
  /\ IsFiniteSet(S)
  /\ start \in V
  /\ step \in [S \X V -> V]
  /\ \A T \in SUBSET S : T # {} => pick[T] \in T

\* The equation of the function that computes such a fold.
IsFold(f, S, start, step, pick) ==
  \A T \in SUBSET S :
    f[T] = IF T = {} THEN start ELSE step[<<pick[T], f[T \ {pick[T]}]>>]

\* The equation has a solution.
LEMMA FoldExists ==
  ASSUME NEW S, NEW V, NEW start, NEW step, NEW pick,
         FoldArguments(S, V, start, step, pick)
  PROVE  \E f \in [SUBSET S -> V] : IsFold(f, S, start, step, pick)
<1> USE DEF FoldArguments, IsFold
<1> DEFINE Solves(f, D) ==
             \A T \in SUBSET S : Cardinality(T) <= D =>
               f[T] = IF T = {} THEN start ELSE step[<<pick[T], f[T \ {pick[T]}]>>]
           Good == {n \in Nat : \E f \in [SUBSET S -> V] : Solves(f, n)}
<1>0. \A T \in SUBSET S : /\ IsFiniteSet(T)
                         /\ Cardinality(T) \in Nat
                         /\ Cardinality(T) <= Cardinality(S)
  BY FS_Subset, FS_CardinalityType
<1>1. 0 \in Good
  <2> DEFINE f == [T \in SUBSET S |-> start]
  <2>1. f \in [SUBSET S -> V]
    OBVIOUS
  <2>2. \A T \in SUBSET S : Cardinality(T) <= 0 => T = {}
    BY <1>0, FS_EmptySet
  <2>3. Solves(f, 0)
    BY <2>2
  <2> HIDE DEF f
  <2>4. \E h \in [SUBSET S -> V] : Solves(h, 0)
    BY <2>1, <2>3
  <2> HIDE DEF Solves
  <2>5. QED
    BY <2>4
<1>2. ASSUME NEW n \in Nat, n \in Good
      PROVE  n + 1 \in Good
  <2>1. PICK f \in [SUBSET S -> V] : Solves(f, n)
    BY <1>2
  <2> DEFINE g == [T \in SUBSET S |->
                     IF T = {} THEN start ELSE step[<<pick[T], f[T \ {pick[T]}]>>]]
  <2>2. g \in [SUBSET S -> V]
    <3>1. SUFFICES ASSUME NEW T \in SUBSET S, T # {}
                   PROVE  step[<<pick[T], f[T \ {pick[T]}]>>] \in V
      OBVIOUS
    <3>2. pick[T] \in S /\ T \ {pick[T]} \in SUBSET S
      BY <3>1
    <3>3. <<pick[T], f[T \ {pick[T]}]>> \in S \X V
      BY <3>2
    <3>4. QED
      BY <3>3
  <2>3. ASSUME NEW T \in SUBSET S, Cardinality(T) <= n
        PROVE  g[T] = f[T]
    BY <2>1, <2>3
  <2>4. ASSUME NEW T \in SUBSET S, T # {}, Cardinality(T) <= n + 1
        PROVE  f[T \ {pick[T]}] = g[T \ {pick[T]}]
    <3>1. Cardinality(T \ {pick[T]}) <= n
      BY <1>0, <2>4, FS_RemoveElement
    <3>2. QED
      BY <2>3, <3>1
  <2>5. Solves(g, n + 1)
    BY <2>4
  <2> HIDE DEF g
  <2>6. \E h \in [SUBSET S -> V] : Solves(h, n + 1)
    BY <2>2, <2>5
  <2> HIDE DEF Solves
  <2>7. n + 1 \in Nat
    OBVIOUS
  <2>8. QED
    BY <2>6, <2>7
<1>3. Nat \subseteq Good
  <2> HIDE DEF Good
  <2>1. QED
    BY <1>1, <1>2, ClosedUnderSuccessor
<1>4. Cardinality(S) \in Good
  BY <1>0, <1>3
<1>5. PICK f \in [SUBSET S -> V] : Solves(f, Cardinality(S))
  BY <1>4
<1>6. QED
  BY <1>0, <1>5
=============================================================================
