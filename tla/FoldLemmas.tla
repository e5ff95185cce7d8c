----------------------------- MODULE FoldLemmas ------------------------------
(***************************************************************************)
(* Induction and folds, for the proofs of the other modules: induction     *)
(* over the numbers, and over the subsets of a finite set, stated with     *)
(* sets and functions only, and what the folds of the community modules    *)
(* compute, step by step.                                                  *)
(***************************************************************************)
EXTENDS Integers, Sequences, FiniteSetsExt, FiniteSetTheorems, SequenceTheorems, TLAPS

\* Induction over the numbers, as the least counterexample.
LEMMA SetInduction ==
    ASSUME NEW S, 0 \in S, \A n \in Nat : n \in S => n + 1 \in S
    PROVE  Nat \subseteq S
<1> SUFFICES ASSUME NEW m \in Nat, m \notin S
             PROVE  FALSE
  OBVIOUS
<1> DEFINE T == Nat \ S
           R == OpToRel(<, Nat)
<1>1. IsWellFoundedOn(R, Nat)
  BY NatLessThanWellFounded
<1>2. \A a \in Nat, b \in Nat : a < b => <<a, b>> \in R
  BY Zenon DEF OpToRel
<1>3. PICK x \in T : \A y \in T : <<y, x>> \notin R
  <2> HIDE DEF R
  <2> QED BY <1>1, WFMin
<1> HIDE DEF R
<1>4. x # 0 /\ x \in Nat
  OBVIOUS
<1>5. x - 1 \in Nat /\ x - 1 < x
  BY <1>4
<1>6. x - 1 \notin T
  BY <1>2, <1>3, <1>5, <1>4
<1> QED BY <1>4, <1>5, <1>6

\* A set of numbers that is not empty has a least element.
LEMMA LeastExists ==
    ASSUME NEW S \in SUBSET Nat, S # {}
    PROVE  \E x \in S : \A y \in S : x <= y
<1> DEFINE R == OpToRel(<, Nat)
<1>1. IsWellFoundedOn(R, Nat)
  BY NatLessThanWellFounded
<1>2. \A a \in Nat, b \in Nat : a < b => <<a, b>> \in R
  BY Zenon DEF OpToRel
<1>3. PICK x \in S : \A y \in S : <<y, x>> \notin R
  <2> HIDE DEF R
  <2> QED BY <1>1, WFMin
<1> HIDE DEF R
<1>4. \A y \in S : y \in Nat /\ x \in Nat /\ ~(y < x)
  BY <1>2, <1>3
<1>5. \A y \in S : x <= y
  BY <1>4
<1> QED BY <1>5

\* A set of numbers with an upper bound has a greatest element.
LEMMA GreatestExists ==
    ASSUME NEW S \in SUBSET Nat, S # {}, NEW n \in Nat, \A x \in S : x <= n
    PROVE  \E x \in S : \A y \in S : y <= x
<1> DEFINE B == {b \in Nat : \A x \in S : x <= b}
<1>1. PICK b \in B : \A c \in B : b <= c
  <2>1. n \in B
    OBVIOUS
  <2>2. B \in SUBSET Nat /\ B # {}
    BY <2>1
  <2> HIDE DEF B
  <2> QED BY <2>2, LeastExists
<1>2. b \in Nat /\ \A x \in S : x <= b
  BY <1>1
<1>3. b \in S
  <2> SUFFICES ASSUME b \notin S
               PROVE  FALSE
    OBVIOUS
  <2>1. \A x \in S : x <= b - 1
    BY <1>2
  <2>2. b - 1 \in Nat
    <3>1. PICK x \in S : x <= b - 1
      BY <2>1
    <3>2. x \in Nat
      BY <3>1
    <3> HIDE DEF B
    <3> QED BY <1>2, <3>1, <3>2
  <2>3. b - 1 \in B
    BY <2>1, <2>2
  <2> QED BY <1>1, <1>2, <2>3
<1> QED BY <1>2, <1>3

\* A function defined by recursion over the subsets of a finite set, element
\* by element.
Folding(iter, S, base, pick, step) ==
    iter = [T \in SUBSET S |-> IF T = {} THEN base ELSE step[pick[T]][iter[T \ {pick[T]}]]]

\* There is such a function: every subset unrolls the definition once more.
LEMMA FoldExists ==
    ASSUME NEW S, IsFiniteSet(S), NEW X, NEW base \in X,
           NEW pick, \A T \in SUBSET S : T # {} => pick[T] \in T,
           NEW step, \A x \in S : \A v \in X : step[x][v] \in X
    PROVE  \E iter \in [SUBSET S -> X] : Folding(iter, S, base, pick, step)
<1> DEFINE Unrolled(g) == [T \in SUBSET S |-> IF T = {} THEN base
                                               ELSE step[pick[T]][g[T \ {pick[T]}]]]
           Good(n, g) == \A T \in SUBSET S : Cardinality(T) <= n => g[T] = Unrolled(g)[T]
           I == {n \in Nat : \E g \in [SUBSET S -> X] : Good(n, g)}
<1>1. \A T \in SUBSET S : IsFiniteSet(T) /\ Cardinality(T) \in Nat /\ Cardinality(T) <= Cardinality(S)
  BY FS_Subset, FS_CardinalityType
<1>2. ASSUME NEW g \in [SUBSET S -> X]
      PROVE  Unrolled(g) \in [SUBSET S -> X]
  <2> SUFFICES ASSUME NEW T \in SUBSET S, T # {}
               PROVE  step[pick[T]][g[T \ {pick[T]}]] \in X
    OBVIOUS
  <2>1. pick[T] \in S /\ T \ {pick[T]} \in SUBSET S
    OBVIOUS
  <2>2. g[T \ {pick[T]}] \in X
    BY <2>1
  <2> QED BY <2>1, <2>2
<1>3. 0 \in I
  <2> DEFINE g == [T \in SUBSET S |-> base]
  <2>1. g \in [SUBSET S -> X]
    OBVIOUS
  <2>2. Good(0, g)
    <3> SUFFICES ASSUME NEW T \in SUBSET S, Cardinality(T) <= 0
                 PROVE  g[T] = Unrolled(g)[T]
      OBVIOUS
    <3>1. T = {}
      BY <1>1, FS_EmptySet
    <3> QED BY <3>1
  <2> HIDE DEF g, Good
  <2> QED BY <2>1, <2>2
<1>4. ASSUME NEW n \in Nat, n \in I
      PROVE  n + 1 \in I
  <2>1. PICK g \in [SUBSET S -> X] : Good(n, g)
    BY <1>4
  <2> DEFINE h == Unrolled(g)
  <2>2. h \in [SUBSET S -> X]
    BY <1>2
  <2>3. Good(n + 1, h)
    <3> SUFFICES ASSUME NEW T \in SUBSET S, Cardinality(T) <= n + 1
                 PROVE  h[T] = Unrolled(h)[T]
      OBVIOUS
    <3>1. CASE T = {}
      BY <3>1
    <3>2. CASE T # {}
      <4> DEFINE rest == T \ {pick[T]}
      <4>1. pick[T] \in T /\ rest \in SUBSET S
        BY <3>2
      <4>2. Cardinality(rest) <= n
        <5>1. Cardinality(rest) = Cardinality(T) - 1
          BY <1>1, <4>1, FS_RemoveElement
        <5> QED BY <1>1, <5>1
      <4>3. g[rest] = h[rest]
        <5> HIDE DEF rest
        <5> QED BY <2>1, <4>1, <4>2
      <4>4. h[T] = step[pick[T]][g[rest]]
        BY <3>2
      <4>5. Unrolled(h)[T] = step[pick[T]][h[rest]]
        <5> HIDE DEF h
        <5> QED BY <3>2
      <4> QED BY <4>3, <4>4, <4>5
    <3> QED BY <3>1, <3>2
  <2> HIDE DEF h, Good
  <2> QED BY <2>2, <2>3
<1>5. Nat \subseteq I
  <2> HIDE DEF I
  <2> QED BY <1>3, <1>4, SetInduction
<1>6. Cardinality(S) \in I
  <2> HIDE DEF I
  <2> QED BY <1>5, FS_CardinalityType
<1>7. PICK g \in [SUBSET S -> X] : Good(Cardinality(S), g)
  BY <1>6
<1>8. g = Unrolled(g)
  <2>1. \A T \in SUBSET S : g[T] = Unrolled(g)[T]
    BY <1>1, <1>7
  <2>2. Unrolled(g) \in [SUBSET S -> X]
    BY <1>2
  <2> HIDE DEF Unrolled
  <2> QED BY <2>1, <2>2
<1> QED BY <1>8 DEF Folding

-----------------------------------------------------------------------------
(* Folds over the indices of a sequence, from the first to the last *)

LEMMA MaxInSet ==
    ASSUME NEW n \in Nat, NEW T \in SUBSET (1 .. n), T # {}
    PROVE  Max(T) \in T /\ \A i \in T : i <= Max(T)
<1>1. T \in SUBSET Nat /\ \A i \in T : i <= n
  OBVIOUS
<1>2. \E x \in T : \A y \in T : y <= x
  BY <1>1, GreatestExists
<1>3. \E x \in T : \A y \in T : x >= y
  BY <1>1, <1>2
<1>4. Max(T) \in T /\ \A y \in T : Max(T) >= y
  BY <1>3 DEF Max
<1> QED BY <1>1, <1>4

LEMMA MaxOfPrefix ==
    ASSUME NEW n \in Nat, NEW i \in 1 .. n
    PROVE  Max(1 .. i) = i /\ (1 .. i) \ {i} = 1 .. i - 1
<1>1. Max(1 .. i) \in 1 .. i /\ i <= Max(1 .. i)
  <2>1. i \in Nat /\ 1 .. i \in SUBSET (1 .. i) /\ i \in 1 .. i
    OBVIOUS
  <2> QED BY <2>1, MaxInSet
<1> QED BY <1>1

\* What a fold has come to after each of n elements.
Run(R, n, X, base, step) ==
    /\ R \in [0 .. n -> X]
    /\ R[0] = base
    /\ \A i \in 1 .. n : R[i] = step[i][R[i - 1]]

LEMMA RunUnique ==
    ASSUME NEW n \in Nat, NEW X, NEW base, NEW step, NEW R, NEW Q,
           Run(R, n, X, base, step), Run(Q, n, X, base, step)
    PROVE  \A i \in 0 .. n : R[i] = Q[i]
<1> DEFINE I == {i \in Nat : i <= n => R[i] = Q[i]}
<1>1. 0 \in I
  BY DEF Run
<1>2. ASSUME NEW i \in Nat, i \in I
      PROVE  i + 1 \in I
  <2> SUFFICES ASSUME i + 1 <= n
               PROVE  R[i + 1] = Q[i + 1]
    OBVIOUS
  <2>1. R[i] = Q[i]
    BY <1>2
  <2>2. i + 1 \in 1 .. n /\ (i + 1) - 1 = i
    OBVIOUS
  <2> QED BY <2>1, <2>2 DEF Run
<1>3. Nat \subseteq I
  <2> HIDE DEF I
  <2> QED BY <1>1, <1>2, SetInduction
<1> QED BY <1>3

\* A function that is folded element by element, as far as it has values of X,
\* runs through them.
LEMMA FoldRun ==
    ASSUME NEW n \in Nat, NEW X, NEW base \in X,
           NEW step, \A i \in 1 .. n : \A v \in X : step[i][v] \in X,
           NEW iter, iter[{}] = base,
           \A T \in SUBSET (1 .. n) : T # {} /\ iter[T \ {Max(T)}] \in X =>
             iter[T] = step[Max(T)][iter[T \ {Max(T)}]]
    PROVE  Run([i \in 0 .. n |-> iter[1 .. i]], n, X, base, step)
<1> DEFINE I == {i \in Nat : i <= n => iter[1 .. i] \in X}
<1>1. ASSUME NEW i \in 1 .. n, iter[1 .. i - 1] \in X
      PROVE  iter[1 .. i] = step[i][iter[1 .. i - 1]]
  <2>1. 1 .. i \in SUBSET (1 .. n) /\ 1 .. i # {}
    OBVIOUS
  <2>2. Max(1 .. i) = i /\ (1 .. i) \ {i} = 1 .. i - 1
    BY MaxOfPrefix
  <2> QED BY <1>1, <2>1, <2>2
<1>2. 1 .. 0 = {}
  OBVIOUS
<1>3. 0 \in I
  BY <1>2
<1>4. ASSUME NEW i \in Nat, i \in I
      PROVE  i + 1 \in I
  <2> SUFFICES ASSUME i + 1 <= n
               PROVE  iter[1 .. i + 1] \in X
    OBVIOUS
  <2>1. i + 1 \in 1 .. n /\ (i + 1) - 1 = i /\ iter[1 .. i] \in X
    BY <1>4
  <2>2. iter[1 .. i + 1] = step[i + 1][iter[1 .. i]]
    BY <1>1, <2>1
  <2> QED BY <2>1, <2>2
<1>5. Nat \subseteq I
  <2> HIDE DEF I
  <2> QED BY <1>3, <1>4, SetInduction
<1>6. \A i \in 0 .. n : iter[1 .. i] \in X
  BY <1>5
<1> DEFINE R == [i \in 0 .. n |-> iter[1 .. i]]
<1>7. R \in [0 .. n -> X] /\ R[0] = base
  BY <1>2, <1>6
<1>8. ASSUME NEW i \in 1 .. n
      PROVE  R[i] = step[i][R[i - 1]]
  <2>1. i \in 0 .. n /\ i - 1 \in 0 .. n
    OBVIOUS
  <2>2. R[i] = iter[1 .. i] /\ R[i - 1] = iter[1 .. i - 1] /\ iter[1 .. i - 1] \in X
    BY <1>6, <2>1
  <2> HIDE DEF R
  <2> QED BY <1>1, <2>2
<1> HIDE DEF R
<1>9. Run(R, n, X, base, step)
  BY <1>7, <1>8 DEF Run
<1> QED BY <1>9 DEF R

\* There is such a function.
LEMMA FoldOfIndices ==
    ASSUME NEW n \in Nat, NEW X, NEW base \in X,
           NEW step, \A i \in 1 .. n : \A v \in X : step[i][v] \in X
    PROVE  \E iter \in [SUBSET (1 .. n) -> X] :
             Folding(iter, 1 .. n, base, [T \in SUBSET (1 .. n) |-> Max(T)], step)
<1> DEFINE S == 1 .. n
           pick == [T \in SUBSET S |-> Max(T)]
<1>1. IsFiniteSet(S)
  BY FS_Interval
<1>2. \A T \in SUBSET S : T # {} => pick[T] \in T
  BY MaxInSet
<1>3. \E iter \in [SUBSET S -> X] : Folding(iter, S, base, pick, step)
  <2> HIDE DEF S, pick
  <2>1. \A x \in S : \A v \in X : step[x][v] \in X
    BY DEF S
  <2> QED BY <1>1, <1>2, <2>1, FoldExists
<1> QED BY <1>3
=============================================================================
