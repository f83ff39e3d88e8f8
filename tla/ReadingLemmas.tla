--------------------------- MODULE ReadingLemmas ---------------------------
(***************************************************************************)
(* The least, the greatest and the total of finitely many readings: what   *)
(* Min, Max and SumFunction return for any number of them. The library's   *)
(* induction theorems take an operator as a parameter; here induction is   *)
(* the choice of a minimal counterexample (WFMin) under strict inclusion   *)
(* of finite sets, or under < on the naturals.                             *)
(***************************************************************************)
EXTENDS Integers, Functions, FiniteSetsExt, FiniteSetTheorems, TLAPS

(* A finite set of naturals that is not empty has a least and a greatest   *)
(* element: by the well-foundedness of strict inclusion of finite sets.    *)
LEMMA FiniteHasExtremes ==
    ASSUME NEW S \in SUBSET Nat, IsFiniteSet(S), S # {}
    PROVE  \E lo, hi \in S : \A x \in S : lo <= x /\ x <= hi
<1> DEFINE Bounded(T) == \E lo, hi \in T : \A x \in T : lo <= x /\ x <= hi
           Bad == {T \in FiniteSubsetsOf(Nat) : T # {} /\ ~Bounded(T)}
<1> SUFFICES ASSUME Bad # {} PROVE FALSE
  BY DEF FiniteSubsetsOf
<1>1. PICK T \in Bad : \A U \in Bad : <<U, T>> \notin StrictSubsetOrdering(Nat)
  <2>1. IsWellFoundedOn(StrictSubsetOrdering(Nat), FiniteSubsetsOf(Nat))
    BY FS_StrictSubsetOrderingWellFounded
  <2>2. Bad \subseteq FiniteSubsetsOf(Nat)
    OBVIOUS
  <2> HIDE DEF Bad
  <2>3. QED
    BY <2>1, <2>2, WFMin, Zenon
<1>2. T \in SUBSET Nat /\ IsFiniteSet(T)
  BY DEF FiniteSubsetsOf
<1>3. PICK e \in T : TRUE
  OBVIOUS
<1>4. T \ {e} \in FiniteSubsetsOf(Nat)
  BY <1>2, FS_RemoveElement DEF FiniteSubsetsOf
<1>5. T \ {e} \notin Bad
  BY <1>1, <1>2, <1>3 DEF StrictSubsetOrdering
<1>6. CASE T \ {e} = {}
  BY <1>2, <1>3, <1>6
<1>7. CASE T \ {e} # {}
  <2>1. PICK lo \in T \ {e}, hi \in T \ {e} :
            \A x \in T \ {e} : lo <= x /\ x <= hi
    BY <1>4, <1>5, <1>7
  <2>2. PICK low \in {lo, e} : low <= lo /\ low <= e
    BY <1>2, <1>3, <2>1
  <2>3. PICK high \in {hi, e} : hi <= high /\ e <= high
    BY <1>2, <1>3, <2>1
  <2>4. ASSUME NEW x \in T PROVE low <= x /\ x <= high
    <3>1. /\ x \in Nat /\ lo \in Nat /\ hi \in Nat
          /\ low \in Nat /\ high \in Nat
      <4>1. \A y \in T : y \in Nat
        BY <1>2
      <4>2. lo \in T /\ hi \in T /\ low \in T /\ high \in T
        BY <1>3, <2>1, <2>2, <2>3
      <4>3. QED
        BY <4>1, <4>2
    <3>2. CASE x = e
      BY <2>2, <2>3, <3>2
    <3>3. CASE x \in T \ {e}
      <4>1. lo <= x /\ x <= hi
        BY <2>1, <3>3
      <4>2. \A a, b, c \in Nat : a <= b /\ b <= c => a <= c
        OBVIOUS
      <4>3. QED
        BY <2>2, <2>3, <3>1, <4>1, <4>2, Zenon
    <3>4. QED
      BY <3>2, <3>3
  <2>5. low \in T /\ high \in T
    BY <1>3, <2>2, <2>3
  <2>6. QED
    BY <2>4, <2>5
<1>8. QED
  BY <1>6, <1>7

(* What Min and Max return.                                                *)
LEMMA MinMax ==
    ASSUME NEW S \in SUBSET Nat, IsFiniteSet(S), S # {}
    PROVE  /\ Min(S) \in S /\ Max(S) \in S
           /\ \A x \in S : Min(S) <= x /\ x <= Max(S)
<1>1. PICK lo \in S, hi \in S : \A x \in S : lo <= x /\ x <= hi
  BY FiniteHasExtremes
<1>2. \A x \in S : hi >= x
  BY <1>1
<1>3. QED
  BY <1>1, <1>2 DEF Min, Max

(* They are the only elements that bound the set.                          *)
LEMMA MinMaxUnique ==
    ASSUME NEW S \in SUBSET Nat, IsFiniteSet(S), NEW m \in S
    PROVE  /\ (\A x \in S : m <= x) => m = Min(S)
           /\ (\A x \in S : x <= m) => m = Max(S)
<1>1. /\ Min(S) \in S /\ Max(S) \in S
      /\ \A x \in S : Min(S) <= x /\ x <= Max(S)
  BY MinMax
<1>2. Min(S) \in Nat /\ Max(S) \in Nat /\ m \in Nat
  BY <1>1
<1>3. Min(S) <= m /\ m <= Max(S)
  BY <1>1
<1>4. (\A x \in S : m <= x) => m <= Min(S)
  BY <1>1
<1>5. (\A x \in S : x <= m) => Max(S) <= m
  BY <1>1
<1>6. QED
  BY <1>2, <1>3, <1>4, <1>5

LEMMA MinMaxOfTwo ==
    ASSUME NEW a \in Nat, NEW b \in Nat
    PROVE  /\ Min({a, b}) = IF a <= b THEN a ELSE b
           /\ Max({a, b}) = IF a <= b THEN b ELSE a
<1>1. IsFiniteSet({a} \cup {b})
  BY FS_Singleton, FS_AddElement
<1>2. {a, b} = {a} \cup {b} /\ {a, b} \in SUBSET Nat
  OBVIOUS
<1>3. QED
  BY <1>1, <1>2, MinMaxUnique

(* The values a function takes on an interval of numbers.                  *)
LEMMA RangeIsFinite ==
    ASSUME NEW n \in Nat, NEW f, DOMAIN f = 1 .. n, f = [j \in 1 .. n |-> f[j]]
    PROVE  IsFiniteSet(Range(f))
<1>1. f \in Surjection(1 .. n, Range(f))
  BY DEF Surjection, Range
<1>2. QED
  BY <1>1, FS_Interval, FS_Surjection

(* A value that a series takes and that bounds it is its extreme.          *)
LEMMA ExtremeOfSeries ==
    ASSUME NEW n \in Nat, NEW f \in [1 .. n -> Nat], NEW k \in 1 .. n
    PROVE  /\ (\A j \in 1 .. n : f[k] <= f[j]) => f[k] = Min({f[j] : j \in 1 .. n})
           /\ (\A j \in 1 .. n : f[j] <= f[k]) => f[k] = Max({f[j] : j \in 1 .. n})
<1>1. Range(f) = {f[j] : j \in 1 .. n}
  BY DEF Range
<1>2. IsFiniteSet(Range(f)) /\ Range(f) \in SUBSET Nat /\ f[k] \in Range(f)
  BY <1>1, RangeIsFinite
<1>3. QED
  BY <1>1, <1>2, MinMaxUnique

-----------------------------------------------------------------------------

(* One step of the sum of f over T, the sums g of the smaller sets given.  *)
SumStep(f, g, T) ==
    IF T = {} THEN 0
    ELSE f[CHOOSE x \in T : TRUE] + g[T \ {CHOOSE x \in T : TRUE}]

(* g sums f over the subsets of S of at most n elements.                   *)
IsPartialSum(f, g, S, n) ==
    g = [T \in {U \in SUBSET S : Cardinality(U) <= n} |-> SumStep(f, g, T)]

LEMMA PartialSumGrows ==
    ASSUME NEW S, IsFiniteSet(S), NEW f, NEW n \in Nat,
           \E g : IsPartialSum(f, g, S, n)
    PROVE  \E g : IsPartialSum(f, g, S, n + 1)
<1>1. PICK g : IsPartialSum(f, g, S, n)
  OBVIOUS
<1> DEFINE D(m) == {U \in SUBSET S : Cardinality(U) <= m}
           h == [T \in D(n + 1) |-> SumStep(f, g, T)]
<1>2. \A T \in SUBSET S : IsFiniteSet(T) /\ Cardinality(T) \in Nat
  BY FS_Subset, FS_CardinalityType
<1>3. \A T \in D(n) : T \in D(n + 1) /\ h[T] = g[T]
  BY <1>1, <1>2 DEF IsPartialSum
<1>4. ASSUME NEW T \in D(n + 1), T # {}
      PROVE  T \ {CHOOSE x \in T : TRUE} \in D(n)
  <2>1. (CHOOSE x \in T : TRUE) \in T
    BY <1>4
  <2>2. Cardinality(T \ {CHOOSE x \in T : TRUE}) = Cardinality(T) - 1
    BY <1>2, <2>1, FS_RemoveElement
  <2>3. QED
    BY <1>2, <2>2
<1>5. \A T \in D(n + 1) : SumStep(f, h, T) = SumStep(f, g, T)
  <2> HIDE DEF h, D
  <2>1. QED
    BY <1>3, <1>4 DEF SumStep
<1>6. h = [T \in D(n + 1) |-> SumStep(f, h, T)]
  BY <1>5
<1>7. QED
  BY <1>6 DEF IsPartialSum

LEMMA PartialSumExists ==
    ASSUME NEW S, IsFiniteSet(S), NEW f, NEW n \in Nat
    PROVE  \E g : IsPartialSum(f, g, S, n)
<1> DEFINE Bad == {m \in Nat : ~ \E g : IsPartialSum(f, g, S, m)}
<1> SUFFICES ASSUME Bad # {} PROVE FALSE
  OBVIOUS
<1>1. PICK m \in Bad : \A k \in Bad : ~(k < m)
  <2>1. Bad \subseteq Nat
    OBVIOUS
  <2> HIDE DEF Bad
  <2>2. PICK m \in Bad : \A k \in Bad : <<k, m>> \notin OpToRel(<, Nat)
    BY <2>1, WFMin, NatLessThanWellFounded, Zenon
  <2>3. QED
    BY <2>1, <2>2 DEF OpToRel
<1>2. m # 0
  <2> SUFFICES ASSUME m = 0 PROVE FALSE
    OBVIOUS
  <2> DEFINE g == [T \in {{}} |-> 0]
  <2>1. {U \in SUBSET S : Cardinality(U) <= 0} = {{}}
    BY FS_EmptySet, FS_Subset, FS_CardinalityType
  <2>2. IsPartialSum(f, g, S, 0)
    BY <2>1 DEF IsPartialSum, SumStep
  <2>3. QED
    BY <2>2
<1>3. m - 1 \in Nat /\ (m - 1) + 1 = m /\ m - 1 \notin Bad
  BY <1>1, <1>2
<1>4. \E g : IsPartialSum(f, g, S, m)
  BY <1>3, PartialSumGrows
<1>5. QED
  BY <1>4

(* What SumFunction returns: the recursive function it is defined by       *)
(* exists, and adds naturals.                                              *)
LEMMA SumFunctionType ==
    ASSUME NEW S, IsFiniteSet(S), NEW f \in [S -> Nat]
    PROVE  SumFunction(f) \in Nat
<1> DEFINE Sum == CHOOSE g : g = [T \in SUBSET S |-> SumStep(f, g, T)]
<1>1. SumFunction(f) = Sum[S]
  BY DEF SumFunction, SumFunctionOnSet, FoldFunctionOnSet, MapThenFoldSet, SumStep
<1>2. Sum = [T \in SUBSET S |-> SumStep(f, Sum, T)]
  <2>1. SUBSET S = {U \in SUBSET S : Cardinality(U) <= Cardinality(S)}
    BY FS_Subset
  <2>2. \E g : IsPartialSum(f, g, S, Cardinality(S))
    BY PartialSumExists, FS_CardinalityType
  <2>3. \E g : g = [T \in SUBSET S |-> SumStep(f, g, T)]
    BY <2>1, <2>2 DEF IsPartialSum
  <2>4. QED
    BY <2>3
<1> HIDE DEF Sum
<1> DEFINE Bad == {T \in SUBSET S : Sum[T] \notin Nat}
<1>3. Bad = {}
  <2> SUFFICES ASSUME Bad # {} PROVE FALSE
    OBVIOUS
  <2>1. PICK T \in Bad : \A U \in Bad : <<U, T>> \notin StrictSubsetOrdering(S)
    <3>1. IsWellFoundedOn(StrictSubsetOrdering(S), FiniteSubsetsOf(S))
      BY FS_StrictSubsetOrderingWellFounded
    <3>2. Bad \subseteq FiniteSubsetsOf(S)
      BY FS_FiniteSubsetsOfFinite
    <3> HIDE DEF Bad
    <3>3. QED
      BY <3>1, <3>2, WFMin, Zenon
  <2>2. Sum[T] = SumStep(f, Sum, T)
    BY <1>2
  <2>3. T # {}
    BY <2>2 DEF SumStep
  <2>4. PICK x \in T : x = CHOOSE y \in T : TRUE
    BY <2>3
  <2>5. Sum[T] = f[x] + Sum[T \ {x}]
    BY <2>2, <2>3, <2>4 DEF SumStep
  <2>6. T \ {x} \in SUBSET S /\ T \ {x} \notin Bad
    <3>1. T \ {x} \in SUBSET S /\ T \in SUBSET S /\ T \ {x} # T
      BY <2>4
    <3>2. <<T \ {x}, T>> \in StrictSubsetOrdering(S)
      BY <3>1 DEF StrictSubsetOrdering
    <3>3. QED
      BY <2>1, <3>1, <3>2
  <2>7. Sum[T \ {x}] \in Nat /\ f[x] \in Nat
    BY <2>6
  <2>8. QED
    BY <2>5, <2>7
<1>4. QED
  BY <1>1, <1>3
=============================================================================
