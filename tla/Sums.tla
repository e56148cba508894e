-------------------------------- MODULE Sums --------------------------------
(***************************************************************************)
(* What SumFunction of the community modules computes, for every finite    *)
(* domain.  The library's induction theorems take an operator, which the   *)
(* provers cannot instantiate; these proofs argue about a SET of numbers   *)
(* instead, and take its least missing element from WFMin.                 *)
(* Last, a function defined by recursion on the naturals exists.           *)
(***************************************************************************)
EXTENDS Integers, FiniteSets, Functions, FiniteSetTheorems, WellFoundedInduction, TLAPS

\* The element the fold takes from a set.
SumPick(s) == CHOOSE x \in s : TRUE

\* One step of the fold over f, with what g says of the rest.
SumStep(g, f, s) == IF s = {} THEN 0 ELSE f[SumPick(s)] + g[s \ {SumPick(s)}]

\* g is the function that the fold over f iterates, on the subsets of S.
IsSum(g, f, S) == g = [s \in SUBSET S |-> SumStep(g, f, s)]

\* Induction over the naturals, for a set.
LEMMA SetInduction ==
    ASSUME NEW T \in SUBSET Nat, 0 \in T, \A n \in T : n + 1 \in T
    PROVE  T = Nat
<1> SUFFICES ASSUME Nat \ T # {} PROVE FALSE
  OBVIOUS
<1>1. PICK n \in Nat \ T : \A m \in Nat \ T : ~(<<m, n>> \in OpToRel(<, Nat))
  <2> DEFINE R == OpToRel(<, Nat)
             C == Nat \ T
  <2>1. IsWellFoundedOn(R, Nat)
    BY NatLessThanWellFounded
  <2>2. C \subseteq Nat /\ C # {}
    OBVIOUS
  <2> HIDE DEF R, C
  <2>3. \E x \in C : \A y \in C : ~(<<y, x>> \in R)
    BY <2>1, <2>2, WFMin
  <2> QED BY <2>3 DEF R, C
<1>2. n # 0 /\ n - 1 \in Nat /\ n - 1 < n
  OBVIOUS
<1>3. <<n - 1, n>> \in OpToRel(<, Nat)
  BY <1>2 DEF OpToRel
<1>4. n - 1 \in T
  BY <1>1, <1>2, <1>3
<1> QED BY <1>2, <1>4

\* A picked element is in the set, and without it the set is smaller.
LEMMA SumPickShrinks ==
    ASSUME NEW s, IsFiniteSet(s), s # {}
    PROVE  /\ SumPick(s) \in s
           /\ IsFiniteSet(s \ {SumPick(s)})
           /\ Cardinality(s) \in Nat
           /\ Cardinality(s \ {SumPick(s)}) = Cardinality(s) - 1
<1>1. SumPick(s) \in s
  BY DEF SumPick
<1> QED BY <1>1, FS_RemoveElement, FS_CardinalityType

\* The recursive definition of the fold has a solution.
LEMMA SumExists ==
    ASSUME NEW S, IsFiniteSet(S), NEW f
    PROVE  \E g : IsSum(g, f, S)
<1> DEFINE D(n) == {s \in SUBSET S : Cardinality(s) <= n}
           T == {n \in Nat : \E g : g = [s \in D(n) |-> SumStep(g, f, s)]}
<1>0. \A s \in SUBSET S : IsFiniteSet(s) /\ Cardinality(s) \in Nat /\ (Cardinality(s) = 0 <=> s = {})
  BY FS_Subset, FS_CardinalityType, FS_EmptySet
<1>1. 0 \in T
  <2> DEFINE g == [s \in D(0) |-> 0]
  <2>1. \A s \in D(0) : s = {}
    BY <1>0
  <2>2. \A s \in D(0) : SumStep(g, f, s) = 0
    BY <2>1 DEF SumStep
  <2>3. g = [s \in D(0) |-> SumStep(g, f, s)]
    BY <2>2
  <2> QED BY <2>3
<1>2. ASSUME NEW n \in T PROVE n + 1 \in T
  <2>1. PICK g : g = [s \in D(n) |-> SumStep(g, f, s)]
    OBVIOUS
  <2> DEFINE h == [s \in D(n + 1) |-> SumStep(g, f, s)]
  <2>2. D(n) \subseteq D(n + 1)
    BY <1>0
  <2>3. \A s \in D(n) : h[s] = g[s]
    BY <2>1, <2>2, Zenon
  <2>4. ASSUME NEW s \in D(n + 1) PROVE SumStep(g, f, s) = SumStep(h, f, s)
    <3>1. CASE s = {}
      BY <3>1 DEF SumStep
    <3>2. CASE s # {}
      <4>1. s \ {SumPick(s)} \in D(n)
        BY <1>0, <3>2, SumPickShrinks
      <4>2. h[s \ {SumPick(s)}] = g[s \ {SumPick(s)}]
        BY <2>3, <4>1
      <4> HIDE DEF h
      <4> QED BY <3>2, <4>2 DEF SumStep
    <3> QED BY <3>1, <3>2
  <2>5. h = [s \in D(n + 1) |-> SumStep(h, f, s)]
    <3> DEFINE k == [s \in D(n + 1) |-> SumStep(h, f, s)]
    <3>1. \A s \in D(n + 1) : h[s] = k[s]
      BY <2>4, Zenon
    <3> QED BY <2>4, Zenon
  <2> HIDE DEF h
  <2>6. \E gg : gg = [s \in D(n + 1) |-> SumStep(gg, f, s)]
    BY <2>5
  <2> HIDE DEF D
  <2> QED BY <2>6
<1>3. T = Nat
  <2>1. T \in SUBSET Nat
    OBVIOUS
  <2> HIDE DEF T
  <2> QED BY <1>1, <1>2, <2>1, SetInduction
<1>4. Cardinality(S) \in T
  BY <1>3, FS_CardinalityType
<1>5. PICK g : g = [s \in D(Cardinality(S)) |-> SumStep(g, f, s)]
  BY <1>4
<1>6. D(Cardinality(S)) = SUBSET S
  BY FS_Subset
<1> QED BY <1>5, <1>6 DEF IsSum
\* Two folds over functions that agree on a set have the same value for it.
LEMMA SumAgrees ==
    ASSUME NEW S1, NEW S2, NEW f1, NEW f2, NEW g1, NEW g2,
           IsSum(g1, f1, S1), IsSum(g2, f2, S2),
           NEW R, R \subseteq S1, R \subseteq S2, IsFiniteSet(R), \A x \in R : f1[x] = f2[x]
    PROVE  g1[R] = g2[R]
<1> DEFINE T == {n \in Nat : \A s \in SUBSET R : Cardinality(s) <= n => g1[s] = g2[s]}
<1>0. \A s \in SUBSET R : IsFiniteSet(s) /\ Cardinality(s) \in Nat /\ (Cardinality(s) = 0 <=> s = {})
  BY FS_Subset, FS_CardinalityType, FS_EmptySet
<1>1. \A s \in SUBSET R : g1[s] = SumStep(g1, f1, s) /\ g2[s] = SumStep(g2, f2, s)
  <2>1. \A s \in SUBSET S1 : g1[s] = SumStep(g1, f1, s)
    BY Zenon DEF IsSum
  <2>2. \A s \in SUBSET S2 : g2[s] = SumStep(g2, f2, s)
    BY Zenon DEF IsSum
  <2> QED BY <2>1, <2>2
<1>2. 0 \in T
  <2> SUFFICES ASSUME NEW s \in SUBSET R, Cardinality(s) <= 0 PROVE g1[s] = g2[s]
    OBVIOUS
  <2>1. s = {}
    BY <1>0
  <2> QED BY <1>1, <2>1 DEF SumStep
<1>3. ASSUME NEW n \in T PROVE n + 1 \in T
  <2>0. n \in Nat /\ n + 1 \in Nat /\ g1[{}] = g2[{}]
    BY <1>0, <1>2, FS_EmptySet
  <2> SUFFICES ASSUME NEW s \in SUBSET R, Cardinality(s) <= n + 1, s # {} PROVE g1[s] = g2[s]
    BY <2>0
  <2>1. SumPick(s) \in R /\ Cardinality(s \ {SumPick(s)}) <= n
    BY <1>0, SumPickShrinks
  <2>2. g1[s \ {SumPick(s)}] = g2[s \ {SumPick(s)}]
    BY <2>1
  <2> QED BY <1>1, <2>1, <2>2 DEF SumStep
<1>4. T = Nat
  <2>1. T \in SUBSET Nat
    OBVIOUS
  <2> HIDE DEF T
  <2> QED BY <1>2, <1>3, <2>1, SetInduction
<1> QED BY <1>4, FS_CardinalityType

\* The fold over a subset, whatever element is taken first.
LEMMA SumTakesAny ==
    ASSUME NEW S, IsFiniteSet(S), NEW f \in [S -> Int], NEW g, IsSum(g, f, S)
    PROVE  /\ \A s \in SUBSET S : g[s] \in Int
           /\ \A s \in SUBSET S : \A x \in s : g[s] = f[x] + g[s \ {x}]
<1> DEFINE Good(s) == g[s] \in Int /\ \A x \in s : g[s] = f[x] + g[s \ {x}]
           T == {n \in Nat : \A s \in SUBSET S : Cardinality(s) <= n => Good(s)}
<1>0. \A s \in SUBSET S : IsFiniteSet(s) /\ Cardinality(s) \in Nat /\ (Cardinality(s) = 0 <=> s = {})
  BY FS_Subset, FS_CardinalityType, FS_EmptySet
<1>1. \A s \in SUBSET S : g[s] = SumStep(g, f, s)
  BY Zenon DEF IsSum
<1>2. 0 \in T
  <2> SUFFICES ASSUME NEW s \in SUBSET S, Cardinality(s) <= 0 PROVE Good(s)
    OBVIOUS
  <2>1. s = {}
    BY <1>0
  <2>2. g[s] = 0
    BY <1>1, <2>1 DEF SumStep
  <2> QED BY <2>1, <2>2
<1>3. ASSUME NEW n \in T PROVE n + 1 \in T
  <2>0. n \in Nat /\ n + 1 \in Nat /\ Good({})
    <3>1. Cardinality({}) <= 0 /\ {} \in SUBSET S
      BY FS_EmptySet
    <3> QED BY <1>2, <3>1
  <2> SUFFICES ASSUME NEW s \in SUBSET S, Cardinality(s) <= n + 1, s # {} PROVE Good(s)
    <3> HIDE DEF Good
    <3> QED BY <2>0
  <2>1. \A x \in s : Cardinality(s \ {x}) <= n /\ s \ {x} \in SUBSET S
    BY <1>0, FS_RemoveElement
  <2>2. \A x \in s : Good(s \ {x})
    BY <2>1
  <2>3. PICK y \in s : g[s] = f[y] + g[s \ {y}]
    BY <1>0, <1>1, SumPickShrinks DEF SumStep
  <2>4. g[s] \in Int
    <3>1. f[y] \in Int /\ g[s \ {y}] \in Int
      BY <2>2
    <3> QED BY <2>3, <3>1
  <2>5. ASSUME NEW x \in s PROVE g[s] = f[x] + g[s \ {x}]
    <3>1. CASE x = y
      BY <2>3, <3>1
    <3>2. CASE x # y
      <4>1. (s \ {y}) \ {x} = (s \ {x}) \ {y}
        OBVIOUS
      <4>2. g[s \ {y}] = f[x] + g[(s \ {y}) \ {x}]
        BY <2>2, <3>2
      <4>3. g[s \ {x}] = f[y] + g[(s \ {x}) \ {y}] /\ g[s \ {x}] \in Int /\ g[s \ {y}] \in Int
        BY <2>2, <3>2
      <4>4. g[(s \ {x}) \ {y}] \in Int
        <5>1. IsFiniteSet(s \ {x}) /\ (s \ {x}) \ {y} \in SUBSET (s \ {x}) /\ (s \ {x}) \ {y} \in SUBSET S
          BY <1>0, <2>1
        <5>2. Cardinality((s \ {x}) \ {y}) <= Cardinality(s \ {x})
          BY <5>1, FS_Subset
        <5>3. Cardinality((s \ {x}) \ {y}) <= n
          BY <1>0, <2>0, <2>1, <5>1, <5>2
        <5> QED BY <5>1, <5>3
      <4>5. f[x] \in Int /\ f[y] \in Int
        OBVIOUS
      <4> DEFINE c == g[(s \ {x}) \ {y}]
      <4>6. g[s \ {y}] = f[x] + c /\ g[s \ {x}] = f[y] + c /\ c \in Int
        BY <4>1, <4>2, <4>3, <4>4
      <4> HIDE DEF c
      <4>7. g[s] = f[y] + (f[x] + c)
        BY <2>3, <4>6
      <4>8. f[y] + (f[x] + c) = f[x] + (f[y] + c)
        BY <4>5, <4>6
      <4> QED BY <4>6, <4>7, <4>8
    <3> QED BY <3>1, <3>2
  <2> QED BY <2>4, <2>5
<1>4. T = Nat
  <2>1. T \in SUBSET Nat
    OBVIOUS
  <2> HIDE DEF T
  <2> QED BY <1>2, <1>3, <2>1, SetInduction
<1>5. \A s \in SUBSET S : Good(s)
  BY <1>0, <1>4
<1> QED BY <1>5

\* SumFunction is the value of the fold for the whole domain.
LEMMA SumUnfolds ==
    ASSUME NEW S, IsFiniteSet(S), NEW f \in [S -> Int]
    PROVE  \E g : IsSum(g, f, S) /\ SumFunction(f) = g[S]
<1>1. SumFunction(f) = (CHOOSE h : IsSum(h, f, DOMAIN f))[DOMAIN f]
  BY Zenon DEF SumFunction, SumFunctionOnSet, FoldFunctionOnSet, MapThenFoldSet, IsSum, SumStep, SumPick
<1>2. DOMAIN f = S
  OBVIOUS
<1>3. \E g : IsSum(g, f, S)
  BY SumExists
<1> DEFINE h == CHOOSE h : IsSum(h, f, S)
<1>4. IsSum(h, f, S)
  BY <1>3
<1>5. SumFunction(f) = h[S]
  BY <1>1, <1>2
<1> HIDE DEF h
<1> QED BY <1>4, <1>5

\* A sum of integers is one summand and the sum of the others.
LEMMA SumSplit ==
    ASSUME NEW S, IsFiniteSet(S), NEW f \in [S -> Int], NEW x \in S
    PROVE  SumFunction(f) = f[x] + SumFunction([y \in S \ {x} |-> f[y]])
<1> DEFINE R == S \ {x}
           e == [y \in R |-> f[y]]
<1>1. IsFiniteSet(R) /\ e \in [R -> Int]
  BY FS_RemoveElement
<1>2. PICK g : IsSum(g, f, S) /\ SumFunction(f) = g[S]
  BY SumUnfolds
<1>3. \A y \in R : f[y] = e[y]
  OBVIOUS
<1> HIDE DEF e, R
<1>4. PICK h : IsSum(h, e, R) /\ SumFunction(e) = h[R]
  BY <1>1, SumUnfolds
<1>5. R \subseteq S /\ R \subseteq R
  BY DEF R
<1>6. g[R] = h[R]
  BY <1>1, <1>2, <1>3, <1>4, <1>5, SumAgrees
<1>7. g[S] = f[x] + g[R]
  <2>1. IsSum(g, f, S)
    BY <1>2
  <2>2. /\ \A s \in SUBSET S : g[s] \in Int
        /\ \A s \in SUBSET S : \A y \in s : g[s] = f[y] + g[s \ {y}]
    BY ONLY IsFiniteSet(S), f \in [S -> Int], <2>1, SumTakesAny
  <2> QED BY <2>2 DEF R
<1> QED BY <1>2, <1>4, <1>6, <1>7 DEF e, R

\* The sum over nothing, and a sum of integers is an integer.
LEMMA SumIsInt ==
    ASSUME NEW S, IsFiniteSet(S), NEW f \in [S -> Int]
    PROVE  SumFunction(f) \in Int /\ (S = {} => SumFunction(f) = 0)
<1>1. PICK g : IsSum(g, f, S) /\ SumFunction(f) = g[S]
  BY SumUnfolds
<1>2. g[S] \in Int
  BY <1>1, SumTakesAny
<1>3. g[S] = SumStep(g, f, S)
  BY <1>1, Zenon DEF IsSum
<1> QED BY <1>1, <1>2, <1>3 DEF SumStep

\* A greater function has a greater sum.
LEMMA SumMonotone ==
    ASSUME NEW S, IsFiniteSet(S), NEW f \in [S -> Int], NEW h \in [S -> Int], \A x \in S : f[x] <= h[x]
    PROVE  SumFunction(f) <= SumFunction(h)
<1>1. PICK a : IsSum(a, f, S) /\ SumFunction(f) = a[S]
  BY SumUnfolds
<1>2. PICK b : IsSum(b, h, S) /\ SumFunction(h) = b[S]
  BY SumUnfolds
<1>3. \A s \in SUBSET S : a[s] \in Int /\ b[s] \in Int
  BY <1>1, <1>2, SumTakesAny
<1>4. \A s \in SUBSET S : a[s] = SumStep(a, f, s) /\ b[s] = SumStep(b, h, s)
  BY <1>1, <1>2, Zenon DEF IsSum
<1> DEFINE T == {n \in Nat : \A s \in SUBSET S : Cardinality(s) <= n => a[s] <= b[s]}
<1>5. \A s \in SUBSET S : IsFiniteSet(s) /\ Cardinality(s) \in Nat /\ (Cardinality(s) = 0 <=> s = {})
  BY FS_Subset, FS_CardinalityType, FS_EmptySet
<1>6. a[{}] <= b[{}]
  BY <1>4 DEF SumStep
<1>7. 0 \in T
  BY <1>5, <1>6
<1>8. ASSUME NEW n \in T PROVE n + 1 \in T
  <2> SUFFICES ASSUME NEW s \in SUBSET S, Cardinality(s) <= n + 1, s # {} PROVE a[s] <= b[s]
    BY <1>6
  <2> DEFINE y == SumPick(s)
             r == s \ {y}
  <2>1. y \in S /\ r \in SUBSET S /\ Cardinality(r) <= n
    BY <1>5, SumPickShrinks
  <2>2. a[s] = f[y] + a[r] /\ b[s] = h[y] + b[r]
    BY <1>4 DEF SumStep
  <2> HIDE DEF y, r
  <2>3. f[y] <= h[y] /\ a[r] <= b[r] /\ f[y] \in Int /\ h[y] \in Int /\ a[r] \in Int /\ b[r] \in Int
    BY <1>3, <2>1
  <2> QED BY <2>2, <2>3
<1>9. T = Nat
  <2>1. T \in SUBSET Nat
    OBVIOUS
  <2> HIDE DEF T
  <2> QED BY <1>7, <1>8, <2>1, SetInduction
<1> QED BY <1>1, <1>2, <1>5, <1>9

\* A sum of zeros.
LEMMA SumOfZeros ==
    ASSUME NEW S, IsFiniteSet(S)
    PROVE  SumFunction([x \in S |-> 0]) = 0
<1> DEFINE Zero(D) == [x \in D |-> 0]
           T == {n \in Nat : \A s \in SUBSET S : Cardinality(s) <= n => SumFunction(Zero(s)) = 0}
<1>1. \A s \in SUBSET S : IsFiniteSet(s) /\ Cardinality(s) \in Nat /\ (Cardinality(s) = 0 <=> s = {})
  BY FS_Subset, FS_CardinalityType, FS_EmptySet
<1>2. \A s \in SUBSET S : Zero(s) \in [s -> Int]
  OBVIOUS
<1> HIDE DEF Zero
<1>3. SumFunction(Zero({})) = 0
  BY <1>1, <1>2, SumIsInt
<1>4. 0 \in T
  BY <1>1, <1>3
<1>5. ASSUME NEW n \in T PROVE n + 1 \in T
  <2> SUFFICES ASSUME NEW s \in SUBSET S, Cardinality(s) <= n + 1, s # {} PROVE SumFunction(Zero(s)) = 0
    BY <1>3
  <2>1. PICK x \in s : TRUE
    OBVIOUS
  <2>2. s \ {x} \in SUBSET S /\ Cardinality(s \ {x}) <= n
    BY <1>1, FS_RemoveElement
  <2>3. SumFunction(Zero(s \ {x})) = 0
    BY <2>2
  <2>4. Zero(s)[x] = 0 /\ [y \in s \ {x} |-> Zero(s)[y]] = Zero(s \ {x})
    BY DEF Zero
  <2>5. SumFunction(Zero(s)) = Zero(s)[x] + SumFunction([y \in s \ {x} |-> Zero(s)[y]])
    <3>1. IsFiniteSet(s) /\ Zero(s) \in [s -> Int] /\ x \in s
      BY <1>1, <1>2, <2>1
    <3> QED BY ONLY <3>1, SumSplit
  <2> QED BY <2>3, <2>4, <2>5
<1>6. T = Nat
  <2>1. T \in SUBSET Nat
    OBVIOUS
  <2> HIDE DEF T
  <2> QED BY <1>4, <1>5, <2>1, SetInduction
<1>7. SumFunction(Zero(S)) = 0
  BY <1>1, <1>6
<1> QED BY <1>7 DEF Zero

\* A sum of naturals is a natural.
LEMMA SumIsNat ==
    ASSUME NEW S, IsFiniteSet(S), NEW f \in [S -> Nat]
    PROVE  SumFunction(f) \in Nat
<1> DEFINE zero == [x \in S |-> 0]
<1>1. zero \in [S -> Int] /\ f \in [S -> Int] /\ \A x \in S : zero[x] <= f[x]
  OBVIOUS
<1>2. SumFunction(zero) = 0
  BY SumOfZeros
<1> HIDE DEF zero
<1>3. SumFunction(zero) <= SumFunction(f)
  BY <1>1, SumMonotone
<1>4. SumFunction(f) \in Int
  BY <1>1, SumIsInt
<1> QED BY <1>2, <1>3, <1>4

\* Two functions that differ in one summand.
LEMMA SumChange ==
    ASSUME NEW S, IsFiniteSet(S), NEW f \in [S -> Nat], NEW h \in [S -> Nat], NEW x \in S,
           \A y \in S : y # x => h[y] = f[y]
    PROVE  /\ SumFunction(f) \in Nat /\ SumFunction(h) \in Nat /\ f[x] <= SumFunction(f)
           /\ SumFunction(h) = SumFunction(f) - f[x] + h[x]
<1> DEFINE rest == [y \in S \ {x} |-> f[y]]
<1>1. f \in [S -> Int] /\ h \in [S -> Int] /\ f[x] \in Nat /\ h[x] \in Nat /\ rest = [y \in S \ {x} |-> h[y]]
  OBVIOUS
<1>2. IsFiniteSet(S \ {x}) /\ rest \in [S \ {x} -> Nat]
  BY FS_RemoveElement
<1>3. SumFunction(f) = f[x] + SumFunction(rest)
  BY <1>1, SumSplit
<1>4. SumFunction(h) = h[x] + SumFunction(rest)
  BY <1>1, SumSplit
<1> HIDE DEF rest
<1>5. SumFunction(rest) \in Nat
  BY <1>2, SumIsNat
<1> QED BY <1>1, <1>3, <1>4, <1>5

\* Multiplication by a successor.
LEMMA OneMoreTime ==
    ASSUME NEW k \in Nat, NEW m \in Nat
    PROVE  (k + 1) * m = k * m + m /\ k * m \in Nat
OBVIOUS

\* A sum of summands no larger than m.
LEMMA SumAtMost ==
    ASSUME NEW S, IsFiniteSet(S), NEW f \in [S -> Int], NEW m \in Nat, \A x \in S : f[x] <= m
    PROVE  SumFunction(f) <= Cardinality(S) * m
<1> DEFINE Part(D) == [x \in D |-> f[x]]
           T == {n \in Nat : \A s \in SUBSET S : Cardinality(s) <= n => SumFunction(Part(s)) <= Cardinality(s) * m}
<1>1. \A s \in SUBSET S : IsFiniteSet(s) /\ Cardinality(s) \in Nat /\ (Cardinality(s) = 0 <=> s = {})
  BY FS_Subset, FS_CardinalityType, FS_EmptySet
<1>2. \A s \in SUBSET S : Part(s) \in [s -> Int]
  OBVIOUS
<1>3. Part(S) = f /\ \A s \in SUBSET S : \A x \in s : Part(s)[x] = f[x] /\ [y \in s \ {x} |-> Part(s)[y]] = Part(s \ {x})
  OBVIOUS
<1> HIDE DEF Part
<1>4. 0 \in T
  <2>1. SumFunction(Part({})) = 0
    BY <1>1, <1>2, SumIsInt
  <2>2. Cardinality({}) = 0
    BY FS_EmptySet
  <2>3. SumFunction(Part({})) <= Cardinality({}) * m
    BY <2>1, <2>2
  <2> QED BY <1>1, <2>3
<1>5. ASSUME NEW n \in T PROVE n + 1 \in T
  <2> SUFFICES ASSUME NEW s \in SUBSET S, Cardinality(s) <= n + 1, s # {}
               PROVE  SumFunction(Part(s)) <= Cardinality(s) * m
    BY <1>4, <1>1
  <2>1. PICK x \in s : TRUE
    OBVIOUS
  <2> DEFINE k == Cardinality(s \ {x})
             r == SumFunction(Part(s \ {x}))
  <2>2. s \ {x} \in SUBSET S /\ k <= n /\ k \in Nat /\ Cardinality(s) = k + 1
    BY <1>1, FS_RemoveElement
  <2>3. r <= k * m
    <3>1. \A d \in SUBSET S : Cardinality(d) <= n => SumFunction(Part(d)) <= Cardinality(d) * m
      BY Zenon
    <3> QED BY <2>2, <3>1, Zenon
  <2>4. SumFunction(Part(s)) = f[x] + r
    <3>1. IsFiniteSet(s) /\ Part(s) \in [s -> Int] /\ x \in s
      BY <1>1, <1>2, <2>1
    <3>2. SumFunction(Part(s)) = Part(s)[x] + SumFunction([y \in s \ {x} |-> Part(s)[y]])
      BY ONLY <3>1, SumSplit
    <3> QED BY <1>3, <3>1, <3>2
  <2>5. f[x] \in Int /\ f[x] <= m /\ r \in Int
    <3>1. Part(s \ {x}) \in [s \ {x} -> Int] /\ IsFiniteSet(s \ {x})
      BY <1>1, <1>2, <2>2
    <3>2. r \in Int
      BY <3>1, SumIsInt
    <3> QED BY <3>2
  <2>6. (k + 1) * m = k * m + m /\ k * m \in Int
    <3> HIDE DEF k, r
    <3> QED BY <2>2, OneMoreTime
  <2> HIDE DEF k, r
  <2> QED BY <2>2, <2>3, <2>4, <2>5, <2>6
<1>6. T = Nat
  <2>1. T \in SUBSET Nat
    OBVIOUS
  <2> HIDE DEF T
  <2> QED BY <1>4, <1>5, <2>1, SetInduction
<1>7. SumFunction(Part(S)) <= Cardinality(S) * m
  BY <1>1, <1>6
<1> QED BY <1>7, <1>3

\* A function on the naturals with values in V: base where B says so, and elsewhere
\* what F makes of its value at p.
RecursiveOn(V, B, base, F, p) ==
    \E g \in [Nat -> V] : \A n \in Nat : g[n] = IF n \in B THEN base[n] ELSE F[<<n, g[p[n]]>>]

\* A function defined by recursion from its value at a smaller number exists.
LEMMA RecursionOnNat ==
    ASSUME NEW V, NEW B, NEW base \in [Nat -> V], NEW F \in [Nat \X V -> V], NEW p \in [Nat -> Nat],
           \A n \in Nat : n \in B \/ p[n] < n
    PROVE  RecursiveOn(V, B, base, F, p)
<1> DEFINE Solves(g, n) == /\ g \in [0..n -> V]
                           /\ \A m \in 0..n : g[m] = IF m \in B THEN base[m] ELSE F[<<m, g[p[m]]>>]
           T == {n \in Nat : \E g : Solves(g, n)}
<1>1. 0 \in T
  <2> DEFINE g == [m \in 0..0 |-> base[m]]
  <2>1. g \in [0..0 -> V] /\ \A m \in 0..0 : m = 0
    OBVIOUS
  <2>2. 0 \in B
    OBVIOUS
  <2>3. Solves(g, 0)
    BY <2>1, <2>2
  <2> QED BY <2>3
<1>2. ASSUME NEW n \in T PROVE n + 1 \in T
  <2>1. PICK g : Solves(g, n)
    OBVIOUS
  <2> DEFINE next == IF n + 1 \in B THEN base[n + 1] ELSE F[<<n + 1, g[p[n + 1]]>>]
             h == [m \in 0..(n + 1) |-> IF m = n + 1 THEN next ELSE g[m]]
  <2>2. n \in Nat /\ n + 1 \in Nat
    OBVIOUS
  <2>3. n + 1 \notin B => p[n + 1] \in 0..n
    BY <2>2
  <2>4. next \in V
    <3>1. CASE n + 1 \in B
      BY <2>2, <3>1
    <3>2. CASE n + 1 \notin B
      <4>1. g[p[n + 1]] \in V
        BY <2>1, <2>3, <3>2
      <4> QED BY <2>2, <3>2, <4>1
    <3> QED BY <3>1, <3>2
  <2>5. \A m \in 0..n : m \in 0..(n + 1) /\ m # n + 1
    BY <2>2
  <2>6. \A m \in 0..n : h[m] = g[m]
    BY <2>5
  <2>7. h[n + 1] = next
    BY <2>2
  <2>8. \A m \in 0..(n + 1) : m \in 0..n \/ m = n + 1
    BY <2>2
  <2>9. h \in [0..(n + 1) -> V]
    BY <2>1, <2>4, <2>8
  <2> HIDE DEF h
  <2>10. ASSUME NEW m \in 0..(n + 1) PROVE h[m] = IF m \in B THEN base[m] ELSE F[<<m, h[p[m]]>>]
    <3>1. CASE m \in 0..n
      <4>1. m \notin B => p[m] \in 0..n
        BY <2>2, <3>1
      <4> QED BY <2>1, <2>6, <3>1, <4>1
    <3>2. CASE m = n + 1
      BY <2>3, <2>6, <2>7, <3>2
    <3> QED BY <2>8, <3>1, <3>2
  <2>11. Solves(h, n + 1)
    BY <2>9, <2>10
  <2> QED BY <2>2, <2>11
<1>3. T = Nat
  <2>1. T \in SUBSET Nat
    OBVIOUS
  <2> HIDE DEF T
  <2> QED BY <1>1, <1>2, <2>1, SetInduction
<1> HIDE DEF Solves
<1>4. \A a, b \in Nat : \A g, h :
        Solves(g, a) /\ Solves(h, b) /\ a <= b => \A m \in 0..a : g[m] = h[m]
  <2> SUFFICES ASSUME NEW a \in Nat, NEW b \in Nat, NEW g, NEW h, Solves(g, a), Solves(h, b), a <= b
               PROVE  \A m \in 0..a : g[m] = h[m]
    OBVIOUS
  <2> USE DEF Solves
  <2> DEFINE E == {n \in Nat : \A m \in 0..n : m <= a => g[m] = h[m]}
  <2>1. 0 \in E
    <3>1. \A m \in 0..0 : m = 0 /\ m \in 0..a /\ m \in 0..b
      OBVIOUS
    <3>2. 0 \in B
      OBVIOUS
    <3> QED BY <3>1, <3>2
  <2>2. ASSUME NEW n \in E PROVE n + 1 \in E
    <3> SUFFICES ASSUME NEW m \in 0..(n + 1), m <= a PROVE g[m] = h[m]
      OBVIOUS
    <3>1. n \in Nat /\ m \in Nat /\ m \in 0..a /\ m \in 0..b
      OBVIOUS
    <3>2. CASE m \in B
      BY <3>1, <3>2
    <3>3. CASE m \notin B
      <4>1. p[m] \in 0..n /\ p[m] <= a
        <5>1. p[m] \in Nat /\ p[m] < m
          BY <3>1, <3>3
        <5>2. m <= n + 1 /\ a \in Nat
          OBVIOUS
        <5> QED BY ONLY <3>1, <5>1, <5>2, m <= a
      <4>2. g[p[m]] = h[p[m]]
        BY <4>1
      <4> QED BY <3>1, <3>3, <4>2
    <3> QED BY <3>2, <3>3
  <2>3. E = Nat
    <3>1. E \in SUBSET Nat
      OBVIOUS
    <3> HIDE DEF E
    <3> QED BY <2>1, <2>2, <3>1, SetInduction
  <2>4. \A m \in 0..a : g[m] = h[m]
    <3>1. a \in E
      <4> HIDE DEF E
      <4> QED BY <2>3
    <3>2. \A m \in 0..a : m <= a
      OBVIOUS
    <3> QED BY <3>1, <3>2
  <2> QED BY <2>4
<1> DEFINE part == [n \in Nat |-> CHOOSE g : Solves(g, n)]
           all == [n \in Nat |-> part[n][n]]
<1>5. \A n \in Nat : Solves(part[n], n)
  BY <1>3
<1> HIDE DEF part
<1>6. all \in [Nat -> V]
  BY <1>5 DEF Solves
<1>7. ASSUME NEW n \in Nat PROVE all[n] = IF n \in B THEN base[n] ELSE F[<<n, all[p[n]]>>]
  <2>0. n \in 0..n /\ Solves(part[n], n)
    BY <1>5
  <2>1. part[n][n] = IF n \in B THEN base[n] ELSE F[<<n, part[n][p[n]]>>]
    BY <2>0 DEF Solves
  <2>2. CASE n \in B
    BY <2>1, <2>2
  <2>3. CASE n \notin B
    <3>1. p[n] \in Nat /\ p[n] <= n /\ p[n] \in 0..p[n]
      BY <2>3
    <3>2. part[p[n]][p[n]] = part[n][p[n]]
      <4>1. Solves(part[p[n]], p[n]) /\ Solves(part[n], n)
        BY <1>5, <3>1
      <4>2. \A m \in 0..p[n] : part[p[n]][m] = part[n][m]
        <5>1. \A g, h : Solves(g, p[n]) /\ Solves(h, n) /\ p[n] <= n => \A m \in 0..p[n] : g[m] = h[m]
          BY <1>4, <3>1
        <5> QED BY <3>1, <4>1, <5>1, Zenon
      <4> QED BY <3>1, <4>2
    <3>3. all[p[n]] = part[n][p[n]]
      BY <3>1, <3>2
    <3> QED BY <2>1, <2>3, <3>3
  <2> QED BY <2>2, <2>3
<1> QED BY <1>6, <1>7 DEF RecursiveOn
=============================================================================
