------------------------------ MODULE FiniteSums ------------------------------
(***************************************************************************)
(* What the community modules' sum over a finite set computes.  Their      *)
(* definition is recursive and removes one chosen element at a time; the   *)
(* lemmas show that it exists, that any element may be taken out first,    *)
(* and what changing one summand does to the sum.                          *)
(*                                                                         *)
(* Induction is by least counterexample: the library's induction theorems  *)
(* take the statement as an operator, its well-foundedness theorems do     *)
(* not.                                                                    *)
(***************************************************************************)
EXTENDS Integers, Functions, FiniteSetTheorems, WellFoundedInduction, TLAPS

(* A set of natural numbers with an element has a least one.               *)
LEMMA LeastNat ==
    ASSUME NEW C \in SUBSET Nat, C # {}
    PROVE  \E n \in C : \A m \in C : n <= m
<1> DEFINE R == OpToRel(<, Nat)
<1>1. IsWellFoundedOn(R, Nat)
  BY NatLessThanWellFounded
<1>2. \A m, n \in Nat : m < n => <<m, n>> \in R
  BY DEF OpToRel
<1> HIDE DEF R
<1>3. PICK n \in C : \A m \in C : ~ (<<m, n>> \in R)
  BY <1>1, WFMin
<1>4. ASSUME NEW m \in C PROVE n <= m
  <2>1. ~ (m < n)
    BY <1>2, <1>3
  <2>2. m \in Nat /\ n \in Nat
    OBVIOUS
  <2> QED BY <2>1, <2>2
<1> QED BY <1>4

(* A family of subsets of a finite set has a minimal member.               *)
LEMMA MinimalSubset ==
    ASSUME NEW S, IsFiniteSet(S), NEW C \in SUBSET (SUBSET S), C # {}
    PROVE  \E s \in C : \A t \in C : t \subseteq s => t = s
<1> DEFINE R == StrictSubsetOrdering(S)
<1>1. IsWellFoundedOn(R, FiniteSubsetsOf(S))
  BY FS_StrictSubsetOrderingWellFounded
<1>2. C \subseteq FiniteSubsetsOf(S)
  BY FS_Subset DEF FiniteSubsetsOf
<1>3. PICK s \in C : \A t \in C : ~ (<<t, s>> \in R)
  <2>1. C # {}
    OBVIOUS
  <2> HIDE DEF R
  <2> QED BY <1>1, <1>2, <2>1, WFMin
<1> QED BY <1>3 DEF StrictSubsetOrdering

-----------------------------------------------------------------------------
(* The element taken out first, and the sums over all subsets of S.        *)
First(s) == CHOOSE x \in s : TRUE

Adds(f, g, D) ==
    g = [s \in D |-> IF s = {} THEN 0 ELSE f[First(s)] + g[s \ {First(s)}]]

Sums(f, S) ==
    CHOOSE g : g = [s \in SUBSET S |->
        IF s = {} THEN 0
        ELSE f[CHOOSE x \in s : TRUE] + g[s \ {CHOOSE x \in s : TRUE}]]

(* The community modules' sum is one of them.                              *)
LEMMA SumIsSums ==
    ASSUME NEW f, NEW S
    PROVE  SumFunctionOnSet(f, S) = Sums(f, S)[S]
BY Zenon DEF SumFunctionOnSet, FoldFunctionOnSet, MapThenFoldSet, Sums

LEMMA FirstInSet ==
    ASSUME NEW s, s # {}
    PROVE  First(s) \in s
BY DEF First

(* The recursion has a solution: on the sets of at most n elements for     *)
(* every n, hence on all subsets.                                          *)
LEMMA SumsExist ==
    ASSUME NEW S, IsFiniteSet(S), NEW f
    PROVE  \E g : Adds(f, g, SUBSET S)
<1> DEFINE Small(n) == {s \in SUBSET S : Cardinality(s) <= n}
           Fail == {n \in Nat : ~ \E g : Adds(f, g, Small(n))}
<1>1. \A s \in SUBSET S : IsFiniteSet(s) /\ Cardinality(s) \in Nat
  BY FS_Subset, FS_CardinalityType
<1>2. \A s \in SUBSET S : s # {} =>
        Cardinality(s) # 0 /\ Cardinality(s \ {First(s)}) = Cardinality(s) - 1
  BY <1>1, FirstInSet, FS_RemoveElement, FS_EmptySet
<1>3. Fail = {}
  <2>1. SUFFICES ASSUME Fail # {} PROVE FALSE
    OBVIOUS
  <2>2. PICK n \in Fail : \A m \in Fail : n <= m
    <3> HIDE DEF Small
    <3> QED BY <2>1, LeastNat
  <2>3. CASE n = 0
    <3>1. ASSUME NEW s \in Small(0) PROVE s = {}
      <4>1. Cardinality(s) <= 0 /\ s \in SUBSET S
        OBVIOUS
      <4>2. Cardinality(s) = 0
        BY <1>1, <4>1
      <4> QED BY <1>2, <4>1, <4>2
    <3>2. Adds(f, [s \in Small(0) |-> 0], Small(0))
      BY <3>1 DEF Adds
    <3> QED BY <2>2, <2>3, <3>2
  <2>4. CASE n # 0
    <3>1. n \in Nat /\ n - 1 \in Nat /\ n - 1 < n
      BY <2>2, <2>4
    <3>2. PICK g : Adds(f, g, Small(n - 1))
      <4>1. n - 1 \notin Fail
        <5> HIDE DEF Fail
        <5> QED BY <2>2, <3>1
      <4> HIDE DEF Small
      <4> QED BY <3>1, <4>1, Zenon
    <3> DEFINE h == [s \in Small(n) |->
                        IF s = {} THEN 0 ELSE f[First(s)] + g[s \ {First(s)}]]
    <3>3. ASSUME NEW s \in Small(n), s # {}
          PROVE  h[s \ {First(s)}] = g[s \ {First(s)}]
      <4> DEFINE t == s \ {First(s)}
      <4>1. t \in Small(n - 1) /\ t \in Small(n)
        BY <1>1, <1>2, <3>1, <3>3
      <4>2. g[t] = IF t = {} THEN 0 ELSE f[First(t)] + g[t \ {First(t)}]
        <5> HIDE DEF t, Small
        <5> QED BY <4>1, <3>2 DEF Adds
      <4>3. h[t] = IF t = {} THEN 0 ELSE f[First(t)] + g[t \ {First(t)}]
        <5> HIDE DEF t, Small
        <5> QED BY <4>1
      <4> QED BY <4>2, <4>3
    <3>4. Adds(f, h, Small(n))
      <4> HIDE DEF Small
      <4> QED BY <3>3 DEF Adds
    <3> QED BY <2>2, <3>4
  <2> QED BY <2>3, <2>4
<1>4. Small(Cardinality(S)) = SUBSET S
  BY <1>1, FS_Subset, FS_CardinalityType
<1>5. Cardinality(S) \in Nat
  BY FS_CardinalityType
<1>6. \A n \in Nat : \E g : Adds(f, g, Small(n))
  <2> HIDE DEF Small
  <2> QED BY <1>3, Zenon
<1> HIDE DEF Small, Fail
<1> QED BY <1>4, <1>5, <1>6, Zenon

(* The sum of no element, and of a set by its first element.               *)
LEMMA SumsEquation ==
    ASSUME NEW S, IsFiniteSet(S), NEW f
    PROVE  /\ Sums(f, S)[{}] = 0
           /\ \A s \in SUBSET S : s # {} =>
                Sums(f, S)[s] = f[First(s)] + Sums(f, S)[s \ {First(s)}]
<1>1. Adds(f, Sums(f, S), SUBSET S)
  <2>1. Sums(f, S) = CHOOSE g : Adds(f, g, SUBSET S)
    BY Zenon DEF Sums, Adds, First
  <2>2. \E g : Adds(f, g, SUBSET S)
    BY SumsExist
  <2> QED BY <2>1, <2>2, Zenon
<1> DEFINE g == Sums(f, S)
<1> HIDE DEF g
<1>2. \A s \in SUBSET S : g[s] = IF s = {} THEN 0 ELSE f[First(s)] + g[s \ {First(s)}]
  BY <1>1 DEF Adds, g
<1>3. {} \in SUBSET S
  OBVIOUS
<1> QED BY <1>2, <1>3 DEF g

(* Every partial sum is an integer.                                        *)
LEMMA SumsType ==
    ASSUME NEW S, IsFiniteSet(S), NEW f \in [S -> Int]
    PROVE  \A s \in SUBSET S : Sums(f, S)[s] \in Int
<1> DEFINE g == Sums(f, S)
           C == {s \in SUBSET S : g[s] \notin Int}
<1>1. /\ g[{}] = 0
      /\ \A s \in SUBSET S : s # {} => g[s] = f[First(s)] + g[s \ {First(s)}]
  BY SumsEquation
<1> HIDE DEF g
<1>2. SUFFICES ASSUME C # {} PROVE FALSE
  BY DEF g
<1>3. PICK s \in C : \A t \in C : t \subseteq s => t = s
  <2>1. C \in SUBSET (SUBSET S)
    OBVIOUS
  <2> HIDE DEF C
  <2> QED BY <1>2, <2>1, MinimalSubset
<1>4. s # {} /\ First(s) \in s /\ s \in SUBSET S
  <2>1. g[s] \notin Int /\ g[{}] \in Int
    BY <1>1, <1>3
  <2>2. s # {}
    BY <2>1
  <2> QED BY <2>2, FirstInSet
<1>5. s \ {First(s)} \notin C
  BY <1>3, <1>4
<1>6. g[s \ {First(s)}] \in Int /\ f[First(s)] \in Int
  BY <1>4, <1>5
<1>7. g[s] \in Int
  BY <1>1, <1>4, <1>6
<1> QED BY <1>3, <1>7

(* Any element may be taken out first.                                     *)
LEMMA SumsTakeOut ==
    ASSUME NEW S, IsFiniteSet(S), NEW f \in [S -> Int]
    PROVE  \A s \in SUBSET S : \A x \in s :
               Sums(f, S)[s] = f[x] + Sums(f, S)[s \ {x}]
<1> DEFINE g == Sums(f, S)
           C == {s \in SUBSET S : \E x \in s : g[s] # f[x] + g[s \ {x}]}
<1>1. /\ \A s \in SUBSET S : s # {} => g[s] = f[First(s)] + g[s \ {First(s)}]
      /\ \A s \in SUBSET S : g[s] \in Int
  BY SumsEquation, SumsType
<1> HIDE DEF g
<1>2. SUFFICES ASSUME C # {} PROVE FALSE
  BY DEF g
<1>3. PICK s \in C : \A t \in C : t \subseteq s => t = s
  <2>1. C \in SUBSET (SUBSET S)
    OBVIOUS
  <2> HIDE DEF C
  <2> QED BY <1>2, <2>1, MinimalSubset
<1>4. PICK x \in s : g[s] # f[x] + g[s \ {x}]
  BY <1>3
<1> DEFINE y == First(s)
<1>5. s \in SUBSET S /\ y \in s /\ g[s] = f[y] + g[s \ {y}]
  BY <1>1, <1>4, FirstInSet
<1> HIDE DEF y
<1>6. y # x
  BY <1>4, <1>5
<1>7. s \ {x} \notin C /\ s \ {y} \notin C
  BY <1>3, <1>4, <1>5
<1> DEFINE r == s \ {x, y}
<1>8. r = (s \ {x}) \ {y} /\ r = (s \ {y}) \ {x} /\ r \in SUBSET S
  BY <1>5
<1> HIDE DEF r
<1>9. g[s \ {x}] = f[y] + g[r]
  BY <1>4, <1>5, <1>6, <1>7, <1>8
<1>10. g[s \ {y}] = f[x] + g[r]
  BY <1>4, <1>5, <1>6, <1>7, <1>8
<1>11. f[x] \in Int /\ f[y] \in Int /\ g[r] \in Int
  BY <1>1, <1>4, <1>5, <1>8
<1> QED BY <1>4, <1>5, <1>9, <1>10, <1>11

(* Only the summands count.                                                *)
LEMMA SumsSame ==
    ASSUME NEW S, IsFiniteSet(S), NEW f \in [S -> Int], NEW h \in [S -> Int]
    PROVE  \A s \in SUBSET S : (\A x \in s : f[x] = h[x]) => Sums(f, S)[s] = Sums(h, S)[s]
<1> DEFINE a == Sums(f, S)
           b == Sums(h, S)
           C == {s \in SUBSET S : (\A x \in s : f[x] = h[x]) /\ a[s] # b[s]}
<1>1. /\ a[{}] = 0
      /\ \A s \in SUBSET S : s # {} => a[s] = f[First(s)] + a[s \ {First(s)}]
  BY SumsEquation
<1>2. /\ b[{}] = 0
      /\ \A s \in SUBSET S : s # {} => b[s] = h[First(s)] + b[s \ {First(s)}]
  BY SumsEquation
<1> HIDE DEF a, b
<1>3. SUFFICES ASSUME C # {} PROVE FALSE
  BY DEF a, b
<1>4. PICK s \in C : \A t \in C : t \subseteq s => t = s
  <2>1. C \in SUBSET (SUBSET S)
    OBVIOUS
  <2> HIDE DEF C
  <2> QED BY <1>3, <2>1, MinimalSubset
<1>5. s # {} /\ First(s) \in s /\ s \in SUBSET S
  BY <1>1, <1>2, <1>4, FirstInSet
<1>6. s \ {First(s)} \notin C
  BY <1>4, <1>5
<1>7. a[s \ {First(s)}] = b[s \ {First(s)}]
  BY <1>4, <1>5, <1>6
<1>8. a[s] = b[s]
  BY <1>1, <1>2, <1>4, <1>5, <1>7
<1> QED BY <1>4, <1>8

-----------------------------------------------------------------------------
(* The sum over a finite set is an integer; that of zeros is zero.         *)
LEMMA SumType ==
    ASSUME NEW S, IsFiniteSet(S), NEW f \in [S -> Int]
    PROVE  SumFunctionOnSet(f, S) \in Int
BY SumIsSums, SumsType

LEMMA SumOfZeros ==
    ASSUME NEW S, IsFiniteSet(S)
    PROVE  SumFunctionOnSet([x \in S |-> 0], S) = 0
<1> DEFINE f == [x \in S |-> 0]
           g == Sums(f, S)
           C == {s \in SUBSET S : g[s] # 0}
<1>1. /\ g[{}] = 0
      /\ \A s \in SUBSET S : s # {} => g[s] = f[First(s)] + g[s \ {First(s)}]
  <2> HIDE DEF f
  <2> QED BY SumsEquation
<1> HIDE DEF g
<1>2. C = {}
  <2>1. SUFFICES ASSUME C # {} PROVE FALSE
    OBVIOUS
  <2>2. PICK s \in C : \A t \in C : t \subseteq s => t = s
    <3>1. C \in SUBSET (SUBSET S)
      OBVIOUS
    <3> HIDE DEF C
    <3> QED BY <2>1, <3>1, MinimalSubset
  <2>3. s # {} /\ First(s) \in s /\ s \in SUBSET S
    BY <1>1, <2>2, FirstInSet
  <2>4. s \ {First(s)} \notin C
    BY <2>2, <2>3
  <2>5. g[s \ {First(s)}] = 0 /\ f[First(s)] = 0
    BY <2>3, <2>4
  <2>6. g[s] = 0
    BY <1>1, <2>3, <2>5
  <2> QED BY <2>2, <2>6
<1>3. g[S] = 0
  BY <1>2
<1>4. SumFunctionOnSet(f, S) = g[S]
  <2> HIDE DEF f
  <2> QED BY SumIsSums DEF g
<1> QED BY <1>3, <1>4

(* Changing one summand changes the sum by as much.                        *)
LEMMA SumChange ==
    ASSUME NEW S, IsFiniteSet(S), NEW f \in [S -> Int], NEW h \in [S -> Int],
           NEW o \in S, \A x \in S : x # o => h[x] = f[x]
    PROVE  SumFunctionOnSet(h, S) = SumFunctionOnSet(f, S) + h[o] - f[o]
<1> DEFINE a == Sums(f, S)
           b == Sums(h, S)
           r == S \ {o}
<1>1. a[S] = f[o] + a[r] /\ b[S] = h[o] + b[r]
  BY SumsTakeOut
<1>2. a[r] = b[r] /\ a[r] \in Int
  BY SumsSame, SumsType
<1>3. SumFunctionOnSet(f, S) = a[S] /\ SumFunctionOnSet(h, S) = b[S]
  BY SumIsSums
<1> HIDE DEF a, b, r
<1> QED BY <1>1, <1>2, <1>3

(* No summand of a sum of natural numbers exceeds the sum.                 *)
LEMMA SumAtLeast ==
    ASSUME NEW S, IsFiniteSet(S), NEW f \in [S -> Nat], NEW o \in S
    PROVE  f[o] <= SumFunctionOnSet(f, S)
<1> DEFINE g == Sums(f, S)
           C == {s \in SUBSET S : ~ (g[s] \in Nat)}
<1>1. /\ g[{}] = 0
      /\ \A s \in SUBSET S : s # {} => g[s] = f[First(s)] + g[s \ {First(s)}]
  BY SumsEquation
<1>2. f \in [S -> Int]
  OBVIOUS
<1>3. g[S] = f[o] + g[S \ {o}]
  BY <1>2, SumsTakeOut
<1>4. SumFunctionOnSet(f, S) = g[S]
  BY SumIsSums
<1> HIDE DEF g
<1>5. C = {}
  <2>1. SUFFICES ASSUME C # {} PROVE FALSE
    OBVIOUS
  <2>2. PICK s \in C : \A t \in C : t \subseteq s => t = s
    <3>1. C \in SUBSET (SUBSET S)
      OBVIOUS
    <3> HIDE DEF C
    <3> QED BY <2>1, <3>1, MinimalSubset
  <2>3. s # {} /\ First(s) \in s /\ s \in SUBSET S
    <3>1. g[s] \notin Nat /\ g[{}] \in Nat
      BY <1>1, <2>2
    <3>2. s # {}
      BY <3>1
    <3> QED BY <3>2, FirstInSet
  <2>4. s \ {First(s)} \notin C
    BY <2>2, <2>3
  <2>5. g[s \ {First(s)}] \in Nat /\ f[First(s)] \in Nat
    BY <2>3, <2>4
  <2>6. g[s] \in Nat
    BY <1>1, <2>3, <2>5
  <2> QED BY <2>2, <2>6
<1>6. g[S \ {o}] \in Nat /\ f[o] \in Nat
  BY <1>5
<1> QED BY <1>3, <1>4, <1>6
=============================================================================
