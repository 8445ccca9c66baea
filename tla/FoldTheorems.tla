----------------------------- MODULE FoldTheorems -----------------------------
(***************************************************************************)
(* What the proofs about calculations rest on: least and greatest naturals,*)
(* smallest sets, and the sum of a function over a finite set, as the folds*)
(* of the library compute it.  Induction is by the least counterexample.   *)
(***************************************************************************)
EXTENDS Integers, FiniteSetTheorems, WellFoundedInduction, TLAPS

-----------------------------------------------------------------------------
(* Least and greatest elements *)

\* A nonempty set of naturals has a least element.
LEMMA LeastNatural ==
  ASSUME NEW S, S \subseteq Nat, S # {}
  PROVE  \E x \in S : \A y \in S : x <= y
  <1> DEFINE R == OpToRel(<, Nat)
  <1>1. IsWellFoundedOn(R, Nat)
    BY NatLessThanWellFounded, Zenon
  <1>2. \A x, y \in Nat : x < y => <<x, y>> \in R
    BY DEF OpToRel
  <1> HIDE DEF R
  <1>3. PICK x \in S : \A y \in S : <<y, x>> \notin R
    BY <1>1, WFMin
  <1>4. ASSUME NEW y \in S PROVE x <= y
    <2>1. x \in Nat /\ y \in Nat /\ ~(y < x)
      BY <1>2, <1>3
    <2> QED
      BY <2>1
  <1> QED
    BY <1>4

\* One that is bounded has a greatest element.
LEMMA GreatestNatural ==
  ASSUME NEW S, S # {}, NEW n \in Nat, S \subseteq 0..n
  PROVE  \E x \in S : \A y \in S : x >= y
  <1> DEFINE T == {n - x : x \in S}
  <1>1. T \subseteq Nat /\ T # {}
    <2>1. ASSUME NEW x \in S PROVE n - x \in Nat
      <3>1. x \in 0..n
        OBVIOUS
      <3> QED
        BY <3>1
    <2>2. T \subseteq Nat
      BY <2>1
    <2>3. T # {}
      OBVIOUS
    <2> QED
      BY <2>2, <2>3
  <1>2. PICK t \in T : \A u \in T : t <= u
    BY <1>1, LeastNatural
  <1>3. PICK x \in S : t = n - x
    BY <1>2
  <1>4. \A y \in S : x >= y
    BY <1>2, <1>3
  <1> QED
    BY <1>4

\* Among finite sets, one is smallest.
LEMMA SmallestSet ==
  ASSUME NEW C, C # {}, \A s \in C : IsFiniteSet(s)
  PROVE  \E s \in C : \A t \in C : Cardinality(s) <= Cardinality(t)
  <1> DEFINE K == {Cardinality(s) : s \in C}
  <1>1. K \subseteq Nat /\ K # {}
    BY FS_CardinalityType
  <1>2. PICK k \in K : \A m \in K : k <= m
    <2> HIDE DEF K
    <2> QED
      BY <1>1, LeastNatural
  <1> QED
    BY <1>2

\* A finite set of numbers has a greatest element.
LEMMA GreatestOfFinite ==
  ASSUME NEW S, IsFiniteSet(S), S # {}, S \subseteq Int
  PROVE  \E x \in S : \A y \in S : y <= x
  <1> DEFINE Good(s) == \E x \in s : \A y \in s : y <= x
             Bad == {s \in SUBSET S : s # {} /\ ~Good(s)}
  <1>1. \A s \in SUBSET S : IsFiniteSet(s) /\ Cardinality(s) \in Nat
    BY FS_Subset, FS_CardinalityType
  <1>2. Bad = {}
    <2> SUFFICES ASSUME Bad # {} PROVE FALSE
      OBVIOUS
    <2>1. \A s \in Bad : IsFiniteSet(s)
      BY <1>1
    <2>2. PICK s \in Bad : \A t \in Bad : Cardinality(s) <= Cardinality(t)
      <3> HIDE DEF Bad
      <3> QED
        BY <2>1, SmallestSet
    <2>3. s \in SUBSET S /\ s # {} /\ ~Good(s)
      BY <2>2
    <2>4. PICK x \in s : TRUE
      BY <2>3
    <2>5. s \ {x} = {} \/ Good(s \ {x})
      <3>1. s \ {x} \in SUBSET S
        BY <2>3
      <3>2. Cardinality(s \ {x}) = Cardinality(s) - 1 /\ Cardinality(s) \in Nat
        BY <1>1, <2>3, FS_RemoveElement
      <3>3. s \ {x} \notin Bad
        <4> HIDE DEF Bad
        <4> QED
          BY <2>2, <3>2
      <3> HIDE DEF Good
      <3> QED
        BY <3>1, <3>3
    <2>6. s \subseteq Int
      BY <2>3
    <2>7. CASE s \ {x} = {}
      BY <2>3, <2>6, <2>7
    <2>8. CASE Good(s \ {x})
      <3>1. PICK z \in s \ {x} : \A y \in s \ {x} : y <= z
        BY <2>8
      <3>2. CASE x <= z
        BY <2>3, <3>1, <3>2
      <3>3. CASE ~(x <= z)
        <4>1. \A y \in s : y <= x
          BY <2>6, <3>1, <3>3
        <4> QED
          BY <2>3, <4>1
      <3> QED
        BY <3>2, <3>3
    <2> QED
      BY <2>5, <2>7, <2>8
  <1>3. S \in SUBSET S /\ S \notin Bad
    BY <1>2
  <1> QED
    BY <1>3

\* A set of numbers from one that has no hole is the numbers up to its cardinality.
LEMMA NoHole ==
  ASSUME NEW p \in Nat, NEW S, S \subseteq 1..p, \A k \in S : k > 1 => k - 1 \in S
  PROVE  \E n \in 0..p : S = 1..n /\ Cardinality(S) = n
  <1>1. CASE S = {}
    <2>1. 0 \in 0..p /\ S = 1..0
      BY <1>1
    <2> QED
      BY <1>1, <2>1, FS_EmptySet
  <1>2. CASE S # {}
    <2>1. S \subseteq 0..p
      OBVIOUS
    <2>2. PICK n \in S : \A k \in S : n >= k
      BY <1>2, <2>1, GreatestNatural
    <2>3. n \in Nat /\ n \in 1..p
      BY <2>2
    <2> DEFINE Missing == {k \in 1..n : k \notin S}
    <2>4. Missing = {}
      <3> SUFFICES ASSUME Missing # {} PROVE FALSE
        OBVIOUS
      <3>1. Missing \subseteq 0..n
        BY <2>3
      <3>2. PICK m \in Missing : \A k \in Missing : m >= k
        <4> HIDE DEF Missing
        <4> QED
          BY <2>3, <3>1, GreatestNatural
      <3>3. m \in 1..n /\ m \notin S /\ m # n
        BY <2>2, <3>2
      <3>4. m + 1 \in 1..n /\ m + 1 \notin Missing
        <4> HIDE DEF Missing
        <4> QED
          BY <2>3, <3>2, <3>3
      <3>5. m + 1 \in S /\ (m + 1) - 1 \in S
        BY <3>3, <3>4
      <3> QED
        BY <3>3, <3>5
    <2>5. S = 1..n
      <3>1. \A k \in 1..n : k \in S
        BY <2>4
      <3>2. \A k \in S : k \in 1..n
        <4> TAKE k \in S
        <4>1. k \in 1..p /\ n >= k
          BY <2>2
        <4> QED
          BY <2>3, <4>1
      <3> HIDE DEF Missing
      <3> QED
        BY <3>1, <3>2
    <2>6. Cardinality(1..n) = n
      <3>1. 1 \in Int /\ n \in Int /\ ~(1 > n)
        BY <2>3
      <3> QED
        BY <2>3, <3>1, FS_Interval
    <2> QED
      BY <2>3, <2>5, <2>6
  <1> QED
    BY <1>1, <1>2

-----------------------------------------------------------------------------
(* Sums *)

\* The partial sums of f over the parts of S.
SumStep(f, g, s) == LET x == CHOOSE x \in s : TRUE IN f[x] + g[s \ {x}]
PartialSums(f, S) == CHOOSE g : g = [s \in SUBSET S |-> IF s = {} THEN 0 ELSE SumStep(f, g, s)]
Total(f, S) == PartialSums(f, S)[S]

\* The recursion over the parts of a finite set is well founded: parts for which it were
\* not would have a smallest cardinality.
LEMMA PartialExists ==
  ASSUME NEW S, IsFiniteSet(S), NEW f
  PROVE  PartialSums(f, S) = [s \in SUBSET S |-> IF s = {} THEN 0 ELSE SumStep(f, PartialSums(f, S), s)]
  <1> DEFINE Upto(m) == {s \in SUBSET S : Cardinality(s) <= m}
             Good(g, m) == g = [s \in Upto(m) |-> IF s = {} THEN 0 ELSE SumStep(f, g, s)]
             Bad == {m \in Nat : ~\E g : Good(g, m)}
  <1>1. \A s \in SUBSET S : IsFiniteSet(s) /\ Cardinality(s) \in Nat /\ Cardinality(s) <= Cardinality(S)
    BY FS_Subset, FS_CardinalityType
  <1>2. ASSUME NEW s \in SUBSET S, s # {}
        PROVE  LET x == CHOOSE x \in s : TRUE
               IN  x \in s /\ s \ {x} \in SUBSET S /\ Cardinality(s \ {x}) = Cardinality(s) - 1
    BY <1>1, <1>2, FS_RemoveElement
  <1>3. Bad = {}
    <2> SUFFICES ASSUME Bad # {} PROVE FALSE
      OBVIOUS
    <2>1. Bad \subseteq Nat
      OBVIOUS
    <2>2. PICK m \in Bad : \A k \in Bad : m <= k
      <3> HIDE DEF Bad
      <3> QED
        BY <2>1, LeastNatural
    <2>3. m \in Nat /\ ~\E g : Good(g, m)
      BY <2>2
    <2>4. m # 0
      <3> DEFINE g == [s \in Upto(0) |-> 0]
      <3>1. \A s \in Upto(0) : s = {}
        BY <1>1, FS_EmptySet
      <3>2. Good(g, 0)
        BY <3>1
      <3> QED
        BY <2>3, <3>2
    <2>5. m - 1 \in Nat /\ m - 1 \notin Bad
      <3> HIDE DEF Bad
      <3> QED
        BY <2>2, <2>3, <2>4
    <2>6. PICK g : Good(g, m - 1)
      BY <2>5
    <2> DEFINE h == [s \in Upto(m) |-> IF s = {} THEN 0 ELSE SumStep(f, g, s)]
    <2>7. \A s \in Upto(m - 1) : s \in Upto(m) /\ h[s] = g[s]
      <3>1. \A s \in Upto(m - 1) : s \in Upto(m)
        BY <1>1, <2>3
      <3>2. \A s \in Upto(m - 1) : g[s] = IF s = {} THEN 0 ELSE SumStep(f, g, s)
        BY <2>6
      <3> QED
        BY <3>1, <3>2
    <2>8. \A s \in Upto(m) : s # {} => SumStep(f, g, s) = SumStep(f, h, s)
      <3> SUFFICES ASSUME NEW s \in Upto(m), s # {} PROVE SumStep(f, g, s) = SumStep(f, h, s)
        OBVIOUS
      <3> DEFINE x == CHOOSE x \in s : TRUE
      <3>1. s \ {x} \in SUBSET S /\ Cardinality(s \ {x}) = Cardinality(s) - 1
        BY <1>2
      <3>2. s \ {x} \in Upto(m - 1)
        BY <1>1, <2>3, <3>1
      <3>3. h[s \ {x}] = g[s \ {x}]
        BY <2>7, <3>2
      <3> QED
        BY <3>3 DEF SumStep
    <2>9. h = [s \in Upto(m) |-> IF s = {} THEN 0 ELSE SumStep(f, h, s)]
      <3> HIDE DEF Upto
      <3> QED
        BY <2>8
    <2> QED
      BY <2>3, <2>9
  <1>4. PICK g : Good(g, Cardinality(S))
    BY <1>1, <1>3
  <1>5. Upto(Cardinality(S)) = SUBSET S
    BY <1>1
  <1>6. g = [s \in SUBSET S |-> IF s = {} THEN 0 ELSE SumStep(f, g, s)]
    BY <1>4, <1>5
  <1> QED
    BY <1>6 DEF PartialSums

\* The chosen element of a part, and the part without it.
LEMMA PartOfSum ==
  ASSUME NEW S, IsFiniteSet(S), NEW f
  PROVE  /\ PartialSums(f, S)[{}] = 0
         /\ \A s \in SUBSET S : s # {} =>
              \E x \in s : PartialSums(f, S)[s] = f[x] + PartialSums(f, S)[s \ {x}]
                         /\ x = CHOOSE y \in s : TRUE
  <1> DEFINE g == PartialSums(f, S)
  <1>1. g = [s \in SUBSET S |-> IF s = {} THEN 0 ELSE SumStep(f, g, s)]
    BY PartialExists
  <1> HIDE DEF g
  <1>2. g[{}] = 0
    BY <1>1
  <1>3. ASSUME NEW s \in SUBSET S, s # {}
        PROVE  \E x \in s : g[s] = f[x] + g[s \ {x}] /\ x = CHOOSE y \in s : TRUE
    <2>1. g[s] = SumStep(f, g, s)
      BY <1>1, <1>3
    <2> DEFINE x == CHOOSE y \in s : TRUE
    <2>2. x \in s
      BY <1>3
    <2>3. g[s] = f[x] + g[s \ {x}]
      BY <2>1 DEF SumStep
    <2> QED
      BY <2>2, <2>3
  <1> QED
    BY <1>2, <1>3 DEF g

\* A part has the same sum wherever it is a part.
LEMMA PartialSumsAgree ==
  ASSUME NEW S, IsFiniteSet(S), NEW T \in SUBSET S, NEW f
  PROVE  \A s \in SUBSET T : PartialSums(f, T)[s] = PartialSums(f, S)[s]
  <1> DEFINE g == PartialSums(f, S)
             h == PartialSums(f, T)
             Bad == {s \in SUBSET T : h[s] # g[s]}
  <1>1. \A s \in SUBSET S : IsFiniteSet(s) /\ Cardinality(s) \in Nat
    BY FS_Subset, FS_CardinalityType
  <1>2. /\ g[{}] = 0
        /\ \A s \in SUBSET S : s # {} => \E x \in s : g[s] = f[x] + g[s \ {x}]
                                              /\ x = CHOOSE y \in s : TRUE
    BY PartOfSum
  <1>3. /\ h[{}] = 0
        /\ \A s \in SUBSET T : s # {} => \E x \in s : h[s] = f[x] + h[s \ {x}]
                                              /\ x = CHOOSE y \in s : TRUE
    BY <1>1, PartOfSum
  <1> HIDE DEF g, h
  <1>4. Bad = {}
    <2> SUFFICES ASSUME Bad # {} PROVE FALSE
      OBVIOUS
    <2>1. \A s \in Bad : IsFiniteSet(s)
      BY <1>1
    <2>2. PICK s \in Bad : \A t \in Bad : Cardinality(s) <= Cardinality(t)
      <3> HIDE DEF Bad
      <3> QED
        BY <2>1, SmallestSet
    <2>3. s \in SUBSET T /\ s \in SUBSET S /\ s # {}
      BY <1>2, <1>3, <2>2
    <2>4. PICK x \in s : g[s] = f[x] + g[s \ {x}] /\ x = CHOOSE y \in s : TRUE
      BY <1>2, <2>3
    <2>5. h[s] = f[x] + h[s \ {x}]
      BY <1>3, <2>3, <2>4
    <2>6. s \ {x} \in SUBSET T /\ Cardinality(s \ {x}) = Cardinality(s) - 1
      BY <1>1, <2>3, FS_RemoveElement
    <2>7. s \ {x} \notin Bad
      <3>1. Cardinality(s) \in Nat
        BY <1>1, <2>3
      <3> HIDE DEF Bad
      <3> QED
        BY <2>2, <2>6, <3>1
    <2> QED
      BY <2>2, <2>4, <2>5, <2>6, <2>7
  <1> QED
    BY <1>4 DEF g, h

\* The sum is a number, and adds any of the elements to the sum of the others.
LEMMA AnyElementOfPart ==
  ASSUME NEW S, IsFiniteSet(S), NEW f, \A x \in S : f[x] \in Int
  PROVE  \A s \in SUBSET S :
           /\ PartialSums(f, S)[s] \in Int
           /\ \A x \in s : PartialSums(f, S)[s] = f[x] + PartialSums(f, S)[s \ {x}]
  <1> DEFINE g == PartialSums(f, S)
             Good(s) == g[s] \in Int /\ \A x \in s : g[s] = f[x] + g[s \ {x}]
             Bad == {s \in SUBSET S : ~Good(s)}
  <1>1. \A s \in SUBSET S : IsFiniteSet(s) /\ Cardinality(s) \in Nat
    BY FS_Subset, FS_CardinalityType
  <1>2. /\ g[{}] = 0
        /\ \A s \in SUBSET S : s # {} => \E x \in s : g[s] = f[x] + g[s \ {x}]
                                              /\ x = CHOOSE y \in s : TRUE
    BY PartOfSum
  <1> HIDE DEF g
  <1>3. Bad = {}
    <2> SUFFICES ASSUME Bad # {} PROVE FALSE
      OBVIOUS
    <2>1. \A s \in Bad : IsFiniteSet(s)
      BY <1>1
    <2>2. PICK s \in Bad : \A t \in Bad : Cardinality(s) <= Cardinality(t)
      <3> HIDE DEF Bad
      <3> QED
        BY <2>1, SmallestSet
    <2>3. s \in SUBSET S /\ s # {} /\ ~Good(s)
      <3>1. s \in SUBSET S /\ ~Good(s)
        BY <2>2
      <3>2. Good({})
        BY <1>2
      <3> QED
        BY <3>1, <3>2
    <2>4. ASSUME NEW t \in SUBSET S, NEW z \in s, t = s \ {z}
          PROVE  Good(t)
      <3>1. Cardinality(s) \in Nat /\ Cardinality(t) = Cardinality(s) - 1
        BY <1>1, <2>3, <2>4, FS_RemoveElement
      <3>2. t \notin Bad
        <4> HIDE DEF Bad
        <4> QED
          BY <2>2, <3>1
      <3> QED
        BY <3>2
    <2>5. PICK y \in s : g[s] = f[y] + g[s \ {y}]
      BY <1>2, <2>3
    <2>6. Good(s \ {y}) /\ f[y] \in Int /\ \A x \in s : f[x] \in Int
      <3>1. s \ {y} \in SUBSET S
        BY <2>3
      <3> HIDE DEF Good
      <3> QED
        BY <2>3, <2>4, <3>1
    <2>7. g[s] \in Int
      BY <2>5, <2>6
    <2>8. ASSUME NEW x \in s PROVE g[s] = f[x] + g[s \ {x}]
      <3>1. CASE x = y
        BY <2>5, <3>1
      <3>2. CASE x # y
        <4>1. Good(s \ {x})
          <5>1. s \ {x} \in SUBSET S
            BY <2>3
          <5> HIDE DEF Good
          <5> QED
            BY <2>4, <5>1
        <4>2. g[s \ {y}] = f[x] + g[(s \ {y}) \ {x}]
          BY <2>6, <3>2
        <4>3. g[s \ {x}] = f[y] + g[(s \ {x}) \ {y}]
          BY <3>2, <4>1
        <4>4. (s \ {x}) \ {y} = (s \ {y}) \ {x}
          OBVIOUS
        <4> DEFINE t == s \ {x}
                   a == g[t \ {y}]
        <4>5. a \in Int
          <5>1. t \in SUBSET S /\ y \in t /\ t \ {y} \in SUBSET S
            BY <2>3, <3>2
          <5>2. IsFiniteSet(t) /\ Cardinality(t) = Cardinality(s) - 1
            BY <1>1, <2>3, FS_RemoveElement
          <5> HIDE DEF t
          <5>3. Cardinality(t \ {y}) = Cardinality(s) - 2 /\ Cardinality(s) \in Nat
            BY <1>1, <2>3, <5>1, <5>2, FS_RemoveElement
          <5>4. t \ {y} \notin Bad
            <6> HIDE DEF Bad
            <6> QED
              BY <2>2, <5>3
          <5> QED
            BY <5>1, <5>4
        <4>6. g[s \ {y}] = f[x] + a /\ g[t] = f[y] + a
          BY <4>2, <4>3, <4>4
        <4>7. f[x] \in Int /\ f[y] \in Int /\ g[s] = f[y] + g[s \ {y}]
          BY <2>5, <2>6
        <4> HIDE DEF a
        <4>8. g[s] = f[x] + g[t]
          <5> HIDE DEF t
          <5> QED
            BY <4>5, <4>6, <4>7
        <4> QED
          BY <4>8
      <3> QED
        BY <3>1, <3>2
    <2> QED
      BY <2>3, <2>7, <2>8
  <1> QED
    BY <1>3 DEF g

LEMMA TotalOfNothing == \A f : Total(f, {}) = 0
  BY FS_EmptySet, PartOfSum DEF Total

LEMMA TotalAdds ==
  ASSUME NEW S, IsFiniteSet(S), NEW f, \A x \in S : f[x] \in Int
  PROVE  /\ Total(f, S) \in Int
         /\ \A x \in S : Total(f, S) = f[x] + Total(f, S \ {x})
  <1>1. Total(f, S) \in Int
    BY AnyElementOfPart DEF Total
  <1>2. ASSUME NEW x \in S PROVE Total(f, S) = f[x] + Total(f, S \ {x})
    <2>1. S \ {x} \in SUBSET S /\ S \in SUBSET S /\ S \ {x} \in SUBSET (S \ {x})
      OBVIOUS
    <2>2. PartialSums(f, S)[S] = f[x] + PartialSums(f, S)[S \ {x}]
      BY <2>1, AnyElementOfPart
    <2>3. PartialSums(f, S \ {x})[S \ {x}] = PartialSums(f, S)[S \ {x}]
      BY <2>1, PartialSumsAgree
    <2> QED
      BY <2>2, <2>3 DEF Total
  <1> QED
    BY <1>1, <1>2

\* Only the values on the set matter.
LEMMA TotalsAgree ==
  ASSUME NEW S, IsFiniteSet(S), NEW f, NEW g,
         \A x \in S : f[x] \in Int /\ g[x] = f[x]
  PROVE  Total(f, S) = Total(g, S)
  <1> DEFINE Bad == {s \in SUBSET S : Total(f, s) # Total(g, s)}
  <1>1. \A s \in SUBSET S : IsFiniteSet(s) /\ Cardinality(s) \in Nat
    BY FS_Subset, FS_CardinalityType
  <1>2. Bad = {}
    <2> SUFFICES ASSUME Bad # {} PROVE FALSE
      OBVIOUS
    <2>1. \A s \in Bad : IsFiniteSet(s)
      BY <1>1
    <2>2. PICK s \in Bad : \A t \in Bad : Cardinality(s) <= Cardinality(t)
      <3> HIDE DEF Bad
      <3> QED
        BY <2>1, SmallestSet
    <2>3. s \in SUBSET S /\ s # {}
      BY <2>2, TotalOfNothing
    <2>4. PICK x \in s : TRUE
      BY <2>3
    <2>5. Total(f, s) = f[x] + Total(f, s \ {x}) /\ Total(g, s) = g[x] + Total(g, s \ {x})
      BY <1>1, <2>3, TotalAdds
    <2>6. s \ {x} \in SUBSET S /\ s \ {x} \notin Bad
      <3>1. s \ {x} \in SUBSET S
        BY <2>3
      <3>2. Cardinality(s \ {x}) = Cardinality(s) - 1 /\ Cardinality(s) \in Nat
        BY <1>1, <2>3, FS_RemoveElement
      <3> HIDE DEF Bad
      <3> QED
        BY <2>2, <3>1, <3>2
    <2> QED
      BY <2>2, <2>3, <2>5, <2>6
  <1> QED
    BY <1>2

\* A sum lies between the least and the greatest value, times the number of elements.
LEMMA TotalBounds ==
  ASSUME NEW S, IsFiniteSet(S), NEW f, NEW low \in Int, NEW high \in Int,
         \A x \in S : f[x] \in Int /\ low <= f[x] /\ f[x] <= high
  PROVE  low * Cardinality(S) <= Total(f, S) /\ Total(f, S) <= high * Cardinality(S)
  <1> DEFINE Good(s) == low * Cardinality(s) <= Total(f, s) /\ Total(f, s) <= high * Cardinality(s)
             Bad == {s \in SUBSET S : ~Good(s)}
  <1>1. \A s \in SUBSET S : IsFiniteSet(s) /\ Cardinality(s) \in Nat
    BY FS_Subset, FS_CardinalityType
  <1>2. Bad = {}
    <2> SUFFICES ASSUME Bad # {} PROVE FALSE
      OBVIOUS
    <2>1. \A s \in Bad : IsFiniteSet(s)
      BY <1>1
    <2>2. PICK s \in Bad : \A t \in Bad : Cardinality(s) <= Cardinality(t)
      <3> HIDE DEF Bad
      <3> QED
        BY <2>1, SmallestSet
    <2>3. Good({})
      BY TotalOfNothing, FS_EmptySet
    <2>4. s \in SUBSET S /\ s # {}
      BY <2>2, <2>3
    <2>5. PICK x \in s : TRUE
      BY <2>4
    <2> DEFINE t == s \ {x}
               n == Cardinality(t)
               a == Total(f, t)
    <2>6. Total(f, s) = f[x] + a
      BY <1>1, <2>4, TotalAdds
    <2>7. t \in SUBSET S /\ n \in Nat /\ Cardinality(s) = n + 1
      <3>1. n = Cardinality(s) - 1 /\ Cardinality(s) \in Nat /\ t \in SUBSET S
        BY <1>1, <2>4, FS_RemoveElement
      <3> QED
        BY <1>1, <3>1
    <2>8. Good(t)
      <3> HIDE DEF t
      <3>1. t \notin Bad
        <4> HIDE DEF Bad
        <4> QED
          BY <2>2, <2>7
      <3> QED
        BY <2>7, <3>1
    <2>9. a \in Int
      BY <1>1, <2>7, TotalAdds
    <2>10. low * n <= a /\ a <= high * n
      BY <2>8
    <2> HIDE DEF a, n
    <2>11. low * (n + 1) = low * n + low /\ high * (n + 1) = high * n + high
      BY <2>7
    <2>12. f[x] \in Int /\ low <= f[x] /\ f[x] <= high
      BY <2>4
    <2>13. low * n \in Int /\ high * n \in Int
      BY <2>7
    <2>14. low * (n + 1) <= f[x] + a /\ f[x] + a <= high * (n + 1)
      BY <2>9, <2>10, <2>11, <2>12, <2>13
    <2>15. Good(s)
      BY <2>6, <2>7, <2>14
    <2> QED
      BY <2>2, <2>15
  <1> QED
    BY <1>2

\* A sum of naturals is a natural.
LEMMA TotalOfNaturals ==
  ASSUME NEW S, IsFiniteSet(S), NEW f, \A x \in S : f[x] \in Nat
  PROVE  Total(f, S) \in Nat
  <1> DEFINE Bad == {s \in SUBSET S : Total(f, s) \notin Nat}
  <1>1. \A s \in SUBSET S : IsFiniteSet(s) /\ Cardinality(s) \in Nat
    BY FS_Subset, FS_CardinalityType
  <1>2. Bad = {}
    <2> SUFFICES ASSUME Bad # {} PROVE FALSE
      OBVIOUS
    <2>1. \A s \in Bad : IsFiniteSet(s)
      BY <1>1
    <2>2. PICK s \in Bad : \A t \in Bad : Cardinality(s) <= Cardinality(t)
      <3> HIDE DEF Bad
      <3> QED
        BY <2>1, SmallestSet
    <2>3. s \in SUBSET S /\ s # {}
      BY <2>2, TotalOfNothing
    <2>4. PICK x \in s : TRUE
      BY <2>3
    <2>5. Total(f, s) = f[x] + Total(f, s \ {x})
      <3>1. \A y \in s : f[y] \in Int
        BY <2>3
      <3> QED
        BY <1>1, <2>3, <3>1, TotalAdds
    <2>6. s \ {x} \in SUBSET S /\ s \ {x} \notin Bad
      <3>1. s \ {x} \in SUBSET S
        BY <2>3
      <3>2. Cardinality(s \ {x}) = Cardinality(s) - 1 /\ Cardinality(s) \in Nat
        BY <1>1, <2>3, FS_RemoveElement
      <3> HIDE DEF Bad
      <3> QED
        BY <2>2, <3>1, <3>2
    <2>7. Total(f, s \ {x}) \in Nat /\ f[x] \in Nat
      BY <2>3, <2>6
    <2> QED
      BY <2>2, <2>5, <2>7
  <1> QED
    BY <1>2

\* Another value at one element changes the sum by the difference.
LEMMA TotalChanges ==
  ASSUME NEW S, IsFiniteSet(S), NEW f, NEW g, NEW x \in S,
         \A y \in S : f[y] \in Int /\ g[y] \in Int /\ (y # x => g[y] = f[y])
  PROVE  Total(g, S) = Total(f, S) + g[x] - f[x]
  <1> DEFINE a == Total(f, S \ {x})
  <1>1. Total(f, S) = f[x] + a /\ Total(g, S) = g[x] + Total(g, S \ {x})
    BY TotalAdds
  <1>2. IsFiniteSet(S \ {x}) /\ \A y \in S \ {x} : f[y] \in Int /\ g[y] = f[y]
    BY FS_RemoveElement
  <1>3. Total(g, S \ {x}) = a /\ a \in Int
    BY <1>2, TotalsAgree, TotalAdds
  <1> HIDE DEF a
  <1> QED
    BY <1>1, <1>3

LEMMA TotalOfZeros ==
  ASSUME NEW S, IsFiniteSet(S), NEW f, \A x \in S : f[x] = 0
  PROVE  Total(f, S) = 0
  <1>1. 0 * Cardinality(S) <= Total(f, S) /\ Total(f, S) <= 0 * Cardinality(S)
    <2>1. 0 \in Int /\ \A x \in S : f[x] \in Int /\ 0 <= f[x] /\ f[x] <= 0
      OBVIOUS
    <2> QED
      BY <2>1, TotalBounds
  <1>2. Cardinality(S) \in Nat /\ Total(f, S) \in Int
    <2>1. \A x \in S : f[x] \in Int
      OBVIOUS
    <2> QED
      BY <2>1, FS_CardinalityType, TotalAdds
  <1> QED
    BY <1>1, <1>2

\* The elements of E with class m, and their sum, for each class.
Class(E, c, m) == {e \in E : c[e] = m}
ByClass(f, E, c, M) == [m \in M |-> Total(f, Class(E, c, m))]

\* Summed class by class, nothing is lost or added twice.
LEMMA TotalByClass ==
  ASSUME NEW E, IsFiniteSet(E), NEW M, IsFiniteSet(M), NEW f, NEW c,
         \A e \in E : f[e] \in Int /\ c[e] \in M
  PROVE  Total(ByClass(f, E, c, M), M) = Total(f, E)
  <1> DEFINE Bad == {s \in SUBSET E : Total(ByClass(f, s, c, M), M) # Total(f, s)}
  <1>1. \A s \in SUBSET E : IsFiniteSet(s) /\ Cardinality(s) \in Nat
    BY FS_Subset, FS_CardinalityType
  <1>2. ASSUME NEW s \in SUBSET E, NEW m
        PROVE  IsFiniteSet(Class(s, c, m)) /\ Total(f, Class(s, c, m)) \in Int
    <2>1. IsFiniteSet(Class(s, c, m)) /\ \A e \in Class(s, c, m) : f[e] \in Int
      BY <1>1, FS_Subset DEF Class
    <2> QED
      BY <2>1, TotalAdds
  <1>3. Bad = {}
    <2> SUFFICES ASSUME Bad # {} PROVE FALSE
      OBVIOUS
    <2>1. \A s \in Bad : IsFiniteSet(s)
      BY <1>1
    <2>2. PICK s \in Bad : \A t \in Bad : Cardinality(s) <= Cardinality(t)
      <3> HIDE DEF Bad
      <3> QED
        BY <2>1, SmallestSet
    <2>3. Total(ByClass(f, {}, c, M), M) = Total(f, {})
      <3>1. \A m \in M : Class({}, c, m) = {}
        BY DEF Class
      <3>2. \A m \in M : ByClass(f, {}, c, M)[m] = 0
        BY <3>1, TotalOfNothing DEF ByClass
      <3> QED
        BY <3>2, TotalOfZeros, TotalOfNothing
    <2>4. s \in SUBSET E /\ s # {}
      BY <2>2, <2>3
    <2>5. PICK x \in s : TRUE
      BY <2>4
    <2> DEFINE t == s \ {x}
               g == ByClass(f, t, c, M)
               h == ByClass(f, s, c, M)
               k == c[x]
    <2>6. t \in SUBSET E /\ Cardinality(t) = Cardinality(s) - 1 /\ Cardinality(s) \in Nat
      BY <1>1, <2>4, FS_RemoveElement
    <2>7. Total(g, M) = Total(f, t)
      <3> HIDE DEF t
      <3>1. t \notin Bad
        <4> HIDE DEF Bad
        <4> QED
          BY <2>2, <2>6
      <3> QED
        BY <2>6, <3>1
    <2>8. Total(f, s) = f[x] + Total(f, t) /\ f[x] \in Int /\ Total(f, t) \in Int
      BY <1>1, <2>4, <2>6, TotalAdds
    <2>9. k \in M
      BY <2>4
    <2>10. \A m \in M : m # k => Class(s, c, m) = Class(t, c, m)
      BY DEF Class
    <2>11. x \in Class(s, c, k) /\ Class(s, c, k) \ {x} = Class(t, c, k)
      BY <2>5 DEF Class
    <2>12. \A m \in M : g[m] \in Int /\ h[m] \in Int /\ (m # k => h[m] = g[m])
      <3>1. \A m \in M : g[m] = Total(f, Class(t, c, m)) /\ h[m] = Total(f, Class(s, c, m))
        BY DEF ByClass
      <3> HIDE DEF t, g, h, k
      <3> QED
        BY <1>2, <2>4, <2>6, <2>10, <3>1
    <2>13. h[k] = f[x] + g[k]
      <3>1. g[k] = Total(f, Class(t, c, k)) /\ h[k] = Total(f, Class(s, c, k))
        BY <2>9 DEF ByClass
      <3>2. IsFiniteSet(Class(s, c, k)) /\ \A e \in Class(s, c, k) : f[e] \in Int
        BY <1>2, <2>4 DEF Class
      <3> HIDE DEF t, g, h, k
      <3>3. Total(f, Class(s, c, k)) = f[x] + Total(f, Class(s, c, k) \ {x})
        BY <2>11, <3>2, TotalAdds
      <3> QED
        BY <2>11, <3>1, <3>3
    <2>14. Total(h, M) = Total(g, M) + h[k] - g[k]
      <3> HIDE DEF g, h, k
      <3> QED
        BY <2>9, <2>12, TotalChanges
    <2>15. g[k] \in Int
      BY <2>9, <2>12
    <2>16. Total(h, M) = Total(f, s)
      <3> HIDE DEF t, g, h, k
      <3> QED
        BY <2>7, <2>8, <2>13, <2>14, <2>15
    <2> QED
      BY <2>2, <2>16
  <1>4. E \in SUBSET E
    OBVIOUS
  <1> QED
    BY <1>3, <1>4

=============================================================================
