---------------------------- MODULE NaturalFacts ----------------------------
(***************************************************************************)
(* Minimum and maximum of a set of naturals, which the proofs use in place *)
(* of induction, and sums over finite sets, which are an example of it.    *)
(***************************************************************************)
EXTENDS Integers, FiniteSetsExt, FiniteSetTheorems, WellFoundedInduction, TLAPS

\* Every non-empty set of naturals has a least element.
LEMMA LeastNatural ==
  ASSUME NEW S, S \subseteq Nat, S # {}
  PROVE  \E m \in S : \A n \in S : m <= n
<1>1. PICK m \in S : \A n \in S : <<n, m>> \notin OpToRel(<, Nat)
  BY NatLessThanWellFounded, WFMin
<1>2. \A n \in S : <<n, m>> \in Nat \X Nat /\ <<n, m>>[1] = n /\ <<n, m>>[2] = m
  OBVIOUS
<1>3. \A n \in S : ~(n < m)
  BY <1>1, <1>2, Zenon DEF OpToRel
<1>. QED  BY <1>3

\* Every non-empty bounded set of naturals has a greatest element.
LEMMA GreatestNatural ==
  ASSUME NEW S, S \subseteq Nat, S # {}, NEW b \in Nat, \A n \in S : n <= b
  PROVE  \E m \in S : \A n \in S : n <= m
<1> DEFINE T == {k \in Nat : \E n \in S : k = b - n}
<1>1. T \subseteq Nat /\ T # {}
  <2>1. PICK n \in S : TRUE
    OBVIOUS
  <2>2. b - n \in T
    BY <2>1
  <2>. QED  BY <2>2
<1>2. PICK k \in T : \A j \in T : k <= j
  <2>. HIDE DEF T
  <2>. QED  BY <1>1, LeastNatural
<1>3. PICK m \in S : k = b - m
  BY <1>2
<1>4. \A n \in S : b - n \in T
  OBVIOUS
<1>5. \A n \in S : n <= m
  BY <1>2, <1>3, <1>4
<1>. QED  BY <1>5
-----------------------------------------------------------------------------
\* Sums over finite sets, as the fold of the community modules computes them: `it`
\* has the sums of the subsets.
SumOver(w, S) == MapThenSumSet(LAMBDA x : w[x], S)
FirstOf(s) == CHOOSE x \in s : TRUE
SumStep(it, w, s) == IF s = {} THEN 0 ELSE w[FirstOf(s)] + it[s \ {FirstOf(s)}]
SumsAre(it, w, S) == it = [s \in SUBSET S |-> SumStep(it, w, s)]
Sums(it, w, S) == \A s \in SUBSET S : it[s] = SumStep(it, w, s)

LEMMA FirstIn == ASSUME NEW s, s # {} PROVE FirstOf(s) \in s
  BY DEF FirstOf

LEMMA OneLess ==
  ASSUME NEW s, IsFiniteSet(s), NEW x \in s
  PROVE  /\ IsFiniteSet(s \ {x}) /\ Cardinality(s \ {x}) = Cardinality(s) - 1
         /\ Cardinality(s) \in Nat /\ Cardinality(s \ {x}) \in Nat
  BY FS_RemoveElement, FS_CardinalityType

\* There are such sums: for the subsets of n elements at most, whatever n.
LEMMA SumsExist ==
  ASSUME NEW w, NEW S, IsFiniteSet(S)
  PROVE  \E it : SumsAre(it, w, S)
<1> DEFINE UpTo(it, n) ==
             /\ it = [s \in SUBSET S |-> it[s]]
             /\ \A s \in SUBSET S : Cardinality(s) <= n => it[s] = SumStep(it, w, s)
           Bad == {n \in Nat : ~\E it : UpTo(it, n)}
<1>0. \A s \in SUBSET S : IsFiniteSet(s) /\ Cardinality(s) \in Nat
  BY FS_Subset, FS_CardinalityType
<1>1. UpTo([s \in SUBSET S |-> 0], 0)
  <2>1. \A s \in SUBSET S : Cardinality(s) <= 0 => s = {}
    BY <1>0, FS_EmptySet
  <2>. QED  BY <2>1 DEF SumStep
<1>2. ASSUME NEW n \in Nat, NEW g, UpTo(g, n) PROVE \E it : UpTo(it, n + 1)
  <2> DEFINE h == [s \in SUBSET S |-> IF Cardinality(s) <= n THEN g[s] ELSE SumStep(g, w, s)]
  <2>1. ASSUME NEW s \in SUBSET S, Cardinality(s) <= n + 1
        PROVE  h[s] = SumStep(g, w, s) /\ SumStep(h, w, s) = SumStep(g, w, s)
    <3>1. h[s] = SumStep(g, w, s)
      BY <1>2
    <3>2. CASE s = {}
      BY <3>1, <3>2 DEF SumStep
    <3>3. CASE s # {}
      <4>1. FirstOf(s) \in s
        BY <3>3, FirstIn
      <4>2. s \ {FirstOf(s)} \in SUBSET S /\ Cardinality(s \ {FirstOf(s)}) <= n
        BY <1>0, <2>1, <4>1, OneLess
      <4>3. h[s \ {FirstOf(s)}] = g[s \ {FirstOf(s)}]
        BY <4>2
      <4>. QED  BY <3>1, <4>3 DEF SumStep
    <3>. QED  BY <3>2, <3>3
  <2>2. h = [s \in SUBSET S |-> h[s]]
    OBVIOUS
  <2>. HIDE DEF h
  <2>. QED  BY <2>1, <2>2
<1>. HIDE DEF UpTo
<1>3. ASSUME Bad # {} PROVE FALSE
  <2>1. PICK m \in Bad : \A n \in Bad : m <= n
    BY <1>3, LeastNatural
  <2>2. m # 0 /\ m - 1 \in Nat /\ m - 1 \notin Bad /\ (m - 1) + 1 = m
    BY <1>1, <2>1
  <2>3. PICK g : UpTo(g, m - 1)
    BY <2>2
  <2>. QED  BY <1>2, <2>1, <2>2, <2>3
<1>4. PICK it : UpTo(it, Cardinality(S))
  <2>1. Cardinality(S) \in Nat
    BY FS_CardinalityType
  <2>. QED  BY <1>3, <2>1
<1>5. \A s \in SUBSET S : Cardinality(s) <= Cardinality(S)
  BY FS_Subset
<1>. QED  BY <1>4, <1>5, Zenon DEF UpTo, SumsAre

\* And they are unique.
LEMMA SumsAgree ==
  ASSUME NEW w, NEW S, IsFiniteSet(S), NEW g, NEW h, Sums(g, w, S), Sums(h, w, S)
  PROVE  g[S] = h[S]
<1> DEFINE Bad == {n \in Nat : \E s \in SUBSET S : Cardinality(s) = n /\ g[s] # h[s]}
<1>0. \A s \in SUBSET S : IsFiniteSet(s) /\ Cardinality(s) \in Nat
  BY FS_Subset, FS_CardinalityType
<1>1. ASSUME Bad # {} PROVE FALSE
  <2>1. PICK m \in Bad : \A n \in Bad : m <= n
    BY <1>1, LeastNatural
  <2>2. PICK s \in SUBSET S : Cardinality(s) = m /\ g[s] # h[s]
    BY <2>1
  <2>3. s # {}
    BY <2>2 DEF SumStep, Sums
  <2>4. FirstOf(s) \in s
    BY <2>3, FirstIn
  <2> DEFINE t == s \ {FirstOf(s)}
  <2>5. t \in SUBSET S /\ Cardinality(t) \in Nat /\ Cardinality(t) < m
    BY <1>0, <2>2, <2>4, OneLess
  <2>6. g[t] = h[t]
    BY <2>1, <2>5
  <2>. QED  BY <2>2, <2>3, <2>6 DEF SumStep, Sums
<1>. QED  BY <1>0, <1>1

\* What the fold returns is the last of them.
LEMMA SumIs ==
  ASSUME NEW w, NEW S, IsFiniteSet(S), NEW it, Sums(it, w, S)
  PROVE  SumOver(w, S) = it[S]
<1> DEFINE fold == CHOOSE f : f = [s \in SUBSET S |->
                      IF s = {} THEN 0
                      ELSE w[CHOOSE x \in s : TRUE] + f[s \ {CHOOSE x \in s : TRUE}]]
<1>1. SumOver(w, S) = fold[S]
  BY Zenon DEF SumOver, MapThenSumSet, MapThenFoldSet
<1>2. PICK f : SumsAre(f, w, S)
  BY SumsExist
<1>3. f = [s \in SUBSET S |->
             IF s = {} THEN 0 ELSE w[CHOOSE x \in s : TRUE] + f[s \ {CHOOSE x \in s : TRUE}]]
  BY <1>2, Zenon DEF SumsAre, SumStep, FirstOf
<1>4. fold = [s \in SUBSET S |->
             IF s = {} THEN 0
             ELSE w[CHOOSE x \in s : TRUE] + fold[s \ {CHOOSE x \in s : TRUE}]]
  BY <1>3, Zenon
<1>. HIDE DEF fold
<1>5. fold = [s \in SUBSET S |-> SumStep(fold, w, s)]
  BY <1>4, Zenon DEF SumStep, FirstOf
<1>6. Sums(fold, w, S)
  BY <1>5 DEF Sums
<1>. QED  BY <1>1, <1>6, SumsAgree

\* A fold whose summands are given otherwise, one by one.
LEMMA SumOfSame ==
  ASSUME NEW w, NEW v, NEW S, IsFiniteSet(S), \A x \in S : w[x] = v[x]
  PROVE  SumOver(w, S) = SumOver(v, S)
<1>1. PICK it : SumsAre(it, w, S)
  BY SumsExist
<1>2. \A s \in SUBSET S : SumStep(it, w, s) = SumStep(it, v, s)
  BY FirstIn DEF SumStep
<1>3. Sums(it, w, S) /\ Sums(it, v, S)
  BY <1>1, <1>2 DEF Sums, SumsAre
<1>. QED  BY <1>3, SumIs

LEMMA SumOfNone == ASSUME NEW w PROVE SumOver(w, {}) = 0
<1>1. PICK it : SumsAre(it, w, {})
  BY SumsExist, FS_EmptySet
<1>2. Sums(it, w, {})
  BY <1>1 DEF Sums, SumsAre
<1>3. SumOver(w, {}) = it[{}]
  BY <1>2, SumIs, FS_EmptySet
<1>. QED  BY <1>2, <1>3 DEF SumStep, Sums

LEMMA SumFirst ==
  ASSUME NEW w, NEW S, IsFiniteSet(S), S # {}
  PROVE  SumOver(w, S) = w[FirstOf(S)] + SumOver(w, S \ {FirstOf(S)})
<1> DEFINE T == S \ {FirstOf(S)}
<1>1. PICK it : SumsAre(it, w, S)
  BY SumsExist
<1>2. Sums(it, w, S)
  BY <1>1 DEF Sums, SumsAre
<1>3. SumOver(w, S) = it[S]
  BY <1>2, SumIs
<1>4. IsFiniteSet(T) /\ Sums(it, w, T)
  BY <1>2, FirstIn, OneLess DEF Sums
<1>5. SumOver(w, T) = it[T]
  BY <1>4, SumIs
<1>. QED  BY <1>2, <1>3, <1>5 DEF SumStep, Sums

\* A sum of naturals is one, and any of its terms can be taken out first.
LEMMA SumTakesAny ==
  ASSUME NEW S, IsFiniteSet(S), NEW w, \A x \in S : w[x] \in Nat
  PROVE  \A s \in SUBSET S :
            /\ SumOver(w, s) \in Nat
            /\ \A y \in s : SumOver(w, s) = w[y] + SumOver(w, s \ {y})
<1> DEFINE Fine(s) == /\ SumOver(w, s) \in Nat
                      /\ \A y \in s : SumOver(w, s) = w[y] + SumOver(w, s \ {y})
           Bad == {n \in Nat : \E s \in SUBSET S : Cardinality(s) = n /\ ~Fine(s)}
<1>0. \A s \in SUBSET S : IsFiniteSet(s) /\ Cardinality(s) \in Nat
  BY FS_Subset, FS_CardinalityType
<1>1. ASSUME NEW m \in Bad, \A n \in Bad : m <= n PROVE FALSE
  <2>1. PICK s \in SUBSET S : Cardinality(s) = m /\ ~Fine(s)
    OBVIOUS
  <2>2. ASSUME NEW t \in SUBSET S, Cardinality(t) < m PROVE Fine(t)
    <3>. HIDE DEF Fine
    <3>. QED  BY <1>0, <1>1, <2>2
  <2>3. s # {}
    <3>1. Fine({})
      BY SumOfNone
    <3>. HIDE DEF Fine
    <3>. QED  BY <2>1, <3>1
  <2> DEFINE x == FirstOf(s)
  <2>4. x \in s
    BY <2>3, FirstIn
  <2>5. SumOver(w, s) = w[x] + SumOver(w, s \ {x})
    BY <1>0, <2>3, SumFirst
  <2>. HIDE DEF x
  <2>6. ASSUME NEW y \in s PROVE s \ {y} \in SUBSET S /\ Fine(s \ {y})
    <3>1. Cardinality(s \ {y}) < m
      BY <1>0, <2>1, OneLess
    <3>. HIDE DEF Fine
    <3>. QED  BY <2>2, <3>1
  <2>7. SumOver(w, s) \in Nat
    BY <2>4, <2>5, <2>6
  <2>8. ASSUME NEW y \in s PROVE SumOver(w, s) = w[y] + SumOver(w, s \ {y})
    <3>1. CASE y = x
      BY <2>5, <3>1
    <3>2. CASE y # x
      <4>1. y \in s \ {x} /\ x \in s \ {y} /\ (s \ {x}) \ {y} = (s \ {y}) \ {x}
        BY <2>4, <3>2
      <4>2. SumOver(w, s \ {x}) = w[y] + SumOver(w, (s \ {x}) \ {y})
        BY <2>4, <2>6, <4>1
      <4>3. SumOver(w, s \ {y}) = w[x] + SumOver(w, (s \ {y}) \ {x})
        BY <2>6, <4>1
      <4>4. (s \ {y}) \ {x} \in SUBSET S /\ Cardinality((s \ {y}) \ {x}) < m
        <5>1. IsFiniteSet(s) /\ IsFiniteSet(s \ {y}) /\ Cardinality(s) = m
          BY <1>0, <2>1, OneLess
        <5>2. /\ Cardinality(s \ {y}) = m - 1 /\ Cardinality(s \ {y}) \in Nat
          BY <5>1, OneLess
        <5>3. /\ Cardinality((s \ {y}) \ {x}) = Cardinality(s \ {y}) - 1
          BY <4>1, <5>1, OneLess, Zenon
        <5>. QED  BY <5>2, <5>3
      <4>5. SumOver(w, (s \ {y}) \ {x}) \in Nat
        BY <2>2, <4>4
      <4>6. w[x] \in Nat /\ w[y] \in Nat
        BY <2>4
      <4>. QED  BY <2>5, <4>1, <4>2, <4>3, <4>5, <4>6
    <3>. QED  BY <3>1, <3>2
  <2>. QED  BY <2>1, <2>7, <2>8
<1>2. Bad = {}
  BY <1>1, LeastNatural
<1>. QED  BY <1>0, <1>2

\* A sum is at most another whose terms are at least its own, where it has any.
LEMMA SumAtMost ==
  ASSUME NEW S, IsFiniteSet(S), NEW w, NEW v, NEW L \in SUBSET S,
         \A x \in S : w[x] \in Nat, \A x \in L : v[x] \in Nat /\ w[x] <= v[x],
         \A x \in S \ L : w[x] = 0
  PROVE  SumOver(w, S) <= SumOver(v, L)
<1> DEFINE Fine(s) == SumOver(w, s) <= SumOver(v, s \cap L)
           Bad == {n \in Nat : \E s \in SUBSET S : Cardinality(s) = n /\ ~Fine(s)}
<1>0. \A s \in SUBSET S : IsFiniteSet(s) /\ Cardinality(s) \in Nat
  BY FS_Subset, FS_CardinalityType
<1>1. ASSUME NEW m \in Bad, \A n \in Bad : m <= n PROVE FALSE
  <2>1. PICK s \in SUBSET S : Cardinality(s) = m /\ ~Fine(s)
    OBVIOUS
  <2>2. s # {}
    <3>1. {} \cap L = {} /\ SumOver(w, {}) = 0 /\ SumOver(v, {}) = 0
      BY SumOfNone
    <3>2. Fine({})
      BY <3>1
    <3>. HIDE DEF Fine
    <3>. QED  BY <2>1, <3>2
  <2>3. PICK x \in s : TRUE
    BY <2>2
  <2> DEFINE t == s \ {x}
  <2>4. t \in SUBSET S /\ Cardinality(t) \in Nat /\ Cardinality(t) < m
    BY <1>0, <2>1, OneLess
  <2>5. SumOver(w, t) <= SumOver(v, t \cap L)
    <3>1. Fine(t)
      <4>. HIDE DEF Fine, t
      <4>. QED  BY <1>1, <2>4
    <3>. QED  BY <3>1
  <2>6. SumOver(w, s) = w[x] + SumOver(w, t) /\ SumOver(w, t) \in Nat
    BY <1>0, <2>4, SumTakesAny
  <2>7. IsFiniteSet(L) /\ t \cap L \in SUBSET L
    BY <1>0
  <2>8. SumOver(v, t \cap L) \in Nat
    BY <2>7, SumTakesAny
  <2>9. CASE x \in L
    <3>1. s \cap L \in SUBSET L /\ x \in s \cap L /\ (s \cap L) \ {x} = t \cap L
      BY <2>9
    <3>2. SumOver(v, s \cap L) = v[x] + SumOver(v, (s \cap L) \ {x})
      BY <2>7, <3>1, SumTakesAny
    <3>3. SumOver(v, s \cap L) = v[x] + SumOver(v, t \cap L)
      BY <3>1, <3>2
    <3>4. w[x] \in Nat /\ v[x] \in Nat /\ w[x] <= v[x]
      BY <2>9
    <3>. HIDE DEF t
    <3>. QED  BY <2>1, <2>5, <2>6, <2>8, <3>3, <3>4
  <2>10. CASE x \notin L
    <3>1. s \cap L = t \cap L /\ w[x] = 0
      BY <2>10
    <3>2. SumOver(w, s) = SumOver(w, t)
      BY <2>6, <3>1
    <3>. HIDE DEF t
    <3>. QED  BY <2>1, <2>5, <3>1, <3>2
  <2>. QED  BY <2>9, <2>10
<1>2. Bad = {}
  BY <1>1, LeastNatural
<1>3. Fine(S)
  BY <1>0, <1>2
<1>4. S \cap L = L
  OBVIOUS
<1>. QED  BY <1>3, <1>4

\* A common factor.
LEMMA SumScales ==
  ASSUME NEW S, IsFiniteSet(S), NEW w, \A x \in S : w[x] \in Nat, NEW m \in Nat,
         NEW v, v = [x \in S |-> w[x] * m]
  PROVE  SumOver(v, S) = SumOver(w, S) * m
<1> DEFINE Fine(s) == SumOver(v, s) = SumOver(w, s) * m
           Bad == {n \in Nat : \E s \in SUBSET S : Cardinality(s) = n /\ ~Fine(s)}
<1>0. \A s \in SUBSET S : IsFiniteSet(s) /\ Cardinality(s) \in Nat
  BY FS_Subset, FS_CardinalityType
<1>1. ASSUME NEW k \in Bad, \A n \in Bad : k <= n PROVE FALSE
  <2>1. PICK s \in SUBSET S : Cardinality(s) = k /\ ~Fine(s)
    OBVIOUS
  <2>2. s # {}
    <3>1. SumOver(w, {}) = 0 /\ SumOver(v, {}) = 0 /\ 0 * m = 0
      BY SumOfNone
    <3>2. Fine({})
      BY <3>1
    <3>. HIDE DEF Fine
    <3>. QED  BY <2>1, <3>2
  <2>3. PICK x \in s : TRUE
    BY <2>2
  <2> DEFINE t == s \ {x}
  <2>4. t \in SUBSET S /\ Cardinality(t) \in Nat /\ Cardinality(t) < k
    BY <1>0, <2>1, OneLess
  <2>5. SumOver(v, t) = SumOver(w, t) * m
    <3>1. Fine(t)
      <4>. HIDE DEF Fine, t
      <4>. QED  BY <1>1, <2>4
    <3>. QED  BY <3>1
  <2>6. SumOver(w, s) = w[x] + SumOver(w, t) /\ SumOver(w, t) \in Nat
    BY <1>0, <2>4, SumTakesAny
  <2>7. \A y \in s : v[y] \in Nat
    <3>1. \A y \in s : v[y] = w[y] * m /\ w[y] \in Nat
      OBVIOUS
    <3>2. \A a \in Nat : a * m \in Nat
      OBVIOUS
    <3>. QED  BY <3>1, <3>2
  <2>8. SumOver(v, s) = v[x] + SumOver(v, t)
    BY <1>0, <2>7, SumTakesAny
  <2>9. v[x] = w[x] * m /\ w[x] \in Nat
    OBVIOUS
  <2>. HIDE DEF t
  <2>10. \A a, b \in Nat : (a + b) * m = a * m + b * m
    OBVIOUS
  <2>. QED  BY <2>1, <2>5, <2>6, <2>8, <2>9, <2>10
<1>2. Bad = {}
  BY <1>1, LeastNatural
<1>. QED  BY <1>0, <1>2
=============================================================================
