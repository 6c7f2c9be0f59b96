------------------------- MODULE LibraryReadsProofs -------------------------
(***************************************************************************)
(* Proofs about LibraryReads, for any orders, pages, requests and listings. *)
(*                                                                         *)
(* The helpers come first: what a page has of a list, what Increasing,     *)
(* NewestFirst and InsertAt return.  The inductive invariant ReadsInv then *)
(* says, for each request, how far it has come and what it has of what was *)
(* there when it began.  QuoteOK adds what a quote is made of; sums are    *)
(* NaturalFacts'.                                                          *)
(***************************************************************************)
EXTENDS LibraryReads, NaturalFacts, FiniteSetTheorems, SequenceTheorems

-----------------------------------------------------------------------------
\* Paging.

LEMMA TimesGrows ==
  ASSUME NEW a \in Nat, NEW b \in Nat, NEW s \in Nat, a <= b
  PROVE  a * s <= b * s /\ a * s \in Nat /\ b * s \in Nat
<1>1. b * s = a * s + (b - a) * s
  OBVIOUS
<1>2. (b - a) \in Nat /\ (b - a) * s \in Nat /\ a * s \in Nat /\ b * s \in Nat
  OBVIOUS
<1>. QED  BY <1>1, <1>2

\* How many places the first n pages have.
Past(n, size) == n * size

LEMMA PastNext ==
  ASSUME NEW n \in Nat \ {0}, NEW size \in Nat
  PROVE  /\ Past(n - 1, size) \in Nat /\ Past(n, size) \in Nat
         /\ Past(n, size) = Past(n - 1, size) + size
<1>1. (n - 1) * size + size = n * size
  OBVIOUS
<1>2. n * size \in Nat /\ (n - 1) \in Nat /\ (n - 1) * size \in Nat
  OBVIOUS
<1>. QED  BY <1>1, <1>2 DEF Past

\* The number of pages: there is a page after `page` just if something is left.
LEMMA MoreMeansMore ==
  ASSUME NEW total \in Nat, NEW page \in Nat, NEW size \in Nat \ {0}
  PROVE  /\ TotalPages(total, size) \in Nat
         /\ HasMore(total, page, size) <=> Past(page, size) < total
<1> DEFINE n == total + size - 1
           d == n \div size
<1>1. n \in Nat /\ d \in Nat /\ n % size \in 0..(size - 1) /\ n = size * d + (n % size)
  OBVIOUS
<1>2. TotalPages(total, size) = d
  BY DEF TotalPages
<1> HIDE DEF d
<1>3. d * size = size * d /\ d * size \in Nat
  BY <1>1
<1>4. d * size <= n /\ n < d * size + size
  BY <1>1, <1>3
<1>5. page < d => Past(page, size) < total
  <2>1. page < d => Past(page + 1, size) <= Past(d, size)
    BY <1>1, TimesGrows DEF Past
  <2>2. Past(d, size) = d * size
    BY DEF Past
  <2>3. page + 1 \in Nat /\ (page + 1) * size = page * size + size /\ page * size \in Nat
    OBVIOUS
  <2>4. Past(page, size) \in Nat /\ Past(page + 1, size) = Past(page, size) + size
    BY <2>3 DEF Past
  <2>. QED  BY <1>1, <1>3, <1>4, <2>1, <2>2, <2>4
<1>6. page >= d => Past(page, size) >= total
  <2>1. page >= d => Past(d, size) <= Past(page, size)
    BY <1>1, TimesGrows DEF Past
  <2>3. Past(page, size) \in Nat
    BY TimesGrows DEF Past
  <2>2. Past(d, size) = d * size
    BY DEF Past
  <2>. QED  BY <1>3, <1>4, <2>1, <2>2, <2>3
<1>7. Past(page, size) \in Nat
  BY TimesGrows DEF Past
<1>. QED  BY <1>1, <1>2, <1>5, <1>6, <1>7 DEF HasMore

\* What page `page` has of a list: the places after those of the pages before.
LEMMA SliceFacts ==
  ASSUME NEW T, NEW list \in Seq(T), NEW page \in Nat \ {0}, NEW size \in Nat
  PROVE  LET s   == Slice(list, page, size)
             o   == Past(page - 1, size)
             end == Past(page, size)
         IN  /\ s \in Seq(T) /\ ToSet(s) \subseteq ToSet(list)
             /\ \A i \in 1..Len(list) : o < i /\ i <= end => list[i] \in ToSet(s)
             /\ \A i \in DOMAIN s : o + i \in DOMAIN list /\ s[i] = list[o + i]
             /\ end <= Len(list) => Len(s) = size
             /\ end >= Len(list) /\ o <= Len(list) => Len(s) = Len(list) - o
             /\ o >= Len(list) => s = <<>>
<1> DEFINE o == Past(page - 1, size)
           end == Past(page, size)
           e == IF o + size < Len(list) THEN o + size ELSE Len(list)
           s == SubSeq(list, o + 1, e)
<1>1. o \in Nat /\ o + size = end /\ Len(list) \in Nat
  <2>1. /\ Past(page - 1, size) \in Nat /\ Past(page, size) \in Nat
        /\ Past(page, size) = Past(page - 1, size) + size
    BY PastNext
  <2>. QED  BY <2>1
<1>2. Slice(list, page, size) = s
  BY DEF Slice, Past
<1> HIDE DEF o, end
<1>3. e \in Nat /\ e <= Len(list)
  BY <1>1
<1>4. \A i \in (o + 1)..e : list[i] \in T /\ i \in 1..Len(list)
  BY <1>1, <1>3
<1> HIDE DEF e
<1>5. /\ s \in Seq(T) /\ Len(s) = IF o + 1 <= e THEN e - (o + 1) + 1 ELSE 0
      /\ \A i \in 1..(e - (o + 1) + 1) : s[i] = list[o + 1 + i - 1]
  BY <1>1, <1>3, <1>4, SubSeqProperties
<1> HIDE DEF s
<1>6. Len(s) = (IF o < e THEN e - o ELSE 0) /\ DOMAIN s = 1..Len(s)
  BY <1>1, <1>3, <1>5
<1>7. \A i \in 1..Len(s) : s[i] = list[o + i] /\ o + i \in 1..Len(list)
  BY <1>1, <1>3, <1>5, <1>6
<1>8. ASSUME NEW i \in 1..Len(list), o < i, i <= end
      PROVE  list[i] \in ToSet(s)
  <2>1. i <= e
    BY <1>1, <1>8 DEF e
  <2>2. i - o \in 1..Len(s) /\ o + (i - o) = i
    BY <1>1, <1>3, <1>6, <1>8, <2>1
  <2>3. s[i - o] = list[i]
    BY <1>7, <2>2
  <2>. QED  BY <1>6, <2>2, <2>3 DEF ToSet
<1>9. ToSet(s) \subseteq ToSet(list)
  BY <1>6, <1>7 DEF ToSet
<1>10. /\ end <= Len(list) => e = o + size
       /\ end >= Len(list) => e = Len(list)
  BY <1>1 DEF e
<1>11. o >= Len(list) => s = <<>>
  BY <1>1, <1>3, <1>5, <1>6
<1>12. \A i \in DOMAIN s : o + i \in DOMAIN list /\ s[i] = list[o + i]
  BY <1>6, <1>7
<1>13. /\ end <= Len(list) => Len(s) = size
       /\ end >= Len(list) /\ o <= Len(list) => Len(s) = Len(list) - o
  BY <1>1, <1>6, <1>10
<1>. QED  BY <1>2, <1>5, <1>8, <1>9, <1>11, <1>12, <1>13 DEF o, end

\* The pages of a list, put together, are the list.

\* FlattenSeq puts sequence after sequence; a function that does is what it computes.
Joins(g, seqs, n) == g = [i \in 1..n |-> IF i = 1 THEN seqs[i] ELSE g[i - 1] \o seqs[i]]

LEMMA FlattenFacts ==
  ASSUME NEW seqs, NEW n \in Nat \ {0}, Len(seqs) = n, NEW g, Joins(g, seqs, n)
  PROVE  FlattenSeq(seqs) = g[n]
<1>0. g = [i \in 1..n |-> IF i = 1 THEN seqs[i] ELSE g[i - 1] \o seqs[i]]
  BY DEF Joins
<1> DEFINE Rule(f) == f = [i \in 1..Len(seqs) |-> IF i = 1 THEN seqs[i] ELSE f[i - 1] \o seqs[i]]
           flat == CHOOSE f : Rule(f)
<1>1. FlattenSeq(seqs) = flat[n]
  BY DEF FlattenSeq
<1>2. Rule(flat)
  <2>1. Rule(g)
    BY <1>0
  <2>. HIDE DEF Rule
  <2>. QED  BY <2>1
<1>3. flat = [i \in 1..n |-> IF i = 1 THEN seqs[i] ELSE flat[i - 1] \o seqs[i]]
  BY <1>2
<1> HIDE DEF flat
<1> DEFINE differ == {i \in 1..n : flat[i] # g[i]}
<1>4. differ = {}
  <2>1. ASSUME differ # {} PROVE FALSE
    <3>1. differ \subseteq Nat
      OBVIOUS
    <3>2. PICK i \in differ : \A j \in differ : i <= j
      <4>. HIDE DEF differ
      <4>. QED  BY <2>1, <3>1, LeastNatural
    <3>3. i \in 1..n /\ flat[i] # g[i]
      OBVIOUS
    <3>4. flat[i] = IF i = 1 THEN seqs[i] ELSE flat[i - 1] \o seqs[i]
      BY <1>3, <3>3
    <3>5. g[i] = IF i = 1 THEN seqs[i] ELSE g[i - 1] \o seqs[i]
      BY <1>0, <3>3
    <3>6. i # 1
      BY <3>3, <3>4, <3>5
    <3>7. i - 1 \in 1..n /\ ~(i <= i - 1)
      BY <3>3, <3>6
    <3>8. flat[i - 1] = g[i - 1]
      BY <3>2, <3>7
    <3>. QED  BY <3>3, <3>4, <3>5, <3>8
  <2>. QED  BY <2>1
<1>5. n \in 1..n
  OBVIOUS
<1>6. flat[n] = g[n]
  BY <1>4, <1>5
<1>. QED  BY <1>1, <1>6

LEMMA PagesJoin ==
  ASSUME NEW T, NEW all \in Seq(T), NEW size \in Nat \ {0}
  PROVE  FlattenSeq([page \in 1..TotalPages(Len(all), size) |-> Slice(all, page, size)]) = all
<1> PICK total, n : total = Len(all) /\ n = TotalPages(total, size)
  OBVIOUS
<1>1. total \in Nat /\ n \in Nat
  BY MoreMeansMore
<1>2. PICK pages : pages = [page \in 1..n |-> Slice(all, page, size)]
  OBVIOUS
<1>3. DOMAIN pages = 1..n /\ Len(pages) = n
  <2>1. \A page \in 1..n : Slice(all, page, size) \in Seq(T)
    <3>1. ASSUME NEW page \in 1..n PROVE Slice(all, page, size) \in Seq(T)
      <4>1. page \in Nat \ {0}
        BY <1>1
      <4>. QED  BY <4>1, SliceFacts
    <3>. QED  BY <3>1
  <2>2. pages \in [1..n -> Seq(T)]
    BY <1>2, <2>1
  <2>. QED  BY <1>1, <2>2, SeqDef
\* The pages before the last end where they should, the last with the list.
<1> DEFINE end(p) == IF Past(p, size) < total THEN Past(p, size) ELSE total
<1>4. ASSUME NEW p \in Nat
      PROVE  /\ Past(p, size) \in Nat /\ end(p) \in 0..total
             /\ p < n <=> Past(p, size) < total
             /\ p < n => end(p) = Past(p, size)
             /\ p >= n => end(p) = total
  <2>1. Past(p, size) \in Nat
    BY TimesGrows DEF Past
  <2>2. p < n <=> Past(p, size) < total
    BY <1>1, MoreMeansMore DEF HasMore
  <2>. QED  BY <1>1, <2>1, <2>2
<1>5. ASSUME NEW p \in Nat \ {0}
      PROVE  /\ Slice(all, p, size) = SubSeq(all, Past(p - 1, size) + 1, end(p))
             /\ Past(p - 1, size) <= Past(p, size)
  <2>1. /\ Past(p - 1, size) \in Nat /\ Past(p, size) \in Nat
        /\ Past(p, size) = Past(p - 1, size) + size
    BY PastNext
  <2>2. Slice(all, p, size) =
          SubSeq(all, Past(p - 1, size) + 1,
                 IF Past(p - 1, size) + size < total THEN Past(p - 1, size) + size ELSE total)
    BY DEF Slice, Past
  <2>. QED  BY <2>1, <2>2
<1>6. Past(0, size) = 0
  BY DEF Past
<1> HIDE DEF end
<1>7. CASE n = 0
  <2>1. total = 0
    BY <1>1, <1>4, <1>6, <1>7
  <2>2. all = <<>>
    BY <2>1, EmptySeq
  <2>3. pages = <<>>
    <3>1. pages \in Seq({}) /\ Len(pages) = 0
      BY <1>3, <1>7
    <3>. QED  BY <3>1, EmptySeq
  <2>4. FlattenSeq(pages) = pages
    BY <1>3, <1>7 DEF FlattenSeq
  <2>. QED  BY <1>2, <2>2, <2>3, <2>4
<1>8. CASE n # 0
  <2> DEFINE g == [i \in 1..n |-> SubSeq(all, 1, end(i))]
  <2>1. ASSUME NEW i \in 1..n
        PROVE  g[i] = IF i = 1 THEN pages[i] ELSE g[i - 1] \o pages[i]
    <3>1. i \in Nat \ {0} /\ i - 1 \in Nat /\ i - 1 < n
      BY <1>1
    <3>2. pages[i] = SubSeq(all, Past(i - 1, size) + 1, end(i))
      BY <1>2, <1>5, <3>1
    <3>3. CASE i = 1
      <4>1. i - 1 = 0
        BY <3>3
      <4>2. Past(i - 1, size) + 1 = 1
        BY <1>6, <4>1
      <4>. QED  BY <3>2, <3>3, <4>2
    <3>4. CASE i # 1
      <4>1. i - 1 \in 1..n
        BY <1>1, <3>4
      <4>2. end(i - 1) = Past(i - 1, size) /\ end(i - 1) \in 0..total /\ end(i) \in 0..total
        BY <1>4, <3>1
      <4>3. end(i - 1) <= end(i)
        <5>1. Past(i - 1, size) <= Past(i, size) /\ Past(i - 1, size) \in Nat
          BY <1>4, <1>5, <3>1
        <5>. QED  BY <1>1, <4>2, <5>1 DEF end
      <4>4. PICK k, m : k = end(i - 1) /\ m = end(i)
        OBVIOUS
      <4>5. 1 \in 1..(Len(all) + 1) /\ k \in (1 - 1)..Len(all) /\ m \in k..Len(all)
        BY <1>1, <4>2, <4>3, <4>4
      <4>6. SubSeq(all, 1, k) \o SubSeq(all, k + 1, m) = SubSeq(all, 1, m)
        BY <4>5, ConcatAdjacentSubSeq
      <4>7. g[i] = SubSeq(all, 1, m) /\ g[i - 1] = SubSeq(all, 1, k)
            /\ pages[i] = SubSeq(all, k + 1, m)
        BY <3>2, <4>1, <4>2, <4>4
      <4>. QED  BY <3>4, <4>6, <4>7
    <3>. QED  BY <3>3, <3>4
  <2>2. g = [i \in 1..n |-> IF i = 1 THEN pages[i] ELSE g[i - 1] \o pages[i]]
    <3>1. DOMAIN g = 1..n
      OBVIOUS
    <3>2. g = [i \in 1..n |-> g[i]]
      OBVIOUS
    <3>. HIDE DEF g
    <3>. QED  BY <2>1, <3>1, <3>2
  <2>3. FlattenSeq(pages) = g[n]
    <3>. HIDE DEF g
    <3>1. n \in Nat \ {0} /\ Len(pages) = n
      BY <1>1, <1>3, <1>8
    <3>2. Joins(g, pages, n)
      BY <2>2 DEF Joins
    <3>. QED  BY <3>1, <3>2, FlattenFacts
  <2>4. g[n] = SubSeq(all, 1, total)
    <3>1. n \in 1..n /\ n >= n
      BY <1>1, <1>8
    <3>2. end(n) = total
      BY <1>1, <1>4, <3>1
    <3>. QED  BY <3>1, <3>2
  <2>5. SubSeq(all, 1, total) = all
    BY SubSeqFull
  <2>. QED  BY <1>2, <2>3, <2>4, <2>5
<1>. QED  BY <1>7, <1>8

LEMMA NextPage ==
  ASSUME NEW T, NEW all \in Seq(T), NEW size \in Nat \ {0}, NEW page \in Nat
  PROVE  HasMore(Len(all), page, size) <=> Slice(all, page + 1, size) # <<>>
<1> PICK next \in Nat \ {0} : next = page + 1
  OBVIOUS
<1> PICK o, end : o = Past(page, size) /\ end = Past(next, size)
  OBVIOUS
<1>1. next - 1 = page /\ o \in Nat /\ end = o + size /\ Len(all) \in Nat
  <2>1. next - 1 = page
    OBVIOUS
  <2>. QED  BY <2>1, PastNext
<1>2. HasMore(Len(all), page, size) <=> o < Len(all)
  BY <1>1, MoreMeansMore
<1>3. o >= Len(all) => Slice(all, next, size) = <<>>
  BY <1>1, SliceFacts
<1>4. ASSUME o < Len(all) PROVE Slice(all, next, size) # <<>>
  <2>1. \A i \in 1..Len(all) : o < i /\ i <= end => all[i] \in ToSet(Slice(all, next, size))
    <3>1. \A i \in 1..Len(all) :
            Past(next - 1, size) < i /\ i <= Past(next, size) =>
              all[i] \in ToSet(Slice(all, next, size))
      BY SliceFacts
    <3>2. Past(next - 1, size) = o
      BY <1>1
    <3>. QED  BY <3>1, <3>2
  <2>2. o + 1 \in 1..Len(all) /\ o < o + 1 /\ o + 1 <= end
    BY <1>1, <1>4
  <2>3. ToSet(Slice(all, next, size)) # {}
    BY <2>1, <2>2
  <2>4. ToSet(<<>>) = {}
    BY DEF ToSet
  <2>. QED  BY <2>3, <2>4
<1>. QED  BY <1>1, <1>2, <1>3, <1>4

-----------------------------------------------------------------------------
\* Enumerations.

LEMMA MinFact ==
  ASSUME NEW S, S \subseteq Nat, S # {}
  PROVE  Min(S) \in S /\ \A n \in S : Min(S) <= n
<1>1. \E m \in S : \A n \in S : m <= n
  BY LeastNatural
<1>. QED  BY <1>1 DEF Min

\* Increasing enumerates S, each number once and in order: the numbers below one are
\* as many as its place says, and no two numbers have equally many below them.
LEMMA IncreasingFacts ==
  ASSUME NEW S, S \subseteq Nat, IsFiniteSet(S)
  PROVE  /\ Increasing(S) \in Seq(S) /\ Len(Increasing(S)) = Cardinality(S)
         /\ ToSet(Increasing(S)) = S
         /\ \A i, j \in DOMAIN Increasing(S) : Increasing(S)[i] = Increasing(S)[j] => i = j
<1> DEFINE n == Cardinality(S)
           Below(v) == {m \in S : m < v}
           rank == [v \in S |-> Cardinality(Below(v))]
           s == Increasing(S)
<1>1. n \in Nat
  BY FS_CardinalityType
<1>2. ASSUME NEW v \in S
      PROVE  IsFiniteSet(Below(v)) /\ rank[v] \in 0..(n - 1)
  <2>1. IsFiniteSet(Below(v)) /\ Cardinality(Below(v)) \in Nat
    BY FS_Subset, FS_CardinalityType
  <2>2. Below(v) \subseteq S \ {v} /\ Cardinality(S \ {v}) = n - 1 /\ IsFiniteSet(S \ {v})
    BY FS_RemoveElement
  <2>3. Cardinality(Below(v)) <= n - 1
    BY <2>2, FS_Subset
  <2>. QED  BY <1>1, <2>1, <2>3
<1>3. ASSUME NEW u \in S, NEW v \in S, u < v
      PROVE  rank[u] < rank[v]
  <2>1. u \notin Below(u) /\ Below(u) \cup {u} \subseteq Below(v)
    <3>1. u \in Nat /\ v \in Nat /\ \A m \in S : m \in Nat
      OBVIOUS
    <3>2. \A m \in S : m < u => m < v
      BY <1>3, <3>1
    <3>3. ~(u < u)
      BY <3>1
    <3>4. \A m : m \in Below(u) => m \in S /\ m < u
      OBVIOUS
    <3>. QED  BY <1>3, <3>2, <3>3, <3>4
  <2>2. /\ IsFiniteSet(Below(u)) /\ IsFiniteSet(Below(v))
        /\ Cardinality(Below(u)) \in Nat /\ Cardinality(Below(v)) \in Nat
    BY <1>2, FS_CardinalityType
  <2>. HIDE DEF Below
  <2>3. Cardinality(Below(u) \cup {u}) = Cardinality(Below(u)) + 1
    BY <2>1, <2>2, FS_AddElement
  <2>4. Cardinality(Below(u) \cup {u}) <= Cardinality(Below(v))
    BY <2>1, <2>2, FS_Subset
  <2>. QED  BY <2>2, <2>3, <2>4
<1>4. rank \in [S -> 0..(n - 1)]
  BY <1>2
<1>5. \A u, v \in S : rank[u] = rank[v] => u = v
  <2>1. ASSUME NEW u \in S, NEW v \in S, rank[u] = rank[v], u # v PROVE FALSE
    <3>1. u < v \/ v < u
      BY <2>1
    <3>2. rank[u] \in Nat
      BY <1>4
    <3>. QED  BY <1>3, <2>1, <3>1, <3>2
  <2>. QED  BY <2>1
<1>6. \A k \in 0..(n - 1) : \E v \in S : rank[v] = k
  <2>1. rank \in Injection(S, 0..(n - 1))
    BY <1>4, <1>5 DEF Injection, IsInjective
  <2>2. IsFiniteSet(0..(n - 1)) /\ Cardinality(0..(n - 1)) = n
    <3>1. 0 \in Int /\ n - 1 \in Int
      BY <1>1
    <3>2. /\ IsFiniteSet(0..(n - 1))
          /\ Cardinality(0..(n - 1)) = IF 0 > n - 1 THEN 0 ELSE (n - 1) - 0 + 1
      BY <3>1, FS_Interval
    <3>. QED  BY <1>1, <3>2
  <2>3. rank \in Surjection(S, 0..(n - 1))
    BY <2>1, <2>2, FS_Injection
  <2>. QED  BY <2>3 DEF Surjection
<1>7. s = [k \in 1..n |-> CHOOSE v \in S : Cardinality(Below(v)) = k - 1]
  BY DEF Increasing
<1>8. \A v \in S : rank[v] = Cardinality(Below(v))
  OBVIOUS
<1> HIDE DEF rank, Below
<1>9. ASSUME NEW k \in 1..n
      PROVE  s[k] \in S /\ rank[s[k]] = k - 1
  <2>1. k - 1 \in 0..(n - 1)
    BY <1>1
  <2>2. \E v \in S : Cardinality(Below(v)) = k - 1
    BY <1>6, <1>8, <2>1
  <2>3. s[k] = CHOOSE v \in S : Cardinality(Below(v)) = k - 1
    BY <1>7
  <2>4. s[k] \in S /\ Cardinality(Below(s[k])) = k - 1
    BY <2>2, <2>3
  <2>. QED  BY <1>8, <2>4
<1>10. DOMAIN s = 1..n
  BY <1>7
<1>11. s \in [1..n -> S]
  BY <1>7, <1>9
<1> HIDE DEF s
<1>12. s \in Seq(S) /\ Len(s) = n
  BY <1>1, <1>11, SeqDef
<1>13. \A v \in S : \E k \in 1..n : s[k] = v
  <2>1. ASSUME NEW v \in S PROVE \E k \in 1..n : s[k] = v
    <3>1. rank[v] + 1 \in 1..n
      BY <1>1, <1>4
    <3>2. rank[s[rank[v] + 1]] = rank[v] /\ s[rank[v] + 1] \in S
      BY <1>4, <1>9, <3>1
    <3>. QED  BY <1>5, <3>1, <3>2
  <2>. QED  BY <2>1
<1>14. ToSet(s) = S
  BY <1>9, <1>10, <1>13 DEF ToSet
<1>15. \A i, j \in DOMAIN s : s[i] = s[j] => i = j
  BY <1>1, <1>9, <1>10
<1>. QED  BY <1>12, <1>14, <1>15 DEF s

\* The sorted trades: every trade that some order brought, newest first.
LEMMA NewestFirstFacts ==
  ASSUME NEW T, trades \in Seq(T), NEW loaded \in Seq(SUBSET DOMAIN trades)
  PROVE  /\ NewestFirst(loaded) \in Seq(DOMAIN trades)
         /\ ToSet(NewestFirst(loaded)) = UNION ToSet(loaded)
         /\ \A i, j \in DOMAIN NewestFirst(loaded) :
              i < j => NewestFirst(loaded)[i] >= NewestFirst(loaded)[j]
<1> DEFINE D == DOMAIN trades
           B == Brought(loaded)
           n == Cardinality(B)
           From(t) == {b \in B : b[2] >= t}
           C(t) == Cardinality(From(t))
           s == NewestFirst(loaded)
           u == Len(trades)
<1>1. u \in Nat /\ D = 1..u /\ DOMAIN loaded = 1..Len(loaded) /\ Len(loaded) \in Nat
  OBVIOUS
<1>2. /\ \A b \in B : b[2] \in D /\ b[1] \in DOMAIN loaded /\ b[2] \in loaded[b[1]]
      /\ \A i \in DOMAIN loaded : \A t \in loaded[i] : \E b \in B : b[1] = i /\ b[2] = t
  <2>1. \A b \in B : b[2] \in D /\ b[1] \in DOMAIN loaded /\ b[2] \in loaded[b[1]]
    BY DEF Brought
  <2>2. ASSUME NEW i \in DOMAIN loaded, NEW t \in loaded[i]
        PROVE  \E b \in B : b[1] = i /\ b[2] = t
    <3>1. t \in D
      BY <1>1
    <3>2. <<i, t>> \in B
      BY <3>1 DEF Brought
    <3>. QED  BY <3>2
  <2>. QED  BY <2>1, <2>2
<1>3. IsFiniteSet(B)
  <2>1. IsFiniteSet(DOMAIN loaded) /\ IsFiniteSet(D)
    BY <1>1, FS_Interval
  <2>2. IsFiniteSet((DOMAIN loaded) \X D)
    BY <2>1, FS_Product
  <2>. QED  BY <2>2, FS_Subset DEF Brought
<1> HIDE DEF B
<1>4. ASSUME NEW t
      PROVE  IsFiniteSet(From(t)) /\ C(t) \in Nat /\ C(t) <= n /\ SinceThen(loaded, t) = C(t)
  BY <1>3, FS_Subset, FS_CardinalityType DEF SinceThen, B
<1>5. n \in Nat
  BY <1>3, FS_CardinalityType
<1>6. ASSUME NEW t \in Nat, NEW v \in Nat, t <= v
      PROVE  C(v) <= C(t)
  <2>1. From(v) \subseteq From(t)
    BY <1>1, <1>2, <1>6
  <2>2. IsFiniteSet(From(t))
    BY <1>4
  <2>. HIDE DEF From
  <2>. QED  BY <2>1, <2>2, FS_Subset
<1>7. C(1) = n
  <2>1. From(1) = B
    BY <1>1, <1>2
  <2>. QED  BY <2>1
<1>8. C(u + 1) = 0
  <2>1. From(u + 1) = {}
    BY <1>1, <1>2
  <2>. QED  BY <2>1, FS_EmptySet
\* A trade that nobody brought makes no step.
<1>9. ASSUME NEW t \in D
      PROVE  C(t + 1) < C(t) <=> \E b \in B : b[2] = t
  <2>1. From(t + 1) = {b \in From(t) : b[2] # t} /\ t \in Nat
    BY <1>1, <1>2
  <2>2. IsFiniteSet(From(t)) /\ C(t) \in Nat /\ C(t + 1) \in Nat
    BY <1>4
  <2>3. ASSUME NEW b \in B, b[2] = t PROVE C(t + 1) < C(t)
    <3>1. b \in From(t) /\ From(t + 1) \subseteq From(t) \ {b}
      BY <2>1, <2>3
    <3>. HIDE DEF From
    <3>2. IsFiniteSet(From(t) \ {b}) /\ Cardinality(From(t) \ {b}) = C(t) - 1
      BY <2>2, <3>1, FS_RemoveElement
    <3>3. C(t + 1) <= C(t) - 1
      BY <3>1, <3>2, FS_Subset
    <3>. QED  BY <2>2, <3>3
  <2>4. ASSUME \A b \in B : b[2] # t PROVE C(t + 1) = C(t)
    <3>1. From(t + 1) = From(t)
      BY <2>1, <2>4
    <3>. QED  BY <3>1
  <2>. QED  BY <2>2, <2>3, <2>4
<1>10. s = [k \in 1..n |-> CHOOSE t \in D : C(t + 1) < k /\ k <= C(t)]
  BY <1>4 DEF NewestFirst, SinceThen, B
<1> HIDE DEF From, C, n
<1>11. ASSUME NEW k \in 1..n
       PROVE  s[k] \in D /\ C(s[k] + 1) < k /\ k <= C(s[k])
  <2> DEFINE G == {t \in D : k <= C(t)}
  <2>1. 1 <= u
    BY <1>1, <1>4, <1>5, <1>7, <1>8, <1>11
  <2>2. 1 \in G /\ G \subseteq Nat /\ \A t \in G : t <= u
    BY <1>1, <1>4, <1>5, <1>7, <2>1
  <2>3. PICK t \in G : \A v \in G : v <= t
    <3>. HIDE DEF G
    <3>. QED  BY <1>1, <2>2, GreatestNatural
  <2>4. C(t + 1) < k
    <3>1. CASE t = u
      BY <1>5, <1>8, <3>1
    <3>2. CASE t # u
      <4>1. t + 1 \in D /\ t + 1 \notin G
        BY <1>1, <2>3, <3>2
      <4>2. ~(k <= C(t + 1)) /\ C(t + 1) \in Nat /\ k \in Nat
        BY <1>4, <1>5, <4>1
      <4>. QED  BY <4>2
    <3>. QED  BY <3>1, <3>2
  <2>5. t \in D /\ k <= C(t)
    BY <2>3
  <2>. QED  BY <1>10, <2>4, <2>5
<1>12. s \in [1..n -> D] /\ DOMAIN s = 1..n
  BY <1>10, <1>11
<1>13. \A t : C(t) \in Nat
  BY <1>4
<1> HIDE DEF s
<1>14. s \in Seq(D) /\ Len(s) = n
  BY <1>5, <1>12, SeqDef
<1>15. ASSUME NEW i \in 1..n, NEW j \in 1..n, i < j
       PROVE  s[i] >= s[j]
  <2>1. /\ s[i] \in Nat /\ s[j] \in Nat /\ C(s[i] + 1) < i /\ j <= C(s[j])
        /\ C(s[i] + 1) \in Nat /\ C(s[j]) \in Nat
    BY <1>1, <1>11, <1>13
  <2>2. s[i] + 1 <= s[j] => C(s[j]) <= C(s[i] + 1)
    BY <1>6, <2>1
  <2>. QED  BY <1>5, <1>15, <2>1, <2>2
<1>16. ASSUME NEW b \in B
       PROVE  \E k \in 1..n : s[k] = b[2]
  <2> DEFINE t == b[2]
             k == C(t + 1) + 1
  <2>1. t \in D /\ t \in Nat /\ C(t + 1) < C(t)
    BY <1>1, <1>2, <1>9
  <2>2. k \in 1..n /\ k <= C(t)
    BY <1>4, <1>5, <1>13, <2>1
  <2>3. s[k] \in Nat /\ C(s[k] + 1) < k /\ k <= C(s[k])
    BY <1>1, <1>11, <2>2
  <2>. HIDE DEF t
  <2>4. s[k] + 1 <= t => C(t) <= C(s[k] + 1)
    BY <1>6, <2>1, <2>3
  <2>5. t + 1 <= s[k] => C(s[k]) <= C(t + 1)
    BY <1>6, <2>1, <2>3
  <2>6. s[k] = t
    <3>1. C(t) \in Nat /\ C(s[k] + 1) \in Nat /\ C(s[k]) \in Nat /\ C(t + 1) \in Nat
      BY <1>13
    <3>. QED  BY <2>1, <2>2, <2>3, <2>4, <2>5, <3>1
  <2>. QED  BY <2>2, <2>6 DEF t
<1>17. ASSUME NEW k \in 1..n
       PROVE  \E b \in B : b[2] = s[k]
  <2>1. s[k] \in D /\ C(s[k] + 1) < C(s[k])
    <3>1. C(s[k] + 1) \in Nat /\ C(s[k]) \in Nat
      BY <1>13
    <3>. QED  BY <1>5, <1>11, <3>1
  <2>. QED  BY <1>9, <2>1
<1>18. ToSet(s) = UNION ToSet(loaded)
  <2>1. ToSet(s) = {s[k] : k \in 1..n} /\ ToSet(loaded) = {loaded[i] : i \in DOMAIN loaded}
    BY <1>12 DEF ToSet
  <2>2. ASSUME NEW k \in 1..n PROVE \E i \in DOMAIN loaded : s[k] \in loaded[i]
    BY <1>2, <1>17
  <2>3. ASSUME NEW i \in DOMAIN loaded, NEW t \in loaded[i] PROVE \E k \in 1..n : s[k] = t
    <3>1. PICK b \in B : b[2] = t
      BY <1>2
    <3>. QED  BY <1>16, <3>1
  <2>. QED  BY <2>1, <2>2, <2>3
<1>. QED  BY <1>12, <1>14, <1>15, <1>18 DEF s

-----------------------------------------------------------------------------
\* The inductive invariant: the listing, and how far each request has come.

ListingOK ==
    /\ orders \in Seq(Orders) /\ IsInjective(orders)
    /\ trades \in Seq(ToSet(orders))

RequestRecords ==
    [pc : Steps, next : Nat, found : Seq(Orders), total : Nat, left : SUBSET Nat,
     loaded : Seq(SUBSET Nat), quotable : Seq(Nat),
     quotes : Seq(Orders \cup {NoRatio, Pending}), failed : BOOLEAN,
     all : Seq(Nat), known : SUBSET Orders, since : Nat, refused : SUBSET Orders,
     unanswered : SUBSET Orders]

\* The trades that the request has or counts on are there.
InListing(r) ==
    /\ r.since <= Len(trades)
    /\ r.loaded \in Seq(SUBSET DOMAIN trades) /\ r.all \in Seq(DOMAIN trades)

\* The trades up to `since` are of the known orders; a known order that the pages
\* read so far do not have is listed behind them.
KnownTraded(r) == \A t \in 1..r.since : trades[t] \in r.known
Scanning(r) ==
    /\ r.next > 0 /\ Len(r.found) = Past(r.next - 1, ScanPageSize)
    /\ KnownTraded(r) /\ r.known \subseteq ToSet(orders)
    /\ \A i \in DOMAIN orders :
        orders[i] \in r.known => orders[i] \in ToSet(r.found) \/ i > Len(r.found)

\* The known orders are found; a call that has returned has failed or brought what
\* its order had when the request came.
Cut(r) == r.total > Past(MaxPage - 1, ScanPageSize)
Loading(r) ==
    /\ KnownTraded(r)
    /\ ~Cut(r) => r.known \subseteq ToSet(r.found)
    /\ DOMAIN r.loaded = DOMAIN r.found /\ r.left \subseteq DOMAIN r.found
    /\ \A i \in (DOMAIN r.found) \ r.left :
        r.failed \/ {t \in 1..r.since : trades[t] = r.found[i]} \subseteq r.loaded[i]

Answering(r) ==
    /\ ~Cut(r) => 1..r.since \subseteq ToSet(r.all)
    /\ \A i, j \in DOMAIN r.all : i < j => r.all[i] >= r.all[j]

\* Every place of a funded order is in quotable, once; a quote that has come is the
\* order's own, or none if the library refused that order or its own call failed.
Without(r) == r.refused \cup r.unanswered
Quoting(r) ==
    /\ IsInjective(r.found) /\ IsInjective(r.quotable)
    /\ ToSet(r.quotable) = {i \in DOMAIN r.found : r.found[i] \in Funded}
    /\ DOMAIN r.quotes = DOMAIN r.quotable /\ r.left \subseteq DOMAIN r.quotable
    /\ \A q \in DOMAIN r.quotable :
        LET order == r.found[r.quotable[q]]
        IN  IF q \in r.left THEN order \notin Without(r)
            ELSE r.quotes[q] = IF order \in Without(r) THEN NoRatio ELSE order

RequestOK(r) ==
    /\ r \in RequestRecords /\ InListing(r)
    /\ r.pc = "scan" => Scanning(r)
    /\ r.pc = "load" => Loading(r)
    /\ r.pc = "trades" => Answering(r)
    /\ r.pc = "list" => Without(r) = {}
    /\ r.pc \in {"quote", "fallback", "orders"} => Quoting(r)
    /\ r.pc = "orders" => r.left = {}

SingleSteps == {"idle", "find", "quotes", "trades", "build", "calldata", "summary", "reply"}
Statuses == {0, 200, 404, 500}
SingleRecords ==
    [pc : SingleSteps,
     kind : {"detail", "cancel"}, hash : Hashes \cup {NoRatio}, order : Orders \cup {NoRatio},
     holding : SUBSET Nat, ratio : Orders \cup {NoRatio}, trades : SUBSET Nat,
     status : Statuses, known : BOOLEAN, since : Nat,
     priced : BOOLEAN, broke : BOOLEAN]

\* After the order is found; after its quote; after its trades.
Found(s) == s.order \in Orders /\ HashOf[s.order] = s.hash
Priced(s) == s.ratio = IF s.priced THEN s.order ELSE NoRatio
Traded(s) ==
    /\ {t \in 1..s.since : trades[t] = s.order} \subseteq s.trades
    /\ \A t \in s.trades : trades[t] = s.order

Succeeded(s) == s.pc = "reply" /\ s.status = 200
SingleOK(s) ==
    /\ s \in SingleRecords /\ s.since <= Len(trades) /\ s.trades \subseteq DOMAIN trades
    /\ s.pc = "find" => s.holding = {} /\ (s.known => Matching(s.hash) # {})
    /\ s.pc \in {"quotes", "trades", "build", "calldata", "summary"} => Found(s)
    /\ Succeeded(s) => Found(s)
    /\ s.kind = "detail" =>
        /\ s.pc \in {"trades", "build"} => Priced(s)
        /\ s.pc = "build" => Traded(s)
        /\ Succeeded(s) => Priced(s) /\ Traded(s) /\ Resolves(s.order)
    /\ s.order \in Orders => s.holding \subseteq DOMAIN VaultKinds[s.order]
    /\ s.pc = "reply" /\ s.status = 404 => ~s.known
    /\ s.broke => s.pc = "reply" /\ s.status = 500
    /\ s.pc = "reply" /\ s.status = 500 => s.broke \/ ~Resolves(s.order)

SwapSteps == {"idle", "orders", "candidates", "simulate", "reply"}
SwapStatuses == {0, 200, 400, 404, 500}
Said == LiquidityErrors \cup RequestErrors
            \cup {"nothing", "no liquidity", "no candidates", "bad amount", "no legs",
                  "purchase", "approval", "transaction", "failure"}
PurchasesMade == UNION {[candidates -> Nat] : candidates \in SUBSET Orders}
SwapRecords ==
    [pc : SwapSteps, kind : {"quote", "calldata"},
     sell : Tokens \cup {Unparsable}, buy : Tokens \cup {Unparsable},
     amount : Amounts \cup {Unparsable}, page : SUBSET Orders,
     bought : PurchasesMade,
     status : SwapStatuses, known : SUBSET Orders, said : Said]

\* What may be replied.  A quote: "no liquidity" if there was no order when the request
\* came, an internal error for a failure, the client's for an amount that is no number
\* and success for a number.  Calldata: success with an approval or a transaction.
MayReply(w, status, said) ==
    /\ w.kind = "quote" =>
        /\ said = "no liquidity" => w.known = {}
        /\ status = 500 <=> said = "failure"
        /\ status = 400 => w.amount = Unparsable
        /\ status = 200 => w.amount # Unparsable
    /\ w.kind = "calldata" /\ status = 200 => said \in {"approval", "transaction"}

SwapOK(w) ==
    /\ w \in SwapRecords
    /\ w.pc = "orders" => w.known \subseteq {orders[i] : i \in OfPair(w.sell, w.buy)}
    /\ w.pc = "simulate" => w.amount # Unparsable
    /\ w.pc = "reply" => MayReply(w, w.status, w.said)

TakerRecords ==
    [pc : {"idle", "list", "resolve", "done"}, size : Nat \ {0}, page : Nat \ {0},
     indexed : Nat, cached : Seq(Nat), list : Seq(Nat), slice : Seq(Nat),
     got : SUBSET Nat, skipped : SUBSET Nat, first : SUBSET Nat]

Served(k, t) == t \in k.got \cup k.skipped

\* The n newest transactions are listed newest first: transaction t is at place
\* n + 1 - t.  What the client has not been served of its first list is in the rest
\* of this page, or on a page after it.
TakerOK(k) ==
    LET n == Len(k.cached)
    IN  /\ k \in TakerRecords /\ n <= k.indexed /\ k.cached = Listed(n)
        /\ k.list \in Seq(1..k.indexed) /\ k.slice \in Seq(1..k.indexed)
        /\ k.got \cup k.skipped \subseteq 1..k.indexed /\ k.first \subseteq 1..n
        /\ k.pc = "list" => \A t \in k.first : Served(k, t) \/ n + 1 - t > Past(k.page - 1, k.size)
        /\ k.pc = "resolve" =>
            /\ k.list = k.cached
            /\ \A t \in k.first :
                Served(k, t) \/ t \in ToSet(k.slice) \/ n + 1 - t > Past(k.page, k.size)
        /\ k.pc = "done" => \A t \in k.first : Served(k, t)

OneAtATime ==
    /\ request.pc # "idle" => single.pc = "idle" /\ swap.pc = "idle" /\ taker.pc = "idle"
    /\ single.pc # "idle" => swap.pc = "idle" /\ taker.pc = "idle"
    /\ swap.pc # "idle" => taker.pc = "idle"

ReadsInv ==
    /\ ListingOK /\ RequestOK(request) /\ SingleOK(single) /\ SwapOK(swap) /\ TakerOK(taker)
    /\ OneAtATime

-----------------------------------------------------------------------------
\* The indexer.

\* InsertAt makes room for one more.
LEMMA Insertion ==
  ASSUME NEW T, NEW s \in Seq(T), NEW i \in 1..(Len(s) + 1), NEW e \in T,
         NEW r, r = InsertAt(s, i, e)
  PROVE  /\ r \in Seq(T) /\ Len(r) = Len(s) + 1 /\ r[i] = e
         /\ \A j \in 1..Len(s) : IF j < i THEN r[j] = s[j] ELSE r[j + 1] = s[j]
<1> DEFINE a == SubSeq(s, 1, i - 1)
           c == SubSeq(s, i, Len(s))
<1>1. Len(s) \in Nat /\ i \in Nat
  OBVIOUS
<1>2. /\ a \in Seq(T) /\ Len(a) = i - 1
      /\ \A j \in 1..(i - 1) : a[j] = s[j]
  <2>1. \A j \in 1..(i - 1) : s[j] \in T
    OBVIOUS
  <2>. QED  BY <1>1, <2>1, SubSeqProperties
<1>3. /\ c \in Seq(T) /\ Len(c) = Len(s) + 1 - i
      /\ \A j \in 1..(Len(s) + 1 - i) : c[j] = s[i + j - 1]
  <2>1. \A j \in i..Len(s) : s[j] \in T
    BY <1>1
  <2>. QED  BY <1>1, <2>1, SubSeqProperties
<1> HIDE DEF a, c
<1>4. <<e>> \in Seq(T) /\ Len(<<e>>) = 1 /\ <<e>>[1] = e
  OBVIOUS
<1> DEFINE d == a \o <<e>>
<1>5. /\ d \in Seq(T) /\ Len(d) = i /\ d[i] = e
      /\ \A j \in 1..(i - 1) : d[j] = s[j]
  <2>1. /\ d \in Seq(T) /\ Len(d) = Len(a) + 1
        /\ \A j \in 1..(Len(a) + 1) : d[j] = IF j <= Len(a) THEN a[j] ELSE <<e>>[j - Len(a)]
    BY <1>2, <1>4, ConcatProperties
  <2>. QED  BY <1>1, <1>2, <1>4, <2>1
<1> HIDE DEF d
<1>6. /\ d \o c \in Seq(T) /\ Len(d \o c) = Len(s) + 1
      /\ \A j \in 1..(Len(s) + 1) : (d \o c)[j] = IF j <= i THEN d[j] ELSE c[j - i]
  <2>1. /\ d \o c \in Seq(T) /\ Len(d \o c) = Len(d) + Len(c)
        /\ \A j \in 1..(Len(d) + Len(c)) : (d \o c)[j] = IF j <= Len(d) THEN d[j] ELSE c[j - Len(d)]
    BY <1>3, <1>5, ConcatProperties
  <2>. QED  BY <1>1, <1>3, <1>5, <2>1
<1>7. r = d \o c
  BY DEF InsertAt, a, c, d
<1>8. ASSUME NEW j \in 1..Len(s)
      PROVE  IF j < i THEN (d \o c)[j] = s[j] ELSE (d \o c)[j + 1] = s[j]
  <2>1. CASE j < i
    <3>1. j \in 1..(i - 1) /\ j \in 1..(Len(s) + 1) /\ j <= i
      BY <1>1, <2>1
    <3>2. (d \o c)[j] = d[j]
      BY <1>6, <3>1
    <3>. QED  BY <1>5, <2>1, <3>1, <3>2
  <2>2. CASE ~(j < i)
    <3>1. j + 1 \in 1..(Len(s) + 1) /\ ~(j + 1 <= i) /\ j + 1 - i \in 1..(Len(s) + 1 - i)
      BY <1>1, <2>2
    <3>2. c[j + 1 - i] = s[i + (j + 1 - i) - 1] /\ i + (j + 1 - i) - 1 = j
      BY <1>1, <1>3, <3>1
    <3>3. (d \o c)[j + 1] = c[j + 1 - i]
      BY <1>6, <3>1
    <3>. QED  BY <2>2, <3>2, <3>3
  <2>. QED  BY <2>1, <2>2
<1>. QED  BY <1>1, <1>5, <1>6, <1>7, <1>8

\* What the indexer adds leaves every order, and every trade, in the listing, and
\* an order at its place or one behind it.
LEMMA MovesGrow ==
  ASSUME ListingOK, Moves
  PROVE  /\ ListingOK' /\ request' = request
         /\ Len(trades) <= Len(trades') /\ (DOMAIN trades) \subseteq DOMAIN trades'
         /\ \A t \in DOMAIN trades : trades'[t] = trades[t]
         /\ ToSet(orders) \subseteq ToSet(orders')
         /\ \A j \in DOMAIN orders' :
              orders'[j] \in ToSet(orders) =>
                \E i \in DOMAIN orders : i <= j /\ orders'[j] = orders[i]
         /\ \A i \in DOMAIN orders : \E j \in DOMAIN orders' : orders'[j] = orders[i]
<1>1. /\ DOMAIN orders = 1..Len(orders) /\ Len(orders) \in Nat
      /\ DOMAIN trades = 1..Len(trades) /\ Len(trades) \in Nat
      /\ ToSet(orders) = {orders[i] : i \in DOMAIN orders}
  BY DEF ListingOK, ToSet
<1>2. ASSUME NEW order \in Orders, NEW i \in 1..(Len(orders) + 1), Add(order, i)
      PROVE  /\ orders' \in Seq(Orders) /\ IsInjective(orders') /\ trades' = trades
             /\ request' = request
             /\ ToSet(orders) \subseteq ToSet(orders')
             /\ \A j \in DOMAIN orders' :
                  orders'[j] \in ToSet(orders) =>
                    \E k \in DOMAIN orders : k <= j /\ orders'[j] = orders[k]
             /\ \A k \in DOMAIN orders : \E j \in DOMAIN orders' : orders'[j] = orders[k]
  <2>1. order \notin ToSet(orders) /\ orders' = InsertAt(orders, i, order)
        /\ trades' = trades /\ request' = request
    BY <1>2 DEF Add
  <2>2. PICK s \in Seq(Orders) : s = orders
    BY DEF ListingOK
  <2>3. PICK r : r = InsertAt(s, i, order)
    OBVIOUS
  <2>4. /\ r \in Seq(Orders) /\ Len(r) = Len(s) + 1 /\ r[i] = order
        /\ \A j \in 1..Len(s) : IF j < i THEN r[j] = s[j] ELSE r[j + 1] = s[j]
    <3>1. i \in 1..(Len(s) + 1)
      BY <2>2
    <3>. QED  BY <2>3, <3>1, Insertion
  <2>5. DOMAIN r = 1..(Len(s) + 1) /\ Len(s) \in Nat /\ DOMAIN s = 1..Len(s) /\ i \in Nat
    BY <1>1, <2>2, <2>4
  <2>6. ASSUME NEW j \in DOMAIN r, j # i
        PROVE  \E k \in DOMAIN s : /\ k <= j /\ r[j] = s[k]
                                   /\ k = IF j < i THEN j ELSE j - 1
    <3> DEFINE k == IF j < i THEN j ELSE j - 1
    <3>1. k \in 1..Len(s) /\ k <= j /\ j = (IF k < i THEN k ELSE k + 1)
      BY <1>2, <2>2, <2>5, <2>6
    <3>. QED  BY <2>4, <2>5, <3>1
  <2>7. \A k \in DOMAIN s : s[k] # order
    BY <1>1, <2>1, <2>2
  <2>8. \A j, k \in DOMAIN s : s[j] = s[k] => j = k
    BY <2>2 DEF ListingOK, IsInjective
  <2>9. IsInjective(r)
    <3>1. ASSUME NEW j \in DOMAIN r, NEW k \in DOMAIN r, r[j] = r[k] PROVE j = k
      <4>1. CASE j = i \/ k = i
        BY <2>4, <2>6, <2>7, <3>1, <4>1
      <4>2. CASE j # i /\ k # i
        <5>1. PICK x \in DOMAIN s : r[j] = s[x] /\ x = IF j < i THEN j ELSE j - 1
          BY <2>6, <4>2
        <5>2. PICK y \in DOMAIN s : r[k] = s[y] /\ y = IF k < i THEN k ELSE k - 1
          BY <2>6, <4>2
        <5>3. x = y
          BY <2>8, <3>1, <5>1, <5>2
        <5>. QED  BY <2>5, <4>2, <5>1, <5>2, <5>3
      <4>. QED  BY <4>1, <4>2
    <3>. QED  BY <3>1 DEF IsInjective
  <2>10. ASSUME NEW k \in DOMAIN s PROVE \E j \in DOMAIN r : r[j] = s[k]
    <3>1. (IF k < i THEN k ELSE k + 1) \in DOMAIN r
      BY <2>5
    <3>. QED  BY <2>4, <2>5, <3>1
  <2>11. orders' = r
    BY <2>1, <2>2, <2>3
  <2>12. ToSet(s) = {s[k] : k \in DOMAIN s} /\ ToSet(r) = {r[k] : k \in DOMAIN r}
    BY DEF ToSet
  <2>13. ASSUME NEW j \in DOMAIN r, r[j] \in ToSet(s)
         PROVE  \E k \in DOMAIN s : k <= j /\ r[j] = s[k]
    <3>1. j # i
      BY <2>4, <2>7, <2>12, <2>13
    <3>. QED  BY <2>6, <3>1
  <2>14. ToSet(s) \subseteq ToSet(r)
    BY <2>10, <2>12
  <2>. QED  BY <2>1, <2>2, <2>4, <2>9, <2>10, <2>11, <2>13, <2>14
<1>3. ASSUME NEW order \in ToSet(orders), Trade(order)
      PROVE  /\ orders' = orders /\ request' = request /\ trades' \in Seq(ToSet(orders))
             /\ Len(trades) <= Len(trades') /\ DOMAIN trades' = 1..Len(trades')
             /\ Len(trades') \in Nat
             /\ \A t \in DOMAIN trades : trades'[t] = trades[t]
  BY <1>1, <1>3 DEF ListingOK, Trade
<1>4. CASE \E order \in Orders, i \in 1..(Len(orders) + 1) : Add(order, i)
  <2>1. PICK order \in Orders, i \in 1..(Len(orders) + 1) : Add(order, i)
    BY <1>4
  <2>2. /\ orders' \in Seq(Orders) /\ IsInjective(orders') /\ trades' = trades
        /\ request' = request
        /\ ToSet(orders) \subseteq ToSet(orders')
        /\ \A j \in DOMAIN orders' :
             orders'[j] \in ToSet(orders) =>
               \E k \in DOMAIN orders : k <= j /\ orders'[j] = orders[k]
        /\ \A k \in DOMAIN orders : \E j \in DOMAIN orders' : orders'[j] = orders[k]
    BY <1>2, <2>1
  <2>3. trades' \in Seq(ToSet(orders'))
    BY <2>2, SeqMonotonic DEF ListingOK
  <2>4. ListingOK'
    BY <2>2, <2>3 DEF ListingOK
  <2>. QED  BY <1>1, <2>2, <2>4
<1>5. CASE \E order \in ToSet(orders) : Trade(order)
  <2>1. /\ orders' = orders /\ request' = request /\ trades' \in Seq(ToSet(orders))
        /\ Len(trades) <= Len(trades') /\ DOMAIN trades' = 1..Len(trades')
        /\ Len(trades') \in Nat
        /\ \A t \in DOMAIN trades : trades'[t] = trades[t]
    BY <1>3, <1>5
  <2>2. ListingOK'
    BY <2>1 DEF ListingOK, IsInjective
  <2>3. \A j \in DOMAIN orders : j <= j
    BY <1>1
  <2>. QED  BY <1>1, <2>1, <2>2, <2>3
<1>. QED  BY <1>4, <1>5 DEF Moves

\* What a request has established does not depend on what is added after.
LEMMA MovesKeepRequest ==
  ASSUME ListingOK, Moves, NEW r, RequestOK(r)
  PROVE  RequestOK(r)'
<1>1. r \in RequestRecords /\ r.since \in Nat
  BY DEF RequestOK, RequestRecords
<1>2. /\ Len(trades) \in Nat /\ DOMAIN trades = 1..Len(trades)
      /\ Len(trades') \in Nat
      /\ Len(trades) <= Len(trades') /\ (DOMAIN trades) \subseteq DOMAIN trades'
      /\ \A t \in DOMAIN trades : trades'[t] = trades[t]
  BY MovesGrow DEF ListingOK
<1>3. /\ ToSet(orders) \subseteq ToSet(orders')
      /\ \A j \in DOMAIN orders' :
           orders'[j] \in ToSet(orders) =>
             \E i \in DOMAIN orders : i <= j /\ orders'[j] = orders[i]
      /\ DOMAIN orders' \subseteq Nat /\ DOMAIN orders \subseteq Nat
  BY MovesGrow DEF ListingOK
<1>4. InListing(r)'
  <2>1. /\ r.since <= Len(trades) /\ r.loaded \in Seq(SUBSET DOMAIN trades)
        /\ r.all \in Seq(DOMAIN trades)
    BY DEF RequestOK, InListing
  <2>2. SUBSET (DOMAIN trades) \subseteq SUBSET (DOMAIN trades')
    BY <1>2
  <2>3. r.loaded \in Seq(SUBSET DOMAIN trades') /\ r.all \in Seq(DOMAIN trades')
    BY <1>2, <2>1, <2>2, SeqMonotonic
  <2>. QED  BY <1>1, <1>2, <2>1, <2>3 DEF InListing
<1>5. \A t \in 1..r.since : t \in DOMAIN trades /\ trades'[t] = trades[t]
  BY <1>1, <1>2 DEF RequestOK, InListing
<1>6. KnownTraded(r) => KnownTraded(r)'
  BY <1>5 DEF KnownTraded
<1>7. Scanning(r) => Scanning(r)'
  <2>1. ASSUME Scanning(r), NEW j \in DOMAIN orders', orders'[j] \in r.known
        PROVE  orders'[j] \in ToSet(r.found) \/ j > Len(r.found)
    <3>1. PICK i \in DOMAIN orders : i <= j /\ orders'[j] = orders[i]
      BY <1>3, <2>1 DEF Scanning
    <3>2. orders[i] \in ToSet(r.found) \/ i > Len(r.found)
      BY <2>1, <3>1 DEF Scanning
    <3>3. r.found \in Seq(Orders)
      BY <1>1 DEF RequestRecords
    <3>4. Len(r.found) \in Nat /\ i \in Nat /\ j \in Nat
      BY <1>3, <3>3
    <3>. QED  BY <3>1, <3>2, <3>4
  <2>. QED  BY <1>3, <1>6, <2>1 DEF Scanning
<1>8. Loading(r) => Loading(r)'
  BY <1>5, <1>6 DEF Loading
<1>. QED  BY <1>1, <1>4, <1>7, <1>8 DEF RequestOK, Answering, Quoting

LEMMA MovesKeepSingle ==
  ASSUME ListingOK, Moves, NEW s, SingleOK(s)
  PROVE  SingleOK(s)'
<1>1. s \in SingleRecords /\ s.since \in Nat
  BY DEF SingleOK, SingleRecords
<1>2. /\ Len(trades) \in Nat /\ DOMAIN trades = 1..Len(trades)
      /\ Len(trades') \in Nat
      /\ Len(trades) <= Len(trades') /\ (DOMAIN trades) \subseteq DOMAIN trades'
      /\ \A t \in DOMAIN trades : trades'[t] = trades[t]
  BY MovesGrow DEF ListingOK
<1>3. s.since <= Len(trades) /\ s.trades \subseteq DOMAIN trades
  BY DEF SingleOK
<1>4. Traded(s) => Traded(s)'
  <2>1. \A t \in 1..s.since : trades'[t] = trades[t]
    BY <1>1, <1>2, <1>3
  <2>2. \A t \in s.trades : trades'[t] = trades[t]
    BY <1>2, <1>3
  <2>. QED  BY <2>1, <2>2 DEF Traded
<1>5. Matching(s.hash) # {} => Matching(s.hash)' # {}
  <2>1. ASSUME NEW i \in Matching(s.hash) PROVE Matching(s.hash)' # {}
    <3>1. i \in DOMAIN orders /\ HashOf[orders[i]] = s.hash
      BY DEF Matching
    <3>2. PICK j \in DOMAIN orders' : orders'[j] = orders[i]
      BY <3>1, MovesGrow
    <3>. QED  BY <3>1, <3>2 DEF Matching
  <2>. QED  BY <2>1
<1>6. s.since <= Len(trades') /\ s.trades \subseteq DOMAIN trades'
  BY <1>1, <1>2, <1>3
<1>. QED  BY <1>4, <1>5, <1>6 DEF SingleOK, Found, Priced, Succeeded

LEMMA MovesKeepSwap ==
  ASSUME ListingOK, Moves, NEW w, SwapOK(w)
  PROVE  SwapOK(w)'
<1>1. {orders[i] : i \in OfPair(w.sell, w.buy)} \subseteq {orders[i] : i \in OfPair(w.sell, w.buy)}'
  <2>1. ASSUME NEW i \in OfPair(w.sell, w.buy)
        PROVE  \E j \in OfPair(w.sell, w.buy)' : orders'[j] = orders[i]
    <3>1. i \in DOMAIN orders /\ Takes[orders[i]] = w.sell /\ Gives[orders[i]] = w.buy
      BY DEF OfPair
    <3>2. PICK j \in DOMAIN orders' : orders'[j] = orders[i]
      BY <3>1, MovesGrow
    <3>. QED  BY <3>1, <3>2 DEF OfPair
  <2>. QED  BY <2>1
<1>. QED  BY <1>1 DEF SwapOK

-----------------------------------------------------------------------------
\* The requests of OrderPages.

LEMMA ConcatSet ==
  ASSUME NEW T, NEW s \in Seq(T), NEW t \in Seq(T)
  PROVE  /\ s \o t \in Seq(T) /\ Len(s \o t) = Len(s) + Len(t)
         /\ ToSet(s \o t) = ToSet(s) \cup ToSet(t)
<1>1. /\ s \o t \in Seq(T) /\ Len(s \o t) = Len(s) + Len(t)
      /\ \A i \in 1..(Len(s) + Len(t)) : (s \o t)[i] = IF i <= Len(s) THEN s[i] ELSE t[i - Len(s)]
  BY ConcatProperties
<1> DEFINE c == s \o t
<1> HIDE DEF c
<1>2. /\ c \in Seq(T) /\ Len(c) = Len(s) + Len(t)
      /\ \A i \in 1..(Len(s) + Len(t)) : c[i] = IF i <= Len(s) THEN s[i] ELSE t[i - Len(s)]
  BY <1>1 DEF c
<1>3. /\ DOMAIN c = 1..(Len(s) + Len(t)) /\ DOMAIN s = 1..Len(s) /\ DOMAIN t = 1..Len(t)
      /\ Len(s) \in Nat /\ Len(t) \in Nat
  BY <1>2
<1>4. \A i \in DOMAIN s : i \in DOMAIN c /\ c[i] = s[i]
  BY <1>2, <1>3
<1>5. \A i \in DOMAIN t : i + Len(s) \in DOMAIN c /\ c[i + Len(s)] = t[i]
  <2>1. ASSUME NEW i \in DOMAIN t PROVE i + Len(s) \in DOMAIN c /\ c[i + Len(s)] = t[i]
    <3>1. i + Len(s) \in 1..(Len(s) + Len(t)) /\ ~(i + Len(s) <= Len(s)) /\ i + Len(s) - Len(s) = i
      BY <1>3
    <3>. QED  BY <1>2, <1>3, <3>1
  <2>. QED  BY <2>1
<1>6. \A i \in DOMAIN c : c[i] \in ToSet(s) \cup ToSet(t)
  <2>1. ASSUME NEW i \in DOMAIN c PROVE c[i] \in ToSet(s) \cup ToSet(t)
    <3>1. CASE i <= Len(s)
      BY <1>2, <1>3, <3>1 DEF ToSet
    <3>2. CASE ~(i <= Len(s))
      <4>1. i - Len(s) \in DOMAIN t
        BY <1>3, <3>2
      <4>. QED  BY <1>2, <1>3, <3>2, <4>1 DEF ToSet
    <3>. QED  BY <3>1, <3>2
  <2>. QED  BY <2>1
<1>7. ToSet(c) = ToSet(s) \cup ToSet(t)
  BY <1>4, <1>5, <1>6 DEF ToSet
<1>. QED  BY <1>2, <1>7 DEF c

LEMMA IdleOK ==
  ASSUME ListingOK, NEW pc \in {"idle", "list", "failed"}
  PROVE  RequestOK([IdleRequest EXCEPT !.pc = pc])
<1> DEFINE r == [IdleRequest EXCEPT !.pc = pc]
<1>1. pc \in Steps /\ pc \notin {"scan", "load", "trades", "quote", "fallback", "orders"}
  BY DEF Steps
<1>2. "idle" \in Steps
  BY DEF Steps
<1>3. \A T : <<>> \in Seq(T)
  OBVIOUS
<1>4. IdleRequest \in RequestRecords
  BY <1>2, <1>3 DEF RequestRecords, IdleRequest
<1>5. r \in RequestRecords /\ r.pc = pc
  BY <1>1, <1>4 DEF RequestRecords
<1>8. r.since = 0 /\ r.loaded = <<>> /\ r.all = <<>> /\ Without(r) = {}
  BY DEF IdleRequest, Without
<1>6. Len(trades) \in Nat
  BY DEF ListingOK
<1> HIDE DEF r
<1>7. InListing(r)
  BY <1>3, <1>6, <1>8 DEF InListing
<1>9. RequestOK(r)
  BY <1>1, <1>5, <1>7, <1>8 DEF RequestOK
<1>. QED  BY <1>9 DEF r

\* A page: the known orders it does not pass by, and whether it is the last.
LEMMA ScanPageKeeps ==
  ASSUME ListingOK, RequestOK(request), ScanPage
  PROVE  RequestOK(request')
<1> PICK r : r = request
  OBVIOUS
<1>14. PICK page : page = Slice(orders, r.next, ScanPageSize)
  OBVIOUS
<1>15. PICK here : here = Past(r.next - 1, ScanPageSize)
  OBVIOUS
<1>16. PICK ahead : ahead = Past(r.next, ScanPageSize)
  OBVIOUS
<1>17. PICK total : total = Len(orders)
  OBVIOUS
<1> DEFINE found == r.found \o page
<1>1. r \in RequestRecords /\ InListing(r) /\ Scanning(r) /\ r.pc = "scan"
  BY DEF RequestOK, ScanPage, At
<1>2. /\ r.next \in Nat \ {0} /\ r.found \in Seq(Orders) /\ Len(r.found) \in Nat
      /\ r.known \subseteq Orders /\ r.since \in Nat
  BY <1>1 DEF RequestRecords, Scanning
<1>3. orders \in Seq(Orders) /\ total \in Nat /\ DOMAIN orders = 1..total /\ ScanPageSize \in Nat \ {0}
      /\ MaxPage \in Nat \ {0} /\ ToSet(orders) = {orders[i] : i \in DOMAIN orders}
  BY <1>17, SizesAssumption DEF ListingOK, ToSet
<1>4. /\ page \in Seq(Orders)
      /\ \A i \in 1..total : here < i /\ i <= ahead => orders[i] \in ToSet(page)
      /\ ahead <= total => Len(page) = ScanPageSize
      /\ ahead >= total /\ here <= total => Len(page) = total - here
  <2>1. r.next \in Nat \ {0} /\ ScanPageSize \in Nat /\ orders \in Seq(Orders)
    BY <1>2, <1>3
  <2>2. PICK n \in Nat \ {0} : n = r.next
    BY <2>1
  <2>3. Slice(orders, n, ScanPageSize) \in Seq(Orders)
    BY <2>1, SliceFacts
  <2>4. \A i \in 1..Len(orders) :
          Past(n - 1, ScanPageSize) < i /\ i <= Past(n, ScanPageSize) =>
            orders[i] \in ToSet(Slice(orders, n, ScanPageSize))
    BY <2>1, SliceFacts
  <2>5. Past(n, ScanPageSize) <= Len(orders) => Len(Slice(orders, n, ScanPageSize)) = ScanPageSize
    BY <2>1, SliceFacts
  <2>6. Past(n, ScanPageSize) >= Len(orders) /\ Past(n - 1, ScanPageSize) <= Len(orders) =>
          Len(Slice(orders, n, ScanPageSize)) = Len(orders) - Past(n - 1, ScanPageSize)
    BY <2>1, SliceFacts
  <2>. QED  BY <2>2, <2>3, <2>4, <2>5, <2>6, <1>14, <1>15, <1>16, <1>17
<1>18. here \in Nat /\ ahead = here + ScanPageSize
  <2>1. /\ Past(r.next - 1, ScanPageSize) \in Nat
        /\ Past(r.next, ScanPageSize) = Past(r.next - 1, ScanPageSize) + ScanPageSize
    BY <1>2, <1>3, PastNext
  <2>. QED  BY <1>15, <1>16, <2>1
<1>19. /\ Len(page) \in Nat
       /\ ahead <= total => Len(page) = ScanPageSize
       /\ ahead >= total /\ here <= total => Len(page) = total - here
  BY <1>4
<1>5. /\ found \in Seq(Orders) /\ Len(found) = Len(r.found) + Len(page)
      /\ ToSet(found) = ToSet(r.found) \cup ToSet(page)
  BY <1>2, <1>4, ConcatSet
<1>7. request' = IF Scanned(found, total, r.next)
                 THEN [r EXCEPT !.pc = "load", !.found = found, !.total = total,
                                !.left = DOMAIN found, !.loaded = [i \in DOMAIN found |-> {}]]
                 ELSE [r EXCEPT !.next = r.next + 1, !.found = found, !.total = total]
  BY <1>14, <1>17 DEF ScanPage, LibraryPage
<1> HIDE DEF found
<1>8. here + ScanPageSize = ahead /\ here = Len(r.found) /\ ahead \in Nat
  BY <1>1, <1>3, <1>15, <1>18 DEF Scanning
<1>12. r.next + 1 = MaxPage => ahead = Past(MaxPage - 1, ScanPageSize)
  <2>1. r.next + 1 = MaxPage => r.next = MaxPage - 1
    BY <1>2, <1>3
  <2>. QED  BY <1>16, <2>1
<1>9. \A i \in DOMAIN orders : orders[i] \in r.known => orders[i] \in ToSet(found) \/ i > ahead
  <2>1. ASSUME NEW i \in DOMAIN orders, orders[i] \in r.known, i <= ahead
        PROVE  orders[i] \in ToSet(found)
    <3>1. orders[i] \in ToSet(r.found) \/ i > Len(r.found)
      BY <1>1, <2>1 DEF Scanning
    <3>2. i > Len(r.found) => orders[i] \in ToSet(page)
      BY <1>3, <1>4, <1>8, <2>1
    <3>. QED  BY <1>5, <3>1, <3>2
  <2>. QED  BY <1>3, <1>8, <2>1
<1>10. CASE Scanned(found, total, r.next)
  <2> DEFINE loaded == [i \in DOMAIN found |-> {}]
             n == [r EXCEPT !.pc = "load", !.found = found, !.total = total,
                            !.left = DOMAIN found, !.loaded = loaded]
  <2>1. DOMAIN found \subseteq Nat /\ loaded \in Seq(SUBSET Nat) /\ loaded \in Seq(SUBSET DOMAIN trades)
    <3>1. DOMAIN found = 1..Len(found) /\ Len(found) \in Nat
      BY <1>5
    <3>2. loaded \in [1..Len(found) -> SUBSET Nat] /\ loaded \in [1..Len(found) -> SUBSET DOMAIN trades]
      BY <3>1
    <3>. QED  BY <3>1, <3>2, SeqDef
  <2>2. DOMAIN loaded = DOMAIN found
    OBVIOUS
  <2>. HIDE DEF loaded
  <2>3. n \in RequestRecords
    BY <1>1, <1>3, <1>5, <2>1 DEF RequestRecords, Steps
  <2>4. /\ n.pc = "load" /\ n.found = found /\ n.total = total /\ n.left = DOMAIN found
        /\ n.loaded = loaded /\ n.since = r.since /\ n.known = r.known /\ n.all = r.all
    BY <1>1 DEF RequestRecords
  <2>5. request' = n
    BY <1>7, <1>10 DEF loaded
  <2>. HIDE DEF n
  <2>6. ASSUME ~(total > Past(MaxPage - 1, ScanPageSize)) PROVE r.known \subseteq ToSet(found)
    <3>1. total <= ahead
      <4>1. CASE r.next + 1 = MaxPage
        <5>1. PICK last : last = Past(MaxPage - 1, ScanPageSize)
          OBVIOUS
        <5>2. ahead = last /\ ~(total > last)
          BY <1>12, <2>6, <4>1, <5>1
        <5>. QED  BY <1>3, <1>8, <5>2
      <4>2. CASE Len(found) >= total
        BY <1>2, <1>3, <1>5, <1>8, <1>19, <4>2
      <4>. QED  BY <1>10, <4>1, <4>2 DEF Scanned
    <3>2. \A o \in r.known : \E i \in DOMAIN orders : o = orders[i]
      BY <1>1, <1>3 DEF Scanning
    <3>3. ASSUME NEW i \in DOMAIN orders, orders[i] \in r.known PROVE orders[i] \in ToSet(found)
      BY <1>3, <1>8, <1>9, <3>1, <3>3
    <3>. QED  BY <3>2, <3>3
  <2>7. Loading(n)
    BY <1>1, <2>2, <2>4, <2>6 DEF Loading, KnownTraded, Cut, Scanning
  <2>8. InListing(n)
    BY <1>1, <2>1, <2>4 DEF InListing
  <2>. QED  BY <2>3, <2>4, <2>5, <2>7, <2>8 DEF RequestOK
<1>11. CASE ~Scanned(found, total, r.next)
  <2> DEFINE n == [r EXCEPT !.next = r.next + 1, !.found = found, !.total = total]
  <2>1. n \in RequestRecords
    <3>1. r.next + 1 \in Nat
      BY <1>2
    <3>. QED  BY <1>1, <1>3, <1>5, <3>1 DEF RequestRecords
  <2>2. /\ n.pc = "scan" /\ n.found = found /\ n.total = total /\ n.next = r.next + 1
        /\ n.loaded = r.loaded /\ n.since = r.since /\ n.known = r.known /\ n.all = r.all
    BY <1>1 DEF RequestRecords
  <2>3. request' = n
    BY <1>7, <1>11
  <2>. HIDE DEF n
  <2>4. Len(found) < total
    BY <1>2, <1>3, <1>5, <1>19, <1>11 DEF Scanned
  <2>5. Len(found) = ahead
    <3>1. CASE ahead <= total
      BY <1>2, <1>3, <1>5, <1>8, <1>19, <3>1
    <3>2. CASE ahead > total
      <4>1. here <= total
        BY <1>2, <1>3, <1>5, <1>8, <1>19, <2>4
      <4>2. Len(page) = total - here
        BY <1>3, <1>8, <1>19, <3>2, <4>1
      <4>. QED  BY <1>2, <1>3, <1>5, <1>8, <2>4, <4>2
    <3>. QED  BY <1>3, <1>8, <3>1, <3>2
  <2>6. Scanning(n)
    <3>1. n.next > 0 /\ Len(n.found) = Past(n.next - 1, ScanPageSize)
      <4>1. n.next > 0 /\ n.next - 1 = r.next
        BY <1>2, <2>2
      <4>. QED  BY <1>16, <2>2, <2>5, <4>1
    <3>2. KnownTraded(n) /\ n.known \subseteq ToSet(orders)
      BY <1>1, <2>2 DEF Scanning, KnownTraded
    <3>3. \A i \in DOMAIN orders :
            orders[i] \in n.known => orders[i] \in ToSet(n.found) \/ i > Len(n.found)
      BY <1>9, <2>2, <2>5
    <3>. QED  BY <3>1, <3>2, <3>3 DEF Scanning
  <2>7. InListing(n)
    BY <1>1, <2>2 DEF InListing
  <2>. QED  BY <2>1, <2>2, <2>3, <2>6, <2>7 DEF RequestOK
<1>. QED  BY <1>10, <1>11

LEMMA StartTradesKeeps ==
  ASSUME ListingOK, StartTrades
  PROVE  RequestOK(request')
<1>1. PICK known, since : known = ToSet(orders) /\ since = Len(trades)
  OBVIOUS
<1> DEFINE n == [IdleRequest EXCEPT !.pc = "scan", !.known = known, !.since = since]
<1>2. request' = n
  BY <1>1 DEF StartTrades
<1>3. /\ known \subseteq Orders /\ since \in Nat
      /\ \A t \in 1..since : trades[t] \in known
      /\ \A T : <<>> \in Seq(T)
  BY <1>1 DEF ListingOK, ToSet
<1>4. "scan" \in Steps /\ "idle" \in Steps
  BY DEF Steps
<1>5. IdleRequest \in RequestRecords
  BY <1>3, <1>4 DEF RequestRecords, IdleRequest
<1>6. n \in RequestRecords
  BY <1>3, <1>4, <1>5 DEF RequestRecords
<1>7. n.pc = "scan" /\ n.known = known /\ n.since = since
  BY <1>5 DEF RequestRecords
<1>8. n.next = 1 /\ n.found = <<>> /\ n.loaded = <<>> /\ n.all = <<>>
  BY DEF IdleRequest
<1> HIDE DEF n
<1>9. InListing(n)
  BY <1>1, <1>3, <1>7, <1>8 DEF InListing, ListingOK
<1>10. Past(1 - 1, ScanPageSize) = 0
  <2>1. 0 * ScanPageSize = 0
    BY SizesAssumption
  <2>. QED  BY <2>1 DEF Past
<1>11. Scanning(n)
  <2>1. Len(<<>>) = 0 /\ DOMAIN orders \subseteq Nat \ {0}
    BY DEF ListingOK
  <2>2. n.next > 0 /\ Len(n.found) = Past(n.next - 1, ScanPageSize)
    BY <1>8, <1>10, <2>1
  <2>3. \A i \in DOMAIN orders : i > Len(n.found)
    BY <1>8, <2>1
  <2>. QED  BY <1>1, <1>3, <1>7, <2>2, <2>3 DEF Scanning, KnownTraded
<1>. QED  BY <1>2, <1>6, <1>7, <1>9, <1>11 DEF RequestOK

LEMMA LoadTradesKeeps ==
  ASSUME ListingOK, RequestOK(request), NEW i \in request.left, LoadTrades(i)
  PROVE  RequestOK(request')
<1> PICK r : r = request
  OBVIOUS
<1>1. r \in RequestRecords /\ InListing(r) /\ Loading(r) /\ r.pc = "load" /\ i \in r.left
  BY DEF RequestOK, LoadTrades, At
<1>2. /\ r.found \in Seq(Orders) /\ r.left \subseteq Nat /\ r.loaded \in Seq(SUBSET Nat)
      /\ r.since \in Nat
  BY <1>1 DEF RequestRecords
<1>3. /\ r.since <= Len(trades) /\ r.loaded \in Seq(SUBSET DOMAIN trades) /\ i \in DOMAIN r.loaded
      /\ Len(trades) \in Nat /\ DOMAIN trades = 1..Len(trades)
  BY <1>1 DEF InListing, Loading, ListingOK
<1>4. TradesOf(r.found[i]) \in SUBSET DOMAIN trades /\ SUBSET (DOMAIN trades) \subseteq SUBSET Nat
  BY <1>3 DEF TradesOf
<1>5. CASE request' = [r EXCEPT !.left = r.left \ {i}, !.failed = TRUE]
  <2> DEFINE n == [r EXCEPT !.left = r.left \ {i}, !.failed = TRUE]
  <2>1. n \in RequestRecords
    BY <1>1, <1>2 DEF RequestRecords
  <2>2. /\ n.pc = "load" /\ n.left = r.left \ {i} /\ n.failed = TRUE /\ n.found = r.found
        /\ n.loaded = r.loaded /\ n.all = r.all /\ n.since = r.since /\ n.known = r.known
        /\ n.total = r.total
    BY <1>1 DEF RequestRecords
  <2>. HIDE DEF n
  <2>3. InListing(n) /\ Loading(n)
    BY <1>1, <2>2 DEF InListing, Loading, KnownTraded, Cut
  <2>. QED  BY <1>5, <2>1, <2>2, <2>3 DEF RequestOK, n
<1>6. CASE request' = [r EXCEPT !.left = r.left \ {i}, !.loaded[i] = TradesOf(r.found[i])]
  <2> DEFINE loaded == [r.loaded EXCEPT ![i] = TradesOf(r.found[i])]
             n == [r EXCEPT !.left = r.left \ {i}, !.loaded = loaded]
  <2>1. /\ loaded \in Seq(SUBSET DOMAIN trades) /\ DOMAIN loaded = DOMAIN r.loaded
        /\ loaded[i] = TradesOf(r.found[i])
        /\ \A j \in DOMAIN r.loaded : j # i => loaded[j] = r.loaded[j]
    BY <1>3, <1>4
  <2>2. loaded \in Seq(SUBSET Nat)
    BY <1>4, <2>1, SeqMonotonic
  <2>. HIDE DEF loaded
  <2>3. n \in RequestRecords
    BY <1>1, <1>2, <2>2 DEF RequestRecords
  <2>4. /\ n.pc = "load" /\ n.left = r.left \ {i} /\ n.failed = r.failed /\ n.found = r.found
        /\ n.loaded = loaded /\ n.all = r.all /\ n.since = r.since /\ n.known = r.known
        /\ n.total = r.total
    BY <1>1 DEF RequestRecords
  <2>5. request' = n
    BY <1>6 DEF loaded
  <2>. HIDE DEF n
  <2>6. InListing(n)
    BY <1>1, <2>1, <2>4 DEF InListing
  <2>7. {t \in 1..r.since : trades[t] = r.found[i]} \subseteq TradesOf(r.found[i])
    BY <1>2, <1>3 DEF TradesOf
  <2>8. Loading(n)
    <3>1. ASSUME NEW j \in (DOMAIN n.found) \ n.left
          PROVE  n.failed \/ {t \in 1..n.since : trades[t] = n.found[j]} \subseteq n.loaded[j]
      <4>1. CASE j = i
        BY <2>1, <2>4, <2>7, <4>1
      <4>2. CASE j # i
        <5>1. j \in (DOMAIN r.found) \ r.left /\ j \in DOMAIN r.loaded
          BY <1>1, <2>4, <3>1, <4>2 DEF Loading
        <5>2. r.failed \/ {t \in 1..r.since : trades[t] = r.found[j]} \subseteq r.loaded[j]
          BY <1>1, <5>1 DEF Loading
        <5>. QED  BY <2>1, <2>4, <4>2, <5>1, <5>2
      <4>. QED  BY <4>1, <4>2
    <3>. QED  BY <1>1, <2>1, <2>4, <3>1 DEF Loading, KnownTraded, Cut
  <2>. QED  BY <2>3, <2>4, <2>5, <2>6, <2>8 DEF RequestOK
<1>. QED  BY <1>5, <1>6 DEF LoadTrades

LEMMA AnswerTradesKeeps ==
  ASSUME ListingOK, RequestOK(request), AnswerTrades
  PROVE  RequestOK(request')
<1>1. CASE Fails
  BY <1>1, IdleOK DEF Fails
<1>2. CASE ~request.failed /\ Answer
  <2> PICK r : r = request
    OBVIOUS
  <2>1. /\ r \in RequestRecords /\ InListing(r) /\ Loading(r) /\ r.pc = "load" /\ r.left = {}
        /\ ~r.failed
    BY <1>2 DEF RequestOK, AnswerTrades, At
  <2>2. /\ r.found \in Seq(Orders) /\ r.since \in Nat /\ r.total \in Nat
        /\ r.since <= Len(trades) /\ r.loaded \in Seq(SUBSET DOMAIN trades)
        /\ Len(trades) \in Nat /\ DOMAIN trades = 1..Len(trades)
    BY <2>1 DEF RequestRecords, InListing, ListingOK
  <2>3. PICK all : all = NewestFirst(r.loaded)
    OBVIOUS
  <2>4. /\ all \in Seq(DOMAIN trades) /\ ToSet(all) = UNION ToSet(r.loaded)
        /\ \A i, j \in DOMAIN all : i < j => all[i] >= all[j]
    <3>1. trades \in Seq(ToSet(orders)) /\ r.loaded \in Seq(SUBSET DOMAIN trades)
      BY <2>2 DEF ListingOK
    <3>. QED  BY <2>3, <3>1, NewestFirstFacts
  <2> DEFINE n == [IdleRequest EXCEPT !.pc = "trades", !.all = all,
                                      !.total = r.total, !.since = r.since]
  <2>5. request' = n
    BY <1>2, <2>3 DEF Answer
  <2>6. all \in Seq(Nat)
    <3>1. DOMAIN trades \subseteq Nat
      BY <2>2
    <3>. QED  BY <2>4, <3>1, SeqMonotonic
  <2>7. "trades" \in Steps /\ "idle" \in Steps /\ \A T : <<>> \in Seq(T)
    BY DEF Steps
  <2>8. IdleRequest \in RequestRecords
    BY <2>7 DEF RequestRecords, IdleRequest
  <2>9. n \in RequestRecords
    BY <2>2, <2>6, <2>7, <2>8 DEF RequestRecords
  <2>10. n.pc = "trades" /\ n.all = all /\ n.total = r.total /\ n.since = r.since
    BY <2>8 DEF RequestRecords
  <2>11. n.loaded = <<>>
    BY DEF IdleRequest
  <2>. HIDE DEF n
  <2>12. InListing(n)
    BY <2>2, <2>4, <2>7, <2>10, <2>11 DEF InListing
  <2>13. ASSUME ~Cut(r), NEW t \in 1..r.since
         PROVE  t \in ToSet(all)
    <3>1. trades[t] \in r.known /\ r.known \subseteq ToSet(r.found)
      BY <2>1, <2>13 DEF Loading, KnownTraded
    <3>2. PICK i \in DOMAIN r.found : r.found[i] = trades[t]
      BY <3>1 DEF ToSet
    <3>3. {v \in 1..r.since : trades[v] = r.found[i]} \subseteq r.loaded[i] /\ i \in DOMAIN r.loaded
      BY <2>1, <3>2 DEF Loading
    <3>4. t \in r.loaded[i]
      BY <3>2, <3>3
    <3>5. r.loaded[i] \in ToSet(r.loaded)
      BY <3>3 DEF ToSet
    <3>. QED  BY <2>4, <3>4, <3>5
  <2>14. Answering(n)
    BY <2>4, <2>10, <2>13 DEF Answering, Cut
  <2>. QED  BY <2>5, <2>9, <2>10, <2>12, <2>14 DEF RequestOK
<1>. QED  BY <1>1, <1>2 DEF AnswerTrades

LEMMA ReadListKeeps ==
  ASSUME ListingOK, RequestOK(request), NEW page \in Pages, NEW size \in Sizes,
         ReadList(page, size)
  PROVE  RequestOK(request')
<1> PICK r : r = request
  OBVIOUS
<1>1. r \in RequestRecords /\ InListing(r) /\ r.pc = "list" /\ Without(r) = {} /\ page > 0
  BY DEF RequestOK, ReadList, At
<1>2. PICK s \in Nat : s = EffectiveSize(size)
  BY SizesAssumption DEF EffectiveSize
<1>3. PICK o : o = Past(page - 1, s)
  OBVIOUS
<1>4. PICK found : found = Slice(orders, page, s)
  OBVIOUS
<1>5. /\ found \in Seq(Orders) /\ DOMAIN found \subseteq Nat /\ IsFiniteSet(DOMAIN found)
      /\ \A i \in DOMAIN found : o + i \in DOMAIN orders /\ found[i] = orders[o + i]
  <2>1. page \in Nat \ {0} /\ orders \in Seq(Orders)
    BY <1>1, SizesAssumption DEF ListingOK
  <2>2. PICK p \in Nat \ {0} : p = page
    BY <2>1
  <2>3. Slice(orders, p, s) \in Seq(Orders)
    BY <2>1, SliceFacts
  <2>4. \A i \in DOMAIN Slice(orders, p, s) :
          Past(p - 1, s) + i \in DOMAIN orders /\ Slice(orders, p, s)[i] = orders[Past(p - 1, s) + i]
    BY <2>1, SliceFacts
  <2>5. found \in Seq(Orders)
        /\ \A i \in DOMAIN found : o + i \in DOMAIN orders /\ found[i] = orders[o + i]
    BY <1>3, <1>4, <2>2, <2>3, <2>4
  <2>6. DOMAIN found = 1..Len(found) /\ Len(found) \in Nat
    BY <2>5
  <2>7. IsFiniteSet(1..Len(found))
    BY <2>6, FS_Interval
  <2>. QED  BY <2>5, <2>6, <2>7
<1>6. IsInjective(found)
  <2>1. o \in Nat
    BY <1>1, <1>2, <1>3, SizesAssumption, PastNext
  <2>2. ASSUME NEW i \in DOMAIN found, NEW j \in DOMAIN found, found[i] = found[j]
        PROVE  i = j
    <3>1. o + i = o + j
      BY <1>5, <2>2 DEF ListingOK, IsInjective
    <3>. QED  BY <1>5, <2>1, <3>1
  <2>. QED  BY <2>2 DEF IsInjective
<1> DEFINE S == {i \in DOMAIN found : found[i] \in Funded}
<1>7. S \subseteq Nat /\ IsFiniteSet(S)
  BY <1>5, FS_Subset
<1>8. PICK quotable : quotable = Increasing(S)
  OBVIOUS
<1>9. /\ quotable \in Seq(S) /\ ToSet(quotable) = S
      /\ \A i, j \in DOMAIN quotable : quotable[i] = quotable[j] => i = j
  <2>. HIDE DEF S
  <2>. QED  BY <1>7, <1>8, IncreasingFacts
<1>10. PICK quotes : quotes = [q \in DOMAIN quotable |-> Pending]
  OBVIOUS
<1>11. /\ DOMAIN quotes = DOMAIN quotable /\ DOMAIN quotable \subseteq Nat
       /\ quotes \in Seq(Orders \cup {NoRatio, Pending}) /\ quotable \in Seq(Nat)
  <2>1. DOMAIN quotable = 1..Len(quotable) /\ Len(quotable) \in Nat
    BY <1>9
  <2>2. quotes \in [1..Len(quotable) -> Orders \cup {NoRatio, Pending}]
    BY <1>10, <2>1
  <2>3. quotable \in Seq(Nat)
    BY <1>7, <1>9, SeqMonotonic
  <2>. QED  BY <1>10, <2>1, <2>2, <2>3, SeqDef
<1> DEFINE n == [r EXCEPT !.pc = "quote", !.found = found, !.quotable = quotable,
                          !.left = DOMAIN quotable, !.quotes = quotes]
<1>12. request' = n
  BY <1>2, <1>4, <1>8, <1>10 DEF ReadList, LibraryPage
<1>13. n \in RequestRecords
  BY <1>1, <1>5, <1>11 DEF RequestRecords, Steps
<1>14. /\ n.pc = "quote" /\ n.found = found /\ n.quotable = quotable /\ n.left = DOMAIN quotable
       /\ n.quotes = quotes /\ Without(n) = {} /\ n.since = r.since /\ n.loaded = r.loaded
       /\ n.all = r.all
  BY <1>1 DEF RequestRecords, Without
<1> HIDE DEF n
<1>15. InListing(n)
  BY <1>1, <1>14 DEF InListing
<1>16. Quoting(n)
  BY <1>6, <1>9, <1>11, <1>14 DEF Quoting, IsInjective
<1>. QED  BY <1>12, <1>13, <1>14, <1>15, <1>16 DEF RequestOK

\* Some of the quotes come.
LEMMA QuotesKeep ==
  ASSUME NEW r \in RequestRecords, InListing(r), Quoting(r), NEW done \in SUBSET r.left,
         NEW priced \in SUBSET done, NEW pc \in {"quote", "fallback"},
         NEW quotes, DOMAIN quotes = DOMAIN r.quotable,
         \A q \in (DOMAIN r.quotable) \ done : quotes[q] = r.quotes[q],
         \A q \in done :
            quotes[q] = IF q \in priced THEN r.found[r.quotable[q]] ELSE NoRatio,
         NEW n \in RequestRecords, n.pc = pc, n.left = r.left \ done, n.quotes = quotes,
         n.found = r.found, n.quotable = r.quotable, n.since = r.since, n.loaded = r.loaded,
         n.all = r.all,
         Without(n) = Without(r) \cup {r.found[r.quotable[q]] : q \in done \ priced}
  PROVE  RequestOK(n)
<1> DEFINE Of(q) == r.found[r.quotable[q]]
<1>1. /\ IsInjective(r.found) /\ IsInjective(r.quotable)
      /\ ToSet(r.quotable) = {i \in DOMAIN r.found : r.found[i] \in Funded}
      /\ DOMAIN r.quotes = DOMAIN r.quotable /\ r.left \subseteq DOMAIN r.quotable
      /\ \A q \in DOMAIN r.quotable :
           IF q \in r.left THEN Of(q) \notin Without(r)
           ELSE r.quotes[q] = IF Of(q) \in Without(r) THEN NoRatio ELSE Of(q)
  BY DEF Quoting
<1>2. ASSUME NEW p \in DOMAIN r.quotable, NEW q \in DOMAIN r.quotable, Of(p) = Of(q)
      PROVE  p = q
  <2>1. r.quotable[p] \in DOMAIN r.found /\ r.quotable[q] \in DOMAIN r.found
    BY <1>1 DEF ToSet
  <2>2. r.quotable[p] = r.quotable[q]
    BY <1>1, <1>2, <2>1 DEF IsInjective
  <2>. QED  BY <1>1, <2>2 DEF IsInjective
<1>3. ASSUME NEW q \in DOMAIN r.quotable
      PROVE  IF q \in n.left THEN Of(q) \notin Without(n)
             ELSE n.quotes[q] = IF Of(q) \in Without(n) THEN NoRatio ELSE Of(q)
  <2>1. Of(q) \in {Of(p) : p \in done \ priced} <=> q \in done \ priced
    <3>1. done \ priced \subseteq DOMAIN r.quotable
      BY <1>1
    <3>. QED  BY <1>2, <3>1
  <2>2. CASE q \in done
    <3>1. q \in r.left /\ q \notin n.left
      BY <2>2
    <3>2. Of(q) \notin Without(r)
      BY <1>1, <3>1
    <3>3. Of(q) \in Without(n) <=> q \notin priced
      BY <2>1, <2>2, <3>2
    <3>4. n.quotes[q] = IF q \in priced THEN Of(q) ELSE NoRatio
      BY <2>2
    <3>. QED  BY <3>1, <3>3, <3>4
  <2>3. CASE q \notin done
    <3>1. (q \in n.left <=> q \in r.left) /\ n.quotes[q] = r.quotes[q]
      BY <2>3
    <3>2. Of(q) \in Without(n) <=> Of(q) \in Without(r)
      BY <2>1, <2>3
    <3>. QED  BY <1>1, <3>1, <3>2
  <2>. QED  BY <2>2, <2>3
<1>4. Quoting(n)
  BY <1>1, <1>3 DEF Quoting
<1>5. InListing(n)
  BY DEF InListing
<1>. QED  BY <1>4, <1>5 DEF RequestOK

\* What a request that is quoting has to do with.
LEMMA QuotingFacts ==
  ASSUME RequestOK(request), request.pc \in {"quote", "fallback"}
  PROVE  /\ request \in RequestRecords /\ InListing(request) /\ Quoting(request)
         /\ request.left \subseteq Nat /\ IsFiniteSet(request.left)
         /\ Group \subseteq request.left
         /\ request.left \subseteq DOMAIN request.quotable
         /\ DOMAIN request.quotes = DOMAIN request.quotable
         /\ \A q \in DOMAIN request.quotable : Quoted(q) \in Orders
<1>1. request \in RequestRecords /\ InListing(request) /\ Quoting(request)
  BY DEF RequestOK
<1>2. request.found \in Seq(Orders) /\ request.quotable \in Seq(Nat)
  BY <1>1 DEF RequestRecords
<1>3. request.left \subseteq DOMAIN request.quotable
      /\ DOMAIN request.quotes = DOMAIN request.quotable
  BY <1>1 DEF Quoting
<1>4. DOMAIN request.quotable = 1..Len(request.quotable) /\ Len(request.quotable) \in Nat
  BY <1>2
<1>5. IsFiniteSet(1..Len(request.quotable))
  BY <1>4, FS_Interval
<1>6. IsFiniteSet(request.left) /\ request.left \subseteq Nat
  BY <1>3, <1>4, <1>5, FS_Subset
<1>7. Group \subseteq request.left
  BY DEF Group
<1>8. \A q \in DOMAIN request.quotable : request.quotable[q] \in DOMAIN request.found
  BY <1>1 DEF Quoting, ToSet
<1>9. \A q \in DOMAIN request.quotable : Quoted(q) \in Orders
  BY <1>2, <1>8 DEF Quoted
<1>. QED  BY <1>1, <1>3, <1>6, <1>7, <1>9

LEMMA QuoteBatchKeeps ==
  ASSUME ListingOK, RequestOK(request), QuoteBatch
  PROVE  RequestOK(request')
<1>1. request.pc = "quote"
  BY DEF QuoteBatch, At
<1>2. /\ request \in RequestRecords /\ InListing(request) /\ Quoting(request)
      /\ request.left \subseteq Nat /\ IsFiniteSet(request.left)
      /\ Group \subseteq request.left
      /\ request.left \subseteq DOMAIN request.quotable
      /\ DOMAIN request.quotes = DOMAIN request.quotable
      /\ \A q \in DOMAIN request.quotable : Quoted(q) \in Orders
  BY <1>1, QuotingFacts
<1> DEFINE done == Group
           group == Increasing(done)
<1>3. done = Group
  OBVIOUS
<1>4. done \subseteq request.left /\ done \subseteq Nat /\ IsFiniteSet(done)
  BY <1>2, <1>3, FS_Subset
<1>6. group \in Seq(done) /\ ToSet(group) = done
  <2>. HIDE DEF done
  <2>. QED  BY <1>4, IncreasingFacts
<1> DEFINE BatchOf(priced) == [nth \in DOMAIN group |->
                IF group[nth] \in priced THEN Quoted(group[nth]) ELSE NoRatio]
           Placed(priced) == [q \in {Place(group[nth], nth) : nth \in DOMAIN group} |->
                BatchOf(priced)[CHOOSE nth \in DOMAIN group : Place(group[nth], nth) = q]]
           Quotes(priced) == [q \in DOMAIN request.quotes |->
                IF q \in DOMAIN Placed(priced) THEN Placed(priced)[q] ELSE request.quotes[q]]
<1>7. PICK priced \in SUBSET done :
        request' = [request EXCEPT !.left = request.left \ done, !.quotes = Quotes(priced),
                      !.refused = request.refused \cup {Quoted(q) : q \in done \ priced}]
  <2>1. \E priced \in SUBSET Group :
            LET g == Increasing(Group)
                quote == [nth \in DOMAIN g |-> IF g[nth] \in priced THEN Quoted(g[nth]) ELSE NoRatio]
                placed == [q \in {Place(g[nth], nth) : nth \in DOMAIN g} |->
                            quote[CHOOSE nth \in DOMAIN g : Place(g[nth], nth) = q]]
            IN  request' = [request EXCEPT !.left = @ \ Group,
                    !.quotes = [q \in DOMAIN @ |-> IF q \in DOMAIN placed THEN placed[q] ELSE @[q]],
                    !.refused = @ \cup {Quoted(q) : q \in Group \ priced}]
    BY DEF QuoteBatch
  <2>. QED  BY <2>1
<1> HIDE DEF done, group
<1>8. PICK quotes : quotes = Quotes(priced)
  OBVIOUS
<1>9. DOMAIN Placed(priced) = done
  BY <1>6 DEF Place, ToSet
<1>10. ASSUME NEW q \in done
       PROVE  Placed(priced)[q] = IF q \in priced THEN Quoted(q) ELSE NoRatio
  <2>1. \E nth \in DOMAIN group : group[nth] = q
    BY <1>6 DEF ToSet
  <2>2. PICK nth : nth = CHOOSE k \in DOMAIN group : group[k] = q
    OBVIOUS
  <2>3. nth \in DOMAIN group /\ group[nth] = q
    BY <2>1, <2>2
  <2>4. Placed(priced)[q] = BatchOf(priced)[nth]
    BY <1>9, <2>2 DEF Place
  <2>5. BatchOf(priced)[nth] = IF group[nth] \in priced THEN Quoted(group[nth]) ELSE NoRatio
    BY <2>3
  <2>. QED  BY <2>3, <2>4, <2>5
<1>11. /\ DOMAIN quotes = DOMAIN request.quotable
       /\ \A q \in (DOMAIN request.quotable) \ done : quotes[q] = request.quotes[q]
       /\ \A q \in done : quotes[q] = IF q \in priced THEN Quoted(q) ELSE NoRatio
  <2>. HIDE DEF Placed
  <2>. QED  BY <1>2, <1>4, <1>8, <1>9, <1>10
<1> HIDE DEF Quotes, Placed, Quote
<1>12. PICK refused : refused = request.refused \cup {Quoted(q) : q \in done \ priced}
  OBVIOUS
<1>13. refused \subseteq Orders /\ quotes \in Seq(Orders \cup {NoRatio, Pending})
  <2>1. \A q \in done : Quoted(q) \in Orders
    BY <1>2, <1>4
  <2>2. /\ request.quotes \in Seq(Orders \cup {NoRatio, Pending})
        /\ request.refused \subseteq Orders
    BY <1>2 DEF RequestRecords
  <2>3. /\ DOMAIN request.quotes = 1..Len(request.quotes) /\ Len(request.quotes) \in Nat
        /\ \A q \in DOMAIN request.quotes : request.quotes[q] \in Orders \cup {NoRatio, Pending}
    BY <2>2
  <2>4. \A q \in DOMAIN request.quotes : quotes[q] \in Orders \cup {NoRatio, Pending}
    BY <1>2, <1>11, <2>1, <2>3
  <2>5. quotes = [q \in DOMAIN request.quotes |-> quotes[q]]
    BY <1>8 DEF Quotes
  <2>6. quotes \in [1..Len(request.quotes) -> Orders \cup {NoRatio, Pending}]
    BY <2>3, <2>4, <2>5
  <2>7. quotes \in Seq(Orders \cup {NoRatio, Pending})
    BY <2>3, <2>6, SeqDef
  <2>. QED  BY <1>12, <2>1, <2>2, <2>7
<1>14. PICK n : n = [request EXCEPT !.left = request.left \ done, !.quotes = quotes,
                                    !.refused = refused]
  OBVIOUS
<1>15. request' = n
  BY <1>7, <1>8, <1>12, <1>14
<1>16. n \in RequestRecords
  BY <1>2, <1>13, <1>14 DEF RequestRecords
<1>17. /\ n.pc = "quote" /\ n.left = request.left \ done /\ n.quotes = quotes
       /\ n.found = request.found /\ n.quotable = request.quotable /\ n.since = request.since
       /\ n.loaded = request.loaded /\ n.all = request.all
       /\ Without(n) = refused \cup request.unanswered
  BY <1>1, <1>2, <1>14 DEF RequestRecords, Without
<1>18. RequestOK(n)
  <2>1. PICK r \in RequestRecords : r = request
    BY <1>2
  <2>2. InListing(r) /\ Quoting(r) /\ done \in SUBSET r.left
    BY <1>2, <1>4, <2>1
  <2>3. /\ DOMAIN quotes = DOMAIN r.quotable
        /\ \A q \in (DOMAIN r.quotable) \ done : quotes[q] = r.quotes[q]
        /\ \A q \in done : quotes[q] = IF q \in priced THEN r.found[r.quotable[q]] ELSE NoRatio
    BY <1>11, <2>1 DEF Quoted
  <2>4. /\ n.pc = "quote" /\ n.left = r.left \ done /\ n.quotes = quotes
        /\ n.found = r.found /\ n.quotable = r.quotable /\ n.since = r.since
        /\ n.loaded = r.loaded /\ n.all = r.all
        /\ Without(n) = Without(r) \cup {r.found[r.quotable[q]] : q \in done \ priced}
    BY <1>12, <1>17, <2>1 DEF Quoted, Without
  <2>5. PICK pc \in {"quote", "fallback"} : n.pc = pc
    BY <2>4
  <2>6. n \in RequestRecords /\ done \in SUBSET r.left /\ priced \in SUBSET done
    BY <1>16, <2>2
  <2>. QED  BY <2>2, <2>3, <2>4, <2>5, <2>6, QuotesKeep, ZenonT(30)
<1>. QED  BY <1>15, <1>18

LEMMA QuoteOneKeeps ==
  ASSUME ListingOK, RequestOK(request), NEW q \in request.left, QuoteOne(q)
  PROVE  RequestOK(request')
<1>1. request.pc = "fallback" /\ q \in Group
  BY DEF QuoteOne, At
<1>2. /\ request \in RequestRecords /\ InListing(request) /\ Quoting(request)
      /\ request.left \subseteq Nat
      /\ request.left \subseteq DOMAIN request.quotable
      /\ DOMAIN request.quotes = DOMAIN request.quotable
      /\ \A p \in DOMAIN request.quotable : Quoted(p) \in Orders
  BY <1>1, QuotingFacts
<1>3. PICK order : order = Quoted(q)
  OBVIOUS
<1>4. order \in Orders /\ order # NoRatio
  BY <1>2, <1>3, OrdersAssumption
<1>5. PICK pc : pc = IF Group = {q} THEN "quote" ELSE request.pc
  OBVIOUS
<1>6. PICK outcome :
        outcome \in {"price", "no price", "error"} /\
        request' = [request EXCEPT !.left = request.left \ {q},
                      !.quotes[q] = IF outcome = "price" THEN order ELSE NoRatio,
                      !.refused = IF outcome = "no price" THEN request.refused \cup {order}
                                  ELSE request.refused,
                      !.unanswered = IF outcome = "error" THEN request.unanswered \cup {order}
                                     ELSE request.unanswered,
                      !.pc = pc]
  BY <1>3, <1>5 DEF QuoteOne
<1>18. PICK ratio : ratio = IF outcome = "price" THEN order ELSE NoRatio
  OBVIOUS
<1>7. pc \in {"quote", "fallback"} /\ pc \in Steps
  BY <1>1, <1>5 DEF Steps
<1>8. PICK quotes : quotes = [request.quotes EXCEPT ![q] = ratio]
  OBVIOUS
<1>9. PICK priced : priced = IF outcome = "price" THEN {q} ELSE {}
  OBVIOUS
<1>10. PICK refused, unanswered :
        /\ refused = IF outcome = "no price" THEN request.refused \cup {order}
                     ELSE request.refused
        /\ unanswered = IF outcome = "error" THEN request.unanswered \cup {order}
                        ELSE request.unanswered
  OBVIOUS
<1>11. PICK n : n = [request EXCEPT !.left = request.left \ {q}, !.quotes = quotes,
                                    !.refused = refused, !.unanswered = unanswered, !.pc = pc]
  OBVIOUS
<1>12. request' = n
  BY <1>6, <1>8, <1>10, <1>11, <1>18
<1>13. /\ request.quotes \in Seq(Orders \cup {NoRatio, Pending})
       /\ request.refused \subseteq Orders /\ request.unanswered \subseteq Orders
       /\ q \in DOMAIN request.quotes
  BY <1>2 DEF RequestRecords
<1>14. /\ quotes \in Seq(Orders \cup {NoRatio, Pending})
       /\ refused \subseteq Orders /\ unanswered \subseteq Orders
       /\ DOMAIN quotes = DOMAIN request.quotable /\ quotes[q] = ratio
       /\ \A p \in (DOMAIN request.quotable) \ {q} : quotes[p] = request.quotes[p]
  <2>1. ratio \in Orders \cup {NoRatio, Pending}
    BY <1>4, <1>18
  <2>2. refused \subseteq Orders /\ unanswered \subseteq Orders
    BY <1>3, <1>4, <1>10, <1>13
  <2>. QED  BY <1>2, <1>8, <1>13, <2>1, <2>2
<1>15. n \in RequestRecords
  BY <1>2, <1>7, <1>11, <1>14 DEF RequestRecords
<1>16. /\ n.pc = pc /\ n.left = request.left \ {q} /\ n.quotes = quotes
       /\ n.found = request.found /\ n.quotable = request.quotable /\ n.since = request.since
       /\ n.loaded = request.loaded /\ n.all = request.all
       /\ Without(n) = refused \cup unanswered
  BY <1>2, <1>11 DEF RequestRecords, Without
<1>17. RequestOK(n)
  <2>1. PICK r \in RequestRecords : r = request
    BY <1>2
  <2>2. PICK done : done = {q}
    OBVIOUS
  <2>3. InListing(r) /\ Quoting(r) /\ done \in SUBSET r.left /\ priced \in SUBSET done
    BY <1>2, <1>9, <2>1, <2>2
  <2>4. /\ DOMAIN quotes = DOMAIN r.quotable
        /\ \A p \in (DOMAIN r.quotable) \ done : quotes[p] = r.quotes[p]
        /\ \A p \in done : quotes[p] = IF p \in priced THEN r.found[r.quotable[p]] ELSE NoRatio
    <3>1. ratio = IF q \in priced THEN order ELSE NoRatio
      BY <1>9, <1>18
    <3>2. order = r.found[r.quotable[q]]
      BY <1>3, <2>1 DEF Quoted
    <3>. QED  BY <1>14, <2>1, <2>2, <3>1, <3>2
  <2>5. /\ n.pc = pc /\ n.left = r.left \ done /\ n.quotes = quotes
        /\ n.found = r.found /\ n.quotable = r.quotable /\ n.since = r.since
        /\ n.loaded = r.loaded /\ n.all = r.all
        /\ Without(n) = Without(r) \cup {r.found[r.quotable[p]] : p \in done \ priced}
    <3>1. order = r.found[r.quotable[q]]
      BY <1>3, <2>1 DEF Quoted
    <3>2. {r.found[r.quotable[p]] : p \in done \ priced} = IF outcome = "price" THEN {} ELSE {order}
      BY <1>9, <2>2, <3>1
    <3>3. refused \cup unanswered
            = request.refused \cup request.unanswered
                \cup (IF outcome = "price" THEN {} ELSE {order})
      BY <1>6, <1>10
    <3>. QED  BY <1>16, <2>1, <2>2, <3>2, <3>3 DEF Without
  <2>6. n \in RequestRecords /\ pc \in {"quote", "fallback"}
    BY <1>7, <1>15
  <2>. QED  BY <2>3, <2>4, <2>5, <2>6, QuotesKeep, ZenonT(30)
<1>. QED  BY <1>12, <1>17

\* The other steps only move the program counter, or end the request.
LEMMA QuoteBatchFailsKeeps ==
  ASSUME RequestOK(request), QuoteBatchFails
  PROVE  RequestOK(request')
<1> PICK r : r = request
  OBVIOUS
<1>1. r \in RequestRecords /\ InListing(r) /\ Quoting(r)
  BY DEF RequestOK, QuoteBatchFails, At
<1>2. PICK n : n = [r EXCEPT !.pc = "fallback"]
  OBVIOUS
<1>3. n \in RequestRecords
  BY <1>1, <1>2 DEF RequestRecords, Steps
<1>4. /\ n.pc = "fallback" /\ n.left = r.left /\ n.quotes = r.quotes
      /\ n.found = r.found /\ n.quotable = r.quotable /\ n.since = r.since
      /\ n.loaded = r.loaded /\ n.all = r.all /\ Without(n) = Without(r)
  BY <1>1, <1>2 DEF RequestRecords, Without
<1>5. InListing(n) /\ Quoting(n)
  BY <1>1, <1>4 DEF InListing, Quoting
<1>6. request' = n
  BY <1>2 DEF QuoteBatchFails
<1>. QED  BY <1>3, <1>4, <1>5, <1>6 DEF RequestOK

LEMMA AnswerListKeeps ==
  ASSUME ListingOK, RequestOK(request), AnswerList
  PROVE  RequestOK(request')
<1>1. CASE Fails
  BY <1>1, IdleOK DEF Fails
<1>2. CASE request' = [request EXCEPT !.pc = "orders"]
  <2> PICK r : r = request
    OBVIOUS
  <2>1. r \in RequestRecords /\ InListing(r) /\ Quoting(r) /\ r.left = {}
    BY DEF RequestOK, AnswerList, At
  <2>2. PICK n : n = [r EXCEPT !.pc = "orders"]
    OBVIOUS
  <2>3. n \in RequestRecords
    BY <2>1, <2>2 DEF RequestRecords, Steps
  <2>4. /\ n.pc = "orders" /\ n.left = r.left /\ n.quotes = r.quotes
        /\ n.found = r.found /\ n.quotable = r.quotable /\ n.since = r.since
        /\ n.loaded = r.loaded /\ n.all = r.all /\ Without(n) = Without(r)
    BY <2>1, <2>2 DEF RequestRecords, Without
  <2>5. InListing(n) /\ Quoting(n)
    BY <2>1, <2>4 DEF InListing, Quoting
  <2>6. request' = n
    BY <1>2, <2>2
  <2>. QED  BY <2>1, <2>3, <2>4, <2>5, <2>6 DEF RequestOK
<1>. QED  BY <1>1, <1>2 DEF AnswerList

\* A request's own step: the listing stays.
LEMMA RequestStep ==
  ASSUME ListingOK, RequestOK(request), Begins \/ Serves
  PROVE  /\ RequestOK(request') /\ UNCHANGED <<orders, trades>>
         /\ Serves => request.pc # "idle"
<1>1. ASSUME StartTrades PROVE RequestOK(request') /\ UNCHANGED <<orders, trades>>
  BY <1>1, StartTradesKeeps DEF StartTrades
<1>2. ASSUME StartList PROVE RequestOK(request') /\ UNCHANGED <<orders, trades>>
  BY <1>2, IdleOK DEF StartList
<1>3. ASSUME Serves PROVE RequestOK(request') /\ UNCHANGED <<orders, trades>>
  <2>1. CASE ScanPage
    BY <2>1, ScanPageKeeps DEF ScanPage, At
  <2>2. CASE AnswerTrades
    BY <2>2, AnswerTradesKeeps DEF AnswerTrades, At
  <2>3. CASE \E i \in request.left : LoadTrades(i)
    BY <2>3, LoadTradesKeeps DEF LoadTrades, At
  <2>4. CASE \E page \in Pages, size \in Sizes : ReadList(page, size)
    BY <2>4, ReadListKeeps DEF ReadList, At
  <2>5. CASE QuoteBatch
    BY <2>5, QuoteBatchKeeps DEF QuoteBatch, At
  <2>6. CASE QuoteBatchFails
    BY <2>6, QuoteBatchFailsKeeps DEF QuoteBatchFails, At
  <2>7. CASE AnswerList
    BY <2>7, AnswerListKeeps DEF AnswerList, At
  <2>8. CASE \E q \in request.left : QuoteOne(q)
    BY <2>8, QuoteOneKeeps DEF QuoteOne, At
  <2>9. CASE QueryFails
    BY <2>9, IdleOK DEF QueryFails, Fails, At
  <2>10. CASE Respond
    <3>1. IdleRequest = [IdleRequest EXCEPT !.pc = "idle"]
      BY DEF IdleRequest
    <3>. QED  BY <2>10, <3>1, IdleOK DEF Respond
  <2>. QED  BY <1>3, <2>1, <2>2, <2>3, <2>4, <2>5, <2>6, <2>7, <2>8, <2>9, <2>10 DEF Serves
<1>4. Serves => request.pc # "idle"
  BY DEF Serves, ScanPage, AnswerTrades, LoadTrades, ReadList, QuoteBatch, QuoteBatchFails,
         AnswerList, QuoteOne, QueryFails, Respond, At
<1>. QED  BY <1>1, <1>2, <1>3, <1>4 DEF Begins

-----------------------------------------------------------------------------
\* The requests of SingleOrder.

LEMMA IdleSingleOK ==
  ASSUME ListingOK
  PROVE  IdleSingle \in SingleRecords /\ SingleOK(IdleSingle)
<1>1. IdleSingle \in SingleRecords
  BY DEF IdleSingle, SingleRecords, SingleSteps, Statuses
<1>2. /\ IdleSingle.pc = "idle" /\ IdleSingle.order = NoRatio /\ IdleSingle.since = 0
      /\ IdleSingle.trades = {} /\ IdleSingle.broke = FALSE
  BY DEF IdleSingle
<1>3. Len(trades) \in Nat /\ NoRatio \notin Orders
  BY OrdersAssumption DEF ListingOK
<1>. QED  BY <1>1, <1>2, <1>3 DEF SingleOK, Succeeded

LEMMA StartSingleKeeps ==
  ASSUME ListingOK, NEW kind \in {"detail", "cancel"}, NEW hash \in Hashes,
         StartSingle(kind, hash)
  PROVE  SingleOK(single')
<1>1. PICK known, since : known = (Matching(hash) # {}) /\ since = Len(trades)
  OBVIOUS
<1>7. known \in BOOLEAN /\ since \in Nat
  BY <1>1 DEF ListingOK
<1>8. "find" \in SingleSteps /\ IdleSingle \in SingleRecords
  BY IdleSingleOK DEF SingleSteps
<1>2. PICK n : n = [IdleSingle EXCEPT !.pc = "find", !.kind = kind, !.hash = hash,
                                      !.known = known, !.since = since]
  OBVIOUS
<1>3. single' = n
  BY <1>1, <1>2 DEF StartSingle
<1>4. n \in SingleRecords /\ n.pc = "find" /\ n.hash = hash /\ n.known = known /\ n.since = since
  BY <1>2, <1>7, <1>8 DEF SingleRecords
<1>5. n.order = NoRatio /\ n.trades = {} /\ n.broke = FALSE /\ n.holding = {}
  BY <1>2 DEF IdleSingle
<1>6. since <= Len(trades) /\ NoRatio \notin Orders
  BY <1>1, OrdersAssumption
<1>. QED  BY <1>1, <1>3, <1>4, <1>5, <1>6 DEF SingleOK, Succeeded

\* Every way to end with an error.
LEMMA ReplyFacts ==
  ASSUME single \in SingleRecords, NEW status \in Statuses
  PROVE  LET n == Reply(status)
         IN  /\ n \in SingleRecords /\ n.pc = "reply" /\ n.status = status
             /\ n.kind = single.kind /\ n.hash = single.hash /\ n.order = single.order
             /\ n.holding = single.holding /\ n.ratio = single.ratio /\ n.trades = single.trades
             /\ n.known = single.known /\ n.since = single.since /\ n.priced = single.priced
             /\ n.broke = single.broke
<1>1. PICK n : n = [single EXCEPT !.pc = "reply", !.status = status]
  OBVIOUS
<1>5. "reply" \in SingleSteps
  BY DEF SingleSteps
<1>2. n \in SingleRecords
  BY <1>1, <1>5 DEF SingleRecords
<1>3. /\ n.pc = "reply" /\ n.status = status
      /\ n.kind = single.kind /\ n.hash = single.hash /\ n.order = single.order
      /\ n.holding = single.holding /\ n.ratio = single.ratio /\ n.trades = single.trades
      /\ n.known = single.known /\ n.since = single.since /\ n.priced = single.priced
      /\ n.broke = single.broke
  BY <1>1 DEF SingleRecords
<1>4. Reply(status) = n
  BY <1>1 DEF Reply
<1>. QED  BY <1>2, <1>3, <1>4

LEMMA FindOrderKeeps ==
  ASSUME ListingOK, SingleOK(single), FindOrder
  PROVE  SingleOK(single')
<1> PICK s : s = single
  OBVIOUS
<1>1. /\ s \in SingleRecords /\ s.pc = "find" /\ s.holding = {} /\ (s.known => Matching(s.hash) # {})
      /\ s.since <= Len(trades) /\ s.trades \subseteq DOMAIN trades /\ ~s.broke
  BY DEF SingleOK, FindOrder
<1>2. CASE Matching(s.hash) = {}
  <2>1. PICK n : n = Reply(404)
    OBVIOUS
  <2>2. /\ n \in SingleRecords /\ n.pc = "reply" /\ n.status = 404
        /\ n.holding = s.holding /\ n.trades = s.trades
        /\ n.known = s.known /\ n.since = s.since /\ n.broke = s.broke
    <3>1. 404 \in Statuses
      BY DEF Statuses
    <3>. QED  BY <1>1, <2>1, <3>1, ReplyFacts
  <2>3. single' = n
    BY <1>2, <2>1 DEF FindOrder
  <2>4. ~n.known
    BY <1>1, <1>2, <2>2
  <2>5. n.status # 200 /\ n.status # 500
    BY <2>2
  <2>6. SingleOK(n)
    BY <1>1, <2>2, <2>4, <2>5 DEF SingleOK, Succeeded
  <2>. QED  BY <2>3, <2>6
<1>3. CASE Matching(s.hash) # {}
  <2>1. PICK order : order = orders[Min(Matching(s.hash))]
    OBVIOUS
  <2>2. order \in Orders /\ HashOf[order] = s.hash
    <3>1. orders \in Seq(Orders) /\ DOMAIN orders \subseteq Nat
      BY DEF ListingOK
    <3>2. Matching(s.hash) \subseteq DOMAIN orders
      BY DEF Matching
    <3>3. Min(Matching(s.hash)) \in Matching(s.hash)
      BY <1>3, <3>1, <3>2, MinFact
    <3>. QED  BY <2>1, <3>1, <3>3 DEF Matching
  <2>3. PICK kinds : kinds = DOMAIN VaultKinds[order]
    OBVIOUS
  <2>4. kinds \subseteq Nat
    <3>1. VaultKinds[order] \in Seq({"input", "output", "both"})
      BY <2>2, VaultsAssumption
    <3>. QED  BY <2>3, <3>1
  <2>5. PICK holding \in SUBSET kinds, pc \in {"quotes", "calldata"} :
          single' = [s EXCEPT !.order = order, !.pc = pc, !.holding = holding]
    <3>1. CASE s.kind = "detail"
      <4>1. single' = [[s EXCEPT !.order = order] EXCEPT !.pc = "quotes"]
        BY <1>3, <2>1, <3>1 DEF FindOrder
      <4>2. [[s EXCEPT !.order = order] EXCEPT !.pc = "quotes"]
              = [s EXCEPT !.order = order, !.pc = "quotes", !.holding = {}]
        BY <1>1 DEF SingleRecords
      <4>. QED  BY <4>1, <4>2
    <3>2. CASE s.kind # "detail"
      <4>1. PICK holding \in SUBSET DOMAIN VaultKinds[order] :
              single' = [[s EXCEPT !.order = order] EXCEPT !.pc = "calldata", !.holding = holding]
        BY <1>3, <2>1, <3>2 DEF FindOrder
      <4>. QED  BY <2>3, <4>1
    <3>. QED  BY <3>1, <3>2
  <2>6. PICK n : n = [s EXCEPT !.order = order, !.pc = pc, !.holding = holding]
    OBVIOUS
  <2>7. n \in SingleRecords
    <3>1. pc \in SingleSteps /\ holding \in SUBSET Nat
      BY <2>4, <2>5 DEF SingleSteps
    <3>. QED  BY <1>1, <2>2, <2>6, <3>1 DEF SingleRecords
  <2>8. /\ n.pc = pc /\ n.order = order /\ n.hash = s.hash /\ n.trades = s.trades
        /\ n.since = s.since /\ n.broke = s.broke /\ n.holding = holding
    BY <1>1, <2>6 DEF SingleRecords
  <2>9. pc \notin {"find", "trades", "build", "reply"}
    BY <2>5
  <2>10. SingleOK(n)
    BY <1>1, <2>2, <2>3, <2>7, <2>8, <2>9 DEF SingleOK, Succeeded, Found
  <2>. QED  BY <2>5, <2>6, <2>10
<1>. QED  BY <1>2, <1>3

LEMMA QuoteOrderKeeps ==
  ASSUME SingleOK(single), QuoteOrder
  PROVE  SingleOK(single')
<1> PICK s : s = single
  OBVIOUS
<1>1. /\ s \in SingleRecords /\ s.pc = "quotes" /\ s.kind = "detail" /\ Found(s)
      /\ s.since <= Len(trades) /\ s.trades \subseteq DOMAIN trades /\ ~s.broke
      /\ s.holding \subseteq DOMAIN VaultKinds[s.order]
  BY DEF SingleOK, QuoteOrder, SingleAt, Found
<1>2. PICK priced \in BOOLEAN :
        single' = [s EXCEPT !.pc = "trades", !.priced = priced,
                            !.ratio = IF priced THEN s.order ELSE NoRatio]
  BY DEF QuoteOrder
<1>3. PICK n : n = [s EXCEPT !.pc = "trades", !.priced = priced,
                             !.ratio = IF priced THEN s.order ELSE NoRatio]
  OBVIOUS
<1>4. n \in SingleRecords
  <2>1. "trades" \in SingleSteps /\ s.order \in Orders
    BY <1>1 DEF SingleSteps, Found
  <2>. QED  BY <1>1, <1>3, <2>1 DEF SingleRecords
<1>5. /\ n.pc = "trades" /\ n.kind = s.kind /\ n.hash = s.hash /\ n.order = s.order
      /\ n.holding = s.holding /\ n.trades = s.trades /\ n.since = s.since /\ n.broke = s.broke
      /\ n.priced = priced /\ n.ratio = IF priced THEN s.order ELSE NoRatio
  BY <1>1, <1>3 DEF SingleRecords
<1>6. SingleOK(n)
  BY <1>1, <1>4, <1>5 DEF SingleOK, Succeeded, Found, Priced
<1>. QED  BY <1>2, <1>3, <1>6

LEMMA ReadTradesKeeps ==
  ASSUME ListingOK, SingleOK(single), ReadTrades
  PROVE  SingleOK(single')
<1> PICK s : s = single
  OBVIOUS
<1>1. /\ s \in SingleRecords /\ s.pc = "trades" /\ s.kind = "detail" /\ Found(s) /\ Priced(s)
      /\ s.since <= Len(trades) /\ s.trades \subseteq DOMAIN trades /\ ~s.broke
      /\ s.holding \subseteq DOMAIN VaultKinds[s.order]
  BY DEF SingleOK, ReadTrades, SingleAt, Found
<1>2. PICK read : read = TradesOf(s.order)
  OBVIOUS
<1>3. /\ read \subseteq DOMAIN trades /\ read \subseteq Nat
      /\ \A t \in read : trades[t] = s.order
      /\ {t \in 1..s.since : trades[t] = s.order} \subseteq read
  <2>1. DOMAIN trades = 1..Len(trades) /\ Len(trades) \in Nat /\ s.since \in Nat
    BY <1>1 DEF ListingOK, SingleRecords
  <2>2. 1..s.since \subseteq DOMAIN trades
    BY <1>1, <2>1
  <2>. QED  BY <1>2, <2>1, <2>2 DEF TradesOf
<1>4. PICK n : n = [s EXCEPT !.pc = "build", !.trades = read]
  OBVIOUS
<1>5. n \in SingleRecords
  <2>1. "build" \in SingleSteps
    BY DEF SingleSteps
  <2>. QED  BY <1>1, <1>3, <1>4, <2>1 DEF SingleRecords
<1>6. /\ n.pc = "build" /\ n.kind = s.kind /\ n.hash = s.hash /\ n.order = s.order
      /\ n.holding = s.holding /\ n.trades = read /\ n.since = s.since /\ n.broke = s.broke
      /\ n.priced = s.priced /\ n.ratio = s.ratio
  BY <1>1, <1>4 DEF SingleRecords
<1>7. Found(n) /\ Priced(n) /\ Traded(n)
  BY <1>1, <1>3, <1>6 DEF Found, Priced, Traded
<1>8. SingleOK(n)
  BY <1>1, <1>3, <1>5, <1>6, <1>7 DEF SingleOK, Succeeded
<1>. QED  BY <1>2, <1>4, <1>8 DEF ReadTrades

LEMMA BuildDetailKeeps ==
  ASSUME SingleOK(single), BuildDetail
  PROVE  SingleOK(single')
<1> PICK s : s = single
  OBVIOUS
<1>1. /\ s \in SingleRecords /\ s.pc = "build" /\ s.kind = "detail" /\ Found(s) /\ Priced(s)
      /\ Traded(s)
      /\ s.since <= Len(trades) /\ s.trades \subseteq DOMAIN trades /\ ~s.broke
      /\ s.holding \subseteq DOMAIN VaultKinds[s.order]
  BY DEF SingleOK, BuildDetail, SingleAt, Found
<1>2. PICK status : status = IF Resolves(s.order) THEN 200 ELSE 500
  OBVIOUS
<1>3. status \in Statuses
  BY <1>2 DEF Statuses
<1>4. PICK n : n = Reply(status)
  OBVIOUS
<1>5. /\ n \in SingleRecords /\ n.pc = "reply" /\ n.status = status
      /\ n.kind = s.kind /\ n.hash = s.hash /\ n.order = s.order
      /\ n.holding = s.holding /\ n.ratio = s.ratio /\ n.trades = s.trades
      /\ n.since = s.since /\ n.priced = s.priced /\ n.broke = s.broke
  BY <1>1, <1>3, <1>4, ReplyFacts
<1>6. single' = n
  BY <1>2, <1>4 DEF BuildDetail
<1>7. Found(n) /\ Priced(n) /\ Traded(n)
  BY <1>1, <1>5 DEF Found, Priced, Traded
<1>8. (n.status = 500 => ~Resolves(n.order)) /\ (n.status = 200 => Resolves(n.order))
      /\ n.status # 404
  BY <1>2, <1>5
<1>9. SingleOK(n)
  BY <1>1, <1>5, <1>7, <1>8 DEF SingleOK, Succeeded
<1>. QED  BY <1>6, <1>9

LEMMA RemoveCalldataKeeps ==
  ASSUME SingleOK(single), RemoveCalldata
  PROVE  SingleOK(single')
<1> PICK s : s = single
  OBVIOUS
<1>1. /\ s \in SingleRecords /\ s.pc = "calldata" /\ s.kind = "cancel" /\ Found(s)
      /\ s.since <= Len(trades) /\ s.trades \subseteq DOMAIN trades /\ ~s.broke
      /\ s.holding \subseteq DOMAIN VaultKinds[s.order]
  BY DEF SingleOK, RemoveCalldata, SingleAt, Found
<1>2. PICK n : n = [s EXCEPT !.pc = "summary"]
  OBVIOUS
<1>3. n \in SingleRecords
  <2>1. "summary" \in SingleSteps
    BY DEF SingleSteps
  <2>. QED  BY <1>1, <1>2, <2>1 DEF SingleRecords
<1>4. /\ n.pc = "summary" /\ n.kind = s.kind /\ n.hash = s.hash /\ n.order = s.order
      /\ n.holding = s.holding /\ n.trades = s.trades /\ n.since = s.since /\ n.broke = s.broke
  BY <1>1, <1>2 DEF SingleRecords
<1>5. SingleOK(n)
  BY <1>1, <1>3, <1>4 DEF SingleOK, Succeeded, Found
<1>. QED  BY <1>2, <1>5 DEF RemoveCalldata

LEMMA SummariseKeeps ==
  ASSUME SingleOK(single), Summarise
  PROVE  SingleOK(single')
<1> PICK s : s = single
  OBVIOUS
<1>1. /\ s \in SingleRecords /\ s.pc = "summary" /\ s.kind = "cancel" /\ Found(s)
      /\ s.since <= Len(trades) /\ s.trades \subseteq DOMAIN trades /\ ~s.broke
      /\ s.holding \subseteq DOMAIN VaultKinds[s.order]
  BY DEF SingleOK, Summarise, SingleAt, Found
<1>2. PICK n : n = Reply(200)
  OBVIOUS
<1>3. 200 \in Statuses
  BY DEF Statuses
<1>4. /\ n \in SingleRecords /\ n.pc = "reply" /\ n.status = 200
      /\ n.kind = s.kind /\ n.hash = s.hash /\ n.order = s.order
      /\ n.holding = s.holding /\ n.trades = s.trades
      /\ n.since = s.since /\ n.broke = s.broke
  BY <1>1, <1>2, <1>3, ReplyFacts
<1>5. n.kind # "detail" /\ n.status # 404 /\ n.status # 500
  BY <1>1, <1>4
<1>6. SingleOK(n)
  BY <1>1, <1>4, <1>5 DEF SingleOK, Succeeded, Found
<1>. QED  BY <1>2, <1>6 DEF Summarise

LEMMA CallFailsKeeps ==
  ASSUME SingleOK(single), CallFails
  PROVE  SingleOK(single')
<1> PICK s : s = single
  OBVIOUS
<1>1. /\ s \in SingleRecords /\ s.since <= Len(trades) /\ s.trades \subseteq DOMAIN trades
      /\ s.order \in Orders => s.holding \subseteq DOMAIN VaultKinds[s.order]
  BY DEF SingleOK
<1>2. PICK failed : failed = Reply(500)
  OBVIOUS
<1>3. /\ failed \in SingleRecords /\ failed.pc = "reply" /\ failed.status = 500
      /\ failed.order = s.order /\ failed.holding = s.holding
      /\ failed.trades = s.trades /\ failed.since = s.since
  <2>1. 500 \in Statuses
    BY DEF Statuses
  <2>. QED  BY <1>1, <1>2, <2>1, ReplyFacts
<1>4. PICK n : n = [failed EXCEPT !.broke = TRUE]
  OBVIOUS
<1>5. /\ n \in SingleRecords /\ n.pc = "reply" /\ n.status = 500 /\ n.broke = TRUE
      /\ n.order = s.order /\ n.holding = s.holding
      /\ n.trades = s.trades /\ n.since = s.since
  BY <1>3, <1>4 DEF SingleRecords
<1>6. n.status # 200 /\ n.status # 404
  BY <1>5
<1>7. SingleOK(n)
  BY <1>1, <1>5, <1>6 DEF SingleOK, Succeeded
<1>. QED  BY <1>2, <1>4, <1>7 DEF CallFails

LEMMA SingleStep ==
  ASSUME ListingOK, SingleOK(single), SingleBegins \/ SingleServes
  PROVE  /\ SingleOK(single') /\ UNCHANGED vars
         /\ SingleServes => single.pc # "idle"
<1>1. ASSUME SingleBegins PROVE SingleOK(single') /\ UNCHANGED vars
  BY <1>1, StartSingleKeeps DEF SingleBegins, StartSingle
<1>2. ASSUME SingleServes PROVE SingleOK(single') /\ UNCHANGED vars
  <2>1. CASE FindOrder
    BY <2>1, FindOrderKeeps DEF FindOrder
  <2>2. CASE QuoteOrder
    BY <2>2, QuoteOrderKeeps DEF QuoteOrder
  <2>3. CASE ReadTrades
    BY <2>3, ReadTradesKeeps DEF ReadTrades
  <2>4. CASE BuildDetail
    BY <2>4, BuildDetailKeeps DEF BuildDetail
  <2>5. CASE RemoveCalldata
    BY <2>5, RemoveCalldataKeeps DEF RemoveCalldata
  <2>6. CASE Summarise
    BY <2>6, SummariseKeeps DEF Summarise
  <2>7. CASE CallFails
    BY <2>7, CallFailsKeeps DEF CallFails
  <2>8. CASE RespondSingle
    BY <2>8, IdleSingleOK DEF RespondSingle
  <2>. QED  BY <1>2, <2>1, <2>2, <2>3, <2>4, <2>5, <2>6, <2>7, <2>8 DEF SingleServes
<1>3. SingleServes => single.pc # "idle"
  BY DEF SingleServes, FindOrder, QuoteOrder, ReadTrades, BuildDetail, RemoveCalldata,
         Summarise, CallFails, RespondSingle, SingleAt
<1>. QED  BY <1>1, <1>2, <1>3

-----------------------------------------------------------------------------
\* The requests of SwapRoutes.

LEMMA IdleSwapOK ==
  IdleSwap \in SwapRecords /\ SwapOK(IdleSwap)
<1>1. <<>> \in [{} -> Nat]
  <2>1. <<>> \in Seq(Nat) /\ Len(<<>>) = 0 /\ 1..0 = {}
    OBVIOUS
  <2>. QED  BY <2>1
<1>2. <<>> \in PurchasesMade
  BY <1>1 DEF PurchasesMade
<1>3. "idle" \in SwapSteps /\ 0 \in SwapStatuses /\ "nothing" \in Said
  BY DEF SwapSteps, SwapStatuses, Said
<1>4. IdleSwap \in SwapRecords
  BY <1>2, <1>3 DEF IdleSwap, SwapRecords
<1>5. IdleSwap.pc = "idle"
  BY DEF IdleSwap
<1>. QED  BY <1>4, <1>5 DEF SwapOK

LEMMA StartSwapKeeps ==
  ASSUME ListingOK, NEW kind \in {"quote", "calldata"}, NEW sell \in Tokens, NEW buy \in Tokens,
         NEW amount \in Amounts \cup {Unparsable}, StartSwap(kind, sell, buy, amount)
  PROVE  SwapOK(swap')
<1>1. PICK known : known = {orders[i] : i \in OfPair(sell, buy)}
  OBVIOUS
<1>2. known \subseteq Orders
  <2>1. OfPair(sell, buy) \subseteq DOMAIN orders
    BY DEF OfPair
  <2>. QED  BY <1>1, <2>1 DEF ListingOK
<1>3. PICK n : n = [IdleSwap EXCEPT !.pc = "orders", !.kind = kind, !.sell = sell, !.buy = buy,
                                    !.amount = amount, !.known = known]
  OBVIOUS
<1>4. "orders" \in SwapSteps /\ IdleSwap \in SwapRecords
  BY IdleSwapOK DEF SwapSteps
<1>5. n \in SwapRecords
  BY <1>2, <1>3, <1>4 DEF SwapRecords
<1>6. n.pc = "orders" /\ n.sell = sell /\ n.buy = buy /\ n.known = known
  BY <1>3 DEF IdleSwap
<1>7. SwapOK(n)
  BY <1>1, <1>5, <1>6 DEF SwapOK
<1>. QED  BY <1>1, <1>3, <1>7 DEF StartSwap

LEMMA SameReply ==
  ASSUME NEW w, NEW n, NEW status, NEW said, MayReply(w, status, said),
         n.known = w.known, n.amount = w.amount, n.kind = w.kind
  PROVE  MayReply(n, status, said)
<1>1. n.kind = "quote" => (said = "no liquidity" => n.known = {})
  BY DEF MayReply
<1>2. n.kind = "quote" => (status = 500 <=> said = "failure")
  BY DEF MayReply
<1>3. n.kind = "quote" => (status = 400 => n.amount = Unparsable)
  BY DEF MayReply
<1>5. n.kind = "quote" => (status = 200 => n.amount # Unparsable)
  <2>1. w.kind = "quote" => (status = 200 => w.amount # Unparsable)
    BY Zenon DEF MayReply
  <2>. QED  BY <2>1
<1>4. n.kind = "calldata" /\ status = 200 => said \in {"approval", "transaction"}
  BY DEF MayReply
<1>. QED  BY <1>1, <1>2, <1>3, <1>4, <1>5, Zenon DEF MayReply

LEMMA EndsKeeps ==
  ASSUME SwapOK(swap), NEW status \in SwapStatuses, NEW said \in Said, Ends(status, said),
         MayReply(swap, status, said)
  PROVE  SwapOK(swap')
<1> PICK w : w = swap
  OBVIOUS
<1>1. PICK n : n = [w EXCEPT !.pc = "reply", !.status = status, !.said = said]
  OBVIOUS
<1>2. w \in SwapRecords /\ "reply" \in SwapSteps
  BY DEF SwapOK, SwapSteps
<1>3. n \in SwapRecords
  <2>1. PICK pc \in SwapSteps : pc = "reply"
    BY <1>2
  <2>2. [w EXCEPT !.pc = pc, !.status = status, !.said = said] \in SwapRecords
    BY <1>2 DEF SwapRecords
  <2>. QED  BY <1>1, <2>1, <2>2
<1>4. /\ n.pc = "reply" /\ n.status = status /\ n.said = said
      /\ n.known = w.known /\ n.amount = w.amount /\ n.kind = w.kind
  BY <1>1, <1>2 DEF SwapRecords
<1>5. MayReply(n, status, said)
  BY <1>4, SameReply
<1>6. SwapOK(n)
  BY <1>3, <1>4, <1>5 DEF SwapOK
<1>. QED  BY <1>1, <1>6 DEF Ends

LEMMA ReadPairKeeps ==
  ASSUME ListingOK, SwapOK(swap), ReadPair
  PROVE  SwapOK(swap')
<1> PICK w : w = swap
  OBVIOUS
<1>1. /\ w \in SwapRecords /\ w.kind = "quote" /\ w.pc = "orders"
      /\ w.known \subseteq {orders[i] : i \in OfPair(w.sell, w.buy)}
  BY DEF SwapOK, ReadPair, SwapAt
<1>2. PICK S : S = OfPair(w.sell, w.buy)
  OBVIOUS
<1>3. S \subseteq DOMAIN orders /\ S \subseteq Nat /\ IsFiniteSet(S)
  <2>1. orders \in Seq(Orders) /\ DOMAIN orders = 1..Len(orders) /\ Len(orders) \in Nat
    BY DEF ListingOK
  <2>2. S \subseteq DOMAIN orders
    BY <1>2 DEF OfPair
  <2>3. IsFiniteSet(1..Len(orders))
    BY <2>1, FS_Interval
  <2>. QED  BY <2>1, <2>2, <2>3, FS_Subset
<1>4. PICK list : list = Increasing(S)
  OBVIOUS
<1>5. list \in Seq(S) /\ ToSet(list) = S
  BY <1>3, <1>4, IncreasingFacts
<1>6. PICK page : page = Slice(list, 1, DefaultPageSize)
  OBVIOUS
<1>7. page \in Seq(S)
  <2>1. DefaultPageSize \in Nat /\ 1 \in Nat \ {0}
    BY PageAssumption
  <2>2. PICK one \in Nat \ {0} : one = 1
    BY <2>1
  <2>3. Slice(list, one, DefaultPageSize) \in Seq(S)
    BY <1>5, <2>1, SliceFacts
  <2>. QED  BY <1>6, <2>2, <2>3
<1>8. S # {} => page # <<>>
  <2>1. ASSUME S # {} PROVE page # <<>>
    <3>1. Len(list) \in Nat /\ DOMAIN list = 1..Len(list)
      BY <1>5
    <3>2. Len(list) >= 1
      <4>1. PICK i \in DOMAIN list : TRUE
        BY <1>5, <2>1 DEF ToSet
      <4>. QED  BY <3>1, <4>1
    <3>3. Past(1 - 1, DefaultPageSize) = 0 /\ Past(1, DefaultPageSize) = DefaultPageSize
          /\ DefaultPageSize \in Nat \ {0}
      <4>1. 0 * DefaultPageSize = 0 /\ 1 * DefaultPageSize = DefaultPageSize
        BY PageAssumption
      <4>. QED  BY <4>1, PageAssumption DEF Past
    <3>4. PICK one \in Nat \ {0} : one = 1
      OBVIOUS
    <3>5. \A i \in 1..Len(list) :
            Past(one - 1, DefaultPageSize) < i /\ i <= Past(one, DefaultPageSize) =>
              list[i] \in ToSet(Slice(list, one, DefaultPageSize))
      BY <1>5, <3>3, SliceFacts
    <3>6. list[1] \in ToSet(page)
      <4>1. one - 1 = 1 - 1
        BY <3>4
      <4>2. Past(one - 1, DefaultPageSize) = 0 /\ Past(one, DefaultPageSize) = DefaultPageSize
        BY <3>3, <3>4, <4>1
      <4>3. 1 \in 1..Len(list) /\ 0 < 1 /\ 1 <= DefaultPageSize
        BY <3>1, <3>2, <3>3
      <4>4. list[1] \in ToSet(Slice(list, one, DefaultPageSize))
        BY <3>5, <4>2, <4>3
      <4>. QED  BY <1>6, <3>4, <4>4
    <3>7. ToSet(<<>>) = {}
      BY DEF ToSet
    <3>. QED  BY <3>6, <3>7
  <2>. QED  BY <2>1
<1>9. CASE page = <<>>
  <2>1. Ends(404, "no liquidity")
    BY <1>2, <1>4, <1>6, <1>9 DEF ReadPair
  <2>2. w.known = {}
    BY <1>1, <1>2, <1>8, <1>9
  <2>3. 404 \in SwapStatuses /\ "no liquidity" \in Said
    BY DEF SwapStatuses, Said
  <2>4. MayReply(swap, 404, "no liquidity")
    BY <1>1, <2>2 DEF MayReply
  <2>. QED  BY <2>1, <2>3, <2>4, EndsKeeps
<1>10. CASE page # <<>>
  <2>1. PICK found : found = {orders[i] : i \in ToSet(page)}
    OBVIOUS
  <2>2. found \subseteq Orders
    <3>1. ToSet(page) \subseteq DOMAIN orders
      BY <1>3, <1>7 DEF ToSet
    <3>. QED  BY <2>1, <3>1 DEF ListingOK
  <2>3. PICK n : n = [w EXCEPT !.pc = "candidates", !.page = found]
    OBVIOUS
  <2>4. "candidates" \in SwapSteps
    BY DEF SwapSteps
  <2>5. n \in SwapRecords /\ n.pc = "candidates"
    BY <1>1, <2>2, <2>3, <2>4 DEF SwapRecords
  <2>6. SwapOK(n)
    BY <2>5 DEF SwapOK
  <2>7. swap' = n
    BY <1>2, <1>4, <1>6, <1>10, <2>1, <2>3 DEF ReadPair
  <2>. QED  BY <2>6, <2>7
<1>. QED  BY <1>9, <1>10

LEMMA BuildCandidatesKeeps ==
  ASSUME SwapOK(swap), BuildCandidates
  PROVE  SwapOK(swap')
<1> PICK w : w = swap
  OBVIOUS
<1>1. w \in SwapRecords /\ w.kind = "quote" /\ w.pc = "candidates"
  BY DEF SwapOK, BuildCandidates, SwapAt
<1>2. PICK candidates \in SUBSET swap.page :
        IF candidates = {} THEN Ends(404, "no candidates")
        ELSE IF swap.amount = Unparsable THEN Ends(400, "bad amount")
        ELSE swap' = [swap EXCEPT !.pc = "simulate", !.page = candidates]
  BY DEF BuildCandidates
<1>3. /\ 404 \in SwapStatuses /\ 400 \in SwapStatuses
      /\ "no candidates" \in Said /\ "bad amount" \in Said /\ "simulate" \in SwapSteps
  BY DEF SwapStatuses, Said, SwapSteps
<1>4. /\ MayReply(swap, 404, "no candidates")
      /\ swap.amount = Unparsable => MayReply(swap, 400, "bad amount")
  BY <1>1 DEF MayReply
<1>5. CASE \/ Ends(404, "no candidates")
           \/ swap.amount = Unparsable /\ Ends(400, "bad amount")
  BY <1>3, <1>4, <1>5, EndsKeeps
<1>6. CASE /\ w.amount # Unparsable
           /\ swap' = [w EXCEPT !.pc = "simulate", !.page = candidates]
  <2>1. candidates \in SUBSET Orders
    BY <1>1 DEF SwapRecords
  <2>2. PICK n : n = [w EXCEPT !.pc = "simulate", !.page = candidates]
    OBVIOUS
  <2>3. n \in SwapRecords
    <3>1. PICK pc \in SwapSteps : pc = "simulate"
      BY <1>3
    <3>2. [w EXCEPT !.pc = pc, !.page = candidates] \in SwapRecords
      BY <1>1, <2>1 DEF SwapRecords
    <3>. QED  BY <2>2, <3>1, <3>2
  <2>5. n.pc = "simulate" /\ n.amount = w.amount
    BY <1>1, <2>2 DEF SwapRecords
  <2>4. SwapOK(n)
    BY <1>6, <2>3, <2>5 DEF SwapOK
  <2>. QED  BY <1>6, <2>2, <2>4
<1>. QED  BY <1>2, <1>5, <1>6

LEMMA SimulateKeeps ==
  ASSUME SwapOK(swap), Simulate
  PROVE  SwapOK(swap')
<1> PICK w : w = swap
  OBVIOUS
<1>1. w \in SwapRecords /\ w.kind = "quote" /\ w.pc = "simulate" /\ w.amount # Unparsable
  BY DEF SwapOK, Simulate, SwapAt
<1>2. PICK bought \in Purchases(swap.page, swap.amount) :
        IF Total(bought) = 0 THEN Ends(404, "no legs")
        ELSE swap' = [swap EXCEPT !.pc = "reply", !.status = 200, !.said = "purchase",
                               !.page = {}, !.bought = bought]
  BY DEF Simulate
<1>3. /\ 404 \in SwapStatuses /\ 200 \in SwapStatuses
      /\ "no legs" \in Said /\ "purchase" \in Said /\ "reply" \in SwapSteps
  BY DEF SwapStatuses, Said, SwapSteps
<1>4. CASE Ends(404, "no legs")
  <2>1. MayReply(swap, 404, "no legs")
    BY <1>1 DEF MayReply
  <2>. QED  BY <1>3, <1>4, <2>1, EndsKeeps
<1>5. CASE swap' = [w EXCEPT !.pc = "reply", !.status = 200, !.said = "purchase",
                             !.page = {}, !.bought = bought]
  <2>1. w.amount \in Nat /\ w.page \in SUBSET Orders
    BY <1>1, MarketAssumption DEF SwapRecords
  <2>2. bought \in [w.page -> 0..w.amount]
    BY <1>2 DEF Purchases
  <2>3. bought \in [w.page -> Nat]
    BY <2>1, <2>2
  <2>4. bought \in PurchasesMade
    BY <2>1, <2>3 DEF PurchasesMade
  <2>5. PICK n : n = [w EXCEPT !.pc = "reply", !.status = 200, !.said = "purchase",
                               !.page = {}, !.bought = bought]
    OBVIOUS
  <2>9. n \in SwapRecords
    <3>1. PICK none \in SUBSET Orders : none = {}
      OBVIOUS
    <3>2. PICK status \in SwapStatuses, said \in Said, pc \in SwapSteps :
            status = 200 /\ said = "purchase" /\ pc = "reply"
      BY <1>3
    <3>3. [w EXCEPT !.pc = pc, !.status = status, !.said = said, !.page = none,
                    !.bought = bought] \in SwapRecords
      BY <1>1, <2>4 DEF SwapRecords
    <3>. QED  BY <2>5, <3>1, <3>2, <3>3
  <2>6. /\ n.pc = "reply" /\ n.amount = w.amount /\ n.kind = w.kind
        /\ n.status = 200 /\ n.said = "purchase"
    BY <1>1, <2>5 DEF SwapRecords
  <2>7. MayReply(n, 200, "purchase")
    BY <1>1, <2>6 DEF MayReply
  <2>8. SwapOK(n)
    BY <2>6, <2>7, <2>9 DEF SwapOK
  <2>. QED  BY <1>5, <2>5, <2>8
<1>. QED  BY <1>2, <1>4, <1>5

LEMMA QuoteCallFailsKeeps ==
  ASSUME SwapOK(swap), QuoteCallFails
  PROVE  SwapOK(swap')
<1>1. Ends(500, "failure") /\ swap.kind = "quote"
  BY DEF QuoteCallFails
<1>2. 500 \in SwapStatuses /\ "failure" \in Said
  BY DEF SwapStatuses, Said
<1>3. MayReply(swap, 500, "failure")
  BY <1>1 DEF MayReply
<1>. QED  BY <1>1, <1>2, <1>3, EndsKeeps

LEMMA TakeOrdersKeeps ==
  ASSUME SwapOK(swap), TakeOrders
  PROVE  SwapOK(swap')
<1>1. {200, 400, 404, 500} \subseteq SwapStatuses /\ "failure" \in Said
  BY DEF SwapStatuses, Said
<1>2. swap.kind = "calldata"
  BY DEF TakeOrders, SwapAt
<1>3. ASSUME NEW status \in SwapStatuses, NEW said \in Said, Ends(status, said),
             status = 200 => said \in {"approval", "transaction"}
      PROVE  SwapOK(swap')
  <2>1. MayReply(swap, status, said)
    BY <1>2, <1>3 DEF MayReply
  <2>. QED  BY <1>3, <2>1, EndsKeeps
<1>4. ASSUME NEW said \in {"approval", "transaction"}, Ends(200, said)
      PROVE  SwapOK(swap')
  <2>1. said \in Said
    BY DEF Said
  <2>. QED  BY <1>1, <1>3, <1>4, <2>1
<1>5. ASSUME NEW said \in LiquidityErrors \cup RequestErrors, Ends(StatusOf(said), said)
      PROVE  SwapOK(swap')
  <2>1. PICK status \in {400, 404} : status = StatusOf(said)
    BY <1>5 DEF StatusOf
  <2>2. status # 200 /\ status \in SwapStatuses
    BY <1>1
  <2>3. said \in Said
    BY <1>5 DEF Said
  <2>. QED  BY <1>3, <1>5, <2>1, <2>2, <2>3
<1>6. ASSUME Ends(StatusOf("failure"), "failure") PROVE SwapOK(swap')
  <2>1. StatusOf("failure") = 500
    BY DEF StatusOf, LiquidityErrors, RequestErrors
  <2>. QED  BY <1>1, <1>3, <1>6, <2>1
<1>7. Sayings(swap.sell, swap.buy, swap.amount)
        \subseteq LiquidityErrors \cup RequestErrors \cup {"approval", "transaction"}
  BY DEF Sayings
<1>. QED  BY <1>4, <1>5, <1>6, <1>7 DEF TakeOrders

LEMMA SwapStep ==
  ASSUME ListingOK, SwapOK(swap), SwapBegins \/ SwapServes
  PROVE  /\ SwapOK(swap') /\ UNCHANGED vars
         /\ SwapServes => swap.pc # "idle"
<1>1. ASSUME SwapBegins PROVE SwapOK(swap') /\ UNCHANGED vars
  BY <1>1, StartSwapKeeps DEF SwapBegins, StartSwap
<1>2. ASSUME SwapServes PROVE SwapOK(swap') /\ UNCHANGED vars
  <2>1. CASE ReadPair
    BY <2>1, ReadPairKeeps DEF ReadPair
  <2>2. CASE BuildCandidates
    BY <2>2, BuildCandidatesKeeps DEF BuildCandidates
  <2>3. CASE Simulate
    BY <2>3, SimulateKeeps DEF Simulate
  <2>4. CASE QuoteCallFails
    BY <2>4, QuoteCallFailsKeeps DEF QuoteCallFails
  <2>5. CASE TakeOrders
    BY <2>5, TakeOrdersKeeps DEF TakeOrders
  <2>6. CASE RespondSwap
    BY <2>6, IdleSwapOK DEF RespondSwap
  <2>. QED  BY <1>2, <2>1, <2>2, <2>3, <2>4, <2>5, <2>6 DEF SwapServes
<1>3. SwapServes => swap.pc # "idle"
  BY DEF SwapServes, ReadPair, BuildCandidates, Simulate, QuoteCallFails, TakeOrders,
         RespondSwap, SwapAt
<1>. QED  BY <1>1, <1>2, <1>3

-----------------------------------------------------------------------------
\* The pages of TakerPages.

\* The list of n transactions: transaction t is at place n + 1 - t.
LEMMA ListedFacts ==
  ASSUME NEW n \in Nat
  PROVE  /\ Listed(n) \in Seq(1..n) /\ Len(Listed(n)) = n /\ ToSet(Listed(n)) = 1..n
         /\ \A t \in 1..n : n + 1 - t \in 1..n /\ Listed(n)[n + 1 - t] = t
<1> DEFINE s == Listed(n)
<1>1. s = [i \in 1..n |-> n + 1 - i]
  BY DEF Listed
<1>2. \A i \in 1..n : n + 1 - i \in 1..n /\ n + 1 - (n + 1 - i) = i
  OBVIOUS
<1>3. s \in [1..n -> 1..n] /\ DOMAIN s = 1..n
  BY <1>1, <1>2
<1>4. \A t \in 1..n : n + 1 - t \in 1..n /\ s[n + 1 - t] = t
  BY <1>1, <1>2
<1> HIDE DEF s
<1>5. s \in Seq(1..n) /\ Len(s) = n
  BY <1>3, SeqDef
<1>6. ToSet(s) = 1..n
  BY <1>3, <1>4 DEF ToSet
<1>. QED  BY <1>4, <1>5, <1>6 DEF s

LEMMA SeqWidens ==
  ASSUME NEW S, NEW T, S \subseteq T, NEW s \in Seq(S)
  PROVE  s \in Seq(T)
OBVIOUS

LEMMA LongerInterval ==
  ASSUME NEW c \in Nat, NEW n \in Nat, c <= n
  PROVE  1..c \subseteq 1..n /\ 1..c \subseteq Nat
OBVIOUS

LEMMA FirstAndRest ==
  ASSUME NEW T, NEW s \in Seq(T), s # <<>>
  PROVE  /\ Head(s) \in T /\ Tail(s) \in Seq(T)
         /\ \A e \in ToSet(s) : e = Head(s) \/ e \in ToSet(Tail(s))
<1> DEFINE rest == Tail(s)
<1>1. Len(s) \in Nat /\ Len(s) >= 1 /\ DOMAIN s = 1..Len(s)
  BY EmptySeq
<1>2. Head(s) = s[1] /\ s[1] \in T
  BY <1>1
<1>3. rest \in Seq(T) /\ Len(rest) = Len(s) - 1 /\ \A i \in 1..Len(rest) : rest[i] = s[i + 1]
  BY <1>1, HeadTailProperties
<1> HIDE DEF rest
<1>4. ASSUME NEW i \in DOMAIN s PROVE s[i] = s[1] \/ s[i] \in ToSet(rest)
  <2>1. CASE i = 1
    BY <2>1
  <2>2. CASE i # 1
    <3>1. i - 1 \in 1..Len(rest) /\ (i - 1) + 1 = i /\ DOMAIN rest = 1..Len(rest)
      BY <1>1, <1>3, <2>2
    <3>2. rest[i - 1] = s[i]
      BY <1>3, <3>1
    <3>. QED  BY <3>1, <3>2 DEF ToSet
  <2>. QED  BY <2>1, <2>2
<1>5. \A e \in ToSet(s) : e = s[1] \/ e \in ToSet(rest)
  BY <1>4 DEF ToSet
<1>. QED  BY <1>2, <1>3, <1>5 DEF rest

LEMMA IdleTakerOK == IdleTaker \in TakerRecords /\ TakerOK(IdleTaker)
<1>1. IdleTaker \in TakerRecords
  BY DEF IdleTaker, TakerRecords
<1>2. /\ IdleTaker.pc = "idle" /\ IdleTaker.cached = <<>> /\ IdleTaker.list = <<>>
      /\ IdleTaker.slice = <<>> /\ IdleTaker.got = {} /\ IdleTaker.skipped = {}
      /\ IdleTaker.first = {} /\ IdleTaker.indexed = 0
  BY DEF IdleTaker
<1>3. Listed(0) = <<>>
  <2>1. Listed(0) \in Seq(1..0) /\ Len(Listed(0)) = 0
    BY ListedFacts
  <2>. QED  BY <2>1
<1>4. Len(<<>>) = 0 /\ <<>> \in Seq(1..0)
  OBVIOUS
<1>. QED  BY <1>1, <1>2, <1>3, <1>4 DEF TakerOK

LEMMA StartTakerKeeps ==
  ASSUME NEW size \in Sizes \ {0}, NEW indexed \in 0..MaxTransactions,
         NEW n \in 0..MaxTransactions, StartTaker(size, indexed, n)
  PROVE  TakerOK(taker')
<1>1. n \in Nat /\ indexed \in Nat /\ n <= indexed /\ size \in Nat \ {0}
  BY TransactionsAssumption, SizesAssumption DEF StartTaker
<1>2. PICK cached : cached = Listed(n)
  OBVIOUS
<1>3. cached \in Seq(Nat) /\ Len(cached) = n
  <2>1. cached \in Seq(1..n) /\ Len(cached) = n
    BY <1>1, <1>2, ListedFacts
  <2>. QED  BY <1>1, <2>1
<1>4. PICK k : k = [IdleTaker EXCEPT !.pc = "list", !.size = size, !.indexed = indexed,
                                     !.cached = cached]
  OBVIOUS
<1>5. k \in TakerRecords
  BY <1>1, <1>3, <1>4, IdleTakerOK DEF TakerRecords
<1>6. /\ k.pc = "list" /\ k.cached = cached /\ k.list = <<>> /\ k.slice = <<>>
      /\ k.got = {} /\ k.skipped = {} /\ k.first = {} /\ k.indexed = indexed
  BY <1>4 DEF IdleTaker
<1>7. <<>> \in Seq(1..indexed)
  OBVIOUS
<1>8. TakerOK(k)
  BY <1>1, <1>2, <1>3, <1>5, <1>6, <1>7 DEF TakerOK
<1>. QED  BY <1>2, <1>4, <1>8 DEF StartTaker

\* One more transaction does not change a list that was read.
LEMMA IndexKeeps ==
  ASSUME TakerOK(taker), Index
  PROVE  TakerOK(taker')
<1> PICK k : k = taker
  OBVIOUS
<1>1. PICK u, v : u = k.indexed /\ v = u + 1
  OBVIOUS
<1>2. k \in TakerRecords /\ u \in Nat /\ v \in Nat /\ Len(k.cached) \in Nat
  BY <1>1 DEF TakerOK, TakerRecords
<1>3. 1..u \subseteq 1..v
  BY <1>1, <1>2
<1>4. PICK m : m = [k EXCEPT !.indexed = v]
  OBVIOUS
<1>5. m \in TakerRecords
  BY <1>2, <1>4 DEF TakerRecords
<1>6. /\ m.indexed = v /\ m.pc = k.pc /\ m.cached = k.cached /\ m.list = k.list
      /\ m.slice = k.slice /\ m.first = k.first /\ m.got = k.got /\ m.skipped = k.skipped
      /\ m.page = k.page /\ m.size = k.size
  BY <1>2, <1>4 DEF TakerRecords
<1>7. k.list \in Seq(1..v) /\ k.slice \in Seq(1..v) /\ k.got \cup k.skipped \subseteq 1..v
  <2>1. k.list \in Seq(1..u) /\ k.slice \in Seq(1..u) /\ k.got \cup k.skipped \subseteq 1..u
    BY <1>1 DEF TakerOK
  <2>2. k.list \in Seq(1..v) /\ k.slice \in Seq(1..v)
    BY <1>3, <2>1, SeqWidens
  <2>. QED  BY <1>3, <2>1, <2>2
<1>8. Len(m.cached) <= v
  BY <1>1, <1>2, <1>6 DEF TakerOK
<1>9. TakerOK(m)
  <2>1. /\ k.cached = Listed(Len(k.cached)) /\ k.first \subseteq 1..Len(k.cached)
        /\ k.pc = "resolve" => k.list = k.cached
        /\ k.pc = "list" =>
             \A t \in k.first :
                Served(k, t) \/ Len(k.cached) + 1 - t > Past(k.page - 1, k.size)
        /\ k.pc = "resolve" =>
             \A t \in k.first : \/ Served(k, t) \/ t \in ToSet(k.slice)
                               \/ Len(k.cached) + 1 - t > Past(k.page, k.size)
        /\ k.pc = "done" => \A t \in k.first : Served(k, t)
    BY DEF TakerOK
  <2>2. \A t : Served(m, t) <=> Served(k, t)
    BY <1>6 DEF Served
  <2>. QED  BY <1>5, <1>6, <1>7, <1>8, <2>1, <2>2 DEF TakerOK
<1>10. taker' = m
  BY <1>1, <1>4 DEF Index
<1>. QED  BY <1>9, <1>10

LEMMA ListTakerKeeps ==
  ASSUME TakerOK(taker), ListTaker
  PROVE  TakerOK(taker')
<1> PICK k : k = taker
  OBVIOUS
<1> PICK c, u : c = Len(k.cached) /\ u = k.indexed
  OBVIOUS
<1>1. /\ k \in TakerRecords /\ c <= u /\ k.cached = Listed(c) /\ k.pc = "list"
      /\ k.got \cup k.skipped \subseteq 1..u /\ k.first \subseteq 1..c
      /\ \A t \in k.first : Served(k, t) \/ c + 1 - t > Past(k.page - 1, k.size)
  BY DEF TakerOK, ListTaker, TakerAt
<1>2. /\ c \in Nat /\ k.page \in Nat \ {0} /\ k.size \in Nat \ {0}
      /\ u \in Nat
  BY <1>1 DEF TakerRecords
<1>3. PICK n \in c..u :
        LET list == Listed(n) IN
        taker' = [k EXCEPT !.pc = "resolve", !.cached = list, !.list = list,
                    !.slice = Slice(list, k.page, k.size),
                    !.first = IF k.page = 1 THEN ToSet(list) ELSE k.first]
  BY DEF ListTaker
<1>21. PICK list : list = Listed(n)
  OBVIOUS
<1>4. n \in Nat /\ c <= n /\ n <= u
  BY <1>2
<1>5. /\ list \in Seq(1..n) /\ Len(list) = n /\ ToSet(list) = 1..n
      /\ \A t \in 1..n : n + 1 - t \in 1..n /\ list[n + 1 - t] = t
  BY <1>4, <1>21, ListedFacts
<1>6. PICK page \in Nat \ {0}, size \in Nat \ {0} : page = k.page /\ size = k.size
  BY <1>2
<1>7. PICK o, end, slice : o = Past(page - 1, size) /\ end = Past(page, size)
                           /\ slice = Slice(list, page, size)
  OBVIOUS
<1>8. o \in Nat /\ end \in Nat /\ o <= end /\ (page = 1 => o = 0)
  <2>1. /\ Past(page - 1, size) \in Nat /\ Past(page, size) \in Nat
        /\ Past(page, size) = Past(page - 1, size) + size
    BY PastNext
  <2>2. page = 1 => Past(page - 1, size) = 0
    BY DEF Past
  <2>. QED  BY <1>7, <2>1, <2>2
<1>9. \A i \in 1..n : o < i /\ i <= end => list[i] \in ToSet(slice)
  <2>1. \A i \in 1..Len(list) :
          Past(page - 1, size) < i /\ i <= Past(page, size) => list[i] \in ToSet(Slice(list, page, size))
    BY <1>5, SliceFacts
  <2>. QED  BY <1>5, <1>7, <2>1
<1>10. slice \in Seq(1..n)
  BY <1>5, <1>7, SliceFacts
<1>11. PICK first : first = IF page = 1 THEN ToSet(list) ELSE k.first
  OBVIOUS
<1>12. first \subseteq 1..n
  <2>1. 1..c \subseteq 1..n
    BY <1>2, <1>4, LongerInterval
  <2>. QED  BY <1>1, <1>5, <1>11, <2>1
\* The list may have grown; its old transactions are behind the new ones.
<1>13. ASSUME NEW t \in first
       PROVE  Served(k, t) \/ n + 1 - t > o
  <2>1. CASE page = 1
    <3>1. n + 1 - t \in 1..n
      BY <1>5, <1>12
    <3>. QED  BY <1>4, <1>8, <2>1, <3>1
  <2>2. CASE page # 1
    <3>1. t \in k.first /\ t \in 1..n
      BY <1>11, <1>12, <2>2
    <3>2. Served(k, t) \/ c + 1 - t > o
      BY <1>1, <1>6, <1>7, <3>1
    <3>3. c + 1 - t > o => n + 1 - t > o
      <4>1. t \in Nat
        BY <1>4, <3>1
      <4>2. c \in Nat /\ n \in Nat /\ o \in Nat /\ c <= n
        BY <1>2, <1>4, <1>8
      <4>. QED  BY <4>1, <4>2
    <3>. QED  BY <3>2, <3>3
  <2>. QED  BY <2>1, <2>2
<1>14. PICK m : m = [k EXCEPT !.pc = "resolve", !.cached = list, !.list = list,
                              !.slice = slice, !.first = first]
  OBVIOUS
<1>15. /\ list \in Seq(Nat) /\ slice \in Seq(Nat) /\ first \in SUBSET Nat
       /\ list \in Seq(1..u) /\ slice \in Seq(1..u)
  <2>2. 1..n \subseteq Nat /\ 1..n \subseteq 1..u
    BY <1>2, <1>4, LongerInterval
  <2>3. list \in Seq(Nat) /\ slice \in Seq(Nat) /\ first \in SUBSET Nat
    BY <1>5, <1>10, <1>12, <2>2, SeqWidens
  <2>4. list \in Seq(1..u) /\ slice \in Seq(1..u)
    BY <1>5, <1>10, <2>2, SeqWidens
  <2>. QED  BY <2>3, <2>4
<1>16. m \in TakerRecords
  BY <1>1, <1>14, <1>15 DEF TakerRecords
<1>17. /\ m.pc = "resolve" /\ m.cached = list /\ m.list = list /\ m.slice = slice
       /\ m.first = first /\ m.got = k.got /\ m.skipped = k.skipped
       /\ m.page = page /\ m.size = size /\ m.indexed = u
  BY <1>1, <1>6, <1>14 DEF TakerRecords
<1>18. ASSUME NEW t \in first
       PROVE  Served(m, t) \/ t \in ToSet(slice) \/ n + 1 - t > end
  <2>1. CASE Served(k, t)
    BY <1>17, <2>1 DEF Served
  <2>2. CASE n + 1 - t > o
    <3>1. n + 1 - t \in 1..n /\ list[n + 1 - t] = t
      BY <1>5, <1>12
    <3>2. n + 1 - t <= end => t \in ToSet(slice)
      BY <1>8, <1>9, <2>2, <3>1
    <3>. QED  BY <1>8, <3>1, <3>2
  <2>. QED  BY <1>13, <2>1, <2>2
<1>19. TakerOK(m)
  <2>1. m.pc # "list" /\ m.pc # "done"
    BY <1>17
  <2>2. Len(m.cached) = n /\ m.cached = Listed(n)
    BY <1>5, <1>17, <1>21
  <2>. QED  BY <1>1, <1>4, <1>7, <1>12, <1>15, <1>16, <1>17, <1>18, <2>1, <2>2 DEF TakerOK
<1>20. taker' = m
  BY <1>3, <1>6, <1>7, <1>11, <1>14, <1>21
<1>. QED  BY <1>19, <1>20

LEMMA ResolveKeeps ==
  ASSUME TakerOK(taker), Resolve
  PROVE  TakerOK(taker')
<1> PICK k : k = taker
  OBVIOUS
<1> PICK n, slice : n = Len(k.cached) /\ slice = k.slice
  OBVIOUS
<1>1. /\ k \in TakerRecords /\ n <= k.indexed /\ k.cached = Listed(n) /\ k.pc = "resolve"
      /\ k.list \in Seq(1..k.indexed) /\ slice \in Seq(1..k.indexed) /\ slice # <<>>
      /\ k.got \cup k.skipped \subseteq 1..k.indexed /\ k.first \subseteq 1..n
      /\ k.list = k.cached
  BY DEF TakerOK, Resolve, TakerAt
<1>2. \A t \in k.first : Served(k, t) \/ t \in ToSet(slice) \/ n + 1 - t > Past(k.page, k.size)
  BY <1>1 DEF TakerOK
<1>3. PICK tx, rest : tx = Head(slice) /\ rest = Tail(slice)
  OBVIOUS
<1>4. /\ tx \in 1..k.indexed /\ rest \in Seq(1..k.indexed)
      /\ \A t \in ToSet(slice) : t = tx \/ t \in ToSet(rest)
  BY <1>1, <1>3, FirstAndRest
<1>5. PICK got, skipped :
        /\ taker' = [k EXCEPT !.slice = rest, !.got = got, !.skipped = skipped]
        /\ got \cup skipped = k.got \cup k.skipped \cup {tx}
  <2>1. CASE taker' = [k EXCEPT !.slice = rest, !.got = k.got \cup {tx}]
    <3>1. taker' = [k EXCEPT !.slice = rest, !.got = k.got \cup {tx}, !.skipped = k.skipped]
      BY <1>1, <2>1 DEF TakerRecords
    <3>2. (k.got \cup {tx}) \cup k.skipped = k.got \cup k.skipped \cup {tx}
      OBVIOUS
    <3>. QED  BY <3>1, <3>2
  <2>2. CASE taker' = [k EXCEPT !.slice = rest, !.skipped = k.skipped \cup {tx}]
    <3>1. taker' = [k EXCEPT !.slice = rest, !.got = k.got, !.skipped = k.skipped \cup {tx}]
      BY <1>1, <2>2 DEF TakerRecords
    <3>2. k.got \cup (k.skipped \cup {tx}) = k.got \cup k.skipped \cup {tx}
      OBVIOUS
    <3>. QED  BY <3>1, <3>2
  <2>. QED  BY <1>3, <2>1, <2>2 DEF Resolve
<1>6. PICK m : m = [k EXCEPT !.slice = rest, !.got = got, !.skipped = skipped]
  OBVIOUS
<1>7. got \cup skipped \subseteq 1..k.indexed /\ 1..k.indexed \subseteq Nat
  BY <1>1, <1>4, <1>5 DEF TakerRecords
<1>8. got \in SUBSET Nat /\ skipped \in SUBSET Nat /\ rest \in Seq(Nat)
  BY <1>4, <1>7, SeqWidens
<1>9. m \in TakerRecords
  BY <1>1, <1>6, <1>8 DEF TakerRecords
<1>10. /\ m.pc = "resolve" /\ m.cached = k.cached /\ m.list = k.list /\ m.slice = rest
       /\ m.first = k.first /\ m.got = got /\ m.skipped = skipped
       /\ m.page = k.page /\ m.size = k.size /\ m.indexed = k.indexed
  BY <1>1, <1>6 DEF TakerRecords
<1>11. \A t \in m.first : Served(m, t) \/ t \in ToSet(rest) \/ n + 1 - t > Past(m.page, m.size)
  BY <1>2, <1>4, <1>5, <1>10 DEF Served
<1>12. m.pc # "list" /\ m.pc # "done"
  BY <1>10
<1>13. TakerOK(m)
  BY <1>1, <1>4, <1>7, <1>9, <1>10, <1>11, <1>12 DEF TakerOK
<1>. QED  BY <1>5, <1>6, <1>13

LEMMA AnswerPageKeeps ==
  ASSUME TakerOK(taker), AnswerPage
  PROVE  TakerOK(taker')
<1> PICK k : k = taker
  OBVIOUS
<1> PICK n : n = Len(k.cached)
  OBVIOUS
<1>1. /\ k \in TakerRecords /\ n <= k.indexed /\ k.cached = Listed(n) /\ k.pc = "resolve"
      /\ k.list \in Seq(1..k.indexed) /\ k.slice = <<>>
      /\ k.got \cup k.skipped \subseteq 1..k.indexed /\ k.first \subseteq 1..n
      /\ k.list = k.cached
  BY DEF TakerOK, AnswerPage, TakerAt
<1>2. \A t \in k.first : Served(k, t) \/ n + 1 - t > Past(k.page, k.size)
  <2>1. \A t \in k.first :
          Served(k, t) \/ t \in ToSet(k.slice) \/ n + 1 - t > Past(k.page, k.size)
    BY <1>1 DEF TakerOK
  <2>2. ToSet(k.slice) = {}
    BY <1>1 DEF ToSet
  <2>. QED  BY <2>1, <2>2
<1>3. n \in Nat /\ k.page \in Nat \ {0} /\ k.size \in Nat \ {0}
  BY <1>1 DEF TakerRecords
<1>4. HasMore(n, k.page, k.size) <=> Past(k.page, k.size) < n
  BY <1>3, MoreMeansMore
<1>5. <<>> \in Seq(1..k.indexed) /\ <<>> \in Seq(Nat)
  OBVIOUS
<1>6. CASE HasMore(n, k.page, k.size)
  <2>1. PICK page \in Nat \ {0} : page = k.page + 1 /\ page - 1 = k.page
    BY <1>3
  <2>2. PICK m : m = [k EXCEPT !.pc = "list", !.page = page, !.list = <<>>]
    OBVIOUS
  <2>3. m \in TakerRecords
    BY <1>1, <1>5, <2>2 DEF TakerRecords
  <2>4. /\ m.pc = "list" /\ m.cached = k.cached /\ m.list = <<>> /\ m.slice = k.slice
        /\ m.first = k.first /\ m.got = k.got /\ m.skipped = k.skipped
        /\ m.page = page /\ m.size = k.size /\ m.indexed = k.indexed
    BY <1>1, <2>2 DEF TakerRecords
  <2>5. \A t \in m.first : Served(m, t) \/ n + 1 - t > Past(m.page - 1, m.size)
    BY <1>2, <2>1, <2>4 DEF Served
  <2>6. TakerOK(m)
    BY <1>1, <1>5, <2>3, <2>4, <2>5 DEF TakerOK
  <2>7. taker' = m
    BY <1>1, <1>6, <2>1, <2>2 DEF AnswerPage
  <2>. QED  BY <2>6, <2>7
\* No place of the list is behind its last page.
<1>7. CASE ~HasMore(n, k.page, k.size)
  <2>1. PICK m : m = [k EXCEPT !.pc = "done"]
    OBVIOUS
  <2>2. m \in TakerRecords
    BY <1>1, <2>1 DEF TakerRecords
  <2>3. /\ m.pc = "done" /\ m.cached = k.cached /\ m.list = k.list /\ m.slice = k.slice
        /\ m.first = k.first /\ m.got = k.got /\ m.skipped = k.skipped
        /\ m.indexed = k.indexed
    BY <1>1, <2>1 DEF TakerRecords
  <2>4. ASSUME NEW t \in m.first PROVE Served(m, t)
    <3>1. t \in 1..n /\ t \in k.first
      BY <1>1, <2>3
    <3>2. Past(k.page, k.size) \in Nat
      BY <1>3, PastNext
    <3>3. ~(n + 1 - t > Past(k.page, k.size))
      BY <1>3, <1>4, <1>7, <3>1, <3>2
    <3>. QED  BY <1>2, <2>3, <3>1, <3>3 DEF Served
  <2>5. TakerOK(m)
    BY <1>1, <1>5, <2>2, <2>3, <2>4 DEF TakerOK
  <2>6. taker' = m
    BY <1>1, <1>7, <2>1 DEF AnswerPage
  <2>. QED  BY <2>5, <2>6
<1>. QED  BY <1>6, <1>7

LEMMA TakerStep ==
  ASSUME TakerOK(taker), TakerBegins \/ TakerServes
  PROVE  /\ TakerOK(taker') /\ UNCHANGED vars
         /\ TakerServes => taker.pc # "idle"
<1>1. ASSUME TakerBegins PROVE TakerOK(taker') /\ UNCHANGED vars
  BY <1>1, StartTakerKeeps DEF TakerBegins, StartTaker
<1>2. ASSUME TakerServes PROVE TakerOK(taker') /\ UNCHANGED vars
  <2>1. CASE ListTaker
    BY <2>1, ListTakerKeeps DEF ListTaker
  <2>2. CASE ListTakerFails
    BY <2>2, IdleTakerOK DEF ListTakerFails
  <2>3. CASE Resolve
    BY <2>3, ResolveKeeps DEF Resolve
  <2>4. CASE AnswerPage
    BY <2>4, AnswerPageKeeps DEF AnswerPage
  <2>5. CASE Leave
    BY <2>5, IdleTakerOK DEF Leave
  <2>6. CASE Index
    BY <2>6, IndexKeeps DEF Index
  <2>. QED  BY <1>2, <2>1, <2>2, <2>3, <2>4, <2>5, <2>6 DEF TakerServes
<1>3. TakerServes => taker.pc # "idle"
  BY DEF TakerServes, Index, ListTaker, ListTakerFails, Resolve, AnswerPage, Leave, TakerAt
<1>. QED  BY <1>1, <1>2, <1>3

-----------------------------------------------------------------------------
\* The requests together.  One that is not asked about sees the listing move, or
\* nothing.

LEMMA StillListing ==
  ASSUME ListingOK, UNCHANGED <<orders, trades>>
  PROVE  ListingOK'
BY DEF ListingOK

LEMMA StillRequest ==
  ASSUME UNCHANGED <<orders, trades>>, NEW r, RequestOK(r)
  PROVE  RequestOK(r)'
<1>1. InListing(r) = InListing(r)' /\ Scanning(r) = Scanning(r)' /\ Loading(r) = Loading(r)'
  BY DEF InListing, Scanning, Loading, KnownTraded
<1>. QED  BY <1>1 DEF RequestOK

LEMMA StillSingle ==
  ASSUME UNCHANGED <<orders, trades>>, NEW s, SingleOK(s)
  PROVE  SingleOK(s)'
<1>1. Traded(s) = Traded(s)' /\ Matching(s.hash) = Matching(s.hash)'
  BY DEF Traded, Matching
<1>. QED  BY <1>1 DEF SingleOK

LEMMA StillSwap ==
  ASSUME UNCHANGED <<orders, trades>>, NEW w, SwapOK(w)
  PROVE  SwapOK(w)'
<1>1. OfPair(w.sell, w.buy) = OfPair(w.sell, w.buy)'
  BY DEF OfPair
<1>. QED  BY <1>1 DEF SwapOK

\* A taker's client reads nothing of the listing.
LEMMA StillTaker ==
  ASSUME NEW k, TakerOK(k)
  PROVE  TakerOK(k)'
BY DEF TakerOK

LEMMA InvInit ==
  ReadsInit => ReadsInv
<1> SUFFICES ASSUME ReadsInit PROVE ReadsInv
  OBVIOUS
<1>1. orders = <<>> /\ trades = <<>> /\ request = IdleRequest
      /\ single = IdleSingle /\ swap = IdleSwap /\ taker = IdleTaker
  BY DEF ReadsInit, Init, SingleInit, SwapInit, TakerInit
<1>2. ListingOK
  BY <1>1 DEF ListingOK, IsInjective
<1>3. IdleRequest = [IdleRequest EXCEPT !.pc = "idle"]
  BY DEF IdleRequest
<1>4. RequestOK(request)
  BY <1>1, <1>2, <1>3, IdleOK
<1>5. SingleOK(single) /\ SwapOK(swap) /\ TakerOK(taker)
  BY <1>1, <1>2, IdleSingleOK, IdleSwapOK, IdleTakerOK
<1>6. OneAtATime
  BY <1>1 DEF OneAtATime, IdleRequest, IdleSingle, IdleSwap, IdleTaker
<1>. QED  BY <1>2, <1>4, <1>5, <1>6 DEF ReadsInv

LEMMA InvStep ==
  ReadsInv /\ [ReadsNext]_<<vars, single, swap, taker>> => ReadsInv'
<1> SUFFICES ASSUME ReadsInv, [ReadsNext]_<<vars, single, swap, taker>>
             PROVE  ReadsInv'
  OBVIOUS
<1> USE DEF ReadsInv
<1> PICK r, s, w, k : r = request /\ s = single /\ w = swap /\ k = taker
  OBVIOUS
<1> PICK rr, ss, ww, kk : rr = request' /\ ss = single' /\ ww = swap' /\ kk = taker'
  OBVIOUS
<1>1. CASE UNCHANGED <<vars, single, swap, taker>>
  <2>1. UNCHANGED <<orders, trades>> /\ rr = r /\ ss = s /\ ww = w /\ kk = k
    BY <1>1 DEF vars
  <2>2. ListingOK' /\ RequestOK(r)' /\ SingleOK(s)' /\ SwapOK(w)' /\ TakerOK(k)'
    BY <2>1, StillListing, StillRequest, StillSingle, StillSwap, StillTaker
  <2>. QED  BY <2>1, <2>2 DEF OneAtATime
<1>2. CASE Moves /\ UNCHANGED <<single, swap, taker>>
  <2>1. ListingOK' /\ rr = r /\ ss = s /\ ww = w /\ kk = k
    BY <1>2, MovesGrow
  <2>2. RequestOK(r)' /\ SingleOK(s)' /\ SwapOK(w)' /\ TakerOK(k)'
    BY <1>2, MovesKeepRequest, MovesKeepSingle, MovesKeepSwap, StillTaker
  <2>. QED  BY <2>1, <2>2 DEF OneAtATime
<1>3. CASE /\ (Quiet /\ Begins) \/ Serves
           /\ UNCHANGED <<single, swap, taker>>
  <2>1. RequestOK(rr) /\ UNCHANGED <<orders, trades>> /\ (Serves => r.pc # "idle")
    BY <1>3, RequestStep
  <2>2. ListingOK' /\ RequestOK(rr)' /\ SingleOK(s)' /\ SwapOK(w)' /\ TakerOK(k)'
    BY <2>1, StillListing, StillRequest, StillSingle, StillSwap, StillTaker
  <2>3. ss = s /\ ww = w /\ kk = k
    BY <1>3
  <2>4. s.pc = "idle" /\ w.pc = "idle" /\ k.pc = "idle"
    BY <1>3, <2>1 DEF OneAtATime, Quiet
  <2>. QED  BY <2>2, <2>3, <2>4 DEF OneAtATime
<1>4. CASE /\ (Quiet /\ SingleBegins) \/ SingleServes
           /\ UNCHANGED <<swap, taker>>
  <2>1. SingleOK(ss) /\ UNCHANGED vars /\ (SingleServes => s.pc # "idle")
    BY <1>4, SingleStep
  <2>3. UNCHANGED <<orders, trades>> /\ rr = r /\ ww = w /\ kk = k
    BY <1>4, <2>1 DEF vars
  <2>2. ListingOK' /\ RequestOK(r)' /\ SingleOK(ss)' /\ SwapOK(w)' /\ TakerOK(k)'
    BY <2>1, <2>3, StillListing, StillRequest, StillSingle, StillSwap, StillTaker
  <2>4. r.pc = "idle" /\ w.pc = "idle" /\ k.pc = "idle"
    BY <1>4, <2>1 DEF OneAtATime, Quiet
  <2>. QED  BY <2>2, <2>3, <2>4 DEF OneAtATime
<1>5. CASE /\ (Quiet /\ SwapBegins) \/ SwapServes
           /\ UNCHANGED <<single, taker>>
  <2>1. SwapOK(ww) /\ UNCHANGED vars /\ (SwapServes => w.pc # "idle")
    BY <1>5, SwapStep
  <2>3. UNCHANGED <<orders, trades>> /\ rr = r /\ ss = s /\ kk = k
    BY <1>5, <2>1 DEF vars
  <2>2. ListingOK' /\ RequestOK(r)' /\ SingleOK(s)' /\ SwapOK(ww)' /\ TakerOK(k)'
    BY <2>1, <2>3, StillListing, StillRequest, StillSingle, StillSwap, StillTaker
  <2>4. r.pc = "idle" /\ s.pc = "idle" /\ k.pc = "idle"
    BY <1>5, <2>1 DEF OneAtATime, Quiet
  <2>. QED  BY <2>2, <2>3, <2>4 DEF OneAtATime
<1>6. CASE /\ (Quiet /\ TakerBegins) \/ TakerServes
           /\ UNCHANGED <<single, swap>>
  <2>1. TakerOK(kk) /\ UNCHANGED vars /\ (TakerServes => k.pc # "idle")
    BY <1>6, TakerStep
  <2>3. UNCHANGED <<orders, trades>> /\ rr = r /\ ss = s /\ ww = w
    BY <1>6, <2>1 DEF vars
  <2>2. ListingOK' /\ RequestOK(r)' /\ SingleOK(s)' /\ SwapOK(w)' /\ TakerOK(kk)'
    BY <2>1, <2>3, StillListing, StillRequest, StillSingle, StillSwap, StillTaker
  <2>4. r.pc = "idle" /\ s.pc = "idle" /\ w.pc = "idle"
    BY <1>6, <2>1 DEF OneAtATime, Quiet
  <2>. QED  BY <2>2, <2>3, <2>4 DEF OneAtATime
<1>. QED  BY <1>1, <1>2, <1>3, <1>4, <1>5, <1>6 DEF ReadsNext

LEMMA ReadsInvariant ==
  ReadsSpec => []ReadsInv
BY InvInit, InvStep, PTL DEF ReadsSpec

-----------------------------------------------------------------------------
\* What follows for the answers.

\* GET /v1/trades/{address}: whatever orders are added, wherever, between the pages
\* of fetch_all_orders, an order that was listed when the request came is found.
THEOREM ScansAreComplete ==
  ReadsSpec => []ScanIsComplete
<1>1. ReadsInv => ScanIsComplete
  BY DEF ReadsInv, RequestOK, Loading, Cut, Past, ScanIsComplete, CutShort, At
<1>. QED  BY <1>1, ReadsInvariant, PTL

\* The answer has every trade that was there when the request came, whichever of the
\* concurrent get_order_trades return, in any order, or fail.
THEOREM AnswersAreComplete ==
  ReadsSpec => []AnswerIsComplete
<1>1. ReadsInv => AnswerIsComplete
  BY DEF ReadsInv, RequestOK, Answering, Cut, Past, AnswerIsComplete, CutShort, At
<1>. QED  BY <1>1, ReadsInvariant, PTL

LEMMA RatiosFollow ==
  ASSUME ReadsInv
  PROVE  RatiosAreOwn
<1> SUFFICES ASSUME At("orders"), NEW i \in DOMAIN request.found
             PROVE  LET order == request.found[i]
                    IN  IoRatio(i) = IF order \in Funded \ (request.refused \cup request.unanswered)
                                     THEN order ELSE NoRatio
  BY DEF RatiosAreOwn
<1> PICK r : r = request
  OBVIOUS
<1>1. Quoting(r) /\ r.left = {}
  BY DEF ReadsInv, RequestOK, At
<1>2. CASE r.found[i] \in Funded
  <2>1. PICK q \in DOMAIN r.quotable : r.quotable[q] = i
    BY <1>1, <1>2 DEF Quoting, ToSet
  <2>2. PICK p : p = CHOOSE k \in DOMAIN r.quotable : r.quotable[k] = i
    OBVIOUS
  <2>3. p \in DOMAIN r.quotable /\ r.quotable[p] = i
    BY <2>1, <2>2
  <2>4. IoRatio(i) = r.quotes[p]
    BY <2>1, <2>2 DEF IoRatio
  <2>5. r.quotes[p] = IF r.found[i] \in r.refused \cup r.unanswered THEN NoRatio ELSE r.found[i]
    BY <1>1, <2>3 DEF Quoting, Without
  <2>. QED  BY <1>2, <2>4, <2>5
<1>3. CASE r.found[i] \notin Funded
  <2>1. \A q \in DOMAIN r.quotable : r.quotable[q] # i
    BY <1>1, <1>3 DEF Quoting, ToSet
  <2>2. IoRatio(i) = NoRatio
    BY <2>1 DEF IoRatio
  <2>. QED  BY <1>3, <2>2
<1>. QED  BY <1>2, <1>3

\* GET /v1/orders/owner and /token: the ratio of each order is its own, in any chain,
\* batch or fallback; only an order without a balance, one that the library has no
\* price for, and one whose own call failed has none.
THEOREM OrdersHaveTheirRatios ==
  ReadsSpec => []RatiosAreOwn
<1>1. ReadsInv => RatiosAreOwn
  BY RatiosFollow
<1>. QED  BY <1>1, ReadsInvariant, PTL

LEMMA DetailFollows ==
  ASSUME ReadsInv
  PROVE  DetailIsOwn
<1> SUFFICES ASSUME Replied("detail", 200) PROVE DetailIsOwn
  BY DEF DetailIsOwn
<1> PICK s : s = single
  OBVIOUS
<1>1. /\ Found(s) /\ Priced(s) /\ Traded(s) /\ Resolves(s.order)
  BY DEF ReadsInv, SingleOK, Succeeded, Replied, SingleAt
<1>2. PICK in, out : in = Min(Inputs(s.order)) /\ out = Min(Outputs(s.order))
  OBVIOUS
<1>3. in \in Inputs(s.order) /\ out \in Outputs(s.order)
  <2>1. DOMAIN VaultKinds[s.order] \subseteq Nat
    BY <1>1, VaultsAssumption DEF Found
  <2>2. Inputs(s.order) \subseteq Nat /\ Outputs(s.order) \subseteq Nat
    BY <2>1 DEF Inputs, Outputs
  <2>. QED  BY <1>1, <1>2, <2>2, MinFact DEF Resolves
<1>4. VaultKinds[s.order][in] # "output" /\ VaultKinds[s.order][out] # "input"
  BY <1>3 DEF Inputs, Outputs
<1>5. /\ Detail.order = s.order /\ Detail.trades = s.trades /\ Detail.ratio = s.ratio
      /\ Detail.input = in /\ Detail.output = out
  BY <1>2 DEF Detail
<1>. QED  BY <1>1, <1>4, <1>5 DEF DetailIsOwn, Found, Priced, Traded

\* GET /v1/order/{hash}: quote and trades are read after the order and while the
\* listing changes, and are those of the order found.
THEOREM DetailsAreOwn ==
  ReadsSpec => []DetailIsOwn
<1>1. ReadsInv => DetailIsOwn
  BY DetailFollows
<1>. QED  BY <1>1, ReadsInvariant, PTL

LEMMA SummaryFollows ==
  ASSUME ReadsInv
  PROVE  SummaryIsComplete
<1> SUFFICES ASSUME Replied("cancel", 200) PROVE SummaryIsComplete
  BY DEF SummaryIsComplete
<1> PICK s : s = single
  OBVIOUS
<1> PICK kinds : kinds = VaultKinds[s.order]
  OBVIOUS
<1>1. Found(s) /\ s.holding \subseteq DOMAIN kinds
  BY DEF ReadsInv, SingleOK, Succeeded, Replied, SingleAt, Found
<1>2. kinds \in Seq({"input", "output", "both"})
  BY <1>1, VaultsAssumption DEF Found
<1>3. PICK A, B : A = Inputs(s.order) \cap s.holding /\ B = Outputs(s.order) \cap s.holding
  OBVIOUS
<1>4. /\ A \cup B = s.holding
      /\ \A v \in A \cap B : kinds[v] = "both"
      /\ A \subseteq DOMAIN kinds /\ B \subseteq DOMAIN kinds
  <2>1. \A v \in DOMAIN kinds : kinds[v] \in {"input", "output", "both"}
    BY <1>2
  <2>2. /\ Inputs(s.order) = {v \in DOMAIN kinds : kinds[v] \in {"input", "both"}}
        /\ Outputs(s.order) = {v \in DOMAIN kinds : kinds[v] \in {"output", "both"}}
    BY DEF Inputs, Outputs
  <2>. QED  BY <1>1, <1>3, <2>1, <2>2
<1>5. A \subseteq Nat /\ B \subseteq Nat /\ IsFiniteSet(A) /\ IsFiniteSet(B)
  <2>1. PICK n \in Nat : DOMAIN kinds = 1..n
    BY <1>2
  <2>2. IsFiniteSet(1..n) /\ 1..n \subseteq Nat
    <3>1. 1 \in Int /\ n \in Int
      OBVIOUS
    <3>2. IsFiniteSet(1..n)
      BY <3>1, FS_Interval
    <3>. QED  BY <3>2
  <2>. QED  BY <1>4, <2>1, <2>2, FS_Subset
<1>6. PICK a, c : a = Increasing(A) /\ c = Increasing(B)
  OBVIOUS
<1>7. /\ a \in Seq(A) /\ ToSet(a) = A /\ \A i, j \in DOMAIN a : a[i] = a[j] => i = j
      /\ c \in Seq(B) /\ ToSet(c) = B /\ \A i, j \in DOMAIN c : c[i] = c[j] => i = j
  BY <1>5, <1>6, IncreasingFacts
<1>8. PICK returned : returned = a \o c
  OBVIOUS
<1>9. /\ Len(returned) = Len(a) + Len(c) /\ DOMAIN returned = 1..Len(returned)
      /\ \A i \in 1..(Len(a) + Len(c)) :
            returned[i] = IF i <= Len(a) THEN a[i] ELSE c[i - Len(a)]
      /\ Len(a) \in Nat /\ Len(c) \in Nat
      /\ DOMAIN a = 1..Len(a) /\ DOMAIN c = 1..Len(c)
  <2>1. a \in Seq(Nat) /\ c \in Seq(Nat)
    BY <1>5, <1>7, SeqWidens
  <2>2. /\ returned \in Seq(Nat) /\ Len(returned) = Len(a) + Len(c)
        /\ \A i \in 1..(Len(a) + Len(c)) :
            returned[i] = IF i <= Len(a) THEN a[i] ELSE c[i - Len(a)]
    BY <1>8, <2>1, ConcatProperties
  <2>3. DOMAIN a = 1..Len(a) /\ Len(a) \in Nat /\ DOMAIN c = 1..Len(c) /\ Len(c) \in Nat
    BY <2>1
  <2>4. DOMAIN returned = 1..Len(returned)
    BY <2>2
  <2>. QED  BY <2>2, <2>3, <2>4
<1>10. ToSet(returned) = s.holding
  <2>1. ToSet(returned) = ToSet(a) \cup ToSet(c)
    <3>1. a \in Seq(Nat) /\ c \in Seq(Nat)
      BY <1>5, <1>7, SeqWidens
    <3>. QED  BY <1>8, <3>1, ConcatSet
  <2>. QED  BY <1>4, <1>7, <2>1
\* Equal entries at two places are not both of one side.
<1>11. ASSUME NEW i \in DOMAIN returned, NEW j \in DOMAIN returned, i # j,
              returned[i] = returned[j]
       PROVE  kinds[returned[i]] = "both"
  <2>1. ASSUME NEW k \in DOMAIN returned
        PROVE  IF k <= Len(a) THEN k \in DOMAIN a /\ returned[k] = a[k]
               ELSE k - Len(a) \in DOMAIN c /\ returned[k] = c[k - Len(a)]
    BY <1>9
  <2>2. i \in Nat /\ j \in Nat
    BY <1>9
  <2>3. CASE i <= Len(a) /\ j <= Len(a)
    BY <1>7, <1>11, <2>1, <2>3
  <2>4. CASE ~(i <= Len(a)) /\ ~(j <= Len(a))
    <3>1. i - Len(a) = j - Len(a)
      BY <1>7, <1>11, <2>1, <2>4
    <3>. QED  BY <1>9, <1>11, <2>2, <3>1
  <2>5. CASE i <= Len(a) /\ ~(j <= Len(a))
    <3>1. returned[i] \in ToSet(a) /\ returned[j] \in ToSet(c)
      BY <2>1, <2>5 DEF ToSet
    <3>. QED  BY <1>4, <1>7, <1>11, <3>1
  <2>6. CASE ~(i <= Len(a)) /\ j <= Len(a)
    <3>1. returned[i] \in ToSet(c) /\ returned[j] \in ToSet(a)
      BY <2>1, <2>6 DEF ToSet
    <3>. QED  BY <1>4, <1>7, <1>11, <3>1
  <2>. QED  BY <2>3, <2>4, <2>5, <2>6
<1>12. Cancellation.to = s.order /\ Cancellation.returned = returned
  BY <1>3, <1>6, <1>8 DEF Cancellation, TokensReturned
<1>. QED  BY <1>1, <1>10, <1>11, <1>12 DEF SummaryIsComplete, Found

\* POST /v1/order/cancel: the inputs that hold something and then the outputs that do
\* are all the vaults that do, once each but for those that are both.
THEOREM SummariesAreComplete ==
  ReadsSpec => []SummaryIsComplete
<1>1. ReadsInv => SummaryIsComplete
  BY SummaryFollows
<1>. QED  BY <1>1, ReadsInvariant, PTL

\* GET /v1/order/{hash} and POST /v1/order/cancel: what a 404 and a 500 say is so.
THEOREM OrderErrorsAreTrue ==
  ReadsSpec => []OrderErrorsAreHonest
<1>1. ReadsInv => OrderErrorsAreHonest
  <2>1. ASSUME ReadsInv PROVE OrderErrorsAreHonest
    <3>1. PICK s : s = single
      OBVIOUS
    <3>2. /\ s.pc = "reply" /\ s.status = 404 => ~s.known
          /\ s.broke => s.pc = "reply" /\ s.status = 500
          /\ s.pc = "reply" /\ s.status = 500 => s.broke \/ ~Resolves(s.order)
      BY <2>1, <3>1 DEF ReadsInv, SingleOK
    <3>3. s.status = 404 => s.status # 500
      OBVIOUS
    <3>. QED  BY <3>1, <3>2, <3>3 DEF OrderErrorsAreHonest
  <2>. QED  BY <2>1
<1>. QED  BY <1>1, ReadsInvariant, PTL

\* POST /v1/swap/quote: "no liquidity" is said of pairs without orders only, no failed
\* call passes for that or for the client's mistake, and what is said of the amount is
\* so.  POST /v1/swap/calldata: an answer has approvals to make or the transaction.
THEOREM SwapErrorsAreTrue ==
  ReadsSpec => []SwapErrorsAreHonest
<1>1. ASSUME ReadsInv PROVE SwapErrorsAreHonest
  <2>1. PICK w : w = swap
    OBVIOUS
  <2>2. w.pc = "reply" => MayReply(w, w.status, w.said)
    BY <1>1, <2>1 DEF ReadsInv, SwapOK
  <2>3. w.said \in {"approval", "transaction"} =>
          (Calldata.approvals = <<>> <=> Calldata.data # "empty")
    <3>1. CASE w.said = "approval"
      BY <2>1, <3>1 DEF Calldata
    <3>2. CASE w.said = "transaction"
      BY <2>1, <3>2 DEF Calldata
    <3>. QED  BY <3>1, <3>2
  <2>. QED  BY <2>1, <2>2, <2>3 DEF MayReply, SwapErrorsAreHonest, SwapReplied, SwapAt
<1>. QED  BY <1>1, ReadsInvariant, PTL

\* GET /v1/trades/taker/{address}: a client that follows has_more to the end misses
\* no transaction of the list it began with, however often the list is read again,
\* and longer, in between.
THEOREM PagesLeapOverNothing ==
  ReadsSpec => []PagingMissesNothing
<1>1. ReadsInv => PagingMissesNothing
  BY DEF ReadsInv, TakerOK, Served, PagingMissesNothing, TakerAt
<1>. QED  BY <1>1, ReadsInvariant, PTL

LEMMA PagesFollow ==
  ASSUME ReadsInv
  PROVE  PagesMakeTheAnswer
<1> SUFFICES ASSUME At("trades") PROVE PagesMakeTheAnswer
  BY DEF PagesMakeTheAnswer
<1> PICK all : all = request.all
  OBVIOUS
<1>1. all \in Seq(Nat) /\ \A i, j \in DOMAIN all : i < j => all[i] >= all[j]
  BY DEF ReadsInv, RequestOK, RequestRecords, Answering, At
<1>2. ASSUME NEW size \in Sizes \ {0}
      PROVE  /\ FlattenSeq([page \in 1..TotalPages(Len(all), size) |-> Slice(all, page, size)]) = all
             /\ \A page \in Pages : HasMore(Len(all), page, size) <=> Slice(all, page + 1, size) # <<>>
  <2>1. size \in Nat \ {0} /\ Pages \subseteq Nat
    BY SizesAssumption
  <2>. QED  BY <1>1, <2>1, PagesJoin, NextPage
<1>. QED  BY <1>1, <1>2 DEF PagesMakeTheAnswer

\* GET /v1/trades/{address}: the pages of an answer, of any size, have every trade of
\* it once and in its order, newest first, and has_more is true of all but the last.
THEOREM PagesAreTheAnswer ==
  ReadsSpec => []PagesMakeTheAnswer
<1>1. ReadsInv => PagesMakeTheAnswer
  BY PagesFollow
<1>. QED  BY <1>1, ReadsInvariant, PTL

LEMMA RequestTypes ==
  ASSUME ReadsInv
  PROVE  TypeOK
<1> PICK r : r = request
  OBVIOUS
<1>1. ListingOK /\ r \in RequestRecords /\ InListing(r) /\ (r.pc = "orders" => Quoting(r) /\ r.left = {})
  BY DEF ReadsInv, RequestOK
<1>2. /\ r.pc \in Steps /\ r.failed \in BOOLEAN
      /\ r.next \in Nat /\ r.total \in Nat /\ r.since \in Nat
      /\ r.found \in Seq(Orders) /\ r.known \subseteq Orders
      /\ r.refused \subseteq Orders /\ r.unanswered \subseteq Orders
      /\ r.quotes \in Seq(Orders \cup {NoRatio, Pending})
  BY <1>1 DEF RequestRecords
<1>3. r.loaded \in Seq(SUBSET DOMAIN trades) /\ r.all \in Seq(DOMAIN trades)
  BY <1>1 DEF InListing
<1>4. ASSUME r.pc = "orders" PROVE Pending \notin ToSet(r.quotes)
  <2>1. ASSUME NEW q \in DOMAIN r.quotes PROVE r.quotes[q] # Pending
    <3>1. q \in DOMAIN r.quotable /\ q \notin r.left
      BY <1>1, <1>4 DEF Quoting
    <3>2. r.quotes[q] = NoRatio \/ r.quotes[q] = r.found[r.quotable[q]]
      BY <1>1, <1>4, <3>1 DEF Quoting
    <3>3. r.quotable[q] \in DOMAIN r.found
      BY <1>1, <1>4, <3>1 DEF Quoting, ToSet
    <3>4. r.found[r.quotable[q]] \in Orders
      BY <1>2, <3>3
    <3>. QED  BY <3>2, <3>4, OrdersAssumption
  <2>. QED  BY <2>1 DEF ToSet
<1>. QED  BY <1>1, <1>2, <1>3, <1>4 DEF TypeOK, ListingOK, At

LEMMA OneRequest ==
  ASSUME ReadsInv
  PROVE  Cardinality({pc \in {<<1, request.pc>>, <<2, single.pc>>, <<3, swap.pc>>, <<4, taker.pc>>} :
            pc[2] # "idle"}) <= 1
<1> DEFINE All == {<<1, request.pc>>, <<2, single.pc>>, <<3, swap.pc>>, <<4, taker.pc>>}
           Busy == {pc \in All : pc[2] # "idle"}
<1>1. OneAtATime
  BY DEF ReadsInv
<1>2. \E busy \in All : Busy \subseteq {busy}
  <2>1. CASE request.pc # "idle"
    BY <1>1, <2>1 DEF OneAtATime
  <2>2. CASE request.pc = "idle" /\ single.pc # "idle"
    BY <1>1, <2>2 DEF OneAtATime
  <2>3. CASE request.pc = "idle" /\ single.pc = "idle" /\ swap.pc # "idle"
    BY <1>1, <2>3 DEF OneAtATime
  <2>4. CASE request.pc = "idle" /\ single.pc = "idle" /\ swap.pc = "idle"
    BY <2>4
  <2>. QED  BY <2>1, <2>2, <2>3, <2>4
<1> HIDE DEF Busy
<1>3. PICK busy : Busy \subseteq {busy}
  BY <1>2
<1>4. IsFiniteSet({busy}) /\ Cardinality({busy}) = 1
  BY FS_Singleton
<1>5. Cardinality(Busy) <= 1
  BY <1>3, <1>4, FS_Subset
<1>. QED  BY <1>5 DEF Busy

LEMMA TypesFollow ==
  ASSUME ReadsInv
  PROVE  ReadsTypeOK
<1>1. TypeOK
  BY RequestTypes
<1>2. SingleTypeOK
  BY DEF ReadsInv, SingleOK, SingleRecords, SingleSteps, Statuses, SingleTypeOK
<1>3. SwapTypeOK
  <2>1. PICK w \in SwapRecords : w = swap
    BY DEF ReadsInv, SwapOK
  <2>2. DOMAIN w.bought \subseteq Orders
    BY DEF SwapRecords, PurchasesMade
  <2>3. w.page \subseteq Orders /\ w.known \subseteq Orders
    BY DEF SwapRecords
  <2>4. /\ w.pc \in SwapSteps /\ w.kind \in {"quote", "calldata"} /\ w.status \in SwapStatuses
        /\ w.sell \in Tokens \cup {Unparsable} /\ w.buy \in Tokens \cup {Unparsable}
        /\ w.amount \in Amounts \cup {Unparsable}
    BY DEF SwapRecords
  <2>. QED  BY <2>1, <2>2, <2>3, <2>4 DEF SwapTypeOK, SwapSteps, SwapStatuses
<1>4. TakerTypeOK
  <2>1. PICK k : k = taker
    OBVIOUS
  <2>2. PICK n : n = Len(k.cached)
    OBVIOUS
  <2>3. /\ k \in TakerRecords /\ n <= k.indexed /\ k.cached = Listed(n)
        /\ k.list \in Seq(1..k.indexed) /\ k.slice \in Seq(1..k.indexed)
        /\ k.got \cup k.skipped \subseteq 1..k.indexed /\ k.first \subseteq 1..n
    BY <2>1, <2>2 DEF ReadsInv, TakerOK
  <2>4. n \in Nat /\ k.indexed \in Nat /\ k.size \in Nat \ {0} /\ k.page \in Nat \ {0}
        /\ k.pc \in {"idle", "list", "resolve", "done"}
    BY <2>2, <2>3 DEF TakerRecords
  <2>5. 1..n \subseteq 1..k.indexed
    BY <2>3, <2>4, LongerInterval
  <2>6. k.cached \in Seq(1..k.indexed)
    <3>1. k.cached \in Seq(1..n)
      BY <2>3, <2>4, ListedFacts
    <3>. QED  BY <2>5, <3>1, SeqWidens
  <2>. QED  BY <2>1, <2>3, <2>4, <2>5, <2>6 DEF TakerTypeOK
<1>5. Cardinality({pc \in {<<1, request.pc>>, <<2, single.pc>>, <<3, swap.pc>>, <<4, taker.pc>>} :
            pc[2] # "idle"}) <= 1
  BY OneRequest
<1>. QED  BY <1>1, <1>2, <1>3, <1>4, <1>5 DEF ReadsTypeOK

\* Types of all four kinds of request; an answer has a result for everything that
\* was asked, and there is one request at a time.
THEOREM TypeCorrect ==
  ReadsSpec => []ReadsTypeOK
<1>1. ReadsInv => ReadsTypeOK
  BY TypesFollow
<1>. QED  BY <1>1, ReadsInvariant, PTL

-----------------------------------------------------------------------------
\* The quote's amounts: what is bought, and from whom.

\* The orders are listed, and of the pair.
OfThePair(w, some) == some \subseteq {orders[i] : i \in OfPair(w.sell, w.buy)}
\* The purchase is within the amount and what its orders have.
Affordable(w) ==
    /\ w.bought \in [DOMAIN w.bought -> Nat] /\ OfThePair(w, DOMAIN w.bought)
    /\ \A o \in DOMAIN w.bought : w.bought[o] <= Capacity[o]
    /\ w.amount \in Nat /\ Total(w.bought) <= w.amount /\ Total(w.bought) # 0
QuoteOK(w) ==
    w.kind = "quote" =>
        /\ w.pc \in {"candidates", "simulate"} => OfThePair(w, w.page)
        /\ w.pc = "reply" /\ w.status = 200 => Affordable(w)

LEMMA MovesKeepQuote ==
  ASSUME ListingOK, Moves, NEW w, QuoteOK(w)
  PROVE  QuoteOK(w)'
<1>1. {orders[i] : i \in OfPair(w.sell, w.buy)} \subseteq {orders[i] : i \in OfPair(w.sell, w.buy)}'
  <2>1. ASSUME NEW i \in OfPair(w.sell, w.buy)
        PROVE  \E j \in OfPair(w.sell, w.buy)' : orders'[j] = orders[i]
    <3>1. i \in DOMAIN orders /\ Takes[orders[i]] = w.sell /\ Gives[orders[i]] = w.buy
      BY DEF OfPair
    <3>2. PICK j \in DOMAIN orders' : orders'[j] = orders[i]
      BY <3>1, MovesGrow
    <3>. QED  BY <3>1, <3>2 DEF OfPair
  <2>. QED  BY <2>1
<1>2. \A some : OfThePair(w, some) => OfThePair(w, some)'
  BY <1>1 DEF OfThePair
<1>3. Affordable(w) => Affordable(w)'
  BY <1>2 DEF Affordable
<1>. QED  BY <1>2, <1>3 DEF QuoteOK

LEMMA StillQuote ==
  ASSUME UNCHANGED orders, NEW w, QuoteOK(w)
  PROVE  QuoteOK(w)'
<1>1. OfPair(w.sell, w.buy) = OfPair(w.sell, w.buy)'
  BY DEF OfPair
<1>. QED  BY <1>1 DEF QuoteOK, Affordable, OfThePair

\* An error quotes nothing.
LEMMA EndsUnquoted ==
  ASSUME SwapOK(swap), NEW status, NEW said, Ends(status, said), status # 200
  PROVE  QuoteOK(swap')
<1> PICK w : w = swap
  OBVIOUS
<1>1. PICK n : n = [w EXCEPT !.pc = "reply", !.status = status, !.said = said]
  OBVIOUS
<1>2. w \in SwapRecords
  BY DEF SwapOK
<1>3. n.pc = "reply" /\ n.status = status
  BY <1>1, <1>2 DEF SwapRecords
<1>4. QuoteOK(n)
  BY <1>3 DEF QuoteOK
<1>. QED  BY <1>1, <1>4 DEF Ends

LEMMA QuoteStep ==
  ASSUME ListingOK, SwapOK(swap), QuoteOK(swap), SwapBegins \/ SwapServes
  PROVE  QuoteOK(swap')
<1> PICK w : w = swap
  OBVIOUS
<1>0. w \in SwapRecords /\ QuoteOK(w)
  BY DEF SwapOK
<1>8. \A said : (Ends(404, said) => QuoteOK(swap')) /\ (Ends(400, said) => QuoteOK(swap'))
  BY EndsUnquoted
<1>1. CASE SwapBegins
  <2>1. swap'.pc = "orders"
    BY <1>1 DEF SwapBegins, StartSwap, IdleSwap
  <2>. QED  BY <2>1 DEF QuoteOK
<1>2. CASE ReadPair
  <2>1. PICK S : S = OfPair(w.sell, w.buy)
    OBVIOUS
  <2>2. PICK page : page = Slice(Increasing(S), 1, DefaultPageSize)
    OBVIOUS
  <2>3. ToSet(page) \subseteq S
    <3>1. orders \in Seq(Orders) /\ DOMAIN orders = 1..Len(orders) /\ Len(orders) \in Nat
      BY DEF ListingOK
    <3>2. S \subseteq DOMAIN orders
      BY <2>1 DEF OfPair
    <3>3. IsFiniteSet(1..Len(orders))
      BY <3>1, FS_Interval
    <3>4. S \subseteq Nat /\ IsFiniteSet(S)
      BY <3>1, <3>2, <3>3, FS_Subset
    <3>5. PICK list : list = Increasing(S)
      OBVIOUS
    <3>6. list \in Seq(S) /\ ToSet(list) = S
      BY <3>4, <3>5, IncreasingFacts
    <3>7. PICK one \in Nat \ {0}, size \in Nat : one = 1 /\ size = DefaultPageSize
      BY PageAssumption
    <3>8. ToSet(Slice(list, one, size)) \subseteq ToSet(list)
      BY <3>6, SliceFacts
    <3>. QED  BY <2>2, <3>5, <3>6, <3>7, <3>8
  <2>4. CASE Ends(404, "no liquidity")
    BY <1>8, <2>4, Zenon
  <2>5. CASE swap' = [w EXCEPT !.pc = "candidates", !.page = {orders[i] : i \in ToSet(page)}]
    <3>1. PICK found : found = {orders[i] : i \in ToSet(page)}
      OBVIOUS
    <3>2. found \subseteq {orders[i] : i \in S}
      BY <2>3, <3>1
    <3>3. PICK n : n = [w EXCEPT !.pc = "candidates", !.page = found]
      OBVIOUS
    <3>4. n.pc = "candidates" /\ n.page = found /\ n.sell = w.sell /\ n.buy = w.buy
      BY <1>0, <3>3 DEF SwapRecords
    <3>5. OfThePair(n, n.page)
      BY <2>1, <3>2, <3>4 DEF OfThePair
    <3>6. QuoteOK(n)
      BY <3>4, <3>5 DEF QuoteOK
    <3>. QED  BY <2>5, <3>1, <3>3, <3>6
  <2>. QED  BY <1>2, <2>1, <2>2, <2>4, <2>5 DEF ReadPair
<1>3. CASE BuildCandidates
  <2>1. PICK candidates \in SUBSET w.page :
          IF candidates = {} THEN Ends(404, "no candidates")
          ELSE IF w.amount = Unparsable THEN Ends(400, "bad amount")
          ELSE swap' = [w EXCEPT !.pc = "simulate", !.page = candidates]
    BY <1>3 DEF BuildCandidates
  <2>2. CASE Ends(404, "no candidates") \/ Ends(400, "bad amount")
    BY <1>8, <2>2, Zenon
  <2>3. CASE swap' = [w EXCEPT !.pc = "simulate", !.page = candidates]
    <3>1. PICK n : n = [w EXCEPT !.pc = "simulate", !.page = candidates]
      OBVIOUS
    <3>2. n.pc = "simulate" /\ n.page = candidates /\ n.sell = w.sell /\ n.buy = w.buy
      BY <1>0, <3>1 DEF SwapRecords
    <3>3. OfThePair(w, w.page)
      BY <1>0, <1>3 DEF QuoteOK, BuildCandidates, SwapAt
    <3>4. QuoteOK(n)
      BY <3>2, <3>3 DEF QuoteOK, OfThePair
    <3>. QED  BY <2>3, <3>1, <3>4
  <2>. QED  BY <2>1, <2>2, <2>3
<1>4. CASE Simulate
  <2>1. PICK bought \in Purchases(w.page, w.amount) :
          IF Total(bought) = 0 THEN Ends(404, "no legs")
          ELSE swap' = [w EXCEPT !.pc = "reply", !.status = 200, !.said = "purchase",
                                 !.page = {}, !.bought = bought]
    BY <1>4 DEF Simulate
  <2>2. CASE Ends(404, "no legs")
    BY <1>8, <2>2, Zenon
  <2>3. CASE /\ swap' = [w EXCEPT !.pc = "reply", !.status = 200, !.said = "purchase",
                                  !.page = {}, !.bought = bought]
             /\ Total(bought) # 0
    <3>1. PICK n : n = [w EXCEPT !.pc = "reply", !.status = 200, !.said = "purchase",
                                 !.page = {}, !.bought = bought]
      OBVIOUS
    <3>2. n.bought = bought /\ n.amount = w.amount /\ n.sell = w.sell /\ n.buy = w.buy
          /\ n.pc = "reply"
      BY <1>0, <3>1 DEF SwapRecords
    <3>3. OfThePair(w, w.page) /\ w.amount \in Nat
      BY <1>0, <1>4, MarketAssumption DEF QuoteOK, SwapOK, SwapRecords, Simulate, SwapAt
    <3>4. /\ bought \in [w.page -> 0..w.amount] /\ Total(bought) <= w.amount
          /\ \A o \in w.page : bought[o] <= Capacity[o]
      BY DEF Purchases
    <3>5. DOMAIN bought = w.page /\ bought \in [DOMAIN bought -> Nat]
      BY <3>3, <3>4
    <3>6. OfThePair(n, DOMAIN bought)
      BY <3>2, <3>3, <3>5 DEF OfThePair
    <3>7. Affordable(n)
      BY <2>3, <3>2, <3>3, <3>4, <3>5, <3>6 DEF Affordable
    <3>8. QuoteOK(n)
      BY <3>2, <3>7 DEF QuoteOK
    <3>. QED  BY <2>3, <3>1, <3>8
  <2>. QED  BY <2>1, <2>2, <2>3
<1>5. CASE QuoteCallFails
  BY <1>5, EndsUnquoted DEF QuoteCallFails
<1>6. CASE TakeOrders
  <2>1. PICK status, said : Ends(status, said) /\ w.kind = "calldata"
    BY <1>6 DEF TakeOrders, SwapAt
  <2>2. PICK n : n = [w EXCEPT !.pc = "reply", !.status = status, !.said = said]
    OBVIOUS
  <2>3. n.kind = "calldata"
    BY <1>0, <2>1, <2>2 DEF SwapRecords
  <2>4. QuoteOK(n)
    BY <2>3 DEF QuoteOK
  <2>. QED  BY <2>1, <2>2, <2>4 DEF Ends
<1>7. CASE RespondSwap
  <2>1. swap'.pc = "idle"
    BY <1>7 DEF RespondSwap, IdleSwap
  <2>. QED  BY <2>1 DEF QuoteOK
<1>. QED  BY <1>1, <1>2, <1>3, <1>4, <1>5, <1>6, <1>7 DEF SwapServes

\* Sums of a purchase: it has terms, each has a price, and the sums keep within
\* what the terms keep within.
LEMMA PurchaseFacts ==
  ASSUME ListingOK, NEW w, Affordable(w),
         NEW bought, bought = w.bought, NEW legs, legs = {o \in DOMAIN bought : bought[o] > 0}
  PROVE  /\ Total(bought) \in Nat /\ Cost(bought) \in Nat
         /\ Total(bought) <= MapThenSumSet(LAMBDA o : Capacity[o], legs)
         /\ Cost(bought) >= Total(bought) * Min({Price[o] : o \in legs})
         /\ Cost(bought) <= Total(bought) * Max({Price[o] : o \in legs})
<1>1. PICK S : S = DOMAIN bought
  OBVIOUS
<1>2. S \subseteq ToSet(orders) /\ S \subseteq Orders
  <2>1. S \subseteq {orders[i] : i \in OfPair(w.sell, w.buy)}
    BY <1>1 DEF Affordable, OfThePair
  <2>2. OfPair(w.sell, w.buy) \subseteq DOMAIN orders
    BY DEF OfPair
  <2>3. {orders[i] : i \in DOMAIN orders} = ToSet(orders) /\ ToSet(orders) \subseteq Orders
    BY DEF ListingOK, ToSet
  <2>. QED  BY <2>1, <2>2, <2>3
<1>3. IsFiniteSet(S)
  <2>1. orders \in [1..Len(orders) -> ToSet(orders)] /\ Len(orders) \in Nat
    BY DEF ListingOK, ToSet
  <2>2. orders \in Surjection(1..Len(orders), ToSet(orders))
    BY <2>1 DEF Surjection, ToSet
  <2>3. IsFiniteSet(1..Len(orders))
    BY <2>1, FS_Interval
  <2>4. IsFiniteSet(ToSet(orders))
    BY <2>2, <2>3, FS_Surjection
  <2>. QED  BY <1>2, <2>4, FS_Subset
<1>4. /\ bought \in [S -> Nat] /\ \A o \in S : bought[o] <= Capacity[o]
      /\ legs \subseteq S /\ \A o \in S : o \in legs <=> bought[o] > 0
  BY <1>1 DEF Affordable
<1>5. \A o \in S : Capacity[o] \in Nat /\ Price[o] \in Nat
  BY <1>2, MarketAssumption
<1>6. PICK cost : cost = [o \in S |-> bought[o] * Price[o]]
  OBVIOUS
<1>7. \A o \in S : cost[o] = bought[o] * Price[o] /\ cost[o] \in Nat /\ bought[o] \in Nat
  <2>1. \A a, b \in Nat : a * b \in Nat
    OBVIOUS
  <2>. QED  BY <1>4, <1>5, <1>6, <2>1
<1>8. Total(bought) = SumOver(bought, S)
  BY <1>1, Zenon DEF Total, SumOver
<1>9. Cost(bought) = SumOver(cost, S)
  <2> DEFINE fold == CHOOSE f : f = [s \in SUBSET S |->
                        IF s = {} THEN 0
                        ELSE bought[CHOOSE x \in s : TRUE] * Price[CHOOSE x \in s : TRUE]
                             + f[s \ {CHOOSE x \in s : TRUE}]]
  <2>1. Cost(bought) = fold[S]
    BY <1>1, Zenon DEF Cost, MapThenSumSet, MapThenFoldSet
  <2>2. PICK f : SumsAre(f, cost, S)
    BY <1>3, SumsExist
  <2> DEFINE Step(g, s) ==
               IF s = {} THEN 0 ELSE bought[FirstOf(s)] * Price[FirstOf(s)] + g[s \ {FirstOf(s)}]
  <2>3. ASSUME NEW g, NEW s \in SUBSET S PROVE SumStep(g, cost, s) = Step(g, s)
    <3>1. s # {} => cost[FirstOf(s)] = bought[FirstOf(s)] * Price[FirstOf(s)]
      BY <1>7, FirstIn
    <3>. QED  BY <3>1, Zenon DEF SumStep
  <2>4. [s \in SUBSET S |-> SumStep(f, cost, s)] = [s \in SUBSET S |-> Step(f, s)]
    <3>. HIDE DEF Step
    <3>. QED  BY <2>3, Zenon
  <2>5. f = [s \in SUBSET S |-> Step(f, s)]
    <3>. HIDE DEF Step
    <3>. QED  BY <2>2, <2>4, Zenon DEF SumsAre
  <2>6. fold = [s \in SUBSET S |->
                 IF s = {} THEN 0
                 ELSE bought[CHOOSE x \in s : TRUE] * Price[CHOOSE x \in s : TRUE]
                      + fold[s \ {CHOOSE x \in s : TRUE}]]
    BY <2>5, Zenon DEF FirstOf
  <2>. HIDE DEF fold
  <2>7. fold = [s \in SUBSET S |-> Step(fold, s)]
    BY <2>6, Zenon DEF FirstOf
  <2>8. \A s \in SUBSET S : fold[s] = Step(fold, s)
    <3>. HIDE DEF Step
    <3>. QED  BY <2>7
  <2>9. Sums(fold, cost, S)
    <3>. HIDE DEF Step
    <3>. QED  BY <2>3, <2>8, Zenon DEF Sums
  <2>. QED  BY <1>3, <2>1, <2>9, SumIs
<1>10. Total(bought) \in Nat /\ Cost(bought) \in Nat
  BY <1>3, <1>7, <1>8, <1>9, SumTakesAny
<1>11. Total(bought) <= SumOver(Capacity, legs)
  <2>1. \A x \in S : bought[x] \in Nat
    BY <1>7
  <2>2. \A x \in legs : Capacity[x] \in Nat /\ bought[x] <= Capacity[x]
    BY <1>4, <1>5
  <2>3. \A x \in S \ legs : bought[x] = 0
    BY <1>4, <1>7
  <2>4. legs \in SUBSET S
    BY <1>4
  <2>. QED  BY <1>3, <1>8, <2>1, <2>2, <2>3, <2>4, SumAtMost
<1>12. SumOver(Capacity, legs) = MapThenSumSet(LAMBDA o : Capacity[o], legs)
  BY Zenon DEF SumOver
<1>13. legs # {}
  <2>1. ASSUME legs = {} PROVE FALSE
    <3>1. SumOver(Capacity, legs) = 0
      BY <2>1, SumOfNone
    <3>. QED  BY <1>10, <1>11, <3>1 DEF Affordable
  <2>. QED  BY <2>1
<1>14. PICK prices : prices = {Price[o] : o \in legs}
  OBVIOUS
<1>15. prices \subseteq Nat /\ prices # {}
  BY <1>4, <1>5, <1>13, <1>14
<1>16. PICK low \in prices : \A p \in prices : low <= p
  BY <1>15, LeastNatural
<1>17. PICK high \in prices : \A p \in prices : p <= high
  <2>1. IsFiniteSet(legs)
    BY <1>3, <1>4, FS_Subset
  <2>2. SumOver(Price, legs) \in Nat
    BY <1>4, <1>5, <2>1, SumTakesAny
  <2>3. ASSUME NEW o \in legs PROVE Price[o] <= SumOver(Price, legs)
    <3>1. SumOver(Price, legs) = Price[o] + SumOver(Price, legs \ {o})
      BY <1>4, <1>5, <2>1, SumTakesAny
    <3>2. SumOver(Price, legs \ {o}) \in Nat /\ Price[o] \in Nat
      BY <1>4, <1>5, <2>1, SumTakesAny
    <3>. QED  BY <3>1, <3>2
  <2>4. \A p \in prices : p <= SumOver(Price, legs)
    BY <1>14, <2>3
  <2>. QED  BY <1>15, <2>2, <2>4, GreatestNatural
<1>18. Min(prices) = low
  <2>1. \A x \in prices : (\A y \in prices : x <= y) => x = low
    BY <1>15, <1>16
  <2>. QED  BY <1>16, <2>1, Zenon DEF Min
<1>19. Max(prices) = high
  <2>1. \A x \in prices : (\A y \in prices : x >= y) => x = high
    BY <1>15, <1>17
  <2>2. \A y \in prices : high >= y
    BY <1>15, <1>17
  <2>. QED  BY <1>17, <2>1, <2>2, Zenon DEF Max
<1>20. low \in Nat /\ high \in Nat
  BY <1>15
<1>21. PICK least : least = [o \in S |-> bought[o] * low]
  OBVIOUS
<1>22. PICK most : most = [o \in S |-> bought[o] * high]
  OBVIOUS
<1>23. SumOver(least, S) = Total(bought) * low
  BY <1>3, <1>7, <1>8, <1>20, <1>21, SumScales
<1>24. SumOver(most, S) = Total(bought) * high
  BY <1>3, <1>7, <1>8, <1>20, <1>22, SumScales
<1>25. ASSUME NEW o \in S
       PROVE  /\ least[o] \in Nat /\ most[o] \in Nat
              /\ least[o] <= cost[o] /\ cost[o] <= most[o]
  <2>1. least[o] = bought[o] * low /\ most[o] = bought[o] * high /\ cost[o] = bought[o] * Price[o]
    BY <1>7, <1>21, <1>22
  <2>2. bought[o] \in Nat /\ Price[o] \in Nat
    BY <1>5, <1>7
  <2>3. CASE bought[o] = 0
    <3>1. \A a \in Nat : 0 * a = 0
      OBVIOUS
    <3>. QED  BY <1>20, <2>1, <2>2, <2>3, <3>1
  <2>4. CASE bought[o] # 0
    <3>1. low <= Price[o] /\ Price[o] <= high
      BY <1>4, <1>14, <1>16, <1>17, <2>2, <2>4
    <3>2. \A b, p, q \in Nat : p <= q => b * p \in Nat /\ b * q \in Nat /\ b * p <= b * q
      <4>1. ASSUME NEW b \in Nat, NEW p \in Nat, NEW q \in Nat, p <= q
            PROVE  b * p \in Nat /\ b * q \in Nat /\ b * p <= b * q
        BY <4>1, TimesGrows
      <4>. QED  BY <4>1
    <3>. QED  BY <1>20, <2>1, <2>2, <3>1, <3>2
  <2>. QED  BY <2>3, <2>4
<1>26. SumOver(least, S) <= SumOver(cost, S)
  <2>1. S \in SUBSET S /\ \A x \in S \ S : least[x] = 0
    OBVIOUS
  <2>2. \A x \in S : least[x] \in Nat
    BY <1>25
  <2>3. \A x \in S : cost[x] \in Nat /\ least[x] <= cost[x]
    BY <1>7, <1>25
  <2>. QED  BY <1>3, <2>1, <2>2, <2>3, SumAtMost
<1>27. SumOver(cost, S) <= SumOver(most, S)
  <2>1. S \in SUBSET S /\ \A x \in S \ S : cost[x] = 0
    OBVIOUS
  <2>2. \A x \in S : cost[x] \in Nat
    BY <1>7
  <2>3. \A x \in S : most[x] \in Nat /\ cost[x] <= most[x]
    BY <1>25
  <2>. QED  BY <1>3, <2>1, <2>2, <2>3, SumAtMost
<1>28. Total(bought) * low \in Nat /\ Total(bought) * high \in Nat
  BY <1>10, <1>20, TimesGrows
<1>29. /\ Cost(bought) >= Total(bought) * low
       /\ Cost(bought) <= Total(bought) * high
  BY <1>9, <1>10, <1>23, <1>24, <1>26, <1>27, <1>28
<1>. QED  BY <1>10, <1>11, <1>12, <1>14, <1>18, <1>19, <1>29

\* POST /v1/swap/quote: a quote is covered by listed orders of its pair, its input is
\* what they ask, and its ratio is that of its two amounts.
THEOREM QuotesAreCovered ==
  ReadsSpec => []QuoteIsCovered
<1>1. ReadsInit => QuoteOK(swap)
  <2>1. ASSUME ReadsInit PROVE swap.pc = "idle"
    BY <2>1 DEF ReadsInit, SwapInit, IdleSwap
  <2>. QED  BY <2>1 DEF QuoteOK
<1>2. ReadsInv /\ QuoteOK(swap) /\ [ReadsNext]_<<vars, single, swap, taker>> => QuoteOK(swap)'
  <2> SUFFICES ASSUME ReadsInv, QuoteOK(swap), [ReadsNext]_<<vars, single, swap, taker>>
               PROVE  QuoteOK(swap)'
    OBVIOUS
  <2> PICK w, n : w = swap /\ n = swap'
    OBVIOUS
  <2>1. CASE Moves /\ UNCHANGED <<single, swap, taker>>
    <3>1. QuoteOK(w)' /\ n = w
      BY <2>1, MovesKeepQuote DEF ReadsInv
    <3>. QED  BY <3>1
  <2>2. CASE SwapBegins \/ SwapServes
    <3>1. QuoteOK(n) /\ UNCHANGED orders
      BY <2>2, QuoteStep, SwapStep DEF ReadsInv, vars
    <3>2. QuoteOK(n)'
      BY <3>1, StillQuote
    <3>. QED  BY <3>2
  <2>3. CASE UNCHANGED <<orders, swap>>
    <3>1. QuoteOK(w)' /\ n = w
      BY <2>3, StillQuote
    <3>. QED  BY <3>1
  <2>4. \/ Moves /\ UNCHANGED <<single, swap, taker>>
        \/ SwapBegins \/ SwapServes
        \/ UNCHANGED <<orders, swap>>
    <3>1. UNCHANGED <<vars, single, swap, taker>> => UNCHANGED <<orders, swap>>
      BY DEF vars
    <3>2. Begins \/ Serves => UNCHANGED orders
      BY RequestStep DEF ReadsInv
    <3>3. SingleBegins \/ SingleServes => UNCHANGED orders
      BY SingleStep DEF ReadsInv, vars
    <3>4. TakerBegins \/ TakerServes => UNCHANGED orders
      BY TakerStep DEF ReadsInv, vars
    <3>. QED  BY <3>1, <3>2, <3>3, <3>4, Zenon DEF ReadsNext
  <2>. QED  BY <2>1, <2>2, <2>3, <2>4
<1>3. ASSUME ReadsInv, QuoteOK(swap) PROVE QuoteIsCovered
  <2> SUFFICES ASSUME SwapReplied("quote", 200) PROVE QuoteIsCovered
    BY DEF QuoteIsCovered
  <2>1. PICK w : w = swap
    OBVIOUS
  <2>2. Affordable(w)
    BY <1>3, <2>1 DEF QuoteOK, SwapReplied, SwapAt
  <2>3. PICK bought, legs : bought = w.bought /\ legs = {o \in DOMAIN bought : bought[o] > 0}
    OBVIOUS
  <2>4. ASSUME NEW o \in legs
        PROVE  o \in ToSet(orders) /\ Takes[o] = w.sell /\ Gives[o] = w.buy
    BY <2>2, <2>3 DEF Affordable, OfThePair, OfPair, ToSet
  <2>5. /\ Total(bought) \in Nat /\ Cost(bought) \in Nat
        /\ Total(bought) <= MapThenSumSet(LAMBDA o : Capacity[o], legs)
        /\ Cost(bought) >= Total(bought) * Min({Price[o] : o \in legs})
        /\ Cost(bought) <= Total(bought) * Max({Price[o] : o \in legs})
    BY <1>3, <2>2, <2>3, PurchaseFacts DEF ReadsInv
  <2>6. Total(bought) <= w.amount
    BY <2>2, <2>3 DEF Affordable
  <2>7. PICK q : q = Quote
    OBVIOUS
  <2>8. /\ q.estimated_output = Total(bought) /\ q.estimated_input = Cost(bought)
        /\ q.ratio[1] = Cost(bought) /\ q.ratio[2] = Total(bought)
    BY <2>1, <2>3, <2>7 DEF Quote
  <2>9. Cost(bought) * Total(bought) = Total(bought) * Cost(bought)
    <3>1. \A a, b \in Nat : a * b = b * a
      OBVIOUS
    <3>. QED  BY <2>5, <3>1
  <2>10. swap.bought = bought /\ swap.sell = w.sell /\ swap.buy = w.buy /\ swap.amount = w.amount
    BY <2>1, <2>3
  <2>. QED  BY <2>3, <2>4, <2>5, <2>6, <2>7, <2>8, <2>9, <2>10, Zenon DEF QuoteIsCovered
<1>. QED  BY <1>1, <1>2, <1>3, ReadsInvariant, PTL DEF ReadsSpec
=============================================================================
