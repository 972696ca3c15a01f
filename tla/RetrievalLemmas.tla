--------------------------- MODULE RetrievalLemmas ---------------------------
(***************************************************************************)
(* What the operators of a retrieval call compute, whatever their          *)
(* arguments: fusion by reciprocal ranks, the walk over relationships and  *)
(* the assembly of the bundle.                                             *)
(***************************************************************************)
EXTENDS RetrievalSafety, SequenceLemmas

-----------------------------------------------------------------------------
(* The common denominator of the scores.                                   *)

(* The place of a chunk that is in no list is a number.                    *)
LEMMA UnrankedTyped == Unranked \in Nat
  BY SMT DEF Unranked

(* The bounds of fusion are numbers.                                       *)
LEMMA BoundsTyped ==
  /\ MaxRank \in Nat /\ MaxRank < Unranked
  /\ RankConstant \in Nat \ {0} /\ Weight \in [Lists -> Nat]
  BY FusionConstants, UnrankedTyped

(* Products of numbers are numbers.                                        *)
LEMMA Times ==
  ASSUME NEW a \in Nat, NEW b \in Nat
  PROVE  a * b \in Nat
  OBVIOUS

(* Products associate.                                                     *)
LEMMA TimesThird ==
  ASSUME NEW a \in Nat, NEW b \in Nat, NEW c \in Nat
  PROVE  a * (b * c) = (a * b) * c
  OBVIOUS

(* Products of positive numbers are positive.                              *)
LEMMA TimesPositive ==
  ASSUME NEW a \in Nat \ {0}, NEW b \in Nat \ {0}
  PROVE  a * b \in Nat \ {0}
  OBVIOUS

(* A multiple divided by its factor.                                       *)
LEMMA DivExact ==
  ASSUME NEW a \in Nat \ {0}, NEW q \in Nat
  PROVE  (q * a) \div a = q
  OBVIOUS

(* In equal products the smaller factor goes with the larger one.          *)
LEMMA LessTimes ==
  ASSUME NEW a \in Nat \ {0}, NEW b \in Nat, a < b,
         NEW q \in Nat, NEW r \in Nat \ {0}, q * a = r * b
  PROVE  q > r
  OBVIOUS

(* Multiplication keeps the order, strictly for a positive factor.         *)
LEMMA TimesLess ==
  ASSUME NEW w \in Nat, NEW q \in Nat, NEW r \in Nat, r <= q
  PROVE  /\ w * r <= w * q
         /\ w > 0 /\ r < q => w * r < w * q
  OBVIOUS

(* The denominator is the last of a sequence of positive products.         *)
LEMMA DenominatorFold ==
  \E f \in [0..MaxRank -> Nat \ {0}] :
     /\ f[0] = 1 /\ Denominator = f[MaxRank]
     /\ \A i \in 1..MaxRank : f[i] = (RankConstant + i) * f[i - 1]
  <1> DEFINE N == MaxRank
             B == Nat \ {0}
             Eq(f) == f = [n \in 0..N |-> IF n = 0 THEN 1 ELSE (RankConstant + n) * f[n - 1]]
             step == [p \in (1..N) \X B |-> (RankConstant + p[1]) * p[2]]
  <1>1. N \in Nat /\ RankConstant \in Nat \ {0} /\ 1 \in B
    BY BoundsTyped
  <1>2. Denominator = (CHOOSE g : Eq(g))[N]
    BY DEF Denominator
  <1>3. step \in [(1..N) \X B -> B]
    <2>1. \A i \in 1..N, b \in B : (RankConstant + i) * b \in B
      <3> SUFFICES ASSUME NEW i \in 1..N, NEW b \in B
                   PROVE  (RankConstant + i) * b \in B
        OBVIOUS
      <3>1. RankConstant + i \in Nat \ {0}
        BY <1>1
      <3> QED
        BY <3>1, TimesPositive
    <2> HIDE DEF B
    <2> QED
      BY <2>1
  <1>4. PICK f : IsFold(f, N, B, 1, step)
    <2> HIDE DEF step, N, B
    <2> QED
      BY <1>1, <1>3, FoldDefined, Zenon
  <1>5. ASSUME NEW i \in 1..N
        PROVE  f[i] = (RankConstant + i) * f[i - 1]
    <2>1. f[i - 1] \in B
      BY <1>1, <1>4 DEF IsFold
    <2>2. step[<<i, f[i - 1]>>] = (RankConstant + i) * f[i - 1]
      BY <2>1
    <2> HIDE DEF step
    <2> QED
      BY <1>4, <2>2 DEF IsFold
  <1>6. Eq(f)
    BY <1>4, <1>5, <1>1 DEF IsFold
  <1>7. Eq(CHOOSE g : Eq(g))
    <2> HIDE DEF Eq
    <2> QED
      BY <1>6
  <1> DEFINE g == CHOOSE h : Eq(h)
  <1>8. PICK h : h = g
    OBVIOUS
  <1>9. h = [n \in 0..N |-> IF n = 0 THEN 1 ELSE (RankConstant + n) * h[n - 1]]
    <2>1. Eq(h)
      <3> HIDE DEF Eq
      <3> QED
        BY <1>7, <1>8
    <2> QED
      BY <2>1
  <1>10. h[N] = Denominator
    BY <1>2, <1>8
  <1> HIDE DEF Eq, g
  <1>11. /\ h = [n \in 0..N |-> h[n]] /\ h[0] = 1
         /\ \A i \in 1..N : h[i] = (RankConstant + i) * h[i - 1]
    BY <1>1, <1>9
  <1>12. \A i \in 1..N : h[i - 1] \in B => h[i] = step[<<i, h[i - 1]>>]
    BY <1>11
  <1>13. IsFold(h, N, B, 1, step)
    <2> HIDE DEF step, N, B
    <2> QED
      BY <1>1, <1>3, <1>11, <1>12, FoldTyped, Zenon
  <1>14. h \in [0..N -> B]
    BY <1>13 DEF IsFold
  <1> QED
    BY <1>10, <1>11, <1>14

(* Every place of a list divides it.                                       *)
LEMMA DenominatorDivides ==
  ASSUME NEW r \in 1..MaxRank
  PROVE  \E q \in Nat \ {0} : /\ Denominator = q * (RankConstant + r)
                             /\ Denominator \div (RankConstant + r) = q
  <1>1. PICK f \in [0..MaxRank -> Nat \ {0}] :
           /\ f[0] = 1 /\ Denominator = f[MaxRank]
           /\ \A i \in 1..MaxRank : f[i] = (RankConstant + i) * f[i - 1]
    BY DenominatorFold
  <1>2. MaxRank \in Nat /\ RankConstant \in Nat
    BY BoundsTyped
  <1> DEFINE T == {i \in 0..MaxRank :
                     r <= i => \E q \in Nat \ {0} : f[i] = q * (RankConstant + r)}
  <1>3. 0 \in T
    BY <1>2
  <1>4. ASSUME NEW i \in 1..MaxRank, i - 1 \in T
        PROVE  i \in T
    <2>1. i \in 0..MaxRank /\ i - 1 \in 0..MaxRank
      BY <1>2
    <2>2. /\ f[i - 1] \in Nat \ {0} /\ f[i] = (RankConstant + i) * f[i - 1]
          /\ RankConstant + i \in Nat \ {0}
      BY <1>1, <1>2, <2>1
    <2>3. CASE r = i
      <3>1. f[i] = f[i - 1] * (RankConstant + r)
        BY <1>2, <2>2, <2>3
      <3> QED
        BY <2>1, <2>2, <3>1
    <2>4. CASE r <= i - 1
      <3>1. PICK q \in Nat \ {0} : f[i - 1] = q * (RankConstant + r)
        BY <1>4, <2>4
      <3>2. (RankConstant + i) * (q * (RankConstant + r)) =
              ((RankConstant + i) * q) * (RankConstant + r)
        BY <1>2, <2>2, TimesThird
      <3>3. (RankConstant + i) * q \in Nat \ {0}
        BY <2>2, TimesPositive
      <3> QED
        BY <2>1, <2>2, <3>1, <3>2, <3>3
    <2>5. CASE r > i
      BY <2>1, <2>5
    <2> QED
      BY <1>2, <2>3, <2>4, <2>5
  <1>5. 0..MaxRank \subseteq T
    <2> HIDE DEF T
    <2> QED
      BY <1>2, <1>3, <1>4, UpToInduction
  <1>6. PICK q \in Nat \ {0} : f[MaxRank] = q * (RankConstant + r)
    <2>1. MaxRank \in T
      <3>1. MaxRank \in 0..MaxRank
        BY <1>2
      <3> HIDE DEF T
      <3> QED
        BY <1>5, <3>1
    <2> QED
      BY <2>1
  <1>7. RankConstant + r \in Nat \ {0}
    BY <1>2
  <1> QED
    BY <1>1, <1>6, <1>7, DivExact

-----------------------------------------------------------------------------
(* Ranks and shares.                                                       *)

List == {l \in Seq(Chunks) : Len(l) <= MaxRank}

(* A chunk's place in a list of a call.                                    *)
LEMMA RankFacts ==
  ASSUME NEW list \in List, NEW c
  PROVE  /\ Rank(list, c) \in Nat
         /\ Ranks(list, c) = {} => Rank(list, c) = Unranked
         /\ Ranks(list, c) # {} => Rank(list, c) \in 1..MaxRank
  <1>1. DOMAIN list = 1..Len(list) /\ Len(list) \in Nat /\ Len(list) <= MaxRank
    BY LenProperties DEF List
  <1>2. Ranks(list, c) \subseteq 1..MaxRank /\ Ranks(list, c) \subseteq Nat
    BY <1>1, BoundsTyped DEF Ranks
  <1>3. CASE Ranks(list, c) = {}
    BY <1>3, UnrankedTyped DEF Rank
  <1>4. CASE Ranks(list, c) # {}
    <2>1. \E i \in Ranks(list, c) : \A j \in Ranks(list, c) : i <= j
      BY <1>2, <1>4, LeastNumber
    <2>2. Rank(list, c) \in Ranks(list, c)
      BY <1>4, <2>1, Zenon DEF Rank
    <2> QED
      BY <1>2, <1>4, <2>2
  <1> QED
    BY <1>3, <1>4

(* A better rank is worth no less, and more if the list has a weight.      *)
LEMMA ShareFacts ==
  ASSUME NEW p \in Lists, NEW list \in List, NEW c, NEW d,
         Rank(list, c) <= Rank(list, d)
  PROVE  /\ Share(p, list, c) \in Nat /\ Share(p, list, d) \in Nat
         /\ Share(p, list, d) <= Share(p, list, c)
         /\ Rank(list, c) < Rank(list, d) /\ Weight[p] > 0 =>
              Share(p, list, d) < Share(p, list, c)
  <1>1. Weight[p] \in Nat /\ RankConstant \in Nat /\ MaxRank \in Nat /\ MaxRank < Unranked
    BY BoundsTyped
  <1> DEFINE Unit(e) == Denominator \div (RankConstant + Rank(list, e))
  <1>2. \A e : Ranks(list, e) # {} => Unit(e) \in Nat \ {0}
    BY RankFacts, DenominatorDivides
  <1>3. \A e : Share(p, list, e) =
                 IF Ranks(list, e) = {} THEN 0 ELSE Weight[p] * Unit(e)
    BY DEF Share
  <1>4. CASE Ranks(list, d) = {}
    <2>1. Share(p, list, d) = 0
      BY <1>3, <1>4
    <2>2. CASE Ranks(list, c) = {}
      BY <1>3, <1>4, <2>2, RankFacts
    <2>3. CASE Ranks(list, c) # {}
      <3>1. Share(p, list, c) = Weight[p] * Unit(c) /\ Unit(c) \in Nat \ {0}
        BY <1>2, <1>3, <2>3
      <3> HIDE DEF Unit
      <3>2. Weight[p] * 0 <= Weight[p] * Unit(c) /\ Weight[p] * Unit(c) \in Nat
            /\ (Weight[p] > 0 => Weight[p] * 0 < Weight[p] * Unit(c))
        BY <1>1, <3>1, TimesLess, Times
      <3> QED
        BY <1>1, <2>1, <3>1, <3>2
    <2> QED
      BY <2>2, <2>3
  <1>5. CASE Ranks(list, d) # {}
    <2>1. Rank(list, d) \in 1..MaxRank /\ Rank(list, c) \in Nat
      BY <1>5, RankFacts
    <2>2. Ranks(list, c) # {}
      BY <1>1, <2>1, RankFacts
    <2>3. Rank(list, c) \in 1..MaxRank
      BY <2>2, RankFacts
    <2>4. PICK q \in Nat \ {0} : /\ Denominator = q * (RankConstant + Rank(list, c))
                                /\ Unit(c) = q
      BY <2>3, DenominatorDivides
    <2>5. PICK r \in Nat \ {0} : /\ Denominator = r * (RankConstant + Rank(list, d))
                                /\ Unit(d) = r
      BY <2>1, DenominatorDivides
    <2>6. Share(p, list, c) = Weight[p] * q /\ Share(p, list, d) = Weight[p] * r
      BY <1>3, <1>5, <2>2, <2>4, <2>5
    <2> HIDE DEF Unit
    <2>7. Rank(list, c) < Rank(list, d) => q > r
      <3>1. RankConstant + Rank(list, c) \in Nat \ {0} /\ RankConstant + Rank(list, d) \in Nat
        BY <1>1, <2>1, <2>3
      <3> QED
        BY <1>1, <2>1, <2>3, <2>4, <2>5, <3>1, LessTimes
    <2>8. Rank(list, c) = Rank(list, d) => q = r
      <3>1. Rank(list, c) = Rank(list, d) => Unit(c) = Unit(d)
        BY DEF Unit
      <3> QED
        BY <2>4, <2>5, <3>1
    <2>9. r <= q
      BY <2>1, <2>3, <2>7, <2>8
    <2> QED
      BY <1>1, <2>6, <2>7, <2>9, TimesLess, Times
  <1> QED
    BY <1>4, <1>5

-----------------------------------------------------------------------------
(* Sort keys.                                                              *)

(* Tuples of n numbers, compared from the left, are strictly ordered.      *)
LEMMA KeyOrder ==
  ASSUME NEW n \in Nat, NEW k \in [1..n -> Int], NEW l \in [1..n -> Int],
         NEW m \in [1..n -> Int]
  PROVE  /\ ~SortsBefore(k, k)
         /\ SortsBefore(k, l) /\ SortsBefore(l, m) => SortsBefore(k, m)
         /\ k # l => SortsBefore(k, l) \/ SortsBefore(l, k)
  <1>1. ~SortsBefore(k, k)
    BY DEF SortsBefore
  <1>2. ASSUME SortsBefore(k, l), SortsBefore(l, m)
        PROVE  SortsBefore(k, m)
    <2>1. PICK i \in 1..n : k[i] < l[i] /\ \A j \in 1..(i - 1) : k[j] = l[j]
      BY <1>2 DEF SortsBefore
    <2>2. PICK h \in 1..n : l[h] < m[h] /\ \A j \in 1..(h - 1) : l[j] = m[j]
      BY <1>2 DEF SortsBefore
    <2>3. \A j \in 1..n : k[j] \in Int /\ l[j] \in Int /\ m[j] \in Int
      OBVIOUS
    <2>4. CASE i <= h
      <3>1. k[i] < m[i]
        <4>1. l[i] < m[i] \/ l[i] = m[i]
          BY <2>2, <2>4
        <4> QED
          BY <2>1, <2>3, <4>1
      <3>2. \A j \in 1..(i - 1) : k[j] = m[j]
        BY <2>1, <2>2, <2>4
      <3> QED
        BY <3>1, <3>2 DEF SortsBefore
    <2>5. CASE h < i
      <3>1. k[h] < m[h]
        BY <2>1, <2>2, <2>3, <2>5
      <3>2. \A j \in 1..(h - 1) : k[j] = m[j]
        BY <2>1, <2>2, <2>5
      <3> QED
        BY <3>1, <3>2 DEF SortsBefore
    <2> QED
      BY <2>4, <2>5
  <1>3. ASSUME k # l
        PROVE  SortsBefore(k, l) \/ SortsBefore(l, k)
    <2> DEFINE T == {i \in 1..n : k[i] # l[i]}
    <2>1. T \subseteq Nat /\ T # {}
      <3>1. \E i \in 1..n : k[i] # l[i]
        <4>1. k = [i \in 1..n |-> k[i]] /\ l = [i \in 1..n |-> l[i]]
          OBVIOUS
        <4> QED
          BY <1>3, <4>1, Zenon
      <3>2. T \subseteq 1..n
        OBVIOUS
      <3>3. 1..n \subseteq Nat
        OBVIOUS
      <3> QED
        BY <3>1, <3>2, <3>3, Zenon
    <2>2. PICK i \in T : \A j \in T : i <= j
      <3> HIDE DEF T
      <3> QED
        BY <2>1, LeastNumber
    <2>3. \A j \in 1..(i - 1) : k[j] = l[j]
      BY <2>2
    <2>4. k[i] < l[i] \/ l[i] < k[i]
      BY <2>2
    <2>5. i \in 1..n
      BY <2>2
    <2>6. CASE k[i] < l[i]
      BY <2>3, <2>5, <2>6 DEF SortsBefore
    <2>7. CASE l[i] < k[i]
      <3>1. \A j \in 1..(i - 1) : l[j] = k[j]
        BY <2>3
      <3> QED
        BY <2>5, <2>7, <3>1 DEF SortsBefore
    <2> QED
      BY <2>4, <2>6, <2>7
  <1> QED
    BY <1>1, <1>2, <1>3

FourLists(found) ==
  /\ DOMAIN found \subseteq Lists /\ Paths \subseteq DOMAIN found
  /\ \A p \in DOMAIN found : found[p] \in List

ListNames == /\ Lists = {"exact", "bm25", "vector", "relationship"}
             /\ Paths = {"exact", "bm25", "vector"}

(* The lists by name.                                                      *)
LEMMA ListsNamed == ListNames
  BY RetrievalConstants DEF ListNames

(* What the lists hold is a finite set of chunks.                          *)
LEMMA FoundFacts ==
  ASSUME NEW found, FourLists(found)
  PROVE  Found(found) \subseteq Chunks /\ IsFiniteSet(Found(found))
  <1>1. \A p \in DOMAIN found : ToSet(found[p]) \subseteq Chunks
    BY DEF FourLists, List, ToSet
  <1>2. ASSUME NEW p \in DOMAIN found
        PROVE  IsFiniteSet(ToSet(found[p]))
    <2>1. found[p] \in Seq(Chunks)
      BY DEF FourLists, List
    <2>2. DOMAIN found[p] = 1..Len(found[p]) /\ Len(found[p]) \in Nat
      BY <2>1, LenProperties
    <2>3. IsFiniteSet(DOMAIN found[p])
      BY <2>2, FS_Interval
    <2>4. found[p] \in Surjection(DOMAIN found[p], ToSet(found[p]))
      BY <2>1 DEF Surjection, ToSet
    <2> QED
      BY <2>3, <2>4, FS_Surjection
  <1>3. IsFiniteSet(DOMAIN found)
    <2>1. IsFiniteSet({"exact", "bm25", "vector", "relationship"})
      <3>1. IsFiniteSet({"exact"})
        BY FS_Singleton
      <3>2. IsFiniteSet({"exact"} \cup {"bm25"})
        BY <3>1, FS_AddElement
      <3>3. IsFiniteSet(({"exact"} \cup {"bm25"}) \cup {"vector"})
        BY <3>2, FS_AddElement
      <3>4. IsFiniteSet((({"exact"} \cup {"bm25"}) \cup {"vector"}) \cup {"relationship"})
        BY <3>3, FS_AddElement
      <3>5. {"exact", "bm25", "vector", "relationship"} =
              (({"exact"} \cup {"bm25"}) \cup {"vector"}) \cup {"relationship"}
        OBVIOUS
      <3> QED
        BY <3>4, <3>5
    <2> QED
      BY <2>1, ListsNamed, FS_Subset DEF FourLists, ListNames
  <1> DEFINE sets == {ToSet(found[p]) : p \in DOMAIN found}
  <1>4. IsFiniteSet(sets)
    <2> DEFINE f == [p \in DOMAIN found |-> ToSet(found[p])]
    <2>1. f \in Surjection(DOMAIN found, sets)
      BY DEF Surjection
    <2> HIDE DEF f, sets
    <2> QED
      BY <1>3, <2>1, FS_Surjection
  <1>5. Found(found) = UNION sets
    BY DEF Found
  <1>6. \A s \in sets : IsFiniteSet(s)
    BY <1>2
  <1>7. IsFiniteSet(UNION sets)
    <2> HIDE DEF sets
    <2> QED
      BY <1>4, <1>6, FS_UNION
  <1> QED
    BY <1>1, <1>5, <1>7 DEF Found

(* What a list adds to a chunk's score.                                    *)
Added(found, p, c) == IF p \in DOMAIN found THEN Share(p, found[p], c) ELSE 0

(* In one list: no worse a place adds no less, a better one more.          *)
LEMMA AddedFacts ==
  ASSUME NEW found, FourLists(found), NEW p \in Lists, NEW c, NEW d,
         p \in DOMAIN found => Rank(found[p], c) <= Rank(found[p], d)
  PROVE  /\ Added(found, p, c) \in Nat /\ Added(found, p, d) \in Nat
         /\ Added(found, p, d) <= Added(found, p, c)
         /\ p \in DOMAIN found /\ Rank(found[p], c) < Rank(found[p], d) /\ Weight[p] > 0 =>
              Added(found, p, d) < Added(found, p, c)
  <1>1. CASE p \in DOMAIN found
    <2>1. found[p] \in List
      BY <1>1 DEF FourLists
    <2> QED
      BY <1>1, <2>1, ShareFacts DEF Added
  <1>2. CASE p \notin DOMAIN found
    BY <1>2 DEF Added
  <1> QED
    BY <1>1, <1>2

(* A score is the sum over the four lists.                                 *)
LEMMA ScoreIs ==
  ASSUME NEW found, NEW c
  PROVE  Score(found, c) = Added(found, "exact", c) + Added(found, "bm25", c)
                             + Added(found, "vector", c) + Added(found, "relationship", c)
  BY DEF Score, Added

(* Whoever is nowhere worse scores no less, and more where it is better.   *)
LEMMA ScoreFacts ==
  ASSUME NEW found, FourLists(found), NEW c, NEW d,
         \A p \in DOMAIN found : Rank(found[p], c) <= Rank(found[p], d)
  PROVE  /\ Score(found, c) \in Nat /\ Score(found, d) \in Nat
         /\ (\E p \in DOMAIN found : Rank(found[p], c) < Rank(found[p], d) /\ Weight[p] > 0) =>
              Score(found, d) < Score(found, c)
  <1>1. \A p \in Lists :
          /\ Added(found, p, c) \in Nat /\ Added(found, p, d) \in Nat
          /\ Added(found, p, d) <= Added(found, p, c)
          /\ p \in DOMAIN found /\ Rank(found[p], c) < Rank(found[p], d) /\ Weight[p] > 0 =>
               Added(found, p, d) < Added(found, p, c)
    BY AddedFacts
  <1>2. Lists = {"exact", "bm25", "vector", "relationship"} /\ DOMAIN found \subseteq Lists
    BY ListsNamed DEF ListNames, FourLists
  <1> DEFINE e(x) == Added(found, "exact", x)
             b(x) == Added(found, "bm25", x)
             v(x) == Added(found, "vector", x)
             r(x) == Added(found, "relationship", x)
  <1>3. Score(found, c) = e(c) + b(c) + v(c) + r(c) /\ Score(found, d) = e(d) + b(d) + v(d) + r(d)
    BY ScoreIs
  <1>4. /\ e(c) \in Nat /\ e(d) \in Nat /\ e(d) <= e(c)
        /\ b(c) \in Nat /\ b(d) \in Nat /\ b(d) <= b(c)
        /\ v(c) \in Nat /\ v(d) \in Nat /\ v(d) <= v(c)
        /\ r(c) \in Nat /\ r(d) \in Nat /\ r(d) <= r(c)
    BY <1>1, <1>2
  <1>5. ASSUME NEW p \in DOMAIN found, Rank(found[p], c) < Rank(found[p], d), Weight[p] > 0
        PROVE  e(d) < e(c) \/ b(d) < b(c) \/ v(d) < v(c) \/ r(d) < r(c)
    BY <1>1, <1>2, <1>5
  <1> HIDE DEF e, b, v, r
  <1>6. Score(found, c) \in Nat /\ Score(found, d) \in Nat
    BY <1>3, <1>4
  <1>7. e(d) < e(c) \/ b(d) < b(c) \/ v(d) < v(c) \/ r(d) < r(c) =>
          Score(found, d) < Score(found, c)
    BY <1>3, <1>4
  <1> QED
    BY <1>5, <1>6, <1>7

-----------------------------------------------------------------------------
(* The fused list.                                                         *)

(* Sort keys are tuples of integers, higher scores first, the id last.     *)
LEMMA SortKeyFacts ==
  ASSUME NEW found, FourLists(found), NEW w \in BOOLEAN, NEW c \in Chunks
  PROVE  /\ SortKey(found, c, w) \in [1..6 -> Int]
         /\ SortKey(found, c, w)[1] = 0 - Score(found, c)
         /\ SortKey(found, c, w)[6] = KeyOf[c]
  <1>1. "exact" \in DOMAIN found /\ "bm25" \in DOMAIN found /\ "vector" \in DOMAIN found
    BY ListsNamed DEF ListNames, FourLists
  <1>2. /\ Rank(found["exact"], c) \in Int /\ Rank(found["bm25"], c) \in Int
        /\ Rank(found["vector"], c) \in Int
    BY <1>1, RankFacts DEF FourLists
  <1>3. 0 - Score(found, c) \in Int
    <2>1. \A p \in DOMAIN found : Rank(found[p], c) <= Rank(found[p], c)
      BY RankFacts DEF FourLists
    <2>2. Score(found, c) \in Nat
      BY <2>1, ScoreFacts
    <2> QED
      BY <2>2
  <1>4. KeyOf[c] \in Int /\ Authority[c] \in Int
    BY RetrievalConstants
  <1>5. AuthorityKey(found, c, w) \in Int
    BY <1>4, UnrankedTyped DEF AuthorityKey
  <1> DEFINE k1 == 0 - Score(found, c)
             k2 == Rank(found["exact"], c)
             k3 == Rank(found["bm25"], c)
             k4 == Rank(found["vector"], c)
             k5 == AuthorityKey(found, c, w)
             k6 == KeyOf[c]
  <1>6. SortKey(found, c, w) = <<k1, k2, k3, k4, k5, k6>>
    BY DEF SortKey
  <1>7. k1 \in Int /\ k2 \in Int /\ k3 \in Int /\ k4 \in Int /\ k5 \in Int /\ k6 \in Int
    BY <1>2, <1>3, <1>4, <1>5
  <1> HIDE DEF k1, k2, k3, k4, k5, k6
  <1>8. <<k1, k2, k3, k4, k5, k6>> \in [1..6 -> Int]
    BY <1>7
  <1>9. <<k1, k2, k3, k4, k5, k6>>[1] = k1 /\ <<k1, k2, k3, k4, k5, k6>>[6] = k6
    OBVIOUS
  <1> QED
    BY <1>6, <1>8, <1>9 DEF k1, k6

(* Two chunks have two ids.                                                *)
LEMMA KeysDiffer ==
  ASSUME NEW c \in Chunks, NEW d \in Chunks, c # d
  PROVE  KeyOf[c] # KeyOf[d]
  BY RetrievalConstants DEF IsInjective

(* Fusion compares sort keys.                                              *)
LEMMA FusedPairs ==
  ASSUME NEW found, NEW w, NEW c \in Found(found), NEW d \in Found(found)
  PROVE  <<c, d>> \in FusedBefore(found, w) <=>
           SortsBefore(SortKey(found, c, w), SortKey(found, d, w))
  BY DEF FusedBefore

(* Fusion's order is strict and total on what was found.                   *)
LEMMA FusedOrder ==
  ASSUME NEW found, FourLists(found), NEW w \in BOOLEAN
  PROVE  StrictOrder(Found(found), FusedBefore(found, w))
  <1> DEFINE key(c) == SortKey(found, c, w)
             S == Found(found)
             R == FusedBefore(found, w)
  <1>1. S \subseteq Chunks
    BY FoundFacts
  <1>2. \A c \in S : key(c) \in [1..6 -> Int] /\ key(c)[6] = KeyOf[c]
    BY <1>1, SortKeyFacts
  <1>3. \A c, d \in S : <<c, d>> \in R <=> SortsBefore(key(c), key(d))
    BY FusedPairs
  <1>4. \A c, d \in S : c # d => key(c) # key(d)
    BY <1>1, <1>2, KeysDiffer
  <1> HIDE DEF key, S, R
  <1>5. \A k, l, m \in [1..6 -> Int] :
          /\ ~SortsBefore(k, k)
          /\ SortsBefore(k, l) /\ SortsBefore(l, m) => SortsBefore(k, m)
          /\ k # l => SortsBefore(k, l) \/ SortsBefore(l, k)
    BY KeyOrder
  <1> QED
    BY <1>2, <1>3, <1>4, <1>5 DEF StrictOrder, S, R

(* The fused list holds every chunk found, once, in the order of the keys. *)
LEMMA FusedFacts ==
  ASSUME NEW found, FourLists(found), NEW w \in BOOLEAN,
         NEW order, order = Fused(found, w)
  PROVE  /\ order \in Seq(Chunks) /\ ToSet(order) = Found(found) /\ IsInjective(order)
         /\ \A i, j \in DOMAIN order :
              SortsBefore(SortKey(found, order[i], w), SortKey(found, order[j], w)) => i < j
  <1> DEFINE S == Found(found)
             R == FusedBefore(found, w)
             N == Cardinality(S)
  <1>1. S \subseteq Chunks /\ IsFiniteSet(S)
    BY FoundFacts
  <1>2. StrictOrder(S, R)
    BY FusedOrder
  <1>3. order = InOrder(S, R)
    BY DEF Fused
  <1> HIDE DEF S, R
  <1>4. /\ N \in Nat /\ order \in [1..N -> S]
        /\ order \in Seq(S) /\ Len(order) = N /\ ToSet(order) = S /\ IsInjective(order)
        /\ \A i, j \in 1..N : <<order[i], order[j]>> \in R => i < j
    BY <1>1, <1>2, <1>3, InOrderFacts
  <1>5. order \in Seq(Chunks)
    BY <1>1, <1>4
  <1>6. ASSUME NEW i \in DOMAIN order, NEW j \in DOMAIN order,
               SortsBefore(SortKey(found, order[i], w), SortKey(found, order[j], w))
        PROVE  i < j
    <2>1. order[i] \in S /\ order[j] \in S /\ i \in 1..N /\ j \in 1..N
      BY <1>4
    <2>2. <<order[i], order[j]>> \in R
      BY <1>6, <2>1, FusedPairs DEF S, R
    <2> QED
      BY <1>4, <2>1, <2>2
  <1> QED
    BY <1>4, <1>5, <1>6 DEF S

(* Fusion respects the ranks.                                              *)
LEMMA FusionSound ==
  ASSUME FourLists(lists), NEW c \in Found(lists), NEW d \in Found(lists),
         Better(c, d), NEW w \in BOOLEAN
  PROVE  SortsBefore(SortKey(lists, c, w), SortKey(lists, d, w))
  <1>1. c \in Chunks /\ d \in Chunks
    BY FoundFacts
  <1>2. /\ Score(lists, c) \in Nat /\ Score(lists, d) \in Nat
        /\ Score(lists, d) < Score(lists, c)
    BY ScoreFacts DEF Better, BetterOrSame
  <1>3. /\ SortKey(lists, c, w) \in [1..6 -> Int] /\ SortKey(lists, d, w) \in [1..6 -> Int]
        /\ SortKey(lists, c, w)[1] = 0 - Score(lists, c)
        /\ SortKey(lists, d, w)[1] = 0 - Score(lists, d)
    BY <1>1, SortKeyFacts
  <1>4. SortKey(lists, c, w)[1] < SortKey(lists, d, w)[1]
    BY <1>2, <1>3
  <1>5. 1 \in DOMAIN SortKey(lists, c, w) /\ 1..(1 - 1) = {}
    BY <1>3
  <1> QED
    BY <1>4, <1>5 DEF SortsBefore

-----------------------------------------------------------------------------
(* The arcs of a walk.                                                     *)

(* Relationships between chunks, told apart by their ids.                  *)
Graph(edges) ==
  /\ IsFiniteSet(edges)
  /\ \A e \in edges : e.id \in Nat /\ e.from \in Chunks /\ e.to \in Chunks
  /\ \A e, f \in edges : e.id = f.id => e = f

ArcsOf(edges, arcs) ==
  /\ IsFiniteSet(arcs)
  /\ \A a \in arcs : /\ a.id \in Nat /\ a.from \in Chunks /\ a.to \in Chunks
                     /\ Direction # "both" => a.way = Direction
  /\ \A a, b \in arcs : a.id = b.id /\ a.from = b.from /\ a.from # a.to => a = b

(* The arcs made of a finite graph, in any direction.                      *)
LEMMA ArcsFacts ==
  ASSUME NEW edges, Graph(edges)
  PROVE  ArcsOf(edges, Oriented(edges))
  <1> DEFINE out == {Outward(e) : e \in edges}
             in == {Inward(e) : e \in edges}
             O == IF Direction = "inbound" THEN {} ELSE out
             I == IF Direction = "outbound" THEN {} ELSE in
  <1>1. IsFiniteSet(out)
    <2> DEFINE f == [e \in edges |-> Outward(e)]
    <2>1. f \in Surjection(edges, out)
      BY DEF Surjection
    <2> HIDE DEF f, out
    <2> QED
      BY <2>1, FS_Surjection DEF Graph
  <1>2. IsFiniteSet(in)
    <2> DEFINE f == [e \in edges |-> Inward(e)]
    <2>1. f \in Surjection(edges, in)
      BY DEF Surjection
    <2> HIDE DEF f, in
    <2> QED
      BY <2>1, FS_Surjection DEF Graph
  <1>3. Oriented(edges) = O \cup I
    BY DEF Oriented
  <1>4. IsFiniteSet(O \cup I)
    <2>1. IsFiniteSet(O) /\ IsFiniteSet(I)
      BY <1>1, <1>2, FS_EmptySet
    <2> HIDE DEF O, I
    <2> QED
      BY <2>1, FS_Union
  <1>5. \A a \in O : Direction # "inbound" /\ \E e \in edges : a = Outward(e)
    OBVIOUS
  <1>6. \A a \in I : Direction # "outbound" /\ \E e \in edges : a = Inward(e)
    OBVIOUS
  <1> HIDE DEF O, I
  <1>7. ASSUME NEW a \in O \cup I
        PROVE  /\ a.id \in Nat /\ a.from \in Chunks /\ a.to \in Chunks
               /\ Direction # "both" => a.way = Direction
    <2>1. CASE a \in O
      <3>1. PICK e \in edges : a = Outward(e)
        BY <1>5, <2>1
      <3> QED
        BY <1>5, <2>1, <3>1, TraversalConstants DEF Outward, Graph
    <2>2. CASE a \in I
      <3>1. PICK e \in edges : a = Inward(e)
        BY <1>6, <2>2
      <3> QED
        BY <1>6, <2>2, <3>1, TraversalConstants DEF Inward, Graph
    <2> QED
      BY <2>1, <2>2
  <1>8. ASSUME NEW a \in O \cup I, NEW b \in O \cup I,
               a.id = b.id, a.from = b.from, a.from # a.to
        PROVE  a = b
    <2>1. PICK e \in edges : a = Outward(e) \/ a = Inward(e)
      BY <1>5, <1>6
    <2>2. PICK f \in edges : b = Outward(f) \/ b = Inward(f)
      BY <1>5, <1>6
    <2>3. a.id = e.id /\ b.id = f.id
      BY <2>1, <2>2 DEF Outward, Inward
    <2>4. e = f
      BY <1>8, <2>3 DEF Graph
    <2> QED
      BY <1>8, <2>1, <2>2, <2>4 DEF Outward, Inward
  <1> QED
    BY <1>3, <1>4, <1>7, <1>8 DEF ArcsOf

(* The places of the arcs that leave an entity.                            *)
LEMMA RankOfArc ==
  ASSUME NEW edges, NEW arcs, ArcsOf(edges, arcs), NEW a \in arcs, NEW b \in arcs
  PROVE  /\ FanoutRank(a, arcs) \in Nat \ {0}
         /\ /\ a.from = b.from /\ FanoutRank(a, arcs) = FanoutRank(b, arcs)
            /\ a.from # a.to
            => a = b
         /\ a.from = b.from /\ a.id < b.id => FanoutRank(a, arcs) < FanoutRank(b, arcs)
  <1> DEFINE P(x) == {d \in arcs : d.from = x.from /\ d.id <= x.id}
  <1>1. ASSUME NEW x \in arcs
        PROVE  IsFiniteSet(P(x)) /\ x \in P(x) /\ Cardinality(P(x)) \in Nat \ {0}
    <2>1. x \in P(x)
      BY DEF ArcsOf
    <2>2. IsFiniteSet(P(x))
      BY FS_Subset DEF ArcsOf
    <2> HIDE DEF P
    <2> QED
      BY <2>1, <2>2, FS_CardinalityType, FS_EmptySet
  <1>2. ASSUME NEW x \in arcs, NEW y \in arcs, x.from = y.from, x.id < y.id
        PROVE  Cardinality(P(x)) < Cardinality(P(y))
    <2>1. P(x) \subseteq P(y) /\ y \in P(y) /\ y \notin P(x)
      BY <1>2 DEF ArcsOf
    <2>2. /\ IsFiniteSet(P(y)) /\ Cardinality(P(y)) \in Nat \ {0}
          /\ Cardinality(P(x)) \in Nat \ {0}
      BY <1>1
    <2> HIDE DEF P
    <2>3. Cardinality(P(x)) <= Cardinality(P(y)) /\ Cardinality(P(x)) # Cardinality(P(y))
      BY <2>1, <2>2, FS_Subset
    <2> QED
      BY <2>2, <2>3
  <1>3. FanoutRank(a, arcs) = Cardinality(P(a)) /\ FanoutRank(b, arcs) = Cardinality(P(b))
    BY DEF FanoutRank
  <1> HIDE DEF P
  <1>4. ASSUME a.from = b.from, FanoutRank(a, arcs) = FanoutRank(b, arcs), a.from # a.to
        PROVE  a = b
    <2>1. a.id \in Nat /\ b.id \in Nat
      BY DEF ArcsOf
    <2>2. /\ Cardinality(P(a)) \in Nat /\ Cardinality(P(b)) \in Nat
          /\ Cardinality(P(a)) = Cardinality(P(b))
      BY <1>1, <1>3, <1>4
    <2>3. ~(a.id < b.id) /\ ~(b.id < a.id)
      BY <1>2, <1>4, <2>2
    <2>4. a.id = b.id
      BY <2>1, <2>3
    <2> QED
      BY <1>4, <2>4 DEF ArcsOf
  <1> QED
    BY <1>1, <1>2, <1>3, <1>4

(* At most MaxFanout entities are reached from one.                        *)
ReachedFrom(here, arcs, T) ==
  \A x \in T : \E e \in Bounded(arcs) : e.from = here /\ x = e.to

(* At most MaxFanout entities are reached directly from one.               *)
LEMMA FanoutBound ==
  ASSUME NEW edges, NEW arcs, ArcsOf(edges, arcs), NEW here,
         NEW T, ReachedFrom(here, arcs, T)
  PROVE  IsFiniteSet(T) /\ Cardinality(T) <= MaxFanout
  <1> DEFINE S == {e \in Bounded(arcs) : e.from = here}
             places == {MaxFanout - FanoutRank(e, arcs) : e \in S}
             ends == {e.to : e \in S}
  <1>1. MaxFanout \in Nat
    BY TraversalConstants
  <1>2. \A e \in S : /\ e \in arcs /\ e.from = here /\ e.id \in Nat
                     /\ FanoutRank(e, arcs) \in Nat /\ FanoutRank(e, arcs) <= MaxFanout
    BY RankOfArc DEF Bounded, ArcsOf
  <1>3. T \subseteq ends
    BY DEF ReachedFrom
  <1>4. CASE S = {}
    <2>1. T = {}
      BY <1>4 DEF ReachedFrom
    <2> QED
      BY <1>1, <2>1, FS_EmptySet
  <1>5. CASE S # {}
    <2>1. places \subseteq Nat /\ places # {}
      BY <1>1, <1>2, <1>5
    <2>2. PICK p \in places : \A q \in places : p <= q
      <3> HIDE DEF places
      <3> QED
        BY <2>1, LeastNumber
    <2>3. PICK a \in S : p = MaxFanout - FanoutRank(a, arcs)
      OBVIOUS
    <2>4. ASSUME NEW b \in S
          PROVE  FanoutRank(b, arcs) <= FanoutRank(a, arcs)
      <3>1. MaxFanout - FanoutRank(b, arcs) \in places
        OBVIOUS
      <3>2. MaxFanout - FanoutRank(a, arcs) <= MaxFanout - FanoutRank(b, arcs)
        BY <2>2, <2>3, <3>1
      <3>3. FanoutRank(a, arcs) \in Nat /\ FanoutRank(b, arcs) \in Nat
        BY <1>2
      <3> QED
        BY <1>1, <3>2, <3>3
    <2> DEFINE P == {d \in arcs : d.from = a.from /\ d.id <= a.id}
    <2>5. ASSUME NEW b \in S
          PROVE  b \in P
      <3>1. ~(a.id < b.id)
        BY <1>2, <2>4, RankOfArc
      <3> QED
        BY <1>2, <3>1
    <2>6. IsFiniteSet(P)
      BY FS_Subset DEF ArcsOf
    <2>7. Cardinality(P) = FanoutRank(a, arcs)
      BY DEF FanoutRank
    <2> HIDE DEF P
    <2>8. IsFiniteSet(S) /\ Cardinality(S) <= FanoutRank(a, arcs)
      <3>1. S \subseteq P
        BY <2>5
      <3> HIDE DEF S
      <3> QED
        BY <2>6, <2>7, <3>1, FS_Subset
    <2>9. IsFiniteSet(ends) /\ Cardinality(ends) <= Cardinality(S)
      <3> DEFINE f == [e \in S |-> e.to]
      <3>1. f \in Surjection(S, ends)
        BY DEF Surjection
      <3> HIDE DEF f, S, ends
      <3> QED
        BY <2>8, <3>1, FS_Surjection
    <2>10. IsFiniteSet(T) /\ Cardinality(T) <= Cardinality(ends)
      <3> HIDE DEF ends
      <3> QED
        BY <1>3, <2>9, FS_Subset
    <2>11. Cardinality(T) \in Nat /\ Cardinality(ends) \in Nat /\ Cardinality(S) \in Nat
      BY <2>8, <2>9, <2>10, FS_CardinalityType
    <2> HIDE DEF S, ends
    <2> QED
      BY <1>1, <1>2, <2>3, <2>8, <2>9, <2>10, <2>11
  <1> QED
    BY <1>4, <1>5

-----------------------------------------------------------------------------
(* The rows of a walk.                                                     *)

RowOf(arcs) == [at: Chunks, ordinal: Nat, path: Seq(arcs), seen: SUBSET Chunks]

(* A row after d rounds: what it has walked, and its number.               *)
RowSound(seeds, arcs, d, r) ==
  /\ r \in RowOf(arcs) /\ Len(r.path) = d
  /\ d = 0 => /\ r.at \in ToSet(seeds) /\ r.seen = {r.at}
              /\ r.ordinal \in 0..(Len(seeds) - 1)
  /\ d > 0 => /\ r.ordinal \in (Len(seeds) + 1)..MaxCandidates
              /\ r.path[1].from \in ToSet(seeds) /\ r.path[1].from \in r.seen
              /\ r.at = r.path[d].to
  /\ \A i \in 1..d : /\ r.path[i] \in Bounded(arcs) /\ r.path[i].to \in r.seen
                     /\ r.path[i].to # r.path[1].from
                     /\ \A j \in 1..(i - 1) : r.path[j].to # r.path[i].to
  /\ \A i \in 1..(d - 1) : r.path[i].to = r.path[i + 1].from

(* A seed's row is sound.                                                  *)
LEMMA SeedSound ==
  ASSUME NEW seeds \in Seq(Chunks), NEW arcs, NEW i \in DOMAIN seeds
  PROVE  RowSound(seeds, arcs, 0, SeedRow(seeds, i))
  <1>1. seeds[i] \in Chunks /\ i \in 1..Len(seeds) /\ Len(seeds) \in Nat
    BY LenProperties
  <1>2. <<>> \in Seq(arcs) /\ Len(<<>>) = 0
    BY EmptySeq
  <1>3. SeedRow(seeds, i) \in RowOf(arcs)
    BY <1>1, <1>2 DEF SeedRow, RowOf
  <1>4. seeds[i] \in ToSet(seeds)
    BY DEF ToSet
  <1> QED
    BY <1>1, <1>2, <1>3, <1>4 DEF SeedRow, RowSound

(* The numbers of two rows tell their parents and their places apart.      *)
LEMMA OrdinalFacts ==
  ASSUME NEW seeds \in Nat, NEW p \in Nat, NEW q \in Nat,
         NEW r \in 1..MaxFanout, NEW s \in 1..MaxFanout
  PROVE  /\ Ordinal(seeds, p, r) \in Nat /\ Ordinal(seeds, p, r) >= seeds + 1
         /\ Ordinal(seeds, p, r) = Ordinal(seeds, q, s) => p = q /\ r = s
  <1>1. MaxFanout \in Nat \ {0}
    BY TraversalConstants
  <1>2. p * MaxFanout \in Nat /\ q * MaxFanout \in Nat
    BY <1>1, Times
  <1>3. p < q => p * MaxFanout + MaxFanout <= q * MaxFanout
    BY <1>1
  <1>4. q < p => q * MaxFanout + MaxFanout <= p * MaxFanout
    BY <1>1
  <1> QED
    BY <1>1, <1>2, <1>3, <1>4 DEF Ordinal

(* One arc more.                                                           *)
LEMMA NextSound ==
  ASSUME NEW seeds \in Seq(Chunks), NEW edges, NEW arcs, ArcsOf(edges, arcs),
         NEW d \in Nat, NEW row, RowSound(seeds, arcs, d, row),
         NEW e \in Bounded(arcs), Extends(seeds, row, e, arcs),
         NEW r, r = NextRow(seeds, row, e, arcs)
  PROVE  RowSound(seeds, arcs, d + 1, r)
  <1>1. /\ e \in arcs /\ e.to \in Chunks /\ FanoutRank(e, arcs) \in 1..MaxFanout
        /\ e.from = row.at /\ e.to \notin row.seen
    BY RankOfArc, TraversalConstants DEF Bounded, ArcsOf, Extends
  <1>2. /\ row.path \in Seq(arcs) /\ Len(row.path) = d /\ row.ordinal \in Nat
        /\ row.seen \in SUBSET Chunks
    BY DEF RowSound, RowOf
  <1>3. /\ r.at = e.to /\ r.path = Append(row.path, e) /\ r.seen = row.seen \cup {e.to}
        /\ r.ordinal = Ordinal(Len(seeds), row.ordinal, FanoutRank(e, arcs))
        /\ r = [at |-> r.at, ordinal |-> r.ordinal, path |-> r.path, seen |-> r.seen]
    BY DEF NextRow
  <1>4. /\ r.path \in Seq(arcs) /\ Len(r.path) = d + 1 /\ r.path[d + 1] = e
        /\ \A i \in 1..d : r.path[i] = row.path[i]
    BY <1>1, <1>2, <1>3, AppendProperties
  <1>5. Len(seeds) \in Nat
    BY LenProperties
  <1>6. r.ordinal \in Nat /\ r.ordinal \in (Len(seeds) + 1)..MaxCandidates
    <2>1. r.ordinal \in Nat /\ r.ordinal >= Len(seeds) + 1
      <3>1. PICK n : n = Len(seeds)
        OBVIOUS
      <3>2. PICK k : k = FanoutRank(e, arcs)
        OBVIOUS
      <3>3. PICK p : p = row.ordinal
        OBVIOUS
      <3>4. n \in Nat /\ k \in 1..MaxFanout /\ p \in Nat
        BY <1>1, <1>2, <1>5, <3>1, <3>2, <3>3
      <3>5. Ordinal(n, p, k) \in Nat /\ Ordinal(n, p, k) >= n + 1
        BY <3>4, OrdinalFacts
      <3> QED
        BY <1>3, <3>1, <3>2, <3>3, <3>5
    <2>2. r.ordinal <= MaxCandidates
      BY <1>3 DEF Extends
    <2> QED
      BY <1>5, <2>1, <2>2, TraversalConstants
  <1>7. r \in RowOf(arcs)
    <2>1. r.at \in Chunks /\ r.seen \in SUBSET Chunks
      BY <1>1, <1>2, <1>3
    <2> QED
      BY <1>3, <1>4, <1>6, <2>1 DEF RowOf
  <1>8. row.at \in row.seen
    <2>1. CASE d = 0
      BY <2>1 DEF RowSound
    <2>2. CASE d > 0
      <3>1. d \in 1..d
        BY <2>2
      <3> QED
        BY <2>2, <3>1 DEF RowSound
    <2> QED
      BY <2>1, <2>2
  <1>9. /\ r.path[1].from \in ToSet(seeds) /\ r.path[1].from \in row.seen
    <2>1. CASE d = 0
      BY <1>1, <1>4, <2>1 DEF RowSound
    <2>2. CASE d > 0
      <3>1. 1 \in 1..d
        BY <2>2
      <3> QED
        BY <1>4, <2>2, <3>1 DEF RowSound
    <2> QED
      BY <2>1, <2>2
  <1>10. ASSUME NEW i \in 1..(d + 1)
         PROVE  /\ r.path[i] \in Bounded(arcs) /\ r.path[i].to \in r.seen
                /\ r.path[i].to # r.path[1].from
                /\ \A j \in 1..(i - 1) : r.path[j].to # r.path[i].to
    <2>1. CASE i = d + 1
      <3>1. \A j \in 1..d : r.path[j].to \in row.seen
        BY <1>4 DEF RowSound
      <3>2. e.to \in r.seen
        BY <1>3
      <3>3. 1..(i - 1) = 1..d
        BY <2>1
      <3> QED
        BY <1>1, <1>4, <1>9, <2>1, <3>1, <3>2, <3>3
    <2>2. CASE i \in 1..d
      <3>1. 1 \in 1..d /\ \A j \in 1..(i - 1) : j \in 1..d
        BY <2>2
      <3>2. r.path[i] = row.path[i] /\ r.path[1] = row.path[1]
            /\ \A j \in 1..(i - 1) : r.path[j] = row.path[j]
        BY <1>4, <2>2, <3>1
      <3>3. /\ row.path[i] \in Bounded(arcs) /\ row.path[i].to \in row.seen
            /\ row.path[i].to # row.path[1].from
            /\ \A j \in 1..(i - 1) : row.path[j].to # row.path[i].to
        BY <2>2 DEF RowSound
      <3> QED
        BY <1>3, <3>2, <3>3
    <2> QED
      BY <2>1, <2>2
  <1>11. ASSUME NEW i \in 1..d
         PROVE  r.path[i].to = r.path[i + 1].from
    <2>1. CASE i = d
      <3>1. row.at = row.path[d].to
        BY <2>1 DEF RowSound
      <3> QED
        BY <1>1, <1>4, <2>1, <3>1
    <2>2. CASE i \in 1..(d - 1)
      <3>1. row.path[i].to = row.path[i + 1].from
        BY <2>2 DEF RowSound
      <3>2. i + 1 \in 1..d
        BY <2>2
      <3> QED
        BY <1>4, <3>1, <3>2
    <2> QED
      BY <2>1, <2>2
  <1>12. r.at = r.path[d + 1].to
    BY <1>3, <1>4
  <1>13. d + 1 > 0 /\ d + 1 # 0 /\ 1..(d + 1 - 1) = 1..d
    OBVIOUS
  <1>14. r.path[1].from \in r.seen
    BY <1>3, <1>9
  <1> QED
    BY <1>4, <1>6, <1>7, <1>9, <1>10, <1>11, <1>12, <1>13, <1>14 DEF RowSound

(* The recursion of the walk: what the rows of one round make the next of. *)
NextLevel(seeds, arcs, rows) ==
  {NextRow(seeds, x[1], x[2], arcs) :
     x \in {y \in rows \X Bounded(arcs) : Extends(seeds, y[1], y[2], arcs)}}

Levels(seeds, arcs, level) ==
  /\ DOMAIN level = 0..MaxDepth
  /\ level[0] = {SeedRow(seeds, i) : i \in DOMAIN seeds}
  /\ \A d \in 1..MaxDepth : level[d] = NextLevel(seeds, arcs, level[d - 1])

(* The rows of the next level by their four columns.                       *)
LEMMA NextLevelRows ==
  ASSUME NEW seeds \in Seq(Chunks), NEW edges, NEW arcs, ArcsOf(edges, arcs),
         NEW rows \in SUBSET RowOf(arcs)
  PROVE  NextLevel(seeds, arcs, rows) \in SUBSET RowOf(arcs)
  <1> SUFFICES ASSUME NEW row \in rows, NEW e \in Bounded(arcs)
               PROVE  NextRow(seeds, row, e, arcs) \in RowOf(arcs)
    BY DEF NextLevel
  <1> DEFINE r == NextRow(seeds, row, e, arcs)
  <1>1. /\ row.path \in Seq(arcs) /\ row.ordinal \in Nat /\ row.seen \in SUBSET Chunks
    BY DEF RowOf
  <1>2. /\ e \in arcs /\ e.to \in Chunks /\ FanoutRank(e, arcs) \in 1..MaxFanout
    BY RankOfArc, TraversalConstants DEF Bounded, ArcsOf
  <1>3. Append(row.path, e) \in Seq(arcs)
    BY <1>1, <1>2, AppendProperties
  <1>4. Ordinal(Len(seeds), row.ordinal, FanoutRank(e, arcs)) \in Nat
    <2>1. PICK n : n = Len(seeds)
      OBVIOUS
    <2>2. PICK k : k = FanoutRank(e, arcs)
      OBVIOUS
    <2>3. PICK p : p = row.ordinal
      OBVIOUS
    <2>4. n \in Nat /\ k \in 1..MaxFanout /\ p \in Nat
      BY <1>1, <1>2, <2>1, <2>2, <2>3, LenProperties
    <2>5. Ordinal(n, p, k) \in Nat
      BY <2>4, OrdinalFacts
    <2> QED
      BY <2>1, <2>2, <2>3, <2>5
  <1> QED
    BY <1>1, <1>2, <1>3, <1>4 DEF NextRow, RowOf

(* The walk's recursive definition has its levels.                         *)
LEMMA LevelsDefined ==
  ASSUME NEW seeds \in Seq(Chunks), NEW edges, NEW arcs, ArcsOf(edges, arcs)
  PROVE  Levels(seeds, arcs, RowsAt(seeds, arcs))
  <1> DEFINE base == {SeedRow(seeds, i) : i \in DOMAIN seeds}
             B == SUBSET RowOf(arcs)
             Eq(f) == f = [d \in 0..MaxDepth |->
                             IF d = 0 THEN base ELSE NextLevel(seeds, arcs, f[d - 1])]
             step == [p \in (1..MaxDepth) \X B |-> NextLevel(seeds, arcs, p[2])]
  <1>1. MaxDepth \in Nat
    BY TraversalConstants
  <1>2. base \in B
    BY SeedSound DEF RowSound
  <1>3. step \in [(1..MaxDepth) \X B -> B]
    <2>1. \A p \in (1..MaxDepth) \X B : NextLevel(seeds, arcs, p[2]) \in B
      BY NextLevelRows
    <2> HIDE DEF B
    <2> QED
      BY <2>1
  <1>4. PICK f : IsFold(f, MaxDepth, B, base, step)
    <2> HIDE DEF step, B, base
    <2> QED
      BY <1>1, <1>2, <1>3, FoldDefined, Zenon
  <1> HIDE DEF base
  <1>5. ASSUME NEW d \in 1..MaxDepth
        PROVE  f[d] = NextLevel(seeds, arcs, f[d - 1])
    <2>1. f[d - 1] \in B
      <3>1. d - 1 \in 0..MaxDepth
        BY <1>1
      <3> HIDE DEF B
      <3> QED
        BY <1>4, <3>1 DEF IsFold
    <2>2. step[<<d, f[d - 1]>>] = NextLevel(seeds, arcs, f[d - 1])
      <3> HIDE DEF B
      <3> QED
        BY <2>1
    <2> HIDE DEF step, B
    <2> QED
      BY <1>4, <2>2 DEF IsFold
  <1>6. Eq(f)
    <2> HIDE DEF B, step
    <2> QED
      BY <1>1, <1>4, <1>5 DEF IsFold
  <1>7. RowsAt(seeds, arcs) = CHOOSE g : Eq(g)
    BY DEF RowsAt, NextLevel, base
  <1>8. Eq(CHOOSE g : Eq(g))
    <2> HIDE DEF Eq
    <2> QED
      BY <1>6
  <1>9. PICK h : h = RowsAt(seeds, arcs)
    OBVIOUS
  <1>10. Eq(h)
    <2> HIDE DEF Eq
    <2> QED
      BY <1>7, <1>8, <1>9
  <1>11. /\ DOMAIN h = 0..MaxDepth /\ h[0] = base
         /\ \A d \in 1..MaxDepth : h[d] = NextLevel(seeds, arcs, h[d - 1])
    <2>1. h = [d \in 0..MaxDepth |-> IF d = 0 THEN base ELSE NextLevel(seeds, arcs, h[d - 1])]
      BY <1>10
    <2>2. DOMAIN h = 0..MaxDepth
      BY <2>1, Zenon
    <2>3. \A d \in 0..MaxDepth : h[d] = IF d = 0 THEN base ELSE NextLevel(seeds, arcs, h[d - 1])
      BY <2>1, Zenon
    <2>4. 0 \in 0..MaxDepth /\ \A d \in 1..MaxDepth : d \in 0..MaxDepth /\ d # 0
      BY <1>1
    <2> QED
      BY <2>2, <2>3, <2>4, Zenon
  <1> QED
    BY <1>9, <1>11 DEF Levels, base

(* Every row below the seeds is made of a row one level up and an arc.     *)
LEMMA ParentOf ==
  ASSUME NEW seeds, NEW arcs, NEW level, Levels(seeds, arcs, level),
         NEW d \in 1..MaxDepth, NEW r \in level[d]
  PROVE  \E row \in level[d - 1], e \in Bounded(arcs) :
           Extends(seeds, row, e, arcs) /\ r = NextRow(seeds, row, e, arcs)
  <1>1. r \in NextLevel(seeds, arcs, level[d - 1])
    BY DEF Levels
  <1> QED
    BY <1>1 DEF NextLevel

(* Every row of a level is sound at its depth.                             *)
LEMMA LevelSound ==
  ASSUME NEW seeds \in Seq(Chunks), NEW edges, NEW arcs, ArcsOf(edges, arcs),
         NEW level, Levels(seeds, arcs, level)
  PROVE  \A d \in 0..MaxDepth : \A r \in level[d] : RowSound(seeds, arcs, d, r)
  <1> DEFINE S == {d \in 0..MaxDepth : \A r \in level[d] : RowSound(seeds, arcs, d, r)}
  <1>1. MaxDepth \in Nat
    BY TraversalConstants
  <1>2. 0 \in S
    BY <1>1, SeedSound DEF Levels
  <1>3. ASSUME NEW d \in 1..MaxDepth, d - 1 \in S
        PROVE  d \in S
    <2>1. ASSUME NEW r \in level[d]
          PROVE  RowSound(seeds, arcs, d, r)
      <3>1. PICK row \in level[d - 1], e \in Bounded(arcs) :
              Extends(seeds, row, e, arcs) /\ r = NextRow(seeds, row, e, arcs)
        BY ParentOf
      <3>2. PICK k \in Nat : k = d - 1 /\ k + 1 = d
        BY <1>1
      <3>3. RowSound(seeds, arcs, k, row)
        BY <1>3, <3>1, <3>2
      <3>4. RowSound(seeds, arcs, k + 1, r)
        BY <3>1, <3>3, NextSound
      <3> QED
        BY <3>2, <3>4
    <2>2. d \in 0..MaxDepth
      BY <1>1
    <2> QED
      BY <2>1, <2>2
  <1>4. 0..MaxDepth \subseteq S
    <2> HIDE DEF S
    <2> QED
      BY <1>1, <1>2, <1>3, UpToInduction
  <1> QED
    BY <1>4

(* Two rows made of the same row, with the same number, are the same.      *)
LEMMA SameRow ==
  ASSUME NEW seeds \in Seq(Chunks), NEW edges, NEW arcs, ArcsOf(edges, arcs),
         NEW c \in Nat, NEW d \in Nat, NEW u, NEW v,
         RowSound(seeds, arcs, c, u), RowSound(seeds, arcs, d, v),
         NEW a \in Bounded(arcs), Extends(seeds, u, a, arcs),
         NEW b \in Bounded(arcs), Extends(seeds, v, b, arcs),
         NextRow(seeds, u, a, arcs).ordinal = NextRow(seeds, v, b, arcs).ordinal
  PROVE  /\ u.ordinal = v.ordinal
         /\ u = v => NextRow(seeds, u, a, arcs) = NextRow(seeds, v, b, arcs)
  <1>1. /\ a \in arcs /\ b \in arcs
        /\ FanoutRank(a, arcs) \in 1..MaxFanout /\ FanoutRank(b, arcs) \in 1..MaxFanout
    BY RankOfArc, TraversalConstants DEF Bounded
  <1>2. u.ordinal \in Nat /\ v.ordinal \in Nat
    BY DEF RowSound, RowOf
  <1>3. PICK n \in Nat : n = Len(seeds)
    BY LenProperties
  <1>4. PICK k \in 1..MaxFanout : k = FanoutRank(a, arcs)
    BY <1>1
  <1>5. PICK l \in 1..MaxFanout : l = FanoutRank(b, arcs)
    BY <1>1
  <1>6. PICK p \in Nat : p = u.ordinal
    BY <1>2
  <1>7. PICK q \in Nat : q = v.ordinal
    BY <1>2
  <1>8. Ordinal(n, p, k) = Ordinal(n, q, l)
    BY <1>3, <1>4, <1>5, <1>6, <1>7 DEF NextRow
  <1>9. p = q /\ k = l
    BY <1>8, OrdinalFacts
  <1>10. ASSUME u = v
         PROVE  a = b
    <2>1. a.from = b.from
      BY <1>10 DEF Extends
    <2>2. a.from # a.to
      <3>1. u.at \in u.seen
        <4>1. CASE c = 0
          BY <4>1 DEF RowSound
        <4>2. CASE c > 0
          <5>1. c \in 1..c
            BY <4>2
          <5> QED
            BY <4>2, <5>1 DEF RowSound
        <4> QED
          BY <4>1, <4>2
      <3> QED
        BY <3>1 DEF Extends
    <2> QED
      BY <1>1, <1>4, <1>5, <1>9, <2>1, <2>2, RankOfArc
  <1> QED
    BY <1>6, <1>7, <1>9, <1>10

(* A row's number tells it apart, at whatever depth.                       *)
LEMMA OrdinalsTell ==
  ASSUME NEW seeds \in Seq(Chunks), NEW edges, NEW arcs, ArcsOf(edges, arcs),
         NEW level, Levels(seeds, arcs, level)
  PROVE  \A i, j \in 0..MaxDepth : \A x \in level[i], y \in level[j] :
           x.ordinal = y.ordinal => x = y
  <1> DEFINE Told(i, j) == \A x \in level[i], y \in level[j] : x.ordinal = y.ordinal => x = y
             S == {d \in 0..MaxDepth : \A i, j \in 0..d : Told(i, j)}
  <1>1. MaxDepth \in Nat /\ Len(seeds) \in Nat
    BY TraversalConstants, LenProperties
  <1>2. ASSUME NEW d \in 0..MaxDepth, NEW x \in level[d]
        PROVE  /\ RowSound(seeds, arcs, d, x) /\ x.ordinal \in Nat
               /\ d = 0 => x.ordinal < Len(seeds)
               /\ d > 0 => x.ordinal > Len(seeds)
    <2>1. RowSound(seeds, arcs, d, x)
      BY LevelSound
    <2> QED
      BY <1>1, <2>1 DEF RowSound, RowOf
  <1>3. Told(0, 0)
    <2>1. ASSUME NEW x \in level[0], NEW y \in level[0], x.ordinal = y.ordinal
          PROVE  x = y
      <3>1. PICK i \in DOMAIN seeds : x = SeedRow(seeds, i)
        BY DEF Levels
      <3>2. PICK j \in DOMAIN seeds : y = SeedRow(seeds, j)
        BY DEF Levels
      <3>3. i \in Int /\ j \in Int /\ i - 1 = j - 1
        BY <1>1, <2>1, <3>1, <3>2 DEF SeedRow
      <3> QED
        BY <3>1, <3>2, <3>3
    <2> QED
      BY <2>1
  <1>4. 0 \in S
    <2>1. 0 \in 0..MaxDepth /\ 0..0 = {0}
      BY <1>1
    <2> HIDE DEF Told
    <2> QED
      BY <1>3, <2>1
  <1>5. ASSUME NEW d \in 1..MaxDepth, d - 1 \in S
        PROVE  d \in S
    <2>1. ASSUME NEW i \in 0..d, NEW j \in 0..d
          PROVE  Told(i, j)
      <3> SUFFICES ASSUME NEW x \in level[i], NEW y \in level[j], x.ordinal = y.ordinal
                   PROVE  x = y
        OBVIOUS
      <3>1. i \in 0..MaxDepth /\ j \in 0..MaxDepth
        BY <1>1
      <3>2. /\ x.ordinal \in Nat /\ y.ordinal \in Nat
            /\ i = 0 => x.ordinal < Len(seeds)
            /\ j = 0 => y.ordinal < Len(seeds)
            /\ i > 0 => x.ordinal > Len(seeds)
            /\ j > 0 => y.ordinal > Len(seeds)
        BY <1>2, <3>1
      <3>3. i = 0 <=> j = 0
        BY <1>1, <3>2
      <3>4. CASE i = 0
        BY <1>3, <3>3, <3>4
      <3>5. CASE i # 0
        <4>1. /\ i \in 1..MaxDepth /\ j \in 1..MaxDepth
              /\ i - 1 \in 0..(d - 1) /\ j - 1 \in 0..(d - 1)
              /\ i - 1 \in 0..MaxDepth /\ j - 1 \in 0..MaxDepth
              /\ i - 1 \in Nat /\ j - 1 \in Nat
          BY <1>1, <3>1, <3>3, <3>5
        <4>2. PICK u \in level[i - 1], a \in Bounded(arcs) :
                Extends(seeds, u, a, arcs) /\ x = NextRow(seeds, u, a, arcs)
          BY <4>1, ParentOf
        <4>3. PICK v \in level[j - 1], b \in Bounded(arcs) :
                Extends(seeds, v, b, arcs) /\ y = NextRow(seeds, v, b, arcs)
          BY <4>1, ParentOf
        <4>4. RowSound(seeds, arcs, i - 1, u) /\ RowSound(seeds, arcs, j - 1, v)
          BY <1>2, <4>1
        <4>5. PICK c \in Nat, e \in Nat : RowSound(seeds, arcs, c, u) /\ RowSound(seeds, arcs, e, v)
          BY <4>1, <4>4
        <4>6. u.ordinal = v.ordinal /\ (u = v => x = y)
          BY <4>2, <4>3, <4>5, SameRow
        <4>7. Told(i - 1, j - 1)
          <5> HIDE DEF Told
          <5> QED
            BY <1>5, <4>1
        <4>8. u = v
          BY <4>6, <4>7
        <4> QED
          BY <4>6, <4>8
      <3> QED
        BY <3>4, <3>5
    <2>2. d \in 0..MaxDepth
      BY <1>1
    <2> HIDE DEF Told
    <2> QED
      BY <2>1, <2>2
  <1>6. 0..MaxDepth \subseteq S
    <2> HIDE DEF S
    <2> QED
      BY <1>1, <1>4, <1>5, UpToInduction
  <1>7. MaxDepth \in S
    BY <1>1, <1>6
  <1> QED
    BY <1>7

(* The rows a walk finds are sound, told apart by their numbers, and with  *)
(* the seeds no more than the bound.                                       *)
LEMMA WalkedFacts ==
  ASSUME NEW seeds \in Seq(Chunks), NEW edges, Graph(edges),
         NEW reached, reached = Walked(seeds, edges)
  PROVE  /\ \A r \in reached :
              \E d \in 1..MaxDepth : RowSound(seeds, Oriented(edges), d, r)
         /\ \A x, y \in reached : x.ordinal = y.ordinal => x = y
         /\ IsFiniteSet(reached) /\ Cardinality(reached) \in Nat
         /\ reached # {} => Cardinality(reached) + Len(seeds) <= MaxCandidates
  <1> DEFINE arcs == Oriented(edges)
  <1>1. PICK level : level = RowsAt(seeds, arcs)
    OBVIOUS
  <1>2. ArcsOf(edges, arcs)
    BY ArcsFacts
  <1>3. Levels(seeds, arcs, level)
    BY <1>1, <1>2, LevelsDefined
  <1>4. reached = UNION {level[d] : d \in 1..MaxDepth}
    BY <1>1 DEF Walked
  <1>5. \A r : r \in reached => \E d \in 1..MaxDepth : r \in level[d]
    BY <1>4, Zenon
  <1> HIDE DEF arcs
  <1>6. MaxDepth \in Nat /\ MaxCandidates \in Nat /\ Len(seeds) \in Nat
    BY TraversalConstants, LenProperties
  <1>7. \A d \in 1..MaxDepth : d \in 0..MaxDepth
    BY <1>6
  <1>8. \A r \in reached : \E d \in 1..MaxDepth : RowSound(seeds, arcs, d, r)
    BY <1>2, <1>3, <1>5, <1>7, LevelSound
  <1>9. \A x, y \in reached : x.ordinal = y.ordinal => x = y
    <2>1. \A i, j \in 0..MaxDepth : \A x \in level[i], y \in level[j] :
            x.ordinal = y.ordinal => x = y
      BY <1>2, <1>3, OrdinalsTell
    <2> QED
      BY <1>5, <1>7, <2>1
  <1>10. \A r \in reached : r.ordinal \in (Len(seeds) + 1)..MaxCandidates
    <2>1. ASSUME NEW r \in reached
          PROVE  r.ordinal \in (Len(seeds) + 1)..MaxCandidates
      <3>1. PICK d \in 1..MaxDepth : RowSound(seeds, arcs, d, r)
        BY <1>8
      <3>2. d > 0
        BY <1>6
      <3> QED
        BY <3>1, <3>2 DEF RowSound
    <2> QED
      BY <2>1
  <1> DEFINE places == (Len(seeds) + 1)..MaxCandidates
             number == [r \in reached |-> r.ordinal]
  <1>11. number \in Injection(reached, places)
    <2>1. number \in [reached -> places]
      BY <1>10
    <2>2. \A x, y \in reached : number[x] = number[y] => x = y
      BY <1>9
    <2>3. DOMAIN number = reached
      OBVIOUS
    <2> HIDE DEF number, places
    <2> QED
      BY <2>1, <2>2, <2>3 DEF Injection, IsInjective
  <1>12. /\ IsFiniteSet(places)
         /\ Cardinality(places) = IF Len(seeds) + 1 > MaxCandidates THEN 0
                                  ELSE MaxCandidates - (Len(seeds) + 1) + 1
    <2>1. PICK a \in Int : a = Len(seeds) + 1
      BY <1>6
    <2>2. PICK b \in Int : b = MaxCandidates
      BY <1>6
    <2>3. /\ IsFiniteSet(a..b)
          /\ Cardinality(a..b) = IF a > b THEN 0 ELSE b - a + 1
      BY FS_Interval
    <2> QED
      BY <2>1, <2>2, <2>3
  <1>13. IsFiniteSet(reached) /\ Cardinality(reached) <= Cardinality(places)
    <2> HIDE DEF places, number
    <2> QED
      BY <1>11, <1>12, FS_Injection
  <1>14. Cardinality(reached) \in Nat
    BY <1>13, FS_CardinalityType
  <1>15. reached # {} => Cardinality(reached) + Len(seeds) <= MaxCandidates
    <2>1. ASSUME reached # {}
          PROVE  Len(seeds) + 1 <= MaxCandidates
      <3>1. PICK r \in reached : TRUE
        BY <2>1
      <3> QED
        BY <1>6, <1>10, <3>1
    <2> HIDE DEF places, number
    <2> QED
      BY <1>6, <1>12, <1>13, <1>14, <2>1
  <1> QED
    BY <1>8, <1>9, <1>13, <1>14, <1>15 DEF arcs

(* The rows are sorted: the number breaks every tie.                       *)
LEMMA RowsOrdered ==
  ASSUME NEW seeds \in Seq(Chunks), NEW edges, Graph(edges),
         NEW reached, reached = Walked(seeds, edges)
  PROVE  StrictOrder(reached, RowBefore(reached))
  <1> DEFINE R == RowBefore(reached)
  <1>1. \A x, y \in reached : x.ordinal = y.ordinal => x = y
    BY WalkedFacts
  <1>2. ASSUME NEW r \in reached
        PROVE  RowKey(r) \in [1..4 -> Int] /\ RowKey(r)[4] = r.ordinal
    <2>1. PICK d \in 1..MaxDepth : RowSound(seeds, Oriented(edges), d, r)
      BY WalkedFacts
    <2>2. ArcsOf(edges, Oriented(edges))
      BY ArcsFacts
    <2>3. /\ d \in Nat \ {0} /\ Len(r.path) = d /\ r.at \in Chunks /\ r.ordinal \in Nat
          /\ r.path[d] \in Oriented(edges)
      <3>1. d \in 1..d /\ d \in Nat \ {0}
        OBVIOUS
      <3> QED
        BY <2>1, <3>1 DEF RowSound, RowOf, Bounded
    <2>4. Last(r.path).id \in Nat
      BY <2>2, <2>3 DEF Last, ArcsOf
    <2>5. KeyOf[r.at] \in Nat
      BY <2>3, RetrievalConstants
    <2> QED
      BY <2>3, <2>4, <2>5 DEF RowKey
  <1>3. \A x, y \in reached : <<x, y>> \in R <=> SortsBefore(RowKey(x), RowKey(y))
    BY DEF RowBefore
  <1> HIDE DEF R
  <1>4. 4 \in Nat
    OBVIOUS
  <1>5. \A x \in reached : <<x, x>> \notin R
    BY <1>2, <1>3, <1>4, KeyOrder
  <1>6. ASSUME NEW x \in reached, NEW y \in reached, NEW z \in reached,
               <<x, y>> \in R, <<y, z>> \in R
        PROVE  <<x, z>> \in R
    BY <1>2, <1>3, <1>4, <1>6, KeyOrder
  <1>7. ASSUME NEW x \in reached, NEW y \in reached, x # y
        PROVE  <<x, y>> \in R \/ <<y, x>> \in R
    <2>1. RowKey(x) # RowKey(y)
      BY <1>1, <1>2, <1>7
    <2> QED
      BY <1>2, <1>3, <1>4, <2>1, KeyOrder
  <1> QED
    BY <1>5, <1>6, <1>7 DEF StrictOrder, R

-----------------------------------------------------------------------------
(* What the walk returns passes the service's checks.                      *)

(* A sound row passes the checks of one candidate's path.                  *)
LEMMA PathSound ==
  ASSUME NEW seeds \in Seq(Chunks), NEW edges, Graph(edges),
         NEW d \in 1..MaxDepth, NEW r, RowSound(seeds, Oriented(edges), d, r)
  PROVE  PathAccepted(r, seeds)
  <1> DEFINE arcs == Oriented(edges)
             p == r.path
             first == <<p[1].from>>
             rest == [i \in DOMAIN p |-> p[i].to]
             stops == first \o rest
  <1>1. ArcsOf(edges, arcs)
    BY ArcsFacts
  <1>2. d \in Nat \ {0} /\ d <= MaxDepth
    BY TraversalConstants
  <1>3. p \in Seq(arcs) /\ Len(p) = d /\ DOMAIN p = 1..d
    BY DEF RowSound, RowOf
  <1>4. \A i \in 1..d : p[i] \in arcs
    BY <1>3
  <1>5. /\ r.at = p[d].to /\ p[1].from \in ToSet(seeds)
        /\ \A i \in 1..d : /\ p[i].to # p[1].from
                           /\ \A j \in 1..(i - 1) : p[j].to # p[i].to
        /\ \A i \in 1..(d - 1) : p[i].to = p[i + 1].from
    <2>1. d > 0
      BY <1>2
    <2>2. /\ r.at = p[d].to /\ p[1].from \in ToSet(seeds)
          /\ \A i \in 1..d : /\ p[i].to # p[1].from
                             /\ \A j \in 1..(i - 1) : p[j].to # p[i].to
      BY <2>1 DEF RowSound
    <2>3. \A i \in 1..(d - 1) : p[i].to = p[i + 1].from
      BY DEF RowSound
    <2> QED
      BY <2>2, <2>3
  <1> HIDE DEF p
  <1>6. p # <<>>
    BY <1>2, <1>3, EmptySeq
  <1>7. /\ Len(stops) = d + 1 /\ DOMAIN stops = 1..(d + 1) /\ stops[1] = p[1].from
        /\ \A i \in 1..d : stops[i + 1] = p[i].to
    <2> DEFINE T == Chunks
    <2>1. 1 \in 1..d /\ \A i \in 1..d : p[i].from \in T /\ p[i].to \in T
      BY <1>1, <1>2, <1>4 DEF ArcsOf
    <2>2. /\ first \in Seq(T) /\ Len(first) = 1 /\ first[1] = p[1].from
      BY <2>1
    <2>3. /\ rest \in [1..d -> T] /\ \A i \in 1..d : rest[i] = p[i].to
      BY <1>3, <2>1
    <2>4. rest \in Seq(T) /\ Len(rest) = d
      <3> HIDE DEF rest
      <3> QED
        BY <1>2, <2>3
    <2> HIDE DEF first, rest, T
    <2>5. /\ Len(stops) = 1 + d /\ stops \in Seq(T)
          /\ \A i \in 1..(1 + d) : stops[i] = IF i <= 1 THEN first[i] ELSE rest[i - 1]
      <3>1. /\ Len(stops) = Len(first) + Len(rest) /\ stops \in Seq(T)
            /\ \A i \in 1..(Len(first) + Len(rest)) :
                 stops[i] = IF i <= Len(first) THEN first[i] ELSE rest[i - Len(first)]
        BY <2>2, <2>4, ConcatProperties, Zenon
      <3> QED
        BY <2>2, <2>4, <3>1
    <2>6. \A i \in 1..d : i + 1 \in 1..(1 + d) /\ ~(i + 1 <= 1) /\ i + 1 - 1 = i
      BY <1>2
    <2>7. DOMAIN stops = 1..(1 + d)
      BY <2>5, LenProperties
    <2> HIDE DEF stops
    <2> QED
      BY <1>2, <2>2, <2>3, <2>5, <2>6, <2>7
  <1> HIDE DEF stops
  <1>8. IsInjective(stops)
    <2>1. ASSUME NEW i \in 1..(d + 1), NEW j \in 1..(d + 1), i < j
          PROVE  stops[i] # stops[j]
      <3>1. PICK k \in 1..d : j = k + 1
        BY <1>2, <2>1
      <3>2. stops[j] = p[k].to
        BY <1>7, <3>1
      <3>3. CASE i = 1
        BY <1>5, <1>7, <3>2, <3>3
      <3>4. CASE i # 1
        <4>1. PICK l \in 1..d : i = l + 1
          BY <1>2, <3>4
        <4>2. l \in 1..(k - 1)
          BY <2>1, <3>1, <4>1
        <4>3. stops[i] = p[l].to
          BY <1>7, <4>1
        <4> QED
          BY <1>5, <3>2, <4>2, <4>3
      <3> QED
        BY <3>3, <3>4
    <2>2. ASSUME NEW i \in 1..(d + 1), NEW j \in 1..(d + 1), i # j
          PROVE  stops[i] # stops[j]
      <3>1. i < j \/ j < i
        BY <1>2, <2>2
      <3> QED
        BY <2>1, <3>1
    <2> QED
      BY <1>7, <2>2 DEF IsInjective
  <1>9. Direction # "both" => \A i \in DOMAIN p : p[i].way = Direction
    BY <1>1, <1>3, <1>4 DEF ArcsOf
  <1>10. r.at = stops[Len(stops)]
    <2>1. d \in 1..d
      BY <1>2
    <2> QED
      BY <1>5, <1>7, <2>1
  <1> QED
    BY <1>2, <1>3, <1>5, <1>6, <1>8, <1>9, <1>10 DEF PathAccepted, p, stops, ToSet

(* What the query returns passes all checks.                               *)
LEMMA TraversalSound ==
  ASSUME NEW seeds \in Seq(Chunks), NEW edges, Graph(edges),
         NEW rows, rows = Traversal(seeds, edges)
  PROVE  /\ rows \in Seq(Walked(seeds, edges)) /\ Len(rows) <= MaxCandidates
         /\ Accepted(rows, seeds)
  <1> DEFINE arcs == Oriented(edges)
  <1>1. PICK reached : reached = Walked(seeds, edges)
    OBVIOUS
  <1>2. /\ IsFiniteSet(reached) /\ StrictOrder(reached, RowBefore(reached))
        /\ \A r \in reached : \E d \in 1..MaxDepth : RowSound(seeds, arcs, d, r)
    BY <1>1, WalkedFacts, RowsOrdered
  <1>3. PICK all : all = InOrder(reached, RowBefore(reached))
    OBVIOUS
  <1>4. all \in Seq(reached)
    BY <1>2, <1>3, InOrderFacts
  <1>5. MaxCandidates \in Nat
    BY TraversalConstants
  <1>6. rows = SubSeq(all, 1, IF Len(all) < MaxCandidates THEN Len(all) ELSE MaxCandidates)
    BY <1>1, <1>3 DEF Traversal
  <1>7. rows \in Seq(reached) /\ Len(rows) <= MaxCandidates
    BY <1>4, <1>5, <1>6, PrefixFacts
  <1>8. \A i \in DOMAIN rows : rows[i] \in reached
    BY <1>7
  <1>9. \A i \in DOMAIN rows : PathAccepted(rows[i], seeds)
    BY <1>2, <1>8, PathSound
  <1>10. FanoutAccepted(rows)
    <2> SUFFICES ASSUME NEW i \in DOMAIN rows, NEW d \in DOMAIN rows[i].path
                 PROVE  LET here == rows[i].path[d].from
                            uses == {j \in DOMAIN rows :
                                       /\ d \in DOMAIN rows[j].path
                                       /\ rows[j].path[d].from = here}
                        IN  Cardinality({rows[j].path[d].to : j \in uses}) <= MaxFanout
      BY Zenon DEF FanoutAccepted
    <2> DEFINE here == rows[i].path[d].from
               uses == {j \in DOMAIN rows : /\ d \in DOMAIN rows[j].path
                                            /\ rows[j].path[d].from = here}
               T == {rows[j].path[d].to : j \in uses}
    <2>1. ASSUME NEW x \in T
          PROVE  \E e \in Bounded(arcs) : e.from = here /\ x = e.to
      <3>1. PICK j \in uses : x = rows[j].path[d].to
        OBVIOUS
      <3>2. PICK n \in 1..MaxDepth : RowSound(seeds, arcs, n, rows[j])
        BY <1>2, <1>8, <3>1
      <3>3. DOMAIN rows[j].path = 1..n
        BY <3>2 DEF RowSound, RowOf
      <3>4. rows[j].path[d] \in Bounded(arcs) /\ rows[j].path[d].from = here
        BY <3>1, <3>2, <3>3 DEF RowSound
      <3> QED
        BY <3>1, <3>4
    <2>2. ArcsOf(edges, arcs)
      BY ArcsFacts
    <2> HIDE DEF T, arcs, here
    <2>3. ReachedFrom(here, arcs, T)
      BY <2>1 DEF ReachedFrom
    <2>4. Cardinality(T) <= MaxFanout
      BY <2>2, <2>3, FanoutBound, Zenon
    <2> QED
      BY <2>4 DEF T, here
  <1> QED
    BY <1>1, <1>7, <1>9, <1>10 DEF Accepted

(* The first row for each entity, and no more than the bound.              *)
LEMMA ValidatedTyped ==
  ASSUME NEW T, NEW rows \in Seq(T)
  PROVE  Validated(rows) \in Seq(T) /\ Len(Validated(rows)) <= MaxCandidates
  <1> DEFINE first == {i \in DOMAIN rows : \A j \in 1..(i - 1) : rows[j].at # rows[i].at}
  <1>1. first \in SUBSET (1..Len(rows)) /\ MaxCandidates \in Nat
    BY TraversalConstants, LenProperties
  <1>2. FirstOfEach(rows) = KeptAt(rows, first)
    BY DEF FirstOfEach
  <1> HIDE DEF first
  <1>3. FirstOfEach(rows) \in Seq(T)
    BY <1>1, <1>2, KeptAtFacts
  <1>4. PICK kept : kept = FirstOfEach(rows)
    OBVIOUS
  <1>5. Validated(rows) =
          SubSeq(kept, 1, IF Len(kept) < MaxCandidates THEN Len(kept) ELSE MaxCandidates)
    BY <1>4 DEF Validated
  <1> QED
    BY <1>1, <1>3, <1>4, <1>5, PrefixFacts

-----------------------------------------------------------------------------
(* The walk of a call.                                                     *)

(* The relationships in scope are a graph of the kind the walk expects.    *)
LEMMA EligibleGraph == Graph(EligibleEdges)
  <1>1. EligibleEdges \subseteq Edges
    BY DEF EligibleEdges
  <1>2. \A e \in EligibleEdges : e.from \in Chunks /\ e.to \in Chunks
    BY DEF EligibleEdges, EdgeInScope, ChunkScope
  <1>3. IsFiniteSet(EligibleEdges)
    BY <1>1, RetrievalConstants, FS_Subset
  <1> QED
    BY <1>1, <1>2, <1>3, RetrievalConstants DEF Graph

(* The seeds of a call are chunks that its lists hold.                     *)
LEMMA SeedsTyped ==
  ASSUME FourLists(lists)
  PROVE  Seeds \in Seq(Chunks)
  <1> DEFINE named == [i \in DOMAIN SeedLists |-> SeedsFrom(SeedLists[i])]
             all == FlattenSeq(named) \o FusedSeeds
             first == {i \in DOMAIN all : \A j \in 1..(i - 1) : all[j] # all[i]}
  <1>1. SeedLists \in Seq({"fused"} \cup Paths)
    BY RetrievalConstants
  <1>2. <<>> \in Seq(Chunks)
    BY EmptySeq
  <1>3. \A i \in DOMAIN SeedLists : SeedsFrom(SeedLists[i]) \in Seq(Chunks)
    <2>1. ASSUME NEW i \in DOMAIN SeedLists
          PROVE  SeedsFrom(SeedLists[i]) \in Seq(Chunks)
      <3>1. SeedLists[i] = "fused" \/ SeedLists[i] \in Paths
        BY <1>1
      <3>2. CASE SeedLists[i] = "fused"
        BY <1>2, <3>2 DEF SeedsFrom
      <3>3. CASE SeedLists[i] # "fused"
        <4>1. SeedLists[i] \in DOMAIN lists
          BY <3>1, <3>3 DEF FourLists
        <4> QED
          BY <3>3, <4>1 DEF SeedsFrom, FourLists, List
      <3> QED
        BY <3>2, <3>3
    <2> QED
      BY <2>1
  <1>4. named \in Seq(Seq(Chunks))
    <2>1. DOMAIN SeedLists = 1..Len(SeedLists) /\ Len(SeedLists) \in Nat
      BY <1>1, LenProperties
    <2>2. named \in [1..Len(SeedLists) -> Seq(Chunks)]
      BY <1>3, <2>1
    <2> HIDE DEF named
    <2> QED
      BY <2>1, <2>2
  <1>5. FlattenSeq(named) \in Seq(Chunks)
    <2> HIDE DEF named
    <2> QED
      BY <1>4, FlattenTyped
  <1>6. FusedSeeds \in Seq(Chunks)
    BY <1>2, FusedFacts DEF FusedSeeds
  <1>7. all \in Seq(Chunks)
    <2> HIDE DEF named
    <2> QED
      BY <1>5, <1>6, ConcatProperties
  <1>8. Seeds = KeptAt(all, first)
    BY DEF Seeds
  <1> HIDE DEF all
  <1>9. first \in SUBSET (1..Len(all))
    BY <1>7, LenProperties
  <1> HIDE DEF first
  <1> QED
    BY <1>7, <1>8, <1>9, KeptAtFacts

(* Whatever the walk reaches is an end of an edge in scope.                *)
LEMMA ReachedInScope ==
  ASSUME FourLists(lists), NEW r \in Walked(Seeds, EligibleEdges)
  PROVE  r.at \in ChunkScope(ScopeOf(request.filter))
  <1> DEFINE arcs == Oriented(EligibleEdges)
  <1>1. PICK d \in 1..MaxDepth : RowSound(Seeds, arcs, d, r)
    BY SeedsTyped, EligibleGraph, WalkedFacts
  <1>2. d > 0 /\ d \in 1..d
    BY TraversalConstants
  <1>3. r.path[d] \in Bounded(arcs) /\ r.at = r.path[d].to
    BY <1>1, <1>2 DEF RowSound
  <1>4. r.path[d] \in arcs
    BY <1>3 DEF Bounded
  <1>5. PICK e \in EligibleEdges : r.path[d] = Outward(e) \/ r.path[d] = Inward(e)
    BY <1>4 DEF Oriented
  <1>6. r.at = e.from \/ r.at = e.to
    BY <1>3, <1>5 DEF Outward, Inward
  <1> QED
    BY <1>6 DEF EligibleEdges, EdgeInScope

(* The walk of a call passes the checks and stays within its bound.        *)
LEMMA ExpansionSound ==
  ASSUME FourLists(lists)
  PROVE  /\ Traversal(Seeds, EligibleEdges) \in Seq(Walked(Seeds, EligibleEdges))
         /\ Accepted(Traversal(Seeds, EligibleEdges), Seeds)
         /\ Walked(Seeds, EligibleEdges) # {} =>
              Cardinality(Walked(Seeds, EligibleEdges)) + Len(Seeds) <= MaxCandidates
  <1>1. PICK seeds : seeds = Seeds
    OBVIOUS
  <1>2. PICK edges : edges = EligibleEdges
    OBVIOUS
  <1>3. seeds \in Seq(Chunks) /\ Graph(edges)
    BY <1>1, <1>2, SeedsTyped, EligibleGraph
  <1>4. PICK rows : rows = Traversal(seeds, edges)
    OBVIOUS
  <1>5. PICK reached : reached = Walked(seeds, edges)
    OBVIOUS
  <1>6. rows \in Seq(Walked(seeds, edges)) /\ Accepted(rows, seeds)
    BY <1>3, <1>4, TraversalSound
  <1>7. reached # {} => Cardinality(reached) + Len(seeds) <= MaxCandidates
    BY <1>3, <1>5, WalkedFacts
  <1> QED
    BY <1>1, <1>2, <1>4, <1>5, <1>6, <1>7

-----------------------------------------------------------------------------
(* The bundle.                                                             *)

Item == [of: Chunks, size: Nat]

Bundle == [items: Seq(Item), left: Nat, cut: Nat, dropped: Nat]

(* The texts read have a length.                                           *)
Measured == \A c \in DOMAIN records : LengthOf[records[c].hash] \in Nat

(* The three things that may become of a candidate.                        *)
LEMMA TakeCases ==
  ASSUME Measured, NEW b \in Bundle, NEW c \in Chunks, NEW reached
  PROVE  LET t == Take(b, c, reached)
             size == LengthOf[records[c].hash]
             shown == Shorter(size, b.left)
         IN  /\ t \in Bundle
             /\ \/ /\ ~Usable(c)
                   /\ t.items = b.items /\ t.left = b.left /\ t.dropped = b.dropped + 1
                \/ /\ Usable(c) /\ (shown = 0 \/ ~PathShown(c, reached))
                   /\ t.items = b.items /\ t.left = b.left - shown
                   /\ t.dropped = b.dropped + 1
                \/ /\ Usable(c) /\ shown # 0 /\ PathShown(c, reached)
                   /\ t.items = Append(b.items, [of |-> c, size |-> shown])
                   /\ t.left = b.left - shown /\ t.dropped = b.dropped
  <1> DEFINE t == Take(b, c, reached)
             size == LengthOf[records[c].hash]
             shown == Shorter(size, b.left)
             over == IF shown < size THEN 1 ELSE 0
             more == Append(b.items, [of |-> c, size |-> shown])
             Items == Seq(Item)
  <1>1. Usable(c) => size \in Nat
    BY DEF Usable, Measured
  <1>2. b.items \in Items /\ b.left \in Nat /\ b.cut \in Nat /\ b.dropped \in Nat
    BY DEF Bundle
  <1>3. Usable(c) => shown \in Nat /\ b.left - shown \in Nat
    BY <1>1, <1>2 DEF Shorter
  <1>4. Usable(c) => more \in Items
    <2>1. Usable(c) => [of |-> c, size |-> shown] \in Item
      BY <1>3 DEF Item
    <2> QED
      BY <1>2, <2>1, AppendProperties
  <1>5. over \in Nat
    OBVIOUS
  <1>6. t = IF ~Usable(c) THEN [b EXCEPT !.dropped = @ + 1]
            ELSE IF shown = 0 \/ ~PathShown(c, reached)
            THEN [b EXCEPT !.left = @ - shown, !.cut = @ + over, !.dropped = @ + 1]
            ELSE [b EXCEPT !.items = more, !.left = @ - shown, !.cut = @ + over]
    BY DEF Take
  <1>7. b \in [items: Items, left: Nat, cut: Nat, dropped: Nat]
    BY DEF Bundle
  <1>8. Bundle = [items: Items, left: Nat, cut: Nat, dropped: Nat]
    BY DEF Bundle
  <1> HIDE DEF Items, more, over, shown, size, t
  <1>9. CASE ~Usable(c)
    BY <1>2, <1>6, <1>7, <1>8, <1>9 DEF t, shown, size
  <1>10. CASE Usable(c) /\ (shown = 0 \/ ~PathShown(c, reached))
    <2>1. t = [b EXCEPT !.left = @ - shown, !.cut = @ + over, !.dropped = @ + 1]
      BY <1>6, <1>10
    <2>4. b.left - shown \in Nat /\ b.cut + over \in Nat /\ b.dropped + 1 \in Nat
      BY <1>2, <1>3, <1>5, <1>10
    <2>2. t \in Bundle
      BY <1>7, <1>8, <2>1, <2>4
    <2>3. t.items = b.items /\ t.left = b.left - shown /\ t.dropped = b.dropped + 1
      BY <1>7, <2>1
    <2> QED
      BY <1>10, <2>2, <2>3 DEF t, shown, size
  <1>11. CASE Usable(c) /\ shown # 0 /\ PathShown(c, reached)
    <2>1. t = [b EXCEPT !.items = more, !.left = @ - shown, !.cut = @ + over]
      BY <1>6, <1>11
    <2>4. b.left - shown \in Nat /\ b.cut + over \in Nat /\ more \in Items
      BY <1>2, <1>3, <1>4, <1>5, <1>11
    <2>2. t \in Bundle
      BY <1>7, <1>8, <2>1, <2>4
    <2>3. t.items = more /\ t.left = b.left - shown /\ t.dropped = b.dropped
      BY <1>7, <2>1
    <2> QED
      BY <1>11, <2>2, <2>3 DEF t, shown, size, more
  <1> QED
    BY <1>9, <1>10, <1>11

(* The assembly is a fold over the candidates.                             *)
LEMMA AssembledFold ==
  ASSUME Measured, NEW order \in Seq(Chunks), NEW reached, NEW budget \in Nat
  PROVE  \E f \in [0..Len(order) -> Bundle] :
           /\ f[0] = Empty(budget)
           /\ \A i \in 1..Len(order) : f[i] = Take(f[i - 1], order[i], reached)
           /\ Assembled(order, reached, budget) = f[Len(order)]
  <1> DEFINE N == Len(order)
             Eq(f) == f = [n \in 0..N |-> IF n = 0 THEN Empty(budget)
                                          ELSE Take(f[n - 1], order[n], reached)]
             step == [p \in (1..N) \X Bundle |-> Take(p[2], order[p[1]], reached)]
  <1>1. N \in Nat /\ \A i \in 1..N : order[i] \in Chunks
    OBVIOUS
  <1>2. Empty(budget) \in Bundle
    BY DEF Empty, Bundle
  <1>3. step \in [(1..N) \X Bundle -> Bundle]
    BY <1>1, TakeCases
  <1>4. PICK f : IsFold(f, N, Bundle, Empty(budget), step)
    <2>1. N \in Nat
      BY <1>1
    <2> HIDE DEF step, N
    <2> QED
      BY <2>1, <1>2, <1>3, FoldDefined, Zenon
  <1>5. ASSUME NEW i \in 1..N
        PROVE  f[i] = Take(f[i - 1], order[i], reached)
    <2>1. f[i - 1] \in Bundle
      BY <1>1, <1>4 DEF IsFold
    <2>2. step[<<i, f[i - 1]>>] = Take(f[i - 1], order[i], reached)
      BY <2>1
    <2> HIDE DEF step
    <2> QED
      BY <1>4, <2>2 DEF IsFold
  <1>6. Eq(f)
    BY <1>4, <1>5, <1>1 DEF IsFold
  <1>7. Assembled(order, reached, budget) = (CHOOSE g : Eq(g))[N]
    BY DEF Assembled
  <1>8. Eq(CHOOSE g : Eq(g))
    <2> HIDE DEF Eq
    <2> QED
      BY <1>6
  <1> DEFINE g == CHOOSE h : Eq(h)
  <1>9. PICK h : h = g
    OBVIOUS
  <1>10. h = [n \in 0..N |-> IF n = 0 THEN Empty(budget)
                             ELSE Take(h[n - 1], order[n], reached)]
    <2>1. Eq(h)
      <3> HIDE DEF Eq
      <3> QED
        BY <1>8, <1>9
    <2> QED
      BY <2>1
  <1>11. h[N] = Assembled(order, reached, budget)
    BY <1>7, <1>9
  <1> HIDE DEF Eq, g
  <1>12. /\ h = [n \in 0..N |-> h[n]] /\ h[0] = Empty(budget)
         /\ \A i \in 1..N : h[i] = Take(h[i - 1], order[i], reached)
    BY <1>1, <1>10
  <1>13. \A i \in 1..N : h[i - 1] \in Bundle => h[i] = step[<<i, h[i - 1]>>]
    BY <1>12
  <1>14. IsFold(h, N, Bundle, Empty(budget), step)
    <2>1. N \in Nat
      BY <1>1
    <2> HIDE DEF step, N
    <2> QED
      BY <2>1, <1>2, <1>3, <1>12, <1>13, FoldTyped, Zenon
  <1>15. h \in [0..N -> Bundle]
    BY <1>14 DEF IsFold
  <1> QED
    BY <1>11, <1>12, <1>15

(* The size of a bundle is a fold over its items.                          *)
LEMMA TotalFold ==
  ASSUME NEW b, b.items \in Seq(Item)
  PROVE  \E f \in [0..Len(b.items) -> Nat] :
           /\ f[0] = 0 /\ TotalSize(b) = f[Len(b.items)]
           /\ \A i \in 1..Len(b.items) : f[i] = f[i - 1] + b.items[i].size
  <1> DEFINE items == b.items
             N == Len(items)
             Eq(f) == f = [n \in 0..N |-> IF n = 0 THEN 0 ELSE f[n - 1] + items[n].size]
             step == [p \in (1..N) \X Nat |-> p[2] + items[p[1]].size]
  <1>1. N \in Nat /\ \A i \in 1..N : items[i].size \in Nat
    <2>1. \A i \in 1..N : items[i] \in Item
      BY ElementOfSeq
    <2> QED
      BY <2>1, LenProperties DEF Item
  <1>2. TotalSize(b) = (CHOOSE g : Eq(g))[N]
    BY DEF TotalSize
  <1> HIDE DEF items
  <1>3. step \in [(1..N) \X Nat -> Nat]
    BY <1>1
  <1>4. PICK f : IsFold(f, N, Nat, 0, step)
    <2>1. N \in Nat /\ 0 \in Nat
      BY <1>1
    <2> HIDE DEF step, N
    <2> QED
      BY <2>1, <1>3, FoldDefined, Zenon
  <1>5. ASSUME NEW i \in 1..N
        PROVE  f[i] = f[i - 1] + items[i].size
    <2>1. f[i - 1] \in Nat
      BY <1>1, <1>4 DEF IsFold
    <2>2. step[<<i, f[i - 1]>>] = f[i - 1] + items[i].size
      BY <2>1
    <2> HIDE DEF step
    <2> QED
      BY <1>4, <2>2 DEF IsFold
  <1>6. Eq(f)
    BY <1>4, <1>5, <1>1 DEF IsFold
  <1>7. Eq(CHOOSE g : Eq(g))
    <2> HIDE DEF Eq
    <2> QED
      BY <1>6
  <1> DEFINE g == CHOOSE h : Eq(h)
  <1>8. PICK h : h = g
    OBVIOUS
  <1>9. h = [n \in 0..N |-> IF n = 0 THEN 0 ELSE h[n - 1] + items[n].size]
    <2>1. Eq(h)
      <3> HIDE DEF Eq
      <3> QED
        BY <1>7, <1>8
    <2> QED
      BY <2>1
  <1>10. h[N] = TotalSize(b)
    BY <1>2, <1>8
  <1> HIDE DEF Eq, g
  <1>11. /\ h = [n \in 0..N |-> h[n]] /\ h[0] = 0
         /\ \A i \in 1..N : h[i] = h[i - 1] + items[i].size
    BY <1>1, <1>9
  <1>12. \A i \in 1..N : h[i - 1] \in Nat => h[i] = step[<<i, h[i - 1]>>]
    BY <1>11
  <1>13. IsFold(h, N, Nat, 0, step)
    <2>1. N \in Nat /\ 0 \in Nat
      BY <1>1
    <2> HIDE DEF step, N
    <2> QED
      BY <2>1, <1>3, <1>11, <1>12, FoldTyped, Zenon
  <1>14. h \in [0..N -> Nat]
    BY <1>13 DEF IsFold
  <1> QED
    BY <1>10, <1>11, <1>14 DEF items

(* The size of a bundle is a number.                                       *)
LEMMA TotalTyped ==
  ASSUME NEW b, b.items \in Seq(Item)
  PROVE  TotalSize(b) \in Nat
  <1>1. Len(b.items) \in Nat
    BY LenProperties
  <1> QED
    BY <1>1, TotalFold

(* A text more adds its size.                                              *)
LEMMA TotalAppend ==
  ASSUME NEW b, b.items \in Seq(Item), NEW item \in Item,
         NEW t, t.items = Append(b.items, item)
  PROVE  TotalSize(t) = TotalSize(b) + item.size
  <1> DEFINE N == Len(b.items)
  <1>1. /\ t.items \in Seq(Item) /\ Len(t.items) = N + 1 /\ N \in Nat
        /\ t.items[N + 1] = item /\ \A i \in 1..N : t.items[i] = b.items[i]
    BY AppendProperties, LenProperties
  <1>2. PICK f : /\ f \in [0..N -> Nat] /\ f[0] = 0 /\ TotalSize(b) = f[N]
                 /\ \A i \in 1..N : f[i] = f[i - 1] + b.items[i].size
    BY TotalFold
  <1>3. PICK g : /\ g \in [0..(N + 1) -> Nat] /\ g[0] = 0 /\ TotalSize(t) = g[N + 1]
                 /\ \A i \in 1..(N + 1) : g[i] = g[i - 1] + t.items[i].size
    <2> DEFINE M == Len(t.items)
    <2>1. PICK g : /\ g \in [0..M -> Nat] /\ g[0] = 0 /\ TotalSize(t) = g[M]
                   /\ \A i \in 1..M : g[i] = g[i - 1] + t.items[i].size
      BY <1>1, TotalFold
    <2>2. M = N + 1
      BY <1>1
    <2> HIDE DEF M
    <2> QED
      BY <2>1, <2>2
  <1> DEFINE T == {i \in 0..N : f[i] = g[i]}
  <1> HIDE DEF N
  <1>4. 0..N \subseteq T
    <2>1. 0 \in T
      BY <1>1, <1>2, <1>3
    <2>2. ASSUME NEW i \in 1..N, i - 1 \in T
          PROVE  i \in T
      <3>1. f[i - 1] = g[i - 1] /\ i \in 0..N /\ i \in 1..(N + 1)
        BY <1>1, <2>2
      <3>2. f[i] = f[i - 1] + b.items[i].size /\ g[i] = g[i - 1] + t.items[i].size
        BY <1>2, <1>3, <3>1
      <3> QED
        BY <1>1, <3>1, <3>2
    <2> HIDE DEF T
    <2> QED
      BY <1>1, <2>1, <2>2, UpToInduction
  <1>5. f[N] = g[N] /\ N + 1 \in 1..(N + 1) /\ N + 1 - 1 = N
    BY <1>1, <1>4
  <1> QED
    BY <1>1, <1>2, <1>3, <1>5

-----------------------------------------------------------------------------
(* What holds of a bundle after n candidates.                              *)

TextOf(item) == LengthOf[records[item.of].hash]

(* It shows usable candidates, and has dropped the others.                 *)
ShowsUsable(b, n, order) ==
  /\ \A i \in 1..Len(b.items) : \E j \in 1..n : /\ b.items[i].of = order[j]
                                                /\ Usable(order[j])
  /\ Len(b.items) + b.dropped = n

(* What it shows was charged, and only a text shown last was cut.          *)
Charged(b, budget) ==
  /\ TotalSize(b) + b.left <= 4 * budget
  /\ \A i \in 1..Len(b.items) :
       b.items[i].size < TextOf(b.items[i]) => i = Len(b.items) /\ b.left = 0

(* If every usable candidate may be shown, nothing else was charged, and   *)
(* while there is room none was left out.                                  *)
Complete(b, n, order, budget) ==
  /\ TotalSize(b) + b.left = 4 * budget
  /\ \A j \in 1..n : Usable(order[j]) => order[j] \in Shown(b) \/ b.left = 0

(* One item more: what is shown and how much it takes.                     *)
LEMMA AppendedItem ==
  ASSUME NEW b \in Bundle, NEW t \in Bundle, NEW item,
         t.items = Append(b.items, item), item \in Item
  PROVE  /\ Len(b.items) \in Nat /\ Len(t.items) = Len(b.items) + 1
         /\ \A i \in 1..Len(b.items) : t.items[i] = b.items[i]
         /\ t.items[Len(b.items) + 1] = item
         /\ DOMAIN b.items = 1..Len(b.items) /\ DOMAIN t.items = 1..(Len(b.items) + 1)
  <1>1. b.items \in Seq(Item) /\ t.items \in Seq(Item)
    BY DEF Bundle
  <1> QED
    BY <1>1, AppendProperties, LenProperties

(* One candidate more: what is shown is usable.                            *)
LEMMA ShowsUsableStep ==
  ASSUME Measured, NEW order \in Seq(Chunks), NEW n \in 1..Len(order), NEW reached,
         NEW b \in Bundle, ShowsUsable(b, n - 1, order),
         NEW t, t = Take(b, order[n], reached)
  PROVE  ShowsUsable(t, n, order)
  <1> DEFINE c == order[n]
             shown == Shorter(LengthOf[records[c].hash], b.left)
  <1>1. c \in Chunks
    BY ElementOfSeq
  <1>2. n - 1 \in Nat /\ \A j \in 1..(n - 1) : j \in 1..n
    OBVIOUS
  <1>3. Len(b.items) \in Nat /\ b.dropped \in Nat
    BY LenProperties DEF Bundle
  <1>4. CASE t.items = b.items /\ t.dropped = b.dropped + 1
    BY <1>2, <1>3, <1>4 DEF ShowsUsable
  <1>5. CASE /\ Usable(c) /\ shown # 0 /\ t.dropped = b.dropped /\ t \in Bundle
             /\ t.items = Append(b.items, [of |-> c, size |-> shown])
    <2> DEFINE item == [of |-> c, size |-> shown]
    <2>1. item \in Item
      BY <1>1, <1>5 DEF Item, Usable, Measured, Shorter, Bundle
    <2>2. item.of = c
      OBVIOUS
    <2> HIDE DEF item, shown, c
    <2>3. /\ Len(t.items) = Len(b.items) + 1
          /\ \A i \in 1..Len(b.items) : t.items[i] = b.items[i]
          /\ t.items[Len(b.items) + 1] = item
      BY <1>5, <2>1, AppendedItem DEF item
    <2>4. Len(t.items) + t.dropped = n
      BY <1>3, <1>5, <2>3 DEF ShowsUsable
    <2>5. ASSUME NEW i \in 1..Len(t.items)
          PROVE  \E j \in 1..n : t.items[i].of = order[j] /\ Usable(order[j])
      <3>1. CASE i = Len(b.items) + 1
        BY <1>5, <2>2, <2>3, <3>1 DEF c
      <3>2. CASE i \in 1..Len(b.items)
        BY <1>2, <2>3, <3>2 DEF ShowsUsable
      <3>3. i = Len(b.items) + 1 \/ i \in 1..Len(b.items)
        BY <1>3, <2>3
      <3> QED
        BY <3>1, <3>2, <3>3
    <2> QED
      BY <2>4, <2>5 DEF ShowsUsable
  <1> QED
    BY <1>1, <1>4, <1>5, TakeCases

(* The same items have the same size.                                      *)
LEMMA TotalSame ==
  ASSUME NEW b, NEW t, t.items = b.items
  PROVE  TotalSize(t) = TotalSize(b)
  BY DEF TotalSize

(* What a text is shown of: all of it, or what room there is.              *)
LEMMA ShownFacts ==
  ASSUME Measured, NEW b \in Bundle, NEW c, Usable(c),
         NEW size, size = LengthOf[records[c].hash],
         NEW shown, shown = Shorter(size, b.left)
  PROVE  /\ size \in Nat /\ size > 0 /\ shown \in Nat /\ b.left \in Nat
         /\ shown <= size /\ shown <= b.left
         /\ shown < size => shown = b.left
         /\ b.left = 0 => shown = 0
         /\ shown = 0 => b.left = 0
  BY DEF Usable, Measured, Shorter, Bundle

(* One candidate more: the room left and the sizes make the room at first. *)
LEMMA ChargedStep ==
  ASSUME Measured, NEW c \in Chunks, NEW reached, NEW budget \in Nat,
         NEW b \in Bundle, Charged(b, budget),
         NEW t, t = Take(b, c, reached)
  PROVE  Charged(t, budget)
  <1> DEFINE size == LengthOf[records[c].hash]
             shown == Shorter(size, b.left)
             item == [of |-> c, size |-> shown]
  <1>1. b.items \in Seq(Item) /\ TotalSize(b) \in Nat /\ b.left \in Nat
    BY TotalTyped DEF Bundle
  <1>2. Usable(c) => /\ size \in Nat /\ shown \in Nat /\ shown <= b.left
                     /\ shown < size => shown = b.left
                     /\ b.left = 0 => shown = 0
    BY ShownFacts, Zenon
  <1>3. CASE t.items = b.items /\ t.left = b.left
    BY <1>3, TotalSame DEF Charged
  <1>4. CASE Usable(c) /\ t.items = b.items /\ t.left = b.left - shown
    <2> HIDE DEF shown, size
    <2>1. t.left <= b.left /\ (b.left = 0 => t.left = 0) /\ t.left \in Nat
      BY <1>1, <1>2, <1>4
    <2>2. TotalSize(t) = TotalSize(b)
      BY <1>4, TotalSame
    <2> QED
      BY <1>1, <1>4, <2>1, <2>2 DEF Charged
  <1>5. CASE /\ Usable(c) /\ shown # 0 /\ t \in Bundle
             /\ t.items = Append(b.items, item) /\ t.left = b.left - shown
    <2>1. item \in Item /\ item.of = c /\ item.size = shown
      BY <1>2, <1>5 DEF Item
    <2>2. TextOf(item) = size
      BY <2>1 DEF TextOf
    <2> HIDE DEF item, shown, size
    <2>3. /\ Len(b.items) \in Nat /\ Len(t.items) = Len(b.items) + 1
          /\ \A i \in 1..Len(b.items) : t.items[i] = b.items[i]
          /\ t.items[Len(b.items) + 1] = item
      BY <1>5, <2>1, AppendedItem
    <2>4. TotalSize(t) = TotalSize(b) + shown
      BY <1>1, <1>5, <2>1, TotalAppend
    <2>5. TotalSize(t) + t.left <= 4 * budget
      BY <1>1, <1>2, <1>5, <2>4 DEF Charged
    <2>6. ASSUME NEW i \in 1..Len(t.items), t.items[i].size < TextOf(t.items[i])
          PROVE  i = Len(t.items) /\ t.left = 0
      <3>1. CASE i = Len(b.items) + 1
        BY <1>1, <1>2, <1>5, <2>1, <2>2, <2>3, <2>6, <3>1
      <3>2. CASE i \in 1..Len(b.items)
        <4>1. b.items[i].size < TextOf(b.items[i])
          BY <2>3, <2>6, <3>2
        <4>2. b.left = 0
          BY <3>2, <4>1 DEF Charged
        <4> QED
          BY <1>2, <1>5, <4>2
      <3> QED
        BY <2>3, <3>1, <3>2
    <2> QED
      BY <2>5, <2>6 DEF Charged
  <1> QED
    BY <1>3, <1>4, <1>5, TakeCases

(* One candidate more: every usable one is shown, or the room is used up.  *)
LEMMA CompleteStep ==
  ASSUME Measured, NEW order \in Seq(Chunks), NEW n \in 1..Len(order), NEW reached,
         NEW budget \in Nat, PathShown(order[n], reached) \/ ~Usable(order[n]),
         NEW b \in Bundle, Complete(b, n - 1, order, budget),
         NEW t, t = Take(b, order[n], reached)
  PROVE  Complete(t, n, order, budget)
  <1> DEFINE c == order[n]
             size == LengthOf[records[c].hash]
             shown == Shorter(size, b.left)
             item == [of |-> c, size |-> shown]
  <1>1. c \in Chunks
    BY ElementOfSeq
  <1>2. b.items \in Seq(Item) /\ TotalSize(b) \in Nat /\ b.left \in Nat
    BY TotalTyped DEF Bundle
  <1>3. Usable(c) => /\ size \in Nat /\ shown \in Nat /\ shown <= b.left
                     /\ b.left = 0 => shown = 0
                     /\ shown = 0 => b.left = 0
    BY ShownFacts, Zenon
  <1>4. \A j \in 1..n : j = n \/ j \in 1..(n - 1)
    OBVIOUS
  <1>5. CASE ~Usable(c) /\ t.items = b.items /\ t.left = b.left
    <2>1. TotalSize(t) = TotalSize(b) /\ Shown(t) = Shown(b)
      BY <1>5, TotalSame DEF Shown
    <2> QED
      BY <1>4, <1>5, <2>1 DEF Complete
  <1>6. CASE Usable(c) /\ shown = 0 /\ t.items = b.items /\ t.left = b.left - shown
    <2>1. TotalSize(t) = TotalSize(b) /\ Shown(t) = Shown(b)
      BY <1>6, TotalSame DEF Shown
    <2>2. t.left = b.left /\ t.left = 0
      BY <1>2, <1>3, <1>6
    <2> QED
      BY <2>1, <2>2 DEF Complete
  <1>7. CASE /\ Usable(c) /\ shown # 0 /\ t \in Bundle
             /\ t.items = Append(b.items, item) /\ t.left = b.left - shown
    <2>1. item \in Item /\ item.of = c /\ item.size = shown
      BY <1>1, <1>3, <1>7 DEF Item
    <2> HIDE DEF item, shown, size
    <2>2. /\ Len(b.items) \in Nat /\ Len(t.items) = Len(b.items) + 1
          /\ \A i \in 1..Len(b.items) : t.items[i] = b.items[i]
          /\ t.items[Len(b.items) + 1] = item
          /\ DOMAIN b.items = 1..Len(b.items) /\ DOMAIN t.items = 1..(Len(b.items) + 1)
      BY <1>7, <2>1, AppendedItem
    <2>3. TotalSize(t) = TotalSize(b) + shown
      BY <1>2, <1>7, <2>1, TotalAppend
    <2>4. TotalSize(t) + t.left = 4 * budget
      BY <1>2, <1>3, <1>7, <2>3 DEF Complete
    <2>5. c \in Shown(t)
      <3>1. Len(b.items) + 1 \in DOMAIN t.items
        BY <2>2
      <3> QED
        BY <2>1, <2>2, <3>1 DEF Shown
    <2>6. Shown(b) \subseteq Shown(t)
      <3>1. \A i \in DOMAIN b.items : i \in DOMAIN t.items /\ t.items[i].of = b.items[i].of
        BY <2>2
      <3> QED
        BY <3>1 DEF Shown
    <2>7. b.left # 0
      BY <1>3, <1>7
    <2>8. \A j \in 1..n : Usable(order[j]) => order[j] \in Shown(t)
      BY <1>4, <2>5, <2>6, <2>7 DEF Complete
    <2> QED
      BY <2>4, <2>8 DEF Complete
  <1> QED
    BY <1>1, <1>5, <1>6, <1>7, TakeCases

(* The whole bundle.                                                       *)
LEMMA AssembledFacts ==
  ASSUME Measured, NEW order \in Seq(Chunks), NEW reached, NEW budget \in Nat,
         NEW b, b = Assembled(order, reached, budget)
  PROVE  /\ b \in Bundle
         /\ ShowsUsable(b, Len(order), order)
         /\ Charged(b, budget)
         /\ (\A j \in 1..Len(order) : Usable(order[j]) => PathShown(order[j], reached)) =>
              Complete(b, Len(order), order, budget)
  <1> DEFINE N == Len(order)
             AllShown == \A j \in 1..N : Usable(order[j]) => PathShown(order[j], reached)
             e == Empty(budget)
  <1>1. PICK f \in [0..N -> Bundle] :
           /\ f[0] = e
           /\ \A i \in 1..N : f[i] = Take(f[i - 1], order[i], reached)
           /\ b = f[N]
    BY AssembledFold
  <1>2. N \in Nat /\ \A i \in 1..N : order[i] \in Chunks
    OBVIOUS
  <1>3. /\ e.items = <<>> /\ e.items \in Seq(Item) /\ Len(e.items) = 0
        /\ e.dropped = 0 /\ e.left = 4 * budget
    BY DEF Empty
  <1>4. TotalSize(e) = 0
    BY <1>3, TotalFold
  <1> HIDE DEF e, N
  <1> DEFINE T == {i \in 0..N : /\ ShowsUsable(f[i], i, order)
                                /\ Charged(f[i], budget)
                                /\ AllShown => Complete(f[i], i, order, budget)}
  <1>5. 0 \in T
    <2>1. ShowsUsable(e, 0, order)
      BY <1>3 DEF ShowsUsable
    <2>2. Charged(e, budget)
      BY <1>3, <1>4 DEF Charged
    <2>3. Complete(e, 0, order, budget)
      BY <1>3, <1>4 DEF Complete
    <2> QED
      BY <1>1, <1>2, <2>1, <2>2, <2>3
  <1>6. ASSUME NEW i \in 1..N, i - 1 \in T
        PROVE  i \in T
    <2>1. /\ ShowsUsable(f[i - 1], i - 1, order) /\ Charged(f[i - 1], budget)
          /\ AllShown => Complete(f[i - 1], i - 1, order, budget)
          /\ f[i - 1] \in Bundle /\ i \in 0..N /\ order[i] \in Chunks
          /\ f[i] = Take(f[i - 1], order[i], reached) /\ i \in 1..Len(order)
      BY <1>1, <1>2, <1>6 DEF N
    <2>2. ShowsUsable(f[i], i, order)
      BY <2>1, ShowsUsableStep
    <2>3. Charged(f[i], budget)
      BY <2>1, ChargedStep
    <2>4. ASSUME AllShown
          PROVE  Complete(f[i], i, order, budget)
      <3>1. PathShown(order[i], reached) \/ ~Usable(order[i])
        BY <2>4
      <3> HIDE DEF AllShown
      <3> QED
        BY <2>1, <2>4, <3>1, CompleteStep
    <2> HIDE DEF AllShown
    <2> QED
      BY <2>1, <2>2, <2>3, <2>4
  <1>7. N \in T
    <2>1. 0..N \subseteq T
      <3> HIDE DEF T
      <3> QED
        BY <1>2, <1>5, <1>6, UpToInduction
    <2> QED
      BY <1>2, <2>1
  <1> QED
    BY <1>1, <1>2, <1>7 DEF N

(* A finished call, and the numbers a caller sees.                         *)
(* CutShort, of any bundle.                                                *)
CutIn(b) == {i \in DOMAIN b.items : b.items[i].size < LengthOf[records[b.items[i].of].hash]}

(* What is assembled is consistent and honest about its budget.            *)
LEMMA BundleSound ==
  ASSUME Measured, ranked \in Seq(Chunks), request.budget \in Nat,
         NEW b, b = Assembled(ranked, walked, request.budget)
  PROVE  /\ \A c \in Shown(b) : c \in Usables
         /\ EstimatedTokens(b) <= request.budget
         /\ CutIn(b) \subseteq {Len(b.items)}
         /\ Len(b.items) + b.dropped = Len(ranked)
         /\ (\A c \in Usables : PathShown(c, walked)) =>
              \/ Usables = Shown(b)
              \/ TotalSize(b) = 4 * request.budget
  <1>1. /\ b \in Bundle
        /\ ShowsUsable(b, Len(ranked), ranked)
        /\ Charged(b, request.budget)
        /\ (\A j \in 1..Len(ranked) : Usable(ranked[j]) => PathShown(ranked[j], walked)) =>
             Complete(b, Len(ranked), ranked, request.budget)
    BY AssembledFacts
  <1>2. /\ b.items \in Seq(Item) /\ DOMAIN b.items = 1..Len(b.items)
        /\ TotalSize(b) \in Nat /\ b.left \in Nat
    BY <1>1, TotalTyped, LenProperties DEF Bundle
  <1>3. DOMAIN ranked = 1..Len(ranked)
    BY LenProperties
  <1>4. \A c \in Shown(b) : c \in Usables
    BY <1>1, <1>2, <1>3 DEF ShowsUsable, Shown, Usables, ToSet
  <1>5. EstimatedTokens(b) <= request.budget
    BY <1>1, <1>2 DEF Charged, EstimatedTokens
  <1>6. CutIn(b) \subseteq {Len(b.items)}
    BY <1>1, <1>2 DEF Charged, CutIn, TextOf
  <1>7. ASSUME \A c \in Usables : PathShown(c, walked)
        PROVE  \/ Usables = Shown(b)
               \/ TotalSize(b) = 4 * request.budget
    <2>1. \A j \in 1..Len(ranked) : Usable(ranked[j]) => ranked[j] \in Usables
      BY <1>3 DEF Usables, ToSet
    <2>2. Complete(b, Len(ranked), ranked, request.budget)
      BY <1>1, <1>7, <2>1
    <2>3. CASE b.left = 0
      BY <1>2, <2>2, <2>3 DEF Complete
    <2>4. CASE b.left # 0
      <3>1. \A c \in Usables : c \in Shown(b)
        BY <1>3, <2>2, <2>4 DEF Complete, Usables, ToSet
      <3> QED
        BY <1>4, <3>1
    <2> QED
      BY <2>3, <2>4
  <1>8. Len(b.items) + b.dropped = Len(ranked)
    BY <1>1 DEF ShowsUsable
  <1> QED
    BY <1>4, <1>5, <1>6, <1>7, <1>8
=============================================================================
