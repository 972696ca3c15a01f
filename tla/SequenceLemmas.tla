---------------------------- MODULE SequenceLemmas ----------------------------
(***************************************************************************)
(* Induction up to a bound, folds written as functions over 0..n, and what *)
(* sorting and filtering keep.  The lemmas take sets and functions, never  *)
(* operators, so that they can be cited.                                   *)
(***************************************************************************)
EXTENDS OrderedSets, SequencesExt, FiniteSetTheorems, SequenceTheorems,
        WellFoundedInduction, TLAPS

-----------------------------------------------------------------------------
(* Induction.                                                              *)

(* A set that holds 0, and with a number its successor, holds them all.    *)
LEMMA NatSetInduction ==
  ASSUME NEW S, 0 \in S, \A n \in Nat : n \in S => n + 1 \in S
  PROVE  Nat \subseteq S
  <1> DEFINE T == Nat \ S
  <1> SUFFICES ASSUME T # {} PROVE FALSE
    OBVIOUS
  <1>1. IsWellFoundedOn(OpToRel(<, Nat), Nat)
    BY NatLessThanWellFounded
  <1>2. PICK x \in T : \A y \in T : ~ (<<y, x>> \in OpToRel(<, Nat))
    <2>1. T \subseteq Nat
      OBVIOUS
    <2> HIDE DEF T
    <2> QED
      BY <1>1, <2>1, WFMin
  <1>3. \A y \in T : ~ (y < x)
    BY <1>2, Zenon DEF OpToRel
  <1>4. x # 0 /\ x - 1 \in Nat /\ x - 1 < x
    OBVIOUS
  <1>5. x - 1 \in S
    BY <1>3, <1>4
  <1> QED
    BY <1>4, <1>5

(* A set of numbers that is not empty has a least one.                     *)
LEMMA LeastNumber ==
  ASSUME NEW T, T \subseteq Nat, T # {}
  PROVE  \E x \in T : \A y \in T : x <= y
  <1>1. IsWellFoundedOn(OpToRel(<, Nat), Nat)
    BY NatLessThanWellFounded
  <1>2. PICK x \in T : \A y \in T : ~ (<<y, x>> \in OpToRel(<, Nat))
    BY <1>1, WFMin
  <1>3. \A y \in T : ~ (y < x)
    BY <1>2, Zenon DEF OpToRel
  <1> QED
    BY <1>3

(* Induction up to a number.                                               *)
LEMMA UpToInduction ==
  ASSUME NEW n \in Nat, NEW S, 0 \in S, \A i \in 1..n : i - 1 \in S => i \in S
  PROVE  0..n \subseteq S
  <1> DEFINE T == {k \in Nat : k <= n => k \in S}
  <1>1. 0 \in T
    OBVIOUS
  <1>2. \A k \in Nat : k \in T => k + 1 \in T
    OBVIOUS
  <1>3. Nat \subseteq T
    <2> HIDE DEF T
    <2> QED
      BY <1>1, <1>2, NatSetInduction
  <1> QED
    BY <1>3

(* A fold written as a function from 0..n, step by step through B.         *)
IsFold(f, n, B, base, step) ==
  /\ f \in [0..n -> B] /\ f[0] = base
  /\ \A i \in 1..n : f[i] = step[<<i, f[i - 1]>>]

(* A fold over 1..n exists.                                                *)
LEMMA FoldDefined ==
  ASSUME NEW n \in Nat, NEW B, NEW base \in B, NEW step \in [(1..n) \X B -> B]
  PROVE  \E f : IsFold(f, n, B, base, step)
  <1> DEFINE Fold(f, k) == /\ f[0] = base
                           /\ \A i \in 1..k : f[i] = step[<<i, f[i - 1]>>]
             T == {k \in 0..n : \E f \in [0..k -> B] : Fold(f, k)}
  <1>1. 0 \in T
    <2>1. PICK f : f = [i \in 0..0 |-> base]
      OBVIOUS
    <2>2. f \in [0..0 -> B] /\ Fold(f, 0)
      BY <2>1
    <2> QED
      BY <2>2
  <1>2. ASSUME NEW k \in 1..n, k - 1 \in T
        PROVE  k \in T
    <2>1. PICK f \in [0..(k - 1) -> B] : Fold(f, k - 1)
      BY <1>2
    <2> DEFINE g == [i \in 0..k |-> IF i = k THEN step[<<k, f[k - 1]>>] ELSE f[i]]
    <2>2. f[k - 1] \in B
      OBVIOUS
    <2>3. step[<<k, f[k - 1]>>] \in B
      BY <2>2
    <2>4. g \in [0..k -> B]
      BY <2>3
    <2>5. g[0] = base
      BY <2>1
    <2>6. ASSUME NEW i \in 1..k
          PROVE  g[i] = step[<<i, g[i - 1]>>]
      <3>1. i - 1 \in 0..k /\ i - 1 # k
        OBVIOUS
      <3>4. g[i - 1] = f[i - 1]
        BY <3>1
      <3>2. CASE i = k
        <4>1. g[k] = step[<<k, f[k - 1]>>]
          OBVIOUS
        <4> HIDE DEF g
        <4> QED
          BY <3>4, <3>2, <4>1
      <3>3. CASE i # k
        <4>1. i \in 1..(k - 1) /\ g[i] = f[i]
          BY <3>3
        <4>2. f[i] = step[<<i, f[i - 1]>>]
          BY <2>1, <4>1
        <4> QED
          BY <3>4, <4>1, <4>2
      <3> QED
        BY <3>2, <3>3
    <2>7. Fold(g, k)
      <3> HIDE DEF g
      <3> QED
        BY <2>5, <2>6
    <2>8. k \in 0..n /\ \E h \in [0..k -> B] : Fold(h, k)
      <3> HIDE DEF g, Fold
      <3> QED
        BY <2>4, <2>7
    <2> QED
      BY <2>8
  <1>3. 0..n \subseteq T
    <2> HIDE DEF T
    <2> QED
      BY <1>1, <1>2, UpToInduction
  <1> QED
    BY <1>3 DEF IsFold

(* A function that takes the steps of a fold stays within B.               *)
LEMMA FoldTyped ==
  ASSUME NEW n \in Nat, NEW B, NEW base \in B, NEW step \in [(1..n) \X B -> B],
         NEW g, g = [i \in 0..n |-> g[i]], g[0] = base,
         \A i \in 1..n : g[i - 1] \in B => g[i] = step[<<i, g[i - 1]>>]
  PROVE  IsFold(g, n, B, base, step)
  <1> DEFINE T == {i \in 0..n : g[i] \in B}
  <1>1. 0..n \subseteq T
    <2>1. 0 \in T
      OBVIOUS
    <2>2. ASSUME NEW i \in 1..n, i - 1 \in T
          PROVE  i \in T
      <3>1. g[i - 1] \in B /\ i \in 0..n
        BY <2>2
      <3>2. g[i] = step[<<i, g[i - 1]>>] /\ step[<<i, g[i - 1]>>] \in B
        BY <3>1
      <3> QED
        BY <3>1, <3>2
    <2> HIDE DEF T
    <2> QED
      BY <2>1, <2>2, UpToInduction
  <1>2. \A i \in 0..n : g[i] \in B
    BY <1>1
  <1>3. [i \in 0..n |-> g[i]] \in [0..n -> B]
    BY <1>2
  <1>4. g \in [0..n -> B]
    BY <1>3, Zenon
  <1>5. \A i \in 1..n : g[i] = step[<<i, g[i - 1]>>]
    <2>1. \A i \in 1..n : i - 1 \in 0..n
      OBVIOUS
    <2> QED
      BY <1>2, <2>1
  <1> QED
    BY <1>4, <1>5 DEF IsFold

-----------------------------------------------------------------------------
(* Sorting.                                                                *)

StrictOrder(S, before) ==
  /\ \A x \in S : <<x, x>> \notin before
  /\ \A x, y, z \in S : <<x, y>> \in before /\ <<y, z>> \in before => <<x, z>> \in before
  /\ \A x, y \in S : x # y => <<x, y>> \in before \/ <<y, x>> \in before

(* Every element of a finite set has its place, and the places follow the  *)
(* order.                                                                  *)
LEMMA InOrderFacts ==
  ASSUME NEW S, IsFiniteSet(S), NEW before, StrictOrder(S, before)
  PROVE  LET s == InOrder(S, before)
             N == Cardinality(S)
         IN  /\ N \in Nat /\ s \in [1..N -> S]
             /\ s \in Seq(S) /\ Len(s) = N /\ ToSet(s) = S /\ IsInjective(s)
             /\ \A i, j \in 1..N : <<s[i], s[j]>> \in before => i < j
  <1> DEFINE s == InOrder(S, before)
             N == Cardinality(S)
             P(x) == {y \in S : <<y, x>> \in before}
             place == [x \in S |-> Cardinality(P(x)) + 1]
  <1>1. N \in Nat
    BY FS_CardinalityType
  <1>2. \A x \in S : IsFiniteSet(P(x)) /\ Cardinality(P(x)) \in Nat
    BY FS_Subset, FS_CardinalityType
  <1>3. ASSUME NEW x \in S
        PROVE  Cardinality(P(x)) < N
    <2>1. P(x) \subseteq S /\ P(x) # S
      BY DEF StrictOrder
    <2> HIDE DEF P
    <2>2. Cardinality(P(x)) <= N /\ Cardinality(P(x)) # N
      BY <2>1, FS_Subset
    <2> QED
      BY <1>1, <1>2, <2>2
  <1>4. ASSUME NEW x \in S, NEW y \in S, <<x, y>> \in before
        PROVE  Cardinality(P(x)) < Cardinality(P(y))
    <2>1. P(x) \subseteq P(y) /\ P(x) # P(y)
      BY <1>4 DEF StrictOrder
    <2>2. IsFiniteSet(P(y))
      BY <1>2
    <2>3. Cardinality(P(x)) \in Nat /\ Cardinality(P(y)) \in Nat
      BY <1>2
    <2> HIDE DEF P
    <2>4. Cardinality(P(x)) <= Cardinality(P(y)) /\ Cardinality(P(x)) # Cardinality(P(y))
      BY <2>1, <2>2, FS_Subset
    <2> QED
      BY <2>3, <2>4
  <1>5. place \in [S -> 1..N]
    <2> HIDE DEF P, N
    <2>1. \A x \in S : Cardinality(P(x)) + 1 \in 1..N
      BY <1>1, <1>2, <1>3
    <2> QED
      BY <2>1
  <1>6. \A x, y \in S : <<x, y>> \in before => place[x] < place[y]
    <2> HIDE DEF P
    <2> QED
      BY <1>2, <1>4
  <1>7. \A x, y \in S : place[x] = place[y] => x = y
    <2>1. \A x \in S : place[x] \in Int
      BY <1>5, <1>1
    <2> HIDE DEF place
    <2>2. \A x, y \in S : x # y => <<x, y>> \in before \/ <<y, x>> \in before
      BY DEF StrictOrder
    <2> QED
      <3> SUFFICES ASSUME NEW x \in S, NEW y \in S, place[x] = place[y], x # y
                   PROVE  FALSE
        OBVIOUS
      <3>1. <<x, y>> \in before \/ <<y, x>> \in before
        BY <2>2
      <3>2. place[x] < place[y] \/ place[y] < place[x]
        BY <3>1, <1>6
      <3> QED
        BY <2>1, <3>2
  <1>8. \A i \in 1..N : \E x \in S : place[x] = i
    <2>1. place \in Injection(S, 1..N)
      <3> HIDE DEF place
      <3> QED
        BY <1>5, <1>7 DEF Injection, IsInjective
    <2>2. IsFiniteSet(1..N) /\ Cardinality(1..N) = N
      BY <1>1, FS_Interval
    <2> HIDE DEF place
    <2>3. place \in Surjection(S, 1..N)
      BY <2>1, <2>2, FS_Injection
    <2> QED
      BY <2>3 DEF Surjection
  <1>9. s = [i \in 1..N |-> CHOOSE x \in S : Cardinality(P(x)) = i - 1]
    BY DEF InOrder
  <1>10. ASSUME NEW i \in 1..N
         PROVE  s[i] \in S /\ place[s[i]] = i
    <2>1. \E x \in S : Cardinality(P(x)) = i - 1
      <3>1. PICK x \in S : place[x] = i
        BY <1>8
      <3>2. place[x] = Cardinality(P(x)) + 1
        OBVIOUS
      <3> HIDE DEF P, place
      <3>3. Cardinality(P(x)) = i - 1
        BY <1>2, <3>1, <3>2
      <3> QED
        BY <3>3
    <2>2. s[i] = CHOOSE x \in S : Cardinality(P(x)) = i - 1
      BY <1>9
    <2> HIDE DEF P, s
    <2>3. s[i] \in S /\ Cardinality(P(s[i])) = i - 1
      BY <2>1, <2>2, Zenon
    <2> QED
      BY <2>3, <1>2
  <1>11. s \in [1..N -> S]
    <2> HIDE DEF place, P
    <2> QED
      BY <1>9, <1>10
  <1> HIDE DEF s, place, P, N
  <1>12. s \in Seq(S) /\ Len(s) = N /\ DOMAIN s = 1..N
    BY <1>1, <1>11
  <1>13. \A x \in S : place[x] \in 1..N /\ s[place[x]] = x
    BY <1>5, <1>7, <1>10
  <1>14. ToSet(s) = S
    BY <1>10, <1>12, <1>13 DEF ToSet
  <1>15. IsInjective(s)
    BY <1>10, <1>12 DEF IsInjective
  <1>16. \A i, j \in 1..N : <<s[i], s[j]>> \in before => i < j
    BY <1>6, <1>10
  <1> QED
    BY <1>1, <1>11, <1>12, <1>14, <1>15, <1>16 DEF s, N

(* What is kept of a sequence is a sequence of some of its elements.       *)
LEMMA KeptAtFacts ==
  ASSUME NEW T, NEW seq \in Seq(T), NEW places \in SUBSET (1..Len(seq))
  PROVE  /\ KeptAt(seq, places) \in Seq(T)
         /\ Len(KeptAt(seq, places)) = Cardinality(places)
         /\ ToSet(KeptAt(seq, places)) = {seq[i] : i \in places}
  <1> DEFINE before == {p \in places \X places : p[1] < p[2]}
             order == InOrder(places, before)
             kept == [k \in DOMAIN order |-> seq[order[k]]]
  <1>1. IsFiniteSet(places) /\ places \subseteq Int
    <2>1. Len(seq) \in Nat
      BY LenProperties
    <2>2. IsFiniteSet(1..Len(seq)) /\ places \subseteq Int
      BY <2>1, FS_Interval
    <2> QED
      BY <2>2, FS_Subset, Zenon
  <1>2. StrictOrder(places, before)
    BY <1>1 DEF StrictOrder
  <1>3. /\ Cardinality(places) \in Nat
        /\ order \in [1..Cardinality(places) -> places] /\ ToSet(order) = places
    <2> HIDE DEF before
    <2> QED
      BY <1>1, <1>2, InOrderFacts
  <1>4. KeptAt(seq, places) = kept
    BY DEF KeptAt
  <1> HIDE DEF order
  <1>5. kept \in [1..Cardinality(places) -> T]
    <2>1. DOMAIN order = 1..Cardinality(places)
      BY <1>3
    <2>2. ASSUME NEW k \in 1..Cardinality(places)
          PROVE  seq[order[k]] \in T
      <3>1. order[k] \in 1..Len(seq)
        BY <1>3
      <3> QED
        BY <3>1
    <2> QED
      BY <2>1, <2>2
  <1>6. ToSet(kept) = {seq[i] : i \in places}
    <2>1. DOMAIN kept = DOMAIN order
      OBVIOUS
    <2>2. places = {order[k] : k \in DOMAIN order}
      BY <1>3 DEF ToSet
    <2>3. ToSet(kept) = {seq[order[k]] : k \in DOMAIN order}
      BY DEF ToSet
    <2> QED
      BY <2>2, <2>3
  <1>7. kept \in Seq(T) /\ Len(kept) = Cardinality(places)
    <2> HIDE DEF kept
    <2> QED
      BY <1>3, <1>5
  <1> QED
    BY <1>4, <1>6, <1>7

(* A shortened sequence.                                                   *)
LEMMA PrefixFacts ==
  ASSUME NEW T, NEW seq \in Seq(T), NEW n \in Nat
  PROVE  LET cut == SubSeq(seq, 1, IF Len(seq) < n THEN Len(seq) ELSE n)
         IN  cut \in Seq(T) /\ Len(cut) <= n /\ ToSet(cut) \subseteq ToSet(seq)
  <1> DEFINE m == IF Len(seq) < n THEN Len(seq) ELSE n
             cut == SubSeq(seq, 1, m)
  <1>1. m \in Nat /\ m <= n /\ m <= Len(seq) /\ Len(seq) \in Nat
    OBVIOUS
  <1> HIDE DEF m
  <1>2. \A i \in 1..m : seq[i] \in T /\ i \in DOMAIN seq
    BY <1>1
  <1>3. /\ cut \in Seq(T) /\ Len(cut) = m
        /\ \A i \in 1..m : cut[i] = seq[i]
    BY <1>1, <1>2, SubSeqProperties
  <1> HIDE DEF cut
  <1>4. ToSet(cut) \subseteq ToSet(seq)
    BY <1>1, <1>2, <1>3 DEF ToSet
  <1> QED
    BY <1>1, <1>3, <1>4 DEF cut, m

-----------------------------------------------------------------------------
(* Sequences joined into one hold what they held.                          *)
LEMMA FlattenTyped ==
  ASSUME NEW T, NEW seqs \in Seq(Seq(T))
  PROVE  FlattenSeq(seqs) \in Seq(T)
  <1> DEFINE n == Len(seqs)
             Eq(f) == f = [i \in 1..n |-> IF i = 1 THEN seqs[i] ELSE f[i - 1] \o seqs[i]]
  <1>1. n \in Nat /\ \A i \in 1..n : seqs[i] \in Seq(T)
    OBVIOUS
  <1>2. CASE n = 0
    <2>1. seqs = <<>>
      BY <1>2, EmptySeq
    <2>2. FlattenSeq(seqs) = seqs
      BY <1>2 DEF FlattenSeq
    <2>3. <<>> \in Seq(T)
      BY EmptySeq
    <2> QED
      BY <2>1, <2>2, <2>3
  <1>3. CASE n > 0
    <2> DEFINE B == Seq(T)
               m == n - 1
               step == [p \in (1..m) \X B |-> p[2] \o seqs[p[1] + 1]]
    <2>1. m \in Nat /\ 1 \in 1..n /\ seqs[1] \in B
      BY <1>1, <1>3
    <2>2. step \in [(1..m) \X B -> B]
      <3>1. \A i \in 1..m : i + 1 \in 1..n
        BY <1>1
      <3> QED
        BY <1>1, <3>1, ConcatProperties
    <2>3. PICK g : IsFold(g, m, B, seqs[1], step)
      <3> HIDE DEF step, B, m
      <3> QED
        BY <2>1, <2>2, FoldDefined, Zenon
    <2> DEFINE f == [i \in 1..n |-> g[i - 1]]
    <2>4. ASSUME NEW i \in 1..n, i # 1
          PROVE  f[i] = f[i - 1] \o seqs[i]
      <3>1. i - 1 \in 1..m /\ i - 1 \in 1..n /\ i - 2 \in 0..m /\ i - 1 + 1 = i
        BY <1>1, <2>4
      <3>2. g[i - 2] \in B /\ g[i - 1] = step[<<i - 1, g[i - 1 - 1]>>]
        <4> HIDE DEF B, step
        <4> QED
          BY <2>3, <3>1 DEF IsFold
      <3>3. step[<<i - 1, g[i - 2]>>] = g[i - 2] \o seqs[i]
        <4> HIDE DEF B
        <4> QED
          BY <3>1, <3>2
      <3>4. i - 1 - 1 = i - 2
        BY <3>1
      <3> HIDE DEF step, B
      <3> QED
        BY <3>1, <3>2, <3>3, <3>4
    <2>5. f[1] = seqs[1]
      <3> HIDE DEF B, step
      <3> QED
        BY <2>1, <2>3 DEF IsFold
    <2>6. Eq(f)
      <3> HIDE DEF B, step
      <3>1. \A i \in 1..n : f[i] = IF i = 1 THEN seqs[i] ELSE f[i - 1] \o seqs[i]
        BY <2>4, <2>5
      <3> QED
        BY <3>1
    <2> HIDE DEF f
    <2>7. FlattenSeq(seqs) = (CHOOSE h : Eq(h))[n]
      BY <1>3 DEF FlattenSeq
    <2>8. Eq(CHOOSE h : Eq(h))
      <3> HIDE DEF Eq
      <3> QED
        BY <2>6
    <2>9. PICK h : h = CHOOSE k : Eq(k)
      OBVIOUS
    <2>10. Eq(h)
      <3> HIDE DEF Eq
      <3> QED
        BY <2>8, <2>9
    <2>11. \A i \in 1..n : h[i] = IF i = 1 THEN seqs[i] ELSE h[i - 1] \o seqs[i]
      BY <2>10, Zenon
    <2> HIDE DEF Eq
    <2> DEFINE S == {k \in 0..n : k > 0 => h[k] \in Seq(T)}
    <2>12. 0..n \subseteq S
      <3>1. 0 \in S
        BY <1>1
      <3>2. ASSUME NEW i \in 1..n, i - 1 \in S
            PROVE  i \in S
        <4>1. CASE i = 1
          BY <1>1, <2>11, <4>1
        <4>2. CASE i # 1
          <5>1. h[i - 1] \in Seq(T) /\ seqs[i] \in Seq(T)
            BY <1>1, <3>2, <4>2
          <5>2. h[i - 1] \o seqs[i] \in Seq(T)
            BY <5>1, ConcatProperties
          <5>3. h[i] \in Seq(T)
            BY <2>11, <4>2, <5>2, Zenon
          <5>4. i \in 0..n
            BY <1>1
          <5> QED
            BY <5>3, <5>4
        <4> QED
          BY <4>1, <4>2
      <3> HIDE DEF S
      <3> QED
        BY <1>1, <3>1, <3>2, UpToInduction
    <2> QED
      BY <1>1, <1>3, <2>7, <2>9, <2>12
  <1> QED
    BY <1>1, <1>2, <1>3
=============================================================================
