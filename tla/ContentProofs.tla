---------------------------- MODULE ContentProofs ----------------------------
(***************************************************************************)
(* Proofs about the content stages.  First what each stage's operators     *)
(* promise: extraction, redaction, windows, chunks, the store's rows,      *)
(* discovery.  Then the invariant of a round (ContentInv): how far the     *)
(* snapshot's files are through, what has been saved, and what the rows    *)
(* that earlier rounds left can be.  The properties of ContentSafety       *)
(* follow from both.                                                       *)
(***************************************************************************)
EXTENDS ContentSafety, SequenceLemmas

-----------------------------------------------------------------------------
(* The order of a walk over a tree of keys.                                *)

WordSet == ToSet(Words)

LEMMA WordRankFacts ==
  ASSUME NEW w \in WordSet
  PROVE  WordRank(w) \in Nat /\ Words[WordRank(w)] = w
  <1>1. Words \in Seq(STRING)
    BY ContentConstants
  <1>2. DOMAIN Words \subseteq Nat
    BY <1>1
  <1>3. \E i \in DOMAIN Words : Words[i] = w
    BY DEF WordSet, ToSet
  <1> QED
    BY <1>2, <1>3 DEF WordRank

(* Where one path of keys comes before another: at the first place where   *)
(* they differ, or where the shorter one ends.                             *)
Branches(p, q, i) ==
  /\ \A j \in 1..(i - 1) : j <= Len(p) /\ j <= Len(q) /\ p[j] = q[j]
  /\ i <= Len(q)
  /\ \/ i = Len(p) + 1
     \/ i <= Len(p) /\ WordRank(p[i]) < WordRank(q[i])

LEMMA PathBeforeIs ==
  ASSUME NEW p \in Seq(WordSet), NEW q \in Seq(WordSet)
  PROVE  PathBefore(p, q) <=> \E i \in Nat \ {0} : Branches(p, q, i)
  <1>1. Len(p) \in Nat /\ Len(q) \in Nat /\ DOMAIN p = 1..Len(p) /\ DOMAIN q = 1..Len(q)
    BY LenProperties
  <1>2. ASSUME Len(p) < Len(q), IsPrefix(p, q)
        PROVE  Branches(p, q, Len(p) + 1)
    <2>1. \A j \in 1..Len(p) : p[j] = q[j]
      BY <1>1, <1>2 DEF IsPrefix
    <2> QED
      BY <1>1, <1>2, <2>1 DEF Branches
  <1>3. ASSUME NEW i \in DOMAIN p \cap DOMAIN q,
               SubSeq(p, 1, i - 1) = SubSeq(q, 1, i - 1),
               WordRank(p[i]) < WordRank(q[i])
        PROVE  Branches(p, q, i)
    <2>1. i \in Nat \ {0} /\ i <= Len(p) /\ i <= Len(q)
      BY <1>1
    <2>2. \A j \in 1..(i - 1) : p[j] = SubSeq(p, 1, i - 1)[j] /\ q[j] = SubSeq(q, 1, i - 1)[j]
      BY <1>1, <2>1
    <2>3. \A j \in 1..(i - 1) : p[j] = q[j]
      BY <1>3, <2>2
    <2> QED
      BY <1>1, <1>3, <2>1, <2>3 DEF Branches
  <1>4. ASSUME NEW i \in Nat \ {0}, Branches(p, q, i)
        PROVE  PathBefore(p, q)
    <2>1. CASE i = Len(p) + 1
      <3>1. Len(p) < Len(q) /\ \A j \in 1..Len(p) : p[j] = q[j]
        BY <1>1, <1>4, <2>1 DEF Branches
      <3>2. SubSeq(p, 1, Len(p)) = SubSeq(q, 1, Len(p))
        BY <1>1, <3>1
      <3> QED
        BY <1>1, <3>1, <3>2 DEF PathBefore, IsPrefix
    <2>2. CASE i <= Len(p) /\ WordRank(p[i]) < WordRank(q[i])
      <3>1. i \in DOMAIN p \cap DOMAIN q
        BY <1>1, <1>4, <2>2 DEF Branches
      <3>2. \A j \in 1..(i - 1) : p[j] = q[j]
        BY <1>4 DEF Branches
      <3>3. SubSeq(p, 1, i - 1) = SubSeq(q, 1, i - 1)
        BY <1>1, <3>1, <3>2
      <3> QED
        BY <2>2, <3>1, <3>3 DEF PathBefore
    <2> QED
      BY <1>4, <2>1, <2>2 DEF Branches
  <1>5. ASSUME PathBefore(p, q)
        PROVE  \E i \in Nat \ {0} : Branches(p, q, i)
    <2>1. CASE Len(p) < Len(q) /\ IsPrefix(p, q)
      BY <1>1, <1>2, <2>1
    <2>2. CASE \E i \in DOMAIN p \cap DOMAIN q :
                  /\ SubSeq(p, 1, i - 1) = SubSeq(q, 1, i - 1)
                  /\ WordRank(p[i]) < WordRank(q[i])
      BY <1>1, <1>3, <2>2
    <2> QED
      BY <1>5, <2>1, <2>2 DEF PathBefore
  <1> QED
    BY <1>4, <1>5

LEMMA PathsOrdered ==
  ASSUME NEW S \in SUBSET Seq(WordSet)
  PROVE  StrictOrder(S, {p \in S \X S : PathBefore(p[1], p[2])})
  <1> DEFINE before == {p \in S \X S : PathBefore(p[1], p[2])}
  <1>1. \A x, y \in S : <<x, y>> \in before <=> \E i \in Nat \ {0} : Branches(x, y, i)
    BY PathBeforeIs
  <1>2. \A x \in S : /\ Len(x) \in Nat /\ x = [j \in 1..Len(x) |-> x[j]]
                     /\ \A j \in 1..Len(x) : /\ x[j] \in WordSet /\ WordRank(x[j]) \in Nat
                                             /\ Words[WordRank(x[j])] = x[j]
    BY WordRankFacts
  <1> HIDE DEF before
  <1>3. ASSUME NEW x \in S
        PROVE  <<x, x>> \notin before
    BY <1>1, <1>2 DEF Branches
  <1>4. ASSUME NEW x \in S, NEW y \in S, NEW z \in S,
               <<x, y>> \in before, <<y, z>> \in before
        PROVE  <<x, z>> \in before
    <2>1. PICK i \in Nat \ {0} : Branches(x, y, i)
      BY <1>1, <1>4
    <2>2. PICK k \in Nat \ {0} : Branches(y, z, k)
      BY <1>1, <1>4
    <2>3. CASE i <= k
      <3>1. Branches(x, z, i)
        BY <1>2, <2>1, <2>2, <2>3 DEF Branches
      <3> QED
        BY <1>1, <3>1
    <2>4. CASE k < i
      <3>1. Branches(x, z, k)
        BY <1>2, <2>1, <2>2, <2>4 DEF Branches
      <3> QED
        BY <1>1, <3>1
    <2> QED
      BY <2>3, <2>4
  <1>5. ASSUME NEW x \in S, NEW y \in S, x # y
        PROVE  <<x, y>> \in before \/ <<y, x>> \in before
    <2> DEFINE D == {i \in 1..Len(x) : i <= Len(y) /\ x[i] # y[i]}
    <2>1. CASE D = {}
      <3>1. \A i \in 1..Len(x) : i <= Len(y) => x[i] = y[i]
        BY <2>1
      <3>2. Len(x) # Len(y)
        BY <1>2, <1>5, <3>1
      <3>3. CASE Len(x) < Len(y)
        <4>1. Branches(x, y, Len(x) + 1) /\ Len(x) + 1 \in Nat \ {0}
          BY <1>2, <3>1, <3>3 DEF Branches
        <4> QED
          BY <1>1, <4>1
      <3>4. CASE Len(y) < Len(x)
        <4>1. Branches(y, x, Len(y) + 1) /\ Len(y) + 1 \in Nat \ {0}
          BY <1>2, <3>1, <3>4 DEF Branches
        <4> QED
          BY <1>1, <4>1
      <3> QED
        BY <1>2, <3>2, <3>3, <3>4
    <2>2. CASE D # {}
      <3>1. D \subseteq Nat
        BY <1>2
      <3>2. PICK i \in D : \A j \in D : i <= j
        BY <2>2, <3>1, LeastNumber
      <3>3. \A j \in 1..(i - 1) : j <= Len(x) /\ j <= Len(y) /\ x[j] = y[j]
        BY <1>2, <3>2
      <3>4. WordRank(x[i]) # WordRank(y[i])
        BY <1>2, <3>2
      <3>5. i \in Nat \ {0} /\ i <= Len(x) /\ i <= Len(y)
        BY <1>2, <3>2
      <3>6. WordRank(x[i]) \in Nat /\ WordRank(y[i]) \in Nat
        BY <1>2, <3>5
      <3>7. Branches(x, y, i) \/ Branches(y, x, i)
        BY <3>3, <3>4, <3>5, <3>6 DEF Branches
      <3> QED
        BY <1>1, <3>5, <3>7
    <2> QED
      BY <2>1, <2>2
  <1> QED
    BY <1>3, <1>4, <1>5 DEF StrictOrder, before

-----------------------------------------------------------------------------
(* What the extractors make of a file.                                     *)

CandidatesIn(cs, T) == \E C : cs \in Seq(C) /\ \A c \in C : c.text \in Seq(T)

LEMMA PlainText ==
  ASSUME NEW T
  PROVE  Plain.text \in Seq(T)
  BY EmptySeq DEF Plain

LEMMA NoCandidates ==
  ASSUME NEW T
  PROVE  CandidatesIn(<<>>, T)
  <1>1. PICK C : C = {}
    OBVIOUS
  <1>2. <<>> \in Seq(C) /\ \A c \in C : c.text \in Seq(T)
    BY <1>1, EmptySeq
  <1> QED
    BY <1>2, Zenon DEF CandidatesIn

LEMMA ListedSequence ==
  ASSUME NEW T, NEW n \in Nat, NEW s \in [1..n -> T]
  PROVE  s \in Seq(T)
  BY SeqDef, Zenon

LEMMA ListedCandidates ==
  ASSUME NEW T, NEW n \in Nat, NEW cs, cs = [i \in 1..n |-> cs[i]],
         \A i \in 1..n : cs[i].text \in Seq(T)
  PROVE  CandidatesIn(cs, T)
  <1> DEFINE C == {cs[i] : i \in 1..n}
  <1>1. cs \in [1..n -> C]
    BY Zenon
  <1>2. \A c \in C : c.text \in Seq(T)
    OBVIOUS
  <1> HIDE DEF C
  <1>3. cs \in Seq(C)
    BY <1>1, ListedSequence, Zenon
  <1> QED
    BY <1>2, <1>3, Zenon DEF CandidatesIn

LEMMA JoinedCandidates ==
  ASSUME NEW T, NEW a, NEW b, CandidatesIn(a, T), CandidatesIn(b, T)
  PROVE  CandidatesIn(a \o b, T)
  <1>1. PICK A : a \in Seq(A) /\ \A c \in A : c.text \in Seq(T)
    BY Zenon DEF CandidatesIn
  <1>2. PICK B : b \in Seq(B) /\ \A c \in B : c.text \in Seq(T)
    BY Zenon DEF CandidatesIn
  <1> DEFINE C == A \cup B
  <1>3. \A c \in C : c.text \in Seq(T)
    BY <1>1, <1>2
  <1>4. a \in Seq(C) /\ b \in Seq(C)
    BY <1>1, <1>2
  <1> HIDE DEF C
  <1>5. a \o b \in Seq(C)
    BY <1>4, ConcatProperties
  <1> QED
    BY <1>3, <1>5, Zenon DEF CandidatesIn

LEMMA OrderedSequence ==
  ASSUME NEW S, IsFiniteSet(S), NEW before
  PROVE  \E n \in Nat : /\ InOrder(S, before) = [i \in 1..n |-> InOrder(S, before)[i]]
                        /\ DOMAIN InOrder(S, before) = 1..n
  <1>1. PICK n \in Nat : n = Cardinality(S)
    BY FS_CardinalityType
  <1>2. PICK s : s = InOrder(S, before)
    OBVIOUS
  <1> DEFINE at(i) == CHOOSE x \in S : Cardinality({y \in S : <<y, x>> \in before}) = i - 1
  <1>3. s = [i \in 1..n |-> at(i)]
    BY <1>1, <1>2, Zenon DEF InOrder
  <1> HIDE DEF at
  <1>4. s = [i \in 1..n |-> s[i]] /\ DOMAIN s = 1..n
    BY <1>3
  <1> QED
    BY <1>2, <1>4

LEMMA DocumentText ==
  ASSUME NEW T, NEW file, ReadAs(file, T), NEW path, NEW html
  PROVE  CandidatesIn(DocumentCandidates(path, html, file.blocks), T)
  <1> DEFINE cs == DocumentCandidates(path, html, file.blocks)
             n  == Len(file.blocks)
  <1>1. n \in Nat /\ DOMAIN file.blocks = 1..n
        /\ \A i \in 1..n : file.blocks[i].text \in Seq(T)
    <2> DEFINE R == [kind: STRING, level: Nat, text: Seq(T), line: Seq(Nat),
                     id: STRING, fence: BOOLEAN, language: STRING]
    <2>1. file.blocks \in Seq(R)
      BY Zenon DEF ReadAs
    <2>2. \A r \in R : r.text \in Seq(T)
      OBVIOUS
    <2> HIDE DEF R
    <2> QED
      BY <2>1, <2>2
  <1>2. cs = [i \in 1..n |-> cs[i]]
    BY <1>1 DEF DocumentCandidates
  <1>3. \A i \in 1..n :
          cs[i].text = IF file.blocks[i].kind = "table" THEN <<>> ELSE file.blocks[i].text
    BY <1>1 DEF DocumentCandidates, Plain
  <1>4. \A i \in 1..n : cs[i].text \in Seq(T)
    BY <1>1, <1>3, EmptySeq
  <1> HIDE DEF cs, n
  <1> QED
    BY <1>1, <1>2, <1>4, ListedCandidates DEF cs

LEMMA JoinedText ==
  ASSUME NEW T, Space \in T, NEW lines \in Seq(Seq(T))
  PROVE  Joined(lines) \in Seq(T)
  <1> DEFINE n == Len(lines)
             parts == [i \in DOMAIN lines |-> IF i = 1 THEN lines[i] ELSE <<Space>> \o lines[i]]
  <1>1. n \in Nat /\ DOMAIN lines = 1..n /\ \A i \in 1..n : lines[i] \in Seq(T)
    OBVIOUS
  <1>2. <<Space>> \in Seq(T)
    OBVIOUS
  <1>3. \A i \in 1..n : <<Space>> \o lines[i] \in Seq(T)
    BY <1>1, <1>2, ConcatProperties
  <1>4. parts \in [1..n -> Seq(T)]
    BY <1>1, <1>3
  <1> HIDE DEF parts, n
  <1>5. parts \in Seq(Seq(T))
    BY <1>1, <1>4, ListedSequence
  <1> QED
    BY <1>5, FlattenTyped DEF Joined, parts

LEMMA ParagraphText ==
  ASSUME NEW T, Space \in T, NEW lines \in Seq(Seq(T)), NEW path,
         NEW first \in 1..Len(lines), NEW last \in 0..Len(lines)
  PROVE  Paragraph(path, lines, first, last).text \in Seq(T)
  <1>1. SubSeq(lines, first, last) \in Seq(Seq(T))
    BY SubSeqProperties
  <1>2. Joined(SubSeq(lines, first, last)) \in Seq(T)
    BY <1>1, JoinedText
  <1> QED
    BY <1>2 DEF Paragraph, Plain

(* The paragraphs there may be, and what is known of a text read so far.   *)
Paragraphs(path, lines) ==
  {Paragraph(path, lines, first, last) : first \in 1..Len(lines), last \in 0..Len(lines)}

TextStates(path, lines) ==
  [first: 0..Len(lines), done: Seq(Paragraphs(path, lines))]

TextSteps(path, lines) ==
  [p \in (1..Len(lines)) \X TextStates(path, lines) |-> TextStep(path, lines, p[2], p[1])]

LEMMA ParagraphAmong ==
  ASSUME NEW path, NEW lines, NEW first \in 1..Len(lines), NEW last \in 0..Len(lines)
  PROVE  Paragraph(path, lines, first, last) \in Paragraphs(path, lines)
  BY DEF Paragraphs

LEMMA TextStepTyped ==
  ASSUME NEW T, NEW lines \in Seq(Seq(T)), NEW path
  PROVE  TextSteps(path, lines)
           \in [(1..Len(lines)) \X TextStates(path, lines) -> TextStates(path, lines)]
  <1> DEFINE n == Len(lines)
             P == Paragraphs(path, lines)
             B == TextStates(path, lines)
  <1>1. n \in Nat
    OBVIOUS
  <1>2. ASSUME NEW s \in B, NEW i \in 1..n
        PROVE  TextStep(path, lines, s, i) \in B
    <2>1. s.first \in 0..n /\ s.done \in Seq(P) /\ s = [first |-> s.first, done |-> s.done]
      BY DEF TextStates
    <2>2. CASE ~Blank(lines[i])
      <3>1. TextStep(path, lines, s, i) = [s EXCEPT !.first = IF @ = 0 THEN i ELSE @]
        BY <2>2 DEF TextStep
      <3>2. TextStep(path, lines, s, i)
              = [first |-> IF s.first = 0 THEN i ELSE s.first, done |-> s.done]
        <4> HIDE DEF P
        <4> QED
          BY <2>1, <3>1
      <3> HIDE DEF P
      <3> QED
        BY <1>1, <2>1, <3>2 DEF TextStates
    <2>3. CASE Blank(lines[i]) /\ s.first = 0
      BY <2>3 DEF TextStep
    <2>4. CASE Blank(lines[i]) /\ s.first # 0
      <3>1. s.first \in 1..n /\ i - 1 \in 0..n
        BY <1>1, <2>1, <2>4
      <3>2. Paragraph(path, lines, s.first, i - 1) \in P
        BY <3>1, ParagraphAmong
      <3>3. Append(s.done, Paragraph(path, lines, s.first, i - 1)) \in Seq(P)
        <4> HIDE DEF P
        <4> QED
          BY <2>1, <3>2, AppendProperties
      <3>4. TextStep(path, lines, s, i)
              = [first |-> 0, done |-> Append(s.done, Paragraph(path, lines, s.first, i - 1))]
        BY <2>4 DEF TextStep
      <3>5. [first |-> 0, done |-> Append(s.done, Paragraph(path, lines, s.first, i - 1))]
              \in [first: 0..n, done: Seq(P)]
        <4> HIDE DEF P
        <4> QED
          BY <1>1, <3>3
      <3> QED
        BY <3>4, <3>5, Zenon DEF TextStates
    <2> QED
      BY <2>2, <2>3, <2>4
  <1> HIDE DEF B
  <1> QED
    BY <1>2 DEF TextSteps, B

LEMMA TextReadIs ==
  ASSUME NEW T, NEW lines \in Seq(Seq(T)), NEW path
  PROVE  \E h : /\ IsFold(h, Len(lines), TextStates(path, lines),
                          [first |-> 0, done |-> <<>>], TextSteps(path, lines))
                /\ TextRead(path, lines) = h[Len(lines)]
  <1>1. PICK n \in Nat : n = Len(lines)
    OBVIOUS
  <1> DEFINE B == TextStates(path, lines)
             base == [first |-> 0, done |-> <<>>]
             step == TextSteps(path, lines)
             Eq(f) == f = [i \in 0..n |-> IF i = 0 THEN base
                                          ELSE TextStep(path, lines, f[i - 1], i)]
  <1>2. base \in B
    BY <1>1, EmptySeq DEF TextStates
  <1>3. step \in [(1..n) \X B -> B]
    BY <1>1, TextStepTyped
  <1>4. \A i \in 1..n, s \in B : step[<<i, s>>] = TextStep(path, lines, s, i)
    <2> HIDE DEF B
    <2> QED
      BY <1>1 DEF TextSteps, B
  <1>5. TextRead(path, lines) = (CHOOSE h : Eq(h))[n]
    BY <1>1, Zenon DEF TextRead
  <1> HIDE DEF B, step, base
  <1>6. PICK f : IsFold(f, n, B, base, step)
    BY <1>2, <1>3, FoldDefined, Zenon
  <1>7. \A i \in 1..n : f[i] = TextStep(path, lines, f[i - 1], i)
    BY <1>4, <1>6 DEF IsFold
  <1>8. Eq(f)
    BY <1>6, <1>7 DEF IsFold
  <1>9. PICK h : h = CHOOSE g : Eq(g)
    OBVIOUS
  <1>10. Eq(h)
    <2> HIDE DEF Eq
    <2> QED
      BY <1>8, <1>9
  <1>11. /\ h = [i \in 0..n |-> h[i]] /\ h[0] = base
         /\ \A i \in 1..n : h[i] = TextStep(path, lines, h[i - 1], i)
    <2> DEFINE next(i) == TextStep(path, lines, h[i - 1], i)
    <2>1. h = [i \in 0..n |-> IF i = 0 THEN base ELSE next(i)]
      BY <1>10, Zenon
    <2> HIDE DEF next, Eq
    <2>2. /\ h = [i \in 0..n |-> h[i]] /\ h[0] = base
          /\ \A i \in 1..n : h[i] = next(i)
      BY <2>1
    <2> QED
      BY <2>2 DEF next
  <1>12. h[n] = TextRead(path, lines)
    BY <1>5, <1>9, Zenon
  <1> HIDE DEF Eq
  <1>13. \A i \in 1..n : h[i - 1] \in B => h[i] = step[<<i, h[i - 1]>>]
    BY <1>4, <1>11
  <1>14. IsFold(h, n, B, base, step)
    BY <1>2, <1>3, <1>11, <1>13, FoldTyped, Zenon
  <1> QED
    BY <1>1, <1>12, <1>14 DEF B, base, step

LEMMA TextRuns ==
  ASSUME NEW T, Space \in T, NEW lines \in Seq(Seq(T)), NEW path
  PROVE  CandidatesIn(LastParagraph(path, lines, TextRead(path, lines)), T)
  <1> DEFINE P == Paragraphs(path, lines)
             s == TextRead(path, lines)
  <1>1. Len(lines) \in Nat
    OBVIOUS
  <1>2. s \in TextStates(path, lines)
    <2>1. PICK h : /\ IsFold(h, Len(lines), TextStates(path, lines),
                             [first |-> 0, done |-> <<>>], TextSteps(path, lines))
                   /\ s = h[Len(lines)]
      BY TextReadIs
    <2> HIDE DEF s
    <2> QED
      BY <1>1, <2>1 DEF IsFold
  <1>3. s.first \in 0..Len(lines) /\ s.done \in Seq(P)
    <2> HIDE DEF s, P
    <2> QED
      BY <1>2 DEF TextStates, P
  <1>4. \A c \in P : c.text \in Seq(T)
    BY ParagraphText DEF Paragraphs
  <1>5. LastParagraph(path, lines, s) \in Seq(P)
    <2>1. CASE s.first = 0
      BY <1>3, <2>1 DEF LastParagraph
    <2>2. CASE s.first # 0
      <3>1. s.first \in 1..Len(lines) /\ Len(lines) \in 0..Len(lines)
        <4> HIDE DEF s
        <4> QED
          BY <1>1, <1>3, <2>2
      <3>2. Paragraph(path, lines, s.first, Len(lines)) \in P
        BY <3>1, ParagraphAmong
      <3> HIDE DEF s, P
      <3>3. Append(s.done, Paragraph(path, lines, s.first, Len(lines))) \in Seq(P)
        BY <1>3, <3>2, AppendProperties
      <3> QED
        BY <2>2, <3>3 DEF LastParagraph
    <2> QED
      BY <2>1, <2>2
  <1> HIDE DEF P, s
  <1> QED
    BY <1>4, <1>5, Zenon DEF CandidatesIn, s

(* Some of the nodes of a tree, in the order of the walk.                  *)
LEMMA WalkListed ==
  ASSUME NEW S \in SUBSET Seq(WordSet), IsFiniteSet(S)
  PROVE  \E n \in Nat : /\ InWalkOrder(S) \in [1..n -> S]
                        /\ InWalkOrder(S) = [i \in 1..n |-> InWalkOrder(S)[i]]
                        /\ IsInjective(InWalkOrder(S)) /\ ToSet(InWalkOrder(S)) = S
  <1> DEFINE before == {p \in S \X S : PathBefore(p[1], p[2])}
  <1>1. StrictOrder(S, before)
    BY PathsOrdered
  <1>2. InWalkOrder(S) = InOrder(S, before)
    BY DEF InWalkOrder
  <1> HIDE DEF before
  <1>3. /\ Cardinality(S) \in Nat /\ InOrder(S, before) \in [1..Cardinality(S) -> S]
        /\ ToSet(InOrder(S, before)) = S /\ IsInjective(InOrder(S, before))
    BY <1>1, InOrderFacts
  <1> QED
    BY <1>2, <1>3

LEMMA NodesTyped ==
  ASSUME NEW T, NEW file, ReadAs(file, T)
  PROVE  /\ IsFiniteSet(DOMAIN file.nodes) /\ DOMAIN file.nodes \subseteq Seq(WordSet)
         /\ \A p \in DOMAIN file.nodes : file.nodes[p].text \in Seq(T)
  BY DEF ReadAs, WordSet

LEMMA StringTyped ==
  ASSUME NEW T, NEW file, ReadAs(file, T), NEW p
  PROVE  StringAt(file.nodes, p) \in Seq(T)
  BY NodesTyped, EmptySeq DEF StringAt

LEMMA StructuredText ==
  ASSUME NEW T, NEW file, ReadAs(file, T), NEW path
  PROVE  CandidatesIn(Structured(path, file.nodes), T)
  <1> DEFINE order == InWalkOrder(DOMAIN file.nodes)
             cs == Structured(path, file.nodes)
  <1>1. PICK n \in Nat : order \in [1..n -> DOMAIN file.nodes]
    <2> HIDE DEF order
    <2> QED
      BY NodesTyped, WalkListed DEF order
  <1> HIDE DEF order
  <1>2. DOMAIN order = 1..n /\ \A i \in 1..n : order[i] \in DOMAIN file.nodes
    BY <1>1
  <1>3. cs = [i \in 1..n |-> cs[i]]
    BY <1>2 DEF Structured, order
  <1>4. \A i \in 1..n : cs[i].text = IF file.nodes[order[i]].kind = "scalar"
                                     THEN file.nodes[order[i]].text ELSE <<>>
    BY <1>2 DEF Structured, order, Plain
  <1>5. \A i \in 1..n : cs[i].text \in Seq(T)
    BY <1>2, <1>4, NodesTyped, EmptySeq
  <1> HIDE DEF cs
  <1> QED
    BY <1>3, <1>5, ListedCandidates DEF cs

LEMMA OperationsText ==
  ASSUME NEW T, NEW file, ReadAs(file, T), NEW path
  PROVE  CandidatesIn(Operations(path, file.nodes), T)
  <1> DEFINE S == Endpoints(file.nodes)
             order == InWalkOrder(S)
             cs == Operations(path, file.nodes)
  <1>1. S \subseteq DOMAIN file.nodes
    BY DEF Endpoints
  <1>2. PICK n \in Nat : order \in [1..n -> S]
    <2> HIDE DEF S
    <2>1. IsFiniteSet(S) /\ S \in SUBSET Seq(WordSet)
      BY <1>1, NodesTyped, FS_Subset
    <2> QED
      BY <2>1, WalkListed
  <1> HIDE DEF order
  <1>3. DOMAIN order = 1..n
    BY <1>2
  <1>4. cs = [i \in 1..n |-> cs[i]]
    BY <1>3 DEF Operations, order
  <1>5. \A i \in 1..n : cs[i].text = Summary(file.nodes, order[i])
    BY <1>3 DEF Operations, order, Plain
  <1>6. \A i \in 1..n : cs[i].text \in Seq(T)
    BY <1>5, StringTyped DEF Summary
  <1> HIDE DEF cs
  <1> QED
    BY <1>4, <1>6, ListedCandidates DEF cs

LEMMA DescribedText ==
  ASSUME NEW T, NEW file, ReadAs(file, T), NEW path, NEW parent, NEW type
  PROVE  CandidatesIn(Described(path, file.nodes, parent, type), T)
  <1> DEFINE S == Children(file.nodes, parent)
             order == InWalkOrder(S)
             cs == Described(path, file.nodes, parent, type)
  <1>1. S \subseteq DOMAIN file.nodes
    BY DEF Children
  <1>2. PICK n \in Nat : order \in [1..n -> S]
    <2> HIDE DEF S
    <2>1. IsFiniteSet(S) /\ S \in SUBSET Seq(WordSet)
      BY <1>1, NodesTyped, FS_Subset
    <2> QED
      BY <2>1, WalkListed
  <1> HIDE DEF order
  <1>3. DOMAIN order = 1..n
    BY <1>2
  <1>4. cs = [i \in 1..n |-> cs[i]]
    BY <1>3 DEF Described, order
  <1>5. \A i \in 1..n : cs[i].text = StringAt(file.nodes, Append(order[i], "description"))
    BY <1>3 DEF Described, order, Plain
  <1>6. \A i \in 1..n : cs[i].text \in Seq(T)
    BY <1>5, StringTyped
  <1> HIDE DEF cs
  <1> QED
    BY <1>4, <1>6, ListedCandidates DEF cs

LEMMA CodeText ==
  ASSUME NEW T, NEW file, ReadAs(file, T), NEW path, NEW language
  PROVE  CandidatesIn(ExtractCode(path, language, file).candidates, T)
  <1> DEFINE symbols == [i \in DOMAIN file.defs |-> Symbol(path, file.defs, i)]
             imports == [i \in DOMAIN file.imports |-> Import(path, file.imports[i])]
  <1>1. CandidatesIn(symbols, T)
    <2> DEFINE R == [name: STRING, parent: Nat, line: Seq(Nat), doc: Seq(T),
                     signature: Seq(T)]
    <2>1. file.defs \in Seq(R)
      BY Zenon DEF ReadAs
    <2>2. \A r \in R : r.doc \in Seq(T)
      OBVIOUS
    <2> HIDE DEF R
    <2>3. PICK n \in Nat : n = Len(file.defs) /\ DOMAIN file.defs = 1..n
      BY <2>1
    <2>4. \A i \in 1..n : file.defs[i].doc \in Seq(T)
      BY <2>1, <2>2, <2>3
    <2>5. \A i \in 1..n : symbols[i].text = file.defs[i].doc
      BY <2>3 DEF Symbol, Plain
    <2>6. symbols = [i \in 1..n |-> symbols[i]]
      BY <2>3
    <2> HIDE DEF symbols
    <2> QED
      BY <2>4, <2>5, <2>6, ListedCandidates
  <1>2. CandidatesIn(imports, T)
    <2>1. PICK n \in Nat : n = Len(file.imports) /\ DOMAIN file.imports = 1..n
      BY DEF ReadAs
    <2>2. \A i \in 1..n : imports[i].text = Plain.text
      BY <2>1 DEF Import, Plain
    <2>3. imports = [i \in 1..n |-> imports[i]]
      BY <2>1
    <2> HIDE DEF imports
    <2> QED
      BY <2>2, <2>3, PlainText, ListedCandidates
  <1>3. CASE language # "python"
    BY <1>3, NoCandidates DEF ExtractCode, Extracted
  <1>4. CASE language = "python"
    <2>1. ExtractCode(path, language, file).candidates = symbols \o imports
      BY <1>4 DEF ExtractCode, Extracted
    <2> HIDE DEF symbols, imports
    <2> QED
      BY <1>1, <1>2, <2>1, JoinedCandidates
  <1> QED
    BY <1>3, <1>4

LEMMA TreeText ==
  ASSUME NEW T, NEW file, ReadAs(file, T), NEW path, NEW kind
  PROVE  CandidatesIn(ExtractStructured(kind, path, file).candidates, T)
  <1>1. CandidatesIn(SpecCandidates(kind, path, file.nodes), T)
    <2>1. CASE kind = "openapi"
      BY <2>1, OperationsText, DescribedText, JoinedCandidates DEF SpecCandidates
    <2>2. CASE kind = "json_schema"
      BY <2>2, DescribedText, JoinedCandidates DEF SpecCandidates
    <2>3. CASE kind \notin {"openapi", "json_schema"}
      BY <2>3, NoCandidates DEF SpecCandidates
    <2> QED
      BY <2>1, <2>2, <2>3
  <1>2. CASE ~file.parses
    BY <1>2, NoCandidates DEF ExtractStructured, Extracted
  <1>3. CASE file.parses /\ ~file.sortable
    BY <1>3, NoCandidates DEF ExtractStructured, Raised
  <1>4. CASE file.parses /\ file.sortable
    <2>1. ExtractStructured(kind, path, file).candidates
            = Structured(path, file.nodes) \o SpecCandidates(kind, path, file.nodes)
      BY <1>4 DEF ExtractStructured, Extracted
    <2> QED
      BY <1>1, <2>1, StructuredText, JoinedCandidates
  <1>5. file.parses \in BOOLEAN /\ file.sortable \in BOOLEAN
    BY DEF ReadAs
  <1> QED
    BY <1>2, <1>3, <1>4, <1>5

(* Whatever extractor takes a file, its candidates are a sequence whose    *)
(* texts are made of the tokens of the file.                               *)
LEMMA ExtractTyped ==
  ASSUME NEW T, Space \in T, NEW file, ReadAs(file, T), NEW kind, NEW artifact
  PROVE  CandidatesIn(Extract(kind, artifact, file).candidates, T)
  <1>1. CASE kind \in {"md", "html"}
    <2> DEFINE html == kind = "html"
    <2>1. CASE ~html /\ FenceUnnamed(file.blocks)
      BY <1>1, <2>1, NoCandidates DEF Extract, ExtractDocument, Raised
    <2>2. CASE ~(~html /\ FenceUnnamed(file.blocks))
      <3>1. Extract(kind, artifact, file).candidates
              = DocumentCandidates(artifact.path, html, file.blocks)
        BY <1>1, <2>2 DEF Extract, ExtractDocument, Extracted
      <3> QED
        BY <3>1, DocumentText
    <2> QED
      BY <2>1, <2>2
  <1>2. CASE kind = "text"
    <2>1. Extract(kind, artifact, file).candidates
            = LastParagraph(artifact.path, file.lines, TextRead(artifact.path, file.lines))
      BY <1>2 DEF Extract, ExtractText, Extracted
    <2>2. file.lines \in Seq(Seq(T))
      BY DEF ReadAs
    <2> QED
      BY <2>1, <2>2, TextRuns
  <1>3. CASE kind = "code"
    BY <1>3, CodeText DEF Extract
  <1>4. CASE kind \notin {"md", "html", "text", "code"}
    BY <1>4, TreeText DEF Extract
  <1> QED
    BY <1>1, <1>2, <1>3, <1>4

-----------------------------------------------------------------------------
(* Where a pattern matches in two texts that are alike there.              *)

Types == {"secret", "pii"}

Patterns == {"assignment", "bearer", "key block", "connection", "cloud key", "email"}

LEMMA JoinedFacts ==
  ASSUME NEW S, NEW a \in Seq(S), NEW b \in Seq(S)
  PROVE  /\ a \o b \in Seq(S) /\ Len(a \o b) = Len(a) + Len(b)
         /\ \A i \in 1..Len(a) : (a \o b)[i] = a[i]
         /\ \A i \in 1..Len(b) : (a \o b)[Len(a) + i] = b[i]
  OBVIOUS

(* The pieces of u from i - 1 to j + 1 are those of t d further on, and    *)
(* where one text ends there the other does.                               *)
Alike(u, t, d, i, j) ==
  \A k \in (i - 1)..(j + 1) :
    /\ k \in 1..Len(u) <=> k + d \in 1..Len(t)
    /\ k \in 1..Len(u) => u[k] = t[k + d]

LEMMA AlikePieces ==
  ASSUME NEW u, NEW t, Len(u) \in Nat, Len(t) \in Nat, NEW d \in Int,
         NEW i \in 1..Len(u), NEW j \in 1..Len(u), i <= j, Alike(u, t, d, i, j)
  PROVE  /\ \A k \in i..j : k + d \in 1..Len(t) /\ u[k] = t[k + d]
         /\ i = 1 <=> i + d = 1
         /\ i # 1 => u[i - 1] = t[i + d - 1]
         /\ j = Len(u) <=> j + d = Len(t)
         /\ j # Len(u) => u[j + 1] = t[j + d + 1]
  <1>1. Len(u) \in Nat /\ Len(t) \in Nat
    OBVIOUS
  <1>2. \A k \in i..j : k + d \in 1..Len(t) /\ u[k] = t[k + d]
    BY <1>1 DEF Alike
  <1>3. i + d \in 1..Len(t) /\ j + d \in 1..Len(t)
    BY <1>1, <1>2
  <1>4. /\ i - 1 \in 1..Len(u) <=> (i - 1) + d \in 1..Len(t)
        /\ i - 1 \in 1..Len(u) => u[i - 1] = t[(i - 1) + d]
    BY <1>1 DEF Alike
  <1>5. /\ j + 1 \in 1..Len(u) <=> (j + 1) + d \in 1..Len(t)
        /\ j + 1 \in 1..Len(u) => u[j + 1] = t[(j + 1) + d]
    BY <1>1 DEF Alike
  <1>6. (i - 1) + d = i + d - 1 /\ (j + 1) + d = j + d + 1
    OBVIOUS
  <1>7. (i = 1 <=> i + d = 1) /\ (i # 1 => u[i - 1] = t[i + d - 1])
    BY <1>1, <1>3, <1>4, <1>6
  <1>8. (j = Len(u) <=> j + d = Len(t)) /\ (j # Len(u) => u[j + 1] = t[j + d + 1])
    BY <1>1, <1>3, <1>5, <1>6
  <1> QED
    BY <1>2, <1>7, <1>8

LEMMA AllInAlike ==
  ASSUME NEW u, NEW t, NEW d \in Int, NEW i \in Int, NEW j \in Int,
         \A k \in i..j : u[k] = t[k + d],
         NEW a \in Int, NEW b \in Int, i <= a, b <= j, NEW classes,
         AllIn(u, a, b, classes)
  PROVE  AllIn(t, a + d, b + d, classes)
  <1> SUFFICES ASSUME NEW k \in (a + d)..(b + d)
               PROVE  t[k][1] \in classes
    BY DEF AllIn
  <1>1. k - d \in a..b /\ k - d \in i..j /\ (k - d) + d = k
    OBVIOUS
  <1>2. u[k - d][1] \in classes
    BY <1>1 DEF AllIn
  <1> QED
    BY <1>1, <1>2

(* What the patterns ask of their edges and their pieces.                  *)
LEMMA PartsAlike ==
  ASSUME NEW u, NEW t, Len(u) \in Nat, Len(t) \in Nat, NEW d \in Int,
         NEW i \in 1..Len(u), NEW j \in 1..Len(u), i <= j, Alike(u, t, d, i, j)
  PROVE  /\ Begins(u, i) => Begins(t, i + d)
         /\ Ends(u, j) => Ends(t, j + d)
         /\ \A a \in i..j : \A classes : Run(u, a, j, classes) => Run(t, a + d, j + d, classes)
         /\ \A a \in (i + 1)..j : Value(u, a, j) => Value(t, a + d, j + d)
         /\ \A a \in i..(j - 2) : \A class : Dashed(u, a, class) <=> Dashed(t, a + d, class)
  <1>1. \A k \in i..j : k + d \in 1..Len(t) /\ u[k] = t[k + d]
    BY AlikePieces
  <1>2. Begins(u, i) => Begins(t, i + d)
    <2>1. (i = 1 <=> i + d = 1) /\ (i # 1 => u[i - 1] = t[i + d - 1])
      BY AlikePieces
    <2> QED
      BY <2>1 DEF Begins
  <1>3. Ends(u, j) => Ends(t, j + d)
    <2>1. j = Len(u) <=> j + d = Len(t)
      BY AlikePieces
    <2>2. j # Len(u) => u[j + 1] = t[j + d + 1]
      BY AlikePieces
    <2> QED
      BY <2>1, <2>2 DEF Ends
  <1>4. ASSUME NEW a \in i..j, NEW classes, Run(u, a, j, classes)
        PROVE  Run(t, a + d, j + d, classes)
    <2>1. AllIn(u, a, j, classes) /\ (j = Len(u) \/ u[j + 1][1] \notin classes)
      BY <1>4 DEF Run
    <2>2. AllIn(t, a + d, j + d, classes)
      <3>1. \A k \in i..j : u[k] = t[k + d]
        BY <1>1
      <3>2. i \in Int /\ j \in Int /\ a \in Int /\ i <= a /\ j <= j
        OBVIOUS
      <3> QED
        BY <2>1, <3>1, <3>2, AllInAlike
    <2>3. j + d = Len(t) \/ t[j + d + 1][1] \notin classes
      <3>1. j = Len(u) <=> j + d = Len(t)
        BY AlikePieces
      <3>2. j # Len(u) => u[j + 1] = t[j + d + 1]
        BY AlikePieces
      <3> QED
        BY <2>1, <3>1, <3>2
    <2>4. a + d <= j + d
      OBVIOUS
    <2> QED
      BY <2>2, <2>3, <2>4 DEF Run
  <1>5. ASSUME NEW a \in (i + 1)..j, Value(u, a, j)
        PROVE  Value(t, a + d, j + d)
    <2>1. PICK first \in a..j : /\ AllIn(u, a, first - 2, {"space"})
                                /\ first > a => u[first - 1][1] \in {"space", "quote"}
                                /\ Run(u, first, j, Solid)
      BY <1>5 DEF Value
    <2>2. AllIn(t, a + d, first - 2 + d, {"space"})
      <3>1. \A k \in i..j : u[k] = t[k + d]
        BY <1>1
      <3>2. i \in Int /\ j \in Int /\ a \in Int /\ first - 2 \in Int /\ i <= a /\ first - 2 <= j
        OBVIOUS
      <3> QED
        BY <2>1, <3>1, <3>2, AllInAlike
    <2>3. first + d > a + d => t[first + d - 1][1] \in {"space", "quote"}
      <3>1. first > a => first - 1 \in i..j /\ (first - 1) + d = first + d - 1
        OBVIOUS
      <3>2. first > a => u[first - 1] = t[first + d - 1]
        BY <1>1, <3>1
      <3> QED
        BY <2>1, <3>2
    <2>4. Run(t, first + d, j + d, Solid)
      <3>1. first \in i..j
        OBVIOUS
      <3> QED
        BY <1>4, <2>1, <3>1
    <2>5. first + d \in (a + d)..(j + d) /\ first - 2 + d = first + d - 2
      OBVIOUS
    <2>6. AllIn(t, a + d, first + d - 2, {"space"})
      BY <2>2, <2>5
    <2>7. PICK b, e, l : b = a + d /\ e = j + d /\ l = first + d
      OBVIOUS
    <2>8. /\ l \in b..e /\ AllIn(t, b, l - 2, {"space"}) /\ Run(t, l, e, Solid)
          /\ l > b => t[l - 1][1] \in {"space", "quote"}
      BY <2>3, <2>4, <2>5, <2>6, <2>7
    <2>9. Value(t, b, e)
      BY <2>8, Zenon DEF Value
    <2> QED
      BY <2>7, <2>9
  <1>6. ASSUME NEW a \in i..(j - 2), NEW class
        PROVE  Dashed(u, a, class) <=> Dashed(t, a + d, class)
    <2>1. u[a] = t[a + d] /\ u[a + 1] = t[a + d + 1] /\ u[a + 2] = t[a + d + 2]
      <3>1. a \in i..j /\ a + 1 \in i..j /\ a + 2 \in i..j
        OBVIOUS
      <3>2. (a + 1) + d = a + d + 1 /\ (a + 2) + d = a + d + 2
        OBVIOUS
      <3>3. u[a] = t[a + d] /\ u[a + 1] = t[(a + 1) + d] /\ u[a + 2] = t[(a + 2) + d]
        BY <1>1, <3>1
      <3> QED
        BY <3>2, <3>3
    <2>2. a + 2 <= Len(u) /\ a + d + 2 <= Len(t)
      <3>1. Len(u) \in Nat /\ Len(t) \in Nat
        OBVIOUS
      <3>2. a + 2 \in i..j /\ (a + 2) + d = a + d + 2
        OBVIOUS
      <3>3. (a + 2) + d \in 1..Len(t)
        BY <1>1, <3>2
      <3> QED
        BY <3>1, <3>2, <3>3
    <2> QED
      BY <2>1, <2>2 DEF Dashed
  <1> QED
    BY <1>2, <1>3, <1>4, <1>5, <1>6

(* Whether a pattern fits is told by the pieces it takes and the two that  *)
(* touch them.                                                             *)
LEMMA FitsAlike ==
  ASSUME NEW u, NEW t, Len(u) \in Nat, Len(t) \in Nat, NEW d \in Int,
         NEW i \in 1..Len(u), NEW j \in 1..Len(u), i <= j, Alike(u, t, d, i, j),
         NEW rule, Fits(rule, u, i, j)
  PROVE  Fits(rule, t, i + d, j + d)
  <1>1. \A k \in i..j : u[k] = t[k + d]
    BY AlikePieces
  <1>2. u[i] = t[i + d] /\ u[j] = t[j + d]
    <2>1. i \in i..j /\ j \in i..j
      OBVIOUS
    <2> QED
      BY <1>1, <2>1
  <1>3. (Begins(u, i) => Begins(t, i + d)) /\ (Ends(u, j) => Ends(t, j + d))
    BY PartsAlike
  <1>4. \A a \in i..j : \A classes : Run(u, a, j, classes) => Run(t, a + d, j + d, classes)
    BY PartsAlike
  <1>5. \A a \in (i + 1)..j : Value(u, a, j) => Value(t, a + d, j + d)
    BY PartsAlike
  <1>6. \A a \in i..(j - 2) : \A class : Dashed(u, a, class) <=> Dashed(t, a + d, class)
    BY PartsAlike
  <1>7. ASSUME Value(u, i + 1, j)
        PROVE  Value(t, i + d + 1, j + d)
    <2>1. i + 1 <= j
      BY <1>7 DEF Value
    <2>2. i + 1 \in (i + 1)..j /\ (i + 1) + d = i + d + 1
      BY <2>1
    <2>3. Value(t, (i + 1) + d, j + d)
      BY <1>5, <1>7, <2>2
    <2> QED
      BY <2>2, <2>3
  <1>8. Assignment(u, i, j) => Assignment(t, i + d, j + d)
    BY <1>2, <1>3, <1>7 DEF Assignment
  <1>9. ASSUME BearerToken(u, i, j)
        PROVE  BearerToken(t, i + d, j + d)
    <2> DEFINE taken == Worded \cup {"begin", "end", "header", "key"}
    <2>1. PICK first \in (i + 2)..j :
            /\ AllIn(u, i + 1, first - 1, {"space"}) /\ Run(u, first, j, taken)
      BY <1>9 DEF BearerToken
    <2>2. AllIn(t, (i + 1) + d, (first - 1) + d, {"space"})
      <3>1. i \in Int /\ j \in Int /\ i + 1 \in Int /\ first - 1 \in Int
            /\ i <= i + 1 /\ first - 1 <= j
        OBVIOUS
      <3> HIDE DEF taken
      <3> QED
        BY <1>1, <2>1, <3>1, AllInAlike
    <2>3. (i + 1) + d = i + d + 1 /\ (first - 1) + d = first + d - 1
          /\ first + d \in (i + d + 2)..(j + d) /\ first \in i..j
      OBVIOUS
    <2>4. Run(t, first + d, j + d, taken)
      <3> HIDE DEF taken
      <3> QED
        BY <1>4, <2>1, <2>3
    <2>5. t[i + d][1] = "bearer" /\ Begins(t, i + d)
      BY <1>2, <1>3, <1>9 DEF BearerToken
    <2>6. AllIn(t, i + d + 1, first + d - 1, {"space"})
      BY <2>2, <2>3
    <2> QED
      BY <2>3, <2>4, <2>5, <2>6 DEF BearerToken
  <1>10. ASSUME KeyBlock(u, i, j)
         PROVE  KeyBlock(t, i + d, j + d)
    <2>1. /\ i + 5 <= j /\ Dashed(u, i, "begin") /\ Dashed(u, j - 2, "end")
          /\ \A k \in (i + 3)..(j - 3) : ~Dashed(u, k, "end")
      BY <1>10 DEF KeyBlock
    <2>2. i \in i..(j - 2) /\ j - 2 \in i..(j - 2) /\ (j - 2) + d = j + d - 2
          /\ (i + d) + 5 <= j + d
      BY <2>1
    <2>3. Dashed(t, i + d, "begin") /\ Dashed(t, j + d - 2, "end")
      BY <1>6, <2>1, <2>2
    <2>4. ASSUME NEW k \in (i + d + 3)..(j + d - 3)
          PROVE  ~Dashed(t, k, "end")
      <3>1. k - d \in (i + 3)..(j - 3) /\ k - d \in i..(j - 2) /\ (k - d) + d = k
        OBVIOUS
      <3> QED
        BY <1>6, <2>1, <3>1
    <2> QED
      BY <2>2, <2>3, <2>4 DEF KeyBlock
  <1>11. ASSUME ConnectionString(u, i, j)
         PROVE  ConnectionString(t, i + d, j + d)
    <2>1. /\ u[i][1] = "scheme" /\ Begins(u, i) /\ i < j
          /\ u[i + 1][1] = "authority" /\ Run(u, i + 1, j, Solid)
      BY <1>11 DEF ConnectionString
    <2>2. i + 1 \in i..j /\ (i + 1) + d = i + d + 1 /\ i + d < j + d
      BY <2>1
    <2>3. u[i + 1] = t[i + d + 1] /\ Run(t, i + d + 1, j + d, Solid)
      BY <1>1, <1>4, <2>1, <2>2
    <2> QED
      BY <1>2, <1>3, <2>1, <2>2, <2>3 DEF ConnectionString
  <1>12. CloudKey(u, i, j) => CloudKey(t, i + d, j + d)
    BY <1>2, <1>3 DEF CloudKey
  <1>13. ASSUME EmailAddress(u, i, j)
         PROVE  EmailAddress(t, i + d, j + d)
    <2> DEFINE taken == Worded \cup {"begin", "end", "header"}
    <2>1. /\ i < j /\ Begins(u, i) /\ AllIn(u, i, j - 1, taken)
          /\ u[j][1] = "domain" /\ Ends(u, j)
      BY <1>13 DEF EmailAddress
    <2>2. AllIn(t, i + d, (j - 1) + d, taken)
      <3>1. i \in Int /\ j \in Int /\ j - 1 \in Int /\ i <= i /\ j - 1 <= j
        OBVIOUS
      <3> HIDE DEF taken
      <3> QED
        BY <1>1, <2>1, <3>1, AllInAlike
    <2>3. (j - 1) + d = j + d - 1 /\ i + d < j + d
      BY <2>1
    <2>4. AllIn(t, i + d, j + d - 1, taken)
      BY <2>2, <2>3
    <2> QED
      BY <1>2, <1>3, <2>1, <2>3, <2>4 DEF EmailAddress
  <1>14. Configured(rule, u, i, j) => Configured(rule, t, i + d, j + d)
    BY <1>2, <1>7 DEF Configured
  <1> QED
    BY <1>8, <1>9, <1>10, <1>11, <1>12, <1>13, <1>14 DEF Fits

(* A match is from left to right.                                          *)
LEMMA FitsForward ==
  ASSUME NEW u, NEW i \in Int, NEW j \in Int, NEW rule, Fits(rule, u, i, j)
  PROVE  i <= j
  <1>1. Value(u, i + 1, j) => i <= j
    BY DEF Value
  <1>2. Assignment(u, i, j) => i <= j
    BY <1>1 DEF Assignment
  <1>3. BearerToken(u, i, j) => i <= j
    BY DEF BearerToken
  <1>4. KeyBlock(u, i, j) => i <= j
    BY DEF KeyBlock
  <1>5. ConnectionString(u, i, j) => i <= j
    BY DEF ConnectionString
  <1>6. CloudKey(u, i, j) => i <= j
    <2>1. CloudKey(u, i, j) => i = j
      BY Zenon DEF CloudKey
    <2> QED
      BY <2>1
  <1>7. EmailAddress(u, i, j) => i <= j
    BY DEF EmailAddress
  <1>8. Configured(rule, u, i, j) => i <= j
    <2>1. Configured(rule, u, i, j) => i = j \/ Value(u, i + 1, j)
      BY Zenon DEF Configured
    <2> QED
      BY <1>1, <2>1
  <1> QED
    BY <1>2, <1>3, <1>4, <1>5, <1>6, <1>7, <1>8, Zenon DEF Fits

-----------------------------------------------------------------------------
(* One rule over a text.                                                   *)

ScanStates(T) == [text: Seq(T), last: Nat]

ScanSteps(rule, text, marker, T) ==
  [p \in (1..Len(text)) \X ScanStates(T) |-> Scanned(rule, text, marker, p[2], p[1])]

LEMMA ScannedFacts ==
  ASSUME NEW T, NEW text \in Seq(T), NEW marker \in Seq(T), NEW rule,
         NEW s \in ScanStates(T), NEW i \in 1..Len(text)
  PROVE  LET r == Scanned(rule, text, marker, s, i)
         IN  /\ r \in ScanStates(T)
             /\ \/ i <= s.last /\ r = s
                \/ /\ s.last < i /\ MatchesAt(rule, text, i) = {}
                   /\ r.text = Append(s.text, text[i]) /\ r.last = s.last
                \/ s.last < i /\ r.text = s.text \o marker /\ i <= r.last
  <1> DEFINE found == MatchesAt(rule, text, i)
             r == Scanned(rule, text, marker, s, i)
  <1>1. s.text \in Seq(T) /\ s.last \in Nat /\ i \in Nat /\ text[i] \in T
    BY DEF ScanStates
  <1>2. \A j \in found : j \in Nat /\ i <= j
    BY <1>1 DEF MatchesAt
  <1> HIDE DEF found
  <1>3. CASE i <= s.last
    BY <1>3 DEF Scanned
  <1>4. CASE ~(i <= s.last) /\ found = {}
    <2>1. r = [s EXCEPT !.text = Append(@, text[i])]
      BY <1>4 DEF Scanned, found
    <2>2. r = [text |-> Append(s.text, text[i]), last |-> s.last]
      BY <2>1 DEF ScanStates
    <2>3. Append(s.text, text[i]) \in Seq(T)
      BY <1>1, AppendProperties
    <2> HIDE DEF r
    <2>4. r \in ScanStates(T)
      BY <1>1, <2>2, <2>3 DEF ScanStates
    <2> QED
      BY <1>1, <1>4, <2>2, <2>4 DEF r, found
  <1>5. CASE ~(i <= s.last) /\ found # {}
    <2>1. PICK last : last = CHOOSE j \in found : TRUE
      OBVIOUS
    <2>2. last \in found
      BY <1>5, <2>1
    <2>3. r = [text |-> s.text \o marker, last |-> last]
      BY <1>5, <2>1, Zenon DEF Scanned, found
    <2>4. s.text \o marker \in Seq(T)
      BY <1>1, ConcatProperties
    <2>5. last \in Nat /\ i <= last
      BY <1>2, <2>2
    <2> HIDE DEF r
    <2>6. r \in ScanStates(T)
      BY <2>3, <2>4, <2>5 DEF ScanStates
    <2> QED
      BY <1>1, <1>5, <2>3, <2>5, <2>6 DEF r
  <1> QED
    BY <1>3, <1>4, <1>5

LEMMA ReplacedIs ==
  ASSUME NEW T, NEW text \in Seq(T), NEW marker \in Seq(T), NEW rule
  PROVE  \E h : /\ IsFold(h, Len(text), ScanStates(T), [text |-> <<>>, last |-> 0],
                          ScanSteps(rule, text, marker, T))
                /\ Replaced(rule, text, marker) = h[Len(text)].text
  <1>1. PICK n \in Nat : n = Len(text)
    OBVIOUS
  <1> DEFINE B == ScanStates(T)
             base == [text |-> <<>>, last |-> 0]
             step == ScanSteps(rule, text, marker, T)
             Eq(f) == f = [i \in 0..n |-> IF i = 0 THEN base
                                          ELSE Scanned(rule, text, marker, f[i - 1], i)]
  <1>2. base \in B
    BY EmptySeq DEF ScanStates
  <1>3. \A i \in 1..n, s \in B : /\ step[<<i, s>>] = Scanned(rule, text, marker, s, i)
                                 /\ Scanned(rule, text, marker, s, i) \in B
    <2>1. \A i \in 1..n, s \in B : Scanned(rule, text, marker, s, i) \in B
      BY <1>1, ScannedFacts
    <2> HIDE DEF B
    <2>2. \A i \in 1..n, s \in B : step[<<i, s>>] = Scanned(rule, text, marker, s, i)
      BY <1>1 DEF ScanSteps, B
    <2> QED
      BY <2>1, <2>2
  <1>4. step \in [(1..n) \X B -> B]
    <2>1. step = [p \in (1..n) \X B |-> Scanned(rule, text, marker, p[2], p[1])]
      BY <1>1, Zenon DEF ScanSteps
    <2> HIDE DEF B, step
    <2> QED
      BY <1>3, <2>1
  <1>5. Replaced(rule, text, marker) = (CHOOSE h : Eq(h))[n].text
    BY <1>1, Zenon DEF Replaced
  <1> HIDE DEF B, step, base
  <1>6. PICK f : IsFold(f, n, B, base, step)
    BY <1>2, <1>4, FoldDefined, Zenon
  <1>7. \A i \in 1..n : f[i] = Scanned(rule, text, marker, f[i - 1], i)
    <2>1. \A i \in 1..n : i - 1 \in 0..n /\ f[i - 1] \in B /\ f[i] = step[<<i, f[i - 1]>>]
      BY <1>6 DEF IsFold
    <2> QED
      BY <1>3, <2>1
  <1>8. Eq(f)
    BY <1>6, <1>7 DEF IsFold
  <1>9. PICK h : h = CHOOSE g : Eq(g)
    OBVIOUS
  <1>10. Eq(h)
    <2> HIDE DEF Eq
    <2> QED
      BY <1>8, <1>9
  <1>11. /\ h = [i \in 0..n |-> h[i]] /\ h[0] = base
         /\ \A i \in 1..n : h[i] = Scanned(rule, text, marker, h[i - 1], i)
    <2> DEFINE next(i) == Scanned(rule, text, marker, h[i - 1], i)
    <2>1. h = [i \in 0..n |-> IF i = 0 THEN base ELSE next(i)]
      BY <1>10, Zenon
    <2> HIDE DEF next, Eq
    <2>2. /\ h = [i \in 0..n |-> h[i]] /\ h[0] = base
          /\ \A i \in 1..n : h[i] = next(i)
      BY <2>1
    <2> QED
      BY <2>2 DEF next
  <1>12. h[n].text = Replaced(rule, text, marker)
    BY <1>5, <1>9, Zenon
  <1> HIDE DEF Eq
  <1>13. \A i \in 1..n : h[i - 1] \in B => h[i] = step[<<i, h[i - 1]>>]
    BY <1>3, <1>11
  <1>14. IsFold(h, n, B, base, step)
    BY <1>2, <1>4, <1>11, <1>13, FoldTyped, Zenon
  <1> QED
    BY <1>1, <1>12, <1>14, Zenon DEF B, base, step

(* Where the pieces come from: g[k] is the piece of the text that piece k  *)
(* of the scan was, 0 if a marker put it there.  Pieces that were copied   *)
(* begin no match, and two that touch each other touched there.            *)
Copied(rule, text, marker, scan, g) ==
  /\ \A k \in 1..Len(scan) : g[k] = 0 => scan[k] \in ToSet(marker)
  /\ \A k \in 1..Len(scan) : g[k] # 0 => /\ scan[k] = text[g[k]]
                                         /\ MatchesAt(rule, text, g[k]) = {}
  /\ \A k \in 1..Len(scan) : k # 1 /\ g[k - 1] # 0 /\ g[k] # 0 => g[k] = g[k - 1] + 1
  /\ Len(scan) > 0 /\ g[1] # 0 => g[1] = 1

Ended(scan, last, i, g) ==
  IF i = 0 THEN last = 0
  ELSE Len(scan) > 0 /\ g[Len(scan)] = IF i <= last THEN 0 ELSE i

ScanFrom(rule, text, marker, s, i) ==
  \E g \in [1..Len(s.text) -> 0..i] :
    Copied(rule, text, marker, s.text, g) /\ Ended(s.text, s.last, i, g)

LEMMA ScanGoesOn ==
  ASSUME NEW T, NEW text \in Seq(T), NEW marker \in Seq(T), marker # <<>>, NEW rule,
         NEW s \in ScanStates(T), NEW i \in 1..Len(text),
         ScanFrom(rule, text, marker, s, i - 1)
  PROVE  ScanFrom(rule, text, marker, Scanned(rule, text, marker, s, i), i)
  <1> DEFINE r == Scanned(rule, text, marker, s, i)
  <1> SUFFICES ScanFrom(rule, text, marker, r, i)
    OBVIOUS
  <1>1. /\ s.text \in Seq(T) /\ s.last \in Nat /\ Len(s.text) \in Nat
        /\ i \in Nat /\ i > 0 /\ i - 1 \in Nat
    BY DEF ScanStates
  <1>2. PICK g \in [1..Len(s.text) -> 0..(i - 1)] :
          /\ Copied(rule, text, marker, s.text, g) /\ Ended(s.text, s.last, i - 1, g)
    BY DEF ScanFrom
  <1>3. /\ \A k \in 1..Len(s.text) : g[k] \in 0..(i - 1)
        /\ \A k \in 1..Len(s.text) : g[k] = 0 => s.text[k] \in ToSet(marker)
    BY <1>2 DEF Copied
  <1>4. \/ i <= s.last /\ r = s
        \/ /\ s.last < i /\ MatchesAt(rule, text, i) = {}
           /\ r.text = Append(s.text, text[i]) /\ r.last = s.last
        \/ s.last < i /\ r.text = s.text \o marker /\ i <= r.last
    BY ScannedFacts
  <1>5. r.last \in Nat
    BY ScannedFacts DEF ScanStates
  <1> HIDE DEF r
  <1>6. CASE i <= s.last /\ r = s
    <2>1. g \in [1..Len(r.text) -> 0..i]
      <3>1. 0..(i - 1) \subseteq 0..i
        BY <1>1
      <3> QED
        BY <1>2, <1>6, <3>1
    <2>2. Ended(r.text, r.last, i, g)
      <3>1. Len(s.text) > 0 /\ g[Len(s.text)] = 0
        BY <1>1, <1>2, <1>6 DEF Ended
      <3> QED
        BY <1>6, <3>1 DEF Ended
    <2>3. Copied(rule, text, marker, r.text, g)
      BY <1>2, <1>6
    <2> QED
      BY <2>1, <2>2, <2>3, Zenon DEF ScanFrom
  <1>7. CASE /\ s.last < i /\ MatchesAt(rule, text, i) = {}
             /\ r.text = Append(s.text, text[i]) /\ r.last = s.last
    <2> DEFINE n == Len(s.text)
               f == [k \in 1..(n + 1) |-> IF k <= n THEN g[k] ELSE i]
    <2>1. /\ Len(r.text) = n + 1 /\ r.text[n + 1] = text[i]
          /\ \A k \in 1..n : r.text[k] = s.text[k]
      <3>1. text[i] \in T
        OBVIOUS
      <3> QED
        BY <1>1, <1>7, <3>1, AppendProperties
    <2>2. f \in [1..(n + 1) -> 0..i]
      <3>1. \A k \in 1..(n + 1) : (IF k <= n THEN g[k] ELSE i) \in 0..i
        BY <1>1, <1>3
      <3> QED
        BY <3>1
    <2>3. f[n + 1] = i /\ \A k \in 1..n : f[k] = g[k]
      BY <1>1
    <2> HIDE DEF f
    <2>4. \A k \in 1..(n + 1) : k \in 1..n \/ k = n + 1
      BY <1>1
    <2>5. \A k \in 1..(n + 1) : f[k] = 0 => r.text[k] \in ToSet(marker)
      <3>1. \A k \in 1..n : f[k] = 0 => r.text[k] \in ToSet(marker)
        BY <1>3, <2>1, <2>3
      <3>2. f[n + 1] # 0
        BY <1>1, <2>3
      <3> QED
        BY <2>4, <3>1, <3>2
    <2>6. \A k \in 1..(n + 1) : f[k] # 0 => /\ r.text[k] = text[f[k]]
                                            /\ MatchesAt(rule, text, f[k]) = {}
      BY <1>2, <1>7, <2>1, <2>3, <2>4 DEF Copied
    <2>7. ASSUME NEW k \in 1..(n + 1), k # 1, f[k - 1] # 0, f[k] # 0
          PROVE  f[k] = f[k - 1] + 1
      <3>1. CASE k \in 1..n
        <4>1. k - 1 \in 1..n
          BY <1>1, <2>7, <3>1
        <4> QED
          BY <1>2, <2>3, <2>7, <3>1, <4>1 DEF Copied
      <3>2. CASE k = n + 1
        <4>1. n \in 1..n /\ k - 1 = n
          BY <1>1, <2>7, <3>2
        <4>2. f[k] = i /\ f[k - 1] = g[n] /\ g[n] # 0
          BY <2>3, <2>7, <3>2, <4>1
        <4>3. i - 1 > 0
          BY <1>1, <1>3, <4>1, <4>2
        <4>4. g[n] = IF i - 1 <= s.last THEN 0 ELSE i - 1
          BY <1>2, <4>3 DEF Ended
        <4> QED
          BY <1>1, <4>2, <4>4
      <3> QED
        BY <2>4, <3>1, <3>2
    <2>8. f[1] # 0 => f[1] = 1
      <3>1. CASE n > 0
        <4>1. 1 \in 1..n
          BY <1>1, <3>1
        <4> QED
          BY <1>2, <2>3, <3>1, <4>1 DEF Copied
      <3>2. CASE n = 0
        <4>1. ~(i - 1 > 0)
          BY <1>1, <1>2, <3>2 DEF Ended
        <4>2. i = 1
          BY <1>1, <4>1
        <4> QED
          BY <2>3, <3>2, <4>2
      <3> QED
        BY <1>1, <3>1, <3>2
    <2>9. Copied(rule, text, marker, r.text, f)
      BY <2>1, <2>5, <2>6, <2>7, <2>8 DEF Copied
    <2>10. Ended(r.text, r.last, i, f)
      <3>1. Len(r.text) > 0 /\ ~(i <= r.last)
        BY <1>1, <1>7, <2>1
      <3> QED
        BY <2>1, <2>3, <3>1 DEF Ended
    <2>11. f \in [1..Len(r.text) -> 0..i]
      BY <2>1, <2>2
    <2> QED
      BY <2>9, <2>10, <2>11, Zenon DEF ScanFrom
  <1>8. CASE s.last < i /\ r.text = s.text \o marker /\ i <= r.last
    <2> DEFINE n == Len(s.text)
               m == Len(marker)
               f == [k \in 1..(n + m) |-> IF k <= n THEN g[k] ELSE 0]
    <2>1. m \in Nat /\ m > 0
      BY EmptySeq
    <2>2. /\ Len(r.text) = n + m
          /\ \A k \in 1..n : r.text[k] = s.text[k]
          /\ \A k \in 1..m : r.text[n + k] = marker[k]
      BY <1>1, <1>8, JoinedFacts
    <2>3. f \in [1..(n + m) -> 0..i]
      <3>1. \A k \in 1..(n + m) : (IF k <= n THEN g[k] ELSE 0) \in 0..i
        BY <1>1, <1>3, <2>1
      <3> QED
        BY <3>1
    <2>4. /\ \A k \in 1..n : f[k] = g[k]
          /\ \A k \in 1..(n + m) : k > n => f[k] = 0
      BY <1>1, <2>1
    <2> HIDE DEF f
    <2>5. \A k \in 1..(n + m) : k \in 1..n \/ (k > n /\ k - n \in 1..m /\ n + (k - n) = k)
      BY <1>1, <2>1
    <2>6. \A k \in 1..(n + m) : k > n => r.text[k] \in ToSet(marker)
      <3>1. \A k \in 1..m : marker[k] \in ToSet(marker)
        BY DEF ToSet
      <3>2. SUFFICES ASSUME NEW k \in 1..(n + m), k > n
                     PROVE  r.text[k] \in ToSet(marker)
        OBVIOUS
      <3>3. k - n \in 1..m /\ n + (k - n) = k
        BY <1>1, <2>5, <3>2
      <3> HIDE DEF m, n
      <3>4. r.text[n + (k - n)] = marker[k - n]
        BY <2>2, <3>3
      <3> QED
        BY <3>1, <3>3, <3>4
    <2>7. \A k \in 1..(n + m) : f[k] = 0 => r.text[k] \in ToSet(marker)
      BY <1>2, <2>2, <2>4, <2>5, <2>6 DEF Copied
    <2>8. \A k \in 1..(n + m) : f[k] # 0 => /\ r.text[k] = text[f[k]]
                                            /\ MatchesAt(rule, text, f[k]) = {}
      BY <1>2, <2>2, <2>4, <2>5 DEF Copied
    <2>9. ASSUME NEW k \in 1..(n + m), k # 1, f[k - 1] # 0, f[k] # 0
          PROVE  f[k] = f[k - 1] + 1
      <3>1. k \in 1..n /\ k - 1 \in 1..n
        BY <1>1, <2>4, <2>5, <2>9
      <3> QED
        BY <1>2, <2>4, <2>9, <3>1 DEF Copied
    <2>10. f[1] # 0 => f[1] = 1
      <3>1. 1 \in 1..(n + m)
        BY <1>1, <2>1
      <3>2. f[1] # 0 => 1 \in 1..n /\ n > 0
        BY <1>1, <2>4, <2>5, <3>1
      <3> QED
        BY <1>2, <2>4, <3>2 DEF Copied
    <2>11. Copied(rule, text, marker, r.text, f)
      BY <2>2, <2>7, <2>8, <2>9, <2>10 DEF Copied
    <2>12. Ended(r.text, r.last, i, f)
      <3>1. n + m \in 1..(n + m) /\ n + m > n /\ n + m > 0
        BY <1>1, <2>1
      <3> QED
        BY <1>8, <2>2, <2>4, <3>1 DEF Ended
    <2>13. f \in [1..Len(r.text) -> 0..i]
      BY <2>2, <2>3
    <2> QED
      BY <2>11, <2>12, <2>13, Zenon DEF ScanFrom
  <1> QED
    BY <1>4, <1>6, <1>7, <1>8

(* A whole scan.                                                           *)
LEMMA ReplacedFacts ==
  ASSUME NEW T, NEW text \in Seq(T), NEW marker \in Seq(T), marker # <<>>, NEW rule
  PROVE  LET r == Replaced(rule, text, marker)
         IN  /\ r \in Seq(T)
             /\ \E g \in [1..Len(r) -> 0..Len(text)] :
                  /\ Copied(rule, text, marker, r, g)
                  /\ Len(r) > 0 /\ g[Len(r)] # 0 => g[Len(r)] = Len(text)
  <1>1. PICK n \in Nat : n = Len(text)
    OBVIOUS
  <1>2. PICK h : /\ IsFold(h, n, ScanStates(T), [text |-> <<>>, last |-> 0],
                           ScanSteps(rule, text, marker, T))
                 /\ Replaced(rule, text, marker) = h[n].text
    BY <1>1, ReplacedIs, Zenon
  <1>3. h[0] = [text |-> <<>>, last |-> 0] /\ \A i \in 0..n : h[i] \in ScanStates(T)
    BY <1>2 DEF IsFold
  <1>4. \A i \in 1..n : h[i] = Scanned(rule, text, marker, h[i - 1], i)
    <2> DEFINE B == ScanStates(T)
    <2>1. \A i \in 1..n, s \in B :
            ScanSteps(rule, text, marker, T)[<<i, s>>] = Scanned(rule, text, marker, s, i)
      <3> HIDE DEF B
      <3> QED
        BY <1>1 DEF ScanSteps, B
    <2>2. \A i \in 1..n : i - 1 \in 0..n /\ h[i] = ScanSteps(rule, text, marker, T)[<<i, h[i - 1]>>]
      BY <1>2 DEF IsFold
    <2> HIDE DEF B
    <2> QED
      BY <1>3, <2>1, <2>2 DEF B
  <1> DEFINE S == {i \in 0..n : ScanFrom(rule, text, marker, h[i], i)}
  <1>5. 0 \in S
    <2>1. h[0].text = <<>> /\ Len(h[0].text) = 0 /\ h[0].last = 0
      BY <1>3
    <2>2. PICK g : g = [k \in 1..0 |-> 0]
      OBVIOUS
    <2>3. g \in [1..Len(h[0].text) -> 0..0]
      BY <2>1, <2>2
    <2>4. Copied(rule, text, marker, h[0].text, g) /\ Ended(h[0].text, h[0].last, 0, g)
      BY <2>1 DEF Copied, Ended
    <2>5. ScanFrom(rule, text, marker, h[0], 0)
      BY <2>3, <2>4 DEF ScanFrom
    <2> QED
      BY <2>5
  <1>6. ASSUME NEW i \in 1..n, i - 1 \in S
        PROVE  i \in S
    <2>1. i \in 0..n /\ i \in 1..Len(text) /\ i - 1 \in 0..n
      BY <1>1
    <2>2. h[i - 1] \in ScanStates(T) /\ ScanFrom(rule, text, marker, h[i - 1], i - 1)
      BY <1>3, <1>6, <2>1
    <2>3. ScanFrom(rule, text, marker, h[i], i)
      BY <1>4, <2>1, <2>2, ScanGoesOn
    <2> QED
      BY <2>1, <2>3
  <1>7. n \in S
    <2> HIDE DEF S
    <2>1. 0..n \subseteq S
      BY <1>5, <1>6, UpToInduction
    <2> QED
      BY <2>1
  <1>8. PICK r : r = h[n].text
    OBVIOUS
  <1>9. PICK g \in [1..Len(r) -> 0..n] :
          /\ Copied(rule, text, marker, r, g) /\ Ended(r, h[n].last, n, g)
    BY <1>7, <1>8 DEF ScanFrom
  <1>10. r \in Seq(T)
    BY <1>3, <1>8 DEF ScanStates
  <1>11. Len(r) > 0 /\ g[Len(r)] # 0 => g[Len(r)] = n
    <2>1. Len(r) \in Nat
      BY <1>10
    <2>2. Len(r) > 0 => g[Len(r)] \in 0..n
      BY <1>9, <2>1
    <2> QED
      BY <1>9, <2>1, <2>2 DEF Ended
  <1> QED
    BY <1>1, <1>2, <1>8, <1>9, <1>10, <1>11

(* Numbers that grow by one from each to the next.                         *)
LEMMA StepsOfOne ==
  ASSUME NEW lo \in Nat, NEW hi \in Nat, NEW g, \A k \in lo..hi : g[k] \in Nat,
         \A k \in lo..hi : k # lo => g[k] = g[k - 1] + 1
  PROVE  \A k \in lo..hi : g[k] = k + (g[lo] - lo)
  <1>1. CASE hi < lo
    BY <1>1
  <1>2. CASE lo <= hi
    <2> DEFINE S == {m \in 0..(hi - lo) : g[lo + m] = g[lo] + m}
    <2>1. hi - lo \in Nat /\ g[lo] \in Nat
      BY <1>2
    <2>2. 0 \in S
      BY <2>1
    <2>3. ASSUME NEW m \in 1..(hi - lo), m - 1 \in S
          PROVE  m \in S
      <3>1. /\ lo + m \in lo..hi /\ (lo + m) - 1 = lo + (m - 1) /\ lo + m # lo
            /\ m \in 0..(hi - lo) /\ m \in Int
        BY <1>2
      <3>2. g[lo + m] = g[lo + (m - 1)] + 1
        BY <3>1
      <3>3. g[lo + (m - 1)] = g[lo] + (m - 1)
        BY <2>3
      <3> QED
        BY <2>1, <3>1, <3>2, <3>3
    <2>4. 0..(hi - lo) \subseteq S
      <3> HIDE DEF S
      <3> QED
        BY <2>1, <2>2, <2>3, UpToInduction
    <2>5. ASSUME NEW k \in lo..hi
          PROVE  g[k] = k + (g[lo] - lo)
      <3>1. k - lo \in 0..(hi - lo) /\ lo + (k - lo) = k /\ k \in Int
        BY <1>2
      <3>2. g[k] = g[lo] + (k - lo)
        BY <2>4, <3>1
      <3> QED
        BY <2>1, <3>1, <3>2
    <2> QED
      BY <2>5
  <1> QED
    BY <1>1, <1>2

LEMMA BothSides ==
  ASSUME NEW n \in Nat, NEW i \in 1..n, NEW j \in 1..n, i <= j
  PROVE  \E lo, hi \in 1..n :
           /\ lo <= i /\ j <= hi /\ i - 1 <= lo /\ hi <= j + 1
           /\ lo = 1 \/ i - 1 = lo
           /\ hi = n \/ hi = j + 1
  <1>1. PICK lo \in 1..n : lo = IF i = 1 THEN 1 ELSE i - 1
    OBVIOUS
  <1>2. PICK hi \in 1..n : hi = IF j = n THEN j ELSE j + 1
    OBVIOUS
  <1>3. lo <= i /\ i - 1 <= lo /\ (lo = 1 \/ i - 1 = lo)
    BY <1>1
  <1>4. j <= hi /\ hi <= j + 1 /\ (hi = n \/ hi = j + 1)
    BY <1>2
  <1> QED
    BY <1>3, <1>4

(* A stretch that no marker is in or next to was there before the rule,    *)
(* and the rule had no match that begins where it begins.                  *)
LEMMA CopiedAlike ==
  ASSUME NEW u, NEW t, Len(u) \in Nat, Len(t) \in Nat, NEW marker, NEW rule,
         \A m \in ToSet(marker) : m[1] \in Marks,
         NEW g \in [1..Len(u) -> 0..Len(t)], Copied(rule, t, marker, u, g),
         Len(u) > 0 /\ g[Len(u)] # 0 => g[Len(u)] = Len(t), DOMAIN u = 1..Len(u),
         NEW i \in 1..Len(u), NEW j \in 1..Len(u), i <= j, ~Marked(u, i, j)
  PROVE  \E d \in Int : /\ Alike(u, t, d, i, j) /\ MatchesAt(rule, t, i + d) = {}
                        /\ i + d \in 1..Len(t) /\ j + d \in 1..Len(t)
  <1>1. PICK n \in Nat, l \in Nat : n = Len(u) /\ l = Len(t)
    OBVIOUS
  <1>2. i \in 1..n /\ j \in 1..n /\ i \in Int /\ j \in Int
    BY <1>1
  <1>3. PICK lo \in 1..n, hi \in 1..n :
          /\ lo <= i /\ j <= hi /\ i - 1 <= lo /\ hi <= j + 1
          /\ lo = 1 \/ i - 1 = lo
          /\ hi = n \/ hi = j + 1
    BY <1>1, <1>2, BothSides
  <1>4. \A k \in 1..n : g[k] \in Nat /\ g[k] <= l
    BY <1>1
  <1>5. ASSUME NEW k \in lo..hi
        PROVE  g[k] # 0 /\ u[k] = t[g[k]] /\ MatchesAt(rule, t, g[k]) = {}
    <2>1. k \in 1..n /\ k \in (i - 1)..(j + 1)
      BY <1>2, <1>3
    <2>2. u[k][1] \notin Marks
      BY <1>1, <2>1 DEF Marked
    <2>3. u[k] \notin ToSet(marker)
      BY <2>2
    <2> QED
      BY <1>1, <2>1, <2>3 DEF Copied
  <1>6. ASSUME NEW k \in lo..hi, k # lo
        PROVE  g[k] = g[k - 1] + 1
    <2>1. k \in 1..n /\ k # 1 /\ k - 1 \in lo..hi
      BY <1>3, <1>6
    <2>2. g[k] # 0 /\ g[k - 1] # 0
      BY <1>5, <2>1
    <2> QED
      BY <1>1, <2>1, <2>2 DEF Copied
  <1>7. PICK d \in Int : d = g[lo] - lo
    BY <1>4
  <1>8. ASSUME NEW k \in lo..hi
        PROVE  g[k] = k + d /\ k + d \in 1..l /\ u[k] = t[k + d] /\ k \in 1..n
    <2>1. \A m \in lo..hi : g[m] \in Nat
      BY <1>3, <1>4
    <2>2. g[k] = k + d
      <3>1. \A m \in lo..hi : m # lo => g[m] = g[m - 1] + 1
        BY <1>6
      <3>2. lo \in Nat /\ hi \in Nat
        BY <1>3
      <3>3. \A m \in lo..hi : g[m] = m + (g[lo] - lo)
        BY <2>1, <3>1, <3>2, StepsOfOne
      <3> QED
        BY <1>7, <3>3
    <2>3. k \in 1..n
      BY <1>3
    <2>4. u[k] = t[g[k]] /\ g[k] # 0
      BY <1>5
    <2>5. g[k] \in 1..l
      BY <1>4, <2>3, <2>4
    <2> QED
      BY <2>2, <2>3, <2>4, <2>5, Zenon
  <1>9. i \in lo..hi /\ j \in lo..hi /\ lo \in lo..hi /\ hi \in lo..hi
    BY <1>2, <1>3
  <1>10. ASSUME NEW k \in (i - 1)..(j + 1), k + d \in 1..l
         PROVE  k \in 1..n
    <2>1. CASE k < lo
      <3>1. lo = 1 /\ k = 0
        BY <1>2, <1>3, <2>1
      <3>2. g[1] = 1
        <4>1. g[1] # 0 /\ n > 0
          BY <1>1, <1>2, <1>5, <1>9, <3>1
        <4> QED
          BY <1>1, <4>1 DEF Copied
      <3>3. g[1] = 1 + d
        BY <1>8, <1>9, <3>1
      <3> QED
        BY <1>10, <3>1, <3>2, <3>3
    <2>2. CASE k > hi
      <3>1. hi = n /\ k = n + 1 /\ n > 0
        BY <1>2, <1>3, <2>2
      <3>2. g[n] # 0 /\ g[n] = n + d
        BY <1>5, <1>8, <1>9, <3>1
      <3>3. g[n] = l
        BY <1>1, <3>1, <3>2
      <3> QED
        BY <1>10, <3>1, <3>2, <3>3
    <2>3. CASE k >= lo /\ k <= hi
      BY <1>3, <2>3
    <2> QED
      BY <1>2, <1>3, <2>1, <2>2, <2>3
  <1>11. Alike(u, t, d, i, j)
    <2>1. ASSUME NEW k \in (i - 1)..(j + 1), k \in 1..n
          PROVE  k + d \in 1..l /\ u[k] = t[k + d]
      <3>1. k \in lo..hi
        BY <1>2, <1>3, <2>1
      <3> QED
        BY <1>8, <3>1
    <2> QED
      BY <1>1, <1>10, <2>1 DEF Alike
  <1>12. MatchesAt(rule, t, i + d) = {}
    <2>1. g[i] = i + d /\ MatchesAt(rule, t, g[i]) = {}
      BY <1>5, <1>8, <1>9
    <2> QED
      BY <2>1
  <1> QED
    BY <1>1, <1>8, <1>9, <1>11, <1>12

LEMMA MarkedAlike ==
  ASSUME NEW u, NEW t, Len(u) \in Nat, Len(t) \in Nat, NEW d \in Int,
         DOMAIN u = 1..Len(u), DOMAIN t = 1..Len(t),
         NEW i \in Int, NEW j \in Int, Alike(u, t, d, i, j), Marked(t, i + d, j + d)
  PROVE  Marked(u, i, j)
  <1>1. PICK k \in 1..Len(t) : k \in (i + d - 1)..(j + d + 1) /\ t[k][1] \in Marks
    BY DEF Marked
  <1>2. k - d \in (i - 1)..(j + 1) /\ (k - d) + d = k
    BY <1>1
  <1>3. k - d \in 1..Len(u) /\ u[k - d] = t[k]
    BY <1>1, <1>2 DEF Alike
  <1> QED
    BY <1>1, <1>2, <1>3 DEF Marked


(* A match of the pattern holds or touches a marker.                       *)
Clear(text, name) ==
  \A i, j \in DOMAIN text : Fits(Rule(name, "secret"), text, i, j) => Marked(text, i, j)

LEMMA SamePattern ==
  ASSUME NEW a, NEW b, a.name = b.name, a.name \in Patterns, NEW t, NEW i, NEW j,
         Fits(a, t, i, j)
  PROVE  Fits(b, t, i, j)
  <1>1. a.name # "configured"
    BY DEF Patterns
  <1> QED
    BY <1>1, Zenon DEF Fits

(* A rule leaves its own pattern clear, and those that were clear before.  *)
LEMMA RuleClears ==
  ASSUME NEW T, NEW t \in Seq(T), NEW marker \in Seq(T), marker # <<>>, NEW rule,
         \A m \in ToSet(marker) : m[1] \in Marks, NEW name \in Patterns,
         rule.name = name \/ Clear(t, name)
  PROVE  Clear(Replaced(rule, t, marker), name)
  <1>1. PICK u : u = Replaced(rule, t, marker)
    OBVIOUS
  <1>2. /\ u \in Seq(T)
        /\ \E g \in [1..Len(u) -> 0..Len(t)] :
             /\ Copied(rule, t, marker, u, g)
             /\ Len(u) > 0 /\ g[Len(u)] # 0 => g[Len(u)] = Len(t)
    BY <1>1, ReplacedFacts
  <1>3. PICK g \in [1..Len(u) -> 0..Len(t)] :
          /\ Copied(rule, t, marker, u, g)
          /\ Len(u) > 0 /\ g[Len(u)] # 0 => g[Len(u)] = Len(t)
    BY <1>2
  <1>4. /\ Len(u) \in Nat /\ DOMAIN u = 1..Len(u)
        /\ Len(t) \in Nat /\ DOMAIN t = 1..Len(t)
    BY <1>2
  <1>5. ASSUME NEW i \in DOMAIN u, NEW j \in DOMAIN u,
               Fits(Rule(name, "secret"), u, i, j), ~Marked(u, i, j)
        PROVE  FALSE
    <2>1. i \in 1..Len(u) /\ j \in 1..Len(u) /\ i \in Int /\ j \in Int
      BY <1>4
    <2>2. i <= j
      BY <1>5, <2>1, FitsForward
    <2>3. PICK d \in Int : /\ Alike(u, t, d, i, j) /\ MatchesAt(rule, t, i + d) = {}
                           /\ i + d \in 1..Len(t) /\ j + d \in 1..Len(t)
      BY <1>3, <1>4, <1>5, <2>1, <2>2, CopiedAlike
    <2>4. Fits(Rule(name, "secret"), t, i + d, j + d)
      BY <1>4, <1>5, <2>1, <2>2, <2>3, FitsAlike
    <2>5. ~Marked(t, i + d, j + d)
      BY <1>4, <1>5, <2>1, <2>3, MarkedAlike
    <2>6. ~Clear(t, name)
      BY <1>4, <2>3, <2>4, <2>5 DEF Clear
    <2>7. rule.name = name
      BY <2>6
    <2>8. Fits(rule, t, i + d, j + d)
      <3>1. Rule(name, "secret").name = name
        BY DEF Rule
      <3> QED
        BY <2>4, <2>7, <3>1, SamePattern
    <2>9. j + d \in (i + d)..Len(t)
      BY <1>4, <2>1, <2>2, <2>3
    <2> QED
      BY <2>3, <2>8, <2>9 DEF MatchesAt
  <1> QED
    BY <1>1, <1>5, Zenon DEF Clear

-----------------------------------------------------------------------------
(* The rules one after the other.                                          *)

RuleSet ==
  [name: Patterns \cup {"configured"}, type: Types, classes: SUBSET STRING, value: BOOLEAN]

Applied(pii) ==
  {"assignment", "bearer", "key block", "connection", "cloud key"}
  \cup IF pii THEN {"email"} ELSE {}

LEMMA FiveListed ==
  ASSUME NEW S, NEW a \in S, NEW b \in S, NEW c \in S, NEW d \in S, NEW e \in S
  PROVE  LET s == <<a, b, c, d, e>>
         IN  /\ s \in Seq(S) /\ Len(s) = 5
             /\ s[1] = a /\ s[2] = b /\ s[3] = c /\ s[4] = d /\ s[5] = e
  OBVIOUS

LEMMA BuiltinTyped ==
  ASSUME NEW pii
  PROVE  /\ BuiltinRules(pii) \in Seq(RuleSet)
         /\ \A name \in Applied(pii) :
              \E k \in 1..Len(BuiltinRules(pii)) : BuiltinRules(pii)[k].name = name
  <1> DEFINE first == <<Rule("assignment", "secret"), Rule("bearer", "secret"),
                        Rule("key block", "secret"), Rule("connection", "secret"),
                        Rule("cloud key", "secret")>>
             last == IF pii THEN <<Rule("email", "pii")>> ELSE <<>>
  <1>1. ASSUME NEW name \in Patterns, NEW type \in Types
        PROVE  Rule(name, type) \in RuleSet /\ Rule(name, type).name = name
    BY DEF Rule, RuleSet
  <1>2. /\ first \in Seq(RuleSet) /\ Len(first) = 5
        /\ first[1] = Rule("assignment", "secret") /\ first[2] = Rule("bearer", "secret")
        /\ first[3] = Rule("key block", "secret") /\ first[4] = Rule("connection", "secret")
        /\ first[5] = Rule("cloud key", "secret")
    <2> HIDE DEF RuleSet
    <2>1. /\ Rule("assignment", "secret") \in RuleSet /\ Rule("bearer", "secret") \in RuleSet
          /\ Rule("key block", "secret") \in RuleSet
          /\ Rule("connection", "secret") \in RuleSet
          /\ Rule("cloud key", "secret") \in RuleSet
      BY <1>1 DEF Types, Patterns
    <2> QED
      BY <2>1, FiveListed
  <1>3. last \in Seq(RuleSet) /\ (pii => Len(last) = 1 /\ last[1] = Rule("email", "pii"))
    <2>1. Rule("email", "pii") \in RuleSet
      BY <1>1 DEF Types, Patterns
    <2> QED
      BY <2>1, EmptySeq
  <1>4. BuiltinRules(pii) = first \o last
    BY DEF BuiltinRules
  <1> HIDE DEF first, last
  <1>5. /\ first \o last \in Seq(RuleSet) /\ Len(first \o last) = 5 + Len(last)
        /\ \A i \in 1..5 : (first \o last)[i] = first[i]
        /\ \A i \in 1..Len(last) : (first \o last)[5 + i] = last[i]
    <2>1. /\ first \o last \in Seq(RuleSet) /\ Len(first \o last) = Len(first) + Len(last)
          /\ \A i \in 1..Len(first) : (first \o last)[i] = first[i]
          /\ \A i \in 1..Len(last) : (first \o last)[Len(first) + i] = last[i]
      <3>1. first \in Seq(RuleSet) /\ last \in Seq(RuleSet)
        BY <1>2, <1>3, Zenon
      <3> HIDE DEF RuleSet
      <3> QED
        BY <3>1, JoinedFacts
    <2>2. Len(first) = 5
      BY <1>2
    <2> QED
      BY <2>1, <2>2
  <1>6. PICK n \in Nat : n = Len(first \o last)
    BY <1>5
  <1>7. Len(last) \in Nat /\ n = 5 + Len(last) /\ \A k \in 1..5 : k \in 1..n
    BY <1>3, <1>5, <1>6
  <1>8. ASSUME pii
        PROVE  6 \in 1..n /\ (first \o last)[6].name = "email"
    <2>1. Len(last) = 1 /\ last[1] = Rule("email", "pii")
      BY <1>3, <1>8, Zenon
    <2>2. 1 \in 1..Len(last) => (first \o last)[5 + 1] = last[1]
      BY <1>5, Zenon
    <2>3. Rule("email", "pii").name = "email"
      BY <1>1 DEF Types, Patterns
    <2>4. 1 \in 1..Len(last) /\ 5 + 1 = 6 /\ 6 \in 1..n
      BY <1>7, <2>1
    <2>5. (first \o last)[6] = Rule("email", "pii")
      BY <2>1, <2>2, <2>4
    <2> QED
      BY <2>3, <2>4, <2>5, Zenon
  <1>9. /\ (first \o last)[1].name = "assignment" /\ (first \o last)[2].name = "bearer"
        /\ (first \o last)[3].name = "key block" /\ (first \o last)[4].name = "connection"
        /\ (first \o last)[5].name = "cloud key"
    <2>1. /\ Rule("assignment", "secret").name = "assignment"
          /\ Rule("bearer", "secret").name = "bearer"
          /\ Rule("key block", "secret").name = "key block"
          /\ Rule("connection", "secret").name = "connection"
          /\ Rule("cloud key", "secret").name = "cloud key"
      BY DEF Rule
    <2>2. \A k \in 1..5 : (first \o last)[k] = first[k]
      BY <1>5, Zenon
    <2>3. 1 \in 1..5 /\ 2 \in 1..5 /\ 3 \in 1..5 /\ 4 \in 1..5 /\ 5 \in 1..5
      OBVIOUS
    <2> QED
      BY <1>2, <2>1, <2>2, <2>3, Zenon
  <1>10. 1 \in 1..n /\ 2 \in 1..n /\ 3 \in 1..n /\ 4 \in 1..n /\ 5 \in 1..n
    BY <1>7
  <1>11. ASSUME NEW name \in Applied(pii)
         PROVE  \E k \in 1..n : (first \o last)[k].name = name
    <2>1. \/ name \in {"assignment", "bearer", "key block", "connection", "cloud key"}
          \/ pii /\ name = "email"
      BY DEF Applied
    <2> QED
      BY <1>8, <1>9, <1>10, <2>1, Zenon
  <1> QED
    BY <1>4, <1>5, <1>6, <1>11, Zenon

LEMMA RulesTyped ==
  ASSUME NEW pii
  PROVE  /\ RulesFor(pii) \in Seq(RuleSet)
         /\ \A name \in Applied(pii) :
              \E k \in 1..Len(RulesFor(pii)) : RulesFor(pii)[k].name = name
  <1> DEFINE C == [classes: SUBSET STRING, value: BOOLEAN, type: Types,
                   enabled: BOOLEAN, pattern: BOOLEAN]
             usable == KeptAt(ConfiguredRules,
                         {i \in DOMAIN ConfiguredRules :
                            ConfiguredRules[i].enabled /\ ConfiguredRules[i].pattern})
             more == [i \in DOMAIN usable |->
                        [name |-> "configured", type |-> usable[i].type,
                         classes |-> usable[i].classes, value |-> usable[i].value]]
             rules == BuiltinRules(pii)
  <1>1. ConfiguredRules \in Seq(C)
    BY RedactionConstants, Zenon DEF Types
  <1>2. \A c \in C : [name |-> "configured", type |-> c.type, classes |-> c.classes,
                      value |-> c.value] \in RuleSet
    BY DEF RuleSet
  <1> HIDE DEF C
  <1>3. usable \in Seq(C)
    <2>1. {i \in DOMAIN ConfiguredRules :
             ConfiguredRules[i].enabled /\ ConfiguredRules[i].pattern}
            \in SUBSET (1..Len(ConfiguredRules))
      BY <1>1
    <2> QED
      BY <1>1, <2>1, KeptAtFacts
  <1> HIDE DEF usable
  <1>4. PICK n \in Nat : n = Len(usable) /\ DOMAIN usable = 1..n
    BY <1>3
  <1>5. more \in [1..n -> RuleSet]
    BY <1>2, <1>3, <1>4
  <1> HIDE DEF more
  <1>6. more \in Seq(RuleSet)
    BY <1>5, ListedSequence
  <1>7. /\ rules \in Seq(RuleSet)
        /\ \A name \in Applied(pii) : \E k \in 1..Len(rules) : rules[k].name = name
    BY BuiltinTyped
  <1>8. RulesFor(pii) = rules \o more
    BY DEF RulesFor, usable, more
  <1> HIDE DEF rules
  <1>9. /\ rules \o more \in Seq(RuleSet) /\ Len(rules \o more) = Len(rules) + Len(more)
        /\ \A i \in 1..Len(rules) : (rules \o more)[i] = rules[i]
    BY <1>6, <1>7, ConcatProperties
  <1>10. Len(rules) \in Nat /\ Len(more) \in Nat
    BY <1>6, <1>7
  <1>11. \A k \in 1..Len(rules) : k \in 1..Len(rules \o more)
    BY <1>9, <1>10
  <1>12. \A name \in Applied(pii) :
           \E k \in 1..Len(rules \o more) : (rules \o more)[k].name = name
    BY <1>7, <1>9, <1>11, Zenon
  <1> QED
    BY <1>8, <1>9, <1>12, Zenon

Found == [type: Types, marker: Seq(Marks \X Nat)]

RedactStates(T) == [text: Seq(T), used: [Types -> Nat], findings: Seq(Found)]

RedactSteps(T, pii) ==
  [p \in (1..Len(RulesFor(pii))) \X RedactStates(T) |->
     ApplyRule(p[2], RulesFor(pii)[p[1]])]

FoundOf(state, type) == \E f \in DOMAIN state.findings : state.findings[f].type = type

(* A label of a marker has a finding of its type.                          *)
Told(state, piece) ==
  /\ piece[1] = "secret label" => FoundOf(state, "secret")
  /\ piece[1] = "pii label" => FoundOf(state, "pii")

(* What a rule does to a text: its own pattern is clear afterwards, and    *)
(* those that were; a piece was there before, or is a marker's for which   *)
(* there is a finding.                                                     *)
AppliedTo(s, rule, r) ==
  /\ \A name \in Patterns : rule.name = name \/ Clear(s.text, name) => Clear(r.text, name)
  /\ \A i \in DOMAIN r.text : r.text[i] \in ToSet(s.text) \/ Told(r, r.text[i])
  /\ \A type \in Types : FoundOf(s, type) => FoundOf(r, type)

LEMMA MarkerFacts ==
  ASSUME NEW type \in Types, NEW n \in Nat
  PROVE  LET marker == Marker(type, n)
         IN  /\ marker \in Seq(Marks \X Nat) /\ marker # <<>>
             /\ \A m \in ToSet(marker) :
                  /\ m[1] \in Marks /\ m \in Marks \X Nat
                  /\ m[1] = "secret label" => type = "secret"
                  /\ m[1] = "pii label" => type = "pii"
  <1> DEFINE label == IF type = "secret" THEN "secret label" ELSE "pii label"
             a == <<"opening", 0>>
             b == <<label, 0>>
             c == <<"closing", n>>
  <1>1. a \in Marks \X Nat /\ b \in Marks \X Nat /\ c \in Marks \X Nat
    BY DEF Marks
  <1>2. Marker(type, n) = <<a, b, c>>
    BY DEF Marker
  <1>3. /\ a[1] = "opening" /\ c[1] = "closing" /\ b[1] = label
        /\ label = "secret label" => type = "secret"
        /\ label = "pii label" => type = "pii"
    BY DEF Types
  <1> HIDE DEF a, b, c, label
  <1>4. PICK s : s = <<a, b, c>>
    OBVIOUS
  <1>5. s \in Seq(Marks \X Nat) /\ Len(s) = 3 /\ s # <<>>
    <2> HIDE DEF Marks
    <2> QED
      BY <1>1, <1>4
  <1>6. ToSet(s) = {a, b, c}
    <2>1. DOMAIN s = 1..3 /\ s[1] = a /\ s[2] = b /\ s[3] = c
      BY <1>4
    <2>2. 1..3 = {1, 2, 3}
      OBVIOUS
    <2> QED
      BY <2>1, <2>2 DEF ToSet
  <1>7. \A m \in {a, b, c} : /\ m[1] \in Marks /\ m \in Marks \X Nat
                             /\ m[1] = "secret label" => type = "secret"
                             /\ m[1] = "pii label" => type = "pii"
    BY <1>1, <1>3
  <1> QED
    BY <1>2, <1>4, <1>5, <1>6, <1>7, Zenon

LEMMA ApplyFacts ==
  ASSUME NEW T, Marks \X Nat \subseteq T, NEW s \in RedactStates(T), NEW rule \in RuleSet
  PROVE  /\ ApplyRule(s, rule) \in RedactStates(T)
         /\ AppliedTo(s, rule, ApplyRule(s, rule))
  <1> DEFINE marker == Marker(rule.type, s.used[rule.type] + 1)
             none == \A i \in DOMAIN s.text : MatchesAt(rule, s.text, i) = {}
             r == ApplyRule(s, rule)
             found == [type |-> rule.type, marker |-> marker]
  <1>1. s.text \in Seq(T) /\ s.used \in [Types -> Nat] /\ s.findings \in Seq(Found)
    BY DEF RedactStates
  <1>2. rule.type \in Types
    BY DEF RuleSet
  <1>3. s.used[rule.type] + 1 \in Nat
    BY <1>1, <1>2
  <1>4. marker \in Seq(Marks \X Nat) /\ marker # <<>>
    <2> HIDE DEF marker
    <2> QED
      BY <1>2, <1>3, MarkerFacts DEF marker
  <1>5. \A m \in ToSet(marker) : /\ m[1] \in Marks /\ m \in Marks \X Nat
                                 /\ m[1] = "secret label" => rule.type = "secret"
                                 /\ m[1] = "pii label" => rule.type = "pii"
    BY <1>2, <1>3, MarkerFacts
  <1> HIDE DEF marker
  <1>6. marker \in Seq(T)
    BY <1>4
  <1>7. CASE none
    <2>1. r = s
      BY <1>7 DEF ApplyRule
    <2>2. ASSUME NEW name \in Patterns, rule.name = name, NEW i \in DOMAIN s.text,
                 NEW j \in DOMAIN s.text, Fits(Rule(name, "secret"), s.text, i, j)
          PROVE  FALSE
      <3>1. i \in Int /\ j \in Int /\ j <= Len(s.text) /\ Len(s.text) \in Nat
        BY <1>1
      <3>2. i <= j
        BY <2>2, <3>1, FitsForward
      <3>3. Rule(name, "secret").name = rule.name /\ rule.name \in Patterns
        BY <2>2 DEF Rule
      <3>4. Fits(rule, s.text, i, j)
        BY <2>2, <3>3, SamePattern
      <3>5. j \in MatchesAt(rule, s.text, i)
        BY <3>1, <3>2, <3>4 DEF MatchesAt
      <3> QED
        BY <1>7, <3>5
    <2>3. \A name \in Patterns : rule.name = name => Clear(s.text, name)
      BY <2>2 DEF Clear
    <2>4. \A i \in DOMAIN s.text : s.text[i] \in ToSet(s.text)
      BY DEF ToSet
    <2> HIDE DEF r
    <2>5. AppliedTo(s, rule, r)
      BY <2>1, <2>3, <2>4, Zenon DEF AppliedTo
    <2> QED
      BY <2>1, <2>5 DEF r
  <1>8. CASE ~none
    <2>1. r = [text |-> Replaced(rule, s.text, marker),
               used |-> [s.used EXCEPT ![rule.type] = @ + 1],
               findings |-> Append(s.findings, found)]
      BY <1>8 DEF ApplyRule, marker
    <2>2. PICK u : u = Replaced(rule, s.text, marker)
      OBVIOUS
    <2>3. /\ u \in Seq(T)
          /\ \E g \in [1..Len(u) -> 0..Len(s.text)] : Copied(rule, s.text, marker, u, g)
      BY <1>1, <1>4, <1>6, <2>2, ReplacedFacts
    <2>4. PICK g \in [1..Len(u) -> 0..Len(s.text)] : Copied(rule, s.text, marker, u, g)
      BY <2>3
    <2> HIDE DEF r, none
    <2>5. r.used \in [Types -> Nat]
      <3>1. r.used = [s.used EXCEPT ![rule.type] = @ + 1]
        BY <2>1
      <3> QED
        BY <1>1, <1>2, <1>3, <3>1
    <2>6. found \in Found
      BY <1>2, <1>4 DEF Found
    <2> HIDE DEF found
    <2>7. /\ r.findings \in Seq(Found) /\ Len(r.findings) = Len(s.findings) + 1
          /\ r.findings[Len(s.findings) + 1] = found
          /\ \A f \in 1..Len(s.findings) : r.findings[f] = s.findings[f]
      <3>1. r.findings = Append(s.findings, found)
        BY <2>1
      <3> HIDE DEF Found
      <3> QED
        BY <1>1, <2>6, <3>1, AppendProperties
    <2>8. r \in RedactStates(T)
      <3>1. r = [text |-> u, used |-> r.used, findings |-> r.findings]
        BY <2>1, <2>2
      <3> HIDE DEF Found
      <3> QED
        BY <2>3, <2>5, <2>7, <3>1 DEF RedactStates
    <2>9. Len(s.findings) \in Nat /\ DOMAIN s.findings = 1..Len(s.findings)
          /\ DOMAIN r.findings = 1..(Len(s.findings) + 1)
      BY <1>1, <2>7
    <2>10. FoundOf(r, rule.type)
      <3>1. found.type = rule.type
        BY DEF found
      <3>2. Len(s.findings) + 1 \in DOMAIN r.findings
        BY <2>9
      <3> QED
        BY <2>7, <3>1, <3>2 DEF FoundOf
    <2>11. \A type \in Types : FoundOf(s, type) => FoundOf(r, type)
      <3>1. \A f \in DOMAIN s.findings : f \in DOMAIN r.findings /\ r.findings[f] = s.findings[f]
        BY <2>7, <2>9
      <3> QED
        BY <3>1 DEF FoundOf
    <2>12. r.text = u
      BY <2>1, <2>2
    <2>13. ASSUME NEW name \in Patterns, rule.name = name \/ Clear(s.text, name)
           PROVE  Clear(u, name)
      <3>1. \A m \in ToSet(marker) : m[1] \in Marks
        BY <1>5
      <3> QED
        BY <1>1, <1>4, <1>6, <2>2, <2>13, <3>1, RuleClears
    <2>14. ASSUME NEW i \in DOMAIN u
           PROVE  u[i] \in ToSet(s.text) \/ Told(r, u[i])
      <3>1. i \in 1..Len(u) /\ g[i] \in 0..Len(s.text) /\ DOMAIN s.text = 1..Len(s.text)
            /\ Len(s.text) \in Nat
        BY <1>1, <2>3
      <3>2. CASE g[i] = 0
        <4>1. u[i] \in ToSet(marker)
          BY <2>4, <3>1, <3>2 DEF Copied
        <4> QED
          BY <1>5, <2>10, <4>1 DEF Told
      <3>3. CASE g[i] # 0
        <4>1. u[i] = s.text[g[i]] /\ g[i] \in DOMAIN s.text
          BY <2>4, <3>1, <3>3 DEF Copied
        <4> QED
          BY <4>1 DEF ToSet
      <3> QED
        BY <3>2, <3>3
    <2>15. AppliedTo(s, rule, r)
      BY <2>11, <2>12, <2>13, <2>14, Zenon DEF AppliedTo
    <2> QED
      BY <2>8, <2>15 DEF r
  <1> QED
    BY <1>7, <1>8

LEMMA RedactIs ==
  ASSUME NEW T, Marks \X Nat \subseteq T, NEW text \in Seq(T), NEW pii
  PROVE  \E h : /\ IsFold(h, Len(RulesFor(pii)), RedactStates(T),
                          Untouched(text), RedactSteps(T, pii))
                /\ Redact(text, pii) = h[Len(RulesFor(pii))]
  <1>1. PICK rules \in Seq(RuleSet) : rules = RulesFor(pii)
    BY RulesTyped
  <1>2. PICK n \in Nat : n = Len(rules)
    OBVIOUS
  <1>3. \A i \in 1..n : rules[i] \in RuleSet
    <2> HIDE DEF RuleSet
    <2> QED
      BY <1>2
  <1> DEFINE B == RedactStates(T)
             base == Untouched(text)
             step == RedactSteps(T, pii)
             Eq(f) == f = [i \in 0..n |-> IF i = 0 THEN base
                                          ELSE ApplyRule(f[i - 1], rules[i])]
  <1>5. base \in B
    <2>1. [t \in {"secret", "pii"} |-> 0] \in [Types -> Nat]
      BY DEF Types
    <2>2. <<>> \in Seq(Found)
      BY EmptySeq
    <2> HIDE DEF Found, Types
    <2> QED
      BY <2>1, <2>2 DEF Untouched, RedactStates
  <1>6. \A i \in 1..n, s \in B : /\ step[<<i, s>>] = ApplyRule(s, rules[i])
                                 /\ ApplyRule(s, rules[i]) \in B
    <2>1. \A i \in 1..n, s \in B : ApplyRule(s, rules[i]) \in B
      BY <1>3, ApplyFacts
    <2> HIDE DEF B
    <2>2. \A i \in 1..n, s \in B : step[<<i, s>>] = ApplyRule(s, rules[i])
      BY <1>1, <1>2 DEF RedactSteps, B
    <2> QED
      BY <2>1, <2>2
  <1>7. step \in [(1..n) \X B -> B]
    <2>1. step = [p \in (1..n) \X B |-> ApplyRule(p[2], rules[p[1]])]
      BY <1>1, <1>2, Zenon DEF RedactSteps
    <2> HIDE DEF B, step
    <2> QED
      BY <1>6, <2>1
  <1>8. Redact(text, pii) = (CHOOSE h : Eq(h))[n]
    BY <1>1, <1>2, Zenon DEF Redact
  <1> HIDE DEF B, step, base
  <1>9. PICK f : IsFold(f, n, B, base, step)
    BY <1>5, <1>7, FoldDefined, Zenon
  <1>10. \A i \in 1..n : f[i] = ApplyRule(f[i - 1], rules[i])
    <2>1. \A i \in 1..n : i - 1 \in 0..n /\ f[i - 1] \in B /\ f[i] = step[<<i, f[i - 1]>>]
      BY <1>9 DEF IsFold
    <2> QED
      BY <1>6, <2>1
  <1>11. Eq(f)
    BY <1>9, <1>10 DEF IsFold
  <1>12. PICK h : h = CHOOSE g : Eq(g)
    OBVIOUS
  <1>13. Eq(h)
    <2> HIDE DEF Eq
    <2> QED
      BY <1>11, <1>12
  <1>14. /\ h = [i \in 0..n |-> h[i]] /\ h[0] = base
         /\ \A i \in 1..n : h[i] = ApplyRule(h[i - 1], rules[i])
    <2> DEFINE next(i) == ApplyRule(h[i - 1], rules[i])
    <2>1. h = [i \in 0..n |-> IF i = 0 THEN base ELSE next(i)]
      BY <1>13, Zenon
    <2> HIDE DEF next, Eq
    <2>2. /\ h = [i \in 0..n |-> h[i]] /\ h[0] = base
          /\ \A i \in 1..n : h[i] = next(i)
      BY <2>1
    <2> QED
      BY <2>2 DEF next
  <1>15. h[n] = Redact(text, pii)
    BY <1>8, <1>12, Zenon
  <1> HIDE DEF Eq
  <1>16. \A i \in 1..n : h[i - 1] \in B => h[i] = step[<<i, h[i - 1]>>]
    BY <1>6, <1>14
  <1>17. IsFold(h, n, B, base, step)
    BY <1>5, <1>7, <1>14, <1>16, FoldTyped, Zenon
  <1> QED
    BY <1>1, <1>2, <1>15, <1>17, Zenon DEF B, base, step

(* After all the rules the patterns of the builtin ones are clear, and a   *)
(* label of a marker in a text that had none has its finding.              *)
LEMMA RedactFacts ==
  ASSUME NEW T, Marks \X Nat \subseteq T, NEW text \in Seq(T), NEW pii
  PROVE  LET r == Redact(text, pii)
         IN  /\ r.text \in Seq(T) /\ r.findings \in Seq(Found)
             /\ \A name \in Applied(pii) : Clear(r.text, name)
             /\ ~Says(text, Marks) => \A i \in DOMAIN r.text : Told(r, r.text[i])
  <1> DEFINE r == Redact(text, pii)
  <1>1. PICK rules \in Seq(RuleSet) : rules = RulesFor(pii)
    BY RulesTyped
  <1>2. PICK n \in Nat : n = Len(rules)
    OBVIOUS
  <1>3. \A i \in 1..n : rules[i] \in RuleSet
    <2> HIDE DEF RuleSet
    <2> QED
      BY <1>2
  <1>4. PICK h : IsFold(h, n, RedactStates(T), Untouched(text), RedactSteps(T, pii))
                 /\ r = h[n]
    BY <1>1, <1>2, RedactIs, Zenon
  <1> DEFINE B == RedactStates(T)
  <1>5. h[0] = Untouched(text) /\ \A i \in 0..n : h[i] \in B
    BY <1>4 DEF IsFold
  <1>6. \A i \in 1..n : h[i] = ApplyRule(h[i - 1], rules[i])
    <2>1. \A i \in 1..n, s \in B : RedactSteps(T, pii)[<<i, s>>] = ApplyRule(s, rules[i])
      <3> HIDE DEF B
      <3> QED
        BY <1>1, <1>2 DEF RedactSteps, B
    <2>2. \A i \in 1..n : i - 1 \in 0..n /\ h[i] = RedactSteps(T, pii)[<<i, h[i - 1]>>]
      BY <1>4 DEF IsFold
    <2> HIDE DEF B
    <2> QED
      BY <1>5, <2>1, <2>2
  <1>7. \A i \in 1..n : AppliedTo(h[i - 1], rules[i], h[i])
    <2>1. \A i \in 1..n : i - 1 \in 0..n
      OBVIOUS
    <2> QED
      BY <1>3, <1>5, <1>6, <2>1, ApplyFacts
  <1> HIDE DEF r, B
  <1> DEFINE D == {k \in 0..n : \A name \in Patterns, j \in 1..k :
                                  rules[j].name = name => Clear(h[k].text, name)}
             S == {k \in 0..n : \A i \in DOMAIN h[k].text : Told(h[k], h[k].text[i])}
  <1>8. n \in D
    <2>1. 0 \in D
      OBVIOUS
    <2>2. ASSUME NEW k \in 1..n, k - 1 \in D
          PROVE  k \in D
      <3>1. ASSUME NEW name \in Patterns, NEW j \in 1..k, rules[j].name = name
            PROVE  Clear(h[k].text, name)
        <4>1. rules[k].name = name \/ Clear(h[k - 1].text, name)
          <5>1. CASE j = k
            BY <3>1, <5>1
          <5>2. CASE j # k
            <6>1. j \in 1..(k - 1)
              BY <5>2
            <6> QED
              BY <2>2, <3>1, <6>1
          <5> QED
            BY <5>1, <5>2
        <4> QED
          BY <1>7, <4>1, Zenon DEF AppliedTo
      <3> QED
        BY <3>1
    <2> HIDE DEF D
    <2>3. 0..n \subseteq D
      BY <2>1, <2>2, UpToInduction
    <2> QED
      BY <2>3
  <1>9. ASSUME ~Says(text, Marks)
        PROVE  n \in S
    <2>1. 0 \in S
      <3>1. h[0].text = text
        BY <1>5 DEF Untouched
      <3>2. \A i \in DOMAIN h[0].text : Told(h[0], h[0].text[i])
        <4>1. \A i \in DOMAIN text : text[i][1] \notin Marks
          BY <1>9 DEF Says
        <4> QED
          BY <3>1, <4>1 DEF Told, Marks
      <3> QED
        BY <3>2
    <2>2. ASSUME NEW k \in 1..n, k - 1 \in S
          PROVE  k \in S
      <3>1. /\ \A i \in DOMAIN h[k].text :
                 h[k].text[i] \in ToSet(h[k - 1].text) \/ Told(h[k], h[k].text[i])
            /\ \A type \in {"secret", "pii"} : FoundOf(h[k - 1], type) => FoundOf(h[k], type)
        BY <1>7 DEF AppliedTo, Types
      <3>2. ASSUME NEW i \in DOMAIN h[k].text, h[k].text[i] \in ToSet(h[k - 1].text)
            PROVE  Told(h[k], h[k].text[i])
        <4>1. PICK j \in DOMAIN h[k - 1].text : h[k].text[i] = h[k - 1].text[j]
          BY <3>2 DEF ToSet
        <4>2. Told(h[k - 1], h[k].text[i])
          BY <2>2, <4>1
        <4> QED
          BY <3>1, <4>2 DEF Told
      <3> QED
        BY <3>1, <3>2
    <2> HIDE DEF S
    <2>3. 0..n \subseteq S
      BY <2>1, <2>2, UpToInduction
    <2> QED
      BY <2>3
  <1>10. r.text \in Seq(T) /\ r.findings \in Seq(Found)
    <2>1. r \in RedactStates(T)
      BY <1>4, <1>5 DEF B
    <2> HIDE DEF Found
    <2> QED
      BY <2>1 DEF RedactStates
  <1>11. ASSUME NEW name \in Applied(pii)
         PROVE  Clear(r.text, name)
    <2>1. PICK k \in 1..n : rules[k].name = name
      BY <1>1, <1>2, RulesTyped, Zenon
    <2>2. name \in Patterns
      BY DEF Applied, Patterns
    <2> QED
      BY <1>4, <1>8, <2>1, <2>2
  <1>12. ASSUME ~Says(text, Marks)
         PROVE  \A i \in DOMAIN r.text : Told(r, r.text[i])
    BY <1>4, <1>9, <1>12
  <1> QED
    BY <1>10, <1>11, <1>12 DEF r

-----------------------------------------------------------------------------
(* The classes and their ranks.                                            *)

LEMMA SensitivityRanks ==
  /\ \A c : SensitivityRank(c) \in 0..4
  /\ \A c : SensitivityRank(c) = 4 <=> c = "restricted"
  /\ \A c : SensitivityRank(c) = 3 <=> c = "confidential"
  <1> DEFINE s == Sensitivities
  <1>1. /\ DOMAIN s = 1..5
        /\ s[1] = "unknown" /\ s[2] = "public" /\ s[3] = "internal"
        /\ s[4] = "confidential" /\ s[5] = "restricted"
    BY DEF Sensitivities
  <1> HIDE DEF s
  <1> DEFINE at(c) == CHOOSE i \in DOMAIN s : s[i] = c
  <1>2. ASSUME NEW c
        PROVE  SensitivityRank(c) = IF \E i \in DOMAIN s : s[i] = c THEN at(c) - 1 ELSE 0
    BY DEF SensitivityRank, s
  <1>3. ASSUME NEW c, \E i \in DOMAIN s : s[i] = c
        PROVE  at(c) \in DOMAIN s /\ s[at(c)] = c
    BY <1>3
  <1> HIDE DEF at
  <1>4. ASSUME NEW c
        PROVE  SensitivityRank(c) \in 0..4
    BY <1>1, <1>2, <1>3
  <1>5. ASSUME NEW c
        PROVE  SensitivityRank(c) = 4 <=> c = "restricted"
    BY <1>1, <1>2, <1>3
  <1>6. ASSUME NEW c
        PROVE  SensitivityRank(c) = 3 <=> c = "confidential"
    BY <1>1, <1>2, <1>3
  <1> QED
    BY <1>4, <1>5, <1>6

LEMMA StricterFacts ==
  ASSUME NEW current, NEW type \in Types
  PROVE  LET c == Stricter(current, Implied(type))
         IN  /\ c \in {current, "restricted", "confidential"}
             /\ SensitivityRank(c) >= SensitivityRank(current)
             /\ type = "secret" => c = "restricted"
             /\ c \in {"restricted", "confidential"}
  <1>1. Implied(type) \in {"restricted", "confidential"}
        /\ (type = "secret" => Implied(type) = "restricted")
    BY DEF Implied
  <1> QED
    BY <1>1, SensitivityRanks DEF Stricter

(* The class after the findings is no looser than any of them asks for.    *)
LEMMA ClassifiedFacts ==
  ASSUME NEW existing, NEW findings \in Seq(Found)
  PROVE  LET c == ClassifiedSensitivity(existing, findings)
         IN  /\ SensitivityRank(c) >= SensitivityRank(existing)
             /\ \A f \in DOMAIN findings :
                  /\ findings[f].type = "secret" => c = "restricted"
                  /\ c \in {"restricted", "confidential"}
  <1>1. PICK n \in Nat : n = Len(findings)
    OBVIOUS
  <1>2. \A i \in 1..n : findings[i].type \in Types
    <2>1. \A f \in Found : f.type \in Types
      BY DEF Found
    <2> HIDE DEF Found
    <2> QED
      BY <1>1, <2>1
  <1> DEFINE B == {existing, "restricted", "confidential"}
             next(s, i) == Stricter(s, Implied(findings[i].type))
             step == [p \in (1..n) \X B |-> next(p[2], p[1])]
             Eq(f) == f = [i \in 0..n |-> IF i = 0 THEN existing ELSE next(f[i - 1], i)]
  <1>3. ClassifiedSensitivity(existing, findings) = (CHOOSE h : Eq(h))[n]
    BY <1>1, Zenon DEF ClassifiedSensitivity
  <1>4. \A i \in 1..n, s \in B :
          /\ next(s, i) \in B /\ SensitivityRank(next(s, i)) >= SensitivityRank(s)
          /\ next(s, i) \in {"restricted", "confidential"}
          /\ findings[i].type = "secret" => next(s, i) = "restricted"
    <2> SUFFICES ASSUME NEW i \in 1..n, NEW s \in B
                 PROVE  /\ next(s, i) \in B /\ SensitivityRank(next(s, i)) >= SensitivityRank(s)
                        /\ next(s, i) \in {"restricted", "confidential"}
                        /\ findings[i].type = "secret" => next(s, i) = "restricted"
      OBVIOUS
    <2>1. /\ next(s, i) \in {s, "restricted", "confidential"}
          /\ SensitivityRank(next(s, i)) >= SensitivityRank(s)
          /\ findings[i].type = "secret" => next(s, i) = "restricted"
          /\ next(s, i) \in {"restricted", "confidential"}
      BY <1>2, StricterFacts
    <2> HIDE DEF next
    <2> QED
      BY <2>1
  <1> HIDE DEF next
  <1>5. existing \in B /\ step \in [(1..n) \X B -> B]
        /\ \A i \in 1..n, s \in B : step[<<i, s>>] = next(s, i)
    <2> HIDE DEF B
    <2>1. step \in [(1..n) \X B -> B] /\ \A i \in 1..n, s \in B : step[<<i, s>>] = next(s, i)
      BY <1>4
    <2> QED
      BY <2>1 DEF B
  <1> HIDE DEF B, step
  <1>6. PICK f : IsFold(f, n, B, existing, step)
    BY <1>5, FoldDefined, Zenon
  <1>7. \A i \in 1..n : f[i] = next(f[i - 1], i)
    <2>1. \A i \in 1..n : i - 1 \in 0..n /\ f[i - 1] \in B /\ f[i] = step[<<i, f[i - 1]>>]
      BY <1>6 DEF IsFold
    <2> QED
      BY <1>5, <2>1
  <1>8. Eq(f)
    BY <1>6, <1>7 DEF IsFold
  <1>9. PICK h : h = CHOOSE g : Eq(g)
    OBVIOUS
  <1>10. Eq(h)
    <2> HIDE DEF Eq
    <2> QED
      BY <1>8, <1>9
  <1>11. /\ h = [i \in 0..n |-> h[i]] /\ h[0] = existing
         /\ \A i \in 1..n : h[i] = next(h[i - 1], i)
    <2> DEFINE then(i) == next(h[i - 1], i)
    <2>1. h = [i \in 0..n |-> IF i = 0 THEN existing ELSE then(i)]
      BY <1>10, Zenon
    <2> HIDE DEF then, Eq
    <2>2. /\ h = [i \in 0..n |-> h[i]] /\ h[0] = existing
          /\ \A i \in 1..n : h[i] = then(i)
      BY <2>1
    <2> QED
      BY <2>2 DEF then
  <1>12. h[n] = ClassifiedSensitivity(existing, findings)
    BY <1>3, <1>9, Zenon
  <1> HIDE DEF Eq
  <1>13. \A i \in 1..n : h[i - 1] \in B => h[i] = step[<<i, h[i - 1]>>]
    BY <1>5, <1>11
  <1>14. IsFold(h, n, B, existing, step)
    BY <1>5, <1>11, <1>13, FoldTyped, Zenon
  <1>15. \A i \in 0..n : h[i] \in B
    BY <1>14 DEF IsFold
  <1> DEFINE S == {k \in 0..n :
                     /\ SensitivityRank(h[k]) >= SensitivityRank(existing)
                     /\ \A j \in 1..k :
                          /\ findings[j].type = "secret" => h[k] = "restricted"
                          /\ h[k] \in {"restricted", "confidential"}}
  <1>16. 0..n \subseteq S
    <2>1. 0 \in S
      BY <1>11, SensitivityRanks
    <2>2. ASSUME NEW k \in 1..n, k - 1 \in S
          PROVE  k \in S
      <3>1. k - 1 \in 0..n /\ h[k - 1] \in B /\ h[k] = next(h[k - 1], k)
        BY <1>11, <1>15
      <3>2. /\ SensitivityRank(h[k]) >= SensitivityRank(h[k - 1])
            /\ h[k] \in {"restricted", "confidential"}
            /\ findings[k].type = "secret" => h[k] = "restricted"
        BY <1>4, <3>1
      <3>3. SensitivityRank(h[k]) >= SensitivityRank(existing)
        BY <2>2, <3>2, SensitivityRanks
      <3>4. ASSUME NEW j \in 1..k, findings[j].type = "secret"
            PROVE  h[k] = "restricted"
        <4>1. CASE j = k
          BY <3>2, <3>4, <4>1
        <4>2. CASE j # k
          <5>1. j \in 1..(k - 1)
            BY <4>2
          <5>2. h[k - 1] = "restricted"
            BY <2>2, <3>4, <5>1
          <5> QED
            BY <3>2, <5>2, SensitivityRanks
        <4> QED
          BY <4>1, <4>2
      <3> QED
        BY <3>2, <3>3, <3>4
    <2> HIDE DEF S
    <2> QED
      BY <2>1, <2>2, UpToInduction
  <1>17. n \in S /\ DOMAIN findings = 1..n
    BY <1>1, <1>16
  <1> QED
    BY <1>12, <1>17

-----------------------------------------------------------------------------
(* Stretches of a text, and its windows.                                   *)

(* s is a stretch of text that begins after its first a tokens.            *)
Within(s, text, a) ==
  /\ a \in Nat /\ a + Len(s) <= Len(text)
  /\ \A j \in 1..Len(s) : s[j] = text[a + j]

LEMMA StretchFacts ==
  ASSUME NEW T, NEW text \in Seq(T), NEW a \in Nat, NEW b \in Nat, a <= b, b <= Len(text)
  PROVE  LET s == SubSeq(text, a + 1, b)
         IN  s \in Seq(T) /\ Len(s) = b - a /\ Within(s, text, a)
  <1>1. Len(text) \in Nat /\ DOMAIN text = 1..Len(text) /\ \A i \in 1..Len(text) : text[i] \in T
    OBVIOUS
  <1> DEFINE s == SubSeq(text, a + 1, b)
  <1>2. s \in Seq(T) /\ Len(s) = b - a
    BY <1>1
  <1>3. \A j \in 1..(b - a) : s[j] = text[a + j]
    BY <1>1
  <1> HIDE DEF s
  <1> QED
    BY <1>1, <1>2, <1>3 DEF Within, s

LEMMA EqualStretches ==
  ASSUME NEW T, NEW s \in Seq(T), NEW t \in Seq(T), Len(s) = Len(t),
         \A j \in 1..Len(s) : s[j] = t[j]
  PROVE  s = t
  OBVIOUS

(* From the first to the last of some numbers.                             *)
LEMMA Bounds ==
  ASSUME NEW n \in Nat, NEW S \in SUBSET (1..n), S # {}
  PROVE  /\ Min(S) \in S /\ Max(S) \in S
         /\ \A i \in S : Min(S) <= i /\ i <= Max(S)
  <1>1. \E x \in S : \A y \in S : x <= y
    <2>1. S \subseteq Nat
      OBVIOUS
    <2> QED
      BY <2>1, LeastNumber
  <1>2. Min(S) \in S /\ \A i \in S : Min(S) <= i
    BY <1>1 DEF Min
  <1>3. \E x \in S : \A y \in S : x >= y
    <2> DEFINE D == {m \in 0..n : n - m \in S}
    <2>1. D \subseteq Nat /\ D # {}
      <3>1. PICK x \in S : TRUE
        OBVIOUS
      <3>2. x \in 1..n /\ n - (n - x) = x /\ n - x \in 0..n
        OBVIOUS
      <3>3. n - x \in D
        BY <3>2
      <3>4. D \subseteq Nat
        OBVIOUS
      <3> HIDE DEF D
      <3> QED
        BY <3>3, <3>4, Zenon
    <2>2. PICK d \in D : \A e \in D : d <= e
      <3> HIDE DEF D
      <3> QED
        BY <2>1, LeastNumber
    <2>3. ASSUME NEW y \in S
          PROVE  n - d >= y
      <3>1. y \in 1..n /\ n - (n - y) = y /\ n - y \in 0..n
        OBVIOUS
      <3>2. d <= n - y
        BY <2>2, <3>1
      <3> QED
        BY <3>1, <3>2
    <2>4. n - d \in S
      OBVIOUS
    <2> QED
      BY <2>3, <2>4
  <1>4. Max(S) \in S /\ \A i \in S : Max(S) >= i
    BY <1>3 DEF Max
  <1> QED
    BY <1>2, <1>4

BlankText(text) == \A i \in DOMAIN text : text[i] = Space

(* What is left of a text between the first and the last token that is no  *)
(* space.                                                                  *)
StripsTo(text, s, p, q) ==
  /\ p \in 1..Len(text) /\ q \in 1..Len(text) /\ p <= q
  /\ text[p] # Space /\ text[q] # Space
  /\ \A i \in 1..Len(text) : text[i] # Space => p <= i /\ i <= q
  /\ Len(s) = q - p + 1 /\ Within(s, text, p - 1)

LEMMA StripFacts ==
  ASSUME NEW T, NEW text \in Seq(T)
  PROVE  LET s == Strip(text)
         IN  /\ s \in Seq(T) /\ Len(s) <= Len(text)
             /\ BlankText(text) => s = <<>>
             /\ ~BlankText(text) => \E p, q \in 1..Len(text) : StripsTo(text, s, p, q)
  <1> DEFINE solid == {i \in DOMAIN text : text[i] # Space}
             s == Strip(text)
  <1>1. PICK n \in Nat : n = Len(text) /\ DOMAIN text = 1..n
    OBVIOUS
  <1>2. solid = {} <=> BlankText(text)
    BY DEF BlankText
  <1>3. CASE solid = {}
    <2>1. s = <<>> /\ <<>> \in Seq(T) /\ Len(<<>>) = 0
      BY <1>3, EmptySeq DEF Strip
    <2> HIDE DEF s
    <2> QED
      BY <1>1, <1>2, <1>3, <2>1 DEF s
  <1>4. CASE solid # {}
    <2> DEFINE p == Min(solid)
               q == Max(solid)
    <2>1. s = SubSeq(text, p, q)
      BY <1>4 DEF Strip
    <2>2. solid \in SUBSET (1..n)
      BY <1>1
    <2>3. p \in solid /\ q \in solid /\ \A i \in solid : p <= i /\ i <= q
      <3> HIDE DEF solid
      <3> QED
        BY <1>4, <2>2, Bounds
    <2> HIDE DEF p, q, s
    <2>4. /\ p \in 1..n /\ q \in 1..n /\ p <= q /\ text[p] # Space /\ text[q] # Space
          /\ \A i \in 1..n : text[i] # Space => p <= i /\ i <= q
      BY <1>1, <2>3
    <2> HIDE DEF solid
    <2>5. p - 1 \in Nat /\ p - 1 + 1 = p /\ p - 1 <= q /\ q \in Nat /\ q <= Len(text)
      BY <1>1, <2>4
    <2>6. s \in Seq(T) /\ Len(s) = q - (p - 1) /\ Within(s, text, p - 1)
      BY <2>1, <2>5, StretchFacts
    <2>7. Len(s) = q - p + 1 /\ Len(s) <= n
      BY <2>4, <2>6
    <2>8. StripsTo(text, s, p, q)
      BY <1>1, <2>4, <2>6, <2>7 DEF StripsTo
    <2> QED
      BY <1>1, <1>2, <1>4, <2>4, <2>6, <2>7, <2>8 DEF s
  <1> QED
    BY <1>3, <1>4

Sizes == [size: Nat \ {0}, overlap: Nat]

LEMMA StepsUp ==
  ASSUME NEW i \in Nat \ {0}, NEW k \in Nat \ {0}
  PROVE  /\ (i - 1) * k \in Nat /\ (i - 1) * k >= i - 1
         /\ i > 1 => (i - 1) * k = (i - 1 - 1) * k + k
  <1>1. PICK m \in Nat : m = i - 1
    OBVIOUS
  <1>2. PICK j \in Nat : k = j + 1
    <2>1. k - 1 \in Nat /\ k = (k - 1) + 1
      OBVIOUS
    <2> QED
      BY <2>1
  <1>3. m * k = m * j + m /\ m * j \in Nat
    BY <1>2
  <1>4. m * k \in Nat /\ m * k >= m
    BY <1>3
  <1>5. (m - 1) * k + k = m * k
    OBVIOUS
  <1> QED
    BY <1>1, <1>4, <1>5

LEMMA OverlapTyped ==
  ASSUME NEW settings \in Sizes
  PROVE  /\ settings.size \in Nat \ {0} /\ Overlap(settings) \in Nat
         /\ Overlap(settings) < settings.size
         /\ settings.size - Overlap(settings) \in Nat \ {0}
  BY DEF Sizes, Overlap, AtMost

LEMMA StartFacts ==
  ASSUME NEW settings \in Sizes, NEW i \in Nat \ {0}
  PROVE  /\ Start(settings, i) \in Nat /\ Start(settings, i) >= i - 1
         /\ Start(settings, 1) = 0
         /\ i > 1 => Start(settings, i)
                       = Start(settings, i - 1) + settings.size - Overlap(settings)
  <1>1. PICK k \in Nat \ {0} : k = settings.size - Overlap(settings)
    BY OverlapTyped
  <1>2. \A j : Start(settings, j) = (j - 1) * k
    BY <1>1 DEF Start
  <1>3. Start(settings, 1) = 0
    BY <1>2
  <1>4. Start(settings, i) = (i - 1) * k /\ Start(settings, i - 1) = (i - 1 - 1) * k
    BY <1>2
  <1>5. /\ Start(settings, i) \in Nat /\ Start(settings, i) >= i - 1
        /\ i > 1 => Start(settings, i) = Start(settings, i - 1) + k
    BY <1>4, StepsUp
  <1>6. \A x \in Int : x + settings.size - Overlap(settings) = x + k
    BY <1>1, OverlapTyped
  <1>7. i > 1 => Start(settings, i - 1) \in Int
    BY <1>4
  <1> QED
    BY <1>3, <1>5, <1>6, <1>7

LEMMA EndFacts ==
  ASSUME NEW text, Len(text) \in Nat, NEW settings \in Sizes, NEW i \in Nat \ {0}
  PROVE  LET e == End(text, settings, i)
         IN  /\ e \in Nat /\ e <= Len(text) /\ e <= Start(settings, i) + settings.size
             /\ e = Len(text) \/ e = Start(settings, i) + settings.size
  <1>1. PICK most \in Nat : most = Len(text)
    OBVIOUS
  <1>2. PICK reach \in Nat : reach = Start(settings, i) + settings.size
    <2>1. Start(settings, i) \in Nat /\ settings.size \in Nat
      BY StartFacts, OverlapTyped
    <2> QED
      BY <2>1
  <1>3. End(text, settings, i) = IF reach > most THEN most ELSE reach
    BY <1>1, <1>2, Zenon DEF End, AtMost
  <1> QED
    BY <1>1, <1>2, <1>3

LEMMA CountFacts ==
  ASSUME NEW text, Len(text) \in Nat \ {0}, NEW settings \in Sizes
  PROVE  LET n == WindowCount(text, settings)
         IN  /\ n \in 1..Len(text) /\ End(text, settings, n) = Len(text)
             /\ \A i \in 1..(n - 1) : End(text, settings, i) < Len(text)
  <1> DEFINE L == Len(text)
             Final(n) == /\ End(text, settings, n) = L
                         /\ \A i \in 1..(n - 1) : End(text, settings, i) < L
             D == {n \in 1..L : End(text, settings, n) = L}
  <1>1. L \in D
    <2>1. Start(settings, L) \in Nat /\ Start(settings, L) >= L - 1
      BY StartFacts
    <2>2. Start(settings, L) + settings.size >= L
      BY <2>1, OverlapTyped
    <2> QED
      BY <2>1, <2>2, OverlapTyped DEF End, AtMost
  <1>2. D \subseteq Nat /\ D # {}
    <2>1. D \subseteq Nat
      OBVIOUS
    <2> HIDE DEF D
    <2> QED
      BY <1>1, <2>1, Zenon
  <1>3. PICK n \in D : \A m \in D : n <= m
    <2> HIDE DEF D
    <2> QED
      BY <1>2, LeastNumber
  <1>4. n \in 1..L /\ Final(n)
    <2>1. \A i \in 1..(n - 1) : i \in 1..L /\ i \notin D /\ i \in Nat \ {0}
      BY <1>3
    <2>2. \A i \in 1..(n - 1) : End(text, settings, i) # L
      BY <2>1
    <2>3. \A i \in 1..(n - 1) : End(text, settings, i) \in Nat /\ End(text, settings, i) <= L
      BY <2>1, EndFacts
    <2> QED
      BY <2>2, <2>3
  <1>5. WindowCount(text, settings) = CHOOSE m \in 1..L : Final(m)
    BY DEF WindowCount
  <1> HIDE DEF Final
  <1>6. WindowCount(text, settings) \in 1..L /\ Final(WindowCount(text, settings))
    BY <1>4, <1>5
  <1> QED
    BY <1>6 DEF Final

LEMMA WindowFacts ==
  ASSUME NEW T, NEW text \in Seq(T), Len(text) > 0, NEW settings \in Sizes,
         NEW i \in 1..WindowCount(text, settings)
  PROVE  /\ Start(settings, i) \in Nat /\ End(text, settings, i) \in Nat
         /\ Start(settings, i) <= End(text, settings, i) /\ End(text, settings, i) <= Len(text)
         /\ End(text, settings, i) - Start(settings, i) <= settings.size
         /\ Window(text, settings, i) \in Seq(T)
         /\ Len(Window(text, settings, i)) <= settings.size
  <1>1. Len(text) \in Nat \ {0}
    OBVIOUS
  <1>2. /\ WindowCount(text, settings) \in 1..Len(text)
        /\ \A j \in 1..(WindowCount(text, settings) - 1) : End(text, settings, j) < Len(text)
    BY <1>1, CountFacts
  <1>3. i \in Nat \ {0}
    BY <1>2
  <1>4. Start(settings, i) \in Nat /\ Start(settings, 1) = 0
        /\ (i > 1 => Start(settings, i)
                       = Start(settings, i - 1) + settings.size - Overlap(settings))
    BY <1>3, StartFacts
  <1> DEFINE e == End(text, settings, i)
             s == Start(settings, i)
  <1>5. /\ e \in Nat /\ e <= Len(text) /\ e <= s + settings.size
        /\ e = Len(text) \/ e = s + settings.size
    BY <1>1, <1>3, EndFacts
  <1>6. s < Len(text)
    <2>1. CASE i = 1
      BY <1>1, <1>4, <2>1
    <2>2. CASE i # 1
      <3>1. i > 1 /\ i - 1 \in Nat \ {0} /\ i - 1 \in 1..(WindowCount(text, settings) - 1)
        BY <1>2, <1>3, <2>2
      <3>2. End(text, settings, i - 1) < Len(text)
        BY <1>2, <3>1
      <3>3. /\ Start(settings, i - 1) \in Nat /\ End(text, settings, i - 1) \in Nat
            /\ \/ End(text, settings, i - 1) = Len(text)
               \/ End(text, settings, i - 1) = Start(settings, i - 1) + settings.size
        BY <1>1, <3>1, EndFacts, StartFacts
      <3> QED
        BY <1>1, <1>4, <3>1, <3>2, <3>3, OverlapTyped
    <2> QED
      BY <2>1, <2>2
  <1>7. s <= e
    BY <1>1, <1>4, <1>5, <1>6, OverlapTyped
  <1>8. e - s <= settings.size
    BY <1>4, <1>5, OverlapTyped
  <1> DEFINE cut == SubSeq(text, s + 1, e)
  <1>9. cut \in Seq(T) /\ Len(cut) = e - s
    <2> HIDE DEF e, s
    <2> QED
      BY <1>4, <1>5, <1>7, StretchFacts DEF s
  <1>10. Window(text, settings, i) = Strip(cut)
    BY DEF Window
  <1> HIDE DEF cut, e, s
  <1>11. Strip(cut) \in Seq(T) /\ Len(Strip(cut)) <= Len(cut)
    BY <1>9, StripFacts
  <1>12. Len(Strip(cut)) \in Nat /\ e \in Nat /\ s \in Nat
    BY <1>4, <1>5, <1>11 DEF s
  <1> QED
    BY <1>4, <1>5, <1>7, <1>8, <1>9, <1>10, <1>11, <1>12, OverlapTyped DEF e, s

LEMMA SplitTyped ==
  ASSUME NEW T, NEW whole \in Seq(T), NEW settings \in Sizes
  PROVE  LET parts == SplitText(whole, settings)
             text  == Strip(whole)
         IN  /\ parts \in Seq(Seq(T)) /\ DOMAIN parts = 1..Len(parts)
             /\ Len(text) <= settings.size => parts = <<text>>
             /\ Len(text) > settings.size =>
                  /\ Len(parts) = WindowCount(text, settings)
                  /\ \A i \in 1..Len(parts) : parts[i] = Window(text, settings, i)
  <1> DEFINE parts == SplitText(whole, settings)
  <1>1. PICK text \in Seq(T) : text = Strip(whole)
    BY StripFacts
  <1>2. PICK size \in Nat \ {0} : size = settings.size
    BY OverlapTyped
  <1>3. Len(text) \in Nat
    OBVIOUS
  <1>4. CASE Len(text) <= size
    <2>1. parts = <<text>>
      BY <1>1, <1>2, <1>4 DEF SplitText
    <2>2. <<text>> \in Seq(Seq(T)) /\ DOMAIN <<text>> = 1..Len(<<text>>)
      OBVIOUS
    <2> HIDE DEF parts
    <2> QED
      BY <1>1, <1>2, <1>3, <1>4, <2>1, <2>2 DEF parts
  <1>5. CASE ~(Len(text) <= size)
    <2>1. parts = Windows(text, settings)
      BY <1>1, <1>2, <1>5 DEF SplitText
    <2>2. PICK n \in Nat : n = WindowCount(text, settings)
      BY <1>2, <1>3, <1>5, CountFacts
    <2>3. parts = [i \in 1..n |-> Window(text, settings, i)]
      BY <2>1, <2>2 DEF Windows
    <2>4. Len(text) > 0
      BY <1>2, <1>3, <1>5
    <2>5. \A i \in 1..n : Window(text, settings, i) \in Seq(T)
      BY <2>2, <2>4, WindowFacts
    <2> HIDE DEF parts
    <2>6. parts \in [1..n -> Seq(T)]
      BY <2>3, <2>5
    <2>7. parts \in Seq(Seq(T))
      BY <2>6, ListedSequence
    <2>8. Len(parts) = n /\ DOMAIN parts = 1..n
      BY <2>6, <2>7
    <2>9. \A i \in 1..n : parts[i] = Window(text, settings, i)
      BY <2>3
    <2> QED
      BY <1>1, <1>2, <1>3, <1>5, <2>2, <2>7, <2>8, <2>9 DEF parts
  <1> QED
    BY <1>4, <1>5

LEMMA StretchOfStretch ==
  ASSUME NEW s, NEW t, NEW u, NEW a, NEW b, Within(s, t, a), Within(t, u, b),
         Len(s) \in Nat, Len(t) \in Nat, Len(u) \in Nat
  PROVE  Within(s, u, b + a)
  <1>1. a \in Nat /\ b \in Nat /\ b + a \in Nat /\ a + Len(s) <= Len(t) /\ b + Len(t) <= Len(u)
    BY DEF Within
  <1>2. ASSUME NEW j \in 1..Len(s)
        PROVE  s[j] = u[(b + a) + j]
    <2>1. a + j \in 1..Len(t) /\ b + (a + j) = (b + a) + j
      BY <1>1
    <2>2. s[j] = t[a + j] /\ t[a + j] = u[b + (a + j)]
      BY <2>1 DEF Within
    <2> QED
      BY <2>1, <2>2
  <1>3. (b + a) + Len(s) <= Len(u)
    BY <1>1
  <1> QED
    BY <1>1, <1>2, <1>3 DEF Within

LEMMA StripWithin ==
  ASSUME NEW T, NEW text \in Seq(T)
  PROVE  \E a \in Nat : Within(Strip(text), text, a)
  <1>1. Len(text) \in Nat
    OBVIOUS
  <1>2. CASE BlankText(text)
    <2>1. Strip(text) = <<>>
      BY <1>2, StripFacts
    <2>2. Within(<<>>, text, 0)
      BY <1>1 DEF Within
    <2> QED
      BY <2>1, <2>2
  <1>3. CASE ~BlankText(text)
    <2>1. PICK p, q \in 1..Len(text) : StripsTo(text, Strip(text), p, q)
      BY <1>3, StripFacts
    <2>2. p - 1 \in Nat /\ Within(Strip(text), text, p - 1)
      BY <1>1, <2>1 DEF StripsTo
    <2> QED
      BY <2>2
  <1> QED
    BY <1>2, <1>3

LEMMA PartsWithin ==
  ASSUME NEW T, NEW whole \in Seq(T), NEW settings \in Sizes,
         NEW i \in 1..Len(SplitText(whole, settings))
  PROVE  \E a \in Nat : Within(SplitText(whole, settings)[i], whole, a)
  <1>1. PICK parts : parts = SplitText(whole, settings)
    OBVIOUS
  <1>2. PICK text \in Seq(T) : text = Strip(whole)
    BY StripFacts
  <1>3. PICK b \in Nat : Within(text, whole, b)
    BY <1>2, StripWithin
  <1>4. /\ parts \in Seq(Seq(T)) /\ DOMAIN parts = 1..Len(parts)
        /\ Len(text) <= settings.size => parts = <<text>>
        /\ Len(text) > settings.size =>
             /\ Len(parts) = WindowCount(text, settings)
             /\ \A k \in 1..Len(parts) : parts[k] = Window(text, settings, k)
    <2>1. /\ parts \in Seq(Seq(T)) /\ DOMAIN parts = 1..Len(parts)
      BY <1>1, SplitTyped
    <2>2. Len(text) <= settings.size => parts = <<text>>
      BY <1>1, <1>2, SplitTyped
    <2>3. Len(text) > settings.size =>
             /\ Len(parts) = WindowCount(text, settings)
             /\ \A k \in 1..Len(parts) : parts[k] = Window(text, settings, k)
      BY <1>1, <1>2, SplitTyped
    <2> QED
      BY <2>1, <2>2, <2>3
  <1>5. Len(text) \in Nat /\ Len(whole) \in Nat /\ settings.size \in Nat /\ settings.size > 0
    BY OverlapTyped
  <1>6. CASE Len(text) <= settings.size
    <2>1. parts = <<text>>
      BY <1>4, <1>6
    <2>2. Len(parts) = 1 /\ parts[1] = text
      BY <2>1
    <2>3. i = 1
      BY <1>1, <2>2
    <2> QED
      BY <1>1, <1>3, <2>2, <2>3
  <1>7. CASE Len(text) > settings.size
    <2>1. i \in 1..WindowCount(text, settings) /\ parts[i] = Window(text, settings, i)
      BY <1>1, <1>4, <1>7
    <2>2. Len(text) > 0
      BY <1>5, <1>7
    <2> DEFINE p == Start(settings, i)
               q == End(text, settings, i)
               cut == SubSeq(text, p + 1, q)
    <2>3. p \in Nat /\ q \in Nat /\ p <= q /\ q <= Len(text)
      BY <2>1, <2>2, WindowFacts
    <2> HIDE DEF p, q
    <2>4. cut \in Seq(T) /\ Within(cut, text, p)
      BY <2>3, StretchFacts
    <2>5. Window(text, settings, i) = Strip(cut)
      BY DEF Window, p, q
    <2> HIDE DEF cut
    <2>6. PICK a \in Nat : Within(Strip(cut), cut, a)
      BY <2>4, StripWithin
    <2>7. Len(cut) \in Nat /\ Len(Strip(cut)) \in Nat
      <3>1. Strip(cut) \in Seq(T)
        BY <2>4, StripFacts
      <3> QED
        BY <2>4, <3>1
    <2>8. Within(Strip(cut), text, p + a)
      BY <1>5, <2>4, <2>6, <2>7, StretchOfStretch
    <2>9. Within(Strip(cut), whole, b + (p + a))
      BY <1>3, <1>5, <2>7, <2>8, StretchOfStretch
    <2>10. b + (p + a) \in Nat
      BY <2>3
    <2> QED
      BY <1>1, <2>1, <2>5, <2>9, <2>10
  <1> QED
    BY <1>5, <1>6, <1>7

KeptIn(stretch, part) ==
  \E m \in 0..(Len(part) - Len(stretch)) : SubSeq(part, m + 1, m + Len(stretch)) = stretch

(* What a window keeps of a text that neither begins nor ends with a       *)
(* space.                                                                  *)
LEMMA StretchKept ==
  ASSUME NEW T, NEW text \in Seq(T), NEW a \in Nat, NEW b \in Nat,
         NEW c \in Nat, NEW d \in Nat, c <= a, a <= b, b <= d, d <= Len(text)
  PROVE  KeptIn(Strip(SubSeq(text, a + 1, b)), Strip(SubSeq(text, c + 1, d)))
  <1> DEFINE x == SubSeq(text, a + 1, b)
             y == SubSeq(text, c + 1, d)
             s == Strip(x)
             p == Strip(y)
  <1>1. Len(text) \in Nat
    OBVIOUS
  <1>2. /\ x \in Seq(T) /\ Len(x) = b - a /\ Within(x, text, a)
        /\ y \in Seq(T) /\ Len(y) = d - c /\ Within(y, text, c)
    <2>1. b <= Len(text) /\ c <= d
      BY <1>1
    <2> QED
      BY <2>1, StretchFacts
  <1> HIDE DEF x, y
  <1>3. /\ s \in Seq(T) /\ (BlankText(x) => s = <<>>)
        /\ ~BlankText(x) => \E i, j \in 1..Len(x) : StripsTo(x, s, i, j)
    BY <1>2, StripFacts
  <1>4. /\ p \in Seq(T)
        /\ ~BlankText(y) => \E i, j \in 1..Len(y) : StripsTo(y, p, i, j)
    BY <1>2, StripFacts
  <1> HIDE DEF s, p
  <1>5. CASE BlankText(x)
    <2>1. s = <<>> /\ Len(s) = 0 /\ Len(p) \in Nat
      BY <1>3, <1>4, <1>5
    <2>2. SubSeq(p, 0 + 1, 0 + Len(s)) = s /\ 0 \in 0..(Len(p) - Len(s))
      BY <1>4, <2>1
    <2> QED
      BY <2>2 DEF KeptIn, s, p, x, y
  <1>6. CASE ~BlankText(x)
    <2>1. PICK i, j \in 1..Len(x) : StripsTo(x, s, i, j)
      BY <1>3, <1>6
    <2>2. /\ i \in Nat \ {0} /\ j \in Nat \ {0} /\ i <= j /\ j <= b - a
          /\ x[i] # Space /\ x[j] # Space /\ Len(s) = j - i + 1
          /\ \A l \in 1..Len(s) : s[l] = x[i - 1 + l]
      BY <1>2, <2>1 DEF StripsTo, Within
    <2> DEFINE e == a - c
    <2>3. e \in Nat /\ e + (b - a) <= d - c
      OBVIOUS
    <2>4. \A l \in 1..(b - a) : x[l] = y[e + l]
      <3> SUFFICES ASSUME NEW l \in 1..(b - a) PROVE x[l] = y[e + l]
        OBVIOUS
      <3>1. x[l] = text[a + l]
        BY <1>2 DEF Within
      <3>2. e + l \in 1..(d - c)
        BY <2>3
      <3>3. y[e + l] = text[c + (e + l)]
        BY <1>2, <3>2 DEF Within
      <3>4. c + (e + l) = a + l
        OBVIOUS
      <3> QED
        BY <3>1, <3>3, <3>4
    <2> HIDE DEF e
    <2>5. y[e + i] # Space /\ y[e + j] # Space /\ e + i \in 1..(d - c) /\ e + j \in 1..(d - c)
      BY <2>2, <2>3, <2>4
    <2>6. DOMAIN y = 1..(d - c)
      BY <1>2
    <2>7. ~BlankText(y)
      BY <2>5, <2>6 DEF BlankText
    <2>8. PICK u, v \in 1..Len(y) : StripsTo(y, p, u, v)
      BY <1>4, <2>7
    <2>9. /\ u \in Nat \ {0} /\ v \in Nat \ {0} /\ u <= e + i /\ e + j <= v /\ Len(p) = v - u + 1
          /\ \A l \in 1..Len(p) : p[l] = y[u - 1 + l]
      <3>1. /\ u \in 1..(d - c) /\ v \in 1..(d - c)
            /\ \A l \in 1..(d - c) : y[l] # Space => u <= l /\ l <= v
            /\ Len(p) = v - u + 1 /\ \A l \in 1..Len(p) : p[l] = y[u - 1 + l]
        BY <1>2, <2>8, Zenon DEF StripsTo, Within
      <3>2. u <= e + i /\ e + j <= v
        BY <2>5, <3>1
      <3>3. u \in Nat \ {0} /\ v \in Nat \ {0}
        BY <3>1
      <3> QED
        BY <3>1, <3>2, <3>3, Zenon
    <2> DEFINE m == e + i - u
    <2>10. m \in Nat /\ m + Len(s) <= Len(p) /\ m \in 0..(Len(p) - Len(s))
      <3>1. m \in Nat /\ m + (j - i + 1) <= v - u + 1 /\ j - i + 1 \in Nat
        <4>1. /\ i \in Nat /\ j \in Nat /\ u \in Nat /\ v \in Nat /\ e \in Nat
              /\ i <= j /\ u <= e + i /\ e + j <= v
          BY <2>2, <2>3, <2>9
        <4> QED
          BY <4>1
      <3>2. Len(s) = j - i + 1 /\ Len(p) = v - u + 1
        BY <2>2, <2>9, Zenon
      <3> HIDE DEF m
      <3> QED
        BY <3>1, <3>2
    <2>11. \A l \in 1..Len(s) : p[m + l] = s[l]
      <3> SUFFICES ASSUME NEW l \in 1..Len(s) PROVE p[m + l] = s[l]
        OBVIOUS
      <3>1. s[l] = x[i - 1 + l] /\ i - 1 + l \in 1..(b - a)
        BY <2>2
      <3>2. x[i - 1 + l] = y[e + (i - 1 + l)]
        BY <2>4, <3>1
      <3>3. m + l \in 1..Len(p)
        <4>1. Len(s) \in Nat /\ m \in Nat /\ Len(p) \in Nat
          BY <1>3, <1>4, <2>10
        <4> HIDE DEF m
        <4> QED
          BY <2>10, <4>1
      <3>4. p[m + l] = y[u - 1 + (m + l)]
        BY <2>9, <3>3
      <3>5. u - 1 + (m + l) = e + (i - 1 + l)
        <4>1. l \in Int /\ u \in Int /\ m \in Int /\ e \in Int /\ i \in Int
          BY <2>2, <2>3, <2>9
        <4> QED
          BY <2>9, <4>1
      <3> QED
        BY <3>1, <3>2, <3>4, <3>5
    <2> HIDE DEF m
    <2>12. SubSeq(p, m + 1, m + Len(s)) = s
      <3>1. m + Len(s) \in Nat /\ Len(s) \in Nat /\ m <= m + Len(s)
        <4>1. PICK size \in Nat : size = Len(s)
          <5> HIDE DEF s
          <5> QED
            BY <1>3
        <4>2. m + size \in Nat /\ m <= m + size
          BY <2>10, <4>1
        <4> QED
          BY <4>1, <4>2, Zenon
      <3> DEFINE w == SubSeq(p, m + 1, m + Len(s))
      <3>2. w \in Seq(T) /\ Len(w) = m + Len(s) - m /\ Within(w, p, m)
        BY <1>4, <2>10, <3>1, StretchFacts
      <3> HIDE DEF w
      <3>3. Len(w) = Len(s) /\ \A l \in 1..Len(s) : w[l] = s[l]
        BY <2>10, <2>11, <3>1, <3>2 DEF Within
      <3>4. w = s
        BY <1>3, <3>2, <3>3, EqualStretches
      <3> QED
        BY <3>4 DEF w
    <2> QED
      BY <2>10, <2>12 DEF KeptIn, s, p, x, y
  <1> QED
    BY <1>5, <1>6

LEMMA PrefixIs ==
  ASSUME NEW T, NEW s \in Seq(T), NEW t \in Seq(T), Within(s, t, 0)
  PROVE  IsPrefix(s, t)
  <1>1. Len(s) \in Nat /\ Len(t) \in Nat /\ Len(s) <= Len(t)
        /\ \A j \in 1..Len(s) : s[j] = t[j]
    BY DEF Within
  <1>2. SubSeq(s, 1, Len(s)) = SubSeq(t, 1, Len(s))
    BY <1>1
  <1> QED
    BY <1>1, <1>2 DEF IsPrefix

LEMMA SuffixIs ==
  ASSUME NEW T, NEW s \in Seq(T), NEW t \in Seq(T), NEW a \in Nat, Within(s, t, a),
         a + Len(s) = Len(t)
  PROVE  IsSuffix(s, t)
  <1> DEFINE n == Len(s)
             m == Len(t)
             x == Reverse(s)
             y == Reverse(t)
  <1>1. n \in Nat /\ m \in Nat /\ n <= m /\ m = a + n
    OBVIOUS
  <1>2. \A j \in 1..n : s[j] = t[a + j]
    BY DEF Within
  <1>3. x = [i \in 1..n |-> s[(n - i) + 1]] /\ y = [i \in 1..m |-> t[(m - i) + 1]]
    BY DEF Reverse
  <1>4. x \in Seq(T) /\ Len(x) = n
    <2>1. \A i \in 1..n : s[(n - i) + 1] \in T
      BY <1>1
    <2> HIDE DEF n, x
    <2>2. x \in [1..n -> T]
      BY <1>3, <2>1
    <2> QED
      BY <1>1, <2>2, ListedSequence
  <1>5. y \in Seq(T) /\ Len(y) = m
    <2>1. \A i \in 1..m : t[(m - i) + 1] \in T
      BY <1>1
    <2> HIDE DEF m, y
    <2>2. y \in [1..m -> T]
      BY <1>3, <2>1
    <2> QED
      BY <1>1, <2>2, ListedSequence
  <1>6. \A j \in 1..n : x[j] = y[j]
    <2> SUFFICES ASSUME NEW j \in 1..n PROVE x[j] = y[j]
      OBVIOUS
    <2> HIDE DEF x, y
    <2>1. x[j] = s[(n - j) + 1] /\ y[j] = t[(m - j) + 1]
      BY <1>1, <1>3
    <2>2. (n - j) + 1 \in 1..n /\ a + ((n - j) + 1) = (m - j) + 1
      BY <1>1
    <2> HIDE DEF n, m
    <2> QED
      BY <1>2, <2>1, <2>2
  <1> HIDE DEF x, y, n, m
  <1>7. Within(x, y, 0)
    BY <1>1, <1>4, <1>5, <1>6 DEF Within
  <1> QED
    BY <1>4, <1>5, <1>7, PrefixIs DEF IsSuffix, x, y

(* The windows of a text cover it.                                         *)
Covers(text, parts, size, over) ==
  /\ \A p \in DOMAIN parts : Len(parts[p]) <= size
  /\ Len(parts) = 1 <=> Len(text) <= size
  /\ IsPrefix(parts[1], text) /\ IsSuffix(Last(parts), text)
  /\ \A n \in 1..(Len(text) - (over + 1) + 1) :
       LET stretch == Strip(SubSeq(text, n, n + (over + 1) - 1))
       IN  \E p \in DOMAIN parts : KeptIn(stretch, parts[p])

(* A stripped text has no space at its ends.                               *)
LEMMA EndsSolid ==
  ASSUME NEW T, NEW whole \in Seq(T), Len(Strip(whole)) > 0
  PROVE  Strip(whole)[1] # Space /\ Strip(whole)[Len(Strip(whole))] # Space
  <1>1. PICK s : s = Strip(whole)
    OBVIOUS
  <1>2. s # <<>>
    BY <1>1
  <1>3. ~BlankText(whole)
    BY <1>1, <1>2, StripFacts, Zenon
  <1>4. PICK p, q \in 1..Len(whole) : StripsTo(whole, s, p, q)
    BY <1>1, <1>3, StripFacts, Zenon
  <1>5. /\ p \in Nat \ {0} /\ q \in Nat /\ p <= q /\ Len(s) = q - p + 1
        /\ whole[p] # Space /\ whole[q] # Space
        /\ \A j \in 1..Len(s) : s[j] = whole[p - 1 + j]
    BY <1>4 DEF StripsTo, Within
  <1>6. 1 \in 1..Len(s) /\ Len(s) \in 1..Len(s) /\ p - 1 + 1 = p /\ p - 1 + Len(s) = q
    BY <1>5
  <1> QED
    BY <1>1, <1>5, <1>6

LEMMA WholeStretch ==
  ASSUME NEW T, NEW whole \in Seq(T)
  PROVE  Strip(SubSeq(Strip(whole), 0 + 1, Len(Strip(whole)))) = Strip(whole)
  <1>1. PICK s \in Seq(T) : s = Strip(whole)
    BY StripFacts
  <1>2. Len(s) \in Nat
    OBVIOUS
  <1>3. SubSeq(s, 0 + 1, Len(s)) = s
    OBVIOUS
  <1>4. CASE Len(s) = 0
    <2>1. s = <<>>
      BY <1>4
    <2>2. Strip(<<>>) = <<>>
      BY DEF Strip
    <2> QED
      BY <1>1, <1>3, <2>1, <2>2
  <1>5. CASE Len(s) > 0
    <2>1. s[1] # Space /\ s[Len(s)] # Space
      BY <1>1, <1>5, EndsSolid
    <2>2. 1 \in DOMAIN s
      BY <1>5
    <2>3. ~BlankText(s)
      BY <2>1, <2>2 DEF BlankText
    <2>4. PICK p, q \in 1..Len(s) : StripsTo(s, Strip(s), p, q)
      BY <2>3, StripFacts, Zenon
    <2>5. p = 1 /\ q = Len(s)
      BY <1>2, <1>5, <2>1, <2>4 DEF StripsTo
    <2>6. PICK t \in Seq(T) : t = Strip(s)
      BY StripFacts
    <2>7. Len(t) = Len(s) /\ \A j \in 1..Len(t) : t[j] = s[j]
      BY <1>2, <2>4, <2>5, <2>6 DEF StripsTo, Within
    <2>8. t = s
      BY <2>7, EqualStretches
    <2> QED
      BY <1>1, <1>3, <2>6, <2>8
  <1> QED
    BY <1>2, <1>4, <1>5

LEMMA WindowEnds ==
  ASSUME NEW T, NEW text \in Seq(T), NEW a \in Nat, NEW b \in Nat, a < b, b <= Len(text)
  PROVE  LET part == Strip(SubSeq(text, a + 1, b))
         IN  /\ text[a + 1] # Space => Within(part, text, a)
             /\ text[b] # Space => \E c \in Nat : Within(part, text, c) /\ c + Len(part) = b
  <1> DEFINE cut == SubSeq(text, a + 1, b)
             part == Strip(cut)
  <1>1. cut \in Seq(T) /\ Len(cut) = b - a /\ Within(cut, text, a)
    BY StretchFacts
  <1> HIDE DEF cut
  <1>2. cut[1] = text[a + 1] /\ cut[b - a] = text[b] /\ DOMAIN cut = 1..(b - a)
        /\ 1 \in 1..(b - a) /\ b - a \in 1..(b - a)
    <2>1. 1 \in 1..(b - a) /\ b - a \in 1..(b - a) /\ a + (b - a) = b
      OBVIOUS
    <2> QED
      BY <1>1, <2>1 DEF Within
  <1>3. ASSUME ~BlankText(cut)
        PROVE  \E p, q \in 1..(b - a) :
                  /\ StripsTo(cut, part, p, q)
                  /\ Within(part, text, a + (p - 1)) /\ a + (p - 1) + Len(part) = a + q
    <2>1. PICK p, q \in 1..(b - a) : StripsTo(cut, part, p, q)
      BY <1>1, <1>3, StripFacts
    <2>2. PICK s : s = part
      OBVIOUS
    <2> HIDE DEF part
    <2>3. /\ p \in Nat \ {0} /\ q \in Nat /\ p <= q /\ q <= b - a /\ Len(s) = q - p + 1
          /\ \A j \in 1..Len(s) : s[j] = cut[p - 1 + j]
      BY <2>1, <2>2 DEF StripsTo, Within
    <2>4. \A j \in 1..Len(s) : s[j] = text[a + (p - 1) + j]
      <3> SUFFICES ASSUME NEW j \in 1..Len(s) PROVE s[j] = text[a + (p - 1) + j]
        OBVIOUS
      <3>1. p - 1 + j \in 1..(b - a) /\ a + (p - 1 + j) = a + (p - 1) + j
        BY <2>3
      <3>2. cut[p - 1 + j] = text[a + (p - 1 + j)]
        BY <1>1, <3>1 DEF Within
      <3> QED
        BY <2>3, <3>1, <3>2
    <2>5. a + (p - 1) \in Nat /\ a + (p - 1) + Len(s) = a + q /\ a + q <= Len(text)
      <3>1. Len(text) \in Nat
        OBVIOUS
      <3> QED
        BY <2>3, <3>1
    <2>6. Within(s, text, a + (p - 1))
      BY <2>4, <2>5 DEF Within
    <2> QED
      BY <2>1, <2>2, <2>5, <2>6
  <1>4. ASSUME text[a + 1] # Space
        PROVE  Within(part, text, a)
    <2>1. ~BlankText(cut)
      BY <1>2, <1>4 DEF BlankText
    <2>2. PICK p, q \in 1..(b - a) : StripsTo(cut, part, p, q) /\ Within(part, text, a + (p - 1))
      BY <1>3, <2>1
    <2>3. p = 1
      BY <1>1, <1>2, <1>4, <2>2 DEF StripsTo
    <2>4. a + (p - 1) = a
      BY <2>3
    <2> QED
      BY <2>2, <2>4
  <1>5. ASSUME text[b] # Space
        PROVE  \E c \in Nat : Within(part, text, c) /\ c + Len(part) = b
    <2>1. ~BlankText(cut)
      BY <1>2, <1>5 DEF BlankText
    <2>2. PICK p, q \in 1..(b - a) :
             /\ StripsTo(cut, part, p, q)
             /\ Within(part, text, a + (p - 1)) /\ a + (p - 1) + Len(part) = a + q
      BY <1>3, <2>1
    <2>3. q = b - a
      BY <1>1, <1>2, <1>5, <2>2 DEF StripsTo
    <2>4. a + q = b /\ a + (p - 1) \in Nat
      BY <2>3
    <2> QED
      BY <2>2, <2>4
  <1> QED
    BY <1>4, <1>5 DEF cut

LEMMA WindowsHold ==
  ASSUME NEW T, NEW whole \in Seq(T), NEW settings \in Sizes
  PROVE  Covers(Strip(whole), SplitText(whole, settings), settings.size, Overlap(settings))
  <1>1. PICK text \in Seq(T) : text = Strip(whole)
    BY StripFacts
  <1>2. PICK parts \in Seq(Seq(T)) : parts = SplitText(whole, settings)
    BY SplitTyped
  <1>3. PICK L \in Nat : L = Len(text)
    OBVIOUS
  <1>4. PICK size \in Nat \ {0}, over \in Nat :
           size = settings.size /\ over = Overlap(settings) /\ over < size
    BY OverlapTyped
  <1>5. /\ DOMAIN parts = 1..Len(parts) /\ Len(parts) \in Nat
        /\ L <= size => parts = <<text>>
        /\ L > size => /\ Len(parts) = WindowCount(text, settings)
                       /\ \A i \in 1..Len(parts) : parts[i] = Window(text, settings, i)
    <2> DEFINE all == SplitText(whole, settings)
               t == Strip(whole)
    <2>1. /\ DOMAIN all = 1..Len(all)
          /\ Len(t) <= settings.size => all = <<t>>
          /\ Len(t) > settings.size =>
               /\ Len(all) = WindowCount(t, settings)
               /\ \A i \in 1..Len(all) : all[i] = Window(t, settings, i)
      BY SplitTyped, Zenon
    <2>2. all = parts /\ t = text
      BY <1>1, <1>2
    <2> HIDE DEF all, t
    <2>3. Len(parts) \in Nat
      BY <1>2
    <2>4. /\ DOMAIN parts = 1..Len(parts)
          /\ L <= size => parts = <<text>>
          /\ L > size => /\ Len(parts) = WindowCount(text, settings)
                         /\ \A i \in 1..Len(parts) : parts[i] = Window(text, settings, i)
      BY <1>3, <1>4, <2>1, <2>2, Zenon
    <2> QED
      BY <2>3, <2>4
  <1>6. \A p \in 1..Len(parts) : parts[p] \in Seq(T)
    BY <1>2
  <1> DEFINE Kept(n) ==
        LET stretch == Strip(SubSeq(text, n, n + (over + 1) - 1))
        IN  \E p \in DOMAIN parts : KeptIn(stretch, parts[p])
  <1>7. CASE L <= size
    <2>1. DOMAIN parts = {1} /\ parts[1] = text /\ Len(parts) = 1
      BY <1>5, <1>7
    <2>2. Within(text, text, 0)
      BY <1>3 DEF Within
    <2>3. IsPrefix(text, text) /\ IsSuffix(text, text)
      <3>1. 0 + Len(text) = Len(text) /\ 0 \in Nat
        BY <1>3
      <3> QED
        BY <2>2, <3>1, PrefixIs, SuffixIs
    <2>4. ASSUME NEW n \in 1..(L - (over + 1) + 1)
          PROVE  Kept(n)
      <3>1. n - 1 \in Nat /\ n + over \in Nat /\ 0 <= n - 1 /\ n - 1 <= n + over
            /\ n + over <= L /\ L <= Len(text) /\ n - 1 + 1 = n /\ n + (over + 1) - 1 = n + over
        BY <1>3
      <3> DEFINE stretch == Strip(SubSeq(text, n - 1 + 1, n + over))
                 part == Strip(SubSeq(text, 0 + 1, L))
      <3>2. KeptIn(stretch, part)
        BY <3>1, StretchKept
      <3>3. part = text
        BY <1>1, <1>3, WholeStretch
      <3> HIDE DEF part
      <3> QED
        BY <2>1, <3>1, <3>2, <3>3
    <2>5. \A p \in DOMAIN parts : Len(parts[p]) <= size
      BY <1>3, <1>7, <2>1
    <2>6. Last(parts) = text /\ (Len(parts) = 1 <=> L <= size)
      BY <1>7, <2>1 DEF Last
    <2>7. \A n \in 1..(Len(text) - (over + 1) + 1) : Kept(n)
      BY <1>3, <2>4
    <2>8. Covers(text, parts, size, over)
      BY <1>3, <2>1, <2>3, <2>5, <2>6, <2>7, Zenon DEF Covers
    <2> QED
      BY <1>1, <1>2, <1>4, <2>8
  <1>8. CASE L > size
    <2>1. PICK N \in Nat : N = WindowCount(text, settings) /\ N = Len(parts)
      BY <1>5, <1>8
    <2>2. /\ N \in 1..L /\ End(text, settings, N) = L
          /\ \A i \in 1..(N - 1) : End(text, settings, i) < L
      <3>1. Len(text) \in Nat \ {0}
        BY <1>3, <1>4, <1>8
      <3>2. /\ WindowCount(text, settings) \in 1..Len(text)
            /\ End(text, settings, WindowCount(text, settings)) = Len(text)
            /\ \A i \in 1..(WindowCount(text, settings) - 1) :
                 End(text, settings, i) < Len(text)
        BY <3>1, CountFacts
      <3> QED
        BY <1>3, <2>1, <3>2, Zenon
    <2>3. \A i \in 1..N :
            /\ Start(settings, i) \in Nat /\ End(text, settings, i) \in Nat
            /\ Start(settings, i) <= End(text, settings, i) /\ End(text, settings, i) <= L
            /\ parts[i] = Strip(SubSeq(text, Start(settings, i) + 1, End(text, settings, i)))
            /\ Len(parts[i]) <= size
      <3>1. Len(text) > 0
        BY <1>3, <1>4, <1>8
      <3>2. \A i \in 1..N : /\ parts[i] = Window(text, settings, i)
                            /\ Window(text, settings, i) =
                                 Strip(SubSeq(text, Start(settings, i) + 1, End(text, settings, i)))
        BY <1>5, <1>8, <2>1, Zenon DEF Window
      <3> QED
        BY <1>3, <1>4, <2>1, <3>1, <3>2, WindowFacts
    <2>4. Start(settings, 1) = 0 /\ End(text, settings, 1) = size
      <3>1. Start(settings, 1) = 0
        BY StartFacts
      <3> QED
        BY <1>3, <1>4, <1>8, <3>1 DEF End, AtMost
    <2>5. N > 1
      BY <1>8, <2>2, <2>4
    <2>6. text[1] # Space /\ text[L] # Space
      <3>1. Len(Strip(whole)) > 0
        BY <1>1, <1>3, <1>4, <1>8
      <3> QED
        BY <1>1, <1>3, <3>1, EndsSolid
    <2>7. IsPrefix(parts[1], text)
      <3>1. Within(Strip(SubSeq(text, 0 + 1, size)), text, 0)
        <4>1. 0 < size /\ size <= Len(text) /\ 0 \in Nat /\ size \in Nat /\ text[0 + 1] # Space
          BY <1>3, <1>8, <2>6
        <4> QED
          BY <4>1, WindowEnds
      <3>2. parts[1] = Strip(SubSeq(text, 0 + 1, size)) /\ parts[1] \in Seq(T)
        BY <1>6, <2>1, <2>3, <2>4, <2>5
      <3> QED
        BY <3>1, <3>2, PrefixIs
    <2>8. IsSuffix(Last(parts), text)
      <3>1. PICK a \in Nat : a = Start(settings, N) /\ a <= L
                             /\ parts[N] = Strip(SubSeq(text, a + 1, L))
        BY <2>2, <2>3
      <3>2. a < L
        <4>1. N - 1 \in 1..(N - 1) /\ N \in Nat \ {0} /\ N - 1 \in Nat \ {0}
          BY <2>5
        <4>2. End(text, settings, N - 1) < L
          BY <2>2, <4>1
        <4>3. /\ Start(settings, N - 1) \in Nat /\ End(text, settings, N - 1) \in Nat
              /\ \/ End(text, settings, N - 1) = L
                 \/ End(text, settings, N - 1) = Start(settings, N - 1) + size
          BY <1>3, <1>4, <4>1, EndFacts, StartFacts
        <4>4. a = Start(settings, N - 1) + size - over
          BY <1>4, <2>5, <3>1, <4>1, StartFacts
        <4> QED
          BY <4>2, <4>3, <4>4
      <3>3. PICK c \in Nat : Within(parts[N], text, c) /\ c + Len(parts[N]) = L
        <4> DEFINE part == Strip(SubSeq(text, a + 1, L))
        <4>1. L <= Len(text)
          BY <1>3
        <4>2. text[L] # Space => \E c \in Nat : Within(part, text, c) /\ c + Len(part) = L
          BY <3>2, <4>1, WindowEnds
        <4>3. part = parts[N]
          BY <3>1
        <4> HIDE DEF part
        <4> QED
          BY <2>6, <4>2, <4>3
      <3>4. parts[N] \in Seq(T)
        BY <1>6, <2>1, <2>2
      <3>5. Last(parts) = parts[N]
        BY <2>1 DEF Last
      <3> QED
        BY <1>3, <3>3, <3>4, <3>5, SuffixIs
    <2>9. ASSUME NEW n \in 1..(L - (over + 1) + 1)
          PROVE  Kept(n)
      <3> DEFINE D == {i \in 1..N : End(text, settings, i) >= n + over}
      <3>1. n \in Nat \ {0} /\ n + over <= L
        BY <1>3
      <3>2. N \in D /\ D \subseteq Nat
        BY <2>2, <3>1
      <3>3. PICK i \in D : \A j \in D : i <= j
        <4> HIDE DEF D
        <4> QED
          BY <3>2, LeastNumber
      <3>4. i \in 1..N /\ n + over <= End(text, settings, i)
        BY <2>3, <3>1, <3>3
      <3>5. Start(settings, i) <= n - 1
        <4>1. CASE i = 1
          BY <2>4, <3>1, <4>1
        <4>2. CASE i # 1
          <5>1. i - 1 \in 1..(N - 1) /\ i - 1 \in 1..N /\ i - 1 \in Nat \ {0} /\ i \in Nat \ {0}
                /\ i > 1 /\ i - 1 \notin D
            BY <3>3, <3>4, <4>2
          <5>2. End(text, settings, i - 1) < L /\ End(text, settings, i - 1) \in Nat
            BY <2>2, <2>3, <5>1
          <5>3. End(text, settings, i - 1) < n + over
            BY <3>1, <5>1, <5>2
          <5>4. /\ Start(settings, i - 1) \in Nat
                /\ \/ End(text, settings, i - 1) = L
                   \/ End(text, settings, i - 1) = Start(settings, i - 1) + size
            BY <1>3, <1>4, <5>1, EndFacts, StartFacts
          <5>5. Start(settings, i) = Start(settings, i - 1) + size - over
            BY <1>4, <5>1, StartFacts
          <5> QED
            BY <3>1, <5>2, <5>3, <5>4, <5>5
        <4> QED
          BY <4>1, <4>2
      <3> HIDE DEF D
      <3>6. PICK c \in Nat, d \in Nat : /\ c = Start(settings, i) /\ d = End(text, settings, i)
                                        /\ d <= L /\ parts[i] = Strip(SubSeq(text, c + 1, d))
        BY <2>3, <3>4
      <3>7. /\ n - 1 \in Nat /\ n + over \in Nat /\ c <= n - 1 /\ n - 1 <= n + over
            /\ n + over <= d /\ d <= Len(text) /\ n - 1 + 1 = n /\ n + (over + 1) - 1 = n + over
        BY <1>3, <3>1, <3>4, <3>5, <3>6
      <3> DEFINE stretch == Strip(SubSeq(text, n - 1 + 1, n + over))
                 part == Strip(SubSeq(text, c + 1, d))
      <3>8. KeptIn(stretch, part)
        BY <3>7, StretchKept
      <3>9. part = parts[i] /\ i \in DOMAIN parts
        BY <1>5, <2>1, <3>4, <3>6
      <3> HIDE DEF part
      <3> QED
        BY <3>7, <3>8, <3>9
    <2>10. ~(Len(parts) = 1) /\ ~(Len(text) <= settings.size)
      <3>1. Len(parts) # 1
        <4>1. N # 1
          BY <2>5
        <4> QED
          BY <2>1, <4>1, Zenon
      <3>2. ~(L <= size)
        BY <1>8
      <3> QED
        BY <1>3, <1>4, <3>1, <3>2
    <2>11. \A p \in DOMAIN parts : Len(parts[p]) <= settings.size
      BY <1>4, <1>5, <2>1, <2>3
    <2>12. \A n \in 1..(Len(text) - (over + 1) + 1) : Kept(n)
      BY <1>3, <2>9
    <2>13. Covers(text, parts, size, over)
      BY <1>4, <2>7, <2>8, <2>10, <2>11, <2>12, Zenon DEF Covers
    <2> QED
      BY <1>1, <1>2, <1>4, <2>13
  <1> QED
    BY <1>3, <1>4, <1>7, <1>8

-----------------------------------------------------------------------------
(* The profiles.                                                           *)

LEMMA ProfileFacts ==
  ASSUME NEW id
  PROVE  LET named == ProfileNamed(id)
         IN  /\ named \in Seq(Profile)
             /\ named # <<>> => named[1] \in Profile /\ named[1].id = id
             /\ \A i \in DOMAIN Profiles : Profiles[i].id = id =>
                  named # <<>> /\ named[1] = Profiles[i]
  <1> DEFINE places == {i \in DOMAIN Profiles : Profiles[i].id = id}
             named == ProfileNamed(id)
  <1>1. Profiles \in Seq(Profile)
    BY DiscoveryConstants
  <1>2. places \in SUBSET (1..Len(Profiles))
    BY <1>1
  <1>3. named = KeptAt(Profiles, places)
    BY DEF ProfileNamed
  <1> HIDE DEF places, named
  <1>4. named \in Seq(Profile) /\ ToSet(named) = {Profiles[i] : i \in places}
    BY <1>1, <1>2, <1>3, KeptAtFacts
  <1>5. ASSUME named # <<>>
        PROVE  \E j \in places : named[1] = Profiles[j] /\ named[1] \in Profile
                                   /\ named[1].id = id
    <2>1. Len(named) > 0
      BY <1>4, <1>5
    <2>2. 1 \in DOMAIN named
      BY <1>4, <2>1
    <2>3. named[1] \in ToSet(named)
      BY <2>2 DEF ToSet
    <2>4. PICK i \in places : named[1] = Profiles[i]
      BY <1>4, <2>3
    <2> QED
      BY <1>4, <2>2, <2>4 DEF places
  <1>6. ASSUME NEW i \in DOMAIN Profiles, Profiles[i].id = id
        PROVE  named # <<>> /\ named[1] = Profiles[i]
    <2>1. Profiles[i] \in ToSet(named)
      BY <1>4, <1>6 DEF places
    <2>2. named # <<>>
      BY <2>1 DEF ToSet
    <2>3. PICK j \in places : named[1] = Profiles[j]
      BY <1>5, <2>2
    <2>4. i \in 1..Len(Profiles) /\ j \in 1..Len(Profiles) /\ Profiles[j].id = Profiles[i].id
      BY <1>1, <1>2, <1>6, <2>3 DEF places
    <2> QED
      BY <2>2, <2>3, <2>4, DiscoveryConstants
  <1> QED
    BY <1>4, <1>5, <1>6 DEF named

(* A file of a source whose profile is known gets a profile there is.      *)
LEMMA SelectFacts ==
  ASSUME NEW src, ProfileKnown(src), NEW path
  PROVE  /\ SelectProfile(src, path) \in Profile
         /\ ProfileNamed(SelectProfile(src, path).id) # <<>>
         /\ ProfileNamed(SelectProfile(src, path).id)[1] = SelectProfile(src, path)
  <1> DEFINE fitting == {i \in DOMAIN Profiles :
                           Profiles[i].enabled /\ path \in Profiles[i].patterns}
             family == {i \in fitting :
                          Profiles[i].family = PreferredFamily(ArtifactRole(path))}
             P == {Profiles[i] : i \in 1..Len(Profiles)}
  <1>1. Profiles \in Seq(P) /\ DOMAIN Profiles = 1..Len(Profiles) /\ P \subseteq Profile
    <2>1. Profiles \in Seq(Profile)
      BY DiscoveryConstants
    <2>2. PICK n \in Nat : n = Len(Profiles) /\ DOMAIN Profiles = 1..n
      BY <2>1
    <2>3. Profiles \in [1..n -> P]
      BY <2>1, <2>2
    <2>4. P \subseteq Profile
      BY <2>1, <2>2
    <2> HIDE DEF P
    <2> QED
      BY <2>2, <2>3, <2>4, ListedSequence
  <1>2. family \in SUBSET (1..Len(Profiles)) /\ fitting \in SUBSET (1..Len(Profiles))
    BY <1>1
  <1> DEFINE named == {i \in DOMAIN Profiles : Profiles[i].id = src.profile}
  <1>3. named \in SUBSET (1..Len(Profiles))
    BY <1>1
  <1> DEFINE a == KeptAt(Profiles, family)
             b == KeptAt(Profiles, fitting)
             c == KeptAt(Profiles, named)
  <1>4. SelectProfile(src, path) = (a \o b \o c)[1]
    BY DEF SelectProfile, ProfileNamed
  <1>5. c # <<>>
    BY DEF ProfileKnown, ProfileNamed
  <1> HIDE DEF P, fitting, family, named
  <1>6. a \in Seq(P) /\ b \in Seq(P) /\ c \in Seq(P)
    BY <1>1, <1>2, <1>3, KeptAtFacts
  <1> HIDE DEF a, b, c
  <1>7. a \o b \in Seq(P)
    BY <1>6, ConcatProperties
  <1>8. a \o b \o c \in Seq(P) /\ Len(a \o b \o c) > 0
    <2>1. a \o b \o c \in Seq(P) /\ Len(a \o b \o c) = Len(a \o b) + Len(c)
      BY <1>6, <1>7, ConcatProperties
    <2>2. Len(c) > 0 /\ Len(c) \in Nat /\ Len(a \o b) \in Nat
      BY <1>5, <1>6, <1>7
    <2> QED
      BY <2>1, <2>2
  <1>9. SelectProfile(src, path) \in P
    BY <1>4, <1>8
  <1>10. PICK i \in 1..Len(Profiles) : SelectProfile(src, path) = Profiles[i]
    BY <1>9 DEF P
  <1>11. /\ ProfileNamed(SelectProfile(src, path).id) # <<>>
         /\ ProfileNamed(SelectProfile(src, path).id)[1] = SelectProfile(src, path)
    BY <1>1, <1>10, ProfileFacts
  <1> QED
    BY <1>1, <1>9, <1>11

LEMMA SettingsTyped ==
  ASSUME NEW profile \in Profile
  PROVE  SettingsOf(profile) \in Sizes
  <1> DEFINE T == [tool: STRING, enabled: BOOLEAN, size: Int, overlap: Int]
             tools == profile.tools
             places == {i \in DOMAIN tools : tools[i].enabled
                          /\ (tools[i].size # -1 \/ tools[i].overlap # -1)}
             giving == KeptAt(tools, places)
  <1>1. tools \in Seq(T)
    BY DEF Profile
  <1>2. \A t \in T : t.size \in Int /\ t.overlap \in Int
    OBVIOUS
  <1> HIDE DEF T, tools
  <1>3. places \in SUBSET (1..Len(tools))
    BY <1>1
  <1>4. SettingsOf(profile) =
          IF giving = <<>> THEN [size |-> DefaultSize, overlap |-> DefaultOverlap]
          ELSE [size |-> AtLeast(1, OrDefault(giving[1].size, DefaultSize)),
                overlap |-> AtLeast(0, OrDefault(giving[1].overlap, DefaultOverlap))]
    BY Zenon DEF SettingsOf, tools
  <1> HIDE DEF places
  <1>5. giving \in Seq(T)
    BY <1>1, <1>3, KeptAtFacts
  <1> HIDE DEF giving
  <1>6. CASE giving = <<>>
    BY <1>4, <1>6, ChunkingConstants DEF Sizes
  <1>7. CASE giving # <<>>
    <2>1. giving[1] \in T
      BY <1>5, <1>7
    <2>2. giving[1].size \in Int /\ giving[1].overlap \in Int
      BY <1>2, <2>1
    <2>3. AtLeast(1, OrDefault(giving[1].size, DefaultSize)) \in Nat \ {0}
      BY <2>2, ChunkingConstants DEF AtLeast, OrDefault
    <2>4. AtLeast(0, OrDefault(giving[1].overlap, DefaultOverlap)) \in Nat
      BY <2>2, ChunkingConstants DEF AtLeast, OrDefault
    <2> QED
      BY <1>4, <1>7, <2>3, <2>4 DEF Sizes
  <1> QED
    BY <1>6, <1>7

-----------------------------------------------------------------------------
(* What discovery keeps.                                                   *)

LEMMA PathFacts ==
  ASSUME NEW f \in Paths
  PROVE  /\ About[f].order \in Nat
         /\ Normal[f] # None => Normal[f] \in Paths /\ About[Normal[f]].order \in Nat
  BY DiscoveryConstants DEF Named

KeptPlaces(src, files) == {i \in DOMAIN files : Decided(src, files)[i].reason = None}

LEMMA DecidedFacts ==
  ASSUME NEW src, NEW files \in Seq(Paths), CanClassify(src, files)
  PROVE  /\ DOMAIN Decided(src, files) = DOMAIN files /\ DOMAIN files = 1..Len(files)
         /\ \A i \in DOMAIN files :
              LET d == Decided(src, files)[i]
              IN  /\ d.artifact = Classified(src, files[i])
                  /\ d.reason = SkipReason(src, Classified(src, files[i]))
                  /\ d.artifact.path = Normal[files[i]] /\ d.artifact.path \in Paths
                  /\ About[d.artifact.path].order \in Nat
  <1>1. DOMAIN Decided(src, files) = DOMAIN files /\ DOMAIN files = 1..Len(files)
    BY DEF Decided
  <1>2. ASSUME NEW i \in DOMAIN files
        PROVE  LET d == Decided(src, files)[i]
               IN  /\ d.artifact = Classified(src, files[i])
                   /\ d.reason = SkipReason(src, Classified(src, files[i]))
                   /\ d.artifact.path = Normal[files[i]] /\ d.artifact.path \in Paths
                   /\ About[d.artifact.path].order \in Nat
    <2>1. /\ Decided(src, files)[i].artifact = Classified(src, files[i])
          /\ Decided(src, files)[i].reason = SkipReason(src, Classified(src, files[i]))
      BY DEF Decided, Verdict
    <2>2. Classified(src, files[i]).path = Normal[files[i]]
      BY DEF Classified
    <2>3. files[i] \in Paths /\ Normal[files[i]] # None
      BY DEF CanClassify
    <2> QED
      BY <2>1, <2>2, <2>3, PathFacts
  <1> QED
    BY <1>1, <1>2

(* The places of the files that are kept, each once, in the order of their *)
(* paths.                                                                  *)
Arranged(src, files, sorted, n) ==
  /\ n \in Nat /\ sorted \in [1..n -> KeptPlaces(src, files)]
  /\ n = Cardinality(KeptPlaces(src, files))
  /\ IsInjective(sorted) /\ \A p \in KeptPlaces(src, files) : \E k \in 1..n : sorted[k] = p
  /\ \A k, l \in 1..n : k < l =>
       About[Normal[files[sorted[k]]]].order <= About[Normal[files[sorted[l]]]].order

KeptFrom(src, files, as) ==
  \E sorted, n : /\ Arranged(src, files, sorted, n)
                 /\ as = [k \in 1..n |-> as[k]]
                 /\ \A k \in 1..n : as[k] = Classified(src, files[sorted[k]])

LEMMA DiscoverFacts ==
  ASSUME NEW src, NEW files \in Seq(Paths), NEW skips, CanClassify(src, files)
  PROVE  KeptFrom(src, files, Discover(src, [files |-> files, skipped |-> skips]).artifacts)
  <1> DEFINE ds == Decided(src, files)
             kept == KeptPlaces(src, files)
             order(i) == About[ds[i].artifact.path].order
             before == {p \in kept \X kept : \/ order(p[1]) < order(p[2])
                                             \/ order(p[1]) = order(p[2]) /\ p[1] < p[2]}
             sorted == InOrder(kept, before)
             n == Cardinality(kept)
             found == Discover(src, [files |-> files, skipped |-> skips]).artifacts
  <1>1. kept \subseteq 1..Len(files) /\ Len(files) \in Nat
    BY DecidedFacts DEF KeptPlaces
  <1>2. IsFiniteSet(kept)
    <2>1. IsFiniteSet(1..Len(files))
      BY <1>1, FS_Interval
    <2> QED
      BY <1>1, <2>1, FS_Subset, Zenon
  <1>3. \A i \in kept : order(i) \in Nat /\ i \in Nat /\ order(i) = About[Normal[files[i]]].order
    BY <1>1, DecidedFacts
  <1>4. found = [k \in DOMAIN sorted |-> ds[sorted[k]].artifact]
    <2>1. kept = {i \in DOMAIN ds : ds[i].reason = None}
      BY DecidedFacts DEF KeptPlaces
    <2>2. ByPath(ds, kept) = sorted
      BY Zenon DEF ByPath
    <2>3. Discover(src, [files |-> files, skipped |-> skips]).artifacts
            = LET k == {i \in DOMAIN ds : ds[i].reason = None}
                  s == ByPath(ds, k)
              IN  [j \in DOMAIN s |-> ds[s[j]].artifact]
      BY DEF Discover
    <2> HIDE DEF ds, kept, sorted, found
    <2> QED
      BY <2>1, <2>2, <2>3, Zenon DEF found
  <1> HIDE DEF order
  <1>5. StrictOrder(kept, before)
    <2>1. \A x, y \in kept : <<x, y>> \in before <=>
             \/ order(x) < order(y)
             \/ order(x) = order(y) /\ x < y
      OBVIOUS
    <2> HIDE DEF before, kept
    <2>2. \A x, y, z \in kept : <<x, y>> \in before /\ <<y, z>> \in before => <<x, z>> \in before
      BY <1>3, <2>1
    <2>3. \A x, y \in kept : x # y => <<x, y>> \in before \/ <<y, x>> \in before
      BY <1>3, <2>1
    <2>4. \A x \in kept : <<x, x>> \notin before
      BY <1>3, <2>1
    <2> QED
      BY <2>2, <2>3, <2>4 DEF StrictOrder
  <1>6. /\ n \in Nat /\ sorted \in [1..n -> kept] /\ ToSet(sorted) = kept /\ IsInjective(sorted)
        /\ \A i, j \in 1..n : <<sorted[i], sorted[j]>> \in before => i < j
    <2> HIDE DEF kept, before
    <2> QED
      BY <1>2, <1>5, InOrderFacts
  <1> HIDE DEF sorted, n, found, kept
  <1>7. DOMAIN sorted = 1..n /\ \A k \in 1..n : sorted[k] \in kept
    BY <1>6
  <1>8. \A p \in kept : \E k \in 1..n : sorted[k] = p
    BY <1>6, <1>7 DEF ToSet
  <1>9. \A k, l \in 1..n : k < l =>
          About[Normal[files[sorted[k]]]].order <= About[Normal[files[sorted[l]]]].order
    <2> SUFFICES ASSUME NEW k \in 1..n, NEW l \in 1..n, k < l
                 PROVE  About[Normal[files[sorted[k]]]].order
                          <= About[Normal[files[sorted[l]]]].order
      OBVIOUS
    <2>1. ~(l < k)
      BY <1>6
    <2>2. <<sorted[l], sorted[k]>> \notin before
      BY <1>6, <2>1
    <2>3. ~(order(sorted[l]) < order(sorted[k]))
      BY <1>7, <2>2
    <2> QED
      BY <1>3, <1>7, <2>3
  <1>10. \A k \in 1..n : found[k] = Classified(src, files[sorted[k]])
    <2>1. \A k \in 1..n : found[k] = ds[sorted[k]].artifact
      BY <1>4, <1>7
    <2>2. \A p \in kept : ds[p].artifact = Classified(src, files[p])
      BY <1>1, DecidedFacts DEF kept
    <2> QED
      BY <1>7, <2>1, <2>2
  <1>11. found = [k \in 1..n |-> found[k]]
    BY <1>4, <1>7
  <1>12. Arranged(src, files, sorted, n)
    BY <1>6, <1>8, <1>9 DEF Arranged, kept, n
  <1> QED
    BY <1>10, <1>11, <1>12 DEF KeptFrom, found

LEMMA FilesFacts ==
  ASSUME NEW v \in Versions
  PROVE  LET files == DOMAIN Snapshots[v].files
         IN  /\ FilesOf(v) \in Seq(Paths) /\ Len(FilesOf(v)) = Cardinality(files)
             /\ ToSet(FilesOf(v)) = files /\ IsInjective(FilesOf(v))
             /\ IsFiniteSet(files) /\ files \subseteq Paths
  <1> DEFINE files == DOMAIN Snapshots[v].files
             before == {p \in files \X files : About[p[1]].order < About[p[2]].order}
  <1>1. IsFiniteSet(files) /\ files \subseteq Paths
    BY ContentConstants DEF Versions
  <1>2. FilesOf(v) = InOrder(files, before)
    BY DEF FilesOf
  <1>3. StrictOrder(files, before)
    <2>1. \A p, q \in files : /\ About[p].order \in Nat /\ About[q].order \in Nat
                              /\ About[p].order = About[q].order => p = q
      BY <1>1, PathFacts, DiscoveryConstants
    <2>2. \A p, q \in files : <<p, q>> \in before <=> About[p].order < About[q].order
      OBVIOUS
    <2> HIDE DEF files, before
    <2>3. \A x, y, z \in files : <<x, y>> \in before /\ <<y, z>> \in before => <<x, z>> \in before
      BY <2>1, <2>2
    <2>4. \A x, y \in files : x # y => <<x, y>> \in before \/ <<y, x>> \in before
      BY <2>1, <2>2
    <2>5. \A x \in files : <<x, x>> \notin before
      BY <2>1, <2>2
    <2> QED
      BY <2>3, <2>4, <2>5 DEF StrictOrder
  <1> HIDE DEF files, before
  <1>4. LET s == InOrder(files, before)
        IN  /\ s \in Seq(files) /\ Len(s) = Cardinality(files) /\ ToSet(s) = files
            /\ IsInjective(s)
    BY <1>1, <1>3, InOrderFacts, Zenon
  <1>5. FilesOf(v) \in Seq(Paths)
    <2>1. FilesOf(v) \in Seq(files)
      BY <1>2, <1>4
    <2> QED
      BY <1>1, <2>1
  <1> QED
    BY <1>1, <1>2, <1>4, <1>5 DEF files

ArtifactsOf(src, v) ==
  Discover(src, [files |-> FilesOf(v), skipped |-> Snapshots[v].skipped]).artifacts

(* The artifacts are the files that no rule leaves out, as classified.     *)
LEMMA KeptTold ==
  ASSUME NEW v \in Versions, NEW src, CanClassify(src, FilesOf(v))
  PROVE  ToSet(ArtifactsOf(src, v))
           = {a \in {Classified(src, f) : f \in DOMAIN Snapshots[v].files} :
                SkipReason(src, a) = None}
  <1> DEFINE files == DOMAIN Snapshots[v].files
  <1>1. PICK F \in Seq(Paths) : F = FilesOf(v) /\ ToSet(F) = files
    BY FilesFacts
  <1>2. PICK as : as = ArtifactsOf(src, v)
    OBVIOUS
  <1>3. KeptFrom(src, F, as)
    BY <1>1, <1>2, DiscoverFacts DEF ArtifactsOf
  <1>4. PICK sorted, n : /\ Arranged(src, F, sorted, n)
                         /\ as = [k \in 1..n |-> as[k]]
                         /\ \A k \in 1..n : as[k] = Classified(src, F[sorted[k]])
    BY <1>3, Zenon DEF KeptFrom
  <1>5. \A i \in DOMAIN F :
          i \in KeptPlaces(src, F) <=> SkipReason(src, Classified(src, F[i])) = None
    BY <1>1, DecidedFacts DEF KeptPlaces
  <1>6. KeptPlaces(src, F) \subseteq DOMAIN F
    BY DEF KeptPlaces
  <1>7. /\ \A k \in 1..n : sorted[k] \in KeptPlaces(src, F)
        /\ \A p \in KeptPlaces(src, F) : \E k \in 1..n : sorted[k] = p
    BY <1>4 DEF Arranged
  <1>8. ToSet(as) = {as[k] : k \in 1..n}
    <2>1. DOMAIN as = 1..n
      BY <1>4
    <2> QED
      BY <2>1 DEF ToSet
  <1>9. files = {F[i] : i \in DOMAIN F}
    BY <1>1 DEF ToSet
  <1> HIDE DEF files
  <1>10. ASSUME NEW a \in ToSet(as)
         PROVE  a \in {Classified(src, f) : f \in files} /\ SkipReason(src, a) = None
    <2>1. PICK k \in 1..n : a = as[k]
      BY <1>8
    <2>2. sorted[k] \in DOMAIN F /\ a = Classified(src, F[sorted[k]])
      BY <1>4, <1>6, <1>7, <2>1
    <2> QED
      BY <1>5, <1>7, <1>9, <2>1, <2>2
  <1>11. ASSUME NEW f \in files, SkipReason(src, Classified(src, f)) = None
         PROVE  Classified(src, f) \in ToSet(as)
    <2>1. PICK i \in DOMAIN F : f = F[i]
      BY <1>9
    <2>2. PICK k \in 1..n : sorted[k] = i
      BY <1>5, <1>7, <1>11, <2>1
    <2>3. as[k] = Classified(src, f)
      BY <1>4, <2>1, <2>2
    <2> QED
      BY <1>8, <2>3
  <1> QED
    BY <1>2, <1>10, <1>11 DEF files

SettingsFor(a) == SettingsOf(ProfileNamed(a.profile)[1])

(* Every artifact stands for a file of the snapshot and has a profile.     *)
LEMMA ArtifactFacts ==
  ASSUME NEW v \in Versions, NEW src, CanClassify(src, FilesOf(v))
  PROVE  LET as == ArtifactsOf(src, v)
         IN  \E n \in Nat :
               /\ as = [k \in 1..n |-> as[k]] /\ as \in Seq(ToSet(as)) /\ Len(as) = n
               /\ \A k \in 1..n :
                    /\ \E f \in DOMAIN Snapshots[v].files :
                         /\ Normal[f] = as[k].path /\ FileOf(v, as[k]) = Snapshots[v].files[f]
                    /\ SettingsFor(as[k]) \in Sizes /\ as[k].profile \in STRING
  <1> DEFINE as == ArtifactsOf(src, v)
  <1>1. PICK F \in Seq(Paths) : F = FilesOf(v)
    BY FilesFacts
  <1>2. PICK sorted, n : /\ Arranged(src, F, sorted, n)
                         /\ as = [k \in 1..n |-> as[k]]
                         /\ \A k \in 1..n : as[k] = Classified(src, F[sorted[k]])
    <2>1. KeptFrom(src, F, as)
      BY <1>1, DiscoverFacts DEF ArtifactsOf
    <2> QED
      BY <2>1, Zenon DEF KeptFrom
  <1>3. n \in Nat
    BY <1>2 DEF Arranged
  <1> HIDE DEF as
  <1>4. as \in Seq(ToSet(as)) /\ Len(as) = n
    <2>1. DOMAIN as = 1..n
      BY <1>2
    <2>2. \A k \in 1..n : as[k] \in ToSet(as)
      BY <2>1 DEF ToSet
    <2>3. PICK A : A = ToSet(as)
      OBVIOUS
    <2>4. as \in [1..n -> A]
      BY <1>2, <2>2, <2>3
    <2>5. as \in Seq(A)
      BY <1>3, <2>4, ListedSequence
    <2>6. Len(as) = n
      BY <1>3, <2>1, <2>5
    <2> QED
      BY <2>3, <2>5, <2>6
  <1>5. ASSUME NEW k \in 1..n
        PROVE  /\ \E f \in DOMAIN Snapshots[v].files :
                    Normal[f] = as[k].path /\ FileOf(v, as[k]) = Snapshots[v].files[f]
               /\ SettingsFor(as[k]) \in Sizes /\ as[k].profile \in STRING
    <2>1. PICK p \in DOMAIN F : p = sorted[k]
      BY <1>2 DEF Arranged, KeptPlaces
    <2>2. as[k] = Classified(src, F[p])
      BY <1>2, <2>1
    <2>3. F[p] \in DOMAIN Snapshots[v].files
      BY <1>1, FilesFacts DEF ToSet
    <2>4. as[k].path = Normal[F[p]] /\ as[k].profile = SelectProfile(src, Normal[F[p]]).id
      BY <2>2 DEF Classified
    <2>5. \E f \in DOMAIN Snapshots[v].files :
             Normal[f] = as[k].path /\ FileOf(v, as[k]) = Snapshots[v].files[f]
      <3>1. \E f \in DOMAIN Snapshots[v].files : Normal[f] = as[k].path
        BY <2>3, <2>4
      <3> QED
        BY <3>1 DEF FileOf
    <2>6. ProfileKnown(src)
      BY <1>1, <2>1 DEF CanClassify
    <2>7. SettingsFor(as[k]) \in Sizes
      BY <2>4, <2>6, SelectFacts, SettingsTyped DEF SettingsFor
    <2>8. as[k].profile \in STRING
      BY <2>4, <2>6, SelectFacts DEF Profile
    <2> QED
      BY <2>5, <2>7, <2>8
  <1> QED
    BY <1>2, <1>3, <1>4, <1>5 DEF as

-----------------------------------------------------------------------------
(* What becomes of one file.                                               *)

CleanedOf(src, v, a) ==
  LET candidates == ResultOf(v, a).candidates
  IN  [i \in DOMAIN candidates |-> Sanitized(candidates[i], src.labels)]

MadeOf(src, v, a) == ChunkResult(CleanedOf(src, v, a), SettingsFor(a))

(* What the stage promises of a text it has been through: nothing that the *)
(* builtin rules match away from its markers, and a class no looser than   *)
(* the source's.                                                           *)
Cleaned(labels, x) ==
  /\ x.text \in Seq(Token)
  /\ \A name \in Sought(labels) : Clear(x.text, name)
  /\ SensitivityRank(x.sensitivity) >= SensitivityRank(labels.sensitivity)

(* What is left of that for a chunk, whose first and last piece may have   *)
(* been cut off from what stood next to them.                              *)
ClearWithin(text, name) ==
  \A i, j \in DOMAIN text :
    Fits(Rule(name, "secret"), text, i, j) /\ i # 1 /\ j # Len(text) => Marked(text, i, j)

CutCleaned(labels, c) ==
  /\ c.text \in Seq(Token)
  /\ \A name \in Sought(labels) : ClearWithin(c.text, name)
  /\ SensitivityRank(c.sensitivity) >= SensitivityRank(labels.sensitivity)

MarkersTold(x) ==
  /\ Says(x.text, {"secret label"}) => x.sensitivity = "restricted"
  /\ Says(x.text, {"pii label"}) => x.sensitivity \in {"restricted", "confidential"}

LEMMA MarkersAreTokens == Marks \X Nat \subseteq Token
  BY DEF Classes, Token

LEMMA SoughtIs ==
  ASSUME NEW labels
  PROVE  Sought(labels) = Applied(PiiRequired(labels)) /\ Sought(labels) \subseteq Patterns
  BY DEF Sought, Applied, Patterns

LEMMA SanitizedFacts ==
  ASSUME NEW candidate, candidate.text \in Seq(Token), NEW labels
  PROVE  /\ Cleaned(labels, Sanitized(candidate, labels))
         /\ ~Says(candidate.text, Marks) => MarkersTold(Sanitized(candidate, labels))
  <1> DEFINE r == Redact(candidate.text, PiiRequired(labels))
             x == Sanitized(candidate, labels)
             class == ClassifiedSensitivity(labels.sensitivity, r.findings)
  <1>1. x.text = r.text /\ x.sensitivity = class
    BY DEF Sanitized
  <1>2. /\ r.text \in Seq(Token) /\ r.findings \in Seq(Found)
        /\ \A name \in Sought(labels) : Clear(r.text, name)
        /\ ~Says(candidate.text, Marks) => \A i \in DOMAIN r.text : Told(r, r.text[i])
    BY MarkersAreTokens, RedactFacts, SoughtIs, Zenon
  <1>3. /\ SensitivityRank(class) >= SensitivityRank(labels.sensitivity)
        /\ \A f \in DOMAIN r.findings :
             /\ r.findings[f].type = "secret" => class = "restricted"
             /\ class \in {"restricted", "confidential"}
    BY <1>2, ClassifiedFacts, Zenon
  <1> HIDE DEF r, x, class
  <1>4. (FoundOf(r, "secret") => class = "restricted")
        /\ (FoundOf(r, "pii") => class \in {"restricted", "confidential"})
    BY <1>3, Zenon DEF FoundOf
  <1>5. Cleaned(labels, x)
    BY <1>1, <1>2, <1>3, Zenon DEF Cleaned
  <1>6. ~Says(candidate.text, Marks) => MarkersTold(x)
    <2>1. ASSUME ~Says(candidate.text, Marks)
          PROVE  /\ Says(r.text, {"secret label"}) => FoundOf(r, "secret")
                 /\ Says(r.text, {"pii label"}) => FoundOf(r, "pii")
      <3>1. \A i \in DOMAIN r.text : Told(r, r.text[i])
        BY <1>2, <2>1, Zenon
      <3> QED
        BY <3>1 DEF Says, Told
    <2> QED
      BY <1>1, <1>4, <2>1, Zenon DEF MarkersTold
  <1> QED
    BY <1>5, <1>6 DEF x

LEMMA CleanedFacts ==
  ASSUME NEW v \in Versions, NEW src, NEW a,
         NEW f \in DOMAIN Snapshots[v].files, FileOf(v, a) = Snapshots[v].files[f]
  PROVE  LET cleaned == CleanedOf(src, v, a)
         IN  \E n \in Nat : /\ cleaned = [i \in 1..n |-> cleaned[i]]
                            /\ \A i \in 1..n : Cleaned(src.labels, cleaned[i])
  <1> DEFINE file == FileOf(v, a)
             cs == ResultOf(v, a).candidates
             cleaned == CleanedOf(src, v, a)
  <1>1. ReadAs(file, Token)
    BY ContentConstants DEF Versions
  <1>2. Space \in Token
    BY DEF Space, Token, Classes
  <1>3. cs = Extract(SelectExtractor(a), a, file).candidates
    BY DEF ResultOf
  <1> HIDE DEF cs, file
  <1>4. CandidatesIn(cs, Token)
    BY <1>1, <1>2, <1>3, ExtractTyped
  <1>5. PICK C : cs \in Seq(C) /\ \A c \in C : c.text \in Seq(Token)
    BY <1>4, Zenon DEF CandidatesIn
  <1>6. PICK n \in Nat : n = Len(cs) /\ DOMAIN cs = 1..n /\ \A i \in 1..n : cs[i] \in C
    BY <1>5
  <1>7. cleaned = [i \in 1..n |-> Sanitized(cs[i], src.labels)]
    BY <1>6, Zenon DEF CleanedOf, cs
  <1> HIDE DEF cleaned
  <1>8. /\ cleaned = [i \in 1..n |-> cleaned[i]]
        /\ \A i \in 1..n : cleaned[i] = Sanitized(cs[i], src.labels)
    BY <1>7
  <1>9. \A i \in 1..n : Cleaned(src.labels, cleaned[i])
    BY <1>5, <1>6, <1>8, SanitizedFacts
  <1> QED
    BY <1>8, <1>9 DEF cleaned

(* The chunks that may be cut from a sanitized candidate: of each one the  *)
(* text is a stretch of the candidate's.                                   *)
Stretches(text) == {t \in Seq(ToSet(text)) : \E a \in Nat : Within(t, text, a)}

CutFrom(clean) == {Chunk(clean, t, p) : t \in Stretches(clean.text), p \in Nat}

LEMMA CutTyped ==
  ASSUME NEW T, NEW clean, clean.text \in Seq(T), NEW settings \in Sizes
  PROVE  ChunksOf(clean, settings) \in Seq(CutFrom(clean))
  <1> DEFINE parts == SplitText(clean.text, settings)
             made == [i \in DOMAIN parts |-> Chunk(clean, parts[i], i)]
  <1>1. PICK X : X = ToSet(clean.text)
    OBVIOUS
  <1>2. clean.text \in Seq(X)
    <2>1. PICK n \in Nat : n = Len(clean.text) /\ DOMAIN clean.text = 1..n
      OBVIOUS
    <2>2. clean.text = [i \in 1..n |-> clean.text[i]]
      BY <2>1
    <2>3. \A i \in 1..n : clean.text[i] \in X
      BY <1>1, <2>1 DEF ToSet
    <2>4. clean.text \in [1..n -> X]
      BY <2>2, <2>3
    <2> QED
      BY <2>4, ListedSequence
  <1>3. parts \in Seq(Seq(X))
    BY <1>2, SplitTyped
  <1>4. PICK n \in Nat : n = Len(parts) /\ DOMAIN parts = 1..n /\ \A i \in 1..n : parts[i] \in Seq(X)
    <2> HIDE DEF parts
    <2> QED
      BY <1>3
  <1> HIDE DEF parts
  <1>5. \A i \in 1..n : Chunk(clean, parts[i], i) \in CutFrom(clean)
    <2> SUFFICES ASSUME NEW i \in 1..n
                 PROVE  Chunk(clean, parts[i], i) \in CutFrom(clean)
      OBVIOUS
    <2>1. parts[i] \in Seq(ToSet(clean.text)) /\ i \in Nat
      BY <1>1, <1>4
    <2>2. \E a \in Nat : Within(parts[i], clean.text, a)
      BY <1>4, PartsWithin DEF parts
    <2>3. parts[i] \in Stretches(clean.text)
      BY <2>1, <2>2 DEF Stretches
    <2> QED
      BY <2>1, <2>3 DEF CutFrom
  <1>6. made \in [1..n -> CutFrom(clean)]
    BY <1>4, <1>5
  <1>7. made \in Seq(CutFrom(clean))
    <2> HIDE DEF made
    <2> QED
      BY <1>6, ListedSequence
  <1>8. ChunksOf(clean, settings) \in {made, <<>>}
    BY DEF ChunksOf, parts
  <1>9. <<>> \in Seq(CutFrom(clean))
    BY EmptySeq
  <1> HIDE DEF made
  <1> QED
    BY <1>7, <1>8, <1>9

CutsOf(cleaned) == UNION {CutFrom(cleaned[i]) : i \in DOMAIN cleaned}

LEMMA MadeTyped ==
  ASSUME NEW T, NEW n \in Nat, NEW cleaned, cleaned = [i \in 1..n |-> cleaned[i]],
         \A i \in 1..n : cleaned[i].text \in Seq(T), NEW settings \in Sizes
  PROVE  ChunkResult(cleaned, settings) \in Seq(CutsOf(cleaned))
  <1> DEFINE seqs == [i \in DOMAIN cleaned |-> ChunksOf(cleaned[i], settings)]
             C == CutsOf(cleaned)
  <1>1. DOMAIN cleaned = 1..n
    OBVIOUS
  <1>2. ASSUME NEW i \in 1..n
        PROVE  ChunksOf(cleaned[i], settings) \in Seq(C)
    <2>1. ChunksOf(cleaned[i], settings) \in Seq(CutFrom(cleaned[i]))
      BY CutTyped
    <2>2. CutFrom(cleaned[i]) \subseteq C
      BY <1>1, Zenon DEF CutsOf
    <2> HIDE DEF C
    <2> QED
      BY <2>1, <2>2
  <1> HIDE DEF C
  <1>3. seqs \in [1..n -> Seq(C)]
    BY <1>1, <1>2
  <1>4. ChunkResult(cleaned, settings) = FlattenSeq(seqs)
    BY DEF ChunkResult
  <1> HIDE DEF seqs
  <1>5. seqs \in Seq(Seq(C))
    BY <1>3, ListedSequence
  <1> QED
    BY <1>4, <1>5, FlattenTyped DEF C

(* What a chunk says is no more than what its candidate says.              *)
LEMMA CutSays ==
  ASSUME NEW clean, clean.text \in Seq(Token), NEW c \in CutFrom(clean), NEW classes
  PROVE  /\ c.text \in Seq(Token) /\ c.sensitivity = clean.sensitivity
         /\ Says(c.text, classes) => Says(clean.text, classes)
  <1>1. PICK t \in Stretches(clean.text), p \in Nat : c = Chunk(clean, t, p)
    BY DEF CutFrom
  <1>2. c.text = t /\ c.sensitivity = clean.sensitivity
    BY <1>1 DEF Chunk
  <1>3. ToSet(clean.text) \subseteq Token /\ t \in Seq(ToSet(clean.text))
    BY DEF ToSet, Stretches
  <1>4. t \in Seq(Token)
    BY <1>3
  <1>5. \A i \in DOMAIN t : \E j \in DOMAIN clean.text : t[i] = clean.text[j]
    <2>1. \A i \in DOMAIN t : t[i] \in ToSet(clean.text)
      BY <1>3
    <2> QED
      BY <2>1 DEF ToSet
  <1> QED
    BY <1>2, <1>4, <1>5 DEF Says

(* A pattern that is clear in a text is clear within its stretches.        *)
LEMMA CutClear ==
  ASSUME NEW clean, clean.text \in Seq(Token), NEW c \in CutFrom(clean),
         NEW name \in Patterns, Clear(clean.text, name)
  PROVE  ClearWithin(c.text, name)
  <1>1. PICK t \in Stretches(clean.text), p \in Nat : c = Chunk(clean, t, p)
    BY DEF CutFrom
  <1>2. c.text = t
    BY <1>1 DEF Chunk
  <1>3. PICK text : text = clean.text
    OBVIOUS
  <1>4. t \in Seq(ToSet(text)) /\ \E a \in Nat : Within(t, text, a)
    BY <1>3 DEF Stretches
  <1>5. PICK a \in Nat : Within(t, text, a)
    BY <1>4
  <1>6. /\ Len(t) \in Nat /\ DOMAIN t = 1..Len(t)
        /\ Len(text) \in Nat /\ DOMAIN text = 1..Len(text)
    BY <1>3, <1>4
  <1>7. ASSUME NEW i \in DOMAIN t, NEW j \in DOMAIN t,
               Fits(Rule(name, "secret"), t, i, j), i # 1, j # Len(t)
        PROVE  Marked(t, i, j)
    <2>1. i \in 1..Len(t) /\ j \in 1..Len(t) /\ i \in Int /\ j \in Int
      BY <1>6
    <2>2. i <= j
      BY <1>7, <2>1, FitsForward
    <2>3. Alike(t, text, a, i, j)
      <3>1. a + Len(t) <= Len(text) /\ \A k \in 1..Len(t) : t[k] = text[a + k]
        BY <1>5 DEF Within
      <3>2. ASSUME NEW k \in (i - 1)..(j + 1)
            PROVE  k \in 1..Len(t) /\ k + a \in 1..Len(text) /\ t[k] = text[k + a]
        <4>1. k \in 1..Len(t)
          BY <1>6, <1>7, <2>1
        <4>2. k + a = a + k /\ a + k \in 1..Len(text)
          BY <1>6, <3>1, <4>1
        <4> QED
          BY <3>1, <4>1, <4>2
      <3> QED
        BY <3>2 DEF Alike
    <2>4. Fits(Rule(name, "secret"), text, i + a, j + a)
      BY <1>6, <1>7, <2>1, <2>2, <2>3, FitsAlike
    <2>5. i + a \in DOMAIN text /\ j + a \in DOMAIN text
      <3>1. i + a \in 1..Len(text) /\ j + a \in 1..Len(text)
        BY <1>5, <1>6, <2>1 DEF Within
      <3> QED
        BY <1>6, <3>1
    <2>6. Marked(text, i + a, j + a)
      BY <1>3, <2>4, <2>5 DEF Clear
    <2> QED
      BY <1>6, <2>1, <2>3, <2>6, MarkedAlike
  <1> QED
    BY <1>2, <1>7, Zenon DEF ClearWithin

(* All that is known of the chunks of one file.                            *)
LEMMA MadeFacts ==
  ASSUME NEW v \in Versions, NEW src, NEW a,
         NEW f \in DOMAIN Snapshots[v].files, FileOf(v, a) = Snapshots[v].files[f],
         SettingsFor(a) \in Sizes
  PROVE  /\ MadeOf(src, v, a) \in Seq(CutsOf(CleanedOf(src, v, a)))
         /\ \A c \in CutsOf(CleanedOf(src, v, a)) : CutCleaned(src.labels, c)
  <1>1. PICK cleaned : cleaned = CleanedOf(src, v, a)
    OBVIOUS
  <1>2. PICK n \in Nat : /\ cleaned = [i \in 1..n |-> cleaned[i]]
                         /\ \A i \in 1..n : Cleaned(src.labels, cleaned[i])
    BY <1>1, CleanedFacts
  <1>3. \A i \in 1..n : cleaned[i].text \in Seq(Token)
    BY <1>2 DEF Cleaned
  <1>4. MadeOf(src, v, a) \in Seq(CutsOf(cleaned))
    BY <1>1, <1>2, <1>3, MadeTyped DEF MadeOf
  <1>5. ASSUME NEW c \in CutsOf(cleaned)
        PROVE  CutCleaned(src.labels, c)
    <2>1. PICK i \in 1..n : c \in CutFrom(cleaned[i])
      <3>1. PICK i \in DOMAIN cleaned : c \in CutFrom(cleaned[i])
        BY Zenon DEF CutsOf
      <3>2. DOMAIN cleaned = 1..n
        BY <1>2
      <3> QED
        BY <3>1, <3>2
    <2>2. Cleaned(src.labels, cleaned[i])
      BY <1>2
    <2>3. c.text \in Seq(Token) /\ c.sensitivity = cleaned[i].sensitivity
      BY <1>3, <2>1, CutSays
    <2>4. \A name \in Sought(src.labels) : name \in Patterns /\ Clear(cleaned[i].text, name)
      BY <2>2, SoughtIs DEF Cleaned
    <2>5. \A name \in Sought(src.labels) : ClearWithin(c.text, name)
      BY <1>3, <2>1, <2>4, CutClear
    <2> QED
      BY <2>2, <2>3, <2>5, Zenon DEF Cleaned, CutCleaned
  <1> QED
    BY <1>1, <1>4, <1>5

-----------------------------------------------------------------------------
(* The rows of the store.                                                  *)

RowSet == [known: BOOLEAN, hash: Seq(Token) \cup {None}, eligible: BOOLEAN,
           version: Versions \cup {None}, member: [Versions -> Rows!Membership],
           cited: Versions \cup {None}]

(* A row that offers its chunk at version v, and one whose chunk is either *)
(* offered at one version or withdrawn.                                    *)
RowAt(row, v) ==
  /\ row.version = v /\ row.cited = v
  /\ \A w \in Versions : row.member[w] = "current" <=> w = v

RowSettled(row) ==
  /\ Rows!HasCurrent(row) => row.version \in Versions /\ RowAt(row, row.version)
  /\ ~Rows!HasCurrent(row) => row.version = None

LEMMA NoRowTyped == Rows!NoChunk \in RowSet
  <1>1. None \in Versions \cup {None} /\ None \in Seq(Token) \cup {None}
    OBVIOUS
  <1>2. [v \in Versions |-> "none"] \in [Versions -> Rows!Membership]
    BY DEF Rows!Membership
  <1> HIDE DEF None
  <1> QED
    BY <1>1, <1>2 DEF Rows!NoChunk, RowSet

LEMMA SavedRow ==
  ASSUME NEW row \in RowSet, NEW v \in Versions, NEW text \in Seq(Token), NEW e \in BOOLEAN
  PROVE  LET r == Rows!Saved(row, [version |-> v, hash |-> text, eligible |-> e])
         IN  r \in RowSet /\ RowAt(r, v) /\ RowSettled(r)
  <1> DEFINE new == [version |-> v, hash |-> text, eligible |-> e]
             r == Rows!Saved(row, new)
             up == Rows!UpsertChunk(row, new)
             member == [w \in Versions |-> IF w = up.version THEN "current"
                                           ELSE IF up.member[w] = "current" THEN "former"
                                           ELSE up.member[w]]
             kept == [up EXCEPT !.member = member]
  <1> HIDE DEF None
  <1>1. v # None /\ v \in Versions \cup {None} /\ text \in Seq(Token) \cup {None}
    BY ContentConstants DEF Versions
  <1>2. up \in RowSet /\ up.version = v
    BY <1>1 DEF Rows!UpsertChunk, RowSet
  <1>3. Rows!UpsertChunkVersion(up) = kept
    <2> HIDE DEF up
    <2> QED
      BY <1>1, <1>2 DEF Rows!UpsertChunkVersion
  <1>4. member \in [Versions -> Rows!Membership] /\ \A w \in Versions : member[w] = "current" <=> w = v
    <2> HIDE DEF up
    <2>1. \A w \in Versions : up.member[w] \in Rows!Membership
      BY <1>2 DEF RowSet
    <2> QED
      BY <1>2, <2>1 DEF Rows!Membership
  <1> HIDE DEF up, member
  <1>5. kept \in RowSet /\ kept.version = v /\ kept.member = member
    BY <1>2, <1>4 DEF RowSet
  <1>6. r = [kept EXCEPT !.cited = kept.version]
    BY <1>3 DEF up, Rows!Saved, Rows!UpsertCitation
  <1> HIDE DEF kept, r
  <1>7. r \in RowSet /\ r.version = v /\ r.member = member /\ r.cited = v
    BY <1>1, <1>5, <1>6 DEF RowSet
  <1>8. RowAt(r, v)
    BY <1>4, <1>7 DEF RowAt
  <1>9. RowSettled(r)
    BY <1>4, <1>7, <1>8 DEF RowSettled, Rows!HasCurrent
  <1> QED
    BY <1>7, <1>8, <1>9 DEF r

LEMMA RetiredRow ==
  ASSUME NEW row \in RowSet
  PROVE  LET r == Rows!Retired(row)
         IN  r \in RowSet /\ ~Rows!HasCurrent(r) /\ RowSettled(r)
  <1> DEFINE r == Rows!Retired(row)
             member == [w \in Versions |-> IF row.member[w] = "current" THEN "tombstoned"
                                           ELSE row.member[w]]
  <1> HIDE DEF None
  <1>1. \A w \in Versions : row.member[w] \in Rows!Membership
    BY DEF RowSet
  <1>2. /\ member \in [Versions -> Rows!Membership]
        /\ \A w \in Versions : member[w] # "current"
    BY <1>1 DEF Rows!Membership
  <1>3. r = [row EXCEPT !.version = None, !.member = member]
    BY DEF Rows!Retired
  <1> HIDE DEF r, member
  <1>4. r \in RowSet /\ r.version = None /\ r.member = member
    BY <1>2, <1>3 DEF RowSet
  <1>5. ~Rows!HasCurrent(r)
    BY <1>2, <1>4 DEF Rows!HasCurrent
  <1> QED
    BY <1>4, <1>5 DEF RowSettled, r

-----------------------------------------------------------------------------
(* The store: what a row is a copy of is a member of O.                    *)

Entry(O) == [row: {r \in RowSet : RowSettled(r)}, of: O]

StoreIn(rows, O) == rows \in [DOMAIN rows -> Entry(O)]

(* rows, after c was saved in it.                                          *)
After(rows, c, r) ==
  /\ DOMAIN r = DOMAIN rows \cup {c.key}
  /\ r[c.key].of = c /\ RowAt(r[c.key].row, version)
  /\ \A k \in DOMAIN rows \ {c.key} : r[k] = rows[k]

LEMMA SaveChunkFacts ==
  ASSUME version \in Versions, NEW O, NEW rows, StoreIn(rows, O),
         NEW c \in O, c.text \in Seq(Token)
  PROVE  StoreIn(SaveChunk(rows, c), O) /\ After(rows, c, SaveChunk(rows, c))
  <1> DEFINE old == IF c.key \in DOMAIN rows THEN rows[c.key] ELSE NewRow(c)
             row == Rows!Saved(old.row, Offer(c))
             r == SaveChunk(rows, c)
  <1>1. old.row \in RowSet
    <2>1. CASE c.key \in DOMAIN rows
      <3>1. rows[c.key] \in Entry(O)
        BY <2>1 DEF StoreIn
      <3> QED
        BY <2>1, <3>1 DEF Entry
    <2>2. CASE c.key \notin DOMAIN rows
      <3>1. old.row = Rows!NoChunk
        BY <2>2 DEF NewRow
      <3> QED
        BY <3>1, NoRowTyped
    <2> QED
      BY <2>1, <2>2
  <1>2. row \in RowSet /\ RowAt(row, version) /\ RowSettled(row)
    <2> DEFINE e == c.text # <<>> /\ c.license = "allowed"
    <2>1. e \in BOOLEAN /\ Offer(c) = [version |-> version, hash |-> c.text, eligible |-> e]
      BY DEF Offer
    <2> HIDE DEF e, old
    <2> QED
      BY <1>1, <2>1, SavedRow
  <1>3. r = [k \in DOMAIN rows \cup {c.key} |->
               IF k = c.key THEN [row |-> row, of |-> c] ELSE rows[k]]
    BY DEF SaveChunk
  <1> HIDE DEF r, row, old
  <1>4. DOMAIN r = DOMAIN rows \cup {c.key} /\ r[c.key] = [row |-> row, of |-> c]
        /\ \A k \in DOMAIN rows \ {c.key} : r[k] = rows[k]
    BY <1>3
  <1>5. [row |-> row, of |-> c] \in Entry(O)
    BY <1>2 DEF Entry
  <1>6. StoreIn(r, O)
    BY <1>3, <1>4, <1>5 DEF StoreIn
  <1>7. After(rows, c, r)
    BY <1>2, <1>4 DEF After
  <1> QED
    BY <1>6, <1>7 DEF r

(* rows, after all the chunks were saved in it.                            *)
AfterAll(rows, chunks, n, r) ==
  /\ DOMAIN r = DOMAIN rows \cup {chunks[i].key : i \in 1..n}
  /\ \A i \in 1..n : /\ RowAt(r[chunks[i].key].row, version)
                     /\ \E j \in 1..n : r[chunks[i].key].of = chunks[j]
  /\ \A k \in DOMAIN rows \ {chunks[i].key : i \in 1..n} : r[k] = rows[k]

StoresOf(D, O) == UNION {[S -> Entry(O)] : S \in SUBSET D}

SaveSteps(chunks, n, B) == [p \in (1..n) \X B |-> SaveChunk(p[2], chunks[p[1]])]

LEMMA SavedAllIs ==
  ASSUME version \in Versions, NEW O, NEW rows, StoreIn(rows, O), NEW chunks \in Seq(O),
         \A c \in O : c.text \in Seq(Token)
  PROVE  \E h : /\ h[0] = rows /\ StoreIn(h[0], O)
                /\ \A i \in 1..Len(chunks) : /\ h[i] = SaveChunk(h[i - 1], chunks[i])
                                             /\ StoreIn(h[i - 1], O) /\ StoreIn(h[i], O)
                /\ SavedAll(rows, chunks) = h[Len(chunks)]
  <1>1. PICK n \in Nat : /\ n = Len(chunks) /\ DOMAIN chunks = 1..n
                         /\ \A i \in 1..n : chunks[i] \in O
    OBVIOUS
  <1> DEFINE D == DOMAIN rows \cup Keys(chunks)
             B == StoresOf(D, O)
             step == SaveSteps(chunks, n, B)
             Eq(f) == f = [i \in 0..n |-> IF i = 0 THEN rows
                                          ELSE SaveChunk(f[i - 1], chunks[i])]
  <1>2. \A s : s \in B <=> StoreIn(s, O) /\ DOMAIN s \subseteq D
    <2> HIDE DEF D
    <2> QED
      BY DEF StoreIn, StoresOf
  <1>3. rows \in B
    BY <1>2
  <1>4. \A i \in 1..n : chunks[i].key \in D
    BY <1>1 DEF Keys
  <1>5. \A i \in 1..n, s \in B : step[<<i, s>>] = SaveChunk(s, chunks[i])
    <2> HIDE DEF B
    <2> QED
      BY DEF SaveSteps
  <1>6. \A i \in 1..n, s \in B : SaveChunk(s, chunks[i]) \in B
    <2> SUFFICES ASSUME NEW i \in 1..n, NEW s \in B
                 PROVE  SaveChunk(s, chunks[i]) \in B
      OBVIOUS
    <2> HIDE DEF D, B
    <2>1. StoreIn(s, O) /\ DOMAIN s \subseteq D
      BY <1>2
    <2>2. chunks[i] \in O /\ chunks[i].text \in Seq(Token)
      BY <1>1
    <2>3. StoreIn(SaveChunk(s, chunks[i]), O) /\ After(s, chunks[i], SaveChunk(s, chunks[i]))
      BY <2>1, <2>2, SaveChunkFacts
    <2>4. DOMAIN SaveChunk(s, chunks[i]) \subseteq D
      BY <1>4, <2>1, <2>3 DEF After
    <2> QED
      BY <1>2, <2>3, <2>4
  <1>7. step \in [(1..n) \X B -> B]
    <2>1. step = [p \in (1..n) \X B |-> SaveChunk(p[2], chunks[p[1]])]
      BY Zenon DEF SaveSteps
    <2> HIDE DEF B, step
    <2> QED
      BY <1>6, <2>1
  <1>8. SavedAll(rows, chunks) = (CHOOSE h : Eq(h))[n]
    BY <1>1, Zenon DEF SavedAll
  <1> HIDE DEF D, B, step
  <1>9. PICK f : IsFold(f, n, B, rows, step)
    BY <1>3, <1>7, FoldDefined, Zenon
  <1>10. \A i \in 1..n : f[i] = SaveChunk(f[i - 1], chunks[i])
    <2>1. \A i \in 1..n : i - 1 \in 0..n /\ f[i - 1] \in B /\ f[i] = step[<<i, f[i - 1]>>]
      BY <1>9 DEF IsFold
    <2> QED
      BY <1>5, <2>1
  <1>11. Eq(f)
    BY <1>9, <1>10 DEF IsFold
  <1>12. PICK h : h = CHOOSE g : Eq(g)
    OBVIOUS
  <1>13. Eq(h)
    <2> HIDE DEF Eq
    <2> QED
      BY <1>11, <1>12
  <1>14. /\ h = [i \in 0..n |-> h[i]] /\ h[0] = rows
         /\ \A i \in 1..n : h[i] = SaveChunk(h[i - 1], chunks[i])
    <2> DEFINE next(i) == SaveChunk(h[i - 1], chunks[i])
    <2>1. h = [i \in 0..n |-> IF i = 0 THEN rows ELSE next(i)]
      BY <1>13, Zenon
    <2> HIDE DEF next, Eq
    <2>2. /\ h = [i \in 0..n |-> h[i]] /\ h[0] = rows
          /\ \A i \in 1..n : h[i] = next(i)
      BY <2>1
    <2> QED
      BY <2>2 DEF next
  <1>15. h[n] = SavedAll(rows, chunks)
    BY <1>8, <1>12, Zenon
  <1> HIDE DEF Eq
  <1>16. \A i \in 1..n : h[i - 1] \in B => h[i] = step[<<i, h[i - 1]>>]
    BY <1>5, <1>14
  <1>17. IsFold(h, n, B, rows, step)
    BY <1>3, <1>7, <1>14, <1>16, FoldTyped, Zenon
  <1>18. \A i \in 0..n : h[i] \in B
    BY <1>17 DEF IsFold
  <1>19. \A i \in 1..n : StoreIn(h[i - 1], O) /\ StoreIn(h[i], O)
    <2>1. \A i \in 1..n : i - 1 \in 0..n /\ i \in 0..n
      OBVIOUS
    <2> QED
      BY <1>2, <1>18, <2>1
  <1> QED
    BY <1>1, <1>14, <1>15, <1>19

LEMMA SavedAllFacts ==
  ASSUME version \in Versions, NEW O, NEW rows, StoreIn(rows, O), NEW chunks \in Seq(O),
         \A c \in O : c.text \in Seq(Token)
  PROVE  LET r == SavedAll(rows, chunks)
         IN  StoreIn(r, O) /\ AfterAll(rows, chunks, Len(chunks), r)
  <1>1. PICK n \in Nat : /\ n = Len(chunks) /\ DOMAIN chunks = 1..n
                         /\ \A i \in 1..n : chunks[i] \in O
    OBVIOUS
  <1>2. PICK h : /\ h[0] = rows /\ StoreIn(h[0], O)
                 /\ \A i \in 1..n : /\ h[i] = SaveChunk(h[i - 1], chunks[i])
                                    /\ StoreIn(h[i - 1], O) /\ StoreIn(h[i], O)
                 /\ SavedAll(rows, chunks) = h[n]
    <2>1. \E h : /\ h[0] = rows /\ StoreIn(h[0], O)
                 /\ \A i \in 1..Len(chunks) : /\ h[i] = SaveChunk(h[i - 1], chunks[i])
                                              /\ StoreIn(h[i - 1], O) /\ StoreIn(h[i], O)
                 /\ SavedAll(rows, chunks) = h[Len(chunks)]
      BY SavedAllIs
    <2> QED
      BY <1>1, <2>1, Zenon
  <1> DEFINE T == {i \in 0..n : AfterAll(rows, chunks, i, h[i])}
  <1>3. 0 \in T
    <2>1. {chunks[i].key : i \in 1..0} = {}
      OBVIOUS
    <2> QED
      BY <1>2, <2>1 DEF AfterAll
  <1>4. ASSUME NEW m \in 1..n, m - 1 \in T
        PROVE  m \in T
    <2> DEFINE K(i) == {chunks[j].key : j \in 1..i}
               c == chunks[m]
    <2>1. K(m) = K(m - 1) \cup {c.key}
      <3>1. 1..m = 1..(m - 1) \cup {m}
        OBVIOUS
      <3> QED
        BY <3>1
    <2>2. AfterAll(rows, chunks, m - 1, h[m - 1])
      BY <1>4
    <2>3. After(h[m - 1], c, h[m])
      BY <1>1, <1>2, SaveChunkFacts
    <2> HIDE DEF K
    <2>4. /\ DOMAIN h[m - 1] = DOMAIN rows \cup K(m - 1)
          /\ \A k \in DOMAIN rows \ K(m - 1) : h[m - 1][k] = rows[k]
      BY <2>2 DEF AfterAll, K
    <2>5. /\ DOMAIN h[m] = DOMAIN rows \cup K(m)
          /\ \A k \in DOMAIN rows \ K(m) : h[m][k] = rows[k]
      BY <2>1, <2>3, <2>4 DEF After
    <2>6. ASSUME NEW i \in 1..m
          PROVE  /\ RowAt(h[m][chunks[i].key].row, version)
                 /\ \E j \in 1..m : h[m][chunks[i].key].of = chunks[j]
      <3>1. CASE chunks[i].key = c.key
        BY <2>3, <3>1 DEF After
      <3>2. CASE chunks[i].key # c.key
        <4>1. i \in 1..(m - 1)
          BY <3>2
        <4>2. chunks[i].key \in DOMAIN h[m - 1]
          BY <2>4, <4>1 DEF K
        <4>3. h[m][chunks[i].key] = h[m - 1][chunks[i].key]
          BY <2>3, <3>2, <4>2 DEF After
        <4>4. /\ RowAt(h[m - 1][chunks[i].key].row, version)
              /\ \E j \in 1..(m - 1) : h[m - 1][chunks[i].key].of = chunks[j]
          BY <2>2, <4>1, Zenon DEF AfterAll
        <4> QED
          BY <4>3, <4>4
      <3> QED
        BY <3>1, <3>2
    <2>7. AfterAll(rows, chunks, m, h[m])
      BY <2>5, <2>6, Zenon DEF AfterAll, K
    <2> QED
      BY <2>7
  <1>5. n \in T
    <2> HIDE DEF T
    <2>1. 0..n \subseteq T
      BY <1>3, <1>4, UpToInduction, Zenon
    <2> QED
      BY <2>1
  <1>6. StoreIn(h[n], O)
    BY <1>2
  <1> QED
    BY <1>1, <1>2, <1>5, <1>6

-----------------------------------------------------------------------------
(* The round's invariant.                                                  *)

KeptBy(src, v) == IF CanClassify(src, FilesOf(v)) THEN ToSet(ArtifactsOf(src, v)) ELSE {}

(* What a row of the source may be a copy of: an accepted chunk of a file  *)
(* that one of the versions keeps.                                         *)
MadeBy(src, v) == UNION {ToSet(MadeOf(src, v, a)) : a \in KeptBy(src, v)}

Stored(src) == {c \in UNION {MadeBy(src, v) : v \in Versions} : Accepts(c)}

Attempt(v, a) == [path |-> a.path, version |-> v, status |-> Status(ResultOf(v, a))]

(* The first n of the version's artifacts are through.                     *)
Through(src, v, n, rest, keys, tried) ==
  LET as == ArtifactsOf(src, v)
  IN  /\ n \in 0..Len(as) /\ rest = SubSeq(as, n + 1, Len(as))
      /\ keys = UNION {Keys(MadeOf(src, v, as[i])) : i \in 1..n}
      /\ \A i \in 1..n : Attempt(v, as[i]) \in tried

SavedAt(rows, keys, v) == \A k \in keys : k \in DOMAIN rows /\ RowAt(rows[k].row, v)

DecidedOf(src, v) ==
  Discover(src, [files |-> FilesOf(v), skipped |-> Snapshots[v].skipped])

(* What the file at hand has become by now.                                *)
WorkRight(src, v, at, a, x) ==
  /\ x.extractor = SelectExtractor(a) /\ x.result = ResultOf(v, a) /\ ~x.result.raised
  /\ at \in {"chunk", "store"} => x.cleaned = CleanedOf(src, v, a)
  /\ at = "store" => x.chunks = MadeOf(src, v, a)

Working == {"extract", "redact", "chunk", "store", "done"}

ContentInv ==
  /\ source \in Configs
  /\ stage \in {"idle", "discover", "failed"} \cup Working
  /\ stage # "idle" => version \in Versions
  /\ stage = "discover" => saved = {}
  /\ StoreIn(store, Stored(source))
  /\ SavedAt(store, saved, version)
  /\ stage \in Working =>
       /\ CanClassify(source, FilesOf(version)) /\ decided = DecidedOf(source, version)
       /\ \E n \in Nat : Through(source, version, n, todo, saved, attempts)
  /\ stage = "done" => todo = <<>> /\ Current(store) = saved
  /\ work = [extractor |-> work.extractor, result |-> work.result,
             cleaned |-> work.cleaned, chunks |-> work.chunks]
  /\ stage \in {"redact", "chunk", "store"} =>
       todo # <<>> /\ WorkRight(source, version, stage, Head(todo), work)

-----------------------------------------------------------------------------
(* The chunks a file is made into.                                         *)

LEMMA KeptFacts ==
  ASSUME NEW v \in Versions, NEW src, NEW a \in KeptBy(src, v)
  PROVE  /\ CanClassify(src, FilesOf(v))
         /\ SettingsFor(a) \in Sizes /\ a.profile \in STRING
         /\ \E f \in DOMAIN Snapshots[v].files : FileOf(v, a) = Snapshots[v].files[f]
  <1>1. CanClassify(src, FilesOf(v)) /\ a \in ToSet(ArtifactsOf(src, v))
    BY DEF KeptBy
  <1> DEFINE as == ArtifactsOf(src, v)
  <1>2. PICK n \in Nat :
          /\ as = [k \in 1..n |-> as[k]]
          /\ \A k \in 1..n :
               /\ \E f \in DOMAIN Snapshots[v].files :
                    /\ Normal[f] = as[k].path /\ FileOf(v, as[k]) = Snapshots[v].files[f]
               /\ SettingsFor(as[k]) \in Sizes /\ as[k].profile \in STRING
    BY <1>1, ArtifactFacts, Zenon
  <1> HIDE DEF as
  <1>3. PICK k \in 1..n : a = as[k]
    <2>1. DOMAIN as = 1..n
      BY <1>2
    <2> QED
      BY <1>1, <2>1 DEF ToSet, as
  <1> QED
    BY <1>1, <1>2, <1>3

LEMMA MadeListed ==
  ASSUME NEW v \in Versions, NEW src, NEW a \in KeptBy(src, v)
  PROVE  LET chunks == MadeOf(src, v, a)
         IN  /\ chunks \in Seq(ToSet(chunks)) /\ ToSet(chunks) \subseteq MadeBy(src, v)
             /\ \A c \in ToSet(chunks) : CutCleaned(src.labels, c)
  <1>1. PICK chunks : chunks = MadeOf(src, v, a)
    OBVIOUS
  <1>2. PICK C : chunks \in Seq(C) /\ \A c \in C : CutCleaned(src.labels, c)
    <2>1. PICK f \in DOMAIN Snapshots[v].files : FileOf(v, a) = Snapshots[v].files[f]
      BY KeptFacts
    <2>2. SettingsFor(a) \in Sizes
      BY KeptFacts
    <2> QED
      BY <1>1, <2>1, <2>2, MadeFacts, Zenon
  <1>3. ToSet(chunks) \subseteq C
    BY <1>2 DEF ToSet
  <1>4. PICK X : X = ToSet(chunks)
    OBVIOUS
  <1>5. PICK n \in Nat : n = Len(chunks) /\ DOMAIN chunks = 1..n
    BY <1>2
  <1>6. chunks \in [1..n -> X]
    <2>1. \A i \in 1..n : chunks[i] \in X
      BY <1>4, <1>5 DEF ToSet
    <2>2. chunks = [i \in 1..n |-> chunks[i]]
      BY <1>2, <1>5
    <2> QED
      BY <2>1, <2>2
  <1>7. chunks \in Seq(X)
    BY <1>6, ListedSequence
  <1>8. ToSet(chunks) \subseteq MadeBy(src, v)
    BY <1>1, Zenon DEF MadeBy
  <1> QED
    BY <1>1, <1>2, <1>3, <1>4, <1>7, <1>8

LEMMA StoredFacts ==
  ASSUME NEW src, NEW c \in Stored(src)
  PROVE  /\ Accepts(c) /\ CutCleaned(src.labels, c) /\ c.text \in Seq(Token)
         /\ \E v \in Versions : \E a \in KeptBy(src, v) : c \in ToSet(MadeOf(src, v, a))
  <1>1. PICK v \in Versions : c \in MadeBy(src, v)
    BY Zenon DEF Stored
  <1>2. PICK a \in KeptBy(src, v) : c \in ToSet(MadeOf(src, v, a))
    BY <1>1, Zenon DEF MadeBy
  <1>3. CutCleaned(src.labels, c)
    BY <1>2, MadeListed, Zenon
  <1>4. Accepts(c)
    BY Zenon DEF Stored
  <1>5. c.text \in Seq(Token)
    BY <1>3, Zenon DEF CutCleaned
  <1> QED
    BY <1>2, <1>3, <1>4, <1>5

LEMMA AcceptedListed ==
  ASSUME NEW v \in Versions, NEW src, NEW a \in KeptBy(src, v),
         \A i \in DOMAIN MadeOf(src, v, a) : Accepts(MadeOf(src, v, a)[i])
  PROVE  MadeOf(src, v, a) \in Seq(Stored(src))
  <1>1. PICK chunks, X : chunks = MadeOf(src, v, a) /\ X = ToSet(chunks)
    OBVIOUS
  <1>2. chunks \in Seq(X) /\ X \subseteq MadeBy(src, v)
    BY <1>1, MadeListed, Zenon
  <1>3. X \subseteq Stored(src)
    <2> SUFFICES ASSUME NEW c \in X
                 PROVE  c \in Stored(src)
      OBVIOUS
    <2>1. Accepts(c)
      BY <1>1 DEF ToSet
    <2>2. c \in MadeBy(src, v)
      BY <1>2
    <2> QED
      BY <2>1, <2>2, Zenon DEF Stored
  <1>4. PICK S : S = Stored(src)
    OBVIOUS
  <1> QED
    BY <1>1, <1>2, <1>3, <1>4

(* What of a list remains after its first n.                               *)
LEMMA RestFacts ==
  ASSUME NEW T, NEW seq \in Seq(T), NEW n \in 0..Len(seq)
  PROVE  LET rest == SubSeq(seq, n + 1, Len(seq))
         IN  /\ rest = <<>> <=> n = Len(seq)
             /\ rest # <<>> =>
                  /\ n + 1 \in 0..Len(seq) /\ n + 1 \in DOMAIN seq
                  /\ Head(rest) = seq[n + 1] /\ Tail(rest) = SubSeq(seq, n + 1 + 1, Len(seq))
  <1> DEFINE m == Len(seq)
             rest == SubSeq(seq, n + 1, m)
  <1>1. m \in Nat
    BY LenProperties
  <1>2. n \in Nat /\ n <= m
    BY <1>1
  <1>3. CASE n = m
    <2>1. n + 1 \in Int /\ m \in Int /\ m < n + 1
      BY <1>2, <1>3
    <2>2. rest = <<>>
      BY <2>1, SubSeqEmpty
    <2> QED
      BY <1>1, <1>3, <2>2
  <1>4. CASE n # m
    <2>1. n + 1 \in 1..Len(seq) /\ m \in (n + 1)..Len(seq)
      BY <1>1, <1>2, <1>4
    <2>2. Head(rest) = seq[n + 1] /\ Tail(rest) = SubSeq(seq, n + 1 + 1, m)
      BY <2>1, HeadTailOfSubSeq
    <2>3. Len(rest) # 0
      BY <1>1, <1>2, <2>1
    <2>4. rest # <<>>
      <3> HIDE DEF rest
      <3> QED
        BY <2>3
    <2>5. n + 1 \in 0..Len(seq) /\ n + 1 \in DOMAIN seq
      BY <2>1
    <2> HIDE DEF rest
    <2> QED
      BY <1>1, <1>4, <2>2, <2>4, <2>5 DEF rest
  <1> QED
    BY <1>3, <1>4

-----------------------------------------------------------------------------
(* The invariant holds at first, and every step keeps it.                  *)

LEMMA RoundStarts == Init => ContentInv
  <1> SUFFICES ASSUME Init
               PROVE  ContentInv
    OBVIOUS
  <1>1. /\ source \in Configs /\ stage = "idle" /\ saved = {} /\ store = <<>>
        /\ work = NoWork
    BY DEF Init
  <1>2. StoreIn(store, Stored(source))
    <2> DEFINE S == Entry(Stored(source))
    <2>1. DOMAIN store = {}
      BY <1>1
    <2>2. store \in [{} -> S]
      <3> HIDE DEF S
      <3> QED
        BY <1>1
    <2> QED
      BY <2>1, <2>2 DEF StoreIn
  <1>3. SavedAt(store, saved, version)
    BY <1>1 DEF SavedAt
  <1>4. work = [extractor |-> work.extractor, result |-> work.result,
                cleaned |-> work.cleaned, chunks |-> work.chunks]
    <2> DEFINE r == Raised
    <2>1. work = [extractor |-> None, result |-> r, cleaned |-> <<>>, chunks |-> <<>>]
      BY <1>1 DEF NoWork
    <2> HIDE DEF r, None
    <2> QED
      BY <2>1
  <1> QED
    BY <1>1, <1>2, <1>3, <1>4, Zenon DEF ContentInv, Working

LEMMA FailKeeps ==
  ASSUME ContentInv, FailRound, stage # "idle"
  PROVE  ContentInv'
  <1>1. /\ stage' = "failed" /\ todo' = <<>> /\ work' = NoWork
        /\ UNCHANGED <<source, version, decided, saved, store, attempts, rounds>>
    BY DEF FailRound
  <1>2. work' = [extractor |-> work'.extractor, result |-> work'.result,
                 cleaned |-> work'.cleaned, chunks |-> work'.chunks]
    <2> DEFINE r == Raised
    <2>1. work' = [extractor |-> None, result |-> r, cleaned |-> <<>>, chunks |-> <<>>]
      BY <1>1 DEF NoWork
    <2> HIDE DEF r, None
    <2> QED
      BY <2>1
  <1>3. /\ source' \in Configs /\ version' \in Versions
        /\ StoreIn(store', Stored(source')) /\ SavedAt(store', saved', version')
    BY <1>1, Zenon DEF ContentInv
  <1> QED
    BY <1>1, <1>2, <1>3 DEF ContentInv, Working

LEMMA FetchKeeps ==
  ASSUME ContentInv, NEW v \in Versions, Fetch(v)
  PROVE  ContentInv'
  <1>1. /\ version' = v /\ stage' = "discover" /\ saved' = {}
        /\ UNCHANGED <<source, decided, todo, work, store, attempts>>
    BY DEF Fetch
  <1>2. /\ source' \in Configs /\ version' \in Versions
        /\ StoreIn(store', Stored(source'))
    BY <1>1, Zenon DEF ContentInv
  <1>3. SavedAt(store', saved', version')
    BY <1>1, Zenon DEF SavedAt
  <1>4. work' = [extractor |-> work'.extractor, result |-> work'.result,
                 cleaned |-> work'.cleaned, chunks |-> work'.chunks]
    BY <1>1, Zenon DEF ContentInv
  <1> QED
    BY <1>1, <1>2, <1>3, <1>4 DEF ContentInv, Working

LEMMA DiscoverKeeps ==
  ASSUME ContentInv, DiscoverFiles
  PROVE  ContentInv'
  <1>1. stage = "discover" /\ saved = {}
    BY DEF DiscoverFiles, ContentInv
  <1>2. CASE CanClassify(source, FilesOf(version))
    <2>1. /\ decided' = DecidedOf(source, version)
          /\ todo' = decided'.artifacts /\ stage' = "extract"
          /\ UNCHANGED <<source, version, work, saved, store, attempts, rounds>>
      BY <1>2 DEF DiscoverFiles, DecidedOf
    <2>2. version \in Versions
      BY <1>1 DEF ContentInv
    <2>3. \E n \in Nat : Through(source', version', n, todo', saved', attempts')
      <3>1. PICK found, T : found = ArtifactsOf(source, version) /\ T = ToSet(found)
        OBVIOUS
      <3>2. found \in Seq(T)
        BY <1>2, <2>2, <3>1, ArtifactFacts, Zenon
      <3>3. todo' = found
        BY <2>1, <3>1, Zenon DEF DecidedOf, ArtifactsOf
      <3>4. SubSeq(found, 1, Len(found)) = found /\ Len(found) \in Nat
        BY <3>2, SubSeqFull, LenProperties
      <3>5. 0 \in 0..Len(found) /\ 0 + 1 = 1 /\ 1..0 = {}
        BY <3>4
      <3>6. todo' = SubSeq(found, 0 + 1, Len(found))
        BY <3>3, <3>4, <3>5
      <3>7. {} = UNION {Keys(MadeOf(source, version, found[i])) : i \in 1..0}
        BY <3>5
      <3>8. \A i \in 1..0 : Attempt(version, found[i]) \in attempts
        BY <3>5
      <3>9. Through(source, version, 0, todo', saved, attempts)
        BY <1>1, <3>1, <3>5, <3>6, <3>7, <3>8, Zenon DEF Through
      <3> QED
        BY <2>1, <3>9
    <2>4. /\ source' \in Configs /\ version' \in Versions
          /\ StoreIn(store', Stored(source')) /\ SavedAt(store', saved', version')
      BY <2>1, <2>2, Zenon DEF ContentInv
    <2>5. work' = [extractor |-> work'.extractor, result |-> work'.result,
                   cleaned |-> work'.cleaned, chunks |-> work'.chunks]
      BY <2>1, Zenon DEF ContentInv
    <2>6. decided' = DecidedOf(source', version') /\ CanClassify(source', FilesOf(version'))
      BY <1>2, <2>1
    <2> QED
      BY <2>1, <2>3, <2>4, <2>5, <2>6 DEF ContentInv, Working
  <1>3. CASE ~CanClassify(source, FilesOf(version))
    <2>1. FailRound
      BY <1>3 DEF DiscoverFiles
    <2> QED
      BY <1>1, <2>1, FailKeeps
  <1> QED
    BY <1>2, <1>3

-----------------------------------------------------------------------------
(* A step that only brings the work on the file at hand further.           *)
LEMMA WorkKeeps ==
  ASSUME ContentInv, stage \in Working, todo # <<>>,
         stage' \in {"redact", "chunk", "store"},
         UNCHANGED <<source, version, decided, todo, saved, store, attempts>>,
         work' = [extractor |-> work'.extractor, result |-> work'.result,
                  cleaned |-> work'.cleaned, chunks |-> work'.chunks],
         WorkRight(source, version, stage', Head(todo), work')
  PROVE  ContentInv'
  <1>1. stage # "idle"
    BY DEF Working
  <1>2. /\ source' \in Configs /\ version' \in Versions
        /\ StoreIn(store', Stored(source')) /\ SavedAt(store', saved', version')
    BY <1>1, Zenon DEF ContentInv
  <1>3. /\ CanClassify(source', FilesOf(version'))
        /\ decided' = DecidedOf(source', version')
        /\ \E n \in Nat : Through(source', version', n, todo', saved', attempts')
    BY Zenon DEF ContentInv
  <1>4. todo' # <<>> /\ WorkRight(source', version', stage', Head(todo'), work')
    BY Zenon
  <1> QED
    BY <1>2, <1>3, <1>4 DEF ContentInv, Working

LEMMA ExtractKeeps ==
  ASSUME ContentInv, ExtractFile
  PROVE  ContentInv'
  <1> DEFINE kind == SelectExtractor(Artifact)
             result == Extract(kind, Artifact, FileOf(version, Artifact))
  <1>1. stage = "extract" /\ todo # <<>>
    BY DEF ExtractFile
  <1>2. CASE kind = None \/ result.raised
    <2>1. FailRound
      BY <1>2 DEF ExtractFile
    <2> QED
      BY <1>1, <2>1, FailKeeps
  <1>3. CASE ~(kind = None \/ result.raised)
    <2>1. /\ work' = [work EXCEPT !.extractor = kind, !.result = result]
          /\ stage' = "redact"
          /\ UNCHANGED <<source, version, decided, todo, saved, store, attempts>>
      BY <1>3 DEF ExtractFile
    <2>2. result = ResultOf(version, Head(todo))
      BY DEF ResultOf, Artifact
    <2>3. work = [extractor |-> work.extractor, result |-> work.result,
                  cleaned |-> work.cleaned, chunks |-> work.chunks]
      BY DEF ContentInv
    <2> HIDE DEF kind, result
    <2>4. work' = [extractor |-> kind, result |-> result,
                   cleaned |-> work.cleaned, chunks |-> work.chunks]
      BY <2>1, <2>3
    <2>5. /\ work'.extractor = kind /\ work'.result = result /\ ~result.raised
          /\ work' = [extractor |-> work'.extractor, result |-> work'.result,
                      cleaned |-> work'.cleaned, chunks |-> work'.chunks]
      BY <1>3, <2>4 DEF result
    <2>8. kind = SelectExtractor(Head(todo))
      BY DEF kind, Artifact
    <2>6. WorkRight(source, version, stage', Head(todo), work')
      BY <2>1, <2>2, <2>5, <2>8 DEF WorkRight
    <2>7. stage \in Working /\ stage' \in {"redact", "chunk", "store"}
      BY <1>1, <2>1 DEF Working
    <2> QED
      BY <1>1, <2>1, <2>5, <2>6, <2>7, WorkKeeps
  <1> QED
    BY <1>2, <1>3

LEMMA RedactKeeps ==
  ASSUME ContentInv, RedactResult
  PROVE  ContentInv'
  <1> DEFINE cleaned == [i \in DOMAIN work.result.candidates |->
                           Sanitized(work.result.candidates[i], source.labels)]
  <1>1. /\ stage = "redact" /\ stage' = "chunk"
        /\ work' = [work EXCEPT !.cleaned = cleaned]
        /\ UNCHANGED <<source, version, decided, todo, saved, store, attempts>>
    BY DEF RedactResult
  <1>2. /\ todo # <<>> /\ work.result = ResultOf(version, Head(todo))
        /\ work.extractor = SelectExtractor(Head(todo)) /\ ~work.result.raised
    BY <1>1 DEF ContentInv, WorkRight
  <1>3. work = [extractor |-> work.extractor, result |-> work.result,
                cleaned |-> work.cleaned, chunks |-> work.chunks]
    BY DEF ContentInv
  <1>4. cleaned = CleanedOf(source, version, Head(todo))
    BY <1>2 DEF CleanedOf
  <1> HIDE DEF cleaned
  <1>5. work' = [extractor |-> work.extractor, result |-> work.result,
                 cleaned |-> cleaned, chunks |-> work.chunks]
    BY <1>1, <1>3
  <1>6. /\ work'.extractor = work.extractor
        /\ work'.result = work.result /\ work'.cleaned = cleaned
        /\ work' = [extractor |-> work'.extractor, result |-> work'.result,
                    cleaned |-> work'.cleaned, chunks |-> work'.chunks]
    BY <1>5
  <1>7. WorkRight(source, version, stage', Head(todo), work')
    BY <1>1, <1>2, <1>4, <1>6 DEF WorkRight
  <1>8. stage \in Working /\ stage' \in {"redact", "chunk", "store"}
    BY <1>1 DEF Working
  <1> QED
    BY <1>1, <1>2, <1>6, <1>7, <1>8, WorkKeeps

LEMMA ChunkKeeps ==
  ASSUME ContentInv, ChunkCleaned
  PROVE  ContentInv'
  <1> DEFINE chunks == ChunkResult(work.cleaned, SettingsOf(ProfileNamed(Artifact.profile)[1]))
  <1>1. /\ stage = "chunk" /\ stage' = "store"
        /\ work' = [work EXCEPT !.chunks = chunks]
        /\ UNCHANGED <<source, version, decided, todo, saved, store, attempts>>
    BY DEF ChunkCleaned
  <1>2. /\ todo # <<>> /\ work.result = ResultOf(version, Head(todo))
        /\ work.extractor = SelectExtractor(Head(todo)) /\ ~work.result.raised
        /\ work.cleaned = CleanedOf(source, version, Head(todo))
    BY <1>1 DEF ContentInv, WorkRight
  <1>3. work = [extractor |-> work.extractor, result |-> work.result,
                cleaned |-> work.cleaned, chunks |-> work.chunks]
    BY DEF ContentInv
  <1>4. chunks = MadeOf(source, version, Head(todo))
    BY <1>2 DEF MadeOf, SettingsFor, Artifact
  <1> HIDE DEF chunks
  <1>5. work' = [extractor |-> work.extractor, result |-> work.result,
                 cleaned |-> work.cleaned, chunks |-> chunks]
    BY <1>1, <1>3
  <1>6. /\ work'.extractor = work.extractor
        /\ work'.result = work.result /\ work'.cleaned = work.cleaned /\ work'.chunks = chunks
        /\ work' = [extractor |-> work'.extractor, result |-> work'.result,
                    cleaned |-> work'.cleaned, chunks |-> work'.chunks]
    BY <1>5
  <1>7. WorkRight(source, version, stage', Head(todo), work')
    BY <1>2, <1>4, <1>6 DEF WorkRight
  <1>8. stage \in Working /\ stage' \in {"redact", "chunk", "store"}
    BY <1>1 DEF Working
  <1> QED
    BY <1>1, <1>2, <1>6, <1>7, <1>8, WorkKeeps

-----------------------------------------------------------------------------
(* The next file is one that is kept, and with it one more is through.     *)
LEMMA AtHand ==
  ASSUME NEW v \in Versions, NEW src, CanClassify(src, FilesOf(v)),
         NEW n, NEW rest, NEW keys, NEW tried,
         Through(src, v, n, rest, keys, tried), rest # <<>>
  PROVE  LET a == Head(rest)
         IN  /\ a \in KeptBy(src, v)
             /\ Through(src, v, n + 1, Tail(rest), keys \cup Keys(MadeOf(src, v, a)),
                        tried \cup {Attempt(v, a)})
  <1>1. PICK found, T : found = ArtifactsOf(src, v) /\ T = ToSet(found)
    OBVIOUS
  <1>2. found \in Seq(T)
    BY <1>1, ArtifactFacts, Zenon
  <1>3. /\ n \in 0..Len(found) /\ rest = SubSeq(found, n + 1, Len(found))
        /\ keys = UNION {Keys(MadeOf(src, v, found[i])) : i \in 1..n}
        /\ \A i \in 1..n : Attempt(v, found[i]) \in tried
    BY <1>1, Zenon DEF Through
  <1>4. /\ n + 1 \in 0..Len(found) /\ n + 1 \in DOMAIN found
        /\ Head(rest) = found[n + 1]
        /\ Tail(rest) = SubSeq(found, n + 1 + 1, Len(found))
    BY <1>2, <1>3, RestFacts
  <1> DEFINE a == found[n + 1]
             K(i) == Keys(MadeOf(src, v, found[i]))
  <1>5. a \in KeptBy(src, v)
    <2>1. a \in ToSet(found)
      BY <1>4 DEF ToSet
    <2> QED
      BY <1>1, <2>1, Zenon DEF KeptBy
  <1>6. 1..(n + 1) = 1..n \cup {n + 1}
    <2>1. Len(found) \in Nat
      BY <1>2, LenProperties
    <2> QED
      BY <1>3, <2>1
  <1>7. keys \cup K(n + 1) = UNION {K(i) : i \in 1..(n + 1)}
    <2>1. PICK I, J : I = 1..n /\ J = 1..(n + 1)
      OBVIOUS
    <2>2. J = I \cup {n + 1} /\ keys = UNION {K(i) : i \in I}
      BY <1>3, <1>6, <2>1
    <2> HIDE DEF K
    <2> QED
      BY <2>1, <2>2
  <1>8. \A i \in 1..(n + 1) : Attempt(v, found[i]) \in tried \cup {Attempt(v, a)}
    BY <1>3, <1>6, Zenon
  <1>9. Through(src, v, n + 1, Tail(rest), keys \cup K(n + 1), tried \cup {Attempt(v, a)})
    BY <1>1, <1>4, <1>7, <1>8, Zenon DEF Through
  <1> QED
    BY <1>4, <1>5, <1>9

LEMMA StoreKeeps ==
  ASSUME ContentInv, StoreChunks
  PROVE  ContentInv'
  <1>1. stage = "store"
    BY DEF StoreChunks
  <1>2. CASE ~(\A i \in DOMAIN work.chunks : Accepts(work.chunks[i]))
    <2>1. FailRound
      BY <1>2 DEF StoreChunks
    <2> QED
      BY <1>1, <2>1, FailKeeps
  <1>3. CASE \A i \in DOMAIN work.chunks : Accepts(work.chunks[i])
    <2> DEFINE a == Head(todo)
               chunks == MadeOf(source, version, a)
    <2>1. /\ todo # <<>> /\ work.result = ResultOf(version, a) /\ work.chunks = chunks
      BY <1>1 DEF ContentInv, WorkRight
    <2>2. /\ store' = SavedAll(store, chunks) /\ saved' = saved \cup Keys(chunks)
          /\ attempts' = attempts \cup {Attempt(version, a)}
          /\ todo' = Tail(todo) /\ work' = NoWork /\ stage' = "extract"
          /\ UNCHANGED <<source, version, decided, rounds>>
      BY <1>3, <2>1 DEF StoreChunks, Attempt, Artifact
    <2>3. /\ source \in Configs /\ version \in Versions
          /\ CanClassify(source, FilesOf(version))
          /\ decided = DecidedOf(source, version)
          /\ StoreIn(store, Stored(source)) /\ SavedAt(store, saved, version)
      BY <1>1 DEF ContentInv, Working
    <2>4. PICK n \in Nat : Through(source, version, n, todo, saved, attempts)
      BY <1>1 DEF ContentInv, Working
    <2>5. /\ a \in KeptBy(source, version)
          /\ Through(source, version, n + 1, Tail(todo), saved \cup Keys(chunks),
                     attempts \cup {Attempt(version, a)})
      BY <2>1, <2>3, <2>4, AtHand, Zenon
    <2>6. chunks \in Seq(Stored(source))
      <3>1. \A i \in DOMAIN chunks : Accepts(chunks[i])
        BY <1>3, <2>1
      <3> QED
        BY <2>3, <2>5, <3>1, AcceptedListed, Zenon
    <2>7. \A c \in Stored(source) : c.text \in Seq(Token)
      BY StoredFacts, Zenon
    <2> HIDE DEF chunks, a
    <2>8. /\ StoreIn(store', Stored(source))
          /\ AfterAll(store, chunks, Len(chunks), store')
      BY <2>2, <2>3, <2>6, <2>7, SavedAllFacts, Zenon
    <2>9. SavedAt(store', saved', version)
      <3>1. PICK m \in Nat : m = Len(chunks) /\ DOMAIN chunks = 1..m
        <4>1. PICK S : S = Stored(source)
          OBVIOUS
        <4>2. chunks \in Seq(S)
          BY <2>6, <4>1
        <4> QED
          BY <4>2
      <3>2. Keys(chunks) = {chunks[i].key : i \in 1..m}
        BY <3>1 DEF Keys
      <3>3. /\ DOMAIN store' = DOMAIN store \cup Keys(chunks)
            /\ \A i \in 1..m : RowAt(store'[chunks[i].key].row, version)
            /\ \A k \in DOMAIN store \ Keys(chunks) : store'[k] = store[k]
        BY <2>8, <3>1, <3>2, Zenon DEF AfterAll
      <3>4. \A k \in Keys(chunks) : RowAt(store'[k].row, version)
        BY <3>2, <3>3
      <3>5. \A k \in saved : k \in DOMAIN store /\ RowAt(store[k].row, version)
        BY <2>3, Zenon DEF SavedAt
      <3>6. \A k \in saved : k \notin Keys(chunks) => RowAt(store'[k].row, version)
        <4> SUFFICES ASSUME NEW k \in saved, k \notin Keys(chunks)
                     PROVE  RowAt(store'[k].row, version)
          OBVIOUS
        <4>1. store'[k] = store[k]
          BY <3>3, <3>5, Zenon
        <4> QED
          BY <3>5, <4>1, Zenon
      <3>7. \A k \in saved \cup Keys(chunks) :
               k \in DOMAIN store' /\ RowAt(store'[k].row, version)
        BY <3>3, <3>4, <3>5, <3>6, Zenon
      <3> QED
        BY <2>2, <3>7, Zenon DEF SavedAt
    <2>10. \E m \in Nat : Through(source', version', m, todo', saved', attempts')
      <3>1. Through(source', version', n + 1, todo', saved', attempts')
        BY <2>2, <2>5, Zenon DEF chunks, a
      <3>2. n + 1 \in Nat
        OBVIOUS
      <3> QED
        BY <3>1, <3>2, Zenon
    <2>11. work' = [extractor |-> work'.extractor, result |-> work'.result,
                    cleaned |-> work'.cleaned, chunks |-> work'.chunks]
      <3> DEFINE r == Raised
      <3>1. work' = [extractor |-> None, result |-> r, cleaned |-> <<>>, chunks |-> <<>>]
        BY <2>2 DEF NoWork
      <3> HIDE DEF r, None
      <3> QED
        BY <3>1
    <2>12. /\ source' \in Configs /\ version' \in Versions
           /\ StoreIn(store', Stored(source')) /\ SavedAt(store', saved', version')
           /\ CanClassify(source', FilesOf(version'))
           /\ decided' = DecidedOf(source', version')
      BY <2>2, <2>3, <2>8, <2>9, Zenon
    <2> QED
      BY <2>2, <2>10, <2>11, <2>12 DEF ContentInv, Working
  <1> QED
    BY <1>2, <1>3

LEMMA RetiredFacts ==
  ASSUME NEW O, NEW rows, StoreIn(rows, O), NEW keys, NEW v \in Versions, SavedAt(rows, keys, v)
  PROVE  LET r == RetiredAbsent(rows, keys)
         IN  StoreIn(r, O) /\ SavedAt(r, keys, v) /\ Current(r) = keys
  <1> DEFINE r == RetiredAbsent(rows, keys)
  <1>1. DOMAIN r = DOMAIN rows
    BY DEF RetiredAbsent
  <1>2. \A k \in DOMAIN rows :
           r[k] = IF k \in Current(rows) \ keys
                  THEN [rows[k] EXCEPT !.row = Rows!Retired(@)] ELSE rows[k]
    BY DEF RetiredAbsent
  <1>3. r = [k \in DOMAIN rows |-> r[k]]
    BY DEF RetiredAbsent
  <1> HIDE DEF r
  <1>4. ASSUME NEW k \in DOMAIN rows
        PROVE  /\ r[k] \in Entry(O)
               /\ k \in keys => r[k] = rows[k]
               /\ Rows!HasCurrent(r[k].row) => k \in keys
    <2>1. rows[k] \in Entry(O)
      BY DEF StoreIn
    <2>2. PICK row \in RowSet, c \in O :
             rows[k] = [row |-> row, of |-> c] /\ RowSettled(row)
      BY <2>1 DEF Entry
    <2>3. CASE k \in Current(rows) \ keys
      <3>1. r[k] = [row |-> Rows!Retired(row), of |-> c]
        BY <1>2, <2>2, <2>3
      <3>2. /\ Rows!Retired(row) \in RowSet /\ ~Rows!HasCurrent(Rows!Retired(row))
            /\ RowSettled(Rows!Retired(row))
        BY RetiredRow
      <3>3. PICK new : new = Rows!Retired(row)
        OBVIOUS
      <3>4. r[k] = [row |-> new, of |-> c] /\ new \in RowSet /\ RowSettled(new)
            /\ ~Rows!HasCurrent(new)
        BY <3>1, <3>2, <3>3
      <3>5. r[k] \in Entry(O)
        BY <3>4 DEF Entry
      <3> QED
        BY <2>3, <3>4, <3>5
    <2>4. CASE k \notin Current(rows) \ keys
      <3>1. r[k] = rows[k]
        BY <1>2, <2>4
      <3> QED
        BY <2>1, <2>4, <3>1 DEF Current
    <2> QED
      BY <2>3, <2>4
  <1>5. StoreIn(r, O)
    BY <1>1, <1>3, <1>4 DEF StoreIn
  <1>6. SavedAt(r, keys, v)
    BY <1>1, <1>4 DEF SavedAt
  <1>7. Current(r) = keys
    <2>1. \A k \in keys : k \in DOMAIN r /\ Rows!HasCurrent(r[k].row)
      <3>1. \A k \in keys : k \in DOMAIN r /\ RowAt(r[k].row, v)
        BY <1>6 DEF SavedAt
      <3> QED
        BY <3>1 DEF RowAt, Rows!HasCurrent
    <2> QED
      BY <1>1, <1>4, <2>1 DEF Current
  <1> QED
    BY <1>5, <1>6, <1>7 DEF r

LEMMA RetireKeeps ==
  ASSUME ContentInv, RetireAbsent
  PROVE  ContentInv'
  <1>1. /\ stage = "extract" /\ todo = <<>>
        /\ store' = RetiredAbsent(store, saved) /\ stage' = "done"
        /\ UNCHANGED <<source, version, decided, todo, work, saved, attempts, rounds>>
    BY DEF RetireAbsent
  <1>2. /\ source \in Configs /\ version \in Versions
        /\ CanClassify(source, FilesOf(version))
        /\ decided = DecidedOf(source, version)
        /\ StoreIn(store, Stored(source)) /\ SavedAt(store, saved, version)
        /\ \E n \in Nat : Through(source, version, n, todo, saved, attempts)
    BY <1>1 DEF ContentInv, Working
  <1>3. /\ StoreIn(store', Stored(source)) /\ SavedAt(store', saved, version)
        /\ Current(store') = saved
    BY <1>1, <1>2, RetiredFacts, Zenon
  <1>4. work' = [extractor |-> work'.extractor, result |-> work'.result,
                 cleaned |-> work'.cleaned, chunks |-> work'.chunks]
    BY <1>1, Zenon DEF ContentInv
  <1>5. /\ source' \in Configs /\ version' \in Versions
        /\ StoreIn(store', Stored(source')) /\ SavedAt(store', saved', version')
        /\ CanClassify(source', FilesOf(version'))
        /\ decided' = DecidedOf(source', version')
        /\ \E n \in Nat : Through(source', version', n, todo', saved', attempts')
        /\ Current(store') = saved'
    BY <1>1, <1>2, <1>3, Zenon
  <1> QED
    BY <1>1, <1>4, <1>5 DEF ContentInv, Working

(* Every step of a round keeps the invariant.                              *)
LEMMA RoundKeeps == ContentInv /\ [Next]_vars => ContentInv'
  <1> SUFFICES ASSUME ContentInv, [Next]_vars
               PROVE  ContentInv'
    OBVIOUS
  <1>1. CASE \E v \in Versions : Fetch(v)
    BY <1>1, FetchKeeps
  <1>2. CASE DiscoverFiles
    BY <1>2, DiscoverKeeps
  <1>3. CASE ExtractFile
    BY <1>3, ExtractKeeps
  <1>4. CASE RedactResult
    BY <1>4, RedactKeeps
  <1>5. CASE ChunkCleaned
    BY <1>5, ChunkKeeps
  <1>6. CASE StoreChunks
    BY <1>6, StoreKeeps
  <1>7. CASE RetireAbsent
    BY <1>7, RetireKeeps
  <1>8. CASE UNCHANGED vars
    <2>1. UNCHANGED <<source, version, stage, decided, todo, work, saved, store, attempts>>
      BY <1>8 DEF vars
    <2>2. Current(store') = Current(store)
      BY <2>1
    <2> QED
      BY <2>1, <2>2, Zenon DEF ContentInv
  <1> QED
    BY <1>1, <1>2, <1>3, <1>4, <1>5, <1>6, <1>7, <1>8 DEF Next

(* In every state of a round the store, the files left and the work at     *)
(* hand are what the snapshot's files, worked out anew, say they are       *)
(* (test_chunking_composition.py).                                         *)
THEOREM RoundTypedAndTrue == Spec => []ContentInv
  BY RoundStarts, RoundKeeps, PTL DEF Spec

-----------------------------------------------------------------------------
(* What the invariant says of a round that is done.                        *)

LEMMA DoneRight ==
  ASSUME ContentInv, stage = "done"
  PROVE  StoreMatchesSnapshot
  <1>1. /\ source \in Configs /\ version \in Versions
        /\ CanClassify(source, FilesOf(version))
        /\ StoreIn(store, Stored(source)) /\ SavedAt(store, saved, version)
        /\ todo = <<>> /\ Current(store) = saved
    BY DEF ContentInv, Working
  <1>2. PICK n \in Nat : Through(source, version, n, todo, saved, attempts)
    BY DEF ContentInv, Working
  <1>3. PICK found, T : found = ArtifactsOf(source, version) /\ T = ToSet(found)
    OBVIOUS
  <1>4. found \in Seq(T)
    BY <1>1, <1>3, ArtifactFacts, Zenon
  <1>5. /\ n \in 0..Len(found) /\ todo = SubSeq(found, n + 1, Len(found))
        /\ saved = UNION {Keys(MadeOf(source, version, found[i])) : i \in 1..n}
        /\ \A i \in 1..n : Attempt(version, found[i]) \in attempts
    BY <1>2, <1>3, Zenon DEF Through
  <1>6. n = Len(found)
    BY <1>1, <1>4, <1>5, RestFacts
  <1>7. 1..n = DOMAIN found
    BY <1>4, <1>6
  <1>8. \A a \in T : \E i \in 1..n : a = found[i]
    BY <1>3, <1>7 DEF ToSet
  <1>9. \A i \in 1..n : found[i] \in T
    BY <1>3, <1>7 DEF ToSet
  <1>10. KeptOf(version) = T
    BY <1>1, <1>3, KeptTold, Zenon DEF KeptOf
  <1>11. \A a \in T : KeysOf(version, a) = Keys(MadeOf(source, version, a))
    BY DEF KeysOf, MadeOf, CleanedOf, SettingsFor
  <1>12. Current(store) = UNION {KeysOf(version, a) : a \in T}
    <2> DEFINE K(a) == KeysOf(version, a)
    <2>1. saved = UNION {K(found[i]) : i \in 1..n}
      <3>1. \A i \in 1..n : K(found[i]) = Keys(MadeOf(source, version, found[i]))
        BY <1>9, <1>11
      <3> HIDE DEF K
      <3> QED
        BY <1>5, <3>1
    <2> HIDE DEF K
    <2>2. UNION {K(found[i]) : i \in 1..n} = UNION {K(a) : a \in T}
      BY <1>8, <1>9
    <2> QED
      BY <1>1, <2>1, <2>2 DEF K
  <1>13. ASSUME NEW k \in DOMAIN store
         PROVE  IF k \in Current(store)
                THEN /\ store[k].row.version = version /\ store[k].row.cited = version
                     /\ \A v \in Versions : store[k].row.member[v] = "current" <=> v = version
                ELSE store[k].row.version = None
    <2>1. CASE k \in Current(store)
      <3>1. RowAt(store[k].row, version)
        BY <1>1, <2>1 DEF SavedAt
      <3> QED
        BY <2>1, <3>1 DEF RowAt
    <2>2. CASE k \notin Current(store)
      <3>1. ~Rows!HasCurrent(store[k].row)
        BY <2>2 DEF Current
      <3>2. store[k] \in Entry(Stored(source))
        BY <1>1 DEF StoreIn
      <3>3. RowSettled(store[k].row)
        BY <3>2 DEF Entry
      <3> QED
        BY <2>2, <3>1, <3>3, Zenon DEF RowSettled
    <2> QED
      BY <2>1, <2>2
  <1>14. \A a \in T : [path |-> a.path, version |-> version,
                       status |-> Status(ResultOf(version, a))] \in attempts
    BY <1>5, <1>8, Zenon DEF Attempt
  <1> QED
    BY <1>10, <1>12, <1>13, <1>14, Zenon DEF StoreMatchesSnapshot

(* After a round that went through, the chunks that are current are those  *)
(* of its snapshot and no others, each at the round's version, and every   *)
(* kept file has an attempt on record, whatever the rounds before it left  *)
(* behind when they failed (chunks.py:20-160).                             *)
THEOREM StoreIsTheSnapshots == Spec => []StoreMatchesSnapshot
  <1>1. ContentInv => StoreMatchesSnapshot
    <2>1. CASE stage = "done"
      BY <2>1, DoneRight
    <2>2. CASE stage # "done"
      BY <2>2, Zenon DEF StoreMatchesSnapshot
    <2> QED
      BY <2>1, <2>2
  <1> QED
    BY <1>1, RoundTypedAndTrue, PTL

-----------------------------------------------------------------------------
(* What the invariant says of the windows of the file at hand.             *)

LEMMA HandFacts ==
  ASSUME ContentInv, stage \in {"redact", "chunk", "store"}
  PROVE  /\ todo # <<>> /\ version \in Versions /\ Artifact \in KeptBy(source, version)
         /\ WorkRight(source, version, stage, Artifact, work)
  <1>1. /\ todo # <<>> /\ version \in Versions /\ CanClassify(source, FilesOf(version))
        /\ WorkRight(source, version, stage, Head(todo), work)
    BY DEF ContentInv, Working
  <1>2. PICK n \in Nat : Through(source, version, n, todo, saved, attempts)
    BY DEF ContentInv, Working
  <1>3. Head(todo) \in KeptBy(source, version)
    BY <1>1, <1>2, AtHand, Zenon
  <1> QED
    BY <1>1, <1>3, Zenon DEF Artifact

(* A text that fits is one chunk; a longer one is cut into windows no      *)
(* longer than the profile's size that begin with its beginning, end with  *)
(* its end and leave no stretch of one more than the overlap apart         *)
(* (base.py:264-276).                                                      *)
THEOREM WindowsLoseNothing == Spec => []WindowsCover
  <1>1. ContentInv => WindowsCover
    <2> SUFFICES ASSUME ContentInv, stage = "store"
                 PROVE  WindowsCover
      BY Zenon DEF WindowsCover
    <2>1. /\ version \in Versions /\ Artifact \in KeptBy(source, version)
          /\ work.cleaned = CleanedOf(source, version, Artifact)
      BY HandFacts DEF WorkRight
    <2>2. PICK settings \in Sizes : settings = SettingsOf(ProfileNamed(Artifact.profile)[1])
      BY <2>1, KeptFacts DEF SettingsFor
    <2>3. PICK f \in DOMAIN Snapshots[version].files :
             FileOf(version, Artifact) = Snapshots[version].files[f]
      BY <2>1, KeptFacts, Zenon
    <2>4. PICK cleaned, a, v, src : /\ cleaned = work.cleaned /\ a = Artifact
                                    /\ v = version /\ src = source
      OBVIOUS
    <2>5. PICK n \in Nat : /\ cleaned = [i \in 1..n |-> cleaned[i]]
                           /\ \A i \in 1..n : Cleaned(src.labels, cleaned[i])
      <3>1. /\ v \in Versions /\ f \in DOMAIN Snapshots[v].files
            /\ FileOf(v, a) = Snapshots[v].files[f] /\ cleaned = CleanedOf(src, v, a)
        BY <2>1, <2>3, <2>4, Zenon
      <3> QED
        BY <3>1, CleanedFacts, Zenon
    <2>6. \A i \in DOMAIN cleaned : cleaned[i].text \in Seq(Token)
      BY <2>5 DEF Cleaned
    <2>7. ASSUME NEW i \in DOMAIN cleaned
          PROVE  Covers(Strip(cleaned[i].text), SplitText(cleaned[i].text, settings),
                        settings.size, Overlap(settings))
      BY <2>6, WindowsHold
    <2>8. \A i \in DOMAIN work.cleaned :
            Covers(Strip(work.cleaned[i].text), SplitText(work.cleaned[i].text, settings),
                   settings.size, Overlap(settings))
      BY <2>4, <2>7, Zenon
    <2> QED
      BY <2>2, <2>8, Zenon DEF WindowsCover, Covers, KeptIn
  <1> QED
    BY <1>1, RoundTypedAndTrue, PTL

-----------------------------------------------------------------------------
(* What the invariant says of the texts of the store.                      *)

(* No file holds a marker of the redaction's own.                          *)
TextsUnmarked ==
  \A v \in Versions : \A f \in DOMAIN Snapshots[v].files :
    ReadAs(Snapshots[v].files[f], Token \ (Marks \X Nat))

LEMMA UnmarkedCandidates ==
  ASSUME TextsUnmarked, NEW v \in Versions, NEW a,
         NEW f \in DOMAIN Snapshots[v].files, FileOf(v, a) = Snapshots[v].files[f]
  PROVE  \E C : /\ ResultOf(v, a).candidates \in Seq(C)
                /\ \A c \in C : c.text \in Seq(Token) /\ ~Says(c.text, Marks)
  <1> DEFINE file == FileOf(v, a)
             cs == ResultOf(v, a).candidates
  <1>1. PICK T : T = Token \ (Marks \X Nat)
    OBVIOUS
  <1>2. ReadAs(file, T)
    BY <1>1 DEF TextsUnmarked
  <1>3. Space \in T
    <2>1. Space \in Token
      BY DEF Space, Token, Classes
    <2>2. Space \notin Marks \X Nat
      BY DEF Space, Marks
    <2> QED
      BY <1>1, <2>1, <2>2
  <1>4. cs = Extract(SelectExtractor(a), a, file).candidates
    BY DEF ResultOf
  <1> HIDE DEF cs, file
  <1>5. CandidatesIn(cs, T)
    BY <1>2, <1>3, <1>4, ExtractTyped
  <1>6. PICK C : cs \in Seq(C) /\ \A c \in C : c.text \in Seq(T)
    BY <1>5, Zenon DEF CandidatesIn
  <1>7. ASSUME NEW text \in Seq(T)
        PROVE  text \in Seq(Token) /\ ~Says(text, Marks)
    <2>1. \A i \in DOMAIN text : text[i] \in T
      OBVIOUS
    <2>2. T \subseteq Token
      BY <1>1
    <2>3. text \in Seq(Token)
      BY <2>2
    <2>4. \A t \in T : t[1] \notin Marks
      BY <1>1 DEF Token
    <2> QED
      BY <2>1, <2>3, <2>4 DEF Says
  <1> QED
    BY <1>6, <1>7 DEF cs

LEMMA UnmarkedCleaned ==
  ASSUME TextsUnmarked, NEW v \in Versions, NEW src, NEW a,
         NEW f \in DOMAIN Snapshots[v].files, FileOf(v, a) = Snapshots[v].files[f]
  PROVE  \A i \in DOMAIN CleanedOf(src, v, a) : MarkersTold(CleanedOf(src, v, a)[i])
  <1>1. PICK cs : cs = ResultOf(v, a).candidates
    OBVIOUS
  <1>2. PICK C : cs \in Seq(C) /\ \A c \in C : c.text \in Seq(Token) /\ ~Says(c.text, Marks)
    BY <1>1, UnmarkedCandidates
  <1>3. \A i \in DOMAIN cs : cs[i] \in C
    BY <1>2
  <1>4. CleanedOf(src, v, a) = [i \in DOMAIN cs |-> Sanitized(cs[i], src.labels)]
    BY <1>1, Zenon DEF CleanedOf
  <1>5. \A i \in DOMAIN cs : MarkersTold(Sanitized(cs[i], src.labels))
    BY <1>2, <1>3, SanitizedFacts
  <1>6. PICK cleaned : cleaned = CleanedOf(src, v, a)
    OBVIOUS
  <1>7. DOMAIN cleaned = DOMAIN cs /\ \A i \in DOMAIN cs : cleaned[i] = Sanitized(cs[i], src.labels)
    BY <1>4, <1>6
  <1> QED
    BY <1>5, <1>6, <1>7

LEMMA MadeMarked ==
  ASSUME TextsUnmarked, NEW v \in Versions, NEW src, NEW a \in KeptBy(src, v),
         NEW c \in ToSet(MadeOf(src, v, a))
  PROVE  MarkersTold(c)
  <1>1. PICK f \in DOMAIN Snapshots[v].files : FileOf(v, a) = Snapshots[v].files[f]
    BY KeptFacts
  <1>2. PICK cleaned : cleaned = CleanedOf(src, v, a)
    OBVIOUS
  <1>3. PICK n \in Nat : /\ cleaned = [i \in 1..n |-> cleaned[i]]
                         /\ \A i \in 1..n : Cleaned(src.labels, cleaned[i])
    BY <1>1, <1>2, CleanedFacts
  <1>4. \A i \in DOMAIN cleaned : cleaned[i].text \in Seq(Token)
    BY <1>3 DEF Cleaned
  <1>5. c \in CutsOf(cleaned)
    <2>1. MadeOf(src, v, a) \in Seq(CutsOf(cleaned))
      BY <1>1, <1>2, KeptFacts, MadeFacts
    <2> QED
      BY <2>1 DEF ToSet
  <1>6. PICK i \in DOMAIN cleaned : c \in CutFrom(cleaned[i])
    BY <1>5, Zenon DEF CutsOf
  <1>7. MarkersTold(cleaned[i])
    BY <1>1, <1>2, UnmarkedCleaned
  <1>8. /\ c.sensitivity = cleaned[i].sensitivity
        /\ Says(c.text, {"secret label"}) => Says(cleaned[i].text, {"secret label"})
        /\ Says(c.text, {"pii label"}) => Says(cleaned[i].text, {"pii label"})
    BY <1>4, <1>6, CutSays
  <1> QED
    BY <1>7, <1>8, Zenon DEF MarkersTold

LEMMA LeftInNone ==
  ASSUME NEW text, NEW labels, \A name \in Sought(labels) : Clear(text, name)
  PROVE  LeftIn(text, labels) = {}
  BY DEF LeftIn, Clear

LEMMA LeftInAtEdges ==
  ASSUME NEW text, NEW labels, \A name \in Sought(labels) : ClearWithin(text, name)
  PROVE  \A m \in LeftIn(text, labels) : m[1] = 1 \/ m[2] = Len(text)
  BY DEF LeftIn, ClearWithin

LEMMA HandClean ==
  ASSUME ContentInv, stage = "chunk", NEW i \in DOMAIN work.cleaned
  PROVE  LeftIn(work.cleaned[i].text, source.labels) = {}
  <1>1. PICK a \in KeptBy(source, version) : work.cleaned = CleanedOf(source, version, a)
    BY HandFacts DEF WorkRight
  <1>2. /\ version \in Versions
        /\ \E f \in DOMAIN Snapshots[version].files :
             FileOf(version, a) = Snapshots[version].files[f]
    BY HandFacts, KeptFacts
  <1>3. PICK cleaned : cleaned = work.cleaned /\ cleaned = CleanedOf(source, version, a)
    BY <1>1
  <1>4. PICK f \in DOMAIN Snapshots[version].files :
           FileOf(version, a) = Snapshots[version].files[f]
    BY <1>2, Zenon
  <1>5. PICK v, src : v = version /\ src = source
    OBVIOUS
  <1>6. PICK n \in Nat : /\ cleaned = [k \in 1..n |-> cleaned[k]]
                         /\ \A k \in 1..n : Cleaned(src.labels, cleaned[k])
    <2>1. /\ v \in Versions /\ f \in DOMAIN Snapshots[v].files
          /\ FileOf(v, a) = Snapshots[v].files[f] /\ cleaned = CleanedOf(src, v, a)
      BY <1>2, <1>3, <1>4, <1>5, Zenon
    <2> QED
      BY <2>1, CleanedFacts, Zenon
  <1>7. Cleaned(source.labels, cleaned[i])
    <2>1. DOMAIN cleaned = 1..n
      BY <1>6
    <2> QED
      BY <1>3, <1>5, <1>6, <2>1
  <1> QED
    BY <1>3, <1>7, LeftInNone, Zenon DEF Cleaned

(* What a builtin rule that applies to the source still matches in a       *)
(* sanitized text holds or touches a marker, and in a stored chunk, or     *)
(* stands at the chunk's beginning or end; no row's labels are looser than *)
(* the source's and than what was replaced in its own window ask for.      *)
(* That a marker tells what was replaced takes files that hold no marker   *)
(* of their own.  The rest of a secret whose beginning another rule took   *)
(* is a match of none, and not excluded                                    *)
(* (redaction.py:40-148, classification.py:9-37, policy.py:49-72).         *)
THEOREM StoredTextsClean ==
  ASSUME TextsUnmarked
  PROVE  Spec => []TextsSanitized
  <1>1. ContentInv => TextsSanitized
    <2>1. ASSUME ContentInv, NEW k \in DOMAIN store
          PROVE  LET c == store[k].of
                 IN  /\ \A m \in LeftIn(c.text, source.labels) : m[1] = 1 \/ m[2] = Len(c.text)
                     /\ Says(c.text, {"secret label"}) => c.sensitivity = "restricted"
                     /\ Says(c.text, {"pii label"}) =>
                          c.sensitivity \in {"confidential", "restricted"}
                     /\ SensitivityRank(c.sensitivity)
                          >= SensitivityRank(source.labels.sensitivity)
                     /\ c.license = "allowed" => c.licensed \in AllowedLicenses
      <3>1. store[k] \in Entry(Stored(source))
        BY <2>1 DEF ContentInv, StoreIn
      <3>2. PICK c \in Stored(source) : c = store[k].of
        BY <3>1 DEF Entry
      <3>3. /\ Accepts(c) /\ CutCleaned(source.labels, c)
            /\ \E v \in Versions : \E a \in KeptBy(source, v) :
                 c \in ToSet(MadeOf(source, v, a))
        BY StoredFacts, Zenon
      <3>4. MarkersTold(c)
        BY <3>3, MadeMarked, Zenon
      <3>5. c.license = "allowed" => c.licensed \in AllowedLicenses
        BY <3>3 DEF Accepts
      <3>6. \A m \in LeftIn(c.text, source.labels) : m[1] = 1 \/ m[2] = Len(c.text)
        BY <3>3, LeftInAtEdges, Zenon DEF CutCleaned
      <3> QED
        BY <3>2, <3>3, <3>4, <3>5, <3>6 DEF CutCleaned, MarkersTold
    <2>2. ASSUME ContentInv, stage = "chunk"
          PROVE  \A i \in DOMAIN work.cleaned : LeftIn(work.cleaned[i].text, source.labels) = {}
      BY <2>2, HandClean
    <2> QED
      BY <2>1, <2>2, Zenon DEF TextsSanitized
  <1> QED
    BY <1>1, RoundTypedAndTrue, PTL

-----------------------------------------------------------------------------
(* What discovery tells of every file.                                     *)

(* The rules a kept file has passed.                                       *)
Passed(src, a) ==
  /\ src.include = {} \/ \E P \in src.include : a.path \in P
  /\ (\E P \in src.exclude : a.path \in P) =>
       src.reason /\ \E P \in src.override : a.path \in P
  /\ About[a.path].generated \/ About[a.path].vendored =>
       \/ About[a.path].generated /\ (src.generated \/ ProfileNamed(a.profile)[1].generated)
       \/ About[a.path].vendored /\ (src.vendored \/ ProfileNamed(a.profile)[1].vendored)
       \/ /\ src.reason /\ \E P \in src.exclude : a.path \in P
          /\ \E P \in src.override : a.path \in P

LEMMA PassedFacts ==
  ASSUME NEW src, ProfileKnown(src), NEW f, SkipReason(src, Classified(src, f)) = None
  PROVE  Passed(src, Classified(src, f))
  <1> DEFINE path == Normal[f]
             profile == SelectProfile(src, path)
  <1>1. PICK a : a = Classified(src, f)
    OBVIOUS
  <1>2. /\ a.path = path /\ a.profile = profile.id
        /\ a.overridden = Overridden(src, profile, path)
    BY <1>1 DEF Classified
  <1>3. /\ ~(Matches(path, src.exclude) /\ ~HasExcludeOverride(src, path))
        /\ Included(src, path)
        /\ About[path].generated => a.overridden
        /\ About[path].vendored => a.overridden
    BY <1>1, <1>2 DEF SkipReason, None
  <1>4. ProfileNamed(a.profile)[1] = profile
    BY <1>2, SelectFacts
  <1> HIDE DEF path, profile
  <1>5. /\ src.include = {} \/ \E P \in src.include : a.path \in P
        /\ (\E P \in src.exclude : a.path \in P) =>
             src.reason /\ \E P \in src.override : a.path \in P
    BY <1>2, <1>3, Zenon DEF Included, Matches, HasExcludeOverride
  <1>6. About[a.path].generated \/ About[a.path].vendored =>
          \/ About[a.path].generated /\ (src.generated \/ ProfileNamed(a.profile)[1].generated)
          \/ About[a.path].vendored /\ (src.vendored \/ ProfileNamed(a.profile)[1].vendored)
          \/ /\ src.reason /\ \E P \in src.exclude : a.path \in P
             /\ \E P \in src.override : a.path \in P
    BY <1>2, <1>3, <1>4, Zenon DEF Overridden, HasExcludeOverride, Matches
  <1> QED
    BY <1>1, <1>5, <1>6, Zenon DEF Passed

(* The files left out, each told once after those the fetcher skipped.     *)
ToldOf(files, left, skips, told) ==
  /\ Len(told) = Len(skips) + Cardinality(left)
  /\ \A i \in DOMAIN skips : skips[i] \in ToSet(told)
  /\ \A p \in left : \E i \in DOMAIN told : told[i].locator = Normal[files[p]]

LEMMA ToldFacts ==
  ASSUME NEW src, NEW files \in Seq(Paths), CanClassify(src, files), NEW S,
         NEW skips \in Seq(S)
  PROVE  ToldOf(files, (1..Len(files)) \ KeptPlaces(src, files), skips,
                Discover(src, [files |-> files, skipped |-> skips]).skipped)
  <1> DEFINE ds == Decided(src, files)
             kept == KeptPlaces(src, files)
             left == (1..Len(files)) \ kept
             rest == KeptAt(ds, left)
             said == [i \in DOMAIN rest |-> [locator |-> rest[i].artifact.path,
                                             reason |-> rest[i].reason]]
             told == Discover(src, [files |-> files, skipped |-> skips]).skipped
  <1>1. PICK n \in Nat : n = Len(files) /\ DOMAIN files = 1..n
    OBVIOUS
  <1>2. DOMAIN ds = 1..n
    BY <1>1, DecidedFacts
  <1>3. told = skips \o said
    <2>1. {i \in DOMAIN ds : ds[i].reason = None} = kept
      BY DecidedFacts DEF KeptPlaces
    <2>2. told = skips \o LET l == KeptAt(ds, (DOMAIN ds) \ {i \in DOMAIN ds : ds[i].reason = None})
                          IN  [i \in DOMAIN l |-> [locator |-> l[i].artifact.path,
                                                   reason |-> l[i].reason]]
      BY DEF Discover, SkippedArtifact
    <2>3. (DOMAIN ds) \ kept = left
      BY <1>1, <1>2
    <2> HIDE DEF told, ds, kept, left
    <2> QED
      BY <2>1, <2>2, <2>3, Zenon DEF said, rest
  <1>4. PICK D : D = {ds[i] : i \in 1..n}
    OBVIOUS
  <1>5. ds \in Seq(D) /\ Len(ds) = n
    <2>1. ds \in [1..n -> D]
      <3>1. ds = [i \in 1..n |-> ds[i]]
        BY <1>1 DEF Decided, Verdict
      <3> HIDE DEF ds
      <3> QED
        BY <1>4, <3>1
    <2> HIDE DEF ds
    <2>2. ds \in Seq(D)
      BY <2>1, ListedSequence
    <2> QED
      BY <1>2, <2>2
  <1>6. \A p \in 1..n : ds[p].artifact.path = Normal[files[p]]
    BY <1>1, DecidedFacts
  <1>7. left \in SUBSET (1..Len(ds))
    BY <1>1, <1>5
  <1> HIDE DEF ds, kept, told
  <1>8. /\ rest \in Seq(D) /\ Len(rest) = Cardinality(left)
        /\ ToSet(rest) = {ds[i] : i \in left}
    <2> HIDE DEF left
    <2> QED
      BY <1>5, <1>7, KeptAtFacts
  <1>9. PICK m \in Nat : m = Len(rest) /\ DOMAIN rest = 1..m
    <2> HIDE DEF rest
    <2> QED
      BY <1>8
  <1> DEFINE R == {[locator |-> rest[i].artifact.path, reason |-> rest[i].reason] : i \in 1..m}
  <1>10. said \in Seq(R) /\ Len(said) = m
    <2> HIDE DEF rest
    <2>1. said \in [1..m -> R]
      BY <1>9
    <2>2. DOMAIN said = 1..m
      BY <1>9
    <2> HIDE DEF said, R
    <2>3. said \in Seq(R)
      BY <2>1, ListedSequence
    <2> QED
      BY <2>2, <2>3
  <1>11. \A p \in left : \E i \in 1..m : said[i].locator = Normal[files[p]]
    <2> SUFFICES ASSUME NEW p \in left
                 PROVE  \E i \in 1..m : said[i].locator = Normal[files[p]]
      OBVIOUS
    <2>1. ds[p] \in ToSet(rest)
      BY <1>8
    <2> HIDE DEF rest
    <2>2. PICK i \in 1..m : rest[i] = ds[p]
      BY <1>9, <2>1 DEF ToSet
    <2>3. said[i].locator = ds[p].artifact.path
      BY <1>9, <2>2
    <2>4. p \in 1..n
      BY <1>1
    <2> QED
      BY <1>6, <2>3, <2>4
  <1> HIDE DEF rest, left, said
  <1>12. PICK A : A = S \cup R
    OBVIOUS
  <1> HIDE DEF R
  <1>13. skips \in Seq(A) /\ said \in Seq(A)
    BY <1>10, <1>12
  <1>14. /\ told \in Seq(A) /\ Len(told) = Len(skips) + m
         /\ \A i \in 1..Len(skips) : told[i] = skips[i]
         /\ \A i \in 1..m : told[Len(skips) + i] = said[i]
    <2>1. PICK k \in Nat : k = Len(skips) /\ DOMAIN skips = 1..k
      OBVIOUS
    <2>2. told \in Seq(A) /\ Len(told) = k + m
      BY <1>3, <1>10, <1>13, <2>1, ConcatProperties
    <2>3. \A i \in 1..(k + m) : told[i] = IF i <= k THEN skips[i] ELSE said[i - k]
      BY <1>3, <1>10, <1>13, <2>1, ConcatProperties
    <2>4. \A i \in 1..k : told[i] = skips[i]
      BY <2>3
    <2>5. \A i \in 1..m : told[k + i] = said[i]
      <3> SUFFICES ASSUME NEW i \in 1..m
                   PROVE  told[k + i] = said[i]
        OBVIOUS
      <3>1. k + i \in 1..(k + m) /\ ~(k + i <= k) /\ k + i - k = i
        OBVIOUS
      <3> QED
        BY <2>3, <3>1
    <2> QED
      BY <2>1, <2>2, <2>4, <2>5
  <1>15. \A i \in DOMAIN skips : skips[i] \in ToSet(told)
    <2>1. PICK k \in Nat : k = Len(skips) /\ DOMAIN skips = 1..k
      BY <1>13
    <2>2. DOMAIN told = 1..(k + m)
      BY <1>14, <2>1
    <2>3. \A i \in 1..k : i \in DOMAIN told /\ told[i] = skips[i]
      BY <1>14, <2>1, <2>2
    <2> QED
      BY <2>1, <2>3 DEF ToSet
  <1>16. \A p \in left : \E i \in DOMAIN told : told[i].locator = Normal[files[p]]
    <2>1. PICK k \in Nat : k = Len(skips)
      BY <1>13
    <2>2. DOMAIN told = 1..(k + m)
      BY <1>14, <2>1
    <2>3. \A i \in 1..m : k + i \in DOMAIN told /\ told[k + i] = said[i]
      BY <1>14, <2>1, <2>2
    <2> SUFFICES ASSUME NEW p \in left
                 PROVE  \E i \in DOMAIN told : told[i].locator = Normal[files[p]]
      OBVIOUS
    <2>4. PICK i \in 1..m : said[i].locator = Normal[files[p]]
      BY <1>11
    <2> QED
      BY <2>3, <2>4
  <1>17. Len(told) = Len(skips) + Cardinality(left)
    BY <1>8, <1>9, <1>14
  <1> QED
    BY <1>15, <1>16, <1>17 DEF told, left, kept, ToldOf

(* No two files of a snapshot have the same path with slashes.             *)
PathsApart ==
  \A v \in Versions : \A f, g \in DOMAIN Snapshots[v].files :
    Normal[f] = Normal[g] /\ Normal[f] # None => f = g

(* What discovery's answer d says of the version's files.                  *)
TellsAll(src, v, d) ==
  LET files == DOMAIN Snapshots[v].files
      skips == Snapshots[v].skipped
      kept  == DOMAIN d.artifacts
      path(i) == d.artifacts[i].path
  IN  /\ Len(d.artifacts) + Len(d.skipped) = Cardinality(files) + Len(skips)
      /\ {Normal[f] : f \in files} \subseteq
           {path(i) : i \in kept} \cup {d.skipped[i].locator : i \in DOMAIN d.skipped}
      /\ \A i \in DOMAIN skips : skips[i] \in ToSet(d.skipped)
      /\ \A i, j \in kept : i < j => About[path(i)].order < About[path(j)].order
      /\ \A i \in kept : Passed(src, d.artifacts[i])

LEMMA DecidedAll ==
  ASSUME PathsApart, NEW v \in Versions, NEW src, CanClassify(src, FilesOf(v))
  PROVE  TellsAll(src, v, DecidedOf(src, v))
  <1> DEFINE files == DOMAIN Snapshots[v].files
             skips == Snapshots[v].skipped
             found == DecidedOf(src, v).artifacts
             told == DecidedOf(src, v).skipped
  <1>1. PICK F \in Seq(Paths) : F = FilesOf(v) /\ CanClassify(src, F)
    BY FilesFacts
  <1>2. PICK L \in Nat : L = Len(F) /\ DOMAIN F = 1..L
    OBVIOUS
  <1>3. PICK S : skips \in Seq(S)
    BY ContentConstants DEF Versions
  <1> DEFINE kept == KeptPlaces(src, F)
             left == (1..L) \ kept
  <1>4. PICK sorted, n : /\ Arranged(src, F, sorted, n)
                         /\ found = [k \in 1..n |-> found[k]]
                         /\ \A k \in 1..n : found[k] = Classified(src, F[sorted[k]])
    <2>1. KeptFrom(src, F, found)
      BY <1>1, DiscoverFacts DEF DecidedOf
    <2> QED
      BY <2>1, Zenon DEF KeptFrom
  <1>5. /\ n \in Nat /\ n = Cardinality(kept) /\ sorted \in [1..n -> kept]
        /\ \A k, l \in 1..n : sorted[k] = sorted[l] => k = l
        /\ \A p \in kept : \E k \in 1..n : sorted[k] = p
        /\ \A k, l \in 1..n : k < l =>
             About[Normal[F[sorted[k]]]].order <= About[Normal[F[sorted[l]]]].order
    <2>1. sorted \in [1..n -> kept] /\ IsInjective(sorted)
      BY <1>4, Zenon DEF Arranged
    <2>2. \A k, l \in 1..n : sorted[k] = sorted[l] => k = l
      BY <2>1 DEF IsInjective
    <2> QED
      BY <1>4, <2>1, <2>2, Zenon DEF Arranged
  <1>6. /\ Len(told) = Len(skips) + Cardinality(left)
        /\ \A i \in DOMAIN skips : skips[i] \in ToSet(told)
        /\ \A p \in left : \E i \in DOMAIN told : told[i].locator = Normal[F[p]]
    <2>1. told = Discover(src, [files |-> F, skipped |-> skips]).skipped
      BY <1>1 DEF DecidedOf
    <2>2. left = (1..Len(F)) \ KeptPlaces(src, F)
      BY <1>2
    <2> HIDE DEF told, left, skips, kept
    <2>3. ToldOf(F, left, skips, told)
      BY <1>1, <1>3, <2>1, <2>2, ToldFacts
    <2> QED
      BY <2>3, Zenon DEF ToldOf
  <1>7. ToSet(F) = files /\ L = Cardinality(files) /\ files \subseteq Paths
        /\ \A p, q \in 1..L : F[p] = F[q] => p = q
    BY <1>1, <1>2, FilesFacts DEF IsInjective
  <1>8. kept \subseteq 1..L /\ \A p \in kept : SkipReason(src, Classified(src, F[p])) = None
    BY <1>1, <1>2, DecidedFacts DEF KeptPlaces
  <1> HIDE DEF found, told, kept, skips, files
  <1>9. DOMAIN found = 1..n /\ Len(found) = n
    <2>1. DOMAIN found = 1..n
      BY <1>4
    <2>2. found \in Seq(ToSet(found))
      <3>1. PICK X : X = ToSet(found)
        OBVIOUS
      <3>2. \A k \in 1..n : found[k] \in X
        BY <2>1, <3>1 DEF ToSet
      <3>3. found \in [1..n -> X]
        BY <1>4, <3>2
      <3> QED
        BY <1>5, <3>1, <3>3, ListedSequence
    <2> QED
      BY <1>5, <2>1, <2>2
  <1>10. \A p \in 1..L : F[p] \in files
    BY <1>2, <1>7 DEF ToSet
  <1>11. \A k \in 1..n : /\ sorted[k] \in 1..L /\ sorted[k] \in kept
                         /\ found[k].path = Normal[F[sorted[k]]]
    <2> SUFFICES ASSUME NEW k \in 1..n
                 PROVE  /\ sorted[k] \in 1..L /\ sorted[k] \in kept
                        /\ found[k].path = Normal[F[sorted[k]]]
      OBVIOUS
    <2>1. sorted[k] \in kept
      BY <1>5
    <2>2. Classified(src, F[sorted[k]]).path = Normal[F[sorted[k]]]
      BY DEF Classified
    <2> QED
      BY <1>4, <1>8, <2>1, <2>2
  <1>12. Len(found) + Len(told) = Cardinality(files) + Len(skips)
    <2>1. IsFiniteSet(1..L) /\ Cardinality(1..L) = L
      BY FS_Interval
    <2>2. IsFiniteSet(kept) /\ IsFiniteSet(left)
      BY <1>8, <2>1, FS_Subset
    <2>3. kept \cup left = 1..L /\ kept \cap left = {}
      BY <1>8
    <2>4. Cardinality(kept \cup left)
            = Cardinality(kept) + Cardinality(left) - Cardinality(kept \cap left)
      BY <2>2, FS_Union
    <2>5. Cardinality(kept \cap left) = 0
      BY <2>3, FS_EmptySet
    <2>6. Cardinality(left) \in Nat
      BY <2>2, FS_CardinalityType
    <2>7. L = n + Cardinality(left)
      <3>1. Cardinality(kept \cup left) = L
        BY <2>1, <2>3
      <3> QED
        BY <1>5, <2>4, <2>5, <2>6, <3>1
    <2>8. Len(skips) \in Nat
      BY <1>3, LenProperties
    <2> HIDE DEF left
    <2> QED
      BY <1>5, <1>6, <1>7, <1>9, <2>6, <2>7, <2>8
  <1>13. {Normal[f] : f \in files} \subseteq
           {found[i].path : i \in DOMAIN found} \cup {told[i].locator : i \in DOMAIN told}
    <2> SUFFICES ASSUME NEW f \in files
                 PROVE  \/ \E i \in DOMAIN found : found[i].path = Normal[f]
                        \/ \E i \in DOMAIN told : told[i].locator = Normal[f]
      OBVIOUS
    <2>1. PICK p \in 1..L : F[p] = f
      BY <1>2, <1>7 DEF ToSet
    <2>2. CASE p \in kept
      <3>1. PICK k \in 1..n : sorted[k] = p
        BY <1>5, <2>2
      <3> QED
        BY <1>9, <1>11, <2>1, <3>1
    <2>3. CASE p \notin kept
      BY <1>6, <2>1, <2>3
    <2> QED
      BY <2>2, <2>3
  <1>14. ASSUME NEW i \in 1..n, NEW j \in 1..n, i < j
         PROVE  About[found[i].path].order < About[found[j].path].order
    <2> DEFINE f == F[sorted[i]]
               g == F[sorted[j]]
    <2>1. /\ f \in files /\ g \in files /\ f \in Paths /\ g \in Paths
          /\ Normal[f] # None /\ Normal[g] # None
      BY <1>1, <1>2, <1>7, <1>10, <1>11 DEF CanClassify
    <2>2. /\ Normal[f] \in Paths /\ About[Normal[f]].order \in Nat
          /\ Normal[g] \in Paths /\ About[Normal[g]].order \in Nat
      BY <2>1, PathFacts
    <2>3. About[Normal[f]].order <= About[Normal[g]].order
      BY <1>5, <1>14
    <2>4. About[Normal[f]].order # About[Normal[g]].order
      <3> SUFFICES ASSUME About[Normal[f]].order = About[Normal[g]].order
                   PROVE  FALSE
        OBVIOUS
      <3>1. Normal[f] = Normal[g]
        BY <2>2, DiscoveryConstants
      <3>2. f = g
        BY <2>1, <3>1 DEF PathsApart, files
      <3>3. sorted[i] = sorted[j]
        BY <1>7, <1>11, <3>2
      <3> QED
        BY <1>5, <1>14, <3>3
    <2>5. found[i].path = Normal[f] /\ found[j].path = Normal[g]
      BY <1>11
    <2> HIDE DEF f, g
    <2> QED
      BY <2>2, <2>3, <2>4, <2>5
  <1>15. \A i \in 1..n : Passed(src, found[i])
    <2> SUFFICES ASSUME NEW i \in 1..n
                 PROVE  Passed(src, found[i])
      OBVIOUS
    <2>1. SkipReason(src, Classified(src, F[sorted[i]])) = None
      BY <1>8, <1>11
    <2>2. Passed(src, Classified(src, F[sorted[i]]))
      <3>1. ProfileKnown(src)
        BY <1>1, <1>2, <1>11 DEF CanClassify
      <3> QED
        BY <2>1, <3>1, PassedFacts, Zenon
    <2> QED
      BY <1>4, <2>2
  <1> QED
    BY <1>6, <1>9, <1>12, <1>13, <1>14, <1>15 DEF found, told, skips, files, TellsAll

(* Every file of the snapshot is kept once, in the order of the paths, or  *)
(* told once as skipped, and none is kept that the globs leave out, or     *)
(* that is generated or vendored, unless the source or the profile opts    *)
(* in; that the order is strict takes files whose paths stay apart when    *)
(* they are normalized (classifier.py:49-175).                             *)
THEOREM FilesAllTold ==
  ASSUME PathsApart
  PROVE  Spec => []EveryFileDecided
  <1>1. ContentInv => EveryFileDecided
    <2> SUFFICES ASSUME ContentInv, stage = "extract"
                 PROVE  EveryFileDecided
      BY Zenon DEF EveryFileDecided
    <2>1. /\ version \in Versions /\ CanClassify(source, FilesOf(version))
          /\ decided = DecidedOf(source, version)
      BY DEF ContentInv, Working
    <2>2. TellsAll(source, version, decided)
      BY <2>1, DecidedAll
    <2>3. \A a : Passed(source, a) /\ (About[a.path].generated \/ About[a.path].vendored)
                  => OptedIn(a)
      BY Zenon DEF Passed, OptedIn
    <2> QED
      BY <2>2, <2>3, Zenon DEF TellsAll, EveryFileDecided, Path, Passed
  <1> QED
    BY <1>1, RoundTypedAndTrue, PTL

-----------------------------------------------------------------------------
(* The places an extractor tells are those of the file.                     *)

(* A set listed in the order of a relation.                                *)
Lists(s, n, S, before) ==
  /\ n \in Nat /\ s = [k \in 1..n |-> s[k]]
  /\ \A k \in 1..n : s[k] \in S
  /\ \A x \in S : \E k \in 1..n : s[k] = x
  /\ \A j, k \in 1..n : j < k => <<s[j], s[k]>> \in before

LEMMA InOrderLists ==
  ASSUME NEW S, IsFiniteSet(S), NEW before, StrictOrder(S, before)
  PROVE  Lists(InOrder(S, before), Cardinality(S), S, before)
  <1>1. PICK s, N : s = InOrder(S, before) /\ N = Cardinality(S)
    OBVIOUS
  <1>2. /\ N \in Nat /\ s \in [1..N -> S] /\ ToSet(s) = S /\ IsInjective(s)
        /\ \A i, j \in 1..N : <<s[i], s[j]>> \in before => i < j
    BY <1>1, InOrderFacts
  <1>3. \A x \in S : \E k \in 1..N : s[k] = x
    BY <1>2 DEF ToSet
  <1>4. ASSUME NEW j \in 1..N, NEW k \in 1..N, j < k
        PROVE  <<s[j], s[k]>> \in before
    <2>1. ~(k < j) /\ j # k
      BY <1>2, <1>4
    <2>2. <<s[k], s[j]>> \notin before
      BY <1>2, <2>1
    <2>3. s[j] # s[k] /\ s[j] \in S /\ s[k] \in S
      BY <1>2, <2>1 DEF IsInjective
    <2> QED
      BY <2>2, <2>3 DEF StrictOrder
  <1> QED
    BY <1>1, <1>2, <1>3, <1>4 DEF Lists

(* There is one such list.                                                 *)
LEMMA ListedIsInOrder ==
  ASSUME NEW S, NEW before, StrictOrder(S, before), NEW s, NEW n, Lists(s, n, S, before)
  PROVE  s = InOrder(S, before) /\ n = Cardinality(S) /\ IsFiniteSet(S)
  <1> DEFINE P(x) == {y \in S : <<y, x>> \in before}
  <1>1. n \in Nat /\ s \in [1..n -> S]
    BY DEF Lists
  <1>2. \A j, k \in 1..n : <<s[j], s[k]>> \in before <=> j < k
    <2> SUFFICES ASSUME NEW j \in 1..n, NEW k \in 1..n
                 PROVE  <<s[j], s[k]>> \in before <=> j < k
      OBVIOUS
    <2>1. CASE j < k
      BY <2>1 DEF Lists
    <2>2. CASE j = k
      BY <1>1, <2>2 DEF StrictOrder
    <2>3. CASE k < j
      <3>1. <<s[k], s[j]>> \in before
        BY <2>3 DEF Lists
      <3>2. s[j] \in S /\ s[k] \in S /\ ~(j < k)
        BY <1>1, <2>3
      <3> QED
        BY <3>1, <3>2 DEF StrictOrder
    <2> QED
      BY <1>1, <2>1, <2>2, <2>3
  <1>3. \A j, k \in 1..n : s[j] = s[k] => j = k
    <2> SUFFICES ASSUME NEW j \in 1..n, NEW k \in 1..n, s[j] = s[k]
                 PROVE  j = k
      OBVIOUS
    <2>1. <<s[j], s[k]>> \notin before /\ <<s[k], s[j]>> \notin before
      BY <1>1 DEF StrictOrder
    <2> QED
      BY <1>1, <1>2, <2>1
  <1>4. IsFiniteSet(S) /\ Cardinality(S) = n
    <2>1. s \in Bijection(1..n, S)
      BY <1>1, <1>3 DEF Lists, Bijection, Injection, Surjection, IsInjective
    <2>2. IsFiniteSet(1..n) /\ Cardinality(1..n) = n
      BY <1>1, FS_Interval
    <2> QED
      BY <2>1, <2>2, FS_Bijection DEF ExistsBijection
  <1>5. ASSUME NEW i \in 1..n
        PROVE  Cardinality(P(s[i])) = i - 1
    <2> DEFINE part == [j \in 1..(i - 1) |-> s[j]]
    <2>1. P(s[i]) = {s[j] : j \in 1..(i - 1)}
      <3>1. \A y \in S : <<y, s[i]>> \in before <=> \E j \in 1..(i - 1) : y = s[j]
        <4> SUFFICES ASSUME NEW y \in S
                     PROVE  <<y, s[i]>> \in before <=> \E j \in 1..(i - 1) : y = s[j]
          OBVIOUS
        <4>1. PICK k \in 1..n : y = s[k]
          BY DEF Lists
        <4>2. <<y, s[i]>> \in before <=> k < i
          BY <1>2, <4>1
        <4>3. k < i <=> k \in 1..(i - 1)
          BY <1>1
        <4>4. \A j \in 1..(i - 1) : j \in 1..n
          BY <1>1
        <4> QED
          BY <1>3, <4>1, <4>2, <4>3, <4>4
      <3>2. \A j \in 1..(i - 1) : s[j] \in S
        BY <1>1
      <3> QED
        BY <3>1, <3>2
    <2>2. part \in Bijection(1..(i - 1), P(s[i]))
      <3>1. \A j \in 1..(i - 1) : j \in 1..n /\ part[j] = s[j]
        BY <1>1
      <3> HIDE DEF P
      <3>2. part \in [1..(i - 1) -> P(s[i])]
        BY <2>1
      <3>3. \A x, y \in 1..(i - 1) : part[x] = part[y] => x = y
        BY <1>3, <3>1
      <3>4. \A x \in P(s[i]) : \E j \in 1..(i - 1) : part[j] = x
        BY <2>1, <3>1
      <3> HIDE DEF part
      <3> QED
        BY <3>2, <3>3, <3>4 DEF Bijection, Injection, Surjection, IsInjective
    <2>3. IsFiniteSet(1..(i - 1)) /\ Cardinality(1..(i - 1)) = i - 1
      BY <1>1, FS_Interval
    <2> HIDE DEF P, part
    <2> QED
      BY <2>2, <2>3, FS_Bijection DEF ExistsBijection
  <1>6. ASSUME NEW i \in 1..n
        PROVE  InOrder(S, before)[i] = s[i]
    <2>1. InOrder(S, before)[i] = CHOOSE x \in S : Cardinality(P(x)) = i - 1
      BY <1>4 DEF InOrder
    <2>2. s[i] \in S /\ Cardinality(P(s[i])) = i - 1
      BY <1>1, <1>5
    <2> HIDE DEF P
    <2>3. \A x \in S : Cardinality(P(x)) = i - 1 => x = s[i]
      <3> SUFFICES ASSUME NEW x \in S, Cardinality(P(x)) = i - 1
                   PROVE  x = s[i]
        OBVIOUS
      <3>1. PICK k \in 1..n : x = s[k]
        BY DEF Lists
      <3>2. k - 1 = i - 1
        BY <1>5, <3>1
      <3>3. k = i
        BY <1>1, <3>2
      <3> QED
        BY <3>1, <3>3
    <2> QED
      BY <2>1, <2>2, <2>3, Zenon
  <1>7. InOrder(S, before) = [i \in 1..n |-> InOrder(S, before)[i]]
    <2> DEFINE pick(i) == CHOOSE x \in S : Cardinality(P(x)) = i - 1
    <2>1. InOrder(S, before) = [i \in 1..n |-> pick(i)]
      BY <1>4 DEF InOrder
    <2> HIDE DEF pick
    <2> QED
      BY <2>1
  <1>8. s = [i \in 1..n |-> s[i]]
    BY DEF Lists
  <1> QED
    BY <1>4, <1>6, <1>7, <1>8

-----------------------------------------------------------------------------
(* Sets of places in a sequence.                                           *)

Upwards(places) == {p \in places \X places : p[1] < p[2]}

LEMMA PlacesOrdered ==
  ASSUME NEW n \in Nat, NEW places \in SUBSET (1..n)
  PROVE  IsFiniteSet(places) /\ StrictOrder(places, Upwards(places))
  <1>1. IsFiniteSet(places)
    <2>1. IsFiniteSet(1..n)
      BY FS_Interval
    <2> QED
      BY <2>1, FS_Subset
  <1>2. \A x, y \in places : <<x, y>> \in Upwards(places) <=> x < y
    BY DEF Upwards
  <1>3. \A x \in places : x \in Int
    OBVIOUS
  <1> QED
    BY <1>1, <1>2, <1>3 DEF StrictOrder

LEMMA KeptAtListed ==
  ASSUME NEW T, NEW seq \in Seq(T), NEW places \in SUBSET (1..Len(seq)), NEW s, NEW n,
         Lists(s, n, places, Upwards(places))
  PROVE  KeptAt(seq, places) = [k \in 1..n |-> seq[s[k]]]
  <1>1. StrictOrder(places, Upwards(places))
    <2>1. Len(seq) \in Nat
      OBVIOUS
    <2> QED
      BY <2>1, PlacesOrdered
  <1>2. s = InOrder(places, Upwards(places))
    BY <1>1, ListedIsInOrder
  <1>3. DOMAIN s = 1..n
    BY DEF Lists
  <1> QED
    BY <1>2, <1>3 DEF KeptAt, Upwards

LEMMA KeptAtLists ==
  ASSUME NEW T, NEW seq \in Seq(T), NEW places \in SUBSET (1..Len(seq))
  PROVE  \E s, n : /\ Lists(s, n, places, Upwards(places))
                   /\ KeptAt(seq, places) = [k \in 1..n |-> seq[s[k]]]
  <1>1. Lists(InOrder(places, Upwards(places)), Cardinality(places), places, Upwards(places))
    <2>1. Len(seq) \in Nat
      OBVIOUS
    <2>2. IsFiniteSet(places) /\ StrictOrder(places, Upwards(places))
      BY <2>1, PlacesOrdered
    <2> QED
      BY <2>2, InOrderLists
  <1> QED
    BY <1>1, KeptAtListed

(* The places that hold a member of U.                                     *)
Holding(seq, places, U) == {i \in places : seq[i] \in U}

(* Keeping twice is keeping once.                                          *)
LEMMA KeptKept ==
  ASSUME NEW T, NEW seq \in Seq(T), NEW places \in SUBSET (1..Len(seq)), NEW U
  PROVE  KeptAt(KeptAt(seq, places),
                Holding(KeptAt(seq, places), DOMAIN KeptAt(seq, places), U))
           = KeptAt(seq, Holding(seq, places, U))
  <1>1. PICK kept : kept = KeptAt(seq, places)
    OBVIOUS
  <1>2. PICK s, n : /\ Lists(s, n, places, Upwards(places))
                    /\ kept = [k \in 1..n |-> seq[s[k]]]
    BY <1>1, KeptAtLists
  <1>3. /\ n \in Nat /\ s = [k \in 1..n |-> s[k]] /\ \A k \in 1..n : s[k] \in places
        /\ \A x \in places : \E k \in 1..n : s[k] = x
        /\ \A j, k \in 1..n : j < k => s[j] < s[k]
    BY <1>2 DEF Lists, Upwards
  <1>4. kept \in Seq(T) /\ Len(kept) = n /\ DOMAIN kept = 1..n
    <2>1. \A k \in 1..n : seq[s[k]] \in T
      BY <1>3
    <2>2. kept \in [1..n -> T]
      BY <1>2, <2>1
    <2> QED
      BY <1>3, <2>2, ListedSequence
  <1> DEFINE again == {k \in 1..n : kept[k] \in U}
             all   == {i \in places : seq[i] \in U}
  <1>5. PICK r, m : /\ Lists(r, m, again, Upwards(again))
                    /\ KeptAt(kept, again) = [k \in 1..m |-> kept[r[k]]]
    <2>1. again \in SUBSET (1..Len(kept))
      BY <1>4
    <2> HIDE DEF again
    <2> QED
      BY <1>4, <2>1, KeptAtLists, Zenon
  <1>6. /\ m \in Nat /\ \A k \in 1..m : r[k] \in again
        /\ \A x \in again : \E k \in 1..m : r[k] = x
        /\ \A j, k \in 1..m : j < k => r[j] < r[k]
    <2> HIDE DEF again
    <2> QED
      BY <1>5 DEF Lists, Upwards
  <1> DEFINE both == [k \in 1..m |-> s[r[k]]]
  <1>7. \A k \in 1..m : r[k] \in 1..n /\ both[k] = s[r[k]] /\ kept[r[k]] = seq[both[k]]
                        /\ both[k] \in places /\ seq[both[k]] \in U
    BY <1>2, <1>3, <1>6
  <1>8. Lists(both, m, all, Upwards(all))
    <2>1. \A k \in 1..m : both[k] \in all
      BY <1>7
    <2>2. \A x \in all : \E k \in 1..m : both[k] = x
      <3> SUFFICES ASSUME NEW x \in all
                   PROVE  \E k \in 1..m : both[k] = x
        OBVIOUS
      <3>1. PICK i \in 1..n : s[i] = x
        BY <1>3
      <3>2. i \in again
        BY <1>2, <3>1
      <3>3. PICK k \in 1..m : r[k] = i
        BY <1>6, <3>2
      <3> QED
        BY <1>7, <3>1, <3>3
    <2>3. \A j, k \in 1..m : j < k => both[j] < both[k]
      BY <1>3, <1>6, <1>7
    <2>4. both = [k \in 1..m |-> both[k]]
      OBVIOUS
    <2> HIDE DEF both, all
    <2> QED
      BY <1>6, <2>1, <2>2, <2>3, <2>4 DEF Lists, Upwards
  <1>9. KeptAt(seq, all) = [k \in 1..m |-> seq[both[k]]]
    <2>1. all \in SUBSET (1..Len(seq))
      OBVIOUS
    <2> HIDE DEF all, both
    <2> QED
      BY <1>8, <2>1, KeptAtListed
  <1> HIDE DEF again, both
  <1>10. KeptAt(kept, again) = KeptAt(seq, all)
    BY <1>5, <1>7, <1>9
  <1> QED
    BY <1>1, <1>4, <1>10 DEF again, Holding

LEMMA KeptLast ==
  ASSUME NEW T, NEW seq \in Seq(T), NEW i \in 1..Len(seq), NEW places \in SUBSET (1..(i - 1))
  PROVE  KeptAt(seq, places \cup {i}) = Append(KeptAt(seq, places), seq[i])
  <1>1. Len(seq) \in Nat /\ places \in SUBSET (1..Len(seq))
        /\ places \cup {i} \in SUBSET (1..Len(seq))
    OBVIOUS
  <1>2. PICK s, n : /\ Lists(s, n, places, Upwards(places))
                    /\ KeptAt(seq, places) = [k \in 1..n |-> seq[s[k]]]
    BY <1>1, KeptAtLists, Zenon
  <1>3. /\ n \in Nat /\ s = [k \in 1..n |-> s[k]] /\ \A k \in 1..n : s[k] \in places
        /\ \A x \in places : \E k \in 1..n : s[k] = x
        /\ \A j, k \in 1..n : j < k => s[j] < s[k]
    BY <1>2 DEF Lists, Upwards
  <1> DEFINE more == [k \in 1..(n + 1) |-> IF k = n + 1 THEN i ELSE s[k]]
             all  == places \cup {i}
  <1>4. /\ more[n + 1] = i /\ \A k \in 1..n : more[k] = s[k] /\ k \in 1..(n + 1)
        /\ n + 1 \in 1..(n + 1)
    BY <1>3
  <1>5. Lists(more, n + 1, all, Upwards(all))
    <2>1. \A k \in 1..(n + 1) : k = n + 1 \/ k \in 1..n
      BY <1>3
    <2>2. \A k \in 1..(n + 1) : more[k] \in all
      BY <1>3, <1>4, <2>1
    <2>3. \A x \in all : \E k \in 1..(n + 1) : more[k] = x
      BY <1>3, <1>4
    <2>4. \A j, k \in 1..(n + 1) : j < k => more[j] < more[k]
      <3> SUFFICES ASSUME NEW j \in 1..(n + 1), NEW k \in 1..(n + 1), j < k
                   PROVE  more[j] < more[k]
        OBVIOUS
      <3>1. j \in 1..n
        BY <1>3
      <3>2. s[j] \in 1..(i - 1)
        BY <1>3, <3>1
      <3>3. CASE k = n + 1
        BY <1>4, <3>1, <3>2, <3>3
      <3>4. CASE k \in 1..n
        BY <1>3, <1>4, <3>1, <3>4
      <3> QED
        BY <2>1, <3>3, <3>4
    <2>5. more = [k \in 1..(n + 1) |-> more[k]]
      OBVIOUS
    <2> HIDE DEF more, all
    <2> QED
      BY <1>3, <2>2, <2>3, <2>4, <2>5 DEF Lists, Upwards
  <1>6. KeptAt(seq, all) = [k \in 1..(n + 1) |-> seq[more[k]]]
    <2>1. all \in SUBSET (1..Len(seq))
      BY <1>1
    <2> HIDE DEF more, all
    <2> QED
      BY <1>5, <2>1, KeptAtListed
  <1>7. [k \in 1..n |-> seq[s[k]]] \in Seq(T)
    BY <1>1, <1>3
  <1>8. Append([k \in 1..n |-> seq[s[k]]], seq[i]) = [k \in 1..(n + 1) |-> seq[more[k]]]
    BY <1>3, <1>4, <1>7
  <1> QED
    BY <1>2, <1>6, <1>8

-----------------------------------------------------------------------------
(* The headings above a block.                                             *)

BlockSet(T) == [kind: STRING, level: Nat, text: Seq(T), line: Seq(Nat), id: STRING,
                fence: BOOLEAN, language: STRING]

HeadingSet(T) == [level: Nat, title: Seq(T)]

LEMMA HeadingsTyped ==
  ASSUME NEW T, NEW open \in Seq(HeadingSet(T)), NEW block \in BlockSet(T)
  PROVE  Headings(open, block) \in Seq(HeadingSet(T))
  <1> DEFINE H == HeadingSet(T)
             new == [level |-> block.level, title |-> block.text]
             places == {i \in DOMAIN open : open[i].level < block.level}
  <1>1. new \in H
    BY DEF HeadingSet, BlockSet
  <1>2. places \in SUBSET (1..Len(open))
    OBVIOUS
  <1>3. Above(open, block.level) = KeptAt(open, places)
    BY DEF Above
  <1> HIDE DEF H, new, places
  <1>4. KeptAt(open, places) \in Seq(H)
    BY <1>2, KeptAtFacts DEF H
  <1>5. Append(Above(open, block.level), new) \in Seq(H)
    BY <1>1, <1>3, <1>4, AppendProperties
  <1> QED
    BY <1>5 DEF Headings, H, new

LEMMA OpenAtIs ==
  ASSUME NEW T, NEW blocks \in Seq(BlockSet(T))
  PROVE  LET open == OpenAt(blocks)
         IN  /\ open[0] = <<>> /\ \A i \in 0..Len(blocks) : open[i] \in Seq(HeadingSet(T))
             /\ \A i \in 1..Len(blocks) : open[i] = Headings(open[i - 1], blocks[i])
  <1>1. PICK n \in Nat : n = Len(blocks) /\ DOMAIN blocks = 1..n
    OBVIOUS
  <1> DEFINE B == Seq(HeadingSet(T))
             step == [p \in (1..n) \X B |-> Headings(p[2], blocks[p[1]])]
             Eq(f) == f = [i \in 0..n |-> IF i = 0 THEN <<>>
                                          ELSE Headings(f[i - 1], blocks[i])]
  <1>2. <<>> \in B
    BY EmptySeq
  <1>3. \A i \in 1..n, s \in B : Headings(s, blocks[i]) \in B
    <2>1. \A i \in 1..n : blocks[i] \in BlockSet(T)
      BY <1>1
    <2> QED
      BY <2>1, HeadingsTyped
  <1>4. \A i \in 1..n, s \in B : step[<<i, s>>] = Headings(s, blocks[i])
    <2> HIDE DEF B
    <2> QED
      OBVIOUS
  <1>5. step \in [(1..n) \X B -> B]
    <2> HIDE DEF B
    <2> QED
      BY <1>3
  <1>6. OpenAt(blocks) = CHOOSE h : Eq(h)
    BY <1>1, Zenon DEF OpenAt
  <1> HIDE DEF B, step
  <1>7. PICK f : IsFold(f, n, B, <<>>, step)
    BY <1>2, <1>5, FoldDefined, Zenon
  <1>8. \A i \in 1..n : f[i] = Headings(f[i - 1], blocks[i])
    <2>1. \A i \in 1..n : i - 1 \in 0..n /\ f[i - 1] \in B /\ f[i] = step[<<i, f[i - 1]>>]
      BY <1>7 DEF IsFold
    <2> QED
      BY <1>4, <2>1
  <1>9. Eq(f)
    BY <1>7, <1>8 DEF IsFold
  <1>10. PICK h : h = OpenAt(blocks)
    OBVIOUS
  <1>11. Eq(h)
    <2> HIDE DEF Eq
    <2> QED
      BY <1>6, <1>9, <1>10
  <1>12. /\ h = [i \in 0..n |-> h[i]] /\ h[0] = <<>>
         /\ \A i \in 1..n : h[i] = Headings(h[i - 1], blocks[i])
    <2> DEFINE next(i) == Headings(h[i - 1], blocks[i])
    <2>1. h = [i \in 0..n |-> IF i = 0 THEN <<>> ELSE next(i)]
      BY <1>11, Zenon
    <2> HIDE DEF next, Eq
    <2>2. /\ h = [i \in 0..n |-> h[i]] /\ h[0] = <<>>
          /\ \A i \in 1..n : h[i] = next(i)
      BY <2>1
    <2> QED
      BY <2>2 DEF next
  <1> HIDE DEF Eq
  <1>13. \A i \in 1..n : h[i - 1] \in B => h[i] = step[<<i, h[i - 1]>>]
    BY <1>4, <1>12
  <1>14. IsFold(h, n, B, <<>>, step)
    BY <1>2, <1>5, <1>12, <1>13, FoldTyped, Zenon
  <1>15. \A i \in 0..n : h[i] \in B
    BY <1>14 DEF IsFold
  <1> QED
    BY <1>1, <1>10, <1>12, <1>15 DEF B

(* The places of the headings above a block.                               *)
AbovePlaces(blocks, i) == {j \in 1..i : StandsAbove(blocks, j, i)}

LEMMA AboveNext ==
  ASSUME NEW T, NEW blocks \in Seq(BlockSet(T)), NEW i \in 1..Len(blocks)
  PROVE  AbovePlaces(blocks, i)
           = IF blocks[i].kind = "heading"
             THEN {j \in AbovePlaces(blocks, i - 1) : blocks[j].level < blocks[i].level}
                    \cup {i}
             ELSE AbovePlaces(blocks, i - 1)
  <1>1. \A j \in 1..Len(blocks) : blocks[j].level \in Nat
    <2>1. \A j \in 1..Len(blocks) : blocks[j] \in BlockSet(T)
      OBVIOUS
    <2>2. \A b \in BlockSet(T) : b.level \in Nat
      BY DEF BlockSet
    <2> QED
      BY <2>1, <2>2
  <1>2. Len(blocks) \in Nat
    OBVIOUS
  <1>3. ASSUME NEW j \in 1..(i - 1)
        PROVE  StandsAbove(blocks, j, i) <=>
                 /\ StandsAbove(blocks, j, i - 1)
                 /\ blocks[i].kind = "heading" => blocks[j].level < blocks[i].level
    <2>1. (j + 1)..i = (j + 1)..(i - 1) \cup {i}
      OBVIOUS
    <2>2. j \in 1..Len(blocks)
      BY <1>2
    <2>3. blocks[i].level > blocks[j].level <=> blocks[j].level < blocks[i].level
      BY <1>1, <2>2
    <2> QED
      BY <2>1, <2>3 DEF StandsAbove
  <1>4. StandsAbove(blocks, i, i) <=> blocks[i].kind = "heading"
    <2>1. (i + 1)..i = {}
      OBVIOUS
    <2> QED
      BY <2>1 DEF StandsAbove
  <1>5. 1..i = 1..(i - 1) \cup {i}
    OBVIOUS
  <1> QED
    BY <1>3, <1>4, <1>5 DEF AbovePlaces

LEMMA OpenIsAbove ==
  ASSUME NEW T, NEW blocks \in Seq(BlockSet(T)), NEW all,
         all = [j \in 1..Len(blocks) |-> [level |-> blocks[j].level,
                                          title |-> blocks[j].text]]
  PROVE  /\ all \in Seq(HeadingSet(T)) /\ Len(all) = Len(blocks)
         /\ \A i \in 0..Len(blocks) : OpenAt(blocks)[i] = KeptAt(all, AbovePlaces(blocks, i))
  <1>1. PICK n \in Nat : n = Len(blocks) /\ DOMAIN blocks = 1..n
    OBVIOUS
  <1>2. \A i \in 1..n : /\ blocks[i] \in BlockSet(T) /\ all[i] \in HeadingSet(T)
                        /\ all[i] = [level |-> blocks[i].level, title |-> blocks[i].text]
                        /\ all[i].level = blocks[i].level
    <2>1. \A i \in 1..n : blocks[i] \in BlockSet(T)
      BY <1>1
    <2>2. \A b \in BlockSet(T) : [level |-> b.level, title |-> b.text] \in HeadingSet(T)
      BY DEF BlockSet, HeadingSet
    <2> QED
      BY <1>1, <2>1, <2>2
  <1>3. all \in Seq(HeadingSet(T)) /\ Len(all) = n
    <2>1. all \in [1..n -> HeadingSet(T)]
      BY <1>1, <1>2
    <2> QED
      BY <2>1, ListedSequence
  <1>4. PICK open : open = OpenAt(blocks)
    OBVIOUS
  <1>5. /\ open[0] = <<>> /\ \A i \in 0..n : open[i] \in Seq(HeadingSet(T))
        /\ \A i \in 1..n : open[i] = Headings(open[i - 1], blocks[i])
    BY <1>1, <1>4, OpenAtIs
  <1> DEFINE S == {i \in 0..n : open[i] = KeptAt(all, AbovePlaces(blocks, i))}
  <1>6. 0 \in S
    <2>1. AbovePlaces(blocks, 0) = {}
      BY DEF AbovePlaces
    <2>2. {} \in SUBSET (1..Len(all)) /\ Cardinality({}) = 0
      BY FS_EmptySet
    <2>3. KeptAt(all, {}) \in Seq(HeadingSet(T)) /\ Len(KeptAt(all, {})) = 0
      BY <1>3, <2>2, KeptAtFacts
    <2>4. KeptAt(all, {}) = <<>>
      BY <2>3, EmptySeq
    <2>5. open[0] = KeptAt(all, AbovePlaces(blocks, 0))
      BY <1>5, <2>1, <2>4
    <2>6. 0 \in 0..n
      BY <1>1
    <2> QED
      BY <2>5, <2>6
  <1>7. ASSUME NEW i \in 1..n, i - 1 \in S
        PROVE  i \in S
    <2> DEFINE P == AbovePlaces(blocks, i - 1)
               L == blocks[i].level
               U == {x \in HeadingSet(T) : x.level < L}
               before == open[i - 1]
    <2>1. P \in SUBSET (1..Len(all)) /\ P \in SUBSET (1..(i - 1))
      BY <1>3 DEF AbovePlaces
    <2>2. before = KeptAt(all, P) /\ before \in Seq(HeadingSet(T))
      BY <1>5, <1>7
    <2>3. CASE blocks[i].kind # "heading"
      <3>1. open[i] = before
        BY <1>5, <2>3 DEF Headings
      <3>2. AbovePlaces(blocks, i) = P
        BY <1>1, <2>3, AboveNext
      <3> QED
        BY <2>2, <3>1, <3>2
    <2>4. CASE blocks[i].kind = "heading"
      <3>1. open[i] = Append(Above(before, L), all[i])
        BY <1>2, <1>5, <2>4 DEF Headings
      <3>2. {k \in DOMAIN before : before[k].level < L} = {k \in DOMAIN before : before[k] \in U}
        <4>1. \A k \in DOMAIN before : before[k] \in HeadingSet(T)
          <5> HIDE DEF before, P
          <5> QED
            BY <2>2
        <4> HIDE DEF before, P, L
        <4> QED
          BY <4>1
      <3>3. Above(before, L) = KeptAt(before, {k \in DOMAIN before : before[k] \in U})
        BY <3>2 DEF Above
      <3>4. KeptAt(before, {k \in DOMAIN before : before[k] \in U})
              = KeptAt(all, {j \in P : all[j] \in U})
        <4> HIDE DEF before, P, U, S
        <4>1. KeptAt(KeptAt(all, P), Holding(KeptAt(all, P), DOMAIN KeptAt(all, P), U))
                = KeptAt(all, Holding(all, P, U))
          BY <1>3, <2>1, KeptKept
        <4> QED
          BY <2>2, <4>1 DEF Holding
      <3>5. {j \in P : all[j] \in U} = {j \in P : blocks[j].level < L}
        <4>1. \A j \in P : j \in 1..n
          BY <1>3, <2>1
        <4> HIDE DEF P, L
        <4>2. \A j \in P : all[j] \in U <=> all[j].level < L
          BY <1>2, <4>1
        <4>3. \A j \in P : all[j].level = blocks[j].level
          BY <1>2, <4>1
        <4> HIDE DEF U
        <4> QED
          BY <4>2, <4>3
      <3>6. AbovePlaces(blocks, i) = {j \in P : blocks[j].level < L} \cup {i}
        BY <1>1, <2>4, AboveNext
      <3>7. KeptAt(all, {j \in P : blocks[j].level < L} \cup {i})
              = Append(KeptAt(all, {j \in P : blocks[j].level < L}), all[i])
        <4>1. {j \in P : blocks[j].level < L} \in SUBSET (1..(i - 1)) /\ i \in 1..Len(all)
          BY <1>3, <2>1
        <4> HIDE DEF P, L
        <4> QED
          BY <1>3, <4>1, KeptLast
      <3>8. i \in 0..n
        OBVIOUS
      <3>9. open[i] = KeptAt(all, AbovePlaces(blocks, i))
        <4> HIDE DEF P, L, U, before, S
        <4> QED
          BY <3>1, <3>3, <3>4, <3>5, <3>6, <3>7
      <3> QED
        BY <3>8, <3>9
    <2> QED
      BY <2>3, <2>4
  <1>8. 0..n \subseteq S
    <2> HIDE DEF S
    <2> QED
      BY <1>6, <1>7, UpToInduction, Zenon
  <1> QED
    BY <1>1, <1>3, <1>4, <1>8

(* The headings of a candidate are the titles above its block.             *)
LEMMA DocumentHeadings ==
  ASSUME NEW T, NEW file, ReadAs(file, T), NEW path, NEW html
  PROVE  HeadingsRight(DocumentCandidates(path, html, file.blocks), file.blocks)
  <1>1. PICK blocks \in Seq(BlockSet(T)) : blocks = file.blocks
    BY DEF ReadAs, BlockSet
  <1>2. PICK n \in Nat : n = Len(blocks) /\ DOMAIN blocks = 1..n
    OBVIOUS
  <1>3. PICK all : all = [j \in 1..Len(blocks) |-> [level |-> blocks[j].level,
                                                    title |-> blocks[j].text]]
    OBVIOUS
  <1>4. /\ all \in Seq(HeadingSet(T)) /\ Len(all) = n
        /\ \A i \in 0..n : OpenAt(blocks)[i] = KeptAt(all, AbovePlaces(blocks, i))
    BY <1>2, <1>3, OpenIsAbove
  <1>5. ASSUME NEW i \in 1..n
        PROVE  Titles(OpenAt(blocks)[i]) = TitlesAbove(blocks, i)
    <2>1. PICK places \in SUBSET (1..n) : places = AbovePlaces(blocks, i)
      <3>1. AbovePlaces(blocks, i) \subseteq 1..n
        BY DEF AbovePlaces
      <3> QED
        BY <3>1
    <2>2. PICK s, m : /\ Lists(s, m, places, Upwards(places))
                      /\ KeptAt(blocks, places) = [k \in 1..m |-> blocks[s[k]]]
      <3>1. places \in SUBSET (1..Len(blocks))
        BY <1>2
      <3> QED
        BY <3>1, KeptAtLists
    <2>3. KeptAt(all, places) = [k \in 1..m |-> all[s[k]]]
      BY <1>4, <2>2, KeptAtListed
    <2>4. \A k \in 1..m : s[k] \in 1..n
      BY <2>2 DEF Lists
    <2>5. \A k \in 1..m : all[s[k]].title = blocks[s[k]].text
      BY <1>2, <1>3, <2>4
    <2>6. i \in 0..n
      OBVIOUS
    <2>7. OpenAt(blocks)[i] = [k \in 1..m |-> all[s[k]]]
      BY <1>4, <2>1, <2>3, <2>6
    <2>8. Titles(OpenAt(blocks)[i]) = [k \in 1..m |-> all[s[k]].title]
      BY <2>7 DEF Titles
    <2>9. TitlesAbove(blocks, i) = [k \in 1..m |-> blocks[s[k]].text]
      BY <2>1, <2>2 DEF TitlesAbove, AbovePlaces
    <2> QED
      BY <2>5, <2>8, <2>9
  <1> DEFINE found == DocumentCandidates(path, html, file.blocks)
  <1>6. DOMAIN found = 1..n
    BY <1>1, <1>2 DEF DocumentCandidates
  <1>7. \A i \in 1..n : found[i].headings = Titles(OpenAt(blocks)[i])
    BY <1>1, <1>2 DEF DocumentCandidates, Plain
  <1> HIDE DEF found
  <1> QED
    BY <1>1, <1>2, <1>5, <1>6, <1>7 DEF HeadingsRight, found

-----------------------------------------------------------------------------
(* The lines of a paragraph.                                               *)

(* Not blank from f to m, and as far back as that goes.                    *)
OpenRun(lines, f, m) ==
  /\ f \in 1..Len(lines) /\ m \in f..Len(lines) /\ \A k \in f..m : ~Blank(lines[k])
  /\ f > 1 => Blank(lines[f - 1])

RunsUpTo(lines, m) == {r \in Runs(lines) : r[2] <= m}

LEMMA RunFacts ==
  ASSUME NEW lines, Len(lines) \in Nat, DOMAIN lines = 1..Len(lines)
  PROVE  \A a, b : <<a, b>> \in Runs(lines) <=>
           /\ a \in 1..Len(lines) /\ b \in 1..Len(lines) /\ a <= b
           /\ \A i \in a..b : ~Blank(lines[i])
           /\ a > 1 => Blank(lines[a - 1])
           /\ b < Len(lines) => Blank(lines[b + 1])
  BY DEF Runs

LEMMA RunsArePairs ==
  ASSUME NEW lines, NEW r \in Runs(lines)
  PROVE  r = <<r[1], r[2]>> /\ r[1] \in DOMAIN lines /\ r[2] \in DOMAIN lines
  BY DEF Runs

LEMMA RunEnd ==
  ASSUME NEW lines, Len(lines) \in Nat, DOMAIN lines = 1..Len(lines), NEW r \in Runs(lines)
  PROVE  r[2] \in 1..Len(lines) /\ ~Blank(lines[r[2]])
  <1>1. PICK a, b : a = r[1] /\ b = r[2]
    OBVIOUS
  <1>2. <<a, b>> \in Runs(lines)
    BY <1>1, RunsArePairs
  <1>3. b \in 1..Len(lines) /\ a \in 1..Len(lines) /\ a <= b /\ \A i \in a..b : ~Blank(lines[i])
    BY <1>2, RunFacts
  <1> QED
    BY <1>1, <1>3

(* A run that a blank line or the end of the file closes.                  *)
LEMMA RunCloses ==
  ASSUME NEW lines, Len(lines) \in Nat, DOMAIN lines = 1..Len(lines), NEW f, NEW m,
         OpenRun(lines, f, m), m < Len(lines) => Blank(lines[m + 1])
  PROVE  RunsUpTo(lines, m) = RunsUpTo(lines, f - 1) \cup {<<f, m>>}
  <1>1. /\ f \in 1..Len(lines) /\ m \in f..Len(lines) /\ f \in Int /\ m \in Int
        /\ \A k \in f..m : ~Blank(lines[k])
        /\ f > 1 => Blank(lines[f - 1])
    BY DEF OpenRun
  <1>2. <<f, m>> \in RunsUpTo(lines, m)
    <2>1. <<f, m>> \in Runs(lines)
      BY <1>1, RunFacts
    <2> QED
      BY <1>1, <2>1 DEF RunsUpTo
  <1>3. ASSUME NEW r \in RunsUpTo(lines, f - 1)
        PROVE  r \in RunsUpTo(lines, m)
    <2>1. r \in Runs(lines) /\ r[2] <= f - 1
      BY <1>3 DEF RunsUpTo
    <2>2. r[2] \in Int
      BY <2>1, RunsArePairs
    <2> QED
      BY <1>1, <2>1, <2>2 DEF RunsUpTo
  <1>4. ASSUME NEW r \in RunsUpTo(lines, m)
        PROVE  r \in RunsUpTo(lines, f - 1) \/ r = <<f, m>>
    <2>1. PICK a, b : a = r[1] /\ b = r[2]
      OBVIOUS
    <2>2. /\ r \in Runs(lines) /\ r = <<a, b>> /\ b <= m
          /\ a \in 1..Len(lines) /\ b \in 1..Len(lines)
      BY <2>1, RunsArePairs DEF RunsUpTo
    <2>3. /\ a <= b /\ \A i \in a..b : ~Blank(lines[i])
          /\ a > 1 => Blank(lines[a - 1])
          /\ b < Len(lines) => Blank(lines[b + 1])
      BY <2>2, RunFacts
    <2>4. CASE b <= f - 1
      BY <2>1, <2>2, <2>4 DEF RunsUpTo
    <2>5. CASE b >= f
      <3>1. b = m
        <4> SUFFICES ASSUME b # m
                     PROVE  FALSE
          OBVIOUS
        <4>1. b + 1 \in f..m /\ b < Len(lines)
          BY <1>1, <2>2, <2>5
        <4> QED
          BY <1>1, <2>3, <4>1
      <3>2. ~(a > f)
        <4> SUFFICES ASSUME a > f
                     PROVE  FALSE
          OBVIOUS
        <4>1. a - 1 \in f..m /\ a > 1
          BY <1>1, <2>2, <2>3
        <4> QED
          BY <1>1, <2>3, <4>1
      <3>3. ~(a < f)
        <4> SUFFICES ASSUME a < f
                     PROVE  FALSE
          OBVIOUS
        <4>1. f - 1 \in a..b /\ f > 1
          BY <1>1, <2>2, <2>5
        <4> QED
          BY <1>1, <2>3, <4>1
      <3> QED
        BY <1>1, <2>2, <3>1, <3>2, <3>3
    <2> QED
      BY <1>1, <2>2, <2>4, <2>5
  <1> QED
    BY <1>2, <1>3, <1>4

(* The candidates tell of the runs, in their order.                        *)
TellRuns(found, runs) ==
  /\ {found[i].at.line : i \in DOMAIN found} = runs
  /\ \A i, j \in DOMAIN found : i < j => found[i].at.line[2] < found[j].at.line[1]

LEMMA TellOneMore ==
  ASSUME NEW P, NEW found \in Seq(P), NEW runs, TellRuns(found, runs), NEW c,
         NEW f, NEW m, c.at.line = <<f, m>>, \A r \in runs : r[2] < f
  PROVE  TellRuns(Append(found, c), runs \cup {<<f, m>>})
  <1>1. PICK n \in Nat : n = Len(found) /\ DOMAIN found = 1..n
    OBVIOUS
  <1>2. PICK more : more = Append(found, c)
    OBVIOUS
  <1>3. /\ DOMAIN more = 1..(n + 1) /\ more[n + 1] = c
        /\ \A i \in 1..n : more[i] = found[i]
    BY <1>1, <1>2
  <1>4. {more[i].at.line : i \in 1..(n + 1)}
          = {found[i].at.line : i \in 1..n} \cup {<<f, m>>}
    <2>1. 1..(n + 1) = 1..n \cup {n + 1}
      OBVIOUS
    <2> QED
      BY <1>3, <2>1
  <1>5. ASSUME NEW i \in 1..(n + 1), NEW j \in 1..(n + 1), i < j
        PROVE  more[i].at.line[2] < more[j].at.line[1]
    <2>1. i \in 1..n
      BY <1>1, <1>5
    <2>2. CASE j = n + 1
      <3>1. found[i].at.line \in runs
        BY <1>1, <2>1 DEF TellRuns
      <3> QED
        BY <1>3, <2>1, <2>2, <3>1
    <2>3. CASE j \in 1..n
      BY <1>1, <1>3, <1>5, <2>1, <2>3 DEF TellRuns
    <2> QED
      BY <2>2, <2>3
  <1>6. {more[i].at.line : i \in DOMAIN more} = runs \cup {<<f, m>>}
    <2>1. {found[i].at.line : i \in 1..n} = runs
      BY <1>1 DEF TellRuns
    <2> QED
      BY <1>3, <1>4, <2>1
  <1>7. \A i, j \in DOMAIN more : i < j => more[i].at.line[2] < more[j].at.line[1]
    BY <1>3, <1>5
  <1>8. TellRuns(more, runs \cup {<<f, m>>})
    BY <1>6, <1>7, Zenon DEF TellRuns
  <1> QED
    BY <1>2, <1>8

(* What has been read up to line i.                                        *)
ReadRight(lines, i, state) ==
  IF state.first = 0
  THEN /\ i > 0 => Blank(lines[i])
       /\ TellRuns(state.done, RunsUpTo(lines, i))
  ELSE /\ OpenRun(lines, state.first, i)
       /\ TellRuns(state.done, RunsUpTo(lines, state.first - 1))

LEMMA LineRead ==
  ASSUME NEW T, NEW lines \in Seq(Seq(T)), NEW path, NEW i \in 1..Len(lines),
         NEW state \in TextStates(path, lines), ReadRight(lines, i - 1, state)
  PROVE  ReadRight(lines, i, TextStep(path, lines, state, i))
  <1>1. PICK n \in Nat : n = Len(lines) /\ DOMAIN lines = 1..n
    OBVIOUS
  <1>2. PICK f, done : f = state.first /\ done = state.done
    OBVIOUS
  <1>3. f \in 0..n /\ done \in Seq(Paragraphs(path, lines))
        /\ state = [first |-> f, done |-> done]
    BY <1>1, <1>2 DEF TextStates
  <1>4. PICK next : next = TextStep(path, lines, state, i)
    OBVIOUS
  <1>5. CASE ~Blank(lines[i])
    <2>1. next.first = (IF f = 0 THEN i ELSE f) /\ next.done = done
      <3>1. next = [state EXCEPT !.first = IF @ = 0 THEN i ELSE @]
        BY <1>4, <1>5 DEF TextStep
      <3> QED
        BY <1>3, <3>1
    <2>2. CASE f = 0
      <3>1. next.first = i /\ i # 0 /\ i - 1 >= 0
        BY <2>1, <2>2
      <3>2. /\ i - 1 > 0 => Blank(lines[i - 1])
            /\ TellRuns(done, RunsUpTo(lines, i - 1))
        BY <1>2, <2>2 DEF ReadRight
      <3>3. OpenRun(lines, i, i)
        <4>1. i..i = {i} /\ i \in i..Len(lines)
          BY <1>1
        <4> QED
          BY <1>5, <3>2, <4>1 DEF OpenRun
      <3> QED
        BY <1>4, <2>1, <3>1, <3>2, <3>3 DEF ReadRight
    <2>3. CASE f # 0
      <3>1. OpenRun(lines, f, i - 1) /\ TellRuns(done, RunsUpTo(lines, f - 1))
        BY <1>2, <2>3 DEF ReadRight
      <3>2. OpenRun(lines, f, i)
        <4>1. f..i = f..(i - 1) \cup {i} /\ i \in f..Len(lines)
          BY <1>1, <3>1 DEF OpenRun
        <4> QED
          BY <1>5, <3>1, <4>1 DEF OpenRun
      <3> QED
        BY <1>4, <2>1, <2>3, <3>1, <3>2 DEF ReadRight
    <2> QED
      BY <2>2, <2>3
  <1>6. CASE Blank(lines[i]) /\ f = 0
    <2>1. next = state
      BY <1>2, <1>4, <1>6 DEF TextStep
    <2>2. TellRuns(done, RunsUpTo(lines, i - 1))
      BY <1>2, <1>6 DEF ReadRight
    <2>3. RunsUpTo(lines, i) = RunsUpTo(lines, i - 1)
      <3>1. \A r \in Runs(lines) : r[2] <= i <=> r[2] <= i - 1
        <4> SUFFICES ASSUME NEW r \in Runs(lines)
                     PROVE  r[2] <= i <=> r[2] <= i - 1
          OBVIOUS
        <4>1. r[2] \in 1..n /\ ~Blank(lines[r[2]])
          BY <1>1, RunEnd
        <4> QED
          BY <1>6, <4>1
      <3> QED
        BY <3>1 DEF RunsUpTo
    <2> QED
      BY <1>2, <1>4, <1>6, <2>1, <2>2, <2>3 DEF ReadRight
  <1>7. CASE Blank(lines[i]) /\ f # 0
    <2> DEFINE c == Paragraph(path, lines, f, i - 1)
    <2>1. next.first = 0 /\ next.done = Append(done, c)
      BY <1>2, <1>4, <1>7 DEF TextStep
    <2>2. OpenRun(lines, f, i - 1) /\ TellRuns(done, RunsUpTo(lines, f - 1))
      BY <1>2, <1>7 DEF ReadRight
    <2>3. RunsUpTo(lines, i - 1) = RunsUpTo(lines, f - 1) \cup {<<f, i - 1>>}
      BY <1>1, <1>7, <2>2, RunCloses
    <2>4. c.at.line = <<f, i - 1>>
      BY DEF Paragraph, Plain, Place
    <2>5. \A r \in RunsUpTo(lines, f - 1) : r[2] < f
      <3>1. \A r \in RunsUpTo(lines, f - 1) : r[2] <= f - 1 /\ r[2] \in 1..n
        BY <1>1, RunsArePairs DEF RunsUpTo
      <3> QED
        BY <1>3, <3>1
    <2> HIDE DEF c
    <2>6. TellRuns(next.done, RunsUpTo(lines, i - 1))
      <3>1. PICK m, runs, P : /\ m = i - 1 /\ runs = RunsUpTo(lines, f - 1)
                              /\ P = Paragraphs(path, lines)
        OBVIOUS
      <3>2. done \in Seq(P) /\ TellRuns(done, runs) /\ c.at.line = <<f, m>>
            /\ \A r \in runs : r[2] < f
        BY <1>3, <2>2, <2>4, <2>5, <3>1
      <3>3. TellRuns(Append(done, c), runs \cup {<<f, m>>})
        BY <3>2, TellOneMore
      <3> QED
        BY <2>1, <2>3, <3>1, <3>3
    <2>7. RunsUpTo(lines, i) = RunsUpTo(lines, i - 1)
      <3>1. \A r \in Runs(lines) : r[2] <= i <=> r[2] <= i - 1
        <4> SUFFICES ASSUME NEW r \in Runs(lines)
                     PROVE  r[2] <= i <=> r[2] <= i - 1
          OBVIOUS
        <4>1. r[2] \in 1..n /\ ~Blank(lines[r[2]])
          BY <1>1, RunEnd
        <4> QED
          BY <1>7, <4>1
      <3> QED
        BY <3>1 DEF RunsUpTo
    <2> QED
      BY <1>4, <1>7, <2>1, <2>6, <2>7 DEF ReadRight
  <1> QED
    BY <1>5, <1>6, <1>7

LEMMA TextParagraphs ==
  ASSUME NEW T, NEW lines \in Seq(Seq(T)), NEW path
  PROVE  ParagraphsRight(LastParagraph(path, lines, TextRead(path, lines)), lines)
  <1>1. PICK n \in Nat : n = Len(lines) /\ DOMAIN lines = 1..n
    OBVIOUS
  <1>2. PICK h : /\ IsFold(h, Len(lines), TextStates(path, lines),
                           [first |-> 0, done |-> <<>>], TextSteps(path, lines))
                 /\ TextRead(path, lines) = h[Len(lines)]
    BY TextReadIs
  <1>3. /\ h[0] = [first |-> 0, done |-> <<>>]
        /\ \A i \in 0..n : h[i] \in TextStates(path, lines)
        /\ \A i \in 1..n : h[i] = TextStep(path, lines, h[i - 1], i)
    <2>1. \A i \in 1..n, s \in TextStates(path, lines) :
            TextSteps(path, lines)[<<i, s>>] = TextStep(path, lines, s, i)
      BY <1>1 DEF TextSteps
    <2>2. \A i \in 1..n : i - 1 \in 0..n
      OBVIOUS
    <2> QED
      BY <1>1, <1>2, <2>1, <2>2 DEF IsFold
  <1> DEFINE S == {i \in 0..n : ReadRight(lines, i, h[i])}
  <1>4. 0 \in S
    <2>1. RunsUpTo(lines, 0) = {}
      <3>1. \A r \in Runs(lines) : ~(r[2] <= 0)
        BY <1>1, RunsArePairs
      <3> QED
        BY <3>1 DEF RunsUpTo
    <2>2. DOMAIN (<<>>) = {}
      OBVIOUS
    <2>3. TellRuns(<<>>, {})
      BY <2>2 DEF TellRuns
    <2>4. PICK state, none : state = h[0] /\ none = <<>>
      OBVIOUS
    <2>5. state.first = 0 /\ TellRuns(state.done, RunsUpTo(lines, 0))
      <3>1. state.first = 0 /\ state.done = none
        BY <1>3, <2>4
      <3>2. TellRuns(none, {})
        BY <2>3, <2>4
      <3> QED
        BY <2>1, <3>1, <3>2
    <2>6. ReadRight(lines, 0, state)
      BY <2>5 DEF ReadRight
    <2> QED
      BY <1>1, <2>4, <2>6
  <1>5. ASSUME NEW i \in 1..n, i - 1 \in S
        PROVE  i \in S
    <2>1. h[i - 1] \in TextStates(path, lines) /\ ReadRight(lines, i - 1, h[i - 1])
      BY <1>3, <1>5
    <2>2. ReadRight(lines, i, TextStep(path, lines, h[i - 1], i))
      BY <1>1, <2>1, LineRead
    <2> QED
      BY <1>3, <2>2
  <1>6. n \in S
    <2> HIDE DEF S
    <2>1. 0..n \subseteq S
      BY <1>4, <1>5, UpToInduction, Zenon
    <2> QED
      BY <2>1
  <1>7. PICK state : state = h[n]
    OBVIOUS
  <1>8. ReadRight(lines, n, state) /\ state \in TextStates(path, lines)
    BY <1>3, <1>6, <1>7
  <1>9. PICK found : found = LastParagraph(path, lines, state)
    OBVIOUS
  <1>10. RunsUpTo(lines, n) = Runs(lines)
    <2>1. \A r \in Runs(lines) : r[2] <= n
      BY <1>1, RunsArePairs
    <2> QED
      BY <2>1 DEF RunsUpTo
  <1>11. TellRuns(found, Runs(lines))
    <2>1. CASE state.first = 0
      BY <1>8, <1>9, <1>10, <2>1 DEF ReadRight, LastParagraph
    <2>2. CASE state.first # 0
      <3> DEFINE f == state.first
                 c == Paragraph(path, lines, f, n)
      <3>1. found = Append(state.done, c)
        BY <1>1, <1>9, <2>2 DEF LastParagraph
      <3>2. OpenRun(lines, f, n) /\ TellRuns(state.done, RunsUpTo(lines, f - 1))
        BY <1>8, <2>2 DEF ReadRight
      <3>3. f \in 1..n /\ state.done \in Seq(Paragraphs(path, lines))
        BY <1>1, <1>8, <3>2 DEF OpenRun, TextStates
      <3> HIDE DEF f
      <3>4. RunsUpTo(lines, n) = RunsUpTo(lines, f - 1) \cup {<<f, n>>}
        BY <1>1, <3>2, RunCloses
      <3>5. c.at.line = <<f, n>>
        BY DEF Paragraph, Plain, Place
      <3>6. \A r \in RunsUpTo(lines, f - 1) : r[2] < f
        <4>1. \A r \in RunsUpTo(lines, f - 1) : r[2] <= f - 1 /\ r[2] \in 1..n
          BY <1>1, RunsArePairs DEF RunsUpTo
        <4> QED
          BY <3>3, <4>1
      <3> HIDE DEF c
      <3>7. PICK done, runs, P : /\ done = state.done /\ runs = RunsUpTo(lines, f - 1)
                                 /\ P = Paragraphs(path, lines)
        OBVIOUS
      <3>8. done \in Seq(P) /\ TellRuns(done, runs) /\ \A r \in runs : r[2] < f
        BY <3>2, <3>3, <3>6, <3>7
      <3>9. TellRuns(Append(done, c), runs \cup {<<f, n>>})
        BY <3>5, <3>8, TellOneMore
      <3> QED
        BY <1>10, <3>1, <3>4, <3>7, <3>9
    <2> QED
      BY <2>1, <2>2
  <1>12. found = LastParagraph(path, lines, TextRead(path, lines))
    BY <1>1, <1>2, <1>7, <1>9
  <1> QED
    BY <1>11, <1>12 DEF ParagraphsRight, TellRuns

-----------------------------------------------------------------------------
(* The names around a definition.                                          *)

(* The definitions of a file in the order of their first lines, no two on  *)
(* one line; any two are apart or one holds the other, and the parent of   *)
(* one is the last before it that holds it.                                *)
Holds(defs, i, j) == defs[i].line[2] >= defs[j].line[2]

OuterOf(defs, i) == {j \in 1..(i - 1) : Holds(defs, j, i)}

NestedByLines(defs) ==
  /\ \A i \in DOMAIN defs : Len(defs[i].line) = 2 /\ defs[i].line[1] <= defs[i].line[2]
  /\ \A i, j \in DOMAIN defs : i < j =>
       /\ defs[i].line[1] < defs[j].line[1]
       /\ defs[i].line[2] < defs[j].line[1] \/ Holds(defs, i, j)
  /\ \A i \in DOMAIN defs :
       IF defs[i].parent = 0 THEN OuterOf(defs, i) = {}
       ELSE defs[i].parent \in OuterOf(defs, i)
              /\ \A j \in OuterOf(defs, i) : j <= defs[i].parent

DefSet(T) == [name: STRING, parent: Nat, line: Seq(Nat), doc: Seq(T), signature: Seq(T)]

Around(defs, i) == IF i = 0 THEN {} ELSE OuterOf(defs, i) \cup {i}

LEMMA LinesTyped ==
  ASSUME NEW T, NEW defs \in Seq(DefSet(T)), NestedByLines(defs), NEW k \in 1..Len(defs)
  PROVE  /\ defs[k].line[1] \in Nat /\ defs[k].line[2] \in Nat
         /\ defs[k].line[1] <= defs[k].line[2]
  <1>1. defs[k] \in DefSet(T) /\ k \in DOMAIN defs
    OBVIOUS
  <1>2. PICK line : line = defs[k].line
    OBVIOUS
  <1>3. line \in Seq(Nat)
    BY <1>1, <1>2 DEF DefSet
  <1>4. Len(line) = 2 /\ line[1] <= line[2]
    BY <1>1, <1>2 DEF NestedByLines
  <1>5. 1 \in 1..Len(line) /\ 2 \in 1..Len(line)
    BY <1>4
  <1>6. line[1] \in Nat /\ line[2] \in Nat
    BY <1>3, <1>5
  <1> QED
    BY <1>2, <1>4, <1>6

LEMMA AroundNext ==
  ASSUME NEW T, NEW defs \in Seq(DefSet(T)), NestedByLines(defs), NEW i \in 1..Len(defs)
  PROVE  /\ defs[i].parent \in 0..(i - 1)
         /\ OuterOf(defs, i) = Around(defs, defs[i].parent)
  <1>1. PICK n \in Nat : n = Len(defs) /\ DOMAIN defs = 1..n /\ i \in 1..n
    OBVIOUS
  <1> DEFINE from == [k \in 1..n |-> defs[k].line[1]]
             to == [k \in 1..n |-> defs[k].line[2]]
  <1>2. \A k \in 1..n : /\ from[k] = defs[k].line[1] /\ to[k] = defs[k].line[2]
                        /\ from[k] \in Nat /\ to[k] \in Nat /\ from[k] <= to[k]
    <2>1. \A k \in 1..n : /\ defs[k].line[1] \in Nat /\ defs[k].line[2] \in Nat
                          /\ defs[k].line[1] <= defs[k].line[2]
      BY <1>1, LinesTyped
    <2> QED
      BY <2>1
  <1> HIDE DEF from, to
  <1>3. \A k, l \in 1..n : k < l => from[k] < from[l] /\ (to[k] < from[l] \/ to[k] >= to[l])
    <2>1. \A k, l \in 1..n : k < l =>
            /\ defs[k].line[1] < defs[l].line[1]
            /\ defs[k].line[2] < defs[l].line[1] \/ defs[k].line[2] >= defs[l].line[2]
      BY <1>1 DEF NestedByLines, Holds
    <2> QED
      BY <1>2, <2>1
  <1>4. PICK p : p = defs[i].parent
    OBVIOUS
  <1>5. IF p = 0 THEN OuterOf(defs, i) = {}
        ELSE p \in OuterOf(defs, i) /\ \A j \in OuterOf(defs, i) : j <= p
    BY <1>1, <1>4 DEF NestedByLines
  <1>6. \A k \in 1..n : OuterOf(defs, k) = {j \in 1..(k - 1) : to[j] >= to[k]}
    BY <1>1, <1>2 DEF OuterOf, Holds
  <1>7. CASE p = 0
    BY <1>1, <1>4, <1>5, <1>7 DEF Around
  <1>8. CASE p # 0
    <2>1. p \in 1..(i - 1) /\ p \in 1..n /\ to[p] >= to[i]
      BY <1>1, <1>5, <1>6, <1>8
    <2>2. ASSUME NEW j \in OuterOf(defs, i), j # p
          PROVE  j \in OuterOf(defs, p)
      <3>1. j \in 1..(i - 1) /\ to[j] >= to[i] /\ j < p /\ j \in 1..n
        BY <1>1, <1>5, <1>6, <1>8, <2>1, <2>2
      <3>2. ~(to[j] < from[p])
        BY <1>1, <1>2, <1>3, <2>1, <3>1
      <3>3. to[j] >= to[p]
        BY <1>3, <2>1, <3>1, <3>2
      <3> QED
        BY <1>6, <2>1, <3>1, <3>3
    <2>3. ASSUME NEW j \in OuterOf(defs, p)
          PROVE  j \in OuterOf(defs, i)
      <3>1. j \in 1..(p - 1) /\ to[j] >= to[p] /\ j \in 1..n
        BY <1>1, <1>6, <2>1, <2>3
      <3>2. to[j] >= to[i]
        BY <1>1, <1>2, <2>1, <3>1
      <3> QED
        BY <1>1, <1>6, <2>1, <3>1, <3>2
    <2>4. OuterOf(defs, i) = OuterOf(defs, p) \cup {p}
      BY <1>5, <1>8, <2>2, <2>3
    <2> QED
      BY <1>1, <1>4, <1>8, <2>1, <2>4 DEF Around
  <1> QED
    BY <1>7, <1>8

NamesOf(kept) == [k \in DOMAIN kept |-> kept[k].name]

LEMMA AroundIsKept ==
  ASSUME NEW T, NEW defs \in Seq(DefSet(T)), NestedByLines(defs), NEW i \in 1..Len(defs)
  PROVE  NamesAround(defs, i) = NamesOf(KeptAt(defs, Around(defs, i)))
  <1>1. PICK n \in Nat : n = Len(defs) /\ DOMAIN defs = 1..n /\ i \in 1..n
    OBVIOUS
  <1>2. \A k \in 1..n : defs[k].line[1] \in Nat /\ defs[k].line[2] \in Nat
    BY <1>1, LinesTyped
  <1>3. \A k, l \in 1..n : k < l => defs[k].line[1] < defs[l].line[1]
    BY <1>1 DEF NestedByLines
  <1>4. \A k, l \in 1..n : defs[k].line[1] < defs[l].line[1] <=> k < l
    <2> SUFFICES ASSUME NEW k \in 1..n, NEW l \in 1..n
                 PROVE  defs[k].line[1] < defs[l].line[1] <=> k < l
      OBVIOUS
    <2>1. k < l \/ k = l \/ l < k
      OBVIOUS
    <2> QED
      BY <1>2, <1>3, <2>1
  <1> DEFINE around == {j \in DOMAIN defs : /\ defs[j].line[1] <= defs[i].line[1]
                                            /\ defs[j].line[2] >= defs[i].line[2]}
             before == {p \in around \X around : defs[p[1]].line[1] < defs[p[2]].line[1]}
             A == Around(defs, i)
  <1>5. around = A
    <2>1. ASSUME NEW j \in 1..n
          PROVE  j \in around <=> j \in A
      <3>1. defs[j].line[1] <= defs[i].line[1] <=> ~(i < j)
        BY <1>1, <1>2, <1>4, <2>1
      <3>2. j \in A <=> j = i \/ (j \in 1..(i - 1) /\ defs[j].line[2] >= defs[i].line[2])
        BY <1>1 DEF Around, OuterOf, Holds
      <3>3. j = i => defs[j].line[2] >= defs[i].line[2]
        BY <1>1, <1>2
      <3> QED
        BY <1>1, <2>1, <3>1, <3>2, <3>3
    <2>2. A \subseteq 1..n /\ around \subseteq 1..n
      BY <1>1 DEF Around, OuterOf
    <2> QED
      BY <2>1, <2>2
  <1>6. A \in SUBSET (1..n)
    BY <1>1 DEF Around, OuterOf
  <1>7. before = Upwards(A)
    <2>1. before = {p \in A \X A : defs[p[1]].line[1] < defs[p[2]].line[1]}
      BY <1>5
    <2>2. \A p \in A \X A : defs[p[1]].line[1] < defs[p[2]].line[1] <=> p[1] < p[2]
      BY <1>4, <1>6
    <2> HIDE DEF A, before
    <2> QED
      BY <2>1, <2>2 DEF Upwards
  <1>8. NamesAround(defs, i) = [k \in DOMAIN InOrder(around, before) |->
                                  defs[InOrder(around, before)[k]].name]
    BY Zenon DEF NamesAround
  <1>9. KeptAt(defs, A) = [k \in DOMAIN InOrder(A, Upwards(A)) |->
                             defs[InOrder(A, Upwards(A))[k]]]
    BY Zenon DEF KeptAt, Upwards
  <1> HIDE DEF A, before, around
  <1>10. PICK s : s = InOrder(A, Upwards(A))
    OBVIOUS
  <1>11. NamesAround(defs, i) = [k \in DOMAIN s |-> defs[s[k]].name]
    BY <1>5, <1>7, <1>8, <1>10
  <1>12. KeptAt(defs, A) = [k \in DOMAIN s |-> defs[s[k]]]
    BY <1>9, <1>10
  <1> QED
    BY <1>11, <1>12 DEF NamesOf, A

(* The names of a path are those the recursion gathers.                    *)
NamesUpTo(defs, k) == IF k = 0 THEN <<>> ELSE NamesAround(defs, k)

LEMMA NamesNext ==
  ASSUME NEW T, NEW defs \in Seq(DefSet(T)), NestedByLines(defs), NEW i \in 1..Len(defs)
  PROVE  NamesAround(defs, i) = Append(NamesUpTo(defs, defs[i].parent), defs[i].name)
  <1>1. PICK n \in Nat : n = Len(defs) /\ DOMAIN defs = 1..n /\ i \in 1..n
    OBVIOUS
  <1>2. PICK p : p = defs[i].parent
    OBVIOUS
  <1>3. p \in 0..(i - 1) /\ OuterOf(defs, i) = Around(defs, p)
    BY <1>2, AroundNext
  <1>4. PICK A : A = Around(defs, p)
    OBVIOUS
  <1>5. A \in SUBSET (1..(i - 1))
    BY <1>3, <1>4 DEF OuterOf
  <1>6. Around(defs, i) = A \cup {i}
    BY <1>1, <1>3, <1>4 DEF Around
  <1>7. KeptAt(defs, A \cup {i}) = Append(KeptAt(defs, A), defs[i])
    BY <1>1, <1>5, KeptLast
  <1>8. PICK kept : kept = KeptAt(defs, A)
    OBVIOUS
  <1>9. kept \in Seq(DefSet(T))
    <2>1. A \in SUBSET (1..Len(defs))
      BY <1>1, <1>5
    <2> QED
      BY <1>8, <2>1, KeptAtFacts
  <1>10. NamesAround(defs, i) = NamesOf(Append(kept, defs[i]))
    BY <1>6, <1>7, <1>8, AroundIsKept
  <1>11. NamesOf(Append(kept, defs[i])) = Append(NamesOf(kept), defs[i].name)
    <2>1. PICK m \in Nat : m = Len(kept) /\ DOMAIN kept = 1..m
      BY <1>9
    <2>2. PICK more : more = Append(kept, defs[i])
      OBVIOUS
    <2>3. /\ DOMAIN more = 1..(m + 1) /\ more[m + 1] = defs[i]
          /\ \A k \in 1..m : more[k] = kept[k]
      BY <1>9, <2>1, <2>2
    <2>4. PICK names : names = NamesOf(kept)
      OBVIOUS
    <2>5. names = [k \in 1..m |-> kept[k].name]
      BY <2>1, <2>4 DEF NamesOf
    <2>6. names \in Seq({kept[k].name : k \in 1..m}) /\ Len(names) = m
      BY <2>1, <2>5
    <2>7. Append(names, defs[i].name)
            = [k \in 1..(m + 1) |-> IF k \in 1..m THEN kept[k].name ELSE defs[i].name]
      BY <2>1, <2>5, <2>6
    <2>8. NamesOf(more) = [k \in 1..(m + 1) |-> more[k].name]
      BY <2>3 DEF NamesOf
    <2>9. \A k \in 1..(m + 1) :
            more[k].name = IF k \in 1..m THEN kept[k].name ELSE defs[i].name
      BY <2>1, <2>3
    <2> QED
      BY <2>2, <2>4, <2>7, <2>8, <2>9
  <1>12. NamesOf(kept) = NamesUpTo(defs, p)
    <2>1. CASE p = 0
      <3>1. A = {}
        BY <1>4, <2>1 DEF Around
      <3>2. ToSet(kept) = {}
        <4>1. A \in SUBSET (1..Len(defs)) /\ {defs[j] : j \in A} = {}
          BY <3>1
        <4> QED
          BY <1>8, <4>1, KeptAtFacts
      <3>3. DOMAIN kept = {}
        BY <3>2 DEF ToSet
      <3>4. NamesOf(kept) = <<>>
        BY <3>3 DEF NamesOf
      <3> QED
        BY <2>1, <3>4 DEF NamesUpTo
    <2>2. CASE p # 0
      <3>1. p \in 1..Len(defs)
        BY <1>1, <1>3, <2>2
      <3>2. NamesAround(defs, p) = NamesOf(KeptAt(defs, Around(defs, p)))
        BY <3>1, AroundIsKept
      <3> QED
        BY <1>4, <1>8, <2>2, <3>2 DEF NamesUpTo
    <2> QED
      BY <2>1, <2>2
  <1> QED
    BY <1>2, <1>10, <1>11, <1>12

LEMMA PathIsAround ==
  ASSUME NEW T, NEW defs \in Seq(DefSet(T)), NestedByLines(defs), NEW i \in 1..Len(defs)
  PROVE  SymbolPath(defs, i) = NamesAround(defs, i)
  <1>1. PICK n \in Nat : n = Len(defs) /\ i \in 1..n
    OBVIOUS
  <1> DEFINE Eq(f) == f = [k \in 0..n |-> IF k = 0 THEN <<>>
                                          ELSE Append(f[defs[k].parent], defs[k].name)]
             own == [k \in 0..n |-> NamesUpTo(defs, k)]
  <1>2. SymbolPath(defs, i) = (CHOOSE f : Eq(f))[i]
    BY <1>1, Zenon DEF SymbolPath
  <1>3. \A k \in 1..n : /\ defs[k].parent \in 0..(k - 1)
                        /\ NamesUpTo(defs, k) = Append(NamesUpTo(defs, defs[k].parent),
                                                       defs[k].name)
    <2> SUFFICES ASSUME NEW k \in 1..n
                 PROVE  /\ defs[k].parent \in 0..(k - 1)
                        /\ NamesUpTo(defs, k) = Append(NamesUpTo(defs, defs[k].parent),
                                                       defs[k].name)
      OBVIOUS
    <2>1. defs[k].parent \in 0..(k - 1)
      BY <1>1, AroundNext
    <2>2. NamesAround(defs, k) = Append(NamesUpTo(defs, defs[k].parent), defs[k].name)
      BY <1>1, NamesNext
    <2> QED
      BY <2>1, <2>2 DEF NamesUpTo
  <1>4. Eq(own)
    <2>1. \A k \in 1..n : own[defs[k].parent] = NamesUpTo(defs, defs[k].parent)
      <3>1. \A k \in 1..n : defs[k].parent \in 0..n
        BY <1>3
      <3> QED
        BY <3>1
    <2>2. \A k \in 0..n : own[k] = IF k = 0 THEN <<>>
                                   ELSE Append(own[defs[k].parent], defs[k].name)
      <3> SUFFICES ASSUME NEW k \in 0..n
                   PROVE  own[k] = IF k = 0 THEN <<>>
                                   ELSE Append(own[defs[k].parent], defs[k].name)
        OBVIOUS
      <3>1. own[k] = NamesUpTo(defs, k)
        OBVIOUS
      <3>2. CASE k = 0
        BY <3>1, <3>2 DEF NamesUpTo
      <3>3. CASE k \in 1..n
        <4>1. k # 0
          BY <3>3
        <4> HIDE DEF own
        <4> QED
          BY <1>3, <2>1, <3>1, <3>3, <4>1
      <3> QED
        BY <3>2, <3>3
    <2>3. own = [k \in 0..n |-> own[k]]
      OBVIOUS
    <2> HIDE DEF own
    <2> QED
      BY <2>2, <2>3
  <1>5. PICK h : h = CHOOSE f : Eq(f)
    OBVIOUS
  <1>6. Eq(h)
    <2> HIDE DEF Eq, own
    <2> QED
      BY <1>4, <1>5
  <1>7. /\ h[0] = <<>>
        /\ \A k \in 1..n : h[k] = Append(h[defs[k].parent], defs[k].name)
    <2> DEFINE next(k) == Append(h[defs[k].parent], defs[k].name)
    <2>1. h = [k \in 0..n |-> IF k = 0 THEN <<>> ELSE next(k)]
      BY <1>6, Zenon
    <2> HIDE DEF next, Eq
    <2>2. h[0] = <<>> /\ \A k \in 1..n : h[k] = next(k)
      BY <2>1
    <2> QED
      BY <2>2 DEF next
  <1> HIDE DEF Eq, own
  <1> DEFINE S == {k \in 0..n : \A j \in 0..k : h[j] = NamesUpTo(defs, j)}
  <1>8. 0 \in S
    <2>1. 0..0 = {0}
      OBVIOUS
    <2>2. h[0] = NamesUpTo(defs, 0)
      BY <1>7 DEF NamesUpTo
    <2> QED
      BY <1>1, <2>1, <2>2
  <1>9. ASSUME NEW k \in 1..n, k - 1 \in S
        PROVE  k \in S
    <2>1. \A j \in 0..(k - 1) : h[j] = NamesUpTo(defs, j)
      BY <1>9
    <2>2. h[k] = NamesUpTo(defs, k)
      BY <1>3, <1>7, <2>1
    <2>3. 0..k = 0..(k - 1) \cup {k}
      OBVIOUS
    <2> QED
      BY <2>1, <2>2, <2>3
  <1>10. n \in S
    <2> HIDE DEF S
    <2>1. 0..n \subseteq S
      BY <1>8, <1>9, UpToInduction, Zenon
    <2> QED
      BY <2>1
  <1>11. h[i] = NamesUpTo(defs, i) /\ i # 0
    BY <1>1, <1>10
  <1> QED
    BY <1>2, <1>5, <1>11 DEF NamesUpTo

LEMMA CodeSymbols ==
  ASSUME NEW T, NEW file, ReadAs(file, T), NestedByLines(file.defs), NEW path, NEW language
  PROVE  SymbolsRight(ExtractCode(path, language, file).candidates, file.defs)
  <1> DEFINE defs == file.defs
             symbols == [i \in DOMAIN defs |-> Symbol(path, defs, i)]
             imports == [i \in DOMAIN file.imports |-> Import(path, file.imports[i])]
  <1>2. defs \in Seq(DefSet(T))
    BY DEF ReadAs, DefSet
  <1>1. PICK n \in Nat : n = Len(defs) /\ DOMAIN defs = 1..n
    BY <1>2
  <1>6. PICK m \in Nat : DOMAIN file.imports = 1..m
    BY DEF ReadAs
  <1>3. PICK found : found = ExtractCode(path, language, file).candidates
    OBVIOUS
  <1>4. CASE language # "python"
    <2>1. found = <<>>
      BY <1>3, <1>4 DEF ExtractCode, Extracted
    <2> QED
      BY <1>3, <2>1 DEF SymbolsRight
  <1>5. CASE language = "python"
    <2>1. found = symbols \o imports
      BY <1>3, <1>5, Zenon DEF ExtractCode, Extracted
    <2>2. /\ \A i \in 1..n : symbols[i].symbols = SymbolPath(defs, i)
          /\ \A i \in 1..m : imports[i].type = "import"
      BY <1>1, <1>6 DEF Symbol, Import, Plain
    <2>3. symbols = [i \in 1..n |-> symbols[i]] /\ imports = [i \in 1..m |-> imports[i]]
      BY <1>1, <1>6
    <2> HIDE DEF symbols, imports
    <2>4. PICK C : symbols \in Seq(C) /\ Len(symbols) = n /\ imports \in Seq(C) /\ Len(imports) = m
      <3>1. PICK C : C = {symbols[i] : i \in 1..n} \cup {imports[i] : i \in 1..m}
        OBVIOUS
      <3>2. symbols \in Seq(C) /\ Len(symbols) = n
        BY <1>1, <2>3, <3>1
      <3>3. imports \in Seq(C) /\ Len(imports) = m
        BY <1>6, <2>3, <3>1
      <3> QED
        BY <3>2, <3>3
    <2>5. /\ DOMAIN found = 1..(n + m)
          /\ \A i \in 1..n : found[i] = symbols[i]
          /\ \A i \in 1..m : found[n + i] = imports[i]
      <3>1. /\ found \in Seq(C) /\ Len(found) = n + m
            /\ \A i \in 1..n : found[i] = symbols[i]
            /\ \A i \in 1..m : found[n + i] = imports[i]
        <4>1. PICK a, b : a = symbols /\ b = imports
          OBVIOUS
        <4>2. a \in Seq(C) /\ b \in Seq(C) /\ Len(a) = n /\ Len(b) = m
          BY <2>4, <4>1
        <4>3. /\ a \o b \in Seq(C) /\ Len(a \o b) = Len(a) + Len(b)
              /\ \A i \in 1..Len(a) : (a \o b)[i] = a[i]
              /\ \A i \in 1..Len(b) : (a \o b)[Len(a) + i] = b[i]
          BY <4>2
        <4> QED
          BY <2>1, <4>1, <4>2, <4>3
      <3> QED
        BY <3>1
    <2>6. ASSUME NEW i \in 1..(n + m), found[i].type = "symbol"
          PROVE  found[i].symbols = NamesAround(defs, i)
      <3>1. i \in 1..n
        <4> SUFFICES ASSUME i > n
                     PROVE  FALSE
          BY <1>1, <1>6, <2>6
        <4>1. i - n \in 1..m /\ n + (i - n) = i
          BY <1>1, <1>6, <2>6
        <4>2. found[i] = imports[i - n]
          BY <2>5, <4>1
        <4> QED
          BY <2>2, <2>6, <4>1, <4>2
      <3>2. found[i].symbols = SymbolPath(defs, i)
        BY <1>1, <2>2, <2>5, <3>1
      <3>3. SymbolPath(defs, i) = NamesAround(defs, i)
        BY <1>1, <1>2, <3>1, PathIsAround
      <3> QED
        BY <3>2, <3>3
    <2> QED
      BY <1>3, <2>5, <2>6 DEF SymbolsRight
  <1> QED
    BY <1>4, <1>5

-----------------------------------------------------------------------------
(* The extractor a file goes to.                                           *)

Known(id) == ProfileNamed(id) # <<>>

Ids == STRING \cup {None}

(* The first n + 1 profiles on the way from one.                           *)
IsWay(w, n, id) ==
  /\ n \in Nat /\ w[0] = id /\ \A k \in 0..n : w[k] \in Ids
  /\ \A k \in 1..n : w[k] = Following(w[k - 1])

Fresh(w, m, seen) ==
  Known(w[m]) /\ w[m] \notin seen /\ \A k \in 0..(m - 1) : w[k] # w[m]

(* Those before the n-th are new and have nothing to offer.                *)
Barren(a, w, m, seen) == Fresh(w, m, seen) /\ Offers(a, w[m]) = <<>>

NoneBefore(a, w, n, seen) == \A m \in 0..(n - 1) : Barren(a, w, m, seen)

(* At the n-th the search ends, with what it offers if it is new itself.    *)
StopsAt(a, w, n, seen) ==
  NoneBefore(a, w, n, seen) /\ (Fresh(w, n, seen) => Offers(a, w[n]) # <<>>)

Reached(w, n, seen, a) == IF Fresh(w, n, seen) THEN Offers(a, w[n])[1] ELSE None

LEMMA KnownFacts ==
  ASSUME NEW id
  PROVE  /\ Following(id) \in Ids
         /\ Known(id) => /\ ProfileNamed(id)[1].fallback = Following(id)
                         /\ Following(id) \in STRING
                         /\ \E i \in 1..Len(Profiles) : Profiles[i].id = id
         /\ ~Known(id) => Following(id) = None
         /\ ~Known(None)
  <1> DEFINE named == ProfileNamed(id)
  <1>1. Profiles \in Seq(Profile)
    BY DiscoveryConstants
  <1>2. PICK n \in Nat : n = Len(Profiles) /\ DOMAIN Profiles = 1..n
    BY <1>1
  <1>3. ASSUME NEW p, Known(p)
        PROVE  \E i \in 1..n : Profiles[i].id = p
    <2> DEFINE places == {i \in DOMAIN Profiles : Profiles[i].id = p}
    <2>1. places \in SUBSET (1..Len(Profiles)) /\ ProfileNamed(p) = KeptAt(Profiles, places)
      BY <1>2 DEF ProfileNamed
    <2>2. ProfileNamed(p) \in Seq(Profile) /\ ProfileNamed(p) # <<>>
      BY <1>3, ProfileFacts DEF Known
    <2>3. 1 \in DOMAIN ProfileNamed(p)
      BY <2>2
    <2>4. ToSet(ProfileNamed(p)) = {Profiles[i] : i \in places}
      <3> HIDE DEF places
      <3> QED
        BY <1>1, <2>1, KeptAtFacts
    <2>5. ToSet(ProfileNamed(p)) # {}
      BY <2>3 DEF ToSet
    <2>6. PICK i \in places : TRUE
      BY <2>4, <2>5
    <2> QED
      BY <1>2, <2>6
  <1>4. ~Known(None)
    <2> SUFFICES ASSUME Known(None)
                 PROVE  FALSE
      OBVIOUS
    <2>1. PICK i \in 1..n : Profiles[i].id = None
      BY <1>3
    <2> QED
      BY <1>2, <2>1, DiscoveryConstants
  <1>5. CASE Known(id)
    <2>1. named[1] \in Profile
      BY <1>5, ProfileFacts DEF Known
    <2>2. named[1].fallback \in STRING
      BY <2>1 DEF Profile
    <2>3. Following(id) = named[1].fallback
      BY <1>5 DEF Known, Following
    <2> QED
      BY <1>2, <1>3, <1>4, <1>5, <2>2, <2>3 DEF Ids
  <1>6. CASE ~Known(id)
    <2>1. Following(id) = None
      BY <1>6 DEF Known, Following
    <2> QED
      BY <1>4, <1>6, <2>1 DEF Ids
  <1> QED
    BY <1>5, <1>6

(* Of more profiles than there are, two are the same or one is unknown.    *)
LEMMA WayEnds ==
  ASSUME NEW w, NEW n \in Nat, NEW seen, \A m \in 0..n : Fresh(w, m, seen)
  PROVE  n + 1 <= Len(Profiles)
  <1>1. PICK N \in Nat : N = Len(Profiles)
    BY DiscoveryConstants
  <1> DEFINE at == [m \in 0..n |-> CHOOSE i \in 1..N : Profiles[i].id = w[m]]
  <1>2. \A m \in 0..n : at[m] \in 1..N /\ Profiles[at[m]].id = w[m]
    <2> SUFFICES ASSUME NEW m \in 0..n
                 PROVE  at[m] \in 1..N /\ Profiles[at[m]].id = w[m]
      OBVIOUS
    <2>1. Known(w[m])
      BY DEF Fresh
    <2>2. \E i \in 1..N : Profiles[i].id = w[m]
      BY <1>1, <2>1, KnownFacts
    <2> QED
      BY <2>2
  <1>3. at \in [0..n -> 1..N]
    <2>1. at = [m \in 0..n |-> at[m]]
      OBVIOUS
    <2> HIDE DEF at
    <2> QED
      BY <1>2, <2>1
  <1> HIDE DEF at
  <1>4. IsFiniteSet(0..n) /\ Cardinality(0..n) = n + 1
    BY FS_Interval
  <1>5. IsFiniteSet(1..N) /\ Cardinality(1..N) = N
    BY FS_Interval
  <1> SUFFICES ASSUME N < n + 1
               PROVE  FALSE
    BY <1>1
  <1>6. PICK j \in 0..n, k \in 0..n : j # k /\ at[j] = at[k]
    <2>1. Cardinality(1..N) < Cardinality(0..n)
      BY <1>4, <1>5
    <2> QED
      BY <1>3, <1>4, <1>5, <2>1, FS_PigeonHole
  <1>7. w[j] = w[k]
    BY <1>2, <1>6
  <1>8. CASE j < k
    BY <1>6, <1>7, <1>8 DEF Fresh
  <1>9. CASE k < j
    BY <1>6, <1>7, <1>9 DEF Fresh
  <1> QED
    BY <1>6, <1>8, <1>9

-----------------------------------------------------------------------------
(* The way from the next profile on.                                       *)
GoesOn(a, id, seen, more, w, v, n) ==
  /\ n \in Nat /\ IsWay(w, n + 1, id) /\ \A k \in 0..n : v[k] = w[k + 1]
  /\ Known(id) /\ id \notin seen /\ Offers(a, id) = <<>> /\ more = seen \cup {id}

SameEnd(a, seen, more, w, v, n) ==
  /\ StopsAt(a, w, n + 1, seen) <=> StopsAt(a, v, n, more)
  /\ Reached(w, n + 1, seen, a) = Reached(v, n, more, a)

LEMMA WayGoesOn ==
  ASSUME NEW a, NEW id, NEW seen, NEW more, NEW w, NEW v, NEW n, GoesOn(a, id, seen, more, w, v, n)
  PROVE  IsWay(v, n, Following(id)) /\ SameEnd(a, seen, more, w, v, n)
  <1>5. n \in Nat
    BY DEF GoesOn
  <1>4. \A k \in 0..n : v[k] = w[k + 1]
    BY DEF GoesOn
  <1>1. /\ w[0] = id /\ \A k \in 0..(n + 1) : w[k] \in Ids
        /\ \A k \in 1..(n + 1) : w[k] = Following(w[k - 1])
    BY DEF GoesOn, IsWay
  <1>2. IsWay(v, n, Following(id))
    <2>1. v[0] = Following(id)
      <3>1. 0 \in 0..n /\ 1 \in 1..(n + 1) /\ 0 + 1 = 1 /\ 1 - 1 = 0
        BY <1>5
      <3>2. v[0] = w[1] /\ w[1] = Following(w[0])
        BY <1>1, <1>5, <1>4, <3>1
      <3> QED
        BY <1>1, <1>5, <3>2
    <2>2. \A k \in 0..n : v[k] \in Ids
      BY <1>1, <1>5, <1>4
    <2>3. ASSUME NEW k \in 1..n
          PROVE  v[k] = Following(v[k - 1])
      <3>1. k + 1 \in 1..(n + 1) /\ k \in 0..n /\ k - 1 \in 0..n /\ (k + 1) - 1 = k /\ k - 1 + 1 = k
        BY <1>5
      <3> QED
        BY <1>1, <1>5, <1>4, <3>1
    <2> QED
      BY <1>5, <2>1, <2>2, <2>3 DEF IsWay
  <1>3. /\ Known(id) /\ id \notin seen /\ Offers(a, id) = <<>> /\ more = seen \cup {id}
    BY DEF GoesOn
  <1>6. /\ StopsAt(a, w, n + 1, seen) <=> StopsAt(a, v, n, more)
        /\ Reached(w, n + 1, seen, a) = Reached(v, n, more, a)
    <2>1. ASSUME NEW m \in 0..n
          PROVE  Fresh(w, m + 1, seen) <=> Fresh(v, m, more)
      <3>1. v[m] = w[m + 1]
        BY <1>4, <2>1
      <3>2. (\A k \in 0..m : w[k] # w[m + 1])
              <=> w[0] # w[m + 1] /\ \A k \in 0..(m - 1) : w[k + 1] # w[m + 1]
        <4>1. 0 \in 0..m /\ \A k \in 0..(m - 1) : k + 1 \in 0..m
          BY <1>5
        <4>2. \A k \in 0..m : k = 0 \/ (k - 1 \in 0..(m - 1) /\ k = k - 1 + 1)
          BY <1>5
        <4>3. ASSUME w[0] # w[m + 1], \A k \in 0..(m - 1) : w[k + 1] # w[m + 1],
                     NEW k \in 0..m
              PROVE  w[k] # w[m + 1]
          BY <4>2, <4>3
        <4>4. ASSUME \A k \in 0..m : w[k] # w[m + 1]
              PROVE  w[0] # w[m + 1] /\ \A k \in 0..(m - 1) : w[k + 1] # w[m + 1]
          BY <4>1, <4>4
        <4> QED
          BY <4>3, <4>4
      <3>3. \A k \in 0..(m - 1) : v[k] = w[k + 1]
        BY <1>4, <1>5, <2>1
      <3>4. (m + 1) - 1 = m
        BY <1>5
      <3>5. v[m] \notin more <=> w[m + 1] \notin seen /\ w[0] # w[m + 1]
        BY <1>3, <1>1, <1>5, <3>1
      <3>6. (\A k \in 0..(m - 1) : v[k] # v[m]) <=> \A k \in 0..(m - 1) : w[k + 1] # w[m + 1]
        BY <3>1, <3>3
      <3>7. Fresh(w, m + 1, seen) <=>
              /\ Known(w[m + 1]) /\ w[m + 1] \notin seen
              /\ \A k \in 0..m : w[k] # w[m + 1]
        BY <3>4 DEF Fresh
      <3>8. Fresh(v, m, more) <=>
              /\ Known(v[m]) /\ v[m] \notin more
              /\ \A k \in 0..(m - 1) : v[k] # v[m]
        BY DEF Fresh
      <3> QED
        BY <3>1, <3>2, <3>5, <3>6, <3>7, <3>8
    <2>2. Fresh(w, 0, seen) /\ Offers(a, w[0]) = <<>>
      <3>1. \A k \in 0..(0 - 1) : FALSE
        BY <1>5
      <3> QED
        BY <1>1, <1>5, <1>3, <3>1 DEF Fresh
    <2>3. NoneBefore(a, w, n + 1, seen) <=> NoneBefore(a, v, n, more)
      <3>1. ASSUME NoneBefore(a, w, n + 1, seen), NEW m \in 0..(n - 1)
            PROVE  Fresh(v, m, more) /\ Offers(a, v[m]) = <<>>
        <4>1. m + 1 \in 0..((n + 1) - 1) /\ m \in 0..n
          BY <1>5
        <4>2. Fresh(w, m + 1, seen) /\ Offers(a, w[m + 1]) = <<>>
          BY <1>5, <3>1, <4>1 DEF NoneBefore, Barren
        <4> QED
          BY <1>4, <2>1, <4>1, <4>2
      <3>2. ASSUME NoneBefore(a, v, n, more), NEW m \in 0..((n + 1) - 1), m # 0
            PROVE  Fresh(w, m, seen) /\ Offers(a, w[m]) = <<>>
        <4>1. m - 1 \in 0..(n - 1) /\ m - 1 \in 0..n /\ m - 1 + 1 = m
          BY <1>5, <3>2
        <4>2. Fresh(v, m - 1, more) /\ Offers(a, v[m - 1]) = <<>>
          BY <3>2, <4>1 DEF NoneBefore, Barren
        <4> QED
          BY <1>4, <2>1, <4>1, <4>2
      <3>3. ASSUME NoneBefore(a, v, n, more)
            PROVE  NoneBefore(a, w, n + 1, seen)
        <4>1. ASSUME NEW m \in 0..((n + 1) - 1)
              PROVE  Fresh(w, m, seen) /\ Offers(a, w[m]) = <<>>
          <5>1. CASE m = 0
            BY <2>2, <5>1
          <5>2. CASE m # 0
            BY <3>2, <3>3, <4>1, <5>2
          <5> QED
            BY <5>1, <5>2
        <4>2. \A m \in 0..((n + 1) - 1) : Barren(a, w, m, seen)
          BY <4>1 DEF Barren
        <4> QED
          BY <4>2, Zenon DEF NoneBefore
      <3>4. NoneBefore(a, w, n + 1, seen) => NoneBefore(a, v, n, more)
        BY <3>1 DEF NoneBefore, Barren
      <3> QED
        BY <3>3, <3>4
    <2>4. v[n] = w[n + 1] /\ n \in 0..n
      BY <1>4, <1>5
    <2>5. Fresh(w, n + 1, seen) <=> Fresh(v, n, more)
      BY <2>1, <2>4
    <2> QED
      BY <2>3, <2>4, <2>5 DEF StopsAt, Reached
  <1> QED
    BY <1>2, <1>6 DEF SameEnd

(* One way of a length leads from a profile, and it arrives in one place.  *)
LEMMA WaysAgree ==
  ASSUME NEW w, NEW v, NEW n, NEW m, NEW id, IsWay(w, n, id), IsWay(v, m, id), n <= m
  PROVE  \A k \in 0..n : w[k] = v[k]
  <1>1. n \in Nat /\ m \in Nat
    BY DEF IsWay
  <1> DEFINE S == {k \in 0..n : w[k] = v[k]}
  <1>2. 0 \in S
    BY <1>1 DEF IsWay
  <1>3. ASSUME NEW k \in 1..n, k - 1 \in S
        PROVE  k \in S
    <2>1. k \in 1..m
      BY <1>1
    <2>2. w[k] = Following(w[k - 1]) /\ v[k] = Following(v[k - 1])
      BY <2>1 DEF IsWay
    <2> QED
      BY <1>1, <1>3, <2>2
  <1>4. 0..n \subseteq S
    <2> HIDE DEF S
    <2> QED
      BY <1>1, <1>2, <1>3, UpToInduction, Zenon
  <1> QED
    BY <1>4

LEMMA EndsOnce ==
  ASSUME NEW a, NEW id, NEW seen, NEW w, NEW v, NEW n, NEW m,
         IsWay(w, n, id), StopsAt(a, w, n, seen), IsWay(v, m, id), StopsAt(a, v, m, seen), n <= m
  PROVE  Reached(w, n, seen, a) = Reached(v, m, seen, a)
  <1>1. n \in Nat /\ m \in Nat
    BY DEF IsWay
  <1>2. \A k \in 0..n : w[k] = v[k]
    BY WaysAgree
  <1>3. Fresh(w, n, seen) <=> Fresh(v, n, seen)
    <2>1. n \in 0..n /\ \A k \in 0..(n - 1) : k \in 0..n
      BY <1>1
    <2> QED
      BY <1>2, <2>1 DEF Fresh
  <1>4. w[n] = v[n]
    BY <1>1, <1>2
  <1>5. n = m
    <2> SUFFICES ASSUME n < m
                 PROVE  FALSE
      BY <1>1
    <2>1. n \in 0..(m - 1)
      BY <1>1
    <2>2. Fresh(v, n, seen) /\ Offers(a, v[n]) = <<>>
      BY <2>1 DEF StopsAt, NoneBefore, Barren
    <2> QED
      BY <1>3, <1>4, <2>2 DEF StopsAt
  <1> QED
    BY <1>3, <1>4, <1>5 DEF Reached

LEMMA WayExists ==
  ASSUME NEW id \in Ids, NEW n \in Nat
  PROVE  \E w : IsWay(w, n, id)
  <1> DEFINE step == [p \in (1..n) \X Ids |-> Following(p[2])]
  <1>1. step \in [(1..n) \X Ids -> Ids]
    BY KnownFacts
  <1>2. \A k \in 1..n, p \in Ids : step[<<k, p>>] = Following(p)
    OBVIOUS
  <1> HIDE DEF step
  <1>3. PICK w : IsFold(w, n, Ids, id, step)
    BY <1>1, FoldDefined, Zenon
  <1>4. /\ w \in [0..n -> Ids] /\ w[0] = id
        /\ \A k \in 1..n : w[k] = step[<<k, w[k - 1]>>]
    BY <1>3 DEF IsFold
  <1>5. \A k \in 1..n : w[k - 1] \in Ids
    BY <1>4
  <1>6. \A k \in 1..n : w[k] = Following(w[k - 1])
    BY <1>2, <1>4, <1>5
  <1> QED
    BY <1>4, <1>6 DEF IsWay

(* A way that is long enough ends somewhere.                               *)
LEMMA WayStops ==
  ASSUME NEW a, NEW w, NEW id, NEW n, n = Len(Profiles), IsWay(w, n, id), NEW seen
  PROVE  \E m \in 0..n : StopsAt(a, w, m, seen)
  <1>1. n \in Nat
    BY DEF IsWay
  <1> SUFFICES ASSUME \A m \in 0..n : ~StopsAt(a, w, m, seen)
               PROVE  FALSE
    OBVIOUS
  <1> DEFINE S == {m \in 0..n : /\ NoneBefore(a, w, m, seen)
                                /\ Fresh(w, m, seen) /\ Offers(a, w[m]) = <<>>}
  <1>2. \A m \in 0..n : NoneBefore(a, w, m, seen) => m \in S
    BY DEF StopsAt
  <1>3. 0 \in S
    <2>1. NoneBefore(a, w, 0, seen)
      <3>1. \A m \in 0..(0 - 1) : FALSE
        OBVIOUS
      <3> QED
        BY <3>1 DEF NoneBefore, Barren
    <2> QED
      BY <1>1, <1>2, <2>1
  <1>4. ASSUME NEW m \in 1..n, m - 1 \in S
        PROVE  m \in S
    <2>1. /\ NoneBefore(a, w, m - 1, seen)
          /\ Fresh(w, m - 1, seen) /\ Offers(a, w[m - 1]) = <<>>
      BY <1>4
    <2>2. \A k \in 0..(m - 1) : k = m - 1 \/ k \in 0..(m - 1 - 1)
      BY <1>4
    <2>3. NoneBefore(a, w, m, seen)
      BY <2>1, <2>2 DEF NoneBefore, Barren
    <2> QED
      BY <1>2, <1>4, <2>3
  <1>5. 0..n \subseteq S
    <2> HIDE DEF S
    <2> QED
      BY <1>1, <1>3, <1>4, UpToInduction, Zenon
  <1>6. \A m \in 0..n : Fresh(w, m, seen)
    BY <1>5
  <1> HIDE DEF S
  <1>7. n + 1 <= Len(Profiles)
    BY <1>1, <1>6, WayEnds, Zenon
  <1> QED
    BY <1>1, <1>7

-----------------------------------------------------------------------------
(* What a search from a profile comes to.                                  *)
Ending(a, id, seen, x) ==
  \E n, w : IsWay(w, n, id) /\ StopsAt(a, w, n, seen) /\ x = Reached(w, n, seen, a)

Result(a, id, seen) == CHOOSE x : Ending(a, id, seen, x)

(* A way to the end of the search.                                         *)
Leads(a, id, seen, w, n) == IsWay(w, n, id) /\ StopsAt(a, w, n, seen)

LEMMA ResultIs ==
  ASSUME NEW a, NEW id, NEW seen, NEW w, NEW n, Leads(a, id, seen, w, n)
  PROVE  Result(a, id, seen) = Reached(w, n, seen, a)
  <1>7. IsWay(w, n, id) /\ StopsAt(a, w, n, seen)
    BY DEF Leads
  <1>1. Ending(a, id, seen, Reached(w, n, seen, a))
    BY <1>7 DEF Ending
  <1>2. PICK x : x = Result(a, id, seen)
    OBVIOUS
  <1>3. Ending(a, id, seen, x)
    BY <1>1, <1>2 DEF Result
  <1>4. PICK m, v : IsWay(v, m, id) /\ StopsAt(a, v, m, seen) /\ x = Reached(v, m, seen, a)
    BY <1>3 DEF Ending
  <1>5. n \in Nat /\ m \in Nat
    BY <1>4, <1>7 DEF IsWay
  <1>6. n <= m \/ m <= n
    BY <1>5
  <1> QED
    BY <1>2, <1>4, <1>6, <1>7, EndsOnce

LEMMA ResultExists ==
  ASSUME NEW a, NEW id \in Ids, NEW seen
  PROVE  \E n, w : Leads(a, id, seen, w, n)
  <1>1. PICK n \in Nat : n = Len(Profiles)
    BY DiscoveryConstants
  <1>2. PICK w : IsWay(w, n, id)
    BY WayExists
  <1>3. PICK m \in 0..n : StopsAt(a, w, m, seen)
    BY <1>1, <1>2, WayStops
  <1>4. IsWay(w, m, id)
    BY <1>1, <1>2 DEF IsWay
  <1> QED
    BY <1>3, <1>4 DEF Leads

(* One step of the search.                                                 *)
NextOf(a, id, seen, rest) ==
  IF ~Known(id) \/ id \in seen THEN None
  ELSE IF Offers(a, id) # <<>> THEN Offers(a, id)[1]
  ELSE rest

LEMMA ResultNext ==
  ASSUME NEW a, NEW id \in STRING, NEW seen \in SUBSET STRING
  PROVE  Result(a, id, seen) = NextOf(a, id, seen, Result(a, Following(id), seen \cup {id}))
  <1>1. PICK w : IsWay(w, 0, id)
    BY WayExists DEF Ids
  <1>2. NoneBefore(a, w, 0, seen) /\ (Fresh(w, 0, seen) <=> Known(id) /\ id \notin seen)
    <2>1. w[0] = id
      BY <1>1 DEF IsWay
    <2>2. \A m \in 0..(0 - 1) : FALSE
      OBVIOUS
    <2> QED
      BY <2>1, <2>2 DEF NoneBefore, Barren, Fresh
  <1>3. CASE ~Known(id) \/ id \in seen \/ Offers(a, id) # <<>>
    <2>1. w[0] = id
      BY <1>1 DEF IsWay
    <2>2. StopsAt(a, w, 0, seen)
      BY <1>2, <1>3, <2>1 DEF StopsAt
    <2>3. Result(a, id, seen) = Reached(w, 0, seen, a)
      BY <1>1, <2>2, ResultIs DEF Leads
    <2> QED
      BY <1>2, <1>3, <2>1, <2>3 DEF Reached, NextOf
  <1>4. CASE Known(id) /\ id \notin seen /\ Offers(a, id) = <<>>
    <2>11. PICK more : more = seen \cup {id}
      OBVIOUS
    <2>1. PICK n, v : Leads(a, Following(id), more, v, n)
      <3>1. Following(id) \in Ids
        BY KnownFacts
      <3> QED
        BY <3>1, ResultExists
    <2>2. /\ n \in Nat /\ v[0] = Following(id) /\ \A k \in 0..n : v[k] \in Ids
          /\ \A k \in 1..n : v[k] = Following(v[k - 1])
      BY <2>1 DEF Leads, IsWay
    <2>10. PICK u : u = [k \in 0..(n + 1) |-> IF k = 0 THEN id ELSE v[k - 1]]
      OBVIOUS
    <2>4. \A k \in 1..(n + 1) : k - 1 \in 0..n /\ k - 1 + 1 = k /\ k # 0 /\ k \in 0..(n + 1)
      BY <2>2
    <2>3. u[0] = id /\ \A k \in 1..(n + 1) : u[k] = v[k - 1]
      <3>1. 0 \in 0..(n + 1)
        BY <2>2
      <3> QED
        BY <2>4, <2>10, <3>1
    <2>5. \A k \in 0..n : u[k + 1] = v[k]
      <3>1. \A k \in 0..n : k + 1 \in 1..(n + 1) /\ (k + 1) - 1 = k
        BY <2>2
      <3> QED
        BY <2>3, <3>1
    <2>6. IsWay(u, n + 1, id)
      <3>1. \A k \in 0..(n + 1) : u[k] \in Ids
        <4>1. \A k \in 0..(n + 1) : k = 0 \/ k \in 1..(n + 1)
          BY <2>2
        <4> QED
          BY <2>2, <2>3, <2>4, <4>1 DEF Ids
      <3>2. ASSUME NEW k \in 1..(n + 1)
            PROVE  u[k] = Following(u[k - 1])
        <4>1. CASE k = 1
          <5>1. 1 \in 1..(n + 1) /\ 1 - 1 = 0
            BY <2>2
          <5>2. u[1] = v[0] /\ u[0] = id
            BY <2>3, <5>1
          <5> QED
            BY <2>2, <4>1, <5>1, <5>2
        <4>2. CASE k # 1
          <5>1. k - 1 \in 1..n /\ k - 1 \in 1..(n + 1)
            BY <2>2, <3>2, <4>2
          <5> QED
            BY <2>2, <2>3, <3>2, <5>1
        <4> QED
          BY <4>1, <4>2
      <3>3. n + 1 \in Nat
        BY <2>2
      <3> QED
        BY <2>3, <3>1, <3>2, <3>3 DEF IsWay
    <2>7. /\ StopsAt(a, u, n + 1, seen)
          /\ Reached(u, n + 1, seen, a) = Reached(v, n, more, a)
      <3>1. PICK m \in Nat : m = n
        BY <2>2
      <3>2. GoesOn(a, id, seen, more, u, v, m)
        BY <1>4, <2>5, <2>6, <2>11, <3>1 DEF GoesOn
      <3>3. /\ StopsAt(a, u, m + 1, seen) <=> StopsAt(a, v, m, more)
            /\ Reached(u, m + 1, seen, a) = Reached(v, m, more, a)
        <4>1. SameEnd(a, seen, more, u, v, m)
          BY <3>2, WayGoesOn, Zenon
        <4> QED
          BY <4>1 DEF SameEnd
      <3> QED
        BY <2>1, <3>1, <3>3 DEF Leads
    <2>8. Result(a, id, seen) = Reached(u, n + 1, seen, a)
      <3>1. Leads(a, id, seen, u, n + 1)
        BY <2>6, <2>7 DEF Leads
      <3> QED
        BY <3>1, ResultIs
    <2>9. Result(a, Following(id), more) = Reached(v, n, more, a)
      <3>1. PICK next : next = Following(id)
        OBVIOUS
      <3> QED
        BY <2>1, <3>1, ResultIs
    <2> QED
      <3>1. PICK rest : rest = Result(a, Following(id), more)
        OBVIOUS
      <3>2. NextOf(a, id, seen, rest) = rest
        BY <1>4 DEF NextOf
      <3> QED
        BY <2>7, <2>8, <2>9, <2>11, <3>1, <3>2
  <1> QED
    BY <1>3, <1>4

-----------------------------------------------------------------------------
(* One call of the selection, given the function that recurs.              *)
Turn(a, id, seen, f) ==
  IF ProfileNamed(id) = <<>> \/ id \in seen THEN None
  ELSE IF Offering(ProfileNamed(id)[1], a) # <<>> THEN Offering(ProfileNamed(id)[1], a)[1]
  ELSE f[seen \cup {id}][ProfileNamed(id)[1].fallback]

LEMMA TurnIs ==
  ASSUME NEW a, NEW id, NEW seen, NEW f, NEW more, more = seen \cup {id}
  PROVE  Turn(a, id, seen, f) = NextOf(a, id, seen, f[more][Following(id)])
  <1>1. PICK named : named = ProfileNamed(id)
    OBVIOUS
  <1>2. Known(id) <=> named # <<>>
    BY <1>1 DEF Known
  <1>3. CASE named = <<>>
    BY <1>1, <1>2, <1>3, Zenon DEF Turn, NextOf
  <1>4. CASE named # <<>>
    <2>1. Following(id) = named[1].fallback /\ Offers(a, id) = Offering(named[1], a)
      BY <1>1, <1>4, Zenon DEF Following, Offers
    <2>2. PICK offered : offered = Offering(named[1], a)
      OBVIOUS
    <2>3. PICK rest : rest = f[more][Following(id)]
      OBVIOUS
    <2>4. Turn(a, id, seen, f) = IF id \in seen THEN None
                                 ELSE IF offered # <<>> THEN offered[1] ELSE rest
      BY <1>1, <1>4, <2>1, <2>2, <2>3, Zenon DEF Turn
    <2>5. NextOf(a, id, seen, rest) = IF id \in seen THEN None
                                      ELSE IF offered # <<>> THEN offered[1] ELSE rest
      BY <1>2, <1>4, <2>1, <2>2, Zenon DEF NextOf
    <2> QED
      BY <2>3, <2>4, <2>5
  <1> QED
    BY <1>3, <1>4

(* What the function that selects satisfies.                               *)
Selects(a, h) ==
  \A seen \in SUBSET STRING, id \in STRING : h[seen][id] = Turn(a, id, seen, h)

LEMMA SelectFromProfileIs ==
  ASSUME NEW a
  PROVE  Selects(a, SelectFromProfile(a))
  <1> DEFINE Eq(f) == f = [seen \in SUBSET STRING |-> [id \in STRING |-> Turn(a, id, seen, f)]]
             own == [seen \in SUBSET STRING |-> [id \in STRING |-> Result(a, id, seen)]]
  <1>1. SelectFromProfile(a) = CHOOSE f : Eq(f)
    BY Zenon DEF SelectFromProfile, Turn
  <1>2. ASSUME NEW seen \in SUBSET STRING, NEW id \in STRING
        PROVE  Result(a, id, seen) = Turn(a, id, seen, own)
    <2>1. PICK more \in SUBSET STRING : more = seen \cup {id}
      OBVIOUS
    <2>2. Turn(a, id, seen, own) = NextOf(a, id, seen, own[more][Following(id)])
      <3> HIDE DEF own
      <3> QED
        BY <2>1, TurnIs
    <2>3. Result(a, id, seen) = NextOf(a, id, seen, Result(a, Following(id), more))
      BY <2>1, ResultNext
    <2>4. CASE Known(id)
      <3>1. PICK next \in STRING : next = Following(id)
        BY <2>4, KnownFacts
      <3>2. own[more][next] = Result(a, next, more)
        BY Zenon
      <3> QED
        BY <2>2, <2>3, <3>1, <3>2
    <2>5. CASE ~Known(id)
      BY <2>2, <2>3, <2>5 DEF NextOf
    <2> QED
      BY <2>4, <2>5
  <1>3. Eq(own)
    <2>1. [seen \in SUBSET STRING |-> [id \in STRING |-> Result(a, id, seen)]]
            = [seen \in SUBSET STRING |-> [id \in STRING |-> Turn(a, id, seen, own)]]
      <3> HIDE DEF own
      <3> QED
        BY <1>2, Zenon
    <2> QED
      BY <2>1, Zenon
  <1>4. PICK h : h = CHOOSE f : Eq(f)
    OBVIOUS
  <1>5. Eq(h)
    <2> HIDE DEF Eq, own
    <2> QED
      BY <1>3, <1>4
  <1>6. \A seen \in SUBSET STRING, id \in STRING : h[seen][id] = Turn(a, id, seen, h)
    <2> DEFINE turn(seen, id) == Turn(a, id, seen, h)
    <2>1. h = [seen \in SUBSET STRING |-> [id \in STRING |-> turn(seen, id)]]
      BY <1>5, Zenon
    <2> HIDE DEF turn, Eq
    <2>2. \A seen \in SUBSET STRING, id \in STRING : h[seen][id] = turn(seen, id)
      BY <2>1
    <2> QED
      BY <2>2 DEF turn
  <1>7. SelectFromProfile(a) = h
    BY <1>1, <1>4, Zenon
  <1> HIDE DEF Eq, own
  <1> QED
    BY <1>6, <1>7 DEF Selects

(* It finds what stands at the end of the way, however long the way is.    *)
FoundAfter(a, h, n) ==
  \A id \in STRING, seen \in SUBSET STRING : \A w :
    Leads(a, id, seen, w, n) => h[seen][id] = Reached(w, n, seen, a)

LEMMA FoundAtOnce ==
  ASSUME NEW a, NEW h, Selects(a, h)
  PROVE  FoundAfter(a, h, 0)
  <1> SUFFICES ASSUME NEW id \in STRING, NEW seen \in SUBSET STRING, NEW w,
                      Leads(a, id, seen, w, 0)
               PROVE  h[seen][id] = Reached(w, 0, seen, a)
    BY DEF FoundAfter
  <1>1. PICK more \in SUBSET STRING : more = seen \cup {id}
    OBVIOUS
  <1>2. PICK rest : rest = h[more][Following(id)]
    OBVIOUS
  <1>3. h[seen][id] = NextOf(a, id, seen, rest)
    <2>1. h[seen][id] = Turn(a, id, seen, h)
      BY DEF Selects
    <2>2. Turn(a, id, seen, h) = NextOf(a, id, seen, h[more][Following(id)])
      BY <1>1, TurnIs
    <2> QED
      BY <1>2, <2>1, <2>2
  <1>4. w[0] = id /\ (Fresh(w, 0, seen) <=> Known(id) /\ id \notin seen)
    <2>1. w[0] = id
      BY DEF Leads, IsWay
    <2>2. \A m \in 0..(0 - 1) : FALSE
      OBVIOUS
    <2> QED
      BY <2>1, <2>2 DEF Fresh
  <1>5. Fresh(w, 0, seen) => Offers(a, w[0]) # <<>>
    BY DEF Leads, StopsAt
  <1> QED
    BY <1>3, <1>4, <1>5, Zenon DEF NextOf, Reached

LEMMA FoundFurther ==
  ASSUME NEW a, NEW h, Selects(a, h), NEW n \in Nat, FoundAfter(a, h, n)
  PROVE  FoundAfter(a, h, n + 1)
  <1> SUFFICES ASSUME NEW id \in STRING, NEW seen \in SUBSET STRING, NEW w,
                      Leads(a, id, seen, w, n + 1)
               PROVE  h[seen][id] = Reached(w, n + 1, seen, a)
    BY DEF FoundAfter
  <1>1. PICK more \in SUBSET STRING : more = seen \cup {id}
    OBVIOUS
  <1>2. PICK v : v = [k \in 0..n |-> w[k + 1]]
    OBVIOUS
  <1>3. IsWay(w, n + 1, id) /\ w[0] = id
    BY DEF Leads, IsWay
  <1>4. Known(id) /\ id \notin seen /\ Offers(a, id) = <<>>
    <2>1. NoneBefore(a, w, n + 1, seen)
      BY DEF Leads, StopsAt
    <2>2. 0 \in 0..((n + 1) - 1)
      OBVIOUS
    <2>3. Barren(a, w, 0, seen)
      BY <2>1, <2>2, Zenon DEF NoneBefore
    <2> QED
      BY <1>3, <2>3 DEF Barren, Fresh
  <1>5. GoesOn(a, id, seen, more, w, v, n)
    BY <1>1, <1>2, <1>3, <1>4 DEF GoesOn
  <1>6. IsWay(v, n, Following(id)) /\ SameEnd(a, seen, more, w, v, n)
    BY <1>5, WayGoesOn, Zenon
  <1>7. PICK next \in STRING : next = Following(id)
    BY <1>4, KnownFacts
  <1>8. Leads(a, next, more, v, n)
    BY <1>6, <1>7 DEF Leads, SameEnd
  <1>9. h[more][next] = Reached(v, n, more, a)
    BY <1>1, <1>7, <1>8 DEF FoundAfter
  <1>10. h[seen][id] = NextOf(a, id, seen, h[more][next])
    <2>1. h[seen][id] = Turn(a, id, seen, h)
      BY DEF Selects
    <2>2. Turn(a, id, seen, h) = NextOf(a, id, seen, h[more][Following(id)])
      BY <1>1, TurnIs
    <2> QED
      BY <1>7, <2>1, <2>2
  <1>11. h[seen][id] = h[more][next]
    BY <1>4, <1>10 DEF NextOf
  <1> QED
    BY <1>6, <1>9, <1>11 DEF SameEnd

LEMMA SelectsTheEnd ==
  ASSUME NEW a, NEW h, Selects(a, h), NEW n \in Nat
  PROVE  FoundAfter(a, h, n)
  <1> DEFINE S == {k \in 0..n : FoundAfter(a, h, k)}
  <1>1. 0 \in S
    BY FoundAtOnce
  <1>2. ASSUME NEW k \in 1..n, k - 1 \in S
        PROVE  k \in S
    <2>1. PICK j \in Nat : j = k - 1 /\ k = j + 1
      BY <1>2
    <2>2. FoundAfter(a, h, j)
      BY <1>2, <2>1
    <2>3. FoundAfter(a, h, j + 1)
      BY <2>2, FoundFurther
    <2> QED
      BY <2>1, <2>3
  <1>3. 0..n \subseteq S
    <2> HIDE DEF S
    <2> QED
      BY <1>1, <1>2, UpToInduction, Zenon
  <1> QED
    BY <1>3

-----------------------------------------------------------------------------
(* The way of a file is one.                                               *)
LEMMA WayIs ==
  ASSUME NEW a, a.profile \in STRING, NEW n \in Nat, n = Len(Profiles)
  PROVE  IsWay(Way(a), n, a.profile)
  <1> DEFINE Eq(f) == f = [k \in 0..n |-> IF k = 0 THEN a.profile ELSE Following(f[k - 1])]
  <1>1. Way(a) = CHOOSE f : Eq(f)
    BY Zenon DEF Way
  <1>2. PICK w : IsWay(w, n, a.profile)
    BY WayExists DEF Ids
  <1>3. PICK f : f = [k \in 0..n |-> w[k]]
    OBVIOUS
  <1>4. Eq(f)
    <2>1. w[0] = a.profile /\ \A k \in 1..n : w[k] = Following(w[k - 1])
      BY <1>2 DEF IsWay
    <2>2. \A k \in 1..n : k - 1 \in 0..n
      OBVIOUS
    <2>3. \A k \in 0..n : w[k] = IF k = 0 THEN a.profile ELSE Following(f[k - 1])
      BY <1>3, <2>1, <2>2
    <2> QED
      BY <1>3, <2>3
  <1>5. PICK h : h = CHOOSE g : Eq(g)
    OBVIOUS
  <1>6. Eq(h)
    <2> HIDE DEF Eq
    <2> QED
      BY <1>4, <1>5
  <1>7. h[0] = a.profile /\ \A k \in 1..n : h[k] = Following(h[k - 1])
    <2> DEFINE next(k) == Following(h[k - 1])
    <2>1. h = [k \in 0..n |-> IF k = 0 THEN a.profile ELSE next(k)]
      BY <1>6, Zenon
    <2> HIDE DEF next, Eq
    <2>2. h[0] = a.profile /\ \A k \in 1..n : h[k] = next(k)
      BY <2>1
    <2> QED
      BY <2>2 DEF next
  <1>8. \A k \in 0..n : h[k] \in Ids
    <2>1. \A k \in 0..n : k = 0 \/ k \in 1..n
      OBVIOUS
    <2>2. \A k \in 1..n : Following(h[k - 1]) \in Ids
      BY KnownFacts
    <2> QED
      BY <1>7, <2>1, <2>2 DEF Ids
  <1>9. Way(a) = h
    BY <1>1, <1>5, Zenon
  <1> HIDE DEF Eq
  <1> QED
    BY <1>7, <1>8, <1>9 DEF IsWay

(* Beyond the end of a search that found nothing, nothing is offered.      *)
LEMMA NothingBeyond ==
  ASSUME NEW a, NEW w, NEW id, NEW n \in Nat, IsWay(w, n, id), NEW m \in 0..n,
         NEW none, none = {}, NoneBefore(a, w, m, none), ~Fresh(w, m, none)
  PROVE  \A k \in 0..n : Offers(a, w[k]) = <<>>
  <1>1. \A k \in 0..(m - 1) : Offers(a, w[k]) = <<>>
    BY DEF NoneBefore, Barren
  <1>2. \A k \in 1..n : w[k] = Following(w[k - 1])
    BY DEF IsWay
  <1>3. \A k \in 0..n : k \in 0..(m - 1) \/ k \in m..n
    OBVIOUS
  <1>4. ASSUME NEW p, ~Known(p)
        PROVE  Offers(a, p) = <<>>
    BY <1>4, Zenon DEF Known, Offers
  <1>5. CASE ~Known(w[m])
    <2> DEFINE S == {k \in 0..n : k >= m => ~Known(w[k])}
    <2>1. 0 \in S
      BY <1>5
    <2>2. ASSUME NEW k \in 1..n, k - 1 \in S
          PROVE  k \in S
      <3>1. CASE k - 1 >= m
        <4>1. ~Known(w[k - 1])
          BY <2>2, <3>1
        <4>2. w[k] = None
          BY <1>2, <4>1, KnownFacts
        <4> QED
          BY <4>2, KnownFacts
      <3>2. CASE k - 1 < m
        BY <1>5, <3>2
      <3> QED
        BY <3>1, <3>2
    <2>3. 0..n \subseteq S
      <3> HIDE DEF S
      <3> QED
        BY <2>1, <2>2, UpToInduction, Zenon
    <2>4. \A k \in m..n : ~Known(w[k])
      BY <2>3
    <2> QED
      BY <1>1, <1>3, <1>4, <2>4
  <1>6. CASE Known(w[m])
    <2>1. PICK j \in 0..(m - 1) : w[j] = w[m]
      BY <1>6 DEF Fresh
    <2> DEFINE S == {k \in 0..n : \E i \in 0..(m - 1) : w[k] = w[i]}
    <2>2. 0 \in S
      BY <2>1
    <2>3. ASSUME NEW k \in 1..n, k - 1 \in S
          PROVE  k \in S
      <3>1. PICK i \in 0..(m - 1) : w[k - 1] = w[i]
        BY <2>3
      <3>2. w[k] = w[i + 1]
        <4>1. i + 1 \in 1..n /\ (i + 1) - 1 = i
          BY <3>1
        <4> QED
          BY <1>2, <3>1, <4>1
      <3>3. i + 1 \in 0..(m - 1) \/ i + 1 = m
        BY <3>1
      <3> QED
        BY <2>1, <3>2, <3>3
    <2>4. 0..n \subseteq S
      <3> HIDE DEF S
      <3> QED
        BY <2>2, <2>3, UpToInduction, Zenon
    <2> QED
      BY <1>1, <2>4
  <1> QED
    BY <1>5, <1>6

(* The selection is right for every file that has a profile.               *)
LEMMA ToolFound ==
  ASSUME NEW a, a.profile \in STRING
  PROVE  ToolRight(a)
  <1>0. PICK none \in SUBSET STRING : none = {}
    OBVIOUS
  <1>1. PICK n \in Nat : n = Len(Profiles)
    BY DiscoveryConstants
  <1>2. PICK w : w = Way(a)
    OBVIOUS
  <1>3. IsWay(w, n, a.profile)
    BY <1>1, <1>2, WayIs
  <1>4. PICK m \in 0..n : StopsAt(a, w, m, none)
    BY <1>1, <1>3, WayStops
  <1>5. NoneBefore(a, w, m, none) /\ (Fresh(w, m, none) => Offers(a, w[m]) # <<>>)
    BY <1>4 DEF StopsAt
  <1>6. SelectExtractor(a) = Reached(w, m, none, a)
    <2>1. PICK h : h = SelectFromProfile(a)
      OBVIOUS
    <2>2. Selects(a, h)
      BY <2>1, SelectFromProfileIs
    <2>3. Leads(a, a.profile, none, w, m)
      <3>1. IsWay(w, m, a.profile)
        BY <1>3, <1>4 DEF IsWay
      <3> QED
        BY <1>4, <3>1 DEF Leads
    <2>4. PICK id \in STRING : id = a.profile
      OBVIOUS
    <2>5. Leads(a, id, none, w, m) /\ m \in Nat /\ id \in STRING
      BY <2>3, <2>4
    <2>6. h[none][id] = Reached(w, m, none, a)
      <3>1. FoundAfter(a, h, m)
        BY <2>2, <2>5, SelectsTheEnd, Zenon
      <3> QED
        BY <1>0, <2>5, <3>1, Zenon DEF FoundAfter
    <2> QED
      BY <1>0, <2>1, <2>4, <2>6 DEF SelectExtractor
  <1>7. \A k \in 0..n : Tools(k, a) = Offers(a, w[k])
    BY <1>2 DEF Tools
  <1>8. CASE Fresh(w, m, none)
    <2>1. SelectExtractor(a) = Tools(m, a)[1] /\ Tools(m, a) # <<>>
      BY <1>5, <1>6, <1>7, <1>8 DEF Reached
    <2>2. \A k \in 0..(m - 1) : Tools(k, a) = <<>>
      BY <1>5, <1>7 DEF NoneBefore, Barren
    <2> QED
      BY <1>1, <2>1, <2>2 DEF ToolRight
  <1>9. CASE ~Fresh(w, m, none)
    <2>1. SelectExtractor(a) = None
      BY <1>6, <1>9 DEF Reached
    <2>2. \A k \in 0..n : Offers(a, w[k]) = <<>>
      BY <1>3, <1>4, <1>5, <1>9, <1>0, NothingBeyond
    <2> QED
      BY <1>1, <1>7, <2>1, <2>2 DEF ToolRight
  <1> QED
    BY <1>8, <1>9

-----------------------------------------------------------------------------
(* The definitions of every file are given parents first and nest by their *)
(* lines: in Python each begins on a line of its own.                      *)
CodeNested ==
  \A v \in Versions : \A f \in DOMAIN Snapshots[v].files :
    NestedByLines(Snapshots[v].files[f].defs)

(* What PlacesRight asks of the result of an extractor for a file.         *)
FoundRight(kind, found, file) ==
  /\ kind \in {"md", "html"} => HeadingsRight(found, file.blocks)
  /\ kind = "text" => ParagraphsRight(found, file.lines)
  /\ kind = "code" => SymbolsRight(found, file.defs)

LEMMA ExtractRight ==
  ASSUME NEW file, ReadAs(file, Token), NestedByLines(file.defs), NEW kind, NEW a,
         ~Extract(kind, a, file).raised
  PROVE  FoundRight(kind, Extract(kind, a, file).candidates, file)
  <1>1. CASE kind \in {"md", "html"}
    <2>1. Extract(kind, a, file) = ExtractDocument(a.path, file, kind = "html")
      BY <1>1 DEF Extract
    <2>2. PICK html : html = (kind = "html")
      OBVIOUS
    <2>3. ExtractDocument(a.path, file, html)
            = Extracted(DocumentCandidates(a.path, html, file.blocks), Warned(file))
      <3>1. ~Raised.raised => FALSE
        BY DEF Raised
      <3> QED
        BY <2>1, <2>2, <3>1, Zenon DEF ExtractDocument
    <2>4. Extract(kind, a, file).candidates = DocumentCandidates(a.path, html, file.blocks)
      BY <2>1, <2>2, <2>3 DEF Extracted
    <2>5. HeadingsRight(Extract(kind, a, file).candidates, file.blocks)
      BY <2>4, DocumentHeadings
    <2> QED
      BY <1>1, <2>5 DEF FoundRight
  <1>2. CASE kind = "text"
    <2>1. Extract(kind, a, file) = ExtractText(a.path, file)
      BY <1>2 DEF Extract
    <2>2. Extract(kind, a, file).candidates
            = LastParagraph(a.path, file.lines, TextRead(a.path, file.lines))
      BY <2>1 DEF ExtractText, Extracted
    <2>3. PICK lines \in Seq(Seq(Token)) : lines = file.lines
      BY DEF ReadAs
    <2>4. ParagraphsRight(Extract(kind, a, file).candidates, file.lines)
      BY <2>2, <2>3, TextParagraphs
    <2> QED
      BY <1>2, <2>4 DEF FoundRight
  <1>3. CASE kind = "code"
    <2>1. Extract(kind, a, file) = ExtractCode(a.path, a.language, file)
      BY <1>3 DEF Extract
    <2>2. SymbolsRight(Extract(kind, a, file).candidates, file.defs)
      BY <2>1, CodeSymbols
    <2> QED
      BY <1>3, <2>2 DEF FoundRight
  <1>4. CASE kind \notin {"md", "html", "text", "code"}
    BY <1>4 DEF FoundRight
  <1> QED
    BY <1>1, <1>2, <1>3, <1>4

(* The file goes to the right tool, and where it says a candidate was      *)
(* found is what the file holds there: the headings above a block, the     *)
(* lines of a paragraph, the names around a definition (registry.py:41-107,*)
(* markdown.py:36-94, html.py:33-85, text.py:25-43,                        *)
(* source_code.py:157-182).                                                *)
THEOREM PlacesFound ==
  ASSUME CodeNested
  PROVE  Spec => []PlacesRight
  <1>1. ContentInv => PlacesRight
    <2> SUFFICES ASSUME ContentInv
                 PROVE  PlacesRight
      OBVIOUS
    <2>1. ASSUME stage = "extract", todo # <<>>
          PROVE  ToolRight(Artifact)
      <3>1. version \in Versions /\ Artifact \in KeptBy(source, version)
        <4>1. version \in Versions /\ CanClassify(source, FilesOf(version))
          BY <2>1 DEF ContentInv, Working
        <4>2. PICK n \in Nat : Through(source, version, n, todo, saved, attempts)
          BY <2>1 DEF ContentInv, Working
        <4> QED
          BY <2>1, <4>1, <4>2, AtHand, Zenon DEF Artifact
      <3>2. Artifact.profile \in STRING
        BY <3>1, KeptFacts
      <3> QED
        BY <3>2, ToolFound
    <2>2. ASSUME stage = "redact"
          PROVE  FoundRight(work.extractor, work.result.candidates, FileOf(version, Artifact))
      <3>1. /\ version \in Versions /\ Artifact \in KeptBy(source, version)
            /\ WorkRight(source, version, stage, Artifact, work)
        BY <2>2, HandFacts
      <3>2. PICK file : file = FileOf(version, Artifact)
        OBVIOUS
      <3>3. PICK f \in DOMAIN Snapshots[version].files : file = Snapshots[version].files[f]
        BY <3>1, <3>2, KeptFacts, Zenon
      <3>4. ReadAs(file, Token) /\ NestedByLines(file.defs)
        BY <3>1, <3>3, ContentConstants DEF CodeNested, Versions
      <3>5. PICK kind : kind = SelectExtractor(Artifact)
        OBVIOUS
      <3>6. /\ work.extractor = kind /\ work.result = Extract(kind, Artifact, file)
            /\ ~work.result.raised
        BY <3>1, <3>2, <3>5, Zenon DEF WorkRight, ResultOf
      <3>7. FoundRight(kind, Extract(kind, Artifact, file).candidates, file)
        BY <3>4, <3>6, ExtractRight
      <3> QED
        BY <3>2, <3>6, <3>7
    <2> QED
      BY <2>1, <2>2, Zenon DEF PlacesRight, FoundRight
  <1> QED
    BY <1>1, RoundTypedAndTrue, PTL
=============================================================================
