--------------------------- MODULE RetrievalProofs ---------------------------
(***************************************************************************)
(* What a retrieval call shows is permitted, cited and within its budget,  *)
(* and on the way there fusion respects the ranks and the walk its bounds. *)
(***************************************************************************)
EXTENDS RetrievalLemmas

(* The server trusts some label.  Without one, the labels a request names  *)
(* pass as they are (corpus_filters.py:39).                                *)
TrustNamed == Trusted.labels # {}

-----------------------------------------------------------------------------
(* The filters.                                                            *)

(* The policy part of a scope: what a chunk must have, whatever is         *)
(* committed of it at the time.                                            *)
Admits(g, c) ==
  Open(SourceOf[c], g.sources) /\ LabelOf[c] \in g.labels /\ g.allowlisted

ScopeSound(f, g) ==
  /\ g.versions = f.versions
  /\ \A c \in Chunks : Admits(g, c) => PermittedBy(f, c)

(* The trusted lists are lists of sources and labels.                      *)
LEMMA TrustedTyped ==
  /\ Trusted.sources \subseteq Sources /\ Trusted.labels \subseteq Labels
  /\ \A c \in Chunks : SourceOf[c] \in Sources /\ LabelOf[c] \in Labels
  /\ NoMatch \notin Sources \cup Labels /\ NoIndex \notin Sources
  BY FilterConstants, ChunkConstants

(* Narrowing a dimension leaves what is trusted and asked for.             *)
LEMMA NarrowedOpen ==
  ASSUME NEW requested, NEW trusted, NEW value, value # NoMatch,
         Open(value, Narrowed(requested, trusted))
  PROVE  Open(value, requested) /\ Open(value, trusted)
  BY DEF Open, Narrowed, Intersection

(* A closed dimension, narrowed, holds what is trusted and asked for.      *)
LEMMA NarrowedClosed ==
  ASSUME NEW requested, NEW trusted, NEW value, value # NoMatch, trusted # {},
         value \in Narrowed(requested, trusted)
  PROVE  Open(value, requested) /\ value \in trusted
  BY DEF Open, Narrowed, Intersection

(* The request's filters, narrowed to the trusted lists.                   *)
LEMMA NarrowFacts ==
  ASSUME NEW f \in Filter
  PROVE  /\ NarrowFilters(f).sources = Narrowed(f.sources, Trusted.sources)
         /\ NarrowFilters(f).labels = Narrowed(f.labels, Trusted.labels)
         /\ NarrowFilters(f).versions = f.versions
         /\ NarrowFilters(f).allowlisted = f.allowlisted
         /\ NarrowFilters(f).index = f.index
         /\ DOMAIN NarrowFilters(f) = DOMAIN f
  BY DEF NarrowFilters, Filter

(* A filter cut to the active index it names admits no source outside of   *)
(* what it admitted or of what the index was built for, and nothing at all *)
(* when the index is not active.                                           *)
LEMMA ResolvedFacts ==
  ASSUME NEW f, "sources" \in DOMAIN f, f = [n \in DOMAIN f |-> f[n]],
         f.index # None,
         NEW g, g = ResolveActiveIndex(f, FALSE, {})
  PROVE  /\ DOMAIN f = {"sources", "labels", "versions", "allowlisted", "index"} =>
              /\ g.labels = f.labels /\ g.versions = f.versions
              /\ g.allowlisted = f.allowlisted
         /\ \A c \in Chunks : Open(SourceOf[c], g.sources) =>
              /\ Open(SourceOf[c], f.sources)
              /\ Open(SourceOf[c], index[f.index].scope)
  <1> DEFINE kept == index[f.index].scope
             cut == IF f.sources = {} THEN kept ELSE f.sources \cap kept
  <1>1. g \in {f, NoActiveIndex(f), [f EXCEPT !.sources = cut]}
    BY DEF ResolveActiveIndex, CutToScope
  <1>2. CASE g = NoActiveIndex(f)
    <2>1. /\ g.sources = {NoIndex}
          /\ DOMAIN f = {"sources", "labels", "versions", "allowlisted", "index"} =>
               /\ g.labels = f.labels /\ g.versions = f.versions
               /\ g.allowlisted = f.allowlisted
      BY <1>2 DEF NoActiveIndex
    <2>2. \A c \in Chunks : ~Open(SourceOf[c], g.sources)
      BY <2>1, TrustedTyped DEF Open
    <2> QED
      BY <2>1, <2>2
  <1>3. CASE g = f /\ kept = {}
    BY <1>3 DEF Open
  <1>4. CASE g = [f EXCEPT !.sources = cut] /\ cut # {}
    BY <1>4 DEF Open
  <1> QED
    BY <1>1, <1>2, <1>3, <1>4 DEF ResolveActiveIndex, CutToScope

(* The scope a call begins with is sound.                                  *)
LEMMA ScopeIsSound ==
  ASSUME TrustNamed, NEW f \in Filter, f.index # None
  PROVE  ScopeSound(f, ScopeOf(f))
  <1> DEFINE n == NarrowFilters(f)
             g == ResolveActiveIndex(n, FALSE, {})
  <1>1. /\ DOMAIN n = {"sources", "labels", "versions", "allowlisted", "index"}
        /\ n = [k \in DOMAIN n |-> n[k]]
    BY DEF NarrowFilters, Filter
  <1>2. n.index = f.index /\ n.versions = f.versions /\ n.allowlisted = f.allowlisted
    BY NarrowFacts
  <1>3. /\ n.sources = Narrowed(f.sources, Trusted.sources)
        /\ n.labels = Narrowed(f.labels, Trusted.labels)
    BY NarrowFacts
  <1> HIDE DEF n
  <1>4. /\ g.labels = n.labels /\ g.versions = n.versions
        /\ g.allowlisted = n.allowlisted
        /\ \A c \in Chunks : Open(SourceOf[c], g.sources) =>
             /\ Open(SourceOf[c], n.sources)
             /\ Open(SourceOf[c], index[n.index].scope)
    <2>1. n.index # None /\ "sources" \in DOMAIN n
      BY <1>1, <1>2
    <2>2. g = ResolveActiveIndex(n, FALSE, {})
      OBVIOUS
    <2> HIDE DEF g
    <2> QED
      BY <1>1, <2>1, <2>2, ResolvedFacts
  <1> HIDE DEF g
  <1>5. g.versions = f.versions
    BY <1>2, <1>4
  <1>6. ASSUME NEW c \in Chunks, Admits(g, c)
        PROVE  PermittedBy(f, c)
    <2>1. SourceOf[c] # NoMatch /\ LabelOf[c] # NoMatch
      BY TrustedTyped
    <2>2. /\ Open(SourceOf[c], n.sources)
          /\ Open(SourceOf[c], index[f.index].scope)
          /\ LabelOf[c] \in n.labels /\ f.allowlisted
      BY <1>2, <1>4, <1>6 DEF Admits
    <2>3. Open(SourceOf[c], f.sources) /\ Open(SourceOf[c], Trusted.sources)
      BY <1>3, <2>1, <2>2, NarrowedOpen
    <2>4. Open(LabelOf[c], f.labels) /\ LabelOf[c] \in Trusted.labels
      BY <1>3, <2>1, <2>2, NarrowedClosed DEF TrustNamed
    <2> QED
      BY <2>2, <2>3, <2>4 DEF PermittedBy
  <1>7. ScopeOf(f) = g
    BY DEF ScopeOf, g, n
  <1> QED
    BY <1>5, <1>6, <1>7 DEF ScopeSound

-----------------------------------------------------------------------------
(* The call.                                                               *)

ScopeFixed == {"citations", "conflicts"}

Indexed == {"select", "fuzzy", "expand", "fuse", "records", "citations",
            "conflicts", "assemble", "done"}

Rows == DOMAIN records \cup DOMAIN citations \cup UNION markers

(* What each place may count on: an index is named once a path has been    *)
(* asked, the statements of the evidence fetcher share a sound scope, and  *)
(* what they have read is permitted.                                       *)
EvidenceInOrder ==
  /\ request.filter \in Filter
  /\ pc \in Indexed \/ path = "vector" \/ Rows # {} => request.filter.index # None
  /\ pc \in ScopeFixed => ScopeSound(request.filter, scope)
  /\ RowsPermitted

(* The invariant holds at first.                                           *)
LEMMA EvidenceInit == Init => EvidenceInOrder
  <1> SUFFICES ASSUME Init PROVE EvidenceInOrder
    OBVIOUS
  <1>1. request.filter \in Filter
    BY RetrievalConstants DEF Init
  <1>2. DOMAIN records = {} /\ DOMAIN citations = {} /\ UNION markers = {}
    BY DEF Init
  <1>3. pc \notin Indexed \cup ScopeFixed /\ path # "vector"
    BY DEF Init, Indexed, ScopeFixed
  <1> QED
    BY <1>1, <1>2, <1>3 DEF EvidenceInOrder, RowsPermitted, Rows

(* A chunk in a sound scope is permitted, and of a requested version.      *)
LEMMA InScopePermitted ==
  ASSUME NEW g, ScopeSound(request.filter, g), NEW c \in ChunkScope(g)
  PROVE  Permitted(c) /\ Seen(c).version \in request.filter.versions
  BY DEF ChunkScope, InChunkScope, ScopeSound, Admits, Permitted, Seen

ScopesKept == \A i \in Indexes : index'[i].scope = index[i].scope

(* What is permitted depends on nothing that another session may change.   *)
LEMMA PermittedStays ==
  ASSUME UNCHANGED request, request.filter \in Filter,
         request.filter.index # None, ScopesKept
  PROVE  /\ \A c : Permitted(c) => Permitted(c)'
         /\ \A g : ScopeSound(request.filter, g) => ScopeSound(request.filter, g)'
  <1>1. request.filter.index \in Indexes
    BY DEF Filter
  <1>2. index'[request.filter.index].scope = index[request.filter.index].scope
    BY <1>1 DEF ScopesKept
  <1>3. \A c : PermittedBy(request.filter, c) <=> PermittedBy(request.filter, c)'
    BY <1>2 DEF PermittedBy, Open
  <1> QED
    BY <1>3 DEF Permitted, ScopeSound, Admits, Open

(* A step that reads no evidence keeps what there is in order.             *)
LEMMA NothingRead ==
  ASSUME EvidenceInOrder, UNCHANGED <<request, evidence>>,
         Rows # {} \/ pc' \in Indexed => ScopesKept,
         pc' \in Indexed \/ path' = "vector" =>
           pc \in Indexed \/ path = "vector" \/ request.filter.index # None,
         pc' \in ScopeFixed => pc \in ScopeFixed /\ UNCHANGED scope
  PROVE  EvidenceInOrder'
  <1>1. /\ request'.filter \in Filter
        /\ pc' \in Indexed \/ path' = "vector" \/ Rows' # {} =>
             request'.filter.index # None
    BY DEF EvidenceInOrder, evidence, Rows
  <1>2. pc' \in ScopeFixed => ScopeSound(request.filter, scope)'
    <2> SUFFICES ASSUME pc' \in ScopeFixed
                 PROVE  ScopeSound(request.filter, scope)'
      OBVIOUS
    <2>1. pc' \in Indexed /\ ScopeSound(request.filter, scope) /\ scope' = scope
      BY DEF EvidenceInOrder, ScopeFixed, Indexed
    <2>2. request.filter \in Filter /\ request.filter.index # None /\ ScopesKept
      BY <1>1, <2>1 DEF EvidenceInOrder
    <2>3. \A g : ScopeSound(request.filter, g) => ScopeSound(request.filter, g)'
      BY <2>2, PermittedStays
    <2> QED
      BY <2>1, <2>3
  <1>3. CASE Rows = {}
    <2>1. /\ DOMAIN records' = {} /\ DOMAIN citations' = {}
          /\ UNION markers' = {}
      BY <1>3 DEF Rows, evidence
    <2>2. RowsPermitted'
      BY <2>1 DEF RowsPermitted
    <2> QED
      BY <1>1, <1>2, <2>2 DEF EvidenceInOrder
  <1>4. CASE Rows # {}
    <2>1. \A c : Permitted(c) => Permitted(c)'
      BY <1>4, PermittedStays DEF EvidenceInOrder
    <2>2. RowsPermitted
      BY DEF EvidenceInOrder
    <2>3. /\ records' = records /\ citations' = citations /\ markers' = markers
          /\ request' = request
      BY DEF evidence
    <2>4. RowsPermitted'
      BY <2>1, <2>2, <2>3 DEF RowsPermitted
    <2> QED
      BY <1>1, <1>2, <2>4 DEF EvidenceInOrder
  <1> QED
    BY <1>3, <1>4

-----------------------------------------------------------------------------
(* The statements of the evidence fetcher.                                 *)

(* The records fetched are permitted.                                      *)
LEMMA RecordsPermitted ==
  ASSUME TrustNamed, EvidenceInOrder, UNCHANGED <<catalogue, request>>, FetchRecords
  PROVE  EvidenceInOrder'
  <1>1. request.filter.index # None /\ request.filter \in Filter
    BY DEF EvidenceInOrder, FetchRecords, Indexed
  <1>2. ScopeSound(request.filter, scope')
    BY <1>1, ScopeIsSound DEF FetchRecords
  <1>3. index' = index /\ request' = request
    BY DEF catalogue
  <1>4. ScopeSound(request.filter, scope)' /\ \A c : Permitted(c) => Permitted(c)'
    BY <1>1, <1>2, <1>3, PermittedStays DEF ScopesKept
  <1>5. \A c \in DOMAIN records' :
          /\ Permitted(c)
          /\ records'[c].version \in request.filter.versions
    <2>1. records' = [c \in ToSet(ranked) \cap ChunkScope(scope') |-> Seen(c)]
      BY DEF FetchRecords
    <2> QED
      BY <1>2, <2>1, InScopePermitted
  <1>6. citations' = citations /\ markers' = markers
    BY DEF FetchRecords
  <1>7. RowsPermitted
    BY DEF EvidenceInOrder
  <1>8. RowsPermitted'
    BY <1>3, <1>4, <1>5, <1>6, <1>7 DEF RowsPermitted
  <1> QED
    BY <1>1, <1>3, <1>4, <1>8 DEF EvidenceInOrder

(* The citations fetched are permitted.                                    *)
LEMMA CitationsPermitted ==
  ASSUME EvidenceInOrder, UNCHANGED <<catalogue, request>>, FetchCitations
  PROVE  EvidenceInOrder'
  <1>1. /\ request.filter.index # None /\ request.filter \in Filter
        /\ ScopeSound(request.filter, scope) /\ scope' = scope
    BY DEF EvidenceInOrder, FetchCitations, Indexed, ScopeFixed
  <1>2. index' = index /\ request' = request
    BY DEF catalogue
  <1>3. ScopeSound(request.filter, scope)' /\ \A c : Permitted(c) => Permitted(c)'
    BY <1>1, <1>2, PermittedStays DEF ScopesKept
  <1>4. \A c \in DOMAIN citations' :
          /\ Permitted(c)
          /\ citations'[c].version \in request.filter.versions
    <2>1. citations' = [c \in {d \in ToSet(ranked) : Citable(d)} |-> Seen(c)]
      BY DEF FetchCitations
    <2>2. \A c : Citable(c) => c \in ChunkScope(scope)
      BY DEF Citable, CitationScope
    <2> QED
      BY <1>1, <2>1, <2>2, InScopePermitted
  <1>5. records' = records /\ markers' = markers
    BY DEF FetchCitations
  <1>6. RowsPermitted
    BY DEF EvidenceInOrder
  <1>7. RowsPermitted'
    BY <1>2, <1>3, <1>4, <1>5, <1>6 DEF RowsPermitted
  <1> QED
    BY <1>1, <1>2, <1>3, <1>7 DEF EvidenceInOrder

(* Marks are only put on chunks whose citations were read, and taken off   *)
(* again.                                                                  *)
LEMMA MarkersPermitted ==
  ASSUME EvidenceInOrder, UNCHANGED <<catalogue, request>>,
         FetchConflicts \/ Assemble
  PROVE  EvidenceInOrder'
  <1>1. /\ request.filter.index # None /\ request.filter \in Filter
        /\ RowsPermitted
    BY DEF EvidenceInOrder, FetchConflicts, Assemble, Indexed
  <1>2. index' = index /\ request' = request
    BY DEF catalogue
  <1>3. \A c : Permitted(c) => Permitted(c)'
    BY <1>1, <1>2, PermittedStays DEF ScopesKept
  <1>4. /\ records' = records /\ citations' = citations
        /\ \A c \in UNION markers' : c \in UNION markers \/ c \in DOMAIN citations
    <2>1. CASE Assemble
      BY <2>1 DEF Assemble, MarkersShown
    <2>2. CASE FetchConflicts /\ UNCHANGED evidence
      BY <2>2 DEF evidence
    <2>3. CASE /\ records' = records /\ citations' = citations
               /\ \A x \in Touching : {x.left.cites, x.right.cites} \subseteq DOMAIN citations
               /\ markers' = {{x.left.cites, x.right.cites} : x \in Touching}
      <3>1. ASSUME NEW c \in UNION markers'
            PROVE  c \in DOMAIN citations
        <4>1. PICK m \in markers' : c \in m
          OBVIOUS
        <4>2. PICK x \in Touching : m = {x.left.cites, x.right.cites}
          BY <2>3
        <4> QED
          BY <2>3, <4>1, <4>2
      <3> QED
        BY <2>3, <3>1
    <2>4. FetchConflicts =>
            \/ Fails
            \/ /\ \A x \in Touching :
                    {x.left.cites, x.right.cites} \subseteq DOMAIN citations
               /\ markers' = {{x.left.cites, x.right.cites} : x \in Touching}
               /\ UNCHANGED <<path, scope, lists, walked, ranked, records,
                              citations, bundle>>
      BY DEF FetchConflicts
    <2>5. Fails => UNCHANGED evidence
      BY DEF Fails
    <2> QED
      BY <2>1, <2>2, <2>3, <2>4, <2>5
  <1>6. RowsPermitted'
    <2> DEFINE marked == UNION markers
    <2>1. /\ \A c \in marked' : c \in marked \/ c \in DOMAIN citations
          /\ records' = records /\ citations' = citations
      BY <1>4
    <2>2. \A c \in DOMAIN records \cup DOMAIN citations \cup marked : Permitted(c)'
      <3>1. \A c \in DOMAIN records \cup DOMAIN citations \cup marked : Permitted(c)
        BY <1>1, Zenon DEF RowsPermitted
      <3> HIDE DEF marked
      <3> QED
        BY <1>3, <3>1
    <2>3. \A c \in DOMAIN records' \cup DOMAIN citations' \cup marked' :
            c \in DOMAIN records \cup DOMAIN citations \cup marked
      <3> HIDE DEF marked
      <3> QED
        BY <2>1
    <2> HIDE DEF marked
    <2>4. \A c \in DOMAIN records' \cup DOMAIN citations' \cup marked' : Permitted(c)'
      BY <2>2, <2>3
    <2> QED
      BY <1>1, <1>2, <1>4, <2>4 DEF RowsPermitted, marked
  <1>7. pc' \notin ScopeFixed
    BY DEF FetchConflicts, Assemble, Fails, GoTo, ScopeFixed
  <1> QED
    BY <1>1, <1>2, <1>6, <1>7 DEF EvidenceInOrder

-----------------------------------------------------------------------------
(* The other steps.                                                        *)

(* Asking the paths, fusing and reranking read no evidence; a path after   *)
(* the first, and a statement, is only reached with an index named.        *)
LEMMA PathsKept ==
  ASSUME EvidenceInOrder, UNCHANGED <<catalogue, request>>,
         \/ Ask \/ SkipExact \/ RefuseWithoutIndex \/ SkipVector \/ ReadIndex
         \/ SelectCandidates \/ SelectFuzzily \/ Expand
         \/ KeepFused \/ Rerank \/ RerankUnavailable \/ RefuseExcerpt
  PROVE  EvidenceInOrder'
  <1>1. index' = index /\ request' = request
    BY DEF catalogue
  <1>2. UNCHANGED evidence /\ pc' \notin ScopeFixed
    BY DEF Ask, SkipExact, RefuseWithoutIndex, SkipVector, ReadIndex,
       SelectCandidates, SelectFuzzily, Expand, KeepFused, Rerank,
       RerankUnavailable, RefuseExcerpt, RankedAs, Answer, Fails, GoTo, ScopeFixed
  <1>3. pc' \in Indexed \/ path' = "vector" =>
          pc \in Indexed \/ path = "vector" \/ request.filter.index # None
    BY DEF Ask, SkipExact, RefuseWithoutIndex, SkipVector, ReadIndex,
       SelectCandidates, SelectFuzzily, Expand, KeepFused, Rerank,
       RerankUnavailable, RefuseExcerpt, RankedAs, Answer, After, Fails, GoTo, Indexed
  <1> QED
    BY <1>1, <1>2, <1>3, NothingRead DEF ScopesKept

(* Commits of others change nothing the invariant speaks of.               *)
LEMMA CatalogueKept ==
  ASSUME EvidenceInOrder, index \in [Indexes -> IndexRows], CatalogueChanges
  PROVE  EvidenceInOrder'
  <1>1. ScopesKept
    BY DEF CatalogueChanges, ScopesKept
  <1>2. UNCHANGED <<pc, path, request, scope, evidence>>
    BY DEF CatalogueChanges
  <1> QED
    BY <1>1, <1>2, NothingRead

(* Every step keeps the invariant.                                         *)
LEMMA EvidenceKept ==
  ASSUME TrustNamed, EvidenceInOrder, index \in [Indexes -> IndexRows], [Next]_vars
  PROVE  EvidenceInOrder'
  <1>1. CASE CatalogueChanges
    BY <1>1, CatalogueKept
  <1>2. CASE UNCHANGED vars
    BY <1>2, NothingRead DEF vars, catalogue, ScopesKept
  <1>3. CASE RetrieveEvidence
    BY <1>3, PathsKept, RecordsPermitted, CitationsPermitted, MarkersPermitted
    DEF RetrieveEvidence
  <1> QED
    BY <1>1, <1>2, <1>3 DEF Next

(* The rows that evidence is made of are permitted by the server's trust,  *)
(* the request and the index, for any catalogue, requests, rankings and    *)
(* changes by other sessions, provided that the server trusts some label   *)
(* (corpus_filters.py:65-194, evidence.py:346-461).                         *)
THEOREM EvidencePermitted == TrustNamed => (Spec => []RowsPermitted)
  <1> DEFINE Inv == EvidenceInOrder /\ index \in [Indexes -> IndexRows]
  <1>1. ASSUME TrustNamed
        PROVE  Spec => []RowsPermitted
    <2>1. Init => Inv
      BY EvidenceInit DEF Init
    <2>2. Inv /\ [Next]_vars => Inv'
      BY <1>1, EvidenceKept
      DEF Next, RetrieveEvidence, CatalogueChanges, catalogue, vars
    <2>3. Inv => RowsPermitted
      BY DEF EvidenceInOrder
    <2> QED
      BY <2>1, <2>2, <2>3, PTL DEF Spec
  <1> QED
    BY <1>1

-----------------------------------------------------------------------------
(* The types of a call: rows of the tables, candidate lists, ranked ids    *)
(* and the texts that were read.                                           *)

(* A saved or retired row is a row of the table.                           *)
LEMMA SavedTyped ==
  ASSUME NEW row \in ChunkRow, NEW c \in Chunks, NEW new \in Contents[c]
  PROVE  Saved(row, new) \in ChunkRow
  <1>1. /\ new.version \in Versions \cup {None} /\ new.hash \in Hashes
        /\ new.eligible \in BOOLEAN
    BY ChunkConstants
  <1> DEFINE up == UpsertChunk(row, new)
             kept == UpsertChunkVersion(up)
             Row == [known: BOOLEAN, hash: Hashes \cup {None}, eligible: BOOLEAN,
                     version: Versions \cup {None}, member: [Versions -> Membership],
                     cited: Versions \cup {None}]
  <1>2. row \in Row
    BY DEF ChunkRow
  <1>3. up \in Row /\ up.hash = new.hash /\ up.version = new.version
    BY <1>1, <1>2 DEF UpsertChunk
  <1>4. kept \in Row /\ kept.hash = new.hash /\ kept.version = new.version
    <2>1. CASE up.version = None
      BY <1>3, <2>1 DEF UpsertChunkVersion
    <2>2. CASE up.version # None
      <3> DEFINE member == [v \in Versions |->
                              IF v = up.version THEN "current"
                              ELSE IF up.member[v] = "current" THEN "former"
                              ELSE up.member[v]]
      <3>1. member \in [Versions -> Membership]
        BY <1>3 DEF Membership
      <3>2. kept = [up EXCEPT !.member = member]
        BY <2>2 DEF UpsertChunkVersion
      <3> HIDE DEF member, up, kept
      <3> QED
        BY <1>3, <3>1, <3>2
    <2> QED
      BY <2>1, <2>2
  <1>5. Saved(row, new) = [kept EXCEPT !.cited = kept.version]
    BY DEF Saved, UpsertCitation
  <1> HIDE DEF kept, up
  <1>6. Saved(row, new) \in Row /\ Saved(row, new).hash = new.hash
    BY <1>1, <1>4, <1>5
  <1>7. new.hash # None
    BY <1>1, ChunkConstants
  <1> QED
    BY <1>6, <1>7 DEF ChunkRow

(* A retired chunk's rows keep their types.                                *)
LEMMA RetiredTyped ==
  ASSUME NEW row \in ChunkRow
  PROVE  Retired(row) \in ChunkRow
  <1> DEFINE member == [v \in Versions |->
                          IF row.member[v] = "current" THEN "tombstoned"
                          ELSE row.member[v]]
             Row == [known: BOOLEAN, hash: Hashes \cup {None}, eligible: BOOLEAN,
                     version: Versions \cup {None}, member: [Versions -> Membership],
                     cited: Versions \cup {None}]
  <1>1. row \in Row
    BY DEF ChunkRow
  <1>2. member \in [Versions -> Membership]
    BY <1>1 DEF Membership
  <1>3. Retired(row) = [row EXCEPT !.version = None, !.member = member]
    BY DEF Retired
  <1> HIDE DEF member
  <1>4. /\ Retired(row) \in Row
        /\ Retired(row).hash = row.hash /\ Retired(row).eligible = row.eligible
    BY <1>1, <1>2, <1>3
  <1> QED
    BY <1>4 DEF ChunkRow

(* The chunk table is typed at first.                                      *)
LEMMA TableInit == Init => chunk \in ChunkTable
  <1> SUFFICES ASSUME Init PROVE chunk \in ChunkTable
    OBVIOUS
  <1>1. PICK offered \in Snapshots :
          chunk = [c \in Chunks |-> Saved(NoChunk, offered[c])]
    BY DEF Init
  <1>2. NoChunk \in ChunkRow
    BY DEF NoChunk, ChunkRow, Membership
  <1>3. \A c \in Chunks : offered[c] \in Contents[c]
    BY RetrievalConstants
  <1> QED
    BY <1>1, <1>2, <1>3, SavedTyped DEF ChunkTable

(* Commits of others keep the chunk table typed.                           *)
LEMMA TableKept ==
  ASSUME chunk \in ChunkTable, ChunkNext
  PROVE  chunk' \in ChunkTable
  <1>1. ASSUME NEW c \in Chunks, NEW new \in Contents[c], Save(c, new)
        PROVE  chunk' \in ChunkTable
    <2>1. Saved(chunk[c], new) \in ChunkRow
      BY SavedTyped DEF ChunkTable
    <2> QED
      BY <1>1, <2>1 DEF Save, ChunkTable
  <1>2. ASSUME NEW s \in Sources, NEW keys \in SUBSET Chunks, RetireAbsent(s, keys)
        PROVE  chunk' \in ChunkTable
    BY <1>2, RetiredTyped DEF RetireAbsent, ChunkTable
  <1> QED
    BY <1>1, <1>2 DEF ChunkNext, SaveAny, RetireAny

(* The matches a path's statement returns.                                 *)
LEMMA SelectedFacts ==
  ASSUME NEW ranking \in Seq(Chunks), NEW g, NEW n \in Nat,
         NEW list, list = Selected(ranking, g, n)
  PROVE  /\ list \in Seq(Chunks) /\ Len(list) <= n
         /\ \A c \in ToSet(list) : c \in Chunks /\ InChunkScope(c, g)
  <1> DEFINE found == {i \in DOMAIN ranking :
                         InChunkScope(ranking[i], g) /\ HasVector(ranking[i])}
             kept == KeptAt(ranking, found)
  <1>1. found \in SUBSET (1..Len(ranking))
    BY LenProperties
  <1>2. \A i \in found : ranking[i] \in Chunks /\ InChunkScope(ranking[i], g)
    OBVIOUS
  <1>3. list = SubSeq(kept, 1, IF Len(kept) < n THEN Len(kept) ELSE n)
    BY DEF Selected, FirstOf
  <1> HIDE DEF found
  <1>4. kept \in Seq(Chunks) /\ ToSet(kept) = {ranking[i] : i \in found}
    BY <1>1, KeptAtFacts
  <1> HIDE DEF kept
  <1>5. list \in Seq(Chunks) /\ Len(list) <= n /\ ToSet(list) \subseteq ToSet(kept)
    <2>1. LET cut == SubSeq(kept, 1, IF Len(kept) < n THEN Len(kept) ELSE n)
          IN  cut \in Seq(Chunks) /\ Len(cut) <= n /\ ToSet(cut) \subseteq ToSet(kept)
      BY <1>4, PrefixFacts, Zenon
    <2> QED
      BY <1>3, <2>1, Zenon
  <1> QED
    BY <1>2, <1>4, <1>5

Gathered == {"expand", "fuse", "records", "citations", "conflicts", "assemble", "done"}

(* The lists of the paths that were taken are there, and no others.        *)
ListsInOrder ==
  /\ DOMAIN lists \subseteq Lists /\ \A p \in DOMAIN lists : lists[p] \in List
  /\ path \in Paths
  /\ path # "exact" => "exact" \in DOMAIN lists
  /\ path = "vector" => "bm25" \in DOMAIN lists
  /\ pc \in Gathered => Paths \subseteq DOMAIN lists
  /\ pc = "fuzzy" => path = "exact"

(* Until the call is done there is no bundle, and then it is an honest one.*)
EvidenceMade ==
  /\ pc # "done" => bundle = Empty(0)
  /\ pc = "done" => Shown(bundle) \subseteq Usables
  /\ EvidenceConsistent /\ BudgetHonest

CallInOrder ==
  /\ request \in Requests /\ chunk \in ChunkTable
  /\ ListsInOrder /\ ranked \in Seq(Chunks)
  /\ \A c \in DOMAIN records : records[c].hash \in Hashes
  /\ EvidenceMade

(* The invariant holds at first.                                           *)
LEMMA CallInit == Init => CallInOrder
  <1> SUFFICES ASSUME Init PROVE CallInOrder
    OBVIOUS
  <1>1. /\ request \in Requests /\ pc = "idle" /\ path = "exact"
        /\ lists = [p \in {} |-> <<>>] /\ ranked = <<>> /\ records = <<>>
        /\ bundle = Empty(0)
    BY DEF Init
  <1>2. chunk \in ChunkTable
    BY TableInit
  <1>3. DOMAIN lists = {}
    BY <1>1
  <1>4. ListsInOrder
    BY <1>1, <1>3, RetrievalConstants DEF ListsInOrder, Gathered
  <1>5. DOMAIN records = {} /\ ranked \in Seq(Chunks)
    BY <1>1, EmptySeq
  <1>6. EvidenceMade
    BY <1>1 DEF EvidenceMade, EvidenceConsistent, BudgetHonest
  <1> QED
    BY <1>1, <1>2, <1>4, <1>5, <1>6 DEF CallInOrder

(* What a request asks for has its types.                                  *)
LEMMA RequestTyped ==
  ASSUME CallInOrder
  PROVE  /\ request.filter \in Filter /\ request.budget \in Nat
         /\ request.limit \in [Paths -> 0..MaxRank]
  BY RetrievalConstants DEF CallInOrder

(* A path's answer takes its place among the lists.                        *)
LEMMA AnswerTyped ==
  ASSUME CallInOrder, UNCHANGED <<catalogue, request>>,
         pc \notin Gathered, NEW list \in List, Answer(list)
  PROVE  CallInOrder'
  <1>1. /\ request' \in Requests /\ chunk' \in ChunkTable
        /\ ranked' \in Seq(Chunks) /\ \A c \in DOMAIN records' : records'[c].hash \in Hashes
    BY DEF CallInOrder, Answer, catalogue, evidence
  <1>2. /\ path \in Paths /\ DOMAIN lists \subseteq Lists /\ path \in Lists
        /\ \A p \in DOMAIN lists : lists[p] \in List
    BY RetrievalConstants DEF CallInOrder, ListsInOrder
  <1>3. /\ DOMAIN lists' = DOMAIN lists \cup {path}
        /\ \A p \in DOMAIN lists' : lists'[p] = IF p = path THEN list ELSE lists[p]
    BY DEF Answer
  <1>4. /\ DOMAIN lists' \subseteq Lists /\ path \in DOMAIN lists'
        /\ \A p \in DOMAIN lists' : lists'[p] \in List
    BY <1>2, <1>3
  <1>5. /\ path # "exact" => "exact" \in DOMAIN lists'
        /\ path = "vector" => "bm25" \in DOMAIN lists'
    BY <1>3 DEF CallInOrder, ListsInOrder
  <1>6. Paths = {"exact", "bm25", "vector"}
    BY RetrievalConstants
  <1>7. CASE path # "vector"
    <2>1. pc' = "scope" /\ path' = After(path)
      BY <1>7 DEF Answer, GoTo
    <2>2. /\ path' \in Paths /\ path' # "exact" /\ "exact" \in DOMAIN lists'
          /\ path' = "vector" => "bm25" \in DOMAIN lists'
      BY <1>2, <1>4, <1>5, <1>6, <1>7, <2>1 DEF After
    <2>3. ListsInOrder'
      BY <1>4, <2>1, <2>2 DEF ListsInOrder, Gathered
    <2>4. EvidenceMade'
      BY <2>1 DEF CallInOrder, EvidenceMade, EvidenceConsistent, BudgetHonest, Answer,
         evidence, Gathered, Empty
    <2> QED
      BY <1>1, <2>3, <2>4 DEF CallInOrder
  <1>8. CASE path = "vector"
    <2>1. pc' \in {"expand", "fuse"} /\ path' = path
      BY <1>8 DEF Answer, GoTo
    <2>2. Paths \subseteq DOMAIN lists'
      BY <1>4, <1>5, <1>6, <1>8
    <2>3. ListsInOrder'
      BY <1>2, <1>4, <1>5, <2>1, <2>2 DEF ListsInOrder
    <2>4. EvidenceMade'
      BY <2>1 DEF CallInOrder, EvidenceMade, EvidenceConsistent, BudgetHonest, Answer,
         evidence, Gathered, Empty
    <2> QED
      BY <1>1, <2>3, <2>4 DEF CallInOrder
  <1> QED
    BY <1>7, <1>8

(* A step to a place that needs no list more.                              *)
LEMMA PlaceTyped ==
  ASSUME CallInOrder, chunk' \in ChunkTable, UNCHANGED <<path, request, lists, bundle>>,
         ranked' \in Seq(Chunks), \A c \in DOMAIN records' : records'[c].hash \in Hashes,
         pc # "done", pc' # "done",
         pc' \in Gathered => pc \in Gathered,
         pc' = "fuzzy" => path = "exact"
  PROVE  CallInOrder'
  <1>1. ListsInOrder'
    BY DEF CallInOrder, ListsInOrder
  <1>2. EvidenceMade'
    BY DEF CallInOrder, EvidenceMade, EvidenceConsistent, BudgetHonest, Empty
  <1> QED
    BY <1>1, <1>2 DEF CallInOrder

(* The steps on the way to the candidates of a path.                       *)
LEMMA PathsTyped ==
  ASSUME CallInOrder, UNCHANGED <<catalogue, request>>,
         \/ Ask \/ SkipExact \/ RefuseWithoutIndex \/ SkipVector \/ ReadIndex
         \/ SelectCandidates \/ SelectFuzzily
  PROVE  CallInOrder'
  <1>1. /\ chunk' \in ChunkTable /\ request' = request /\ chunk' = chunk
        /\ ranked \in Seq(Chunks) /\ \A c \in DOMAIN records : records[c].hash \in Hashes
        /\ path \in Paths /\ (pc = "fuzzy" => path = "exact")
    BY DEF CallInOrder, ListsInOrder, catalogue
  <1>2. request.limit[path] \in 0..MaxRank /\ MaxRank \in Nat
    BY <1>1, RequestTyped, BoundsTyped
  <1>3. \A g, n : \A ranking \in Seq(Chunks) :
          n \in 0..MaxRank => Selected(ranking, g, n) \in List
    <2>1. ASSUME NEW g, NEW n, NEW ranking \in Seq(Chunks), n \in 0..MaxRank
          PROVE  Selected(ranking, g, n) \in List
      <3>1. n \in Nat
        BY <2>1
      <3>2. PICK list : list = Selected(ranking, g, n)
        OBVIOUS
      <3>3. list \in Seq(Chunks) /\ Len(list) <= n
        BY <3>1, <3>2, SelectedFacts
      <3> QED
        BY <1>2, <2>1, <3>2, <3>3, LenProperties DEF List
    <2> QED
      BY <2>1
  <1>4. <<>> \in List
    BY <1>2, EmptySeq DEF List
  <1>5. CASE \/ Ask \/ RefuseWithoutIndex \/ ReadIndex
    <2>1. /\ UNCHANGED <<path, lists, bundle, ranked, records>>
          /\ pc \in {"idle", "scope"} /\ pc' \in {"scope", "failed", "select"}
      BY <1>5 DEF Ask, RefuseWithoutIndex, ReadIndex, Fails, GoTo, evidence
    <2> QED
      BY <1>1, <2>1, PlaceTyped DEF Gathered
  <1>6. CASE SkipExact \/ SkipVector
    <2>1. Answer(<<>>) /\ pc = "scope"
      BY <1>6 DEF SkipExact, SkipVector
    <2> QED
      BY <1>4, <2>1, AnswerTyped DEF Gathered
  <1>7. CASE SelectCandidates
    <2>1. PICK ranking \in Rankings[path] :
            LET list == Selected(ranking, scope', request.limit[path])
            IN  IF path = "exact" /\ list = <<>> /\ request.fuzzy
                THEN GoTo("fuzzy") /\ UNCHANGED <<path, lists, walked, ranked, evidence>>
                ELSE Answer(list)
      BY <1>7 DEF SelectCandidates
    <2>2. PICK list : list = Selected(ranking, scope', request.limit[path])
      OBVIOUS
    <2>3. ranking \in Seq(Chunks)
      BY <1>1, RetrievalConstants
    <2>4. list \in List
      BY <1>2, <1>3, <2>2, <2>3
    <2>5. pc = "select"
      BY <1>7 DEF SelectCandidates
    <2>6. CASE Answer(list)
      BY <2>4, <2>5, <2>6, AnswerTyped DEF Gathered
    <2>7. CASE /\ path = "exact" /\ GoTo("fuzzy")
               /\ UNCHANGED <<path, lists, walked, ranked, evidence>>
      <3>1. UNCHANGED <<path, lists, bundle, ranked, records>> /\ pc' = "fuzzy"
        BY <2>7 DEF GoTo, evidence
      <3> QED
        BY <1>1, <2>5, <2>7, <3>1, PlaceTyped DEF Gathered
    <2> QED
      BY <2>1, <2>2, <2>6, <2>7
  <1>8. CASE SelectFuzzily
    <2>1. PICK ranking \in Rankings["fuzzy"] :
            Answer(Selected(ranking, scope, request.limit["exact"]))
      BY <1>8 DEF SelectFuzzily
    <2>2. PICK list : list = Selected(ranking, scope, request.limit["exact"])
      OBVIOUS
    <2>3. ranking \in Seq(Chunks) /\ path = "exact" /\ pc = "fuzzy"
      BY <1>1, <1>8, RetrievalConstants DEF SelectFuzzily
    <2>4. list \in List
      BY <1>2, <1>3, <2>2, <2>3
    <2> QED
      BY <2>1, <2>2, <2>3, <2>4, AnswerTyped DEF Gathered
  <1> QED
    BY <1>5, <1>6, <1>7, <1>8

(* From the place on where relationships may be walked all lists are there.*)
LEMMA ListsGathered ==
  ASSUME CallInOrder, pc \in Gathered
  PROVE  FourLists(lists)
  BY DEF CallInOrder, ListsInOrder, FourLists

(* The walk keeps the invariant.                                           *)
LEMMA ExpandTyped ==
  ASSUME CallInOrder, UNCHANGED <<catalogue, request>>, Expand
  PROVE  CallInOrder'
  <1>1. /\ chunk' \in ChunkTable /\ request' = request /\ request \in Requests
        /\ ranked \in Seq(Chunks) /\ \A c \in DOMAIN records : records[c].hash \in Hashes
        /\ ListsInOrder /\ EvidenceMade /\ pc = "expand"
    BY DEF CallInOrder, catalogue, Expand
  <1>2. FourLists(lists)
    BY <1>1, ListsGathered DEF Gathered
  <1>3. CASE Fails
    <2>1. UNCHANGED <<path, lists, bundle, ranked, records>> /\ pc' = "failed"
      BY <1>3 DEF Fails, GoTo, evidence
    <2> QED
      BY <1>1, <2>1, PlaceTyped DEF Gathered
  <1>4. ASSUME /\ walked' = Validated(Traversal(Seeds, EligibleEdges))
               /\ lists' = [p \in DOMAIN lists \cup {"relationship"} |->
                    IF p # "relationship" THEN lists[p]
                    ELSE [i \in DOMAIN walked' |-> walked'[i].at]]
               /\ GoTo("fuse") /\ UNCHANGED <<path, scope, ranked, evidence>>
        PROVE  CallInOrder'
    <2> DEFINE found == [i \in DOMAIN walked' |-> walked'[i].at]
    <2>1. /\ walked' \in Seq(Walked(Seeds, EligibleEdges)) /\ Len(walked') <= MaxCandidates
      BY <1>2, <1>4, ExpansionSound, ValidatedTyped
    <2>2. \A i \in DOMAIN walked' : walked'[i].at \in Chunks
      BY <1>2, <2>1, ReachedInScope DEF ChunkScope
    <2>3. found \in List
      <3>1. PICK n \in Nat : n = Len(walked')
        BY <2>1, LenProperties
      <3>2. DOMAIN walked' = 1..n /\ n <= MaxRank
        <4>1. DOMAIN walked' = 1..n /\ n <= MaxCandidates
          BY <2>1, <3>1, LenProperties
        <4>2. MaxCandidates \in Nat /\ MaxCandidates <= MaxRank /\ MaxRank \in Nat
          <5>1. MaxCandidates <= MaxRank
            BY RetrievalConstants, Zenon
          <5> QED
            BY <5>1, TraversalConstants, BoundsTyped
        <4> QED
          BY <4>1, <4>2
      <3>3. found \in [1..n -> Chunks]
        BY <2>2, <3>2
      <3> HIDE DEF found
      <3>4. found \in Seq(Chunks) /\ Len(found) = n
        BY <3>3
      <3> QED
        BY <3>2, <3>4 DEF List
    <2> HIDE DEF found
    <2>4. /\ DOMAIN lists' = DOMAIN lists \cup {"relationship"}
          /\ \A p \in DOMAIN lists' : lists'[p] = IF p # "relationship" THEN lists[p] ELSE found
      BY <1>4 DEF found
    <2>5. /\ DOMAIN lists' \subseteq Lists /\ \A p \in DOMAIN lists' : lists'[p] \in List
      <3>1. "relationship" \in Lists
        BY RetrievalConstants
      <3> QED
        BY <1>1, <2>3, <2>4, <3>1 DEF ListsInOrder
    <2>6. pc' = "fuse" /\ path' = path /\ ranked' = ranked /\ records' = records /\ bundle' = bundle
      BY <1>4 DEF GoTo, evidence
    <2>7. ListsInOrder'
      BY <1>1, <2>4, <2>5, <2>6 DEF ListsInOrder, Gathered
    <2>8. EvidenceMade'
      BY <1>1, <2>6 DEF EvidenceMade, EvidenceConsistent, BudgetHonest, Empty
    <2> QED
      BY <1>1, <2>6, <2>7, <2>8 DEF CallInOrder
  <1> QED
    BY <1>3, <1>4 DEF Expand

(* The fused list and what of it is reranked.                              *)
LEMMA FusedListTyped ==
  ASSUME FourLists(lists)
  PROVE  /\ FusedList \in Seq(Chunks) /\ ToSet(FusedList) \subseteq Found(lists)
         /\ ToRerank \in Seq(Chunks) /\ ToSet(ToRerank) \subseteq Found(lists)
  <1>1. PICK order : order = Fused(lists, AuthorityOn)
    OBVIOUS
  <1>2. order \in Seq(Chunks) /\ ToSet(order) = Found(lists)
    BY <1>1, FusedFacts, RetrievalConstants
  <1>3. FusedLimit \in Nat /\ RerankLimit \in Nat
    BY RetrievalConstants
  <1>4. FusedList \in Seq(Chunks) /\ ToSet(FusedList) \subseteq ToSet(order)
    BY <1>1, <1>2, <1>3, PrefixFacts DEF FusedList, FirstOf
  <1>5. PICK list : list = FusedList
    OBVIOUS
  <1>6. ToRerank \in Seq(Chunks) /\ ToSet(ToRerank) \subseteq ToSet(list)
    BY <1>3, <1>4, <1>5, PrefixFacts DEF ToRerank, FirstOf
  <1> QED
    BY <1>2, <1>4, <1>5, <1>6

(* A reranker's answer is a sequence of chunks.                            *)
LEMMA RerankedTyped ==
  ASSUME FourLists(lists), NEW list \in SetToSeqs(ToSet(ToRerank))
  PROVE  list \in Seq(Chunks) /\ ToSet(list) \subseteq Found(lists)
  <1> DEFINE S == ToSet(ToRerank)
             n == Cardinality(S)
  <1>1. IsFiniteSet(S) /\ S \subseteq Chunks /\ S \subseteq Found(lists)
    <2>1. ToSet(ToRerank) \subseteq Found(lists)
      BY FusedListTyped
    <2> QED
      BY <2>1, FoundFacts, FS_Subset
  <1>2. n \in Nat
    BY <1>1, FS_CardinalityType
  <1>3. list \in [1..n -> S]
    BY DEF SetToSeqs
  <1> HIDE DEF S, n
  <1>4. list \in Seq(S) /\ list \in Seq(Chunks)
    BY <1>1, <1>2, <1>3
  <1> QED
    BY <1>1, <1>3, <1>4 DEF ToSet

(* Fusion and reranking keep the invariant.                                *)
LEMMA FuseTyped ==
  ASSUME CallInOrder, UNCHANGED <<catalogue, request>>,
         KeepFused \/ Rerank \/ RerankUnavailable \/ RefuseExcerpt
  PROVE  CallInOrder'
  <1>1. /\ chunk' \in ChunkTable /\ ranked \in Seq(Chunks)
        /\ \A c \in DOMAIN records : records[c].hash \in Hashes
    BY DEF CallInOrder, catalogue
  <1>2. pc = "fuse"
    BY DEF KeepFused, Rerank, RerankUnavailable, RefuseExcerpt
  <1>3. FourLists(lists)
    BY <1>2, ListsGathered DEF Gathered
  <1>4. ASSUME NEW list \in Seq(Chunks), RankedAs(list)
        PROVE  CallInOrder'
    <2>1. /\ UNCHANGED <<path, lists, bundle, records>> /\ pc' = "records"
          /\ ranked' = list
      BY <1>4 DEF RankedAs, GoTo, evidence
    <2> QED
      BY <1>1, <1>2, <2>1, PlaceTyped DEF Gathered
  <1>5. CASE Fails
    <2>1. UNCHANGED <<path, lists, bundle, ranked, records>> /\ pc' = "failed"
      BY <1>5 DEF Fails, GoTo, evidence
    <2> QED
      BY <1>1, <1>2, <2>1, PlaceTyped DEF Gathered
  <1>6. FusedList \in Seq(Chunks) /\ \A list \in SetToSeqs(ToSet(ToRerank)) : list \in Seq(Chunks)
    BY <1>3, FusedListTyped, RerankedTyped
  <1> QED
    BY <1>4, <1>5, <1>6 DEF KeepFused, Rerank, RerankUnavailable, RefuseExcerpt

(* The last reads.                                                         *)
LEMMA ReadsTyped ==
  ASSUME CallInOrder, UNCHANGED <<catalogue, request>>,
         FetchRecords \/ FetchCitations \/ FetchConflicts
  PROVE  CallInOrder'
  <1>1. /\ chunk' \in ChunkTable /\ chunk \in ChunkTable /\ ranked \in Seq(Chunks)
        /\ \A c \in DOMAIN records : records[c].hash \in Hashes
    BY DEF CallInOrder, catalogue
  <1>2. /\ UNCHANGED <<path, lists, bundle, ranked>>
        /\ pc \in {"records", "citations", "conflicts"}
        /\ pc' \in {"citations", "conflicts", "assemble", "failed"}
    BY DEF FetchRecords, FetchCitations, FetchConflicts, Fails, GoTo, evidence
  <1>3. \A c \in DOMAIN records' : records'[c].hash \in Hashes
    <2>1. CASE FetchRecords
      <3>1. records' = [c \in ToSet(ranked) \cap ChunkScope(scope') |-> Seen(c)]
        BY <2>1 DEF FetchRecords
      <3>2. ASSUME NEW c \in ChunkScope(scope')
            PROVE  chunk[c].hash \in Hashes
        <4>1. c \in Chunks /\ chunk[c].eligible
          BY DEF ChunkScope, InChunkScope
        <4>2. chunk[c] \in ChunkRow
          BY <1>1, <4>1 DEF ChunkTable
        <4>3. chunk[c].hash \in Hashes \cup {None} /\ chunk[c].hash # None
          BY <4>1, <4>2 DEF ChunkRow
        <4> QED
          BY <4>3
      <3> QED
        BY <3>1, <3>2 DEF Seen
    <2>2. CASE records' = records
      BY <1>1, <2>2
    <2> QED
      BY <2>1, <2>2 DEF FetchCitations, FetchConflicts, Fails, evidence
  <1> QED
    BY <1>1, <1>2, <1>3, PlaceTyped DEF Gathered

(* The assembly keeps the invariant.                                       *)
LEMMA AssembleTyped ==
  ASSUME CallInOrder, UNCHANGED <<catalogue, request>>, Assemble
  PROVE  CallInOrder'
  <1>1. /\ chunk' \in ChunkTable /\ request' = request
        /\ UNCHANGED <<path, lists, ranked, walked, records, citations>>
        /\ pc = "assemble" /\ pc' = "done"
        /\ bundle' = Assembled(ranked, walked, request.budget)
        /\ markers' = MarkersShown(markers, bundle')
    BY DEF CallInOrder, catalogue, Assemble, GoTo
  <1>2. ListsInOrder'
    BY <1>1 DEF CallInOrder, ListsInOrder, Gathered
  <1>3. Measured /\ request.budget \in Nat /\ ranked \in Seq(Chunks)
    BY RequestTyped, RetrievalConstants DEF CallInOrder, Measured
  <1>4. PICK b : b = Assembled(ranked, walked, request.budget)
    OBVIOUS
  <1>5. /\ \A c \in Shown(b) : c \in Usables
        /\ EstimatedTokens(b) <= request.budget
        /\ CutIn(b) \subseteq {Len(b.items)}
        /\ Len(b.items) + b.dropped = Len(ranked)
        /\ (\A c \in Usables : PathShown(c, walked)) =>
             \/ Usables = Shown(b)
             \/ TotalSize(b) = 4 * request.budget
    BY <1>3, <1>4, BundleSound
  <1>6. b = bundle'
    BY <1>1, <1>4
  <1>7. Usables' = Usables /\ CutShort' = CutIn(b)
    BY <1>1, <1>6 DEF Usables, Usable, CutShort, CutIn
  <1>8. UNION markers' \subseteq Shown(b)
    BY <1>1, <1>6 DEF MarkersShown
  <1>9. EvidenceConsistent'
    BY <1>1, <1>5, <1>6, <1>8 DEF EvidenceConsistent, Usables, Usable, Shown
  <1>10. BudgetHonest'
    BY <1>1, <1>5, <1>6, <1>7 DEF BudgetHonest, PathShown, Shown
  <1>11. EvidenceMade'
    BY <1>1, <1>5, <1>6, <1>7, <1>9, <1>10 DEF EvidenceMade, Shown
  <1> QED
    BY <1>1, <1>2, <1>11 DEF CallInOrder

(* Commits of others keep the invariant.                                   *)
LEMMA StillTyped ==
  ASSUME CallInOrder, chunk' \in ChunkTable,
         UNCHANGED <<pc, path, request, lists, walked, ranked, evidence>>
  PROVE  CallInOrder'
  <1>1. ListsInOrder'
    BY DEF CallInOrder, ListsInOrder
  <1>2. UNCHANGED <<records, citations, markers, bundle>>
    BY DEF evidence
  <1>3. EvidenceMade'
    BY <1>2 DEF CallInOrder, EvidenceMade, EvidenceConsistent, BudgetHonest, Usables,
       Usable, CutShort, Shown, Empty
  <1> QED
    BY <1>1, <1>2, <1>3 DEF CallInOrder

(* Every step keeps the invariant.                                         *)
LEMMA CallKept ==
  ASSUME CallInOrder, [Next]_vars
  PROVE  CallInOrder'
  <1>1. CASE CatalogueChanges
    <2>1. chunk' \in ChunkTable
      BY <1>1, TableKept DEF CatalogueChanges, CallInOrder
    <2> QED
      BY <1>1, <2>1, StillTyped DEF CatalogueChanges
  <1>2. CASE UNCHANGED vars
    BY <1>2, StillTyped DEF vars, catalogue, CallInOrder
  <1>3. CASE RetrieveEvidence
    BY <1>3, PathsTyped, ExpandTyped, FuseTyped, ReadsTyped, AssembleTyped
    DEF RetrieveEvidence
  <1> QED
    BY <1>1, <1>2, <1>3 DEF Next

(* The invariant of a call.                                                *)
LEMMA CallAlways == Spec => []CallInOrder
  <1>1. Init => CallInOrder
    BY CallInit
  <1>2. CallInOrder /\ [Next]_vars => CallInOrder'
    BY CallKept
  <1> QED
    BY <1>1, <1>2, PTL DEF Spec

(* Whatever is in the catalogue, is asked for and changes meanwhile, a     *)
(* shown text has the citation of its own version and text, and a marked   *)
(* conflict has both sides shown (evidence.py:316-336, 416-461).           *)
THEOREM ShownWithItsCitation == Spec => []EvidenceConsistent
  <1>1. CallInOrder => EvidenceConsistent
    BY DEF CallInOrder, EvidenceMade
  <1> QED
    BY <1>1, CallAlways, PTL

(* Every bundle stays within its token budget, cuts at most its last text  *)
(* and leaves out usable evidence only when the budget is used up          *)
(* (evidence.py:221-262).                                                  *)
THEOREM BudgetKept == Spec => []BudgetHonest
  <1>1. CallInOrder => BudgetHonest
    BY DEF CallInOrder, EvidenceMade
  <1> QED
    BY <1>1, CallAlways, PTL

(* For lists of any length up to the bound, whatever the weights and the   *)
(* rank constant, fusion puts no chunk behind one that it beats in some    *)
(* list and trails in none (fusion.py:13-63).                              *)
THEOREM FusionMonotonic == Spec => []FusionRespectsRanks
  <1>1. CallInOrder => FusionRespectsRanks
    <2> SUFFICES ASSUME CallInOrder, pc = "fuse",
                        NEW order, order = Fused(lists, AuthorityOn)
                 PROVE  /\ ToSet(order) = Found(lists) /\ IsInjective(order)
                        /\ \A i, j \in DOMAIN order : Better(order[i], order[j]) => i < j
      BY DEF FusionRespectsRanks
    <2>1. FourLists(lists)
      BY ListsGathered DEF Gathered
    <2>2. AuthorityOn \in BOOLEAN
      BY RetrievalConstants
    <2>3. /\ ToSet(order) = Found(lists) /\ IsInjective(order)
          /\ \A i, j \in DOMAIN order :
               SortsBefore(SortKey(lists, order[i], AuthorityOn),
                           SortKey(lists, order[j], AuthorityOn)) => i < j
      BY <2>1, <2>2, FusedFacts
    <2>4. ASSUME NEW i \in DOMAIN order, NEW j \in DOMAIN order,
                 Better(order[i], order[j])
          PROVE  i < j
      <3>1. order[i] \in Found(lists) /\ order[j] \in Found(lists)
        BY <2>3 DEF ToSet
      <3> QED
        BY <2>1, <2>2, <2>3, <2>4, <3>1, FusionSound
    <2> QED
      BY <2>3, <2>4
  <1> QED
    BY <1>1, CallAlways, PTL

(* On any finite graph of relationships, for every depth, fanout and       *)
(* direction, what the recursive query returns passes the service's checks *)
(* and its rows and the seeds together stay within                         *)
(* max_relationship_candidates (corpus_filters.py:413-563, service.py:183-255). *)
THEOREM WalkAccepted == Spec => []ExpansionAccepted
  <1>1. CallInOrder => ExpansionAccepted
    BY ListsGathered, ExpansionSound DEF ExpansionAccepted, Gathered
  <1> QED
    BY <1>1, CallAlways, PTL

-----------------------------------------------------------------------------
(* The candidates.                                                         *)

(* The filter a path selects from, before it is narrowed: the request's,   *)
(* cut to the sources of its index or closed.                              *)
CutFrom(f, g) ==
  /\ g \in Filter /\ g.index = f.index
  /\ g.labels = f.labels /\ g.versions = f.versions /\ g.allowlisted = f.allowlisted
  /\ \A c \in Chunks : Open(SourceOf[c], g.sources) => Open(SourceOf[c], f.sources)

Candidates == Found(lists) \cup ToSet(ranked)

(* Statements select from sound scopes; what they found is permitted, and  *)
(* nothing is found unless an index is named.                              *)
CandidatesInOrder ==
  /\ pc = "select" => CutFrom(request.filter, scope)
  /\ pc = "fuzzy" => ScopeSound(request.filter, scope)
  /\ pc \in {"select", "fuzzy"} \/ Candidates # {} => request.filter.index # None
  /\ CandidatesPermitted

(* A filter closed for want of an active index is cut from the request's.  *)
LEMMA ClosedCut ==
  ASSUME NEW f \in Filter
  PROVE  CutFrom(f, NoActiveIndex(f))
  BY TrustedTyped DEF CutFrom, NoActiveIndex, Filter, Open

(* So is a filter cut to the sources of an index,                          *)
LEMMA ScopeCut ==
  ASSUME NEW f \in Filter, NEW of \in SUBSET Sources
  PROVE  CutFrom(f, CutToScope(f, of))
  <1> DEFINE cut == IF f.sources = {} THEN of ELSE f.sources \cap of
  <1>1. CASE of = {}
    BY <1>1 DEF CutToScope, CutFrom
  <1>2. CASE of # {} /\ cut = {}
    BY <1>2, ClosedCut DEF CutToScope
  <1>3. CASE of # {} /\ cut # {}
    <2>1. CutToScope(f, of) = [f EXCEPT !.sources = cut]
      BY <1>3 DEF CutToScope
    <2>2. cut \subseteq Sources
      BY DEF Filter
    <2>3. \A x : x \in cut => Open(x, f.sources)
      BY DEF Open
    <2> HIDE DEF cut
    <2> QED
      BY <1>3, <2>1, <2>2, <2>3 DEF CutFrom, Filter, Open
  <1> QED
    BY <1>1, <1>2, <1>3

(* one resolved against the index it names,                                *)
LEMMA ResolvedCut ==
  ASSUME NEW f \in Filter, f.index # None, index \in [Indexes -> IndexRows],
         NEW required, NEW paths
  PROVE  CutFrom(f, ResolveActiveIndex(f, required, paths))
  <1>1. f.index \in Indexes
    BY DEF Filter
  <1>2. index[f.index].scope \in SUBSET Sources
    BY <1>1, RetrievalConstants DEF IndexRow
  <1> QED
    BY <1>2, ScopeCut, ClosedCut DEF ResolveActiveIndex

(* and the scope that the check of the active index leaves.                *)
LEMMA ReadIndexCut ==
  ASSUME request.filter \in Filter, index \in [Indexes -> IndexRows],
         UNCHANGED <<catalogue, request>>, ReadIndex
  PROVE  CutFrom(request.filter, scope')
  <1> DEFINE f == request.filter
  <1>1. f \in Filter /\ f.index # None
    BY DEF ReadIndex
  <1>2. CASE path # "vector"
    <2>1. scope' = ResolveActiveIndex(f, TRUE, {path})
      BY <1>2 DEF ReadIndex
    <2> QED
      BY <1>1, <2>1, ResolvedCut
  <1>3. CASE path = "vector" /\ f.index # VectorIndex
    <2>1. scope' = NoActiveIndex(f)
      BY <1>3 DEF ReadIndex, VectorScope
    <2> QED
      BY <1>1, <2>1, ClosedCut
  <1>4. CASE path = "vector" /\ f.index = VectorIndex
    <2>1. [f EXCEPT !.index = VectorIndex] = f
      BY <1>1, <1>4 DEF Filter
    <2>2. scope' = ResolveActiveIndex(f, TRUE, {"vector"})
      BY <1>4, <2>1 DEF ReadIndex, VectorScope
    <2> QED
      BY <1>1, <2>2, ResolvedCut
  <1> QED
    BY <1>2, <1>3, <1>4

(* The statement's own reading of the index narrows the cut filter.        *)
LEMMA SelectScope ==
  ASSUME TrustNamed, NEW f, NEW g, CutFrom(f, g), g.index # None
  PROVE  ScopeSound(f, ScopeOf(g))
  <1>1. ScopeSound(g, ScopeOf(g))
    BY ScopeIsSound DEF CutFrom
  <1>2. ASSUME NEW c \in Chunks, PermittedBy(g, c)
        PROVE  PermittedBy(f, c)
    BY <1>2 DEF PermittedBy, CutFrom
  <1> QED
    BY <1>1, <1>2 DEF ScopeSound, CutFrom

(* What a statement selects under a cut scope is permitted.                *)
LEMMA SelectedPermitted ==
  ASSUME NEW ranking \in Seq(Chunks), NEW g, NEW n \in Nat,
         ScopeSound(request.filter, g),
         NEW list, list = Selected(ranking, g, n)
  PROVE  \A c \in ToSet(list) : Permitted(c)
  BY SelectedFacts DEF InChunkScope, Admits, ScopeSound, Permitted

(* Whether a chunk is permitted does not change.                           *)
Stable ==
  request.filter.index # None =>
    /\ \A c : Permitted(c) => Permitted(c)'
    /\ \A g : ScopeSound(request.filter, g) => ScopeSound(request.filter, g)'

(* What is permitted stays so while the request and the scopes do.         *)
LEMMA PermitsStable ==
  ASSUME UNCHANGED request, request.filter \in Filter, ScopesKept
  PROVE  Stable
  BY PermittedStays DEF Stable

(* The empty list holds nothing.                                           *)
LEMMA SetOfEmpty == ToSet(<<>>) = {}
  BY DEF ToSet

(* What a path found joins the candidates.                                 *)
LEMMA AnswerPermitted ==
  ASSUME CandidatesInOrder, Stable, UNCHANGED request, NEW list, Answer(list),
         \A c \in ToSet(list) : request.filter.index # None /\ Permitted(c)
  PROVE  CandidatesInOrder'
  <1>1. pc' \notin {"select", "fuzzy"} /\ ranked' = ranked
    BY DEF Answer, GoTo
  <1>2. ASSUME NEW c \in Found(lists')
        PROVE  request.filter.index # None /\ Permitted(c)
    <2>1. PICK p \in DOMAIN lists' : c \in ToSet(lists'[p])
      BY DEF Found
    <2>2. lists'[p] = IF p = path THEN list ELSE lists[p]
      BY <2>1 DEF Answer
    <2>3. p = path \/ p \in DOMAIN lists
      BY <2>1 DEF Answer
    <2>4. CASE p = path
      BY <2>1, <2>2, <2>4
    <2>5. CASE p # path
      <3>1. c \in Found(lists)
        BY <2>1, <2>2, <2>3, <2>5 DEF Found
      <3> QED
        BY <3>1 DEF CandidatesInOrder, CandidatesPermitted, Candidates
    <2> QED
      BY <2>4, <2>5
  <1>3. \A c \in Found(lists') \cup ToSet(ranked') :
          request.filter.index # None /\ Permitted(c)
    BY <1>1, <1>2 DEF CandidatesInOrder, CandidatesPermitted, Candidates
  <1>4. CandidatesPermitted'
    BY <1>3 DEF Stable, CandidatesPermitted, Found
  <1>5. Candidates' # {} => request'.filter.index # None
    BY <1>3 DEF Candidates, Found
  <1> QED
    BY <1>1, <1>4, <1>5 DEF CandidatesInOrder

(* A step that finds nothing new.                                          *)
LEMMA NothingFound ==
  ASSUME CandidatesInOrder, Stable, UNCHANGED <<request, lists>>,
         \A c \in ToSet(ranked') : c \in Candidates,
         pc' \in {"select", "fuzzy"} => request.filter.index # None,
         pc' = "select" => CutFrom(request.filter, scope'),
         pc' = "fuzzy" => ScopeSound(request.filter, scope')
  PROVE  CandidatesInOrder'
  <1>1. \A c \in Found(lists') \cup ToSet(ranked') :
          request.filter.index # None /\ Permitted(c)
    BY DEF CandidatesInOrder, CandidatesPermitted, Candidates
  <1>2. CandidatesPermitted'
    BY <1>1 DEF Stable, CandidatesPermitted, Found
  <1>3. pc' = "select" => CutFrom(request.filter, scope)'
    BY DEF CutFrom, Open
  <1>4. pc' = "fuzzy" => ScopeSound(request.filter, scope)'
    BY DEF Stable
  <1>5. Candidates' # {} => request'.filter.index # None
    BY <1>1 DEF Candidates, Found
  <1> QED
    BY <1>2, <1>3, <1>4, <1>5 DEF CandidatesInOrder

(* The invariant holds at first.                                           *)
LEMMA CandidatesInit == Init => CandidatesInOrder
  <1> SUFFICES ASSUME Init PROVE CandidatesInOrder
    OBVIOUS
  <1>1. pc = "idle" /\ lists = [p \in {} |-> <<>>] /\ ranked = <<>>
    BY DEF Init
  <1>2. DOMAIN lists = {}
    BY <1>1
  <1>3. Found(lists) = {} /\ ToSet(ranked) = {}
    BY <1>1, <1>2, SetOfEmpty DEF Found
  <1> QED
    BY <1>1, <1>3 DEF CandidatesInOrder, CandidatesPermitted, Candidates

(* What the three paths find is permitted.                                 *)
LEMMA PathsPermitted ==
  ASSUME TrustNamed, CallInOrder, EvidenceInOrder, CandidatesInOrder, Stable,
         index \in [Indexes -> IndexRows], UNCHANGED <<catalogue, request>>,
         \/ Ask \/ SkipExact \/ RefuseWithoutIndex \/ SkipVector \/ ReadIndex
         \/ SelectCandidates \/ SelectFuzzily
  PROVE  CandidatesInOrder'
  <1>1. /\ request.filter \in Filter /\ path \in Paths
        /\ pc = "fuzzy" => path = "exact"
    BY DEF EvidenceInOrder, CallInOrder, ListsInOrder
  <1>2. request.limit[path] \in Nat /\ request' = request
    BY <1>1, RequestTyped, BoundsTyped
  <1>3. CASE Ask \/ RefuseWithoutIndex
    <2>1. UNCHANGED <<lists, ranked>> /\ pc' \in {"scope", "failed"}
      BY <1>3 DEF Ask, RefuseWithoutIndex, Fails, GoTo
    <2> QED
      BY <1>2, <2>1, NothingFound DEF Candidates
  <1>4. CASE SkipExact \/ SkipVector
    <2>1. Answer(<<>>)
      BY <1>4 DEF SkipExact, SkipVector
    <2> QED
      BY <1>2, <2>1, SetOfEmpty, AnswerPermitted
  <1>5. CASE ReadIndex
    <2>1. /\ UNCHANGED <<lists, ranked>> /\ pc' = "select"
          /\ request.filter.index # None
      BY <1>5 DEF ReadIndex, GoTo
    <2>2. CutFrom(request.filter, scope')
      BY <1>1, <1>5, ReadIndexCut
    <2> QED
      BY <1>2, <2>1, <2>2, NothingFound DEF Candidates
  <1>6. CASE SelectCandidates
    <2>1. PICK ranking \in Rankings[path] :
            LET list == Selected(ranking, scope', request.limit[path])
            IN  IF path = "exact" /\ list = <<>> /\ request.fuzzy
                THEN GoTo("fuzzy") /\ UNCHANGED <<path, lists, walked, ranked, evidence>>
                ELSE Answer(list)
      BY <1>6 DEF SelectCandidates
    <2>2. PICK list : list = Selected(ranking, scope', request.limit[path])
      OBVIOUS
    <2>3. ranking \in Seq(Chunks)
      BY <1>1, RetrievalConstants
    <2>4. request.filter.index # None /\ CutFrom(request.filter, scope)
      BY <1>6 DEF SelectCandidates, CandidatesInOrder
    <2>5. ScopeSound(request.filter, scope')
      BY <1>6, <2>4, SelectScope DEF SelectCandidates, CutFrom
    <2>6. \A c \in ToSet(list) : Permitted(c)
      BY <1>2, <2>2, <2>3, <2>5, SelectedPermitted
    <2>7. CASE Answer(list)
      BY <1>2, <2>4, <2>6, <2>7, AnswerPermitted
    <2>8. CASE GoTo("fuzzy") /\ UNCHANGED <<path, lists, walked, ranked, evidence>>
      <3>1. UNCHANGED <<lists, ranked>> /\ pc' = "fuzzy"
        BY <2>8 DEF GoTo
      <3> QED
        BY <1>2, <2>4, <2>5, <3>1, NothingFound DEF Candidates
    <2> QED
      BY <2>1, <2>2, <2>7, <2>8
  <1>7. CASE SelectFuzzily
    <2>1. PICK ranking \in Rankings["fuzzy"] :
            Answer(Selected(ranking, scope, request.limit["exact"]))
      BY <1>7 DEF SelectFuzzily
    <2>2. PICK list : list = Selected(ranking, scope, request.limit["exact"])
      OBVIOUS
    <2>3. /\ ranking \in Seq(Chunks) /\ path = "exact"
          /\ request.filter.index # None /\ ScopeSound(request.filter, scope)
      BY <1>1, <1>7, RetrievalConstants DEF SelectFuzzily, CandidatesInOrder
    <2>4. \A c \in ToSet(list) : Permitted(c)
      BY <1>2, <2>2, <2>3, SelectedPermitted
    <2> QED
      BY <1>2, <2>1, <2>2, <2>3, <2>4, AnswerPermitted
  <1> QED
    BY <1>3, <1>4, <1>5, <1>6, <1>7

(* Relationships lead only to chunks in scope.                             *)
LEMMA ExpandPermitted ==
  ASSUME TrustNamed, CallInOrder, EvidenceInOrder, CandidatesInOrder, Stable,
         UNCHANGED <<catalogue, request>>, Expand
  PROVE  CandidatesInOrder'
  <1>1. /\ request.filter \in Filter /\ request.filter.index # None /\ pc = "expand"
    BY DEF EvidenceInOrder, Expand, Indexed
  <1>2. FourLists(lists)
    BY <1>1, ListsGathered DEF Gathered
  <1>3. CASE Fails
    <2>1. UNCHANGED <<lists, ranked>> /\ pc' = "failed"
      BY <1>3 DEF Fails, GoTo
    <2> QED
      BY <2>1, NothingFound DEF Candidates
  <1>4. ASSUME /\ walked' = Validated(Traversal(Seeds, EligibleEdges))
               /\ lists' = [p \in DOMAIN lists \cup {"relationship"} |->
                    IF p # "relationship" THEN lists[p]
                    ELSE [i \in DOMAIN walked' |-> walked'[i].at]]
               /\ GoTo("fuse") /\ UNCHANGED <<path, scope, ranked, evidence>>
        PROVE  CandidatesInOrder'
    <2> DEFINE found == [i \in DOMAIN walked' |-> walked'[i].at]
    <2>1. walked' \in Seq(Walked(Seeds, EligibleEdges))
      BY <1>2, <1>4, ExpansionSound, ValidatedTyped
    <2>2. ScopeSound(request.filter, ScopeOf(request.filter))
      BY <1>1, ScopeIsSound
    <2>3. \A i \in DOMAIN walked' : Permitted(walked'[i].at)
      BY <1>2, <2>1, <2>2, ReachedInScope, InScopePermitted
    <2>4. \A c \in ToSet(found) : Permitted(c)
      BY <2>3 DEF ToSet
    <2> HIDE DEF found
    <2>5. /\ DOMAIN lists' = DOMAIN lists \cup {"relationship"}
          /\ \A p \in DOMAIN lists' : lists'[p] = IF p # "relationship" THEN lists[p] ELSE found
      BY <1>4 DEF found
    <2>6. ASSUME NEW c \in Found(lists')
          PROVE  Permitted(c)
      <3>1. PICK p \in DOMAIN lists' : c \in ToSet(lists'[p])
        BY DEF Found
      <3>2. CASE p = "relationship"
        BY <2>4, <2>5, <3>1, <3>2
      <3>3. CASE p # "relationship"
        <4>1. c \in Found(lists)
          BY <2>5, <3>1, <3>3 DEF Found
        <4> QED
          BY <4>1 DEF CandidatesInOrder, CandidatesPermitted
      <3> QED
        BY <3>2, <3>3
    <2>7. pc' = "fuse" /\ ranked' = ranked
      BY <1>4 DEF GoTo
    <2>8. \A c \in Found(lists') \cup ToSet(ranked') : Permitted(c)
      BY <2>6, <2>7 DEF CandidatesInOrder, CandidatesPermitted
    <2>9. CandidatesPermitted'
      BY <1>1, <2>8 DEF Stable, CandidatesPermitted, Found
    <2> QED
      BY <1>1, <2>7, <2>9 DEF CandidatesInOrder
  <1> QED
    BY <1>3, <1>4 DEF Expand

(* Fusing and reranking only choose among the candidates.                  *)
LEMMA FusePermitted ==
  ASSUME CallInOrder, CandidatesInOrder, Stable, UNCHANGED <<catalogue, request>>,
         KeepFused \/ Rerank \/ RerankUnavailable \/ RefuseExcerpt
  PROVE  CandidatesInOrder'
  <1>1. pc = "fuse"
    BY DEF KeepFused, Rerank, RerankUnavailable, RefuseExcerpt
  <1>2. FourLists(lists)
    BY <1>1, ListsGathered DEF Gathered
  <1>3. ASSUME NEW list, ToSet(list) \subseteq Found(lists), RankedAs(list)
        PROVE  CandidatesInOrder'
    <2>1. UNCHANGED lists /\ pc' = "records" /\ ranked' = list
      BY <1>3 DEF RankedAs, GoTo
    <2> QED
      BY <1>3, <2>1, NothingFound DEF Candidates
  <1>4. CASE Fails
    <2>1. UNCHANGED <<lists, ranked>> /\ pc' = "failed"
      BY <1>4 DEF Fails, GoTo
    <2> QED
      BY <2>1, NothingFound DEF Candidates
  <1>5. /\ ToSet(FusedList) \subseteq Found(lists)
        /\ \A list \in SetToSeqs(ToSet(ToRerank)) : ToSet(list) \subseteq Found(lists)
    BY <1>2, FusedListTyped, RerankedTyped
  <1> QED
    BY <1>3, <1>4, <1>5 DEF KeepFused, Rerank, RerankUnavailable, RefuseExcerpt

(* The last reads leave the candidates as they are.                        *)
LEMMA ReadsPermitted ==
  ASSUME CandidatesInOrder, Stable, UNCHANGED <<request, lists, ranked>>,
         pc' \notin {"select", "fuzzy"} \/ UNCHANGED <<pc, scope>>
  PROVE  CandidatesInOrder'
  <1>1. \A c \in ToSet(ranked') : c \in Candidates
    BY DEF Candidates
  <1>2. pc' \in {"select", "fuzzy"} => request.filter.index # None
    BY DEF CandidatesInOrder
  <1>3. /\ pc' = "select" => CutFrom(request.filter, scope')
        /\ pc' = "fuzzy" => ScopeSound(request.filter, scope')
    BY DEF CandidatesInOrder
  <1> QED
    BY <1>1, <1>2, <1>3, NothingFound

(* Every step keeps the invariant.                                         *)
LEMMA CandidatesKept ==
  ASSUME TrustNamed, CallInOrder, EvidenceInOrder, CandidatesInOrder,
         index \in [Indexes -> IndexRows], [Next]_vars
  PROVE  CandidatesInOrder'
  <1>1. UNCHANGED request /\ request.filter \in Filter /\ ScopesKept
    BY DEF Next, RetrieveEvidence, CatalogueChanges, vars, catalogue, ScopesKept,
       EvidenceInOrder
  <1>2. Stable
    BY <1>1, PermitsStable
  <1>3. CASE CatalogueChanges \/ UNCHANGED vars
    <2>1. UNCHANGED <<request, lists, ranked, pc, scope>>
      BY <1>3 DEF CatalogueChanges, vars
    <2> QED
      BY <1>2, <2>1, ReadsPermitted
  <1>4. CASE /\ UNCHANGED <<catalogue, request>>
             /\ FetchRecords \/ FetchCitations \/ FetchConflicts \/ Assemble
    <2>1. UNCHANGED <<request, lists, ranked>> /\ pc' \notin {"select", "fuzzy"}
      BY <1>4 DEF FetchRecords, FetchCitations, FetchConflicts, Assemble, Fails, GoTo
    <2> QED
      BY <1>2, <2>1, ReadsPermitted
  <1>5. CASE RetrieveEvidence
    BY <1>2, <1>4, <1>5, PathsPermitted, ExpandPermitted, FusePermitted
    DEF RetrieveEvidence
  <1> QED
    BY <1>3, <1>5 DEF Next

(* Every candidate, read or shown chunk is one that the server trusts, the *)
(* request asks for and the index was built for, whichever path or         *)
(* relationship found it and whatever other sessions commit meanwhile,     *)
(* provided that the server trusts some label (corpus_filters.py:65-194).  *)
THEOREM ShownPermitted == TrustNamed => (Spec => []OnlyPermittedShown)
  <1> DEFINE Inv == /\ CallInOrder /\ EvidenceInOrder /\ CandidatesInOrder
                    /\ index \in [Indexes -> IndexRows]
  <1>1. ASSUME TrustNamed
        PROVE  Spec => []OnlyPermittedShown
    <2>1. Init => Inv
      BY CallInit, EvidenceInit, CandidatesInit DEF Init
    <2>2. Inv /\ [Next]_vars => Inv'
      <3> SUFFICES ASSUME Inv, [Next]_vars
                   PROVE  Inv'
        OBVIOUS
      <3>1. index' \in [Indexes -> IndexRows]
        BY DEF Next, RetrieveEvidence, CatalogueChanges, catalogue, vars
      <3>2. CallInOrder' /\ CandidatesInOrder'
        BY <1>1, CallKept, CandidatesKept
      <3>3. EvidenceInOrder'
        BY <1>1, EvidenceKept
      <3> QED
        BY <3>1, <3>2, <3>3
    <2>3. Inv => OnlyPermittedShown
      <3> SUFFICES ASSUME Inv PROVE OnlyPermittedShown
        OBVIOUS
      <3>1. CandidatesPermitted /\ RowsPermitted
        BY DEF CandidatesInOrder, EvidenceInOrder
      <3>2. ASSUME NEW c \in Shown(bundle)
            PROVE  Permitted(c)
        <4>1. CASE pc = "done"
          <5>1. c \in ToSet(ranked)
            BY <4>1 DEF CallInOrder, EvidenceMade, Usables
          <5> QED
            BY <3>1, <5>1 DEF CandidatesPermitted
        <4>2. CASE pc # "done"
          <5>1. bundle.items = <<>>
            BY <4>2 DEF CallInOrder, EvidenceMade, Empty
          <5> QED
            BY <5>1 DEF Shown
        <4> QED
          BY <4>1, <4>2
      <3> QED
        BY <3>1, <3>2 DEF OnlyPermittedShown
    <2> QED
      BY <2>1, <2>2, <2>3, PTL DEF Spec
  <1> QED
    BY <1>1
=============================================================================
