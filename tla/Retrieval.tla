------------------------------ MODULE Retrieval ------------------------------
(***************************************************************************)
(* One call of HybridRetrievalService.retrieve_evidence against a          *)
(* catalogue that other sessions keep changing.  The call is a dozen       *)
(* statements of a READ COMMITTED transaction: each path reads the index   *)
(* row and then selects; relationships may be walked; the lists are fused  *)
(* and reranked; chunks, citations and conflicts are read again, and the   *)
(* bundle is assembled from those last reads.                              *)
(***************************************************************************)
EXTENDS CorpusFilters, RankFusion, RelationshipTraversal, EvidenceBundle

CONSTANTS
  Requests,      \* what a caller may ask: filters and profile settings
                 \* (candidate counts, traversal, reranking, token budget)
  Snapshots,     \* what the chunks may have been saved as before the call
  VectorIndex,   \* the index version of the vector profile
  IndexRows,     \* what an index_versions row may be
  Rankings,      \* orders a path's query may rank its matches in
  Embedded,      \* chunks with an active vector of the profile's model
  FusedLimit, RerankLimit,
  SeedLists,     \* relationship_traversal.seed_sources
  Edges,         \* relationships, each with the chunk and version it cites
  Conflicts,     \* claim_conflicts: pairs of claims
  Linkable,      \* sources whose citations have an http(s) URL
  AuthorityOn,   \* authority_weighting.enabled
  MaxChanges     \* bound: catalogue and index changes during the call

ASSUME RetrievalConstants ==
  /\ Paths = {"exact", "bm25", "vector"} /\ Lists = Paths \cup {"relationship"}
  /\ \A s \in Snapshots : \A c \in Chunks : s[c] \in Contents[c]
  /\ VectorIndex \in Indexes
  /\ IndexRows \subseteq IndexRow
  /\ Embedded \subseteq Chunks /\ Linkable \subseteq Sources
  /\ \A r \in Requests : /\ r.filter \in Filter /\ r.budget \in Nat
                          /\ r.limit \in [Paths -> 0..MaxRank]
  /\ MaxCandidates <= MaxRank
  /\ \A p \in Paths \cup {"fuzzy"} : Rankings[p] \subseteq Seq(Chunks)
  /\ KeyOf \in [Chunks -> Nat] /\ IsInjective(KeyOf)
  /\ Authority \in [Chunks -> Nat] /\ LengthOf \in [Hashes -> Nat]
  /\ FusedLimit \in Nat \ {0} /\ RerankLimit \in 0..FusedLimit
  /\ SeedLists \in Seq({"fused"} \cup Paths)
  /\ IsFiniteSet(Edges) /\ \A e \in Edges : e.id \in Nat
  /\ \A e, f \in Edges : e.id = f.id => e = f
  /\ AuthorityOn \in BOOLEAN /\ MaxChanges \in Nat

VARIABLES
  pc, path,      \* where the call is, and for which path
  request,       \* what was asked
  scope,         \* the filters the next statement is built from
  lists,         \* candidate ids of each path, best first
  walked,        \* validated relationship candidates, with their paths
  ranked,        \* the fused or reranked ids
  markers,       \* conflicts found: the chunks of the two claims
  bundle,        \* the evidence
  changes        \* how often the catalogue has changed

catalogue == <<chunk, index, changes>>
evidence == <<records, citations, markers, bundle>>
vars == <<catalogue, pc, path, request, scope, lists, walked, ranked, evidence>>

Places == {"idle", "scope", "select", "fuzzy", "expand", "fuse", "records",
           "citations", "conflicts", "assemble", "done", "failed"}

-----------------------------------------------------------------------------
Init ==
  /\ \E offered \in Snapshots :
       chunk = [c \in Chunks |-> Saved(NoChunk, offered[c])]
  /\ index \in [Indexes -> IndexRows]
  /\ request \in Requests
  /\ pc = "idle" /\ path = "exact" /\ scope = request.filter
  /\ lists = [p \in {} |-> <<>>] /\ walked = <<>> /\ ranked = <<>>
  /\ records = <<>> /\ citations = <<>> /\ markers = {} /\ bundle = Empty(0)
  /\ changes = 0

GoTo(place) == pc' = place

Fails == GoTo("failed") /\ UNCHANGED <<path, scope, lists, walked, ranked, evidence>>

(* The paths are taken in this order.                                      *)
After(p) == IF p = "exact" THEN "bm25" ELSE "vector"

(* A path has its candidates.                                              *)
Answer(list) ==
  /\ lists' = [p \in DOMAIN lists \cup {path} |-> IF p = path THEN list ELSE lists[p]]
  /\ IF path # "vector" THEN GoTo("scope") /\ path' = After(path)
     ELSE GoTo(IF request.expand THEN "expand" ELSE "fuse") /\ UNCHANGED path
  /\ UNCHANGED <<walked, ranked, evidence>>

-----------------------------------------------------------------------------
(* A path reads the index row before it builds its statement.              *)
Ask ==
  /\ pc = "idle" /\ GoTo("scope")
  /\ UNCHANGED <<path, scope, lists, walked, ranked, evidence>>

SkipExact ==
  /\ pc = "scope" /\ path = "exact" /\ request.limit["exact"] = 0
  /\ Answer(<<>>) /\ UNCHANGED scope

RefuseWithoutIndex ==
  /\ pc = "scope" /\ request.filter.index = None
  /\ path = "exact" => request.limit["exact"] > 0
  /\ Fails

VectorScope ==
  IF request.filter.index # VectorIndex THEN NoActiveIndex(request.filter)
  ELSE ResolveActiveIndex([request.filter EXCEPT !.index = VectorIndex], TRUE, {"vector"})

(* No vectors while the profile's index is not active with its model.      *)
SkipVector ==
  /\ pc = "scope" /\ path = "vector" /\ ~Serves(VectorIndex, {"vector"})
  /\ Answer(<<>>) /\ UNCHANGED scope

ReadIndex ==
  /\ pc = "scope" /\ request.filter.index # None
  /\ path = "exact" => request.limit["exact"] > 0
  /\ path = "vector" => Serves(VectorIndex, {"vector"})
  /\ scope' = IF path = "vector" THEN VectorScope
              ELSE ResolveActiveIndex(request.filter, TRUE, {path})
  /\ GoTo("select")
  /\ UNCHANGED <<path, lists, walked, ranked, evidence>>

FirstOf(list, n) == SubSeq(list, 1, IF Len(list) < n THEN Len(list) ELSE n)

HasVector(c) == path = "vector" => c \in Embedded

Selected(ranking, g, n) ==
  LET rows == {i \in DOMAIN ranking : InChunkScope(ranking[i], g) /\ HasVector(ranking[i])}
  IN  FirstOf(KeptAt(ranking, rows), n)

(* The path's statement; an exact lookup without a hit may go on fuzzily.  *)
SelectCandidates ==
  /\ pc = "select"
  /\ scope' = ScopeOf(scope)
  /\ \E ranking \in Rankings[path] :
       LET list == Selected(ranking, scope', request.limit[path])
       IN  IF path = "exact" /\ list = <<>> /\ request.fuzzy
           THEN GoTo("fuzzy") /\ UNCHANGED <<path, lists, walked, ranked, evidence>>
           ELSE Answer(list)

SelectFuzzily ==
  /\ pc = "fuzzy"
  /\ \E ranking \in Rankings["fuzzy"] : Answer(Selected(ranking, scope, request.limit["exact"]))
  /\ UNCHANGED scope

-----------------------------------------------------------------------------
SeedsFrom(list) == IF list = "fused" THEN <<>> ELSE lists[list]

(* A provisional fusion comes last, wherever the profile names it.         *)
FusedSeeds == IF "fused" \in ToSet(SeedLists) THEN Fused(lists, TRUE) ELSE <<>>

(* Candidates of the seed lists, each chunk once.                          *)
Seeds ==
  LET all == FlattenSeq([i \in DOMAIN SeedLists |-> SeedsFrom(SeedLists[i])]) \o FusedSeeds
  IN  KeptAt(all, {i \in DOMAIN all : \A j \in 1..(i - 1) : all[j] # all[i]})

EligibleEdges == {e \in Edges : EdgeInScope(e, ScopeOf(request.filter))}

(* The expander walks the relationships in scope; what it returns is       *)
(* checked, and a candidate that breaks the rules fails the call.          *)
Expand ==
  /\ pc = "expand"
  /\ LET rows == Traversal(Seeds, EligibleEdges)
     IN  IF Accepted(rows, Seeds)
         THEN /\ walked' = Validated(rows)
              /\ lists' = [p \in DOMAIN lists \cup {"relationship"} |->
                   IF p # "relationship" THEN lists[p]
                   ELSE [i \in DOMAIN walked' |-> walked'[i].at]]
              /\ GoTo("fuse") /\ UNCHANGED <<path, scope, ranked, evidence>>
         ELSE Fails

FusedList == FirstOf(Fused(lists, AuthorityOn), FusedLimit)

ToRerank == FirstOf(FusedList, RerankLimit)

RankedAs(list) ==
  /\ ranked' = list /\ GoTo("records")
  /\ UNCHANGED <<path, scope, lists, walked, evidence>>

KeepFused == pc = "fuse" /\ request.rerank = "none" /\ RankedAs(FusedList)

(* The provider scores the first candidates; the others are left out.      *)
Rerank ==
  /\ pc = "fuse" /\ request.rerank # "none"
  /\ \E list \in SetToSeqs(ToSet(ToRerank)) : RankedAs(list)

(* Provider or profile unavailable, or scores that make no sense.          *)
RerankUnavailable ==
  /\ pc = "fuse" /\ request.rerank # "none"
  /\ IF request.rerank = "optional" THEN RankedAs(FusedList) ELSE Fails

(* A chunk that only the walk found may come without a trusted excerpt.    *)
RefuseExcerpt ==
  /\ pc = "fuse" /\ request.rerank # "none"
  /\ \E c \in ToSet(ToRerank) : \A p \in Paths : c \notin ToSet(lists[p])
  /\ Fails

-----------------------------------------------------------------------------
Seen(c) == [version |-> chunk[c].version, hash |-> chunk[c].hash]

(* The fetcher's statements share one scope, built with the first.         *)
FetchRecords ==
  /\ pc = "records" /\ scope' = ScopeOf(request.filter)
  /\ records' = [c \in ToSet(ranked) \cap ChunkScope(scope') |-> Seen(c)]
  /\ GoTo("citations")
  /\ UNCHANGED <<path, lists, walked, ranked, citations, markers, bundle>>

Citable(c) == c \in CitationScope(scope) /\ SourceOf[c] \in Linkable

FetchCitations ==
  /\ pc = "citations"
  /\ citations' = [c \in {d \in ToSet(ranked) : Citable(d)} |-> Seen(c)]
  /\ GoTo(IF request.conflicts THEN "conflicts" ELSE "assemble")
  /\ UNCHANGED <<path, scope, lists, walked, ranked, records, markers, bundle>>

Contested(x) == Backed(x.left, scope) /\ Backed(x.right, scope)

Touching ==
  {x \in Conflicts : Contested(x)
       /\ {x.left.cites, x.right.cites} \cap DOMAIN citations # {}}

(* A conflict of which only one side was fetched fails the call.           *)
FetchConflicts ==
  /\ pc = "conflicts"
  /\ IF \A x \in Touching : {x.left.cites, x.right.cites} \subseteq DOMAIN citations
     THEN /\ markers' = {{x.left.cites, x.right.cites} : x \in Touching}
          /\ GoTo("assemble")
          /\ UNCHANGED <<path, scope, lists, walked, ranked, records, citations, bundle>>
     ELSE Fails

Assemble ==
  /\ pc = "assemble" /\ GoTo("done")
  /\ bundle' = Assembled(ranked, walked, request.budget)
  /\ markers' = MarkersShown(markers, bundle')
  /\ UNCHANGED <<path, scope, lists, walked, ranked, records, citations>>

-----------------------------------------------------------------------------
RetrieveEvidence ==
  /\ UNCHANGED <<catalogue, request>>
  /\ \/ Ask \/ SkipExact \/ RefuseWithoutIndex \/ SkipVector \/ ReadIndex
     \/ SelectCandidates \/ SelectFuzzily \/ Expand
     \/ KeepFused \/ Rerank \/ RerankUnavailable \/ RefuseExcerpt
     \/ FetchRecords \/ FetchCitations \/ FetchConflicts \/ Assemble

(* Another session commits while the call is under way.  An index version  *)
(* keeps the sources it was built for.                                     *)
CatalogueChanges ==
  /\ changes < MaxChanges /\ changes' = changes + 1
  /\ pc \notin {"idle", "done", "failed"}
  /\ \/ ChunkNext /\ UNCHANGED index
     \/ \E i \in Indexes, row \in IndexRows :
          /\ row.scope = index[i].scope
          /\ index' = [index EXCEPT ![i] = row] /\ UNCHANGED chunk
  /\ UNCHANGED <<pc, path, request, scope, lists, walked, ranked, evidence>>

Next == RetrieveEvidence \/ CatalogueChanges

Spec == Init /\ [][Next]_vars
=============================================================================
