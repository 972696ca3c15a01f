--------------------------- MODULE RetrievalSafety ---------------------------
(***************************************************************************)
(* What a caller of retrieve_evidence may rely on.                         *)
(***************************************************************************)
EXTENDS Retrieval

(* What the trusted scope, the request and its index allow to be shown,    *)
(* said without the sentinels and the order of narrowing.                  *)
PermittedBy(f, c) ==
  /\ \A admitted \in {Trusted.sources, f.sources, index[f.index].scope} :
       Open(SourceOf[c], admitted)
  /\ LabelOf[c] \in Trusted.labels
  /\ Open(LabelOf[c], f.labels)
  /\ f.allowlisted

Permitted(c) == PermittedBy(request.filter, c)

CandidatesPermitted ==
  \A c \in Found(lists) \cup ToSet(ranked) : Permitted(c)

(* The rows the evidence is assembled from.                                *)
RowsPermitted ==
  /\ \A c \in DOMAIN records \cup DOMAIN citations \cup UNION markers : Permitted(c)
  /\ \A c \in DOMAIN records : records[c].version \in request.filter.versions
  /\ \A c \in DOMAIN citations : citations[c].version \in request.filter.versions

(* Every candidate, read or shown chunk is one that the server trusts and  *)
(* the request asks for, whichever path or relationship found it, and      *)
(* although the filters pass through three rewrites and the catalogue      *)
(* changes between them (corpus_filters.py:65-194).                        *)
OnlyPermittedShown ==
  CandidatesPermitted /\ RowsPermitted /\ \A c \in Shown(bundle) : Permitted(c)

(* A shown text carries the citation of its own version and text, although *)
(* the two are read by two statements and a snapshot may be saved or       *)
(* retired between them; a marked conflict has both sides shown            *)
(* (evidence.py:316-336, 416-461).                                         *)
EvidenceConsistent ==
  pc = "done" =>
    /\ \A c \in Shown(bundle) : records[c] = citations[c]
    /\ UNION markers \subseteq Shown(bundle)

BetterOrSame(c, d) == \A p \in DOMAIN lists : Rank(lists[p], c) <= Rank(lists[p], d)

Better(c, d) ==
  /\ BetterOrSame(c, d)
  /\ \E p \in DOMAIN lists : Rank(lists[p], c) < Rank(lists[p], d) /\ Weight[p] > 0

(* Fusion never puts a chunk behind one that it beats in some list and     *)
(* trails in none, and ranks every candidate once (fusion.py:13-63).       *)
FusionRespectsRanks ==
  pc = "fuse" =>
    LET order == Fused(lists, AuthorityOn)
    IN  /\ ToSet(order) = Found(lists) /\ IsInjective(order)
        /\ \A i, j \in DOMAIN order : Better(order[i], order[j]) => i < j

(* The walk stays within the bounds that the service checks, so that no    *)
(* call fails for a relationship, and the numbers it gives its rows keep   *)
(* the result within max_relationship_candidates, seeds included           *)
(* (corpus_filters.py:413-563, service.py:183-255).                        *)
ExpansionAccepted ==
  pc = "expand" =>
    /\ Accepted(Traversal(Seeds, EligibleEdges), Seeds)
    /\ Walked(Seeds, EligibleEdges) # {} =>
         Cardinality(Walked(Seeds, EligibleEdges)) + Len(Seeds) <= MaxCandidates

Usables == {c \in ToSet(ranked) : Usable(c)}

CutShort == {i \in DOMAIN bundle.items :
               bundle.items[i].size < LengthOf[records[bundle.items[i].of].hash]}

(* The bundle stays within the token budget, cuts at most its last text,   *)
(* and leaves out evidence it could show only when the budget is used up.  *)
(* A chunk dropped for its relationship path is charged all the same, so   *)
(* the last part is about bundles without one (evidence.py:221-262).       *)
BudgetHonest ==
  pc = "done" =>
    /\ EstimatedTokens(bundle) <= request.budget
    /\ CutShort \subseteq {Len(bundle.items)}
    /\ Len(bundle.items) + bundle.dropped = Len(ranked)
    /\ (\A c \in Usables : PathShown(c, walked)) =>
         \/ Usables = Shown(bundle)
         \/ TotalSize(bundle) = 4 * request.budget
=============================================================================
