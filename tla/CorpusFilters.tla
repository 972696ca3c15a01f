---------------------------- MODULE CorpusFilters ----------------------------
(***************************************************************************)
(* The SQL scopes every retrieval path selects from.  The server's trusted *)
(* scope and the request's filters are intersected dimension by dimension, *)
(* then cut to the sources the active index was built for.                 *)
(*                                                                         *)
(* A filter names two dimensions: sources, which an empty list leaves      *)
(* open (source_ids and source_types in the code), and labels, which an    *)
(* empty list closes (the six policy columns).  Version labels, version    *)
(* bounds and times are the set of versions they let through.              *)
(***************************************************************************)
EXTENDS ChunkCatalog

CONSTANTS
  Labels,      \* combinations of policy columns
  LabelOf,     \* the labels a chunk and its citation are written with
  Indexes,     \* index version ids
  Paths,       \* kinds of index: exact, bm25, vector
  Trusted,     \* TrustedCorpusScope: its source and label lists
  NoMatch,     \* "__no_trusted_match__"
  NoIndex      \* "__no_active_index__"

ASSUME FilterConstants ==
  /\ LabelOf \in [Chunks -> Labels]
  /\ Trusted \in [sources: SUBSET Sources, labels: SUBSET Labels]
  /\ None \notin Indexes
  /\ NoMatch \notin Sources \cup Labels /\ NoIndex \notin Sources \cup Labels

VARIABLE index   \* index_versions: is it active, what does it serve

(* serves: the paths whose index kind and profile the row satisfies;       *)
(* scope: the sources it was built for, {} when it names none.             *)
IndexRow == [active: BOOLEAN, serves: SUBSET Paths, scope: SUBSET Sources]

Filter == [sources: SUBSET (Sources \cup {NoMatch, NoIndex}),
           labels: SUBSET (Labels \cup {NoMatch}),
           versions: SUBSET Versions, allowlisted: BOOLEAN,
           index: Indexes \cup {None}]

-----------------------------------------------------------------------------
Intersection(requested, trusted) ==
  IF requested = {} THEN trusted
  ELSE IF trusted = {} THEN requested
  ELSE requested \cap trusted

(* A mutated form: naming a value is enough to be shown it.                *)
NarrowedAsAsked(requested, trusted) ==
  IF requested = {} THEN trusted ELSE requested

(* A dimension that asks only for what is not trusted matches nothing.     *)
Narrowed(requested, trusted) ==
  LET both == Intersection(requested, trusted)
  IN  IF requested # {} /\ both = {} THEN {NoMatch} ELSE both

NarrowFilters(f) ==
  [f EXCEPT !.sources = Narrowed(@, Trusted.sources),
            !.labels = Narrowed(@, Trusted.labels)]

NoActiveIndex(f) == [f EXCEPT !.sources = {NoIndex}]

(* The sources of an index that a filter also asks for.                    *)
CutToScope(f, scope) ==
  LET cut == IF f.sources = {} THEN scope ELSE f.sources \cap scope
  IN  IF scope = {} THEN f
      ELSE IF cut = {} THEN NoActiveIndex(f)
      ELSE [f EXCEPT !.sources = cut]

Serves(i, paths) == index[i].active /\ paths \subseteq index[i].serves

(* paths: the kinds of index the caller insists on, none when it does not. *)
ResolveActiveIndex(f, required, paths) ==
  IF f.index = None THEN IF required THEN NoActiveIndex(f) ELSE f
  ELSE IF Serves(f.index, paths) THEN CutToScope(f, index[f.index].scope)
  ELSE NoActiveIndex(f)

(* What a statement on chunks is built from: the index is read once more.  *)
ScopeOf(f) == ResolveActiveIndex(NarrowFilters(f), FALSE, {})

-----------------------------------------------------------------------------
Open(value, admitted) == admitted = {} \/ value \in admitted

CitationMatches(c, g) ==
  chunk[c].cited = chunk[c].version /\ chunk[c].eligible /\ LabelOf[c] \in g.labels

(* chunk_filter_clauses.                                                   *)
InChunkScope(c, g) ==
  /\ chunk[c].eligible
  /\ chunk[c].version # None /\ chunk[c].version \in g.versions
  /\ HasCurrent(chunk[c])
  /\ CitationMatches(c, g)
  /\ LabelOf[c] \in g.labels
  /\ Open(SourceOf[c], g.sources)
  /\ g.allowlisted

ChunkScope(g) == {c \in Chunks : InChunkScope(c, g)}

(* The citation rows a statement may return: those of chunks in scope.     *)
CitationScope(g) == {c \in ChunkScope(g) : CitationMatches(c, g)}

(* A record extracted from a chunk (a claim, a fact or a relationship) of  *)
(* one version of its source, and whether that membership is still current.*)
Backed(record, g) ==
  /\ record.current
  /\ record.cites \in CitationScope(g)
  /\ record.version = chunk[record.cites].cited
  /\ record.label \in g.labels

(* Both ends of a relationship are in scope as well.                       *)
EdgeInScope(e, g) ==
  Backed(e, g) /\ e.from \in ChunkScope(g) /\ e.to \in ChunkScope(g)
=============================================================================
