----------------------------- MODULE MCRetrieval -----------------------------
(***************************************************************************)
(* A small instance of Retrieval for TLC: three chunks the server trusts,  *)
(* one with another label and one of a source that is not trusted.         *)
(***************************************************************************)
EXTENDS RetrievalSafety, TLC

CONSTANTS c1, c2, c3, c4, c5, s1, s2, l1, l2, v1, v2, h1, h2, i1, i2

AllChunks == {c1, c2, c3, c4, c5}
SourceMap == [c \in AllChunks |-> IF c = c5 THEN s2 ELSE s1]
LabelMap == [c \in AllChunks |-> IF c = c4 THEN l2 ELSE l1]
KeyMap == c1 :> 1 @@ c2 :> 2 @@ c3 :> 3 @@ c4 :> 4 @@ c5 :> 5
AuthorityMap == [c \in AllChunks |-> IF c = c3 THEN 1 ELSE 2]
Texts == h1 :> 3 @@ h2 :> 6

Offer(v, h) == [version |-> v, hash |-> h, eligible |-> TRUE]
Offers == [c \in AllChunks |-> {Offer(v1, h1), Offer(v2, h2)}]
AllOffered == {[c \in AllChunks |-> Offer(v1, h1)],
               [c \in AllChunks |-> IF c = c2 THEN Offer(v2, h2) ELSE Offer(v1, h1)]}

OneSource == [sources |-> {s1}, labels |-> {l1}]

Row(active, of) ==
  [active |-> active, serves |-> {"exact", "bm25", "vector"}, scope |-> of]
SomeRows == {Row(TRUE, {}), Row(FALSE, {}), Row(TRUE, {s2})}

Everything == [sources |-> {}, labels |-> {}, versions |-> {v1, v2},
               allowlisted |-> TRUE, index |-> i1]
Plain == [filter |-> Everything, fuzzy |-> TRUE, expand |-> FALSE,
          rerank |-> "none", conflicts |-> FALSE, budget |-> 2,
          limit |-> [p \in {"exact", "bm25", "vector"} |-> 3]]
SomeRequests == {
  Plain,
  [Plain EXCEPT !.filter.index = None],
  [Plain EXCEPT !.filter.sources = {s2}, !.filter.labels = {l1, l2}],
  [Plain EXCEPT !.filter.labels = {l2}, !.filter.index = i2],
  [Plain EXCEPT !.filter.versions = {v1}, !.rerank = "optional", !.expand = TRUE],
  [Plain EXCEPT !.filter.sources = {s1, s2}, !.expand = TRUE, !.rerank = "required"],
  [Plain EXCEPT !.conflicts = TRUE, !.budget = 5, !.limit["exact"] = 0]}

SomeRankings ==
  [p \in {"exact", "fuzzy", "bm25", "vector"} |->
     IF p = "exact" THEN {<<>>, <<c2, c4>>}
     ELSE IF p = "fuzzy" THEN {<<c5, c3>>}
     ELSE IF p = "bm25" THEN {<<c1, c2, c5>>}
     ELSE {<<c4, c2, c1>>}]

Edge(id, from, to, cites) ==
  [id |-> id, from |-> from, to |-> to, cites |-> cites, version |-> v1,
   label |-> l1, current |-> TRUE]
SomeEdges == {Edge(1, c1, c2, c1), Edge(2, c1, c3, c3), Edge(3, c2, c1, c1),
              Edge(4, c1, c4, c1)}

Claim(c) == [cites |-> c, version |-> v1, label |-> l1, current |-> TRUE]
SomeConflicts == {[left |-> Claim(c1), right |-> Claim(c2)],
                  [left |-> Claim(c1), right |-> Claim(c3)]}
Weights == [p \in {"exact", "bm25", "vector", "relationship"} |->
              IF p = "relationship" THEN 1 ELSE 2]
Seeded == <<"exact", "bm25">>
=============================================================================
