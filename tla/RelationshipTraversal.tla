------------------------ MODULE RelationshipTraversal ------------------------
(***************************************************************************)
(* The bounded walk over relationships: a recursive query that leaves each *)
(* entity by its first MaxFanout edges, goes MaxDepth edges deep, skips    *)
(* entities already on the path and numbers every row it could make, so    *)
(* that the number alone keeps the result within MaxCandidates.  Then the  *)
(* checks the service makes of what an expander returns.                   *)
(***************************************************************************)
EXTENDS SortKeys, SequencesExt

CONSTANTS
  MaxDepth, MaxFanout, MaxCandidates,   \* the profile's bounds
  Direction                             \* "outbound", "inbound" or "both"

ASSUME TraversalConstants ==
  /\ MaxDepth \in 1..3
  /\ MaxFanout \in 1..25
  /\ MaxCandidates \in 1..100
  /\ Direction \in {"outbound", "inbound", "both"}

-----------------------------------------------------------------------------
(* Edges as the walk sees them: an inbound walk turns them round.          *)
Outward(e) == [id |-> e.id, way |-> "outbound", from |-> e.from, to |-> e.to,
               cites |-> e.cites]

Inward(e) == [id |-> e.id, way |-> "inbound", from |-> e.to, to |-> e.from,
              cites |-> e.cites]

Oriented(edges) ==
  (IF Direction = "inbound" THEN {} ELSE {Outward(e) : e \in edges})
    \cup (IF Direction = "outbound" THEN {} ELSE {Inward(e) : e \in edges})

(* row_number() over the arcs that leave the same entity.  The two arcs of *)
(* an edge from an entity to itself share a place.                         *)
FanoutRank(e, arcs) ==
  Cardinality({d \in arcs : d.from = e.from /\ d.id <= e.id})

(* A mutated form: one edge too many leaves each entity.                   *)
OneTooMany(arcs) == {e \in arcs : FanoutRank(e, arcs) <= MaxFanout + 1}

Bounded(arcs) == {e \in arcs : FanoutRank(e, arcs) <= MaxFanout}

Ordinal(seeds, parent, rank) == seeds + parent * MaxFanout + rank

SeedRow(seeds, i) == [at |-> seeds[i], ordinal |-> i - 1, path |-> <<>>,
                      seen |-> {seeds[i]}]

NextRow(seeds, row, e, arcs) ==
  [at |-> e.to, ordinal |-> Ordinal(Len(seeds), row.ordinal, FanoutRank(e, arcs)),
   path |-> Append(row.path, e), seen |-> row.seen \cup {e.to}]

Extends(seeds, row, e, arcs) ==
  /\ e.from = row.at /\ e.to \notin row.seen
  /\ Ordinal(Len(seeds), row.ordinal, FanoutRank(e, arcs)) <= MaxCandidates

(* The rows the recursive query holds after each of its rounds.            *)
RowsAt(seeds, arcs) ==
  LET level[d \in 0..MaxDepth] ==
        IF d = 0 THEN {SeedRow(seeds, i) : i \in DOMAIN seeds}
        ELSE {NextRow(seeds, x[1], x[2], arcs) :
                x \in {y \in level[d - 1] \X Bounded(arcs) :
                         Extends(seeds, y[1], y[2], arcs)}}
  IN  level

Walked(seeds, edges) ==
  UNION {RowsAt(seeds, Oriented(edges))[d] : d \in 1..MaxDepth}

(* By depth, last edge and entity; the ordinal stands for the database's   *)
(* choice among rows that agree on all three.                              *)
RowKey(r) == <<Len(r.path), Last(r.path).id, KeyOf[r.at], r.ordinal>>

RowBefore(rows) == {p \in rows \X rows : SortsBefore(RowKey(p[1]), RowKey(p[2]))}

(* The query's result.                                                     *)
Traversal(seeds, edges) ==
  LET reached == Walked(seeds, edges)
      rows == InOrder(reached, RowBefore(reached))
  IN  SubSeq(rows, 1, IF Len(rows) < MaxCandidates THEN Len(rows) ELSE MaxCandidates)

-----------------------------------------------------------------------------
(* What the service demands of one candidate's path.                       *)
PathAccepted(row, seeds) ==
  LET p == row.path
      stops == <<p[1].from>> \o [i \in DOMAIN p |-> p[i].to]
  IN  /\ p # <<>> /\ Len(p) <= MaxDepth
      /\ p[1].from \in {seeds[i] : i \in DOMAIN seeds}
      /\ \A i \in 1..(Len(p) - 1) : p[i].to = p[i + 1].from
      /\ Direction # "both" => \A i \in DOMAIN p : p[i].way = Direction
      /\ IsInjective(stops)
      /\ row.at = stops[Len(stops)]

(* Over all candidates, few different ways leave an entity at a depth.     *)
FanoutAccepted(rows) ==
  \A i \in DOMAIN rows : \A d \in DOMAIN rows[i].path :
    LET here == rows[i].path[d].from
        uses == {j \in DOMAIN rows : /\ d \in DOMAIN rows[j].path
                                     /\ rows[j].path[d].from = here}
    IN  Cardinality({rows[j].path[d].to : j \in uses}) <= MaxFanout

Accepted(rows, seeds) ==
  /\ \A i \in DOMAIN rows : PathAccepted(rows[i], seeds)
  /\ FanoutAccepted(rows)

(* Of several paths to one entity the first is kept.                       *)
FirstOfEach(rows) ==
  KeptAt(rows, {i \in DOMAIN rows : \A j \in 1..(i - 1) : rows[j].at # rows[i].at})

Validated(rows) ==
  LET kept == FirstOfEach(rows)
  IN  SubSeq(kept, 1, IF Len(kept) < MaxCandidates THEN Len(kept) ELSE MaxCandidates)
=============================================================================
