--------------------------- MODULE EvidenceBundle ---------------------------
(***************************************************************************)
(* Assembling the evidence for a ranked list: each candidate's record is   *)
(* shown with its citation, as long as both were read of the same version  *)
(* and text and the token budget has room.                                 *)
(***************************************************************************)
EXTENDS Integers, Sequences, SequencesExt

CONSTANTS LengthOf   \* characters of a text, by its hash

VARIABLES records, citations   \* what the fetcher read, by chunk

-----------------------------------------------------------------------------
(* A mutated form: a record's citation need only exist.                    *)
UsableIfCited(c) == c \in DOMAIN records /\ c \in DOMAIN citations

(* _record_is_usable: the citation is of the record's version and text.    *)
Usable(c) ==
  /\ c \in DOMAIN records /\ c \in DOMAIN citations
  /\ LengthOf[records[c].hash] > 0
  /\ citations[c] = records[c]

(* _relationship_path: nothing to show for a chunk that no walk found; a   *)
(* walk is shown only if all its edges are cited by the chunk itself.      *)
PathShown(c, reached) ==
  \A r \in ToSet(reached) : r.at = c => \A i \in DOMAIN r.path : r.path[i].cites = c

Shorter(a, b) == IF a < b THEN a ELSE b

Empty(budget) == [items |-> <<>>, left |-> 4 * budget, cut |-> 0, dropped |-> 0]

(* A mutated form: the budget is not charged.                              *)
TakeFree(b, c, reached) ==
  IF Usable(c) /\ PathShown(c, reached)
  THEN [b EXCEPT !.items = Append(@, [of |-> c, size |-> LengthOf[records[c].hash]])]
  ELSE [b EXCEPT !.dropped = @ + 1]

(* One candidate.  The budget is charged before the path is looked at.     *)
Take(b, c, reached) ==
  LET size == LengthOf[records[c].hash]
      shown == Shorter(size, b.left)
      over == IF shown < size THEN 1 ELSE 0
  IN  IF ~Usable(c) THEN [b EXCEPT !.dropped = @ + 1]
      ELSE IF shown = 0 \/ ~PathShown(c, reached)
      THEN [b EXCEPT !.left = @ - shown, !.cut = @ + over, !.dropped = @ + 1]
      ELSE [b EXCEPT !.items = Append(@, [of |-> c, size |-> shown]),
                     !.left = @ - shown, !.cut = @ + over]

Assembled(ranked, reached, budget) ==
  LET upto[n \in 0..Len(ranked)] ==
        IF n = 0 THEN Empty(budget) ELSE Take(upto[n - 1], ranked[n], reached)
  IN  upto[Len(ranked)]

Shown(b) == {b.items[i].of : i \in DOMAIN b.items}

(* Conflicts are marked only between items that are shown.                 *)
MarkersShown(markers, b) == {m \in markers : m \subseteq Shown(b)}

TotalSize(b) ==
  LET upto[n \in 0..Len(b.items)] ==
        IF n = 0 THEN 0 ELSE upto[n - 1] + b.items[n].size
  IN  upto[Len(b.items)]

EstimatedTokens(b) == (TotalSize(b) + 3) \div 4
=============================================================================
