------------------------------ MODULE SortKeys ------------------------------
(***************************************************************************)
(* Tuples compared as Python and SQL compare them: the first place where   *)
(* they differ decides.  Every sort of the retrieval code ends in an id.   *)
(***************************************************************************)
EXTENDS OrderedSets

CONSTANT KeyOf   \* chunk ids as numbers, in the order ids sort

SortsBefore(k, l) ==
  \E i \in DOMAIN k : k[i] < l[i] /\ \A j \in 1..(i - 1) : k[j] = l[j]
=============================================================================
