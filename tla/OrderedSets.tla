----------------------------- MODULE OrderedSets -----------------------------
(***************************************************************************)
(* Sorting and filtering, said without recursion.                          *)
(***************************************************************************)
EXTENDS Integers, Sequences, FiniteSets

(* A finite set as a sequence in the order of a relation: the i-th element *)
(* is the one that i - 1 others come before.                               *)
InOrder(S, before) ==
  [i \in 1..Cardinality(S) |->
     CHOOSE x \in S : Cardinality({y \in S : <<y, x>> \in before}) = i - 1]

(* What a sequence holds at some of its places, in its order.              *)
KeptAt(seq, places) ==
  LET order == InOrder(places, {p \in places \X places : p[1] < p[2]})
  IN  [k \in DOMAIN order |-> seq[order[k]]]
=============================================================================
