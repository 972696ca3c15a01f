----------------------------- MODULE RankFusion -----------------------------
(***************************************************************************)
(* Reciprocal rank fusion: a chunk scores Weight / (RankConstant + rank)   *)
(* in every list it is in, and ties fall to its exact, BM25 and vector     *)
(* ranks, its source's authority and its id.                               *)
(*                                                                         *)
(* Scores are the code's fractions times a common denominator; the         *)
(* rounding of floating point is left out.                                 *)
(***************************************************************************)
EXTENDS SortKeys, SequencesExt

CONSTANTS
  Lists,          \* the fused lists: exact, bm25, vector, relationship
  Weight,         \* fusion_weights
  RankConstant,   \* rank_constant
  MaxRank,        \* bound: the longest list
  Authority       \* authority_rank of a chunk's source

(* Stands for 2**31 - 1 and for infinity.                                  *)
Unranked == 1000000

ASSUME FusionConstants ==
  /\ Weight \in [Lists -> Nat]
  /\ RankConstant \in Nat \ {0} /\ MaxRank \in 0..(Unranked - 1)

-----------------------------------------------------------------------------

Ranks(list, c) == {i \in DOMAIN list : list[i] = c}

Rank(list, c) ==
  IF Ranks(list, c) = {} THEN Unranked
  ELSE CHOOSE i \in Ranks(list, c) : \A j \in Ranks(list, c) : i <= j

Denominator ==
  LET upto[n \in 0..MaxRank] == IF n = 0 THEN 1 ELSE (RankConstant + n) * upto[n - 1]
  IN  upto[MaxRank]

(* A mutated form: the further down, the more a place is worth.            *)
ShareByRank(p, list, c) == Weight[p] * Rank(list, c)

Share(p, list, c) ==
  IF Ranks(list, c) = {} THEN 0
  ELSE Weight[p] * (Denominator \div (RankConstant + Rank(list, c)))

Score(lists, c) ==
  LET share(p) == IF p \in DOMAIN lists THEN Share(p, lists[p], c) ELSE 0
  IN  share("exact") + share("bm25") + share("vector") + share("relationship")

(* Exact and BM25 candidates carry their source's authority, vector ones   *)
(* do not.                                                                 *)
AuthorityKey(lists, c, weighted) ==
  IF ~weighted THEN 0
  ELSE IF Ranks(lists["exact"], c) \cup Ranks(lists["bm25"], c) = {} THEN Unranked
  ELSE Authority[c]

SortKey(lists, c, weighted) ==
  <<0 - Score(lists, c), Rank(lists["exact"], c), Rank(lists["bm25"], c),
    Rank(lists["vector"], c), AuthorityKey(lists, c, weighted), KeyOf[c]>>

Found(lists) == UNION {ToSet(lists[p]) : p \in DOMAIN lists}

FusedBefore(lists, weighted) ==
  LET key == [c \in Found(lists) |-> SortKey(lists, c, weighted)]
  IN  {p \in Found(lists) \X Found(lists) : SortsBefore(key[p[1]], key[p[2]])}

Fused(lists, weighted) == InOrder(Found(lists), FusedBefore(lists, weighted))
=============================================================================
