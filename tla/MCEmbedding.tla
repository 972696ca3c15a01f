----------------------------- MODULE MCEmbedding -----------------------------
(***************************************************************************)
(* Small instances of EmbeddingJobs for TLC.                               *)
(***************************************************************************)
EXTENDS EmbeddingSafety, TLC

CONSTANTS w1, w2, p1, c1, c2, h1, h2, v1, s1

InOrder == {<<c1, c2>>}

Offer(v, h) == [version |-> v, hash |-> h, eligible |-> TRUE]

(* One chunk changes between two texts, the other can only be withdrawn.   *)
TwoTexts == [c \in Chunks |-> IF c = c1 THEN {Offer(v1, h1), Offer(v1, h2)}
                              ELSE {}]
OneSource == [c \in Chunks |-> s1]

(* Every chunk has been embedded, and then its source has changed its text.*)
Reworded ==
  /\ chunk = [c \in Chunks |->
                Saved(Saved(NoChunk, Offer(v1, h1)), Offer(v1, h2))]
  /\ jobs = [k \in Keys |-> IF k[2] = h2 THEN NoJob
                            ELSE [NewJob EXCEPT !.status = "succeeded",
                                                !.attempts = 1]]
  /\ vectors = [k \in Keys |-> IF k[2] = h2 THEN "none" ELSE "active"]
  /\ jobDraft = jobs /\ vectorDraft = vectors
  /\ jobLock = [k \in Keys |-> None] /\ vectorLock = jobLock
  /\ older = {<<<<c1, h1>>, <<c2, h1>>>>}
  /\ pc = [p \in Passes |-> "idle"] /\ local = [p \in Passes |-> NoLocal]
  /\ crashes = 0

PairSpec == (EmbeddingInit \/ Reworded) /\ [][EmbeddingNext]_vars

Alike == Permutations(Workers)
=============================================================================
