--------------------------- MODULE EmbeddingLedger ---------------------------
(***************************************************************************)
(* What the embedding tables promise their readers, transaction by         *)
(* transaction: a text is embedded once.  A job ends succeeded or          *)
(* cancelled for good, only a failed one starts again, and a vector        *)
(* appears in the very transaction that completes its job, and is never    *)
(* used again after it went out of use.                                    *)
(***************************************************************************)
CONSTANT Keys   \* (chunk, content hash) pairs

VARIABLES status, vector

Moves == {<<"none", "pending">>, <<"failed", "pending">>}
           \cup ({"pending", "retrying"}
                   \X {"retrying", "succeeded", "failed", "cancelled"})

(* Nothing is entered yet, or what was entered is finished.                *)
LedgerInit ==
  \A k \in Keys :
    <<status[k], vector[k]>> \in {<<"none", "none">>, <<"succeeded", "active">>}

Kept(k) == status'[k] = status[k] /\ vector'[k] = vector[k]

Worked(k) ==
  /\ <<status[k], status'[k]>> \in Moves
  /\ vector'[k] \in IF status'[k] = "succeeded" THEN {"active", "inactive"}
                    ELSE {vector[k]}

Dropped(k) ==
  /\ status'[k] = status[k]
  /\ vector[k] = "active" /\ vector'[k] = "inactive"

Transaction ==
  \A k \in Keys : Kept(k) \/ Worked(k) \/ Dropped(k)

LedgerSpec == LedgerInit /\ [][Transaction]_<<status, vector>>
=============================================================================
