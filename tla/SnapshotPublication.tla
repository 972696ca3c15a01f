------------------------- MODULE SnapshotPublication -------------------------
(***************************************************************************)
(* What ingestion promises to a reader of the catalogue: the visible       *)
(* content of a source changes only when one of its runs completes, then   *)
(* all at once, and to a whole snapshot that the source offered.  A run    *)
(* that fails, is killed or is a dry run changes nothing.                  *)
(***************************************************************************)
CONSTANTS
  Sources, RunIds, Paths, Sums, None,
  Offers    \* per source, the contents [Paths -> Sums \cup {None}] it may have

VARIABLES
  view,     \* the content of each source, as readers see it
  owner,    \* the source a run belongs to, None before it starts
  outcome   \* "none", "open", "completed" or "failed"

vars == <<view, owner, outcome>>

Init ==
  /\ view = [s \in Sources |-> [p \in Paths |-> None]]
  /\ owner = [r \in RunIds |-> None]
  /\ outcome = [r \in RunIds |-> "none"]

Open(r, s) ==
  /\ outcome[r] = "none"
  /\ outcome' = [outcome EXCEPT ![r] = "open"]
  /\ owner' = [owner EXCEPT ![r] = s]
  /\ UNCHANGED view

Close(r, result) ==
  /\ outcome[r] = "open"
  /\ outcome' = [outcome EXCEPT ![r] = result]
  /\ UNCHANGED owner

(* A dry run completes without publishing. *)
CompleteDry(r) == Close(r, "completed") /\ UNCHANGED view

Publish(r) ==
  /\ Close(r, "completed")
  /\ \E content \in Offers[owner[r]] :
       view' = [view EXCEPT ![owner[r]] = content]

Fail(r) == Close(r, "failed") /\ UNCHANGED view

Next ==
  \E r \in RunIds :
    \/ \E s \in Sources : Open(r, s)
    \/ CompleteDry(r) \/ Publish(r) \/ Fail(r)

Spec == Init /\ [][Next]_vars
=============================================================================
