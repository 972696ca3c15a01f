---------------------------- MODULE SnapshotFetch ----------------------------
(***************************************************************************)
(* What GitRepositoryFetcher.fetch promises run_ingestion, which calls it  *)
(* and waits: it returns a snapshot that answers the source as it was      *)
(* asked for, or none.  There is no cache, no command and no earlier fetch *)
(* in this promise, only the call and its end, so that IngestionRuns may   *)
(* take a fetch for one step.                                              *)
(***************************************************************************)
CONSTANTS
  Workers,   \* ingest processes
  Configs,   \* the entries sources.yaml may have for the source
  Answers,   \* the snapshots that answer each of them, none if it is refused
  None

VARIABLES
  asked,     \* what each process is fetching, None between its calls
  answer     \* the snapshot its last call has returned, None without one

vars == <<asked, answer>>

Init ==
  /\ asked = [w \in Workers |-> None]
  /\ answer = [w \in Workers |-> None]

Ask(w, config) ==
  /\ asked[w] = None
  /\ asked' = [asked EXCEPT ![w] = config]
  /\ answer' = [answer EXCEPT ![w] = None]

Refuse(w, config) ==
  /\ asked[w] = None
  /\ Answers[config] = {}
  /\ answer' = [answer EXCEPT ![w] = None]
  /\ UNCHANGED asked

Answer(w) ==
  /\ asked[w] \in Configs
  /\ \E snapshot \in Answers[asked[w]] :
       answer' = [answer EXCEPT ![w] = snapshot]
  /\ asked' = [asked EXCEPT ![w] = None]

(* The call raises, or its process is killed.                              *)
GiveUp(w) ==
  /\ asked[w] \in Configs
  /\ asked' = [asked EXCEPT ![w] = None]
  /\ UNCHANGED answer

Next ==
  \E w \in Workers :
    \/ \E config \in Configs : Ask(w, config) \/ Refuse(w, config)
    \/ Answer(w) \/ GiveUp(w)

Spec == Init /\ [][Next]_vars
=============================================================================
