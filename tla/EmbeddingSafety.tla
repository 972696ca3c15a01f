--------------------------- MODULE EmbeddingSafety ---------------------------
(***************************************************************************)
(* What planning and running embedding jobs promise, and where it ends.    *)
(***************************************************************************)
EXTENDS EmbeddingJobs

(* The sets every variable of jobs.py and storage.py stays in; only a      *)
(* working pass holds rows, and what nobody holds is as committed.         *)
TypeOK ==
  /\ chunk \in ChunkTable
  /\ jobs \in [Keys -> JobRow] /\ jobDraft \in [Keys -> JobRow]
  /\ vectors \in [Keys -> VectorState] /\ vectorDraft \in [Keys -> VectorState]
  /\ jobLock \in [Keys -> Passes \cup {None}]
  /\ vectorLock \in [Keys -> Passes \cup {None}]
  /\ older \subseteq Keys \X Keys
  /\ pc \in [Passes -> Places] /\ local \in [Passes -> Local]
  /\ crashes \in 0..MaxCrashes
  /\ \A k \in Keys :
       /\ jobLock[k] = None => jobDraft[k] = jobs[k]
       /\ vectorLock[k] = None => vectorDraft[k] = vectors[k]
       /\ \A p \in Passes :
            jobLock[k] = p \/ vectorLock[k] = p => pc[p] # "idle"

(* A vector is there exactly when its job has succeeded: whatever workers, *)
(* planners, crashes and catalogue changes overlap, a success is never     *)
(* recorded without its vector nor a vector without its success            *)
(* (jobs.py:229-249).                                                      *)
VectorIffSucceeded ==
  \A k \in Keys : vectors[k] # "none" <=> jobs[k].status = "succeeded"

(* Attempts are counted once each: a job that failed has used all of them, *)
(* a retrying one has some left, a crash or a lost claim costs none, and   *)
(* nobody ever sees a job running (jobs.py:179-182, 452-467).              *)
AttemptsAccounted ==
  \A k \in Keys :
    /\ jobs[k].status \in {"none", "pending"} => jobs[k].attempts = 0
    /\ jobs[k].status = "retrying" => jobs[k].attempts \in 1..(MaxAttempts - 1)
    /\ jobs[k].status = "failed" => jobs[k].attempts = MaxAttempts
    /\ jobs[k].status \in {"succeeded", "cancelled"}
         => jobs[k].attempts \in 1..MaxAttempts
    /\ jobs[k].status # "running"
    /\ jobs[k].waiting => jobs[k].status = "retrying"

(* At most one vector of a chunk is active, although a new text's vector   *)
(* is made while the old text's is still served (storage.py:50-91).        *)
OneActiveVector ==
  \A c \in Chunks, g \in Hashes, h \in Hashes :
    vectors[<<c, g>>] = "active" /\ vectors[<<c, h>>] = "active" => g = h

-----------------------------------------------------------------------------
(* Why these hold: what passes have written but not committed.             *)

Busy == {"check", "drop", "embed", "store"}

(* How a worker leaves a job it has tried.                                 *)
Ended(k) ==
  /\ jobDraft[k].attempts = jobs[k].attempts + 1
  /\ \/ jobDraft[k].status \in {"succeeded", "cancelled"} /\ ~jobDraft[k].waiting
     \/ /\ jobDraft[k].status = "failed" /\ ~jobDraft[k].waiting
        /\ jobDraft[k].attempts >= MaxAttempts
     \/ /\ jobDraft[k].status = "retrying" /\ jobDraft[k].waiting
        /\ jobDraft[k].attempts < MaxAttempts

ClaimInOrder(w, k) ==
  /\ jobs[k].status \in Retryable /\ ~jobs[k].waiting
  /\ IF k \in local[w].batch THEN jobDraft[k] = jobs[k]
     ELSE IF pc[w] \in Busy /\ k = Current(w)
          THEN jobDraft[k] = [status |-> "running", waiting |-> FALSE,
                              attempts |-> jobs[k].attempts + 1]
     ELSE Ended(k)

(* A worker holds the open jobs it has claimed and no others.              *)
WorkerInOrder(w) ==
  /\ \A k \in Keys : jobLock[k] = w => ClaimInOrder(w, k)
  /\ \A k \in local[w].batch : jobLock[k] = w
  /\ pc[w] \in Busy => jobLock[Current(w)] = w /\ Current(w) \notin local[w].batch

(* A planner holds the jobs it has inserted or reset.                      *)
PlannerInOrder(p) ==
  /\ \A k \in Keys : jobLock[k] = p => /\ jobs[k].status \in {"none", "failed"}
                                       /\ jobDraft[k] = NewJob
  /\ pc[p] = "reset" => jobs[Current(p)].status = "failed"

JobsInOrder ==
  /\ \A w \in Workers : WorkerInOrder(w)
  /\ \A p \in Planners : PlannerInOrder(p)

(* Every pass sees a vector exactly where it sees a success; a vector is   *)
(* never taken back, and a new one is held together with its job.          *)
VectorsInOrder ==
  /\ VectorIffSucceeded
  /\ \A p \in Passes, k \in Keys :
       VectorSeen(p, k) # "none" <=> JobSeen(p, k).status = "succeeded"
  /\ \A k \in Keys :
       /\ vectors[k] # "none" => vectorDraft[k] # "none"
       /\ vectors[k] = "inactive" => vectorDraft[k] = "inactive"
       /\ vectors[k] = "none" /\ vectorLock[k] # None => jobLock[k] = vectorLock[k]
  /\ \A p \in Passes : \A k \in local[p].stale : VectorSeen(p, k) # "none"

(* For one worker: it sees one active vector of each chunk, and knows the  *)
(* others when it is about to make one.  Planners only deactivate.         *)
OneVectorSeen(w) ==
  /\ \A k \in Keys : vectorLock[k] \in Planners => vectorDraft[k] = "inactive"
  /\ \A c \in Chunks, g \in Hashes, h \in Hashes :
       /\ VectorSeen(w, <<c, g>>) = "active" /\ VectorSeen(w, <<c, h>>) = "active"
       => g = h
  /\ pc[w] = "store" =>
       ActiveOf(w, Current(w)[1]) \subseteq local[w].stale \cup {Current(w)}

-----------------------------------------------------------------------------
(* Committed jobs and vectors are a ledger: no text is embedded twice, no  *)
(* finished job starts again (jobs.py:378-429).                            *)
Ledger == INSTANCE EmbeddingLedger
            WITH status <- [k \in Keys |-> jobs[k].status], vector <- vectors
LedgerKept == Ledger!LedgerSpec

Active(c) == \E k \in Keys : k[1] = c /\ vectors[k] = "active"

(* From some time on the database has no deadlock to break.                *)
DeadlocksEnd == <>[][\A p \in Passes : ~FailVictim(p)]_vars

(* From some time on no planning pass is lost to a deadlock, nor to a job  *)
(* it finds: a chunk that is offered again after its job ended makes every *)
(* pass fail (InsertCollides, jobs.py:125-143).                            *)
PassesComplete ==
  DeadlocksEnd /\ <>[][\A p \in Planners : ~InsertCollides(p)]_vars

(* A job that is open is finished in the end, although its provider fails, *)
(* passes die, planners hold its rows and the catalogue never rests, unless *)
(* its pass is for ever chosen to break a deadlock (jobs.py:151-251).      *)
JobsSettle ==
  DeadlocksEnd =>
    \A k \in Keys :
      (jobs[k].status \in OpenStatus) ~> (jobs[k].status \in TerminalStatus)

(* As long as planning passes complete, a chunk that is withdrawn for good *)
(* is not served by vector retrieval for ever (jobs.py:302-335).           *)
WithdrawnVectorsDropped ==
  PassesComplete =>
    \A c \in Chunks : <>[](~Offered(chunk[c])) => <>[](~Active(c))

(* As long as planning passes complete, a chunk of the scope that is       *)
(* offered for good is embedded in the end, unless its job keeps failing   *)
(* (jobs.py:55-148).                                                       *)
OfferedChunksEmbedded ==
  PassesComplete =>
    \A c \in Scope :
      <>[]Offered(chunk[c]) =>
        \/ <>[]Active(c)
        \/ []<>(\E h \in Hashes : jobs[<<c, h>>].status \in {"retrying", "failed"})
        \/ []<><<chunk'[c] # chunk[c]>>_vars

=============================================================================
