---------------------------- MODULE EmbeddingJobs ----------------------------
(***************************************************************************)
(* Planning and running embedding jobs for one embedding model and one     *)
(* index version (embeddings/jobs.py, embeddings/storage.py) while the     *)
(* chunk catalogue changes underneath.                                     *)
(*                                                                         *)
(* Planners run create_embedding_jobs_for_index_version and workers run    *)
(* run_embedding_jobs_once; each pass is one database transaction that its *)
(* caller commits.  A row written but not committed is locked by its       *)
(* writer and only the writer sees the new value: jobs and vectors hold    *)
(* the committed rows, jobDraft and vectorDraft what the lock owner has    *)
(* written, and both agree on every row that nobody has locked.  A process *)
(* may die at any point; the database then rolls its transaction back.     *)
(*                                                                         *)
(* A job and a vector are both named by their chunk and content hash: the  *)
(* unique constraints of embedding_jobs and embeddings, and the stable ids *)
(* derived from these columns, allow one row of each.                      *)
(***************************************************************************)
EXTENDS ChunkCatalog, FiniteSets

CONSTANTS
  Workers, Planners,
  Scope,         \* chunks of the sources in the index version's scope
  Smaller,       \* pairs of chunks: the first one's id is the smaller one
  PlanLimit,     \* most chunks one planning pass looks at (its limit)
  BatchSize,     \* most jobs one worker pass claims
  MaxAttempts,   \* attempts before a job fails for good
  MayFail,       \* may the provider fail, or answer a wrong dimension?
  MaxCrashes     \* bound on the passes that die

ASSUME EmbeddingConstants ==
  /\ Workers \cap Planners = {}
  /\ None \notin Workers \cup Planners
  /\ Scope \subseteq Chunks
  /\ Smaller \subseteq Chunks \X Chunks
  /\ PlanLimit \in Nat /\ BatchSize \in Nat \ {0}
  /\ MaxAttempts \in Nat \ {0}
  /\ MayFail \in BOOLEAN /\ MaxCrashes \in Nat

VARIABLES
  jobs, vectors,           \* committed rows
  jobDraft, vectorDraft,   \* the rows as their lock owner sees them
  jobLock, vectorLock,     \* the pass that has written or claimed a row
  older,                   \* pairs of jobs: the first one was created first
  pc, local,               \* where each pass is, and what it has read
  crashes

tables == <<jobs, vectors>>
drafts == <<jobDraft, jobLock, vectorDraft, vectorLock>>
vars == <<chunk, tables, drafts, older, pc, local, crashes>>

Passes == Workers \cup Planners

Keys == Chunks \X Hashes

OpenStatus == {"pending", "running", "retrying"}
TerminalStatus == {"succeeded", "failed", "cancelled"}

(* waiting: next_retry_at is set and still in the future.                  *)
JobRow == [status: OpenStatus \cup TerminalStatus \cup {"none"},
           attempts: Nat, waiting: BOOLEAN]

NoJob == [status |-> "none", attempts |-> 0, waiting |-> FALSE]
NewJob == [status |-> "pending", attempts |-> 0, waiting |-> FALSE]

VectorState == {"none", "active", "inactive"}

(* What a pass holds in memory: the jobs still to do, the chunks still to  *)
(* sweep, the chunk rows still to plan, the job or row at hand, the chunk  *)
(* object it last loaded (the session returns it again while it is         *)
(* referenced) and the ids of the vectors it will deactivate.              *)
Local == [batch: SUBSET Keys, todo: SUBSET Chunks,
          rows: SUBSET [name: Chunks, row: ChunkRow],
          key: Keys \cup {None},
          seen: [name: Chunks \cup {None}, row: ChunkRow],
          stale: SUBSET Keys]

Unseen == [name |-> None, row |-> NoChunk]

NoLocal == [batch |-> {}, todo |-> {}, rows |-> {}, key |-> None,
            seen |-> Unseen, stale |-> {}]

Places == {"idle", "next", "check", "drop", "embed", "store",
           "sweep", "sweepDrop", "plan", "planDrop", "reset", "insert"}

EmbeddingInit ==
  /\ ChunkInit
  /\ jobs = [k \in Keys |-> NoJob] /\ jobDraft = jobs
  /\ vectors = [k \in Keys |-> "none"] /\ vectorDraft = vectors
  /\ jobLock = [k \in Keys |-> None] /\ vectorLock = jobLock
  /\ older = {}
  /\ pc = [p \in Passes |-> "idle"]
  /\ local = [p \in Passes |-> NoLocal]
  /\ crashes = 0

-----------------------------------------------------------------------------
(* What the statements of pass p see.                                      *)
JobSeen(p, k) == IF jobLock[k] = p THEN jobDraft[k] ELSE jobs[k]

VectorSeen(p, k) == IF vectorLock[k] = p THEN vectorDraft[k] ELSE vectors[k]

ActiveOf(p, c) ==
  {k \in Keys : k[1] = c /\ VectorSeen(p, k) = "active"}

(* An UPDATE or INSERT waits for the rows other transactions have written. *)
Free(p, lock, S) == \A k \in S : lock[k] \in {None, p}

WriteJob(p, k, row) ==
  /\ Free(p, jobLock, {k})
  /\ jobDraft' = [jobDraft EXCEPT ![k] = row]
  /\ jobLock' = [jobLock EXCEPT ![k] = p]

WriteVectors(p, off, on) ==
  /\ Free(p, vectorLock, off \cup on)
  /\ vectorDraft' = [k \in Keys |-> IF k \in on THEN "active"
                                   ELSE IF k \in off THEN "inactive"
                                   ELSE vectorDraft[k]]
  /\ vectorLock' = [k \in Keys |-> IF k \in off \cup on THEN p
                                  ELSE vectorLock[k]]

GoTo(p, place, l) ==
  /\ pc' = [pc EXCEPT ![p] = place]
  /\ local' = [local EXCEPT ![p] = l]

(* A mutated form: the transaction ends and its locks stay.                *)
EndPassHolding(p, keep) ==
  /\ jobs' = [k \in Keys |-> IF keep THEN JobSeen(p, k) ELSE jobs[k]]
  /\ vectors' = [k \in Keys |-> IF keep THEN VectorSeen(p, k)
                               ELSE vectors[k]]
  /\ GoTo(p, "idle", NoLocal)
  /\ UNCHANGED <<chunk, drafts, older>>

(* The rows p has written, kept or given up; others' rows are not touched. *)
EndPass(p, keep) ==
  /\ jobs' = [k \in Keys |-> IF keep THEN JobSeen(p, k) ELSE jobs[k]]
  /\ vectors' = [k \in Keys |-> IF keep THEN VectorSeen(p, k)
                               ELSE vectors[k]]
  /\ jobDraft' = [k \in Keys |-> IF jobLock[k] = p THEN jobs'[k]
                                ELSE jobDraft[k]]
  /\ vectorDraft' = [k \in Keys |-> IF vectorLock[k] = p THEN vectors'[k]
                                   ELSE vectorDraft[k]]
  /\ jobLock' = [k \in Keys |-> IF jobLock[k] = p THEN None ELSE jobLock[k]]
  /\ vectorLock' = [k \in Keys |-> IF vectorLock[k] = p THEN None
                                  ELSE vectorLock[k]]
  /\ older' = {pair \in older : /\ jobDraft'[pair[1]].status # "none"
                                /\ jobDraft'[pair[2]].status # "none"}
  /\ GoTo(p, "idle", NoLocal)
  /\ UNCHANGED chunk

Embeddable(row) == row.eligible /\ row.version # None

(* Two statements: the chunk row may be older than the memberships.        *)
MayEmbed(c, row) == Embeddable(row) /\ HasCurrent(chunk[c])

-----------------------------------------------------------------------------
(* Workers.                                                                *)

(* A mutated form: a retrying job is not claimed again.                    *)
PendingOnly == {"pending"}

Retryable == {"pending", "retrying"}

(* A mutated form: without FOR UPDATE SKIP LOCKED.                         *)
ClaimableLocked(k) == jobs[k].status \in Retryable /\ ~jobs[k].waiting

Claimable(k) ==
  jobs[k].status \in Retryable /\ ~jobs[k].waiting /\ jobLock[k] = None

(* The first n of S in an order, and the first one.                        *)
Among(S, order, n) ==
  {e \in S : Cardinality({d \in S : <<d, e>> \in order}) < n}

Leads(S, order, e) == \A d \in S : d = e \/ <<e, d>> \in order

Claim(w) ==
  LET batch == Among({k \in Keys : Claimable(k)}, older, BatchSize)
  IN  /\ pc[w] = "idle" /\ batch # {}
      /\ jobLock' = [k \in Keys |-> IF k \in batch THEN w ELSE jobLock[k]]
      /\ GoTo(w, "next", [NoLocal EXCEPT !.batch = batch])
      /\ UNCHANGED <<chunk, tables, jobDraft, vectorDraft, vectorLock, older,
                     crashes>>

Current(w) == local[w].key

(* The job is marked running and its chunk loaded, unless the session      *)
(* still holds it from the job before.                                     *)
Load(w, k) ==
  /\ pc[w] = "next" /\ k \in local[w].batch
  /\ Leads(local[w].batch, older, k)
  /\ LET seen == IF local[w].seen.name = k[1] THEN local[w].seen
                 ELSE [name |-> k[1], row |-> chunk[k[1]]]
     IN  GoTo(w, "check", [local[w] EXCEPT !.batch = @ \ {k}, !.key = k,
                                           !.seen = seen])
  /\ WriteJob(w, k, [jobDraft[k] EXCEPT !.status = "running",
                                        !.attempts = @ + 1])
  /\ UNCHANGED <<chunk, tables, vectorDraft, vectorLock, older, crashes>>

(* A job is cancelled, and every active vector of the chunk deactivated,   *)
(* when the chunk may not be embedded or has another text.                 *)
Worth(w) ==
  /\ MayEmbed(Current(w)[1], local[w].seen.row)
  /\ local[w].seen.row.hash = Current(w)[2]

Check(w) ==
  /\ pc[w] = "check"
  /\ IF Worth(w) THEN GoTo(w, "embed", local[w])
     ELSE GoTo(w, "drop", [local[w] EXCEPT
                             !.stale = ActiveOf(w, Current(w)[1])])
  /\ UNCHANGED <<chunk, tables, drafts, older, crashes>>

Done(w) == [local[w] EXCEPT !.key = None, !.stale = {}]

Settled(w, status, waiting) ==
  [jobDraft[Current(w)] EXCEPT !.status = status, !.waiting = waiting]

CancelJob(w) ==
  /\ pc[w] = "drop"
  /\ WriteVectors(w, local[w].stale, {})
  /\ WriteJob(w, Current(w), Settled(w, "cancelled", FALSE))
  /\ GoTo(w, "next", Done(w))
  /\ UNCHANGED <<chunk, tables, older, crashes>>

(* The provider raises, or its vector has the wrong length.                *)
RecordJobError(w) ==
  /\ pc[w] = "embed" /\ MayFail
  /\ LET last == jobDraft[Current(w)].attempts >= MaxAttempts
     IN  WriteJob(w, Current(w),
                  IF last THEN Settled(w, "failed", FALSE)
                  ELSE Settled(w, "retrying", TRUE))
  /\ GoTo(w, "next", Done(w))
  /\ UNCHANGED <<chunk, tables, vectorDraft, vectorLock, older, crashes>>

(* A mutated form: the vectors of other texts stay active.                 *)
EmbedBesideOld(w) ==
  /\ pc[w] = "embed"
  /\ GoTo(w, "store", local[w])
  /\ UNCHANGED <<chunk, tables, drafts, older, crashes>>

(* upsert_vector reads the active vectors of other texts ...               *)
Embed(w) ==
  /\ pc[w] = "embed"
  /\ GoTo(w, "store", [local[w] EXCEPT
       !.stale = ActiveOf(w, Current(w)[1]) \ {Current(w)}])
  /\ UNCHANGED <<chunk, tables, drafts, older, crashes>>

(* ... deactivates them and inserts or reactivates the job's own.          *)
Store(w) ==
  /\ pc[w] = "store"
  /\ WriteVectors(w, local[w].stale, {Current(w)})
  /\ WriteJob(w, Current(w), Settled(w, "succeeded", FALSE))
  /\ GoTo(w, "next", Done(w))
  /\ UNCHANGED <<chunk, tables, older, crashes>>

CommitBatch(w) ==
  /\ pc[w] = "next" /\ local[w].batch = {}
  /\ EndPass(w, TRUE)
  /\ UNCHANGED crashes

-----------------------------------------------------------------------------
(* Planners.  First the chunks with active vectors, in no order.           *)

StartPlan(p) ==
  /\ pc[p] = "idle"
  /\ GoTo(p, "sweep",
          [NoLocal EXCEPT !.todo = {c \in Chunks : ActiveOf(p, c) # {}}])
  /\ UNCHANGED <<chunk, tables, drafts, older, crashes>>

(* A mutated form: a chunk of the scope keeps its vectors.                 *)
SweepScopeOnly(p, c) ==
  /\ pc[p] = "sweep" /\ c \in local[p].todo
  /\ LET rest == [local[p] EXCEPT !.todo = @ \ {c}]
     IN  IF c \in Scope THEN GoTo(p, "sweep", rest)
         ELSE GoTo(p, "sweepDrop", [rest EXCEPT !.stale = ActiveOf(p, c)])
  /\ UNCHANGED <<chunk, tables, drafts, older, crashes>>

Sweep(p, c) ==
  /\ pc[p] = "sweep" /\ c \in local[p].todo
  /\ LET rest == [local[p] EXCEPT !.todo = @ \ {c}]
     IN  IF c \in Scope /\ MayEmbed(c, chunk[c]) THEN GoTo(p, "sweep", rest)
         ELSE GoTo(p, "sweepDrop", [rest EXCEPT !.stale = ActiveOf(p, c)])
  /\ UNCHANGED <<chunk, tables, drafts, older, crashes>>

DropVectors(p) ==
  /\ pc[p] \in {"sweepDrop", "planDrop"}
  /\ WriteVectors(p, local[p].stale, {})
  /\ GoTo(p, IF pc[p] = "sweepDrop" THEN "sweep" ELSE "plan",
          [local[p] EXCEPT !.stale = {}])
  /\ UNCHANGED <<chunk, tables, jobDraft, jobLock, older, crashes>>

(* Chunks of the scope with a current membership and a version.            *)
Listable ==
  {c \in Scope : HasCurrent(chunk[c]) /\ chunk[c].version # None}

(* A mutated form: one chunk fewer than the limit.                         *)
SelectedBelowLimit ==
  {[name |-> c, row |-> chunk[c]] :
     c \in Among(Listable, Smaller, PlanLimit - 1)}

(* Then the first PlanLimit current chunks of the scope, by id, as one     *)
(* statement reads them.                                                   *)
Selected ==
  {[name |-> c, row |-> chunk[c]] : c \in Among(Listable, Smaller, PlanLimit)}

SelectChunks(p) ==
  /\ pc[p] = "sweep" /\ local[p].todo = {}
  /\ GoTo(p, "plan", [local[p] EXCEPT !.rows = Selected])
  /\ UNCHANGED <<chunk, tables, drafts, older, crashes>>


(* A mutated form: a cancelled job is reset like a failed one.             *)
DecideReopening(p, r) ==
  LET k == <<r.name, r.row.hash>>
  IN  IF ~MayEmbed(r.name, r.row) THEN "planDrop"
      ELSE IF \/ VectorSeen(p, k) = "active"
              \/ JobSeen(p, k).status \in OpenStatus THEN "plan"
      ELSE IF JobSeen(p, k).status \in {"failed", "cancelled"} THEN "reset"
      ELSE "insert"

(* What to do about a chunk: drop its vectors, leave it, reset its failed  *)
(* job or insert one.                                                      *)
Decide(p, r) ==
  LET k == <<r.name, r.row.hash>>
  IN  IF ~MayEmbed(r.name, r.row) THEN "planDrop"
      ELSE IF \/ VectorSeen(p, k) = "active"
              \/ JobSeen(p, k).status \in OpenStatus THEN "plan"
      ELSE IF JobSeen(p, k).status = "failed" THEN "reset"
      ELSE "insert"

PlanChunk(p, r) ==
  /\ pc[p] = "plan" /\ r \in local[p].rows
  /\ Leads({o.name : o \in local[p].rows}, Smaller, r.name)
  /\ LET place == Decide(p, r)
     IN  GoTo(p, place,
           [local[p] EXCEPT
              !.rows = @ \ {r},
              !.key = IF place \in {"reset", "insert"}
                      THEN <<r.name, r.row.hash>> ELSE None,
              !.stale = IF place = "planDrop" THEN ActiveOf(p, r.name)
                        ELSE {}])
  /\ UNCHANGED <<chunk, tables, drafts, older, crashes>>

Planned(p) == [local[p] EXCEPT !.key = None]

(* A mutated form: attempts keep counting from the failed run.             *)
ResetStatusOnly(p) ==
  /\ pc[p] = "reset"
  /\ WriteJob(p, Current(p), [jobDraft[Current(p)] EXCEPT
                                   !.status = "pending"])
  /\ GoTo(p, "plan", Planned(p))
  /\ UNCHANGED <<chunk, tables, vectorDraft, vectorLock, older, crashes>>

ResetFailedJob(p) ==
  /\ pc[p] = "reset"
  /\ WriteJob(p, Current(p), NewJob)
  /\ GoTo(p, "plan", Planned(p))
  /\ UNCHANGED <<chunk, tables, vectorDraft, vectorLock, older, crashes>>

Existing == {k \in Keys : jobDraft[k].status # "none"}

InsertJob(p) ==
  /\ pc[p] = "insert" /\ JobSeen(p, Current(p)).status = "none"
  /\ WriteJob(p, Current(p), NewJob)
  /\ older' = older \cup (Existing \X {Current(p)})
  /\ GoTo(p, "plan", Planned(p))
  /\ UNCHANGED <<chunk, tables, vectorDraft, vectorLock, crashes>>

(* The key is taken by a terminal job: IntegrityError, the pass is lost.   *)
InsertCollides(p) ==
  /\ pc[p] = "insert" /\ JobSeen(p, Current(p)).status # "none"
  /\ Free(p, jobLock, {Current(p)})
  /\ EndPass(p, FALSE)
  /\ UNCHANGED crashes

CommitPlan(p) ==
  /\ pc[p] = "plan" /\ local[p].rows = {}
  /\ EndPass(p, TRUE)
  /\ UNCHANGED crashes

-----------------------------------------------------------------------------
Die(p) ==
  /\ pc[p] # "idle" /\ crashes < MaxCrashes
  /\ EndPass(p, FALSE)
  /\ crashes' = crashes + 1

(* Passes that wait for each other's rows: the database fails one of them. *)
WaitsFor(p, q) ==
  /\ p # q
  /\ \/ pc[p] \in {"drop", "store", "sweepDrop", "planDrop"}
        /\ \E k \in local[p].stale : vectorLock[k] = q
     \/ pc[p] = "store" /\ vectorLock[Current(p)] = q
     \/ pc[p] \in {"reset", "insert"} /\ jobLock[Current(p)] = q

Deadlocked(p) ==
  \E S \in SUBSET Passes :
    p \in S /\ \A a \in S : \E b \in S : WaitsFor(a, b)

FailVictim(p) ==
  /\ Deadlocked(p)
  /\ EndPass(p, FALSE)
  /\ UNCHANGED crashes

(* next_retry_at passes.                                                   *)
RetryDue(k) ==
  /\ jobs[k].waiting /\ jobLock[k] = None
  /\ jobs' = [jobs EXCEPT ![k].waiting = FALSE]
  /\ jobDraft' = [jobDraft EXCEPT ![k].waiting = FALSE]
  /\ UNCHANGED <<chunk, vectors, jobLock, vectorDraft, vectorLock, older, pc,
                 local, crashes>>

CatalogChanges ==
  /\ ChunkNext
  /\ UNCHANGED <<tables, drafts, older, pc, local, crashes>>

WorkerStep(w) ==
  \/ Claim(w) \/ (\E k \in Keys : Load(w, k)) \/ Check(w) \/ CancelJob(w)
  \/ RecordJobError(w) \/ Embed(w) \/ Store(w) \/ CommitBatch(w)

PlannerStep(p) ==
  \/ StartPlan(p) \/ (\E c \in Chunks : Sweep(p, c)) \/ DropVectors(p)
  \/ SelectChunks(p) \/ (\E r \in local[p].rows : PlanChunk(p, r))
  \/ ResetFailedJob(p) \/ InsertJob(p) \/ InsertCollides(p) \/ CommitPlan(p)

EmbeddingNext ==
  \/ CatalogChanges
  \/ \E w \in Workers : WorkerStep(w)
  \/ \E p \in Planners : PlannerStep(p)
  \/ \E p \in Passes : Die(p) \/ FailVictim(p)
  \/ \E k \in Keys : RetryDue(k)

EmbeddingSpec == EmbeddingInit /\ [][EmbeddingNext]_vars

(* Workers and planners are run again and again, time passes and the       *)
(* database breaks deadlocks and serves those who wait for a row in turn.  *)
(* Nothing is assumed of the chunk catalogue.                              *)
EmbeddingFairness ==
  /\ \A w \in Workers : SF_vars(WorkerStep(w))
  /\ \A p \in Planners : SF_vars(PlannerStep(p))
  /\ \A k \in Keys : WF_vars(RetryDue(k))
  /\ WF_vars(\E p \in Passes : FailVictim(p))

FairEmbeddingSpec == EmbeddingSpec /\ EmbeddingFairness
=============================================================================
