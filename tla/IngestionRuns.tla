---------------------------- MODULE IngestionRuns ----------------------------
(***************************************************************************)
(* `idp-brain ingest run`: several operator processes (Workers) execute    *)
(* run_ingestion against one PostgreSQL database.  A run row is committed  *)
(* before any work, its status is committed again before and after the     *)
(* fetch, and everything the snapshot changes in the catalogue is written  *)
(* in one last transaction that also completes the run.                    *)
(*                                                                         *)
(* That transaction is modelled statement by statement on a private copy   *)
(* of the source's rows (local[w].txn).  upsert_source always updates the  *)
(* sources row, so it takes the row lock that serialises transactions of   *)
(* one source (lock); rollback, commit and a dying client release it.      *)
(***************************************************************************)
EXTENDS Catalog, Naturals, Sequences

CONSTANTS
  Workers,     \* ingest processes that may be alive at the same time
  Sources,     \* configured source ids
  Order,       \* the sources in the order of sources.yaml
  Enabled,     \* the sources with enabled: true
  SourceType,  \* the source_type of each source
  Requests,    \* the command lines operators use
  Upstream,    \* per source, the snapshots the outside world may show
  Rules,       \* discovery outcomes: what the path rules make of each path
  MaxRuns,     \* bound: how many run rows are ever created
  MayCrash     \* whether a process may be killed

FetchedTypes == {"git_repository", "local_directory"}

Skip == "skip"

(* ids: --source values, empty for all; enforce: a disabled source is      *)
(* refused (the command line always, the library call for one source_id    *)
(* never); matching: the sources whose extractor profile equals --profile  *)
(* (all of them when it is not given); dry: --dry-run.                     *)
Request == [ids: Seq(Sources), enforce: BOOLEAN, matching: SUBSET Sources,
            dry: BOOLEAN]

ASSUME RunsAssumption ==
  /\ None \notin Workers \cup Sources
  /\ Order \in Seq(Sources)
  /\ Enabled \subseteq Sources
  /\ SourceType \in [Sources -> FetchedTypes \cup {"unsupported"}]
  /\ Requests \subseteq Request
  /\ \A q \in Requests : q.enforce \/ Len(q.ids) <= 1
  /\ Upstream \in [Sources -> SUBSET Snapshot]
  /\ Rules \subseteq [Paths -> Profiles \cup {Skip}]
  /\ Skip \notin Profiles
  /\ MaxRuns \in Nat
  /\ MayCrash \in BOOLEAN

(* A version label holds a digest of the content, or the commit of each    *)
(* ref: of one source, it names one content.                               *)
ASSUME LabelsNameContent ==
  \A s \in Sources : \A a, b \in Upstream[s] :
    a.label = b.label => a.tree = b.tree

RunIds == 1 .. MaxRuns

VARIABLES
  db,     \* committed catalogue rows of every source
  runs,   \* committed ingestion_runs rows
  lock,   \* per source, the worker whose transaction holds the sources row
  pc,     \* where each process is in run_ingestion
  call,   \* the request each process serves, and the sources left to do
  local   \* what each process knows of the run at hand

vars == <<db, runs, lock, pc, call, local>>

-----------------------------------------------------------------------------
ActiveStatus   == {"started", "fetching", "discovering"}
TerminalStatus == {"completed", "failed"}
ErrorTypes     == {"IntegrityError", "GitCommandError",
                   "IngestionStageNotImplementedError", "OtherError"}

RunRow == [source: Sources \cup {None},
           status: {"none"} \cup ActiveStatus \cup TerminalStatus,
           version: Labels \cup {None},
           plan: IncrementalPlan,
           retired: SUBSET (Paths \X Labels),
           stage: ActiveStatus \cup {None},
           error: ErrorTypes \cup {None}]

NoRun == [source |-> None, status |-> "none", version |-> None,
          plan |-> NoPlan, retired |-> {}, stage |-> None, error |-> None]

BeforeTxn == {"started", "fetching", "discovering", "waiting"}
InTxn     == {"planning", "versioning", "artifacts", "changes", "finishing"}
Working   == BeforeTxn \cup InTxn
PCs       == {"idle", "choosing", "failed"} \cup Working

Call   == [ids: Seq(Sources), left: SUBSET Sources, matching: SUBSET Sources,
           dry: BOOLEAN, results: SUBSET RunIds]
NoCall == [ids |-> <<>>, left |-> {}, matching |-> {}, dry |-> FALSE,
           results |-> {}]

Local == [run: RunIds \cup {None}, snap: Snapshot \cup {None},
          found: Discovered, sawRow: BOOLEAN, txn: SourceRows,
          plan: IncrementalPlan, todo: SUBSET Paths,
          retired: SUBSET (Paths \X Labels), error: ErrorTypes \cup {None}]

NoLocal == [run |-> None, snap |-> None,
            found |-> [p \in Paths |-> NoEntry], sawRow |-> FALSE,
            txn |-> NoRows, plan |-> NoPlan, todo |-> {}, retired |-> {},
            error |-> None]

TypeOK ==
  /\ db \in [Sources -> SourceRows]
  /\ runs \in [RunIds -> RunRow]
  /\ lock \in [Sources -> Workers \cup {None}]
  /\ pc \in [Workers -> PCs]
  /\ call \in [Workers -> Call]
  /\ local \in [Workers -> Local]

Init ==
  /\ db = [s \in Sources |-> NoRows]
  /\ runs = [r \in RunIds |-> NoRun]
  /\ lock = [s \in Sources |-> None]
  /\ pc = [w \in Workers |-> "idle"]
  /\ call = [w \in Workers |-> NoCall]
  /\ local = [w \in Workers |-> NoLocal]

-----------------------------------------------------------------------------
RunOf(w) == runs[local[w].run]
Src(w)   == RunOf(w).source
IsGit(s) == SourceType[s] = "git_repository"

GoTo(w, to) == pc' = [pc EXCEPT ![w] = to]

(* Commit of a new status on the run row of w; the counters and other      *)
(* fields stay.                                                            *)
CommitStatus(w, status) ==
  runs' = [runs EXCEPT ![local[w].run].status = status]

(* A mutated form: the transaction ends and its lock stays.                *)
StillHeld(w) == [s \in Sources |-> lock[s]]

Released(w) == [s \in Sources |-> IF lock[s] = w THEN None ELSE lock[s]]

(* The process leaves run_ingestion. *)
Exit(w) ==
  /\ GoTo(w, "idle")
  /\ call' = [call EXCEPT ![w] = NoCall]
  /\ local' = [local EXCEPT ![w] = NoLocal]

(* A mutated form of Raise: the handler does not roll back, so its commit  *)
(* of the failure commits what the transaction had written.                *)
RaiseKeepingWrites(w, error) ==
  /\ GoTo(w, "failed")
  /\ db' = IF pc[w] \in InTxn THEN [db EXCEPT ![Src(w)] = local[w].txn] ELSE db
  /\ local' = [local EXCEPT ![w] = [NoLocal EXCEPT !.run = local[w].run,
                                                   !.error = error]]
  /\ lock' = Released(w)
  /\ UNCHANGED <<runs, call>>

(* An exception inside the try block: the handler first rolls back, which  *)
(* drops the transaction and its lock.                                     *)
Raise(w, error) ==
  /\ GoTo(w, "failed")
  /\ local' = [local EXCEPT ![w] = [NoLocal EXCEPT !.run = local[w].run,
                                                   !.error = error]]
  /\ lock' = Released(w)
  /\ UNCHANGED <<db, runs, call>>

(* The completed run joins the results; on to the next source.             *)
Report(w) ==
  /\ GoTo(w, "choosing")
  /\ call' = [call EXCEPT ![w].results = @ \cup {local[w].run}]
  /\ local' = [local EXCEPT ![w] = NoLocal]

UsedRuns == {r \in RunIds : runs[r].status # "none"}

(* _select_sources: the enabled sources, or the ones named.  A request for *)
(* an unknown source, or for a disabled one when enforced, is refused      *)
(* before anything is written and is no step.                              *)
Selected(q) == IF q.ids = <<>> THEN Enabled
               ELSE {q.ids[i] : i \in DOMAIN q.ids}

Accepted(q) == q.enforce => Selected(q) \subseteq Enabled

Invoke(w) ==
  /\ pc[w] = "idle"
  /\ UsedRuns # RunIds
  /\ \E q \in Requests :
       /\ Accepted(q)
       /\ call' = [call EXCEPT ![w] =
            [ids |-> q.ids, left |-> Selected(q), matching |-> q.matching,
             dry |-> q.dry, results |-> {}]]
  /\ GoTo(w, "choosing")
  /\ UNCHANGED <<db, runs, lock, local>>

(* The next source of the loop: the first of the list that is not done.    *)
Queue(w) == IF call[w].ids = <<>> THEN Order ELSE call[w].ids

IsNext(w, s) ==
  /\ s \in call[w].left
  /\ \E i \in DOMAIN Queue(w) :
       /\ Queue(w)[i] = s
       /\ \A j \in 1 .. (i - 1) : Queue(w)[j] \notin call[w].left

(* A mutated form: the names of the request are not deduplicated.          *)
StartRunAgain(w) ==
  /\ pc[w] = "choosing"
  /\ \E s \in Sources, r \in RunIds :
       /\ IsNext(w, s)
       /\ s \in call[w].matching
       /\ runs[r].status = "none"
       /\ \A q \in RunIds : q < r => runs[q].status # "none"
       /\ runs' = [runs EXCEPT ![r] = [NoRun EXCEPT !.source = s,
                                                    !.status = "started"]]
       /\ local' = [local EXCEPT ![w] = [NoLocal EXCEPT !.run = r]]
  /\ GoTo(w, "started")
  /\ UNCHANGED <<db, lock, call>>

(* create_started and its commit. *)
StartRun(w) ==
  /\ pc[w] = "choosing"
  /\ \E s \in Sources, r \in RunIds :
       /\ IsNext(w, s)
       /\ s \in call[w].matching
       /\ runs[r].status = "none"
       /\ \A q \in RunIds : q < r => runs[q].status # "none"
       /\ runs' = [runs EXCEPT ![r] = [NoRun EXCEPT !.source = s,
                                                    !.status = "started"]]
       /\ local' = [local EXCEPT ![w] = [NoLocal EXCEPT !.run = r]]
       /\ call' = [call EXCEPT ![w].left = @ \ {s}]
  /\ GoTo(w, "started")
  /\ UNCHANGED <<db, lock>>

(* --profile differs from the source's profile: ValueError, outside the    *)
(* try block and before this source has a run row.                         *)
RefuseProfile(w) ==
  /\ pc[w] = "choosing"
  /\ \E s \in Sources : IsNext(w, s) /\ s \notin call[w].matching
  /\ Exit(w)
  /\ UNCHANGED <<db, runs, lock>>

Return(w) ==
  /\ pc[w] = "choosing"
  /\ call[w].left = {} \/ UsedRuns = RunIds   \* the bound also ends the loop
  /\ Exit(w)
  /\ UNCHANGED <<db, runs, lock>>

CompleteDryRun(w) ==
  /\ pc[w] = "started"
  /\ call[w].dry
  /\ CommitStatus(w, "completed")
  /\ Report(w)
  /\ UNCHANGED <<db, lock>>

RejectType(w) ==
  /\ pc[w] = "started"
  /\ ~call[w].dry
  /\ SourceType[Src(w)] \notin FetchedTypes
  /\ Raise(w, "IngestionStageNotImplementedError")

BeginFetch(w) ==
  /\ pc[w] = "started"
  /\ ~call[w].dry
  /\ SourceType[Src(w)] \in FetchedTypes
  /\ CommitStatus(w, "fetching")
  /\ GoTo(w, "fetching")
  /\ UNCHANGED <<db, lock, call, local>>

(* The snapshot is read from the outside world with no database lock, then *)
(* the status discovering is committed.                                    *)
Fetch(w) ==
  /\ pc[w] = "fetching"
  /\ \E snap \in Upstream[Src(w)] :
       local' = [local EXCEPT ![w].snap = snap]
  /\ CommitStatus(w, "discovering")
  /\ GoTo(w, "discovering")
  /\ UNCHANGED <<db, lock, call>>

(* ArtifactDiscoveryService.discover *)
Kept(snap, rules) ==
  [p \in Paths |-> IF snap.tree[p] = None \/ rules[p] = Skip THEN NoEntry
                   ELSE [sum |-> snap.tree[p], profile |-> rules[p]]]

(* Discovery, and the SELECT of upsert_source, which takes no lock.        *)
Discover(w) ==
  /\ pc[w] = "discovering"
  /\ \E rules \in Rules :
       local' = [local EXCEPT ![w].found = Kept(local[w].snap, rules),
                              ![w].sawRow = db[Src(w)].exists]
  /\ GoTo(w, "waiting")
  /\ UNCHANGED <<db, runs, lock, call>>

(* A mutated form: an upsert of the source that changes nothing, and so    *)
(* updates and locks no row.                                               *)
ReadSource(w) ==
  /\ pc[w] = "waiting"
  /\ local' = [local EXCEPT ![w].txn = UpsertSource(db[Src(w)])]
  /\ GoTo(w, "planning")
  /\ UNCHANGED <<db, runs, lock, call>>

(* The INSERT or UPDATE of upsert_source waits for a transaction that      *)
(* holds the row; an INSERT fails when the other one committed the row.    *)
LockSource(w) ==
  /\ pc[w] = "waiting"
  /\ lock[Src(w)] = None
  /\ \/ /\ ~local[w].sawRow
        /\ db[Src(w)].exists
        /\ Raise(w, "IntegrityError")
     \/ /\ local[w].sawRow = db[Src(w)].exists
        /\ lock' = [lock EXCEPT ![Src(w)] = w]
        /\ local' = [local EXCEPT ![w].txn = UpsertSource(db[Src(w)])]
        /\ GoTo(w, "planning")
        /\ UNCHANGED <<db, runs, call>>

PlanRun(w) ==
  /\ pc[w] = "planning"
  /\ local' = [local EXCEPT ![w].plan = PlanFor(local[w].txn, local[w].found)]
  /\ GoTo(w, "versioning")
  /\ UNCHANGED <<db, runs, lock, call>>

RecordVersion(w) ==
  /\ pc[w] = "versioning"
  /\ \/ /\ VersionCollides(local[w].txn, local[w].snap)
        /\ Raise(w, "IntegrityError")
     \/ /\ ~VersionCollides(local[w].txn, local[w].snap)
        /\ local' = [local EXCEPT
             ![w].txn = UpsertVersion(local[w].txn, local[w].snap),
             ![w].todo = Present(local[w].found)]
        /\ GoTo(w, "artifacts")
        /\ UNCHANGED <<db, runs, lock, call>>

RecordArtifact(w) ==
  /\ pc[w] = "artifacts"
  /\ \E p \in local[w].todo :
       local' = [local EXCEPT
         ![w].txn = UpsertArtifact(local[w].txn, local[w].snap.label, p,
                                   local[w].found[p], IsGit(Src(w))),
         ![w].todo = local[w].todo \ {p}]
  /\ UNCHANGED <<db, runs, lock, pc, call>>

RetireArtifacts(w) ==
  /\ pc[w] = "artifacts"
  /\ local[w].todo = {}
  /\ LET keys == CurrentKeys(local[w].plan)
     IN  local' = [local EXCEPT
           ![w].txn = RetireAbsent(local[w].txn, keys),
           ![w].retired = StaleMembers(local[w].txn, keys)]
  /\ GoTo(w, "changes")
  /\ UNCHANGED <<db, runs, lock, call>>

RecordChanges(w) ==
  /\ pc[w] = "changes"
  /\ local' = [local EXCEPT
       ![w].txn = UpsertChanges(local[w].txn, local[w].snap)]
  /\ GoTo(w, "finishing")
  /\ UNCHANGED <<db, runs, lock, call>>

(* One commit publishes the catalogue and completes the run.               *)
Complete(w) ==
  /\ pc[w] = "finishing"
  /\ db' = [db EXCEPT ![Src(w)] = local[w].txn]
  /\ runs' = [runs EXCEPT ![local[w].run] =
       [RunOf(w) EXCEPT !.status = "completed",
                        !.version = local[w].snap.label,
                        !.plan = local[w].plan,
                        !.retired = local[w].retired]]
  /\ lock' = Released(w)
  /\ Report(w)

(* Anything else that raises inside the try block: the hook, git, the      *)
(* file system, discovery, a lost database connection.                     *)
Fail(w) ==
  /\ pc[w] \in Working
  /\ \/ Raise(w, "OtherError")
     \/ /\ pc[w] = "fetching"
        /\ IsGit(Src(w))
        /\ Raise(w, "GitCommandError")

(* A mutated form: the stage is read after the status was overwritten.     *)
RecordFailureLate(w) ==
  /\ pc[w] = "failed"
  /\ runs' = [runs EXCEPT ![local[w].run] =
       [RunOf(w) EXCEPT !.status = "failed", !.stage = "failed",
                        !.error = local[w].error]]
  /\ Exit(w)
  /\ UNCHANGED <<db, lock>>

(* The except block reads the run row again, so the stage it reports is    *)
(* the last committed status, and re-raises: the sources left are dropped. *)
RecordFailure(w) ==
  /\ pc[w] = "failed"
  /\ runs' = [runs EXCEPT ![local[w].run] =
       [RunOf(w) EXCEPT !.status = "failed",
                        !.stage = RunOf(w).status,
                        !.error = local[w].error]]
  /\ Exit(w)
  /\ UNCHANGED <<db, lock>>

(* A mutated form: a killed process leaves its transaction open.           *)
CrashHoldingLock(w) ==
  /\ MayCrash
  /\ pc[w] # "idle"
  /\ Exit(w)
  /\ UNCHANGED <<db, runs, lock>>

(* The process is killed (or cannot reach the database to record its       *)
(* failure): PostgreSQL drops the open transaction.                        *)
Crash(w) ==
  /\ MayCrash
  /\ pc[w] # "idle"
  /\ lock' = Released(w)
  /\ Exit(w)
  /\ UNCHANGED <<db, runs>>

(* Every run row of the bound is used and every process has left.          *)
Finished ==
  /\ UsedRuns = RunIds
  /\ \A w \in Workers : pc[w] = "idle"
  /\ UNCHANGED vars

-----------------------------------------------------------------------------
(* What a live process does next by itself. *)
Step(w) ==
  \/ StartRun(w) \/ RefuseProfile(w) \/ Return(w) \/ CompleteDryRun(w)
  \/ RejectType(w) \/ BeginFetch(w) \/ Fetch(w) \/ Discover(w)
  \/ LockSource(w) \/ PlanRun(w) \/ RecordVersion(w) \/ RecordArtifact(w)
  \/ RetireArtifacts(w) \/ RecordChanges(w) \/ Complete(w)
  \/ RecordFailure(w)

Next ==
  \/ \E w \in Workers : Invoke(w) \/ Step(w) \/ Fail(w) \/ Crash(w)
  \/ Finished

Spec == Init /\ [][Next]_vars

(* A process that is alive keeps executing; nothing says that operators    *)
(* invoke the command, that work fails, or that a process dies.            *)
FairSpec == Spec /\ \A w \in Workers : WF_vars(Step(w))
=============================================================================
