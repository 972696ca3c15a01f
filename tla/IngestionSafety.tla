--------------------------- MODULE IngestionSafety ---------------------------
(***************************************************************************)
(* Correctness properties of IngestionRuns.                                *)
(***************************************************************************)
EXTENDS IngestionRuns, FiniteSets

-----------------------------------------------------------------------------
(* Committed catalogue rows agree with each other whatever the runs, their *)
(* failures and their interleaving were: each artifact has at most one     *)
(* current membership, the one its row points to, with its checksum.       *)
(* (artifacts.py upsert_artifact_version, retire_artifacts_absent_...)     *)
CatalogAgrees == \A s \in Sources : RowsAgree(db[s])

(* The live artifacts of a source all belong to one source version, the    *)
(* one marked current: no mixture of two snapshots is ever committed, even *)
(* by two runs of the same source.                                         *)
OneSnapshotPerSource == \A s \in Sources : OneSnapshotRows(db[s])

-----------------------------------------------------------------------------
(* The membership rows an UPDATE tombstoned are one for each path that the *)
(* plan said would be.                                                     *)
Matches(retired, plan) ==
  /\ \A p \in Paths :
       p \in plan.tombstoned <=> \E l \in Labels : <<p, l>> \in retired
  /\ \A p \in Paths, k, l \in Labels :
       <<p, k>> \in retired /\ <<p, l>> \in retired => k = l

(* What the plan said would be tombstoned is what the retirement UPDATE    *)
(* tombstoned: the plan reads artifacts.source_version_id, the UPDATE reads *)
(* artifact_versions.is_current, and the run row reports both.             *)
PlanMatchesRetirement ==
  \A r \in RunIds :
    runs[r].status = "completed" => Matches(runs[r].retired, runs[r].plan)

CompletedRuns(s) ==
  {r \in RunIds : runs[r].source = s /\ runs[r].status = "completed"}

AddedPaths(s) ==
  {x \in CompletedRuns(s) \X Paths : x[2] \in runs[x[1]].plan.added}

TombstonedPaths(s) ==
  {x \in CompletedRuns(s) \X Paths : x[2] \in runs[x[1]].plan.tombstoned}

(* The counters of the completed runs of a source add up: what they added  *)
(* is what they tombstoned and what is live now.  A plan computed from     *)
(* rows another run changes before the commit would break the sum.         *)
CountersBalance ==
  \A s \in Sources :
    Cardinality(AddedPaths(s)) =
      Cardinality(TombstonedPaths(s)) + Cardinality(Live(db[s]))

-----------------------------------------------------------------------------
(* History is not rewritten: a membership row once committed keeps its     *)
(* checksum and never disappears, also when the same content comes back.   *)
HistoryKept ==
  [][\A s \in Sources, p \in Paths, l \in Labels :
       db[s].members[p][l].known =>
         /\ db'[s].members[p][l].known
         /\ db'[s].members[p][l].sum = db[s].members[p][l].sum]_db

(* Lineage is proved, not guessed: for a local directory the first version *)
(* seen to contain a path is set by its first publication and then fixed;  *)
(* for git it stays unknown.                                               *)
LineageIsProved ==
  [][\A s \in Sources, p \in Paths :
       LET old == db[s].artifacts[p]
           new == db'[s].artifacts[p]
       IN  /\ IsGit(s) => new.first = None /\ new.last = None
           /\ old.first # None => new.first = old.first
           /\ ~IsGit(s) /\ new.version # None =>
                new.first # None /\ new.last = new.version]_db

(* A run row moves only forward through its statuses, and a terminal row   *)
(* is never written again, by this process or by another one.              *)
StatusOrder ==
  {<<"none", "started">>, <<"started", "fetching">>,
   <<"fetching", "discovering">>, <<"discovering", "completed">>,
   <<"started", "completed">>} \cup (ActiveStatus \X {"failed"})

RunsMoveForward ==
  \A r \in RunIds :
    runs'[r] # runs[r] =>
      /\ <<runs[r].status, runs'[r].status>> \in StatusOrder
      /\ runs'[r].status = "failed" => runs'[r].stage = runs[r].status

RunLifecycle == [][RunsMoveForward]_runs

-----------------------------------------------------------------------------
(* Two processes never hold the row of one source, and a process that      *)
(* writes catalogue rows holds the row of the source of its own open run.  *)
WritersExcluded ==
  \A v, w \in Workers :
    pc[v] \in InTxn /\ pc[w] \in InTxn /\ v # w => Src(v) # Src(w)

(* Of a request q: rows are the run rows and hand the sources in hand.     *)
Accounted(q, rows, hand) ==
  LET reported == {rows[r].source : r \in q.results}
  IN  /\ \A r \in q.results : rows[r].status = "completed"
      /\ \A r, t \in q.results : rows[r].source = rows[t].source => r = t
      /\ reported \cup hand \cup q.left = Selected(q)
      /\ reported \cap hand = {} /\ reported \cap q.left = {}
      /\ hand \cap q.left = {}

InHand(w) == IF pc[w] \in Working \cup {"failed"} THEN {Src(w)} ELSE {}

(* A request is accounted for: while a process serves it, each source it   *)
(* selects is either reported by exactly one completed run, in hand, or    *)
(* still to come, and never two of these; a repeated name counts once.     *)
RequestAccounted ==
  \A w \in Workers : pc[w] # "idle" => Accounted(call[w], runs, InHand(w))

(* No run fails on a key of its own catalogue rows: the upserts of the     *)
(* repositories create the row or update it.                               *)
UpsertsNeverCollide ==
  \A r \in RunIds : runs[r].error # "IntegrityError"

-----------------------------------------------------------------------------
(* Readers see snapshots published atomically (SnapshotPublication).       *)
OfferedBy(s) ==
  {[p \in Paths |-> Kept(snap, rules)[p].sum] :
     snap \in Upstream[s], rules \in Rules}

Outcome(r) == IF runs[r].status \in ActiveStatus THEN "open"
              ELSE runs[r].status

Publication == INSTANCE SnapshotPublication WITH
  Offers  <- [s \in Sources |-> OfferedBy(s)],
  view    <- [s \in Sources |-> View(db[s])],
  owner   <- [r \in RunIds |-> runs[r].source],
  outcome <- [r \in RunIds |-> Outcome(r)]

PublishesAtomically == Publication!Spec

-----------------------------------------------------------------------------
(* The inductive invariant behind the properties above. *)

HasRun(w) == pc[w] \in Working \cup {"failed"}

(* The committed status of the run in hand, by the place of its process.   *)
StatusAt(at) ==
  CASE at = "started"  -> {"started"}
    [] at = "fetching" -> {"fetching"}
    [] at \in {"discovering", "waiting"} \cup InTxn -> {"discovering"}
    [] OTHER           -> ActiveStatus

(* A process with a run in hand is the only one to have it, and knows the  *)
(* status of its committed row.                                            *)
RunInHand ==
  \A w \in Workers :
    HasRun(w) => /\ local[w].run \in RunIds
                 /\ Src(w) \in Sources
                 /\ RunOf(w).status \in StatusAt(pc[w])

RunsApart ==
  \A v, w \in Workers :
    HasRun(v) /\ HasRun(w) /\ v # w => local[v].run # local[w].run

LockHeld ==
  \A s \in Sources, w \in Workers :
    lock[s] = w <=> pc[w] \in InTxn /\ Src(w) = s

(* What a process has done so far for a source s, by its place.            *)
VersionedAt == {"artifacts", "changes", "finishing"}
RetiredAt   == {"changes", "finishing"}

WorkAt(at, l, s) ==
  /\ at \in {"discovering", "waiting"} \cup InTxn => l.snap \in Upstream[s]
  /\ at \in {"waiting"} \cup InTxn =>
       \E rules \in Rules : l.found = Kept(l.snap, rules)
  /\ at \in InTxn => RowsAgree(l.txn)
  /\ at \in InTxn \ {"planning"} => CurrentKeys(l.plan) = Present(l.found)
  /\ at \in VersionedAt =>
       /\ l.txn.versions[l.snap.label].id # None
       /\ \A k \in Labels : l.txn.versions[k].current <=> k = l.snap.label
       /\ \A p \in Present(l.found) \ l.todo :
            /\ l.txn.artifacts[p].version = l.snap.label
            /\ l.txn.artifacts[p].sum = l.found[p].sum
       /\ l.todo \subseteq Present(l.found)
  /\ at \in RetiredAt =>
       /\ l.todo = {}
       /\ \A p \in Paths \ Present(l.found) : l.txn.artifacts[p].version = None

WorkInHand == \A w \in Workers : WorkAt(pc[w], local[w], Src(w))

(* Each process works on its own open run, on the row it locked, and its   *)
(* private rows are as far towards the snapshot as its place says; what is *)
(* committed agrees and shows one snapshot per source.                     *)
OpenRuns == TypeOK /\ RunInHand /\ RunsApart

TransactionsInOrder ==
  /\ OpenRuns
  /\ LockHeld
  /\ WorkInHand
  /\ CatalogAgrees
  /\ OneSnapshotPerSource

-----------------------------------------------------------------------------
(* What makes the counters right: the plan in hand is about the rows that  *)
(* are committed of the source until the run commits its own.              *)

PlannedAt == {"versioning", "artifacts"} \cup RetiredAt

CountedAt(at, l, rows) ==
  /\ at = "planning" =>
       \A p \in Paths : l.txn.artifacts[p].version = rows.artifacts[p].version
  /\ at \in {"versioning", "artifacts"} =>
       \A p \in Paths \ Present(l.found) :
         l.txn.artifacts[p].version = rows.artifacts[p].version
  /\ at \in PlannedAt =>
       /\ l.plan.added = Present(l.found) \ Live(rows)
       /\ l.plan.tombstoned = Live(rows) \ Present(l.found)
  /\ at \in RetiredAt => Matches(l.retired, l.plan)

PlansCurrent == \A w \in Workers : CountedAt(pc[w], local[w], db[Src(w)])

(* Only a completed run reports counts.                                    *)
RunsCounted ==
  \A r \in RunIds :
    IF runs[r].status = "completed" THEN Matches(runs[r].retired, runs[r].plan)
    ELSE runs[r].plan = NoPlan /\ runs[r].retired = {}

-----------------------------------------------------------------------------
(* What makes history and lineage right: the private rows of a transaction *)
(* continue the committed ones, a membership row says what every snapshot  *)
(* of its version says, and lineage is there exactly where it is provable. *)

ContentOfVersions(rows, s) ==
  \A p \in Paths, l \in Labels :
    rows.members[p][l].known =>
      \A snap \in Upstream[s] :
        snap.label = l => rows.members[p][l].sum = snap.tree[p]

LineageKnown(rows, git) ==
  \A p \in Paths :
    LET row == rows.artifacts[p]
    IN  /\ git => row.first = None /\ row.last = None
        /\ ~git /\ row.version # None =>
             row.first # None /\ row.last = row.version

Continues(rows, txn) ==
  \A p \in Paths :
    /\ \A l \in Labels :
         rows.members[p][l].known =>
           /\ txn.members[p][l].known
           /\ txn.members[p][l].sum = rows.members[p][l].sum
    /\ rows.artifacts[p].first # None =>
         txn.artifacts[p].first = rows.artifacts[p].first

HistoryOf(txn, s, rows) ==
  /\ ContentOfVersions(txn, s)
  /\ LineageKnown(txn, IsGit(s))
  /\ Continues(rows, txn)

HistoryInHand ==
  \A w \in Workers :
    pc[w] \in InTxn => HistoryOf(local[w].txn, Src(w), db[Src(w)])

HistoryCommitted == \A s \in Sources : HistoryOf(db[s], s, db[s])

-----------------------------------------------------------------------------
(* A process works on a run for a bounded time, also while it waits for    *)
(* the row of a source another run holds, and leaves it completed or       *)
(* failed unless it is killed.                                             *)
RunsEnd ==
  /\ \A w \in Workers, r \in RunIds :
       local[w].run = r ~> local[w].run # r
  /\ [][\A w \in Workers :
          \/ local[w].run \in {None, local'[w].run}
          \/ runs'[local[w].run].status \in TerminalStatus
          \/ Crash(w)]_vars

(* A source row never stays locked, even when processes are killed: the    *)
(* next run of the source can always get it.                               *)
LocksReleased ==
  \A s \in Sources, w \in Workers : lock[s] = w ~> lock[s] # w
=============================================================================
