--------------------------- MODULE AccountingProofs ---------------------------
(***************************************************************************)
(* What runs and requests report adds up, whatever overlaps, fails or is   *)
(* killed: the requests first, then the counters of the runs, and then the *)
(* history that their commits leave in the catalogue.                      *)
(***************************************************************************)
EXTENDS IngestionProofs, FiniteSetTheorems

-----------------------------------------------------------------------------
(* What a step of one process leaves alone.                                *)

(* w is the only process that moves, and writes no run row but its own or  *)
(* one that was free.                                                      *)
OnlyMoves(w) ==
  /\ \A v \in Workers \ {w} :
       pc'[v] = pc[v] /\ local'[v] = local[v] /\ call'[v] = call[v]
  /\ \A r \in RunIds : \/ runs'[r] = runs[r]
                       \/ (HasRun(w) /\ r = local[w].run)
                       \/ runs[r].status = "none"

LEMMA CommitStatusFrame ==
  ASSUME OpenRuns, NEW w \in Workers, HasRun(w), NEW status,
         CommitStatus(w, status)
  PROVE  /\ \A r \in RunIds \ {local[w].run} : runs'[r] = runs[r]
         /\ runs'[local[w].run].source = Src(w)
         /\ runs'[local[w].run].status = status
         /\ runs'[local[w].run].plan = RunOf(w).plan
         /\ runs'[local[w].run].retired = RunOf(w).retired
<1>1. local[w].run \in RunIds /\ RunOf(w) \in RunRow
  BY DEF OpenRuns, RunInHand, TypeOK, RunOf
<1>2. runs' = [runs EXCEPT ![local[w].run] = [RunOf(w) EXCEPT !.status = status]]
  BY DEF CommitStatus, RunOf
<1>3. /\ [RunOf(w) EXCEPT !.status = status].source = RunOf(w).source
      /\ [RunOf(w) EXCEPT !.status = status].status = status
      /\ [RunOf(w) EXCEPT !.status = status].plan = RunOf(w).plan
      /\ [RunOf(w) EXCEPT !.status = status].retired = RunOf(w).retired
  BY <1>1 DEF RunRow
<1> QED BY <1>1, <1>2, <1>3 DEF OpenRuns, TypeOK, Src

LEMMA WorkingPlaces ==
  /\ {"started", "fetching", "discovering", "waiting"} \subseteq Working
  /\ InTxn \subseteq Working
  /\ {"planning", "versioning", "artifacts", "changes", "finishing"} = InTxn
  /\ {"idle", "choosing", "failed"} \cap Working = {}
  BY DEF Working, BeforeTxn, InTxn

LEMMA StepMovesOne ==
  ASSUME OpenRuns, NEW w \in Workers, Invoke(w) \/ Step(w) \/ Fail(w) \/ Crash(w)
  PROVE  OnlyMoves(w)
<1>0. TypeOK
  BY DEF OpenRuns
<1>1. \A v \in Workers \ {w} :
        pc'[v] = pc[v] /\ local'[v] = local[v] /\ call'[v] = call[v]
  BY <1>0 DEF Step, Invoke, StartRun, RefuseProfile, Return, CompleteDryRun,
     RejectType, BeginFetch, Fetch, Discover, LockSource, PlanRun,
     RecordVersion, RecordArtifact, RetireArtifacts, RecordChanges, Complete,
     RecordFailure, Fail, Crash, Raise, Exit, Report, GoTo, TypeOK
<1>2. CASE StartRun(w)
  BY <1>0, <1>1, <1>2 DEF StartRun, OnlyMoves, TypeOK
<1>3. CASE CompleteDryRun(w) \/ BeginFetch(w) \/ Fetch(w)
  <2>1. HasRun(w) /\ \E status : CommitStatus(w, status)
    BY <1>3, WorkingPlaces DEF CompleteDryRun, BeginFetch, Fetch, HasRun
  <2> QED BY <1>1, <2>1, CommitStatusFrame DEF OnlyMoves
<1>4. CASE Complete(w) \/ RecordFailure(w)
  <2>1. HasRun(w) /\ \E row : runs' = [runs EXCEPT ![local[w].run] = row]
    BY <1>4, WorkingPlaces DEF Complete, RecordFailure, HasRun
  <2> QED BY <1>0, <1>1, <2>1 DEF OnlyMoves, TypeOK
<1>5. CASE \/ Invoke(w) \/ RefuseProfile(w) \/ Return(w) \/ RejectType(w)
           \/ Discover(w) \/ LockSource(w) \/ PlanRun(w) \/ RecordVersion(w)
           \/ RecordArtifact(w) \/ RetireArtifacts(w) \/ RecordChanges(w)
           \/ Fail(w) \/ Crash(w)
  <2>1. UNCHANGED runs
    BY <1>5 DEF Invoke, RefuseProfile, Return, RejectType, Discover,
       LockSource, PlanRun, RecordVersion, RecordArtifact, RetireArtifacts,
       RecordChanges, Fail, Crash, Raise
  <2> QED BY <1>1, <2>1 DEF OnlyMoves
<1> QED BY <1>2, <1>3, <1>4, <1>5 DEF Step

LEMMA OthersKeepTheirs ==
  ASSUME OpenRuns, NEW w \in Workers, OnlyMoves(w), NEW v \in Workers \ {w}
  PROVE  /\ HasRun(v)' <=> HasRun(v)
         /\ HasRun(v) => Src(v)' = Src(v)
<1>1. HasRun(v)' <=> HasRun(v)
  BY DEF HasRun, OnlyMoves
<1>2. ASSUME HasRun(v) PROVE Src(v)' = Src(v)
  <2>1. /\ local[v].run \in RunIds
        /\ runs[local[v].run].status \in StatusAt(pc[v])
        /\ HasRun(w) => local[v].run # local[w].run
    BY <1>2 DEF OpenRuns, RunInHand, RunsApart, RunOf
  <2>2. runs[local[v].run].status # "none"
    BY <2>1 DEF StatusAt, ActiveStatus
  <2>3. runs'[local[v].run] = runs[local[v].run]
    BY <2>1, <2>2 DEF OnlyMoves
  <2> QED BY <2>3 DEF OnlyMoves, Src, RunOf
<1> QED BY <1>1, <1>2

-----------------------------------------------------------------------------
(* Requests.                                                               *)

(* A reported run is completed, and what others write is not.              *)
LEMMA AccountKept ==
  ASSUME OpenRuns, NEW w \in Workers, OnlyMoves(w), NEW q \in Call, NEW hand,
         Accounted(q, runs, hand)
  PROVE  Accounted(q, runs', hand)
<1>1. \A r \in q.results : r \in RunIds /\ runs[r].status = "completed"
  BY DEF Accounted, Call
<1>2. HasRun(w) => runs[local[w].run].status # "completed"
  BY DEF OpenRuns, RunInHand, RunOf, StatusAt, ActiveStatus
<1>3. \A r \in q.results : runs'[r] = runs[r]
  BY <1>1, <1>2 DEF OnlyMoves
<1>4. {runs'[r].source : r \in q.results} = {runs[r].source : r \in q.results}
  BY <1>3
<1> QED BY <1>3, <1>4 DEF Accounted

LEMMA OthersAccounted ==
  ASSUME OpenRuns, NEW w \in Workers, OnlyMoves(w), NEW v \in Workers \ {w},
         pc[v] # "idle" => Accounted(call[v], runs, InHand(v))
  PROVE  pc'[v] # "idle" => Accounted(call'[v], runs', InHand(v)')
<1>1. call'[v] = call[v] /\ pc'[v] = pc[v] /\ call[v] \in Call
  BY DEF OnlyMoves, OpenRuns, TypeOK
<1>2. InHand(v)' = InHand(v)
  BY <1>1, OthersKeepTheirs DEF InHand, HasRun
<1> QED BY <1>1, <1>2, AccountKept

(* A request that only this process serves: it takes a source, ...         *)
LEMMA TakenAccounted ==
  ASSUME NEW q, NEW rows, NEW s, s \in q.left, Accounted(q, rows, {}),
         NEW new, new.results = q.results, new.left = q.left \ {s},
         new.ids = q.ids
  PROVE  Accounted(new, rows, {s})
<1>1. Selected(new) = Selected(q)
  BY DEF Selected
<1> QED BY <1>1 DEF Accounted

(* ... and reports it.                                                     *)
LEMMA ReportedAccounted ==
  ASSUME NEW q, NEW rows, NEW r, Accounted(q, rows, {rows[r].source}),
         rows[r].status = "completed", NEW new, new.left = q.left,
         new.ids = q.ids, new.results = q.results \cup {r}
  PROVE  Accounted(new, rows, {})
<1>1. Selected(new) = Selected(q)
  BY DEF Selected
<1> DEFINE before == {rows[t].source : t \in q.results}
           after  == {rows[t].source : t \in new.results}
<1>2. after = before \cup {rows[r].source}
  OBVIOUS
<1>3. rows[r].source \notin before /\ rows[r].source \notin q.left
  BY DEF Accounted
<1>4. \A t \in q.results : rows[t].source # rows[r].source
  BY <1>3
<1>5. \A t, u \in new.results : rows[t].source = rows[u].source => t = u
  BY <1>4 DEF Accounted
<1>6. before \cup {rows[r].source} \cup q.left = Selected(q)
  BY DEF Accounted
<1>7. before \cap q.left = {}
  BY DEF Accounted
<1>8. after \cup {} \cup new.left = Selected(new)
  BY <1>1, <1>2, <1>6
<1>9. after \cap {} = {} /\ after \cap new.left = {} /\ {} \cap new.left = {}
  BY <1>2, <1>3, <1>7
<1>10. \A t \in new.results : rows[t].status = "completed"
  BY DEF Accounted
<1> QED BY <1>5, <1>8, <1>9, <1>10 DEF Accounted

LEMMA StartAccounted ==
  ASSUME OpenRuns, NEW w \in Workers, StartRun(w),
         Accounted(call[w], runs, InHand(w))
  PROVE  Accounted(call'[w], runs', InHand(w)')
<1>0. TypeOK
  BY DEF OpenRuns
<1>1. PICK s \in Sources, r \in RunIds :
        /\ s \in call[w].left
        /\ runs' = [runs EXCEPT ![r] = [NoRun EXCEPT !.source = s,
                                                     !.status = "started"]]
        /\ local' = [local EXCEPT ![w] = [NoLocal EXCEPT !.run = r]]
        /\ call' = [call EXCEPT ![w].left = @ \ {s}]
  BY DEF StartRun, IsNext
<1>2. pc[w] = "choosing" /\ pc'[w] = "started"
  BY <1>0 DEF StartRun, GoTo, TypeOK
<1>3. InHand(w) = {}
  BY <1>2, WorkingPlaces DEF InHand
<1>4. InHand(w)' = {s}
  <2>1. [NoLocal EXCEPT !.run = r].run = r
    BY NoLocalTyped DEF Local
  <2>2. [NoRun EXCEPT !.source = s, !.status = "started"].source = s
    BY NoRunTyped DEF RunRow
  <2>3. runs'[r].source = s /\ local'[w].run = r
    BY <1>0, <1>1, <2>1, <2>2 DEF TypeOK
  <2> QED BY <1>2, <2>3, WorkingPlaces DEF InHand, Src, RunOf
<1>5. call[w] \in Call /\ Accounted(call[w], runs', {})
  BY <1>0, <1>3, StepMovesOne, AccountKept DEF Step, TypeOK
<1>6. /\ call'[w].results = call[w].results /\ call'[w].ids = call[w].ids
      /\ call'[w].left = call[w].left \ {s}
  BY <1>0, <1>1, <1>5 DEF TypeOK, Call
<1>7. s \in call[w].left /\ Accounted(call[w], runs', {})
  BY <1>1, <1>5
<1>8. Accounted(call'[w], runs', {s})
  BY <1>6, <1>7, TakenAccounted
<1> QED BY <1>4, <1>8

LEMMA InvokeAccounted ==
  ASSUME OpenRuns, NEW w \in Workers, Invoke(w)
  PROVE  Accounted(call'[w], runs', InHand(w)')
<1>1. PICK q \in Requests :
        call' = [call EXCEPT ![w] =
          [ids |-> q.ids, left |-> Selected(q), matching |-> q.matching,
           dry |-> q.dry, results |-> {}]]
  BY DEF Invoke
<1>2. /\ call'[w].left = Selected(q) /\ call'[w].results = {}
      /\ call'[w].ids = q.ids /\ pc'[w] = "choosing"
  BY <1>1 DEF Invoke, GoTo, OpenRuns, TypeOK
<1>3. Selected(call'[w]) = Selected(q)
  BY <1>2 DEF Selected
<1>4. InHand(w)' = {}
  BY <1>2, WorkingPlaces DEF InHand
<1> QED BY <1>2, <1>3, <1>4 DEF Accounted

LEMMA ReportAccounted ==
  ASSUME OpenRuns, NEW w \in Workers, HasRun(w), Report(w), OnlyMoves(w),
         runs'[local[w].run].source = Src(w),
         runs'[local[w].run].status = "completed",
         Accounted(call[w], runs, InHand(w))
  PROVE  Accounted(call'[w], runs', InHand(w)')
<1> DEFINE r == local[w].run
<1>1. call[w] \in Call /\ Accounted(call[w], runs', InHand(w))
  BY AccountKept DEF OpenRuns, TypeOK
<1>2. InHand(w) = {runs'[r].source}
  BY DEF InHand, HasRun
<1>3. /\ call'[w].results = call[w].results \cup {r}
      /\ call'[w].ids = call[w].ids /\ call'[w].left = call[w].left
  BY <1>1 DEF Report, OpenRuns, TypeOK, Call
<1>4. InHand(w)' = {}
  BY WorkingPlaces DEF InHand, Report, GoTo, OpenRuns, TypeOK
<1> HIDE DEF r
<1>5. runs'[r].status = "completed"
  BY DEF r
<1> QED BY <1>1, <1>2, <1>3, <1>4, <1>5, ReportedAccounted

(* Steps of the work on one run, and its failure.                          *)
LEMMA WorkAccounted ==
  ASSUME OpenRuns, NEW w \in Workers, OnlyMoves(w), HasRun(w), HasRun(w)',
         call'[w] = call[w], Src(w)' = Src(w),
         Accounted(call[w], runs, InHand(w))
  PROVE  Accounted(call'[w], runs', InHand(w)')
<1>1. InHand(w)' = InHand(w) /\ call[w] \in Call
  BY DEF InHand, HasRun, OpenRuns, TypeOK
<1> QED BY <1>1, AccountKept

LEMMA PrivateAccounted ==
  ASSUME OpenRuns, NEW w \in Workers, OnlyMoves(w), HasRun(w), HasRun(w)',
         UNCHANGED <<runs, call>>, local'[w].run = local[w].run,
         Accounted(call[w], runs, InHand(w))
  PROVE  Accounted(call'[w], runs', InHand(w)')
<1>1. Src(w)' = Src(w)
  BY DEF Src, RunOf
<1> QED BY <1>1, WorkAccounted

LEMMA RaiseAccounted ==
  ASSUME OpenRuns, NEW w \in Workers, OnlyMoves(w), pc[w] \in Working,
         NEW error \in ErrorTypes, Raise(w, error),
         Accounted(call[w], runs, InHand(w))
  PROVE  Accounted(call'[w], runs', InHand(w)')
<1>1. HasRun(w) /\ HasRun(w)'
  BY DEF HasRun, Raise, GoTo, OpenRuns, TypeOK
<1>2. local'[w].run = local[w].run
  <2> DEFINE l == [NoLocal EXCEPT !.run = local[w].run, !.error = error]
  <2>1. l.run = local[w].run
    BY NoLocalTyped DEF Local
  <2>2. local'[w] = l
    BY DEF Raise, OpenRuns, TypeOK
  <2> QED BY <2>1, <2>2
<1> QED BY <1>1, <1>2, PrivateAccounted DEF Raise

LEMMA ServedAccounted ==
  ASSUME OpenRuns, RequestAccounted, NEW w \in Workers,
         Invoke(w) \/ Step(w) \/ Fail(w) \/ Crash(w)
  PROVE  pc'[w] # "idle" => Accounted(call'[w], runs', InHand(w)')
<1>0. TypeOK /\ OnlyMoves(w)
  BY StepMovesOne DEF OpenRuns
<1>1. pc[w] # "idle" => Accounted(call[w], runs, InHand(w))
  BY DEF RequestAccounted
<1>2. CASE Exit(w)
  BY <1>0, <1>2 DEF Exit, GoTo, TypeOK
<1>3. CASE Invoke(w)
  BY <1>3, InvokeAccounted
<1>4. CASE StartRun(w)
  <2>1. pc[w] # "idle"
    BY <1>4 DEF StartRun
  <2> QED BY <1>1, <1>4, <2>1, StartAccounted
<1>5. CASE CompleteDryRun(w)
  <2>1. HasRun(w) /\ pc[w] # "idle"
    BY <1>5, WorkingPlaces DEF CompleteDryRun, HasRun
  <2>2. /\ runs'[local[w].run].source = Src(w)
        /\ runs'[local[w].run].status = "completed"
    BY <1>5, <2>1, CommitStatusFrame DEF CompleteDryRun
  <2> QED BY <1>0, <1>1, <1>5, <2>1, <2>2, ReportAccounted DEF CompleteDryRun
<1>6. CASE Complete(w)
  <2>1. HasRun(w) /\ pc[w] # "idle"
    BY <1>6, WorkingPlaces DEF Complete, HasRun
  <2>2. local[w].run \in RunIds /\ RunOf(w) \in RunRow
    BY <1>0, <2>1 DEF OpenRuns, RunInHand, TypeOK, RunOf
  <2> DEFINE row == [RunOf(w) EXCEPT !.status = "completed",
                                     !.version = local[w].snap.label,
                                     !.plan = local[w].plan,
                                     !.retired = local[w].retired]
  <2>3. row.source = Src(w) /\ row.status = "completed"
    BY <2>2 DEF RunRow, Src
  <2>4. runs'[local[w].run] = row
    BY <1>0, <1>6, <2>2 DEF Complete, TypeOK
  <2> HIDE DEF row
  <2> QED BY <1>0, <1>1, <1>6, <2>1, <2>3, <2>4, ReportAccounted DEF Complete
<1>7. CASE BeginFetch(w) \/ Fetch(w)
  <2>1. HasRun(w) /\ HasRun(w)' /\ pc[w] # "idle" /\ call'[w] = call[w]
    BY <1>0, <1>7, WorkingPlaces DEF BeginFetch, Fetch, HasRun, GoTo, TypeOK
  <2>2. local'[w].run = local[w].run
    BY <1>0, <1>7 DEF BeginFetch, Fetch, TypeOK, Local
  <2>3. runs'[local[w].run].source = Src(w)
    BY <1>7, <2>1, CommitStatusFrame DEF BeginFetch, Fetch
  <2>4. Src(w)' = Src(w)
    BY <2>2, <2>3 DEF Src, RunOf
  <2> QED BY <1>0, <1>1, <2>1, <2>4, WorkAccounted
<1>8. CASE \E error \in ErrorTypes : pc[w] \in Working /\ Raise(w, error)
  <2>1. pc[w] # "idle"
    BY <1>8, WorkingPlaces
  <2> QED BY <1>0, <1>1, <1>8, <2>1, RaiseAccounted
<1>9. CASE /\ HasRun(w) /\ pc[w] # "idle" /\ HasRun(w)'
           /\ UNCHANGED <<runs, call>> /\ local'[w].run = local[w].run
  BY <1>0, <1>1, <1>9, PrivateAccounted
<1>10. ASSUME Discover(w) \/ LockSource(w) \/ PlanRun(w) \/ RecordVersion(w)
              \/ RecordArtifact(w) \/ RetireArtifacts(w) \/ RecordChanges(w),
              ~\E error \in ErrorTypes : pc[w] \in Working /\ Raise(w, error)
       PROVE  /\ HasRun(w) /\ pc[w] # "idle" /\ HasRun(w)'
              /\ UNCHANGED <<runs, call>> /\ local'[w].run = local[w].run
  <2>1. ~Raise(w, "IntegrityError") /\ pc[w] \in Working
    BY <1>10, WorkingPlaces DEF Discover, LockSource, PlanRun, RecordVersion,
       RecordArtifact, RetireArtifacts, RecordChanges, ErrorTypes
  <2>2. /\ UNCHANGED <<runs, call>>
        /\ pc'[w] \in Working
    BY <1>0, <1>10, <2>1, WorkingPlaces DEF Discover, LockSource, PlanRun,
       RecordVersion, RecordArtifact, RetireArtifacts, RecordChanges, GoTo, TypeOK
  <2>3. local'[w].run = local[w].run
    <3>1. local \in [Workers -> Local]
      BY <1>0 DEF TypeOK
    <3>2. CASE Discover(w)
      BY <1>0, <2>1, <3>1, <3>2 DEF Discover, Local
    <3>3. CASE LockSource(w)
      BY <1>0, <2>1, <3>1, <3>3 DEF LockSource, Local
    <3>4. CASE PlanRun(w)
      BY <1>0, <2>1, <3>1, <3>4 DEF PlanRun, Local
    <3>5. CASE RecordVersion(w)
      BY <1>0, <2>1, <3>1, <3>5 DEF RecordVersion, Local
    <3>6. CASE RecordArtifact(w)
      BY <1>0, <2>1, <3>1, <3>6 DEF RecordArtifact, Local
    <3>7. CASE RetireArtifacts(w) \/ RecordChanges(w)
      BY <1>0, <2>1, <3>1, <3>7 DEF RetireArtifacts, RecordChanges, Local
    <3> QED
      BY <1>10, <3>2, <3>3, <3>4, <3>5, <3>6, <3>7
  <2> QED BY <2>1, <2>2, <2>3, WorkingPlaces DEF HasRun
<1>11. RejectType(w) \/ Fail(w) =>
         \E error \in ErrorTypes : pc[w] \in Working /\ Raise(w, error)
  BY WorkingPlaces DEF RejectType, Fail, ErrorTypes
<1>12. RefuseProfile(w) \/ Return(w) \/ RecordFailure(w) \/ Crash(w) => Exit(w)
  BY DEF RefuseProfile, Return, RecordFailure, Crash
<1> QED BY <1>2, <1>3, <1>4, <1>5, <1>6, <1>7, <1>8, <1>9, <1>10, <1>11, <1>12
        DEF Step

(* Every source a request selects is reported by one completed run, in     *)
(* hand, or still to come, for any number of processes, requests that      *)
(* repeat names, failures and kills (pipeline.py:97-123, 226-266).         *)
THEOREM RequestsAccounted == Spec => []RequestAccounted
<1>1. Init => RequestAccounted
  BY DEF Init, RequestAccounted
<1>2. TransactionsInOrder /\ RequestAccounted /\ [Next]_vars => RequestAccounted'
  <2> SUFFICES ASSUME TransactionsInOrder, RequestAccounted, [Next]_vars
               PROVE  RequestAccounted'
    OBVIOUS
  <2>1. CASE UNCHANGED vars
    BY <2>1 DEF vars, RequestAccounted, InHand, Src, RunOf
  <2>2. ASSUME NEW w \in Workers, Invoke(w) \/ Step(w) \/ Fail(w) \/ Crash(w)
        PROVE  RequestAccounted'
    <3>1. OpenRuns /\ OnlyMoves(w)
      BY <2>2, StepMovesOne DEF TransactionsInOrder
    <3>2. pc'[w] # "idle" => Accounted(call'[w], runs', InHand(w)')
      BY <2>2, <3>1, ServedAccounted
    <3> QED BY <3>1, <3>2, OthersAccounted DEF RequestAccounted
  <2> QED BY <2>1, <2>2 DEF Next, Finished
<1> QED BY <1>1, <1>2, TransactionsStayInOrder, PTL DEF Spec

-----------------------------------------------------------------------------
(* Counters: one run, place by place (CountedAt).                          *)

LEMMA NotCounting ==
  ASSUME NEW at, NEW l, NEW rows, at \notin InTxn
  PROVE  CountedAt(at, l, rows)
  BY DEF CountedAt, PlannedAt, RetiredAt, InTxn

LEMMA CountedLocked ==
  ASSUME NEW l \in Local, NEW rows \in SourceRows
  PROVE  CountedAt("planning", [l EXCEPT !.txn = UpsertSource(rows)], rows)
<1> DEFINE txn == UpsertSource(rows)
           new == [l EXCEPT !.txn = txn]
<1>1. txn.artifacts = rows.artifacts
  BY UpsertSourceWrites
<1> HIDE DEF txn
<1>2. new.txn = txn
  BY DEF Local
<1> HIDE DEF new
<1>3. CountedAt("planning", new, rows)
  BY <1>1, <1>2 DEF CountedAt, PlannedAt, RetiredAt
<1> QED BY <1>3 DEF new, txn

(* The plan is computed from the committed rows of the source.             *)
LEMMA CountedPlanned ==
  ASSUME NEW l \in Local, NEW rows \in SourceRows, CountedAt("planning", l, rows)
  PROVE  CountedAt("versioning", [l EXCEPT !.plan = PlanFor(l.txn, l.found)], rows)
<1> DEFINE plan == PlanFor(l.txn, l.found)
           new  == [l EXCEPT !.plan = plan]
<1>1. \A p \in Paths : l.txn.artifacts[p].version = rows.artifacts[p].version
  BY DEF CountedAt
<1>2. Live(l.txn) = Live(rows)
  BY <1>1 DEF Live
<1>3. plan.tombstoned = Live(rows) \ Present(l.found)
  BY <1>2, PlanCovers DEF Local
<1>4. plan.added = Present(l.found) \ Live(rows)
  <2>1. plan.added = Decided(l.txn, l.found, "added")
    BY DEF PlanFor
  <2>2. \A p \in Paths :
          Decision(l.txn.artifacts[p], l.found[p]) = "added" <=> p \notin Live(rows)
    BY <1>1 DEF Decision, Live
  <2> QED BY <2>1, <2>2 DEF Decided, Present
<1> HIDE DEF plan
<1>5. new.txn = l.txn /\ new.found = l.found /\ new.plan = plan
  BY DEF Local
<1> HIDE DEF new
<1>6. CountedAt("versioning", new, rows)
  BY <1>1, <1>3, <1>4, <1>5 DEF CountedAt, PlannedAt, RetiredAt
<1> QED BY <1>6 DEF new, plan

(* A private record that differs in txn and todo only.                     *)
LEMMA CountedOn ==
  ASSUME NEW l, NEW new, NEW rows, NEW at \in {"versioning", "artifacts"},
         CountedAt(at, l, rows), new.found = l.found, new.plan = l.plan,
         \A p \in Paths \ Present(l.found) :
           new.txn.artifacts[p] = l.txn.artifacts[p]
  PROVE  CountedAt("artifacts", new, rows)
  BY DEF CountedAt, PlannedAt, RetiredAt

LEMMA CountedVersioned ==
  ASSUME NEW l \in Local, NEW rows, l.snap \in Snapshot,
         CountedAt("versioning", l, rows)
  PROVE  CountedAt("artifacts",
                   [l EXCEPT !.txn = UpsertVersion(l.txn, l.snap),
                             !.todo = Present(l.found)], rows)
<1> DEFINE txn  == UpsertVersion(l.txn, l.snap)
           todo == Present(l.found)
           new  == [l EXCEPT !.txn = txn, !.todo = todo]
<1>1. txn.artifacts = l.txn.artifacts
  BY UpsertVersionWrites DEF Local
<1> HIDE DEF txn, todo
<1>2. new.found = l.found /\ new.plan = l.plan /\ new.txn = txn
  BY DEF Local
<1> HIDE DEF new
<1>3. CountedAt("artifacts", new, rows)
  BY <1>1, <1>2, CountedOn
<1> QED BY <1>3 DEF new, txn, todo

LEMMA CountedRecorded ==
  ASSUME NEW l \in Local, NEW rows, NEW p \in l.todo, NEW git \in BOOLEAN,
         l.snap \in Snapshot, l.todo \subseteq Present(l.found),
         CountedAt("artifacts", l, rows)
  PROVE  CountedAt("artifacts",
                   [l EXCEPT !.txn = UpsertArtifact(l.txn, l.snap.label, p,
                                                    l.found[p], git),
                             !.todo = l.todo \ {p}], rows)
<1> DEFINE txn  == UpsertArtifact(l.txn, l.snap.label, p, l.found[p], git)
           todo == l.todo \ {p}
           new  == [l EXCEPT !.txn = txn, !.todo = todo]
<1>1. /\ l.txn \in SourceRows
      /\ l.snap.label \in Labels
      /\ p \in Paths
      /\ l.found[p] \in Entry
  BY DEF Local, Snapshot, Discovered
<1>2. \A q \in Paths \ {p} : txn.artifacts[q] = l.txn.artifacts[q]
  BY <1>1, UpsertArtifactWrites
<1> HIDE DEF txn, todo
<1>3. new.found = l.found /\ new.plan = l.plan /\ new.txn = txn
  BY DEF Local
<1> HIDE DEF new
<1>4. CountedAt("artifacts", new, rows)
  BY <1>2, <1>3, CountedOn
<1> QED BY <1>4 DEF new, txn, todo

(* The UPDATE goes by the flags of memberships, the plan went by the       *)
(* pointers of artifacts: rows that agree make them the same.              *)
LEMMA CountedRetired ==
  ASSUME NEW l \in Local, NEW rows, NEW s, WorkAt("artifacts", l, s),
         CountedAt("artifacts", l, rows), NEW txn
  PROVE  CountedAt("changes",
                   [l EXCEPT !.txn = txn,
                      !.retired = StaleMembers(l.txn, CurrentKeys(l.plan))], rows)
<1> DEFINE retired == StaleMembers(l.txn, CurrentKeys(l.plan))
           new     == [l EXCEPT !.txn = txn, !.retired = retired]
<1>1. /\ PointerMatchesFlag(l.txn)
      /\ CurrentKeys(l.plan) = Present(l.found)
  BY DEF WorkAt, InTxn, RowsAgree
<1>2. /\ l.plan.added = Present(l.found) \ Live(rows)
      /\ l.plan.tombstoned = Live(rows) \ Present(l.found)
      /\ \A p \in Paths \ Present(l.found) :
           l.txn.artifacts[p].version = rows.artifacts[p].version
  BY DEF CountedAt, PlannedAt
<1>3. \A p \in Paths, k \in Labels :
        <<p, k>> \in retired <=>
          p \notin Present(l.found) /\ rows.artifacts[p].version = k
  BY <1>1, <1>2 DEF StaleMembers, PointerMatchesFlag
<1>4. \A p \in Paths \ Present(l.found) :
        rows.artifacts[p].version \in Labels \cup {None}
  BY <1>2 DEF Local, SourceRows, ArtifactRow
<1>5. Matches(retired, l.plan)
  <2> HIDE DEF retired
  <2>1. \A p \in Paths : p \in l.plan.tombstoned
                         <=> \E k \in Labels : <<p, k>> \in retired
    <3> SUFFICES ASSUME NEW p \in Paths
                 PROVE  p \in l.plan.tombstoned <=> \E k \in Labels : <<p, k>> \in retired
      OBVIOUS
    <3>1. p \in l.plan.tombstoned
            <=> p \notin Present(l.found) /\ rows.artifacts[p].version # None
      BY <1>2 DEF Live
    <3>2. (\E k \in Labels : <<p, k>> \in retired)
            <=> p \notin Present(l.found) /\ rows.artifacts[p].version \in Labels
      BY <1>3
    <3>3. p \notin Present(l.found) =>
            (rows.artifacts[p].version # None <=> rows.artifacts[p].version \in Labels)
      BY <1>4, NoneIsFresh
    <3> QED
      BY <3>1, <3>2, <3>3
  <2>2. \A p \in Paths, j, k \in Labels :
          <<p, j>> \in retired /\ <<p, k>> \in retired => j = k
    BY <1>3
  <2> QED BY <2>1, <2>2 DEF Matches
<1> HIDE DEF retired
<1>6. new.found = l.found /\ new.plan = l.plan /\ new.retired = retired
  BY DEF Local
<1> HIDE DEF new
<1>7. CountedAt("changes", new, rows)
  BY <1>2, <1>5, <1>6 DEF CountedAt, PlannedAt, RetiredAt
<1> QED BY <1>7 DEF new, retired

LEMMA CountedChanged ==
  ASSUME NEW l \in Local, NEW rows, NEW txn, CountedAt("changes", l, rows)
  PROVE  CountedAt("finishing", [l EXCEPT !.txn = txn], rows)
<1> DEFINE new == [l EXCEPT !.txn = txn]
<1>1. new.found = l.found /\ new.plan = l.plan /\ new.retired = l.retired
  BY DEF Local
<1> HIDE DEF new
<1>2. CountedAt("finishing", new, rows)
  BY <1>1 DEF CountedAt, PlannedAt, RetiredAt
<1> QED BY <1>2 DEF new

-----------------------------------------------------------------------------
(* Counters: one step of one process.                                      *)

(* No other transaction of the source is open, so none commits under it.   *)
LEMMA OthersCounted ==
  ASSUME TransactionsInOrder, PlansCurrent, NEW w \in Workers, OnlyMoves(w),
         \A s \in Sources : db'[s] = db[s] \/ (pc[w] \in InTxn /\ s = Src(w)),
         CountedAt(pc'[w], local'[w], db'[Src(w)'])
  PROVE  PlansCurrent'
<1> SUFFICES ASSUME NEW v \in Workers \ {w}
             PROVE  CountedAt(pc'[v], local'[v], db'[Src(v)'])
  BY DEF PlansCurrent
<1>1. pc'[v] = pc[v] /\ local'[v] = local[v]
  BY DEF OnlyMoves
<1>2. CASE pc[v] \notin InTxn
  BY <1>1, <1>2, NotCounting
<1>3. CASE pc[v] \in InTxn
  <2>1. HasRun(v) /\ Src(v) \in Sources
    BY <1>3, InTransaction
  <2>2. Src(v)' = Src(v)
    BY <2>1, OthersKeepTheirs DEF TransactionsInOrder
  <2>3. ~(pc[w] \in InTxn /\ Src(v) = Src(w))
    BY <1>3, <2>1 DEF TransactionsInOrder, LockHeld
  <2>4. db'[Src(v)] = db[Src(v)]
    BY <2>1, <2>3
  <2> QED BY <1>1, <2>2, <2>4 DEF PlansCurrent
<1> QED BY <1>2, <1>3

LEMMA StaysCounted ==
  ASSUME TransactionsInOrder, NEW w \in Workers, NEW l,
         local' = [local EXCEPT ![w] = l], l.run = local[w].run,
         UNCHANGED <<db, runs>>
  PROVE  local'[w] = l /\ Src(w)' = Src(w) /\ db'[Src(w)'] = db[Src(w)]
<1>1. local'[w] = l
  BY DEF TransactionsInOrder, OpenRuns, TypeOK
<1> QED BY <1>1 DEF Src, RunOf

(* Steps that end outside the transaction.                                 *)
LEMMA OutsideCounted ==
  ASSUME TransactionsInOrder, NEW w \in Workers,
         \/ Invoke(w) \/ StartRun(w) \/ RefuseProfile(w) \/ Return(w)
         \/ CompleteDryRun(w) \/ RejectType(w) \/ BeginFetch(w) \/ Fetch(w)
         \/ Discover(w) \/ Complete(w) \/ RecordFailure(w) \/ Fail(w) \/ Crash(w)
         \/ \E error : Raise(w, error)
  PROVE  pc'[w] \notin InTxn
  BY DEF TransactionsInOrder, OpenRuns, TypeOK, Invoke, StartRun, RefuseProfile,
     Return, CompleteDryRun, RejectType, BeginFetch, Fetch, Discover, Complete,
     RecordFailure, Fail, Crash, Raise, Exit, Report, GoTo, InTxn

LEMMA LockCounted ==
  ASSUME TransactionsInOrder, NEW w \in Workers, LockSource(w)
  PROVE  CountedAt(pc'[w], local'[w], db'[Src(w)'])
<1>0. TypeOK
  BY DEF TransactionsInOrder, OpenRuns
<1>1. Src(w) \in Sources /\ local[w] \in Local /\ db[Src(w)] \in SourceRows
  BY <1>0, InTransaction DEF LockSource, TypeOK
<1>2. CASE Raise(w, "IntegrityError")
  BY <1>2, OutsideCounted, NotCounting
<1>3. CASE /\ local' = [local EXCEPT ![w].txn = UpsertSource(db[Src(w)])]
           /\ GoTo(w, "planning")
           /\ UNCHANGED <<db, runs, call>>
  <2> DEFINE txn == UpsertSource(db[Src(w)])
             l   == [local[w] EXCEPT !.txn = txn]
  <2>1. local' = [local EXCEPT ![w] = l] /\ pc'[w] = "planning"
    BY <1>0, <1>3 DEF GoTo, TypeOK
  <2>2. l.run = local[w].run
    <3> HIDE DEF txn
    <3> QED BY <1>1 DEF Local
  <2>3. CountedAt("planning", l, db[Src(w)])
    BY <1>1, CountedLocked
  <2> HIDE DEF l
  <2> QED BY <1>3, <2>1, <2>2, <2>3, StaysCounted
<1> QED BY <1>2, <1>3 DEF LockSource

LEMMA PlanCounted ==
  ASSUME TransactionsInOrder, PlansCurrent, NEW w \in Workers, PlanRun(w)
  PROVE  CountedAt(pc'[w], local'[w], db'[Src(w)'])
<1> DEFINE plan == PlanFor(local[w].txn, local[w].found)
           l    == [local[w] EXCEPT !.plan = plan]
<1>1. /\ pc[w] = "planning" /\ pc'[w] = "versioning"
      /\ local' = [local EXCEPT ![w] = l] /\ UNCHANGED <<db, runs>>
  BY DEF PlanRun, GoTo, TransactionsInOrder, OpenRuns, TypeOK
<1>2. local[w] \in Local /\ Src(w) \in Sources /\ db[Src(w)] \in SourceRows
  BY <1>1, WorkingPlaces, InTransaction DEF TransactionsInOrder, OpenRuns, TypeOK
<1>3. CountedAt("planning", local[w], db[Src(w)])
  BY <1>1 DEF PlansCurrent
<1>4. CountedAt("versioning", l, db[Src(w)])
  BY <1>2, <1>3, CountedPlanned
<1>5. l.run = local[w].run
  <2> HIDE DEF plan
  <2> QED BY <1>2 DEF Local
<1> HIDE DEF l
<1> QED BY <1>1, <1>4, <1>5, StaysCounted

LEMMA VersionCounted ==
  ASSUME TransactionsInOrder, PlansCurrent, NEW w \in Workers, RecordVersion(w)
  PROVE  CountedAt(pc'[w], local'[w], db'[Src(w)'])
<1>1. CASE Raise(w, "IntegrityError")
  BY <1>1, OutsideCounted, NotCounting
<1>2. CASE /\ local' = [local EXCEPT
                ![w].txn = UpsertVersion(local[w].txn, local[w].snap),
                ![w].todo = Present(local[w].found)]
           /\ GoTo(w, "artifacts")
           /\ UNCHANGED <<db, runs, lock, call>>
  <2> DEFINE txn  == UpsertVersion(local[w].txn, local[w].snap)
             todo == Present(local[w].found)
             l    == [local[w] EXCEPT !.txn = txn, !.todo = todo]
  <2>1. /\ pc[w] = "versioning" /\ pc'[w] = "artifacts"
        /\ local' = [local EXCEPT ![w] = l]
    BY <1>2 DEF RecordVersion, GoTo, TransactionsInOrder, OpenRuns, TypeOK
  <2>2. local[w] \in Local /\ local[w].snap \in Snapshot
    BY <2>1, WorkingPlaces, InTransaction
  <2>3. CountedAt("versioning", local[w], db[Src(w)])
    BY <2>1 DEF PlansCurrent
  <2>4. CountedAt("artifacts", l, db[Src(w)])
    BY <2>2, <2>3, CountedVersioned
  <2>5. l.run = local[w].run
    <3> HIDE DEF txn, todo
    <3> QED BY <2>2 DEF Local
  <2> HIDE DEF l
  <2> QED BY <1>2, <2>1, <2>4, <2>5, StaysCounted
<1> QED BY <1>1, <1>2 DEF RecordVersion

LEMMA ArtifactCounted ==
  ASSUME TransactionsInOrder, PlansCurrent, NEW w \in Workers, RecordArtifact(w)
  PROVE  CountedAt(pc'[w], local'[w], db'[Src(w)'])
<1>1. PICK p \in local[w].todo :
        local' = [local EXCEPT
          ![w].txn = UpsertArtifact(local[w].txn, local[w].snap.label, p,
                                    local[w].found[p], IsGit(Src(w))),
          ![w].todo = local[w].todo \ {p}]
  BY DEF RecordArtifact
<1> DEFINE git  == IsGit(Src(w))
           txn  == UpsertArtifact(local[w].txn, local[w].snap.label, p,
                                  local[w].found[p], git)
           todo == local[w].todo \ {p}
           l    == [local[w] EXCEPT !.txn = txn, !.todo = todo]
<1>2. /\ pc[w] = "artifacts" /\ pc'[w] = "artifacts"
      /\ local' = [local EXCEPT ![w] = l] /\ UNCHANGED <<db, runs>>
  BY <1>1 DEF RecordArtifact
<1>3. /\ local[w] \in Local /\ local[w].snap \in Snapshot
      /\ local[w].todo \subseteq Present(local[w].found)
  <2>1. WorkAt("artifacts", local[w], Src(w))
    BY <1>2, WorkingPlaces, InTransaction
  <2> QED BY <1>2, <2>1, WorkingPlaces, InTransaction DEF WorkAt, VersionedAt
<1>4. CountedAt("artifacts", local[w], db[Src(w)])
  BY <1>2 DEF PlansCurrent
<1>5. git \in BOOLEAN
  BY DEF IsGit
<1> HIDE DEF git
<1>6. CountedAt("artifacts", l, db[Src(w)])
  BY <1>3, <1>4, <1>5, CountedRecorded
<1>7. l.run = local[w].run
  <2> HIDE DEF txn, todo
  <2> QED BY <1>3 DEF Local
<1> HIDE DEF l
<1> QED BY <1>2, <1>6, <1>7, StaysCounted

LEMMA RetireCounted ==
  ASSUME TransactionsInOrder, PlansCurrent, NEW w \in Workers, RetireArtifacts(w)
  PROVE  CountedAt(pc'[w], local'[w], db'[Src(w)'])
<1> DEFINE txn     == RetireAbsent(local[w].txn, CurrentKeys(local[w].plan))
           retired == StaleMembers(local[w].txn, CurrentKeys(local[w].plan))
           l       == [local[w] EXCEPT !.txn = txn, !.retired = retired]
<1>1. /\ pc[w] = "artifacts" /\ pc'[w] = "changes"
      /\ local' = [local EXCEPT ![w] = l] /\ UNCHANGED <<db, runs>>
  BY DEF RetireArtifacts, GoTo, TransactionsInOrder, OpenRuns, TypeOK
<1>2. local[w] \in Local /\ WorkAt("artifacts", local[w], Src(w))
  BY <1>1, WorkingPlaces, InTransaction
<1>3. CountedAt("artifacts", local[w], db[Src(w)])
  BY <1>1 DEF PlansCurrent
<1> HIDE DEF txn
<1>4. CountedAt("changes", l, db[Src(w)])
  BY <1>2, <1>3, CountedRetired
<1>5. l.run = local[w].run
  <2> HIDE DEF retired
  <2> QED BY <1>2 DEF Local
<1> HIDE DEF l
<1> QED BY <1>1, <1>4, <1>5, StaysCounted

LEMMA ChangesCounted ==
  ASSUME TransactionsInOrder, PlansCurrent, NEW w \in Workers, RecordChanges(w)
  PROVE  CountedAt(pc'[w], local'[w], db'[Src(w)'])
<1> DEFINE txn == UpsertChanges(local[w].txn, local[w].snap)
           l   == [local[w] EXCEPT !.txn = txn]
<1>1. /\ pc[w] = "changes" /\ pc'[w] = "finishing"
      /\ local' = [local EXCEPT ![w] = l] /\ UNCHANGED <<db, runs>>
  BY DEF RecordChanges, GoTo, TransactionsInOrder, OpenRuns, TypeOK
<1>2. local[w] \in Local
  BY DEF TransactionsInOrder, OpenRuns, TypeOK
<1>3. CountedAt("changes", local[w], db[Src(w)])
  BY <1>1 DEF PlansCurrent
<1> HIDE DEF txn
<1>4. CountedAt("finishing", l, db[Src(w)])
  BY <1>2, <1>3, CountedChanged
<1>5. l.run = local[w].run
  BY <1>2 DEF Local
<1> HIDE DEF l
<1> QED BY <1>1, <1>4, <1>5, StaysCounted

LEMMA PlansCurrentStep ==
  ASSUME TransactionsInOrder, PlansCurrent, NEW w \in Workers,
         Invoke(w) \/ Step(w) \/ Fail(w) \/ Crash(w)
  PROVE  PlansCurrent'
<1>1. OnlyMoves(w)
  BY StepMovesOne DEF TransactionsInOrder
<1>2. CountedAt(pc'[w], local'[w], db'[Src(w)'])
  BY OutsideCounted, NotCounting, LockCounted, PlanCounted, VersionCounted,
     ArtifactCounted, RetireCounted, ChangesCounted DEF Step
<1>3. \A s \in Sources : db'[s] = db[s] \/ (pc[w] \in InTxn /\ s = Src(w))
  <2>1. CASE Complete(w)
    <3>1. db' = [db EXCEPT ![Src(w)] = local[w].txn] /\ pc[w] \in InTxn
      BY <2>1 DEF Complete, InTxn
    <3> QED BY <3>1 DEF TransactionsInOrder, OpenRuns, TypeOK
  <2>2. CASE ~Complete(w)
    <3>1. UNCHANGED db
      BY <2>2 DEF Step, Invoke, StartRun, RefuseProfile, Return, CompleteDryRun,
         RejectType, BeginFetch, Fetch, Discover, LockSource, PlanRun,
         RecordVersion, RecordArtifact, RetireArtifacts, RecordChanges,
         RecordFailure, Fail, Crash, Raise
    <3> QED BY <3>1
  <2> QED BY <2>1, <2>2
<1> QED BY <1>1, <1>2, <1>3, OthersCounted

-----------------------------------------------------------------------------
(* Counters: the run rows.                                                 *)

LEMMA NothingMatches == Matches({}, NoPlan)
  BY DEF Matches, NoPlan

(* A step writes no count, or is the completion of a run.                  *)
LEMMA CountsWritten ==
  ASSUME TransactionsInOrder, RunsCounted, NEW w \in Workers,
         Invoke(w) \/ Step(w) \/ Fail(w) \/ Crash(w), ~Complete(w)
  PROVE  \A r \in RunIds :
           \/ runs'[r] = runs[r]
           \/ /\ runs[r].status # "completed"
              /\ runs'[r].plan = NoPlan /\ runs'[r].retired = {}
<1>0. OpenRuns /\ TypeOK
  BY DEF TransactionsInOrder, OpenRuns
<1>1. CASE StartRun(w)
  <2>1. PICK s \in Sources, r \in RunIds :
          /\ runs[r].status = "none"
          /\ runs' = [runs EXCEPT ![r] = [NoRun EXCEPT !.source = s,
                                                       !.status = "started"]]
    BY <1>1 DEF StartRun
  <2> DEFINE row == [NoRun EXCEPT !.source = s, !.status = "started"]
  <2>2. row.plan = NoPlan /\ row.retired = {}
    BY DEF NoRun
  <2> HIDE DEF row
  <2>3. runs'[r] = row /\ \A q \in RunIds \ {r} : runs'[q] = runs[q]
    BY <1>0, <2>1 DEF TypeOK, row
  <2> QED BY <2>1, <2>2, <2>3
<1>2. ASSUME HasRun(w)
      PROVE  /\ local[w].run \in RunIds
             /\ RunOf(w) \in RunRow
             /\ RunOf(w).status # "completed"
             /\ RunOf(w).plan = NoPlan /\ RunOf(w).retired = {}
  <2>1. local[w].run \in RunIds /\ RunOf(w).status # "completed"
    BY <1>0, <1>2 DEF OpenRuns, RunInHand, StatusAt, ActiveStatus
  <2> QED BY <1>0, <2>1 DEF RunsCounted, RunOf, TypeOK
<1>3. CASE CompleteDryRun(w) \/ BeginFetch(w) \/ Fetch(w)
  <2>1. HasRun(w) /\ \E status : CommitStatus(w, status)
    BY <1>3, WorkingPlaces DEF CompleteDryRun, BeginFetch, Fetch, HasRun
  <2> QED BY <1>0, <1>2, <2>1, CommitStatusFrame DEF RunOf
<1>4. CASE RecordFailure(w)
  <2> DEFINE row == [RunOf(w) EXCEPT !.status = "failed",
                                     !.stage = RunOf(w).status,
                                     !.error = local[w].error]
  <2>1. HasRun(w) /\ runs' = [runs EXCEPT ![local[w].run] = row]
    BY <1>4 DEF RecordFailure, HasRun
  <2>2. row.plan = RunOf(w).plan /\ row.retired = RunOf(w).retired
    BY <1>2, <2>1 DEF RunRow
  <2> HIDE DEF row
  <2> QED BY <1>0, <1>2, <2>1, <2>2 DEF TypeOK, RunOf
<1>5. CASE \/ Invoke(w) \/ RefuseProfile(w) \/ Return(w) \/ RejectType(w)
           \/ Discover(w) \/ LockSource(w) \/ PlanRun(w) \/ RecordVersion(w)
           \/ RecordArtifact(w) \/ RetireArtifacts(w) \/ RecordChanges(w)
           \/ Fail(w) \/ Crash(w)
  BY <1>5 DEF Invoke, RefuseProfile, Return, RejectType, Discover,
     LockSource, PlanRun, RecordVersion, RecordArtifact, RetireArtifacts,
     RecordChanges, Fail, Crash, Raise
<1> QED BY <1>1, <1>3, <1>4, <1>5 DEF Step

(* What the completion of a run writes.                                    *)
LEMMA CompletionWrites ==
  ASSUME TransactionsInOrder, PlansCurrent, NEW w \in Workers, Complete(w)
  PROVE  LET s == Src(w)
             r == local[w].run
         IN  /\ r \in RunIds /\ s \in Sources
             /\ runs[r].status # "completed"
             /\ \A q \in RunIds \ {r} : runs'[q] = runs[q]
             /\ runs'[r].source = s /\ runs'[r].status = "completed"
             /\ Matches(runs'[r].retired, runs'[r].plan)
             /\ \A t \in Sources \ {s} : db'[t] = db[t]
             /\ runs'[r].plan.added = Live(db'[s]) \ Live(db[s])
             /\ runs'[r].plan.tombstoned = Live(db[s]) \ Live(db'[s])
<1>0. TypeOK /\ OpenRuns
  BY DEF TransactionsInOrder, OpenRuns
<1>1. pc[w] = "finishing" /\ pc[w] \in InTxn
  BY DEF Complete, InTxn
<1>2. /\ HasRun(w) /\ Src(w) \in Sources
      /\ local[w] \in Local /\ local[w].snap \in Snapshot
      /\ WorkAt("finishing", local[w], Src(w))
  BY <1>1, InTransaction
<1>3. /\ local[w].run \in RunIds /\ RunOf(w) \in RunRow
      /\ RunOf(w).status # "completed"
  BY <1>0, <1>2 DEF OpenRuns, RunInHand, RunOf, TypeOK, StatusAt, ActiveStatus
<1> DEFINE row == [RunOf(w) EXCEPT !.status = "completed",
                                   !.version = local[w].snap.label,
                                   !.plan = local[w].plan,
                                   !.retired = local[w].retired]
<1>4. /\ row.source = Src(w) /\ row.status = "completed"
      /\ row.plan = local[w].plan /\ row.retired = local[w].retired
  BY <1>3 DEF RunRow, Src
<1>5. /\ runs' = [runs EXCEPT ![local[w].run] = row]
      /\ db' = [db EXCEPT ![Src(w)] = local[w].txn]
  BY DEF Complete
<1> HIDE DEF row
<1>6. /\ runs'[local[w].run] = row
      /\ \A q \in RunIds \ {local[w].run} : runs'[q] = runs[q]
      /\ db'[Src(w)] = local[w].txn
      /\ \A t \in Sources \ {Src(w)} : db'[t] = db[t]
  BY <1>0, <1>2, <1>3, <1>5 DEF TypeOK
<1>7. Live(local[w].txn) = Present(local[w].found)
  <2>1. /\ local[w].snap.label \in Labels
        /\ \A p \in Present(local[w].found) :
             local[w].txn.artifacts[p].version = local[w].snap.label
        /\ \A p \in Paths \ Present(local[w].found) :
             local[w].txn.artifacts[p].version = None
    BY <1>2 DEF WorkAt, VersionedAt, RetiredAt, Snapshot
  <2> QED BY <2>1, NoneIsFresh DEF Live, Present
<1>8. /\ local[w].plan.added = Present(local[w].found) \ Live(db[Src(w)])
      /\ local[w].plan.tombstoned = Live(db[Src(w)]) \ Present(local[w].found)
      /\ Matches(local[w].retired, local[w].plan)
  <2>1. CountedAt("finishing", local[w], db[Src(w)])
    BY <1>1 DEF PlansCurrent
  <2> QED BY <2>1 DEF CountedAt, PlannedAt, RetiredAt
<1> QED BY <1>2, <1>3, <1>4, <1>6, <1>7, <1>8 DEF RunOf

LEMMA RunsCountedStep ==
  ASSUME TransactionsInOrder, PlansCurrent, RunsCounted, NEW w \in Workers,
         Invoke(w) \/ Step(w) \/ Fail(w) \/ Crash(w)
  PROVE  RunsCounted'
<1>1. CASE Complete(w)
  BY <1>1, CompletionWrites DEF RunsCounted
<1>2. CASE ~Complete(w)
  BY <1>2, CountsWritten, NothingMatches DEF RunsCounted
<1> QED BY <1>1, <1>2

(* The plan in hand is about the rows that are committed, and only         *)
(* completed runs carry counts.                                            *)
LEMMA CountsStayCurrent == Spec => [](PlansCurrent /\ RunsCounted)
<1>1. Init => PlansCurrent /\ RunsCounted
  <2> SUFFICES ASSUME Init PROVE PlansCurrent /\ RunsCounted
    OBVIOUS
  <2>1. PlansCurrent
    BY NotCounting, WorkingPlaces DEF Init, PlansCurrent, InTxn
  <2>2. NoRun.status # "completed" /\ NoRun.plan = NoPlan /\ NoRun.retired = {}
    BY DEF NoRun
  <2> QED BY <2>1, <2>2 DEF Init, RunsCounted
<1>2. TransactionsInOrder /\ PlansCurrent /\ RunsCounted /\ [Next]_vars
        => (PlansCurrent /\ RunsCounted)'
  <2> SUFFICES ASSUME TransactionsInOrder, PlansCurrent, RunsCounted, [Next]_vars
               PROVE  PlansCurrent' /\ RunsCounted'
    OBVIOUS
  <2>1. CASE UNCHANGED vars
    BY <2>1 DEF vars, PlansCurrent, RunsCounted, Src, RunOf
  <2>2. ASSUME NEW w \in Workers, Invoke(w) \/ Step(w) \/ Fail(w) \/ Crash(w)
        PROVE  PlansCurrent' /\ RunsCounted'
    BY <2>2, PlansCurrentStep, RunsCountedStep
  <2> QED BY <2>1, <2>2 DEF Next, Finished
<1> QED BY <1>1, <1>2, TransactionsStayInOrder, PTL DEF Spec

(* A completed run reports as tombstoned exactly the paths whose membership *)
(* its UPDATE tombstoned, one row each, whatever other runs of the source  *)
(* did meanwhile (incremental.py:33, artifacts.py retire_artifacts_absent). *)
THEOREM PlansMatchRetirement == Spec => []PlanMatchesRetirement
<1>1. RunsCounted => PlanMatchesRetirement
  BY DEF RunsCounted, PlanMatchesRetirement
<1> QED BY <1>1, CountsStayCurrent, PTL

-----------------------------------------------------------------------------
(* Counters: the sums. *)

LEMMA CountedFinite ==
  ASSUME IsFiniteSet(Paths), NEW s
  PROVE  /\ IsFiniteSet(AddedPaths(s)) /\ IsFiniteSet(TombstonedPaths(s))
         /\ IsFiniteSet(Live(db[s]))
<1>1. IsFiniteSet(RunIds)
  BY RunsAssumption, FS_Interval DEF RunIds
<1>2. IsFiniteSet(RunIds \X Paths)
  BY <1>1, FS_Product
<1>3. /\ AddedPaths(s) \in SUBSET (RunIds \X Paths)
      /\ TombstonedPaths(s) \in SUBSET (RunIds \X Paths)
      /\ Live(db[s]) \in SUBSET Paths
  BY DEF AddedPaths, TombstonedPaths, CompletedRuns, Live
<1> QED BY <1>2, <1>3, FS_Subset

LEMMA DisjointUnion ==
  ASSUME NEW C, NEW D, IsFiniteSet(C), IsFiniteSet(D), C \cap D = {}
  PROVE  Cardinality(C \cup D) = Cardinality(C) + Cardinality(D)
<1>1. Cardinality(C \cup D)
        = Cardinality(C) + Cardinality(D) - Cardinality(C \cap D)
  BY FS_Union
<1>2. Cardinality(C \cap D) = 0
  BY FS_EmptySet
<1>3. Cardinality(C) \in Nat /\ Cardinality(D) \in Nat
  BY FS_CardinalityType
<1> QED BY <1>1, <1>2, <1>3

LEMMA PathsOfOneRun ==
  ASSUME NEW r, NEW D, IsFiniteSet(D)
  PROVE  /\ IsFiniteSet({r} \X D)
         /\ Cardinality({r} \X D) = Cardinality(D)
<1>1. IsFiniteSet({r}) /\ Cardinality({r}) = 1
  BY FS_Singleton
<1>2. IsFiniteSet({r} \X D) /\ Cardinality({r} \X D) = 1 * Cardinality(D)
  BY <1>1, FS_Product, Zenon
<1>3. Cardinality(D) \in Nat
  BY FS_CardinalityType
<1> QED BY <1>2, <1>3

LEMMA DifferencesBalance ==
  ASSUME NEW L, NEW M, IsFiniteSet(L), IsFiniteSet(M)
  PROVE  /\ IsFiniteSet(M \ L) /\ IsFiniteSet(L \ M)
         /\ Cardinality(L) + Cardinality(M \ L)
              = Cardinality(L \ M) + Cardinality(M)
<1>1. /\ IsFiniteSet(M \ L)
      /\ Cardinality(M \ L) = Cardinality(M) - Cardinality(M \cap L)
      /\ IsFiniteSet(L \ M)
      /\ Cardinality(L \ M) = Cardinality(L) - Cardinality(L \cap M)
  BY FS_Difference
<1>2. M \cap L = L \cap M /\ IsFiniteSet(M \cap L)
  BY FS_Intersection
<1>3. /\ Cardinality(L) \in Nat /\ Cardinality(M) \in Nat
      /\ Cardinality(L \cap M) \in Nat
  BY <1>2, FS_CardinalityType
<1> QED BY <1>1, <1>2, <1>3

LEMMA CompletionBalances ==
  ASSUME IsFiniteSet(Paths), TransactionsInOrder, PlansCurrent, CountersBalance,
         NEW w \in Workers, Complete(w)
  PROVE  CountersBalance'
<1>1. PICK s \in Sources, r \in RunIds :
        /\ runs[r].status # "completed"
        /\ \A q \in RunIds \ {r} : runs'[q] = runs[q]
        /\ runs'[r].source = s /\ runs'[r].status = "completed"
        /\ \A t \in Sources \ {s} : db'[t] = db[t]
        /\ runs'[r].plan.added = Live(db'[s]) \ Live(db[s])
        /\ runs'[r].plan.tombstoned = Live(db[s]) \ Live(db'[s])
  BY CompletionWrites
<1>2. /\ CompletedRuns(s)' = CompletedRuns(s) \cup {r}
      /\ r \notin CompletedRuns(s)
      /\ \A t \in Sources \ {s} : CompletedRuns(t)' = CompletedRuns(t) \ {r}
      /\ \A t \in Sources : r \notin CompletedRuns(t)
  BY <1>1 DEF CompletedRuns
<1>3. ASSUME NEW t \in Sources, t # s
      PROVE  Cardinality(AddedPaths(t)')
               = Cardinality(TombstonedPaths(t)') + Cardinality(Live(db'[t]))
  <2>1. CompletedRuns(t)' = CompletedRuns(t) /\ r \notin CompletedRuns(t)
    BY <1>2, <1>3
  <2>2. \A q \in CompletedRuns(t) : runs'[q] = runs[q]
    BY <1>1, <2>1 DEF CompletedRuns
  <2>3. AddedPaths(t)' = AddedPaths(t) /\ TombstonedPaths(t)' = TombstonedPaths(t)
    BY <2>1, <2>2 DEF AddedPaths, TombstonedPaths
  <2>4. db'[t] = db[t]
    BY <1>1, <1>3
  <2>5. Cardinality(AddedPaths(t))
          = Cardinality(TombstonedPaths(t)) + Cardinality(Live(db[t]))
    BY DEF CountersBalance
  <2> QED BY <2>3, <2>4, <2>5
<1>4. Cardinality(AddedPaths(s)')
        = Cardinality(TombstonedPaths(s)') + Cardinality(Live(db'[s]))
  <2>1. Live(db[s]) \in SUBSET Paths /\ Live(db'[s]) \in SUBSET Paths
    BY DEF Live
  <2>0. PICK L, M, A, T :
          /\ L = Live(db[s]) /\ M = Live(db'[s])
          /\ A = AddedPaths(s) /\ T = TombstonedPaths(s)
    OBVIOUS
  <2>2. \A q \in CompletedRuns(s) : runs'[q] = runs[q]
    BY <1>1, <1>2 DEF CompletedRuns
  <2>3. /\ AddedPaths(s)' = A \cup ({r} \X (M \ L))
        /\ TombstonedPaths(s)' = T \cup ({r} \X (L \ M))
    <3>1. /\ runs'[r].plan.added = M \ L /\ runs'[r].plan.tombstoned = L \ M
          /\ L \subseteq Paths /\ M \subseteq Paths
      BY <1>1, <2>0, <2>1
    <3> QED BY <1>2, <2>0, <2>2, <3>1 DEF AddedPaths, TombstonedPaths
  <2>4. /\ IsFiniteSet(A) /\ IsFiniteSet(T) /\ IsFiniteSet(L) /\ IsFiniteSet(M)
    BY <2>0, <2>1, CountedFinite, FS_Subset
  <2>5. /\ IsFiniteSet(M \ L) /\ IsFiniteSet(L \ M)
        /\ Cardinality(L) + Cardinality(M \ L)
             = Cardinality(L \ M) + Cardinality(M)
    BY <2>4, DifferencesBalance
  <2>6. A \cap ({r} \X (M \ L)) = {} /\ T \cap ({r} \X (L \ M)) = {}
    BY <1>2, <2>0 DEF AddedPaths, TombstonedPaths
  <2>7. /\ IsFiniteSet({r} \X (M \ L)) /\ IsFiniteSet({r} \X (L \ M))
        /\ Cardinality({r} \X (M \ L)) = Cardinality(M \ L)
        /\ Cardinality({r} \X (L \ M)) = Cardinality(L \ M)
    BY <2>5, PathsOfOneRun, Zenon
  <2>8. /\ Cardinality(A) \in Nat /\ Cardinality(T) \in Nat
        /\ Cardinality(L) \in Nat /\ Cardinality(M) \in Nat
        /\ Cardinality(M \ L) \in Nat /\ Cardinality(L \ M) \in Nat
    BY <2>4, <2>5, FS_CardinalityType
  <2>9. Cardinality(A) = Cardinality(T) + Cardinality(L)
    BY <1>1, <2>0 DEF CountersBalance
  <2> DEFINE up == {r} \X (M \ L)
             down == {r} \X (L \ M)
  <2> HIDE DEF up, down
  <2>10. /\ Cardinality(A \cup up) = Cardinality(A) + Cardinality(up)
         /\ Cardinality(T \cup down) = Cardinality(T) + Cardinality(down)
    BY <2>4, <2>6, <2>7, DisjointUnion, Zenon DEF up, down
  <2>11. Cardinality(A \cup up) = Cardinality(T \cup down) + Cardinality(M)
    BY <2>5, <2>7, <2>8, <2>9, <2>10 DEF up, down
  <2> QED BY <2>0, <2>3, <2>11 DEF up, down
<1> QED BY <1>3, <1>4 DEF CountersBalance

(* What the completed runs of a source added is what they tombstoned and   *)
(* what is live now, for any finite set of paths and whatever overlapped,  *)
(* failed or was killed (pipeline.py:200-222, incremental.py:33).          *)
THEOREM CountersAddUp == IsFiniteSet(Paths) => (Spec => []CountersBalance)
<1> SUFFICES ASSUME IsFiniteSet(Paths) PROVE Spec => []CountersBalance
  OBVIOUS
<1>1. Init => CountersBalance
  <2> SUFFICES ASSUME Init, NEW s \in Sources
               PROVE  Cardinality(AddedPaths(s))
                        = Cardinality(TombstonedPaths(s)) + Cardinality(Live(db[s]))
    BY DEF CountersBalance
  <2>1. NoRun.status # "completed" /\ Live(NoRows) = {}
    BY DEF NoRun, Live, NoRows
  <2>2. CompletedRuns(s) = {} /\ Live(db[s]) = {}
    BY <2>1 DEF Init, CompletedRuns
  <2>3. AddedPaths(s) = {} /\ TombstonedPaths(s) = {}
    BY <2>2 DEF AddedPaths, TombstonedPaths
  <2>4. Cardinality({}) = 0
    BY FS_EmptySet
  <2> QED BY <2>2, <2>3, <2>4
<1>2. TransactionsInOrder /\ PlansCurrent /\ RunsCounted /\ CountersBalance
        /\ [Next]_vars => CountersBalance'
  <2> SUFFICES ASSUME TransactionsInOrder, PlansCurrent, RunsCounted,
                      CountersBalance, [Next]_vars
               PROVE  CountersBalance'
    OBVIOUS
  <2>1. CASE UNCHANGED vars
    BY <2>1 DEF vars, CountersBalance, AddedPaths, TombstonedPaths, CompletedRuns
  <2>2. ASSUME NEW w \in Workers, Complete(w) PROVE CountersBalance'
    BY <2>2, CompletionBalances
  <2>3. ASSUME NEW w \in Workers, Invoke(w) \/ Step(w) \/ Fail(w) \/ Crash(w),
               ~Complete(w)
        PROVE  CountersBalance'
    <3>1. \A r \in RunIds :
            \/ runs'[r] = runs[r]
            \/ /\ runs[r].status # "completed"
               /\ runs'[r].plan.added = {} /\ runs'[r].plan.tombstoned = {}
      BY <2>3, CountsWritten DEF NoPlan
    <3>2. UNCHANGED db
      BY <2>3 DEF Step, Invoke, StartRun, RefuseProfile, Return, CompleteDryRun,
         RejectType, BeginFetch, Fetch, Discover, LockSource, PlanRun,
         RecordVersion, RecordArtifact, RetireArtifacts, RecordChanges,
         RecordFailure, Fail, Crash, Raise
    <3>3. ASSUME NEW s \in Sources
          PROVE  /\ AddedPaths(s)' = AddedPaths(s)
                 /\ TombstonedPaths(s)' = TombstonedPaths(s)
      BY <3>1 DEF AddedPaths, TombstonedPaths, CompletedRuns
    <3> QED BY <3>2, <3>3 DEF CountersBalance
  <2> QED BY <2>1, <2>2, <2>3 DEF Next, Finished
<1> QED BY <1>1, <1>2, CountsStayCurrent, TransactionsStayInOrder, PTL DEF Spec

-----------------------------------------------------------------------------
(* The catalogue's history: what a commit may do to membership rows and to *)
(* lineage.  First the repository calls.                                   *)

LEMMA ContinuesItself ==
  ASSUME NEW rows
  PROVE  Continues(rows, rows)
  BY DEF Continues

(* A call that writes neither artifacts nor memberships.                   *)
LEMMA HistoryCarried ==
  ASSUME NEW txn, NEW new, NEW s, NEW rows, HistoryOf(txn, s, rows),
         new.artifacts = txn.artifacts, new.members = txn.members
  PROVE  HistoryOf(new, s, rows)
  BY DEF HistoryOf, ContentOfVersions, LineageKnown, Continues

LEMMA UpsertArtifactLineage ==
  ASSUME NEW rows \in SourceRows, NEW label \in Labels, NEW p \in Paths,
         NEW entry \in Entry, NEW git \in BOOLEAN
  PROVE  LET new == UpsertArtifact(rows, label, p, entry, git)
             old == rows.artifacts[p].first
         IN  /\ new.artifacts[p].version = label
             /\ git => /\ new.artifacts[p].first = old
                       /\ new.artifacts[p].last = None
             /\ ~git => /\ new.artifacts[p].last = label
                        /\ old = None => new.artifacts[p].first = label
                        /\ old # None => new.artifacts[p].first = old
             /\ \A q \in Paths \ {p} : /\ new.artifacts[q] = rows.artifacts[q]
                                       /\ new.members[q] = rows.members[q]
             /\ new.members[p][label].known
             /\ new.members[p][label].sum = entry.sum
             /\ \A l \in Labels \ {label} :
                  /\ new.members[p][l].known = rows.members[p][l].known
                  /\ new.members[p][l].sum = rows.members[p][l].sum
<1> DEFINE old   == rows.artifacts[p]
           first == IF ~git /\ old.first = None THEN label ELSE old.first
           last  == IF git THEN None ELSE label
           row   == [version |-> label, sum |-> entry.sum,
                     profile |-> entry.profile, first |-> first, last |-> last]
           mem   == [l \in Labels |->
                      IF l = label
                      THEN [known |-> TRUE, current |-> TRUE,
                            tombstoned |-> FALSE, sum |-> entry.sum,
                            first |-> first, last |-> last]
                      ELSE [rows.members[p][l] EXCEPT !.current = FALSE]]
           new   == [rows EXCEPT !.artifacts[p] = row, !.members[p] = mem]
<1>1. UpsertArtifact(rows, label, p, entry, git) = new
  BY DEF UpsertArtifact
<1>2. /\ row.version = label /\ row.first = first /\ row.last = last
      /\ git => first = old.first /\ last = None
      /\ ~git => last = label
      /\ ~git /\ old.first = None => first = label
      /\ old.first # None => first = old.first
  OBVIOUS
<1>3. mem[label].known /\ mem[label].sum = entry.sum
  OBVIOUS
<1>4. \A l \in Labels \ {label} : /\ mem[l].known = rows.members[p][l].known
                                  /\ mem[l].sum = rows.members[p][l].sum
  BY DEF SourceRows, MemberRow
<1> HIDE DEF row, mem, first, last
<1>5. /\ new.artifacts[p] = row /\ new.members[p] = mem
      /\ \A q \in Paths \ {p} : /\ new.artifacts[q] = rows.artifacts[q]
                                /\ new.members[q] = rows.members[q]
  BY DEF SourceRows
<1> HIDE DEF new
<1> QED BY <1>1, <1>2, <1>3, <1>4, <1>5

LEMMA HistoryRecorded ==
  ASSUME NEW txn \in SourceRows, NEW rows \in SourceRows, NEW s \in Sources,
         NEW snap \in Upstream[s], NEW p \in Paths, NEW entry \in Entry,
         entry.sum = snap.tree[p], HistoryOf(txn, s, rows)
  PROVE  HistoryOf(UpsertArtifact(txn, snap.label, p, entry, IsGit(s)), s, rows)
<1> DEFINE git   == IsGit(s)
           label == snap.label
           new   == UpsertArtifact(txn, label, p, entry, git)
           old   == txn.artifacts[p].first
<1>0. label \in Labels /\ label # None /\ git \in BOOLEAN
  BY RunsAssumption, NoneIsFresh DEF Snapshot, IsGit
<1>1. ContentOfVersions(txn, s) /\ LineageKnown(txn, git) /\ Continues(rows, txn)
  BY DEF HistoryOf
<1> HIDE DEF git
<1>2. /\ new.artifacts[p].version = label
      /\ git => new.artifacts[p].first = old /\ new.artifacts[p].last = None
      /\ ~git => /\ new.artifacts[p].last = label
                 /\ old = None => new.artifacts[p].first = label
                 /\ old # None => new.artifacts[p].first = old
      /\ \A q \in Paths \ {p} : /\ new.artifacts[q] = txn.artifacts[q]
                                /\ new.members[q] = txn.members[q]
      /\ new.members[p][label].known
      /\ new.members[p][label].sum = entry.sum
      /\ \A l \in Labels \ {label} :
           /\ new.members[p][l].known = txn.members[p][l].known
           /\ new.members[p][l].sum = txn.members[p][l].sum
  <2> HIDE DEF label
  <2> QED BY <1>0, UpsertArtifactLineage
<1> HIDE DEF new
<1>3. \A other \in Upstream[s] : other.label = label => other.tree = snap.tree
  BY LabelsNameContent
<1>4. ContentOfVersions(new, s)
  <2> SUFFICES ASSUME NEW q \in Paths, NEW l \in Labels, new.members[q][l].known,
                      NEW other \in Upstream[s], other.label = l
               PROVE  new.members[q][l].sum = other.tree[q]
    BY DEF ContentOfVersions
  <2>1. CASE q = p /\ l = label
    BY <1>2, <1>3, <2>1
  <2>2. CASE ~(q = p /\ l = label)
    <3>1. /\ txn.members[q][l].known
          /\ new.members[q][l].sum = txn.members[q][l].sum
      BY <1>2, <2>2
    <3> QED BY <1>1, <3>1 DEF ContentOfVersions
  <2> QED BY <2>1, <2>2
<1>5. LineageKnown(new, git)
  <2> SUFFICES ASSUME NEW q \in Paths
               PROVE  /\ git => /\ new.artifacts[q].first = None
                                /\ new.artifacts[q].last = None
                      /\ ~git /\ new.artifacts[q].version # None =>
                           /\ new.artifacts[q].first # None
                           /\ new.artifacts[q].last = new.artifacts[q].version
    BY DEF LineageKnown
  <2>1. CASE q = p
    BY <1>0, <1>1, <1>2, <2>1 DEF LineageKnown
  <2>2. CASE q # p
    BY <1>1, <1>2, <2>2 DEF LineageKnown
  <2> QED BY <2>1, <2>2
<1>6. Continues(rows, new)
  <2> SUFFICES ASSUME NEW q \in Paths
               PROVE  /\ \A l \in Labels :
                           rows.members[q][l].known =>
                             /\ new.members[q][l].known
                             /\ new.members[q][l].sum = rows.members[q][l].sum
                      /\ rows.artifacts[q].first # None =>
                           new.artifacts[q].first = rows.artifacts[q].first
    BY DEF Continues
  <2>1. /\ \A l \in Labels :
             rows.members[q][l].known =>
               /\ txn.members[q][l].known
               /\ txn.members[q][l].sum = rows.members[q][l].sum
        /\ rows.artifacts[q].first # None =>
             txn.artifacts[q].first = rows.artifacts[q].first
    BY <1>1 DEF Continues
  <2>2. CASE q # p
    BY <1>2, <2>1, <2>2
  <2>3. CASE q = p
    <3>1. txn.members[p][label].known => txn.members[p][label].sum = snap.tree[p]
      BY <1>0, <1>1 DEF ContentOfVersions
    <3>2. \A l \in Labels : txn.members[p][l].known =>
            new.members[p][l].known /\ new.members[p][l].sum = txn.members[p][l].sum
      BY <1>2, <3>1
    <3>3. old # None => new.artifacts[p].first = old
      BY <1>2
    <3> QED BY <2>1, <2>3, <3>2, <3>3
  <2> QED BY <2>2, <2>3
<1> QED BY <1>4, <1>5, <1>6 DEF HistoryOf, new, git

LEMMA RetireLineage ==
  ASSUME NEW rows \in SourceRows, NEW keys
  PROVE  LET new == RetireAbsent(rows, keys)
         IN  \A p \in Paths :
               /\ new.artifacts[p].version \in {None, rows.artifacts[p].version}
               /\ new.artifacts[p].first = rows.artifacts[p].first
               /\ new.artifacts[p].last = rows.artifacts[p].last
               /\ \A l \in Labels :
                    /\ new.members[p][l].known = rows.members[p][l].known
                    /\ new.members[p][l].sum = rows.members[p][l].sum
<1> DEFINE stale == {p \in Paths \ keys :
                       \E l \in Labels : rows.members[p][l].current}
           Member(p, l) == IF p \in stale /\ rows.members[p][l].current
                           THEN [rows.members[p][l] EXCEPT !.current = FALSE,
                                                           !.tombstoned = TRUE]
                           ELSE rows.members[p][l]
           Art(p) == IF p \in stale
                     THEN [rows.artifacts[p] EXCEPT !.version = None]
                     ELSE rows.artifacts[p]
           arts == [p \in Paths |-> Art(p)]
           mems == [p \in Paths |-> [l \in Labels |-> Member(p, l)]]
           new  == [rows EXCEPT !.artifacts = arts, !.members = mems]
<1>1. RetireAbsent(rows, keys) = new
  BY DEF RetireAbsent
<1> SUFFICES ASSUME NEW p \in Paths
             PROVE  /\ new.artifacts[p].version \in {None, rows.artifacts[p].version}
                    /\ new.artifacts[p].first = rows.artifacts[p].first
                    /\ new.artifacts[p].last = rows.artifacts[p].last
                    /\ \A l \in Labels :
                         /\ new.members[p][l].known = rows.members[p][l].known
                         /\ new.members[p][l].sum = rows.members[p][l].sum
  BY <1>1
<1>2. /\ Art(p).version \in {None, rows.artifacts[p].version}
      /\ Art(p).first = rows.artifacts[p].first
      /\ Art(p).last = rows.artifacts[p].last
  BY DEF SourceRows, ArtifactRow
<1>3. \A l \in Labels : /\ Member(p, l).known = rows.members[p][l].known
                        /\ Member(p, l).sum = rows.members[p][l].sum
  BY DEF SourceRows, MemberRow
<1> HIDE DEF Art, Member
<1>4. new.artifacts[p] = Art(p) /\ \A l \in Labels : new.members[p][l] = Member(p, l)
  <2>1. new.artifacts = arts /\ new.members = mems
    <3> HIDE DEF arts, mems
    <3> QED BY DEF SourceRows
  <2> QED BY <2>1
<1> QED BY <1>2, <1>3, <1>4

LEMMA HistoryRetired ==
  ASSUME NEW txn \in SourceRows, NEW rows, NEW s, NEW keys, HistoryOf(txn, s, rows)
  PROVE  HistoryOf(RetireAbsent(txn, keys), s, rows)
<1> DEFINE new == RetireAbsent(txn, keys)
<1>1. \A p \in Paths :
        /\ new.artifacts[p].version \in {None, txn.artifacts[p].version}
        /\ new.artifacts[p].first = txn.artifacts[p].first
        /\ new.artifacts[p].last = txn.artifacts[p].last
        /\ \A l \in Labels :
             /\ new.members[p][l].known = txn.members[p][l].known
             /\ new.members[p][l].sum = txn.members[p][l].sum
  BY RetireLineage
<1> HIDE DEF new
<1>2. HistoryOf(new, s, rows)
  BY <1>1 DEF HistoryOf, ContentOfVersions, LineageKnown, Continues
<1> QED BY <1>2 DEF new

-----------------------------------------------------------------------------
(* One step of one process.                                                *)

HistoryInOrder == HistoryInHand /\ HistoryCommitted

(* A private transaction goes on with other rows: what it writes counts.   *)
LEMMA TransactionGoesOn ==
  ASSUME TransactionsInOrder, HistoryInOrder, NEW w \in Workers,
         OnlyMoves(w), UNCHANGED <<db, runs>>, local'[w].run = local[w].run,
         pc'[w] \in InTxn => HistoryOf(local'[w].txn, Src(w), db[Src(w)])
  PROVE  HistoryInOrder'
<1>1. Src(w)' = Src(w)
  BY DEF Src, RunOf
<1>2. ASSUME NEW v \in Workers, pc'[v] \in InTxn
      PROVE  HistoryOf(local'[v].txn, Src(v)', db'[Src(v)'])
  <2>1. CASE v = w
    BY <1>1, <1>2, <2>1
  <2>2. CASE v # w
    <3>1. pc'[v] = pc[v] /\ local'[v] = local[v] /\ Src(v)' = Src(v)
      BY <2>2 DEF OnlyMoves, Src, RunOf
    <3> QED BY <1>2, <3>1 DEF HistoryInOrder, HistoryInHand
  <2> QED BY <2>1, <2>2
<1>3. HistoryCommitted'
  BY DEF HistoryInOrder, HistoryCommitted
<1> QED BY <1>2, <1>3 DEF HistoryInOrder, HistoryInHand

(* A step that ends outside the transaction and commits no catalogue rows. *)
LEMMA OutsideHistory ==
  ASSUME TransactionsInOrder, HistoryInOrder, NEW w \in Workers,
         OnlyMoves(w), UNCHANGED db, pc'[w] \notin InTxn
  PROVE  HistoryInOrder'
<1>1. ASSUME NEW v \in Workers, pc'[v] \in InTxn
      PROVE  HistoryOf(local'[v].txn, Src(v)', db'[Src(v)'])
  <2>1. v # w /\ pc'[v] = pc[v] /\ local'[v] = local[v]
    BY <1>1 DEF OnlyMoves
  <2>2. HasRun(v)
    BY <1>1, <2>1, InTransaction
  <2>3. Src(v)' = Src(v)
    BY <2>1, <2>2, OthersKeepTheirs DEF TransactionsInOrder
  <2> QED BY <1>1, <2>1, <2>3 DEF HistoryInOrder, HistoryInHand
<1>2. HistoryCommitted'
  BY DEF HistoryInOrder, HistoryCommitted
<1> QED BY <1>1, <1>2 DEF HistoryInOrder, HistoryInHand

LEMMA LockHistory ==
  ASSUME TransactionsInOrder, HistoryInOrder, NEW w \in Workers, OnlyMoves(w),
         LockSource(w)
  PROVE  HistoryInOrder'
<1>0. TypeOK
  BY DEF TransactionsInOrder, OpenRuns
<1>1. Src(w) \in Sources /\ local[w] \in Local /\ db[Src(w)] \in SourceRows
  BY <1>0, InTransaction DEF LockSource, TypeOK
<1>2. CASE Raise(w, "IntegrityError")
  BY <1>2, OutsideCounted, OutsideHistory DEF Raise
<1>3. CASE /\ local' = [local EXCEPT ![w].txn = UpsertSource(db[Src(w)])]
           /\ UNCHANGED <<db, runs, call>>
  <2> DEFINE txn == UpsertSource(db[Src(w)])
  <2>1. txn.artifacts = db[Src(w)].artifacts /\ txn.members = db[Src(w)].members
    BY <1>1, UpsertSourceWrites
  <2>2. HistoryOf(db[Src(w)], Src(w), db[Src(w)])
    BY <1>1 DEF HistoryInOrder, HistoryCommitted
  <2>3. HistoryOf(txn, Src(w), db[Src(w)])
    <3> HIDE DEF txn
    <3> QED BY <2>1, <2>2, HistoryCarried
  <2> HIDE DEF txn
  <2>4. local'[w].txn = txn /\ local'[w].run = local[w].run
    BY <1>0, <1>1, <1>3 DEF TypeOK, Local, txn
  <2> QED BY <1>3, <2>3, <2>4, TransactionGoesOn
<1> QED BY <1>2, <1>3 DEF LockSource

(* The other statements rewrite the private rows of an open transaction.   *)
LEMMA StatementHistory ==
  ASSUME TransactionsInOrder, HistoryInOrder, NEW w \in Workers, OnlyMoves(w),
         \/ PlanRun(w) \/ RecordVersion(w) \/ RecordArtifact(w)
         \/ RetireArtifacts(w) \/ RecordChanges(w)
  PROVE  HistoryInOrder'
<1>0. TypeOK
  BY DEF TransactionsInOrder, OpenRuns
<1>1. pc[w] \in InTxn
  BY DEF PlanRun, RecordVersion, RecordArtifact, RetireArtifacts, RecordChanges,
     InTxn
<1>2. /\ Src(w) \in Sources /\ local[w] \in Local
      /\ local[w].txn \in SourceRows
      /\ local[w].snap \in Snapshot /\ local[w].snap \in Upstream[Src(w)]
      /\ db[Src(w)] \in SourceRows
      /\ WorkAt(pc[w], local[w], Src(w))
  BY <1>0, <1>1, InTransaction DEF TypeOK, Local
<1>3. HistoryOf(local[w].txn, Src(w), db[Src(w)])
  BY <1>1 DEF HistoryInOrder, HistoryInHand
<1>4. CASE PlanRun(w)
  <2>1. /\ local'[w].txn = local[w].txn /\ local'[w].run = local[w].run
        /\ UNCHANGED <<db, runs>>
    BY <1>0, <1>2, <1>4 DEF PlanRun, TypeOK, Local
  <2> QED BY <1>3, <2>1, TransactionGoesOn
<1>5. CASE RecordVersion(w)
  <2>1. CASE Raise(w, "IntegrityError")
    BY <2>1, OutsideCounted, OutsideHistory DEF Raise
  <2>2. CASE /\ local' = [local EXCEPT
                  ![w].txn = UpsertVersion(local[w].txn, local[w].snap),
                  ![w].todo = Present(local[w].found)]
             /\ UNCHANGED <<db, runs, lock, call>>
    <3> DEFINE txn == UpsertVersion(local[w].txn, local[w].snap)
    <3>1. /\ txn.artifacts = local[w].txn.artifacts
          /\ txn.members = local[w].txn.members
      BY <1>2, UpsertVersionWrites
    <3> HIDE DEF txn
    <3>2. HistoryOf(txn, Src(w), db[Src(w)])
      BY <1>3, <3>1, HistoryCarried
    <3>3. local'[w].txn = txn /\ local'[w].run = local[w].run
      BY <1>0, <1>2, <2>2 DEF TypeOK, Local, txn
    <3> QED BY <2>2, <3>2, <3>3, TransactionGoesOn
  <2> QED BY <1>5, <2>1, <2>2 DEF RecordVersion
<1>6. CASE RecordArtifact(w)
  <2>1. PICK p \in local[w].todo :
          local' = [local EXCEPT
            ![w].txn = UpsertArtifact(local[w].txn, local[w].snap.label, p,
                                      local[w].found[p], IsGit(Src(w))),
            ![w].todo = local[w].todo \ {p}]
    BY <1>6 DEF RecordArtifact
  <2> DEFINE txn == UpsertArtifact(local[w].txn, local[w].snap.label, p,
                                   local[w].found[p], IsGit(Src(w)))
  <2>2. p \in Present(local[w].found)
    BY <1>2, <1>6, WorkingPlaces DEF RecordArtifact, WorkAt, VersionedAt
  <2>3. p \in Paths /\ local[w].found[p] \in Entry
    BY <1>2, <2>2 DEF Present, Local, Discovered
  <2>4. local[w].found[p].sum = local[w].snap.tree[p]
    <3>1. PICK rules \in Rules : local[w].found = Kept(local[w].snap, rules)
      BY <1>1, <1>2 DEF WorkAt
    <3> QED BY <2>2, <2>3, <3>1 DEF Present, Kept, NoEntry
  <2>5. HistoryOf(txn, Src(w), db[Src(w)])
    BY <1>2, <1>3, <2>3, <2>4, HistoryRecorded
  <2> HIDE DEF txn
  <2>6. local'[w].txn = txn /\ local'[w].run = local[w].run
    BY <1>0, <1>2, <2>1 DEF TypeOK, Local, txn
  <2> QED BY <1>6, <2>5, <2>6, TransactionGoesOn DEF RecordArtifact
<1>7. CASE RetireArtifacts(w)
  <2> DEFINE txn == RetireAbsent(local[w].txn, CurrentKeys(local[w].plan))
             retired == StaleMembers(local[w].txn, CurrentKeys(local[w].plan))
  <2>1. HistoryOf(txn, Src(w), db[Src(w)])
    BY <1>2, <1>3, HistoryRetired
  <2>2. local' = [local EXCEPT ![w].txn = txn, ![w].retired = retired]
    BY <1>7 DEF RetireArtifacts
  <2> HIDE DEF txn, retired
  <2>3. local'[w].txn = txn /\ local'[w].run = local[w].run
    BY <1>0, <1>2, <2>2 DEF TypeOK, Local
  <2> QED BY <1>7, <2>1, <2>3, TransactionGoesOn DEF RetireArtifacts
<1>8. CASE RecordChanges(w)
  <2> DEFINE txn == UpsertChanges(local[w].txn, local[w].snap)
  <2>1. /\ txn.artifacts = local[w].txn.artifacts
        /\ txn.members = local[w].txn.members
    BY <1>2, UpsertChangesWrites
  <2> HIDE DEF txn
  <2>2. HistoryOf(txn, Src(w), db[Src(w)])
    BY <1>3, <2>1, HistoryCarried
  <2>3. local'[w].txn = txn /\ local'[w].run = local[w].run
    BY <1>0, <1>2, <1>8 DEF RecordChanges, TypeOK, Local, txn
  <2> QED BY <1>8, <2>2, <2>3, TransactionGoesOn DEF RecordChanges
<1> QED BY <1>4, <1>5, <1>6, <1>7, <1>8

(* The commit: the rows of the source continue, those of others stay.      *)
LEMMA CompleteHistory ==
  ASSUME TransactionsInOrder, HistoryInOrder, NEW w \in Workers, OnlyMoves(w),
         Complete(w)
  PROVE  /\ HistoryInOrder'
         /\ \A s \in Sources : Continues(db[s], db'[s])
<1>0. TypeOK
  BY DEF TransactionsInOrder, OpenRuns
<1>1. pc[w] \in InTxn /\ pc'[w] \notin InTxn
  BY OutsideCounted DEF Complete, InTxn
<1>2. HistoryOf(local[w].txn, Src(w), db[Src(w)])
  BY <1>1 DEF HistoryInOrder, HistoryInHand
<1>3. /\ db'[Src(w)] = local[w].txn
      /\ \A s \in Sources \ {Src(w)} : db'[s] = db[s]
  BY <1>0, <1>1, InTransaction DEF Complete, TypeOK
<1>4. HistoryCommitted'
  <2> SUFFICES ASSUME NEW s \in Sources PROVE HistoryOf(db'[s], s, db'[s])
    BY DEF HistoryCommitted
  <2>1. CASE s = Src(w)
    BY <1>2, <1>3, <2>1, ContinuesItself DEF HistoryOf
  <2>2. CASE s # Src(w)
    BY <1>3, <2>2 DEF HistoryInOrder, HistoryCommitted
  <2> QED BY <2>1, <2>2
<1>5. HistoryInHand'
  <2> SUFFICES ASSUME NEW v \in Workers, pc'[v] \in InTxn
               PROVE  HistoryOf(local'[v].txn, Src(v)', db'[Src(v)'])
    BY DEF HistoryInHand
  <2>1. v # w /\ pc'[v] = pc[v] /\ local'[v] = local[v]
    BY <1>1 DEF OnlyMoves
  <2>2. HasRun(v) /\ Src(v) \in Sources
    BY <2>1, InTransaction
  <2>3. Src(v)' = Src(v)
    BY <2>1, <2>2, OthersKeepTheirs DEF TransactionsInOrder
  <2>4. Src(v) # Src(w)
    BY <1>1, <2>1, <2>2 DEF TransactionsInOrder, LockHeld
  <2>5. db'[Src(v)] = db[Src(v)]
    BY <1>3, <2>2, <2>4
  <2> QED BY <2>1, <2>3, <2>5 DEF HistoryInOrder, HistoryInHand
<1>6. \A s \in Sources : Continues(db[s], db'[s])
  BY <1>2, <1>3, ContinuesItself DEF HistoryOf
<1> QED BY <1>4, <1>5, <1>6 DEF HistoryInOrder

LEMMA HistoryStep ==
  ASSUME TransactionsInOrder, HistoryInOrder, [Next]_vars
  PROVE  /\ HistoryInOrder'
         /\ \A s \in Sources : Continues(db[s], db'[s])
<1>1. CASE UNCHANGED vars
  BY <1>1, ContinuesItself
     DEF vars, HistoryInOrder, HistoryInHand, HistoryCommitted, Src, RunOf
<1>2. ASSUME NEW w \in Workers, Invoke(w) \/ Step(w) \/ Fail(w) \/ Crash(w)
      PROVE  /\ HistoryInOrder'
             /\ \A s \in Sources : Continues(db[s], db'[s])
  <2>1. OnlyMoves(w)
    BY <1>2, StepMovesOne DEF TransactionsInOrder
  <2>2. CASE Complete(w)
    BY <2>1, <2>2, CompleteHistory
  <2>3. CASE ~Complete(w)
    <3>1. UNCHANGED db
      BY <1>2, <2>3 DEF Step, Invoke, StartRun, RefuseProfile, Return,
         CompleteDryRun, RejectType, BeginFetch, Fetch, Discover, LockSource,
         PlanRun, RecordVersion, RecordArtifact, RetireArtifacts,
         RecordChanges, RecordFailure, Fail, Crash, Raise
    <3>2. CASE LockSource(w)
      BY <2>1, <3>1, <3>2, LockHistory, ContinuesItself
    <3>3. CASE \/ PlanRun(w) \/ RecordVersion(w) \/ RecordArtifact(w)
               \/ RetireArtifacts(w) \/ RecordChanges(w)
      BY <2>1, <3>1, <3>3, StatementHistory, ContinuesItself
    <3>4. CASE pc'[w] \notin InTxn
      BY <2>1, <3>1, <3>4, OutsideHistory, ContinuesItself
    <3> QED BY <1>2, <3>2, <3>3, <3>4, OutsideCounted DEF Step
  <2> QED BY <2>2, <2>3
<1> QED BY <1>1, <1>2 DEF Next, Finished

LEMMA HistoryInit == Init => HistoryInOrder
<1> SUFFICES ASSUME Init PROVE HistoryInOrder
  OBVIOUS
<1>1. HistoryInHand
  BY WorkingPlaces DEF Init, HistoryInHand
<1>2. ASSUME NEW s PROVE HistoryOf(NoRows, s, NoRows)
  BY DEF HistoryOf, ContentOfVersions, LineageKnown, Continues, NoRows
<1> QED BY <1>1, <1>2 DEF Init, HistoryInOrder, HistoryCommitted

LEMMA HistoryStaysInOrder == Spec => [](TransactionsInOrder /\ HistoryInOrder)
<1>1. TransactionsInOrder /\ HistoryInOrder /\ [Next]_vars => HistoryInOrder'
  BY HistoryStep
<1> QED BY <1>1, HistoryInit, TransactionsStayInOrder, PTL DEF Spec

(* No commit removes a membership row or changes its checksum, for any     *)
(* processes, snapshots, failures and kills, given that a label names one  *)
(* content (artifacts.py upsert_artifact_version).                         *)
THEOREM HistoryIsKept == Spec => HistoryKept
<1>1. TransactionsInOrder /\ HistoryInOrder /\ [Next]_vars
        => [\A s \in Sources, p \in Paths, l \in Labels :
              db[s].members[p][l].known =>
                /\ db'[s].members[p][l].known
                /\ db'[s].members[p][l].sum = db[s].members[p][l].sum]_db
  BY HistoryStep DEF Continues
<1> QED BY <1>1, HistoryStaysInOrder, PTL DEF Spec, HistoryKept

(* Git lineage stays unknown; for a local directory the first version of a *)
(* path is there from its first publication and then fixed                 *)
(* (artifacts.py upsert_artifact, pipeline.py:226-266).                    *)
THEOREM LineageStaysProved == Spec => LineageIsProved
<1>1. TransactionsInOrder /\ HistoryInOrder /\ [Next]_vars
        => [\A s \in Sources, p \in Paths :
              LET old == db[s].artifacts[p]
                  new == db'[s].artifacts[p]
              IN  /\ IsGit(s) => new.first = None /\ new.last = None
                  /\ old.first # None => new.first = old.first
                  /\ ~IsGit(s) /\ new.version # None =>
                       new.first # None /\ new.last = new.version]_db
  <2> SUFFICES ASSUME TransactionsInOrder, HistoryInOrder, [Next]_vars,
                      NEW s \in Sources, NEW p \in Paths
               PROVE  LET old == db[s].artifacts[p]
                          new == db'[s].artifacts[p]
                      IN  /\ IsGit(s) => new.first = None /\ new.last = None
                          /\ old.first # None => new.first = old.first
                          /\ ~IsGit(s) /\ new.version # None =>
                               new.first # None /\ new.last = new.version
    OBVIOUS
  <2>1. Continues(db[s], db'[s])
    BY HistoryStep
  <2>2. LineageKnown(db'[s], IsGit(s))
    BY HistoryStep DEF HistoryInOrder, HistoryCommitted, HistoryOf
  <2> QED BY <2>1, <2>2 DEF Continues, LineageKnown
<1> QED BY <1>1, HistoryStaysInOrder, PTL DEF Spec, LineageIsProved
=============================================================================
