--------------------------- MODULE EmbeddingProofs ---------------------------
(***************************************************************************)
(* Jobs and vectors agree, whoever works on them.                          *)
(***************************************************************************)
EXTENDS EmbeddingSafety, TLAPS

-----------------------------------------------------------------------------
(* The rows of a chunk.                                                    *)

LEMMA NoChunkTyped == NoChunk \in ChunkRow
  BY DEF NoChunk, ChunkRow, Membership

LEMMA SavedTyped ==
  ASSUME NEW row \in ChunkRow, NEW c \in Chunks, NEW new \in Contents[c]
  PROVE  Saved(row, new) \in ChunkRow
  <1> DEFINE upserted == UpsertChunk(row, new)
             versioned == UpsertChunkVersion(upserted)
  <1>1. /\ new.version \in Versions \cup {None} /\ new.hash \in Hashes
        /\ new.eligible \in BOOLEAN /\ new.hash # None
    BY ChunkConstants
  <1>2. upserted \in ChunkRow
    BY <1>1 DEF UpsertChunk, ChunkRow
  <1>3. versioned \in ChunkRow
    <2> HIDE DEF upserted
    <2>1. upserted.member \in [Versions -> Membership]
      BY <1>2 DEF ChunkRow
    <2> DEFINE member == [v \in Versions |->
                 IF v = upserted.version THEN "current"
                 ELSE IF upserted.member[v] = "current" THEN "former"
                 ELSE upserted.member[v]]
    <2>2. member \in [Versions -> Membership]
      BY <2>1 DEF Membership
    <2>3. versioned \in {upserted, [upserted EXCEPT !.member = member]}
      BY DEF UpsertChunkVersion
    <2> HIDE DEF member, versioned
    <2> QED
      BY <1>2, <2>2, <2>3 DEF ChunkRow
  <1>4. UpsertCitation(versioned) \in ChunkRow
    <2> HIDE DEF versioned
    <2> QED
      BY <1>3 DEF UpsertCitation, ChunkRow
  <1> QED
    BY <1>4 DEF Saved

LEMMA RetiredTyped ==
  ASSUME NEW row \in ChunkRow
  PROVE  Retired(row) \in ChunkRow
  <1>1. row.member \in [Versions -> Membership]
    BY DEF ChunkRow
  <1> DEFINE member == [v \in Versions |-> IF row.member[v] = "current"
                                          THEN "tombstoned" ELSE row.member[v]]
  <1>2. member \in [Versions -> Membership]
    BY <1>1 DEF Membership
  <1>3. Retired(row) = [row EXCEPT !.version = None, !.member = member]
    BY DEF Retired
  <1> HIDE DEF member
  <1> QED
    BY <1>2, <1>3 DEF ChunkRow

LEMMA ChunkStepTyped ==
  ASSUME chunk \in ChunkTable, ChunkNext
  PROVE  chunk' \in ChunkTable
  <1>1. ASSUME NEW c \in Chunks, NEW new \in Contents[c], Save(c, new)
        PROVE  chunk' \in ChunkTable
    BY <1>1, SavedTyped DEF Save, ChunkTable
  <1>2. ASSUME NEW s \in Sources, NEW keys \in SUBSET Chunks,
               RetireAbsent(s, keys)
        PROVE  chunk' \in ChunkTable
    BY <1>2, RetiredTyped DEF RetireAbsent, ChunkTable
  <1> QED
    BY <1>1, <1>2 DEF ChunkNext, SaveAny, RetireAny

-----------------------------------------------------------------------------
(* Type correctness.  DraftsHeld is the part of TypeOK about rows nobody   *)
(* holds.                                                                  *)

AtHand == {"check", "drop", "embed", "store", "reset", "insert"}

(* A pass that works on a job knows which.                                 *)
KeyAtHand == \A p \in Passes : pc[p] \in AtHand => local[p].key \in Keys

Typed ==
  /\ chunk \in ChunkTable
  /\ jobs \in [Keys -> JobRow] /\ jobDraft \in [Keys -> JobRow]
  /\ vectors \in [Keys -> VectorState] /\ vectorDraft \in [Keys -> VectorState]
  /\ jobLock \in [Keys -> Passes \cup {None}]
  /\ vectorLock \in [Keys -> Passes \cup {None}]
  /\ older \subseteq Keys \X Keys
  /\ pc \in [Passes -> Places] /\ local \in [Passes -> Local]
  /\ crashes \in 0..MaxCrashes
  /\ KeyAtHand

DraftsHeld ==
  \A k \in Keys :
    /\ jobLock[k] = None => jobDraft[k] = jobs[k]
    /\ vectorLock[k] = None => vectorDraft[k] = vectors[k]
    /\ \A p \in Passes : jobLock[k] = p \/ vectorLock[k] = p => pc[p] # "idle"

LEMMA TypeParts == Typed /\ DraftsHeld => TypeOK
  BY DEF TypeOK, Typed, DraftsHeld

LEMMA NoPass == None \notin Passes
  BY EmbeddingConstants DEF Passes

LEMMA LocalFacts ==
  ASSUME NEW l \in Local
  PROVE  /\ l.batch \subseteq Keys /\ l.todo \subseteq Chunks
         /\ l.rows \subseteq [name: Chunks, row: ChunkRow]
         /\ l.key \in Keys \cup {None}
         /\ l.seen \in [name: Chunks \cup {None}, row: ChunkRow]
         /\ l.stale \subseteq Keys
  BY DEF Local

LEMMA NoLocalTyped == NoLocal \in Local
  BY NoChunkTyped DEF NoLocal, Local, Unseen

(* What a pass reads has the type of the rows.                             *)
LEMMA SeenTyped ==
  ASSUME Typed, NEW p \in Passes, NEW k \in Keys
  PROVE  JobSeen(p, k) \in JobRow /\ VectorSeen(p, k) \in VectorState
  BY DEF Typed, JobSeen, VectorSeen

LEMMA ActiveTyped == ASSUME NEW p, NEW c PROVE ActiveOf(p, c) \subseteq Keys
  BY DEF ActiveOf

LEMMA NewJobTyped == NewJob \in JobRow /\ NoJob \in JobRow
  BY DEF NewJob, NoJob, JobRow, OpenStatus, TerminalStatus

(* A job row with one more attempt.                                        *)
LEMMA StartedFacts ==
  ASSUME NEW row \in JobRow,
         NEW new, new = [row EXCEPT !.status = "running",
                                   !.attempts = row.attempts + 1]
  PROVE  /\ new \in JobRow
         /\ new.status = "running" /\ new.attempts = row.attempts + 1
         /\ new.waiting = row.waiting
  <1>1. new = [status |-> "running", attempts |-> row.attempts + 1,
               waiting |-> row.waiting]
    BY DEF JobRow
  <1>2. row.attempts + 1 \in Nat /\ row.waiting \in BOOLEAN
    BY DEF JobRow
  <1> QED
    BY <1>1, <1>2 DEF JobRow, OpenStatus

(* Writing a job of its own or a free one, a pass stays within the types.  *)
LEMMA WriteJobTyped ==
  ASSUME Typed, NEW p \in Passes, NEW k, NEW row,
         k \in Keys => row \in JobRow, WriteJob(p, k, row)
  PROVE  jobDraft' \in [Keys -> JobRow] /\ jobLock' \in [Keys -> Passes \cup {None}]
  BY DEF Typed, WriteJob

LEMMA WriteVectorsTyped ==
  ASSUME Typed, NEW p \in Passes, NEW off, NEW on, WriteVectors(p, off, on)
  PROVE  /\ vectorDraft' \in [Keys -> VectorState]
         /\ vectorLock' \in [Keys -> Passes \cup {None}]
  BY DEF Typed, WriteVectors, VectorState

LEMMA GoToTyped ==
  ASSUME Typed, NEW p \in Passes, NEW place \in Places, NEW l \in Local,
         place \in AtHand => l.key \in Keys, GoTo(p, place, l)
  PROVE  /\ KeyAtHand'
         /\ pc' \in [Passes -> Places] /\ local' \in [Passes -> Local]
         /\ pc'[p] = place /\ local'[p] = l
         /\ \A q \in Passes \ {p} : pc'[q] = pc[q] /\ local'[q] = local[q]
  BY DEF Typed, KeyAtHand, GoTo

LEMMA EndPassTyped ==
  ASSUME Typed, NEW p \in Passes, NEW keep \in BOOLEAN, EndPass(p, keep),
         crashes' \in 0..MaxCrashes
  PROVE  Typed'
  <1>1. jobs' \in [Keys -> JobRow] /\ vectors' \in [Keys -> VectorState]
    BY SeenTyped DEF Typed, EndPass
  <1>2. jobDraft' \in [Keys -> JobRow] /\ vectorDraft' \in [Keys -> VectorState]
    BY <1>1 DEF Typed, EndPass
  <1>3. /\ jobLock' \in [Keys -> Passes \cup {None}]
        /\ vectorLock' \in [Keys -> Passes \cup {None}]
    BY DEF Typed, EndPass
  <1>4. pc' \in [Passes -> Places] /\ local' \in [Passes -> Local] /\ KeyAtHand'
    BY GoToTyped, NoLocalTyped DEF EndPass, Places, AtHand
  <1>5. older' \subseteq Keys \X Keys
    BY DEF Typed, EndPass
  <1> QED
    BY <1>1, <1>2, <1>3, <1>4, <1>5 DEF Typed, EndPass

LEMMA InitTyped == EmbeddingInit => Typed
  <1> SUFFICES ASSUME EmbeddingInit PROVE Typed
    OBVIOUS
  <1>1. chunk \in ChunkTable
    BY NoChunkTyped DEF EmbeddingInit, ChunkInit, ChunkTable
  <1>2. crashes \in 0..MaxCrashes
    BY EmbeddingConstants DEF EmbeddingInit
  <1>3. jobs \in [Keys -> JobRow] /\ vectors \in [Keys -> VectorState]
    BY NewJobTyped DEF EmbeddingInit, VectorState
  <1>4. local \in [Passes -> Local] /\ pc \in [Passes -> Places]
    BY NoLocalTyped DEF EmbeddingInit, Places
  <1>5. /\ jobLock \in [Keys -> Passes \cup {None}]
        /\ vectorLock \in [Keys -> Passes \cup {None}]
    BY DEF EmbeddingInit
  <1> QED
    BY <1>1, <1>2, <1>3, <1>4, <1>5 DEF EmbeddingInit, Typed, KeyAtHand, AtHand

(* The rows a plan goes through.                                           *)
LEMMA SelectedTyped ==
  ASSUME Typed
  PROVE  Selected \subseteq [name: Chunks, row: ChunkRow]
  <1> DEFINE first == Among(Listable, Smaller, PlanLimit)
  <1>1. first \subseteq Chunks
    BY EmbeddingConstants DEF Among, Listable
  <1>2. \A c \in Chunks : chunk[c] \in ChunkRow
    BY DEF Typed, ChunkTable
  <1>3. Selected = {[name |-> c, row |-> chunk[c]] : c \in first}
    BY DEF Selected
  <1> HIDE DEF first
  <1> QED
    BY <1>1, <1>2, <1>3

(* Workers keep the types, each step by the writes it makes.               *)
LEMMA WorkerTyped ==
  ASSUME Typed, NEW w \in Workers, WorkerStep(w)
  PROVE  Typed'
  <1>0. w \in Passes
    BY DEF Passes
  <1> DEFINE l == local[w]
  <1>l. l \in Local
    BY <1>0 DEF Typed
  <1>f. /\ l.batch \subseteq Keys /\ l.todo \subseteq Chunks
        /\ l.rows \subseteq [name: Chunks, row: ChunkRow]
        /\ l.key \in Keys \cup {None}
        /\ l.seen \in [name: Chunks \cup {None}, row: ChunkRow]
        /\ l.stale \subseteq Keys
    BY <1>l, LocalFacts
  <1>d. Done(w) \in Local
    <2>1. Done(w) = [l EXCEPT !.key = None, !.stale = {}]
      BY DEF Done
    <2> HIDE DEF l
    <2> QED
      BY <2>1, <1>l, <1>f DEF Local
  <1>s. ASSUME NEW status \in OpenStatus \cup TerminalStatus, NEW waiting \in BOOLEAN,
               Current(w) \in Keys
        PROVE  Settled(w, status, waiting) \in JobRow
    BY <1>s DEF Typed, Settled, JobRow
  <1>1. CASE Claim(w)
    <2> DEFINE batch == Among({k \in Keys : Claimable(k)}, older, BatchSize)
    <2>1. batch \subseteq Keys
      BY DEF Among
    <2>2. /\ jobLock' = [k \in Keys |-> IF k \in batch THEN w ELSE jobLock[k]]
          /\ GoTo(w, "next", [NoLocal EXCEPT !.batch = batch])
          /\ UNCHANGED <<chunk, tables, jobDraft, vectorDraft, vectorLock, older,
                         crashes>>
      BY <1>1 DEF Claim
    <2> HIDE DEF batch
    <2>3. [NoLocal EXCEPT !.batch = batch] \in Local
      BY <2>1, NoLocalTyped DEF NoLocal, Local
    <2>4. pc' \in [Passes -> Places] /\ local' \in [Passes -> Local] /\ KeyAtHand'
      BY <1>0, <2>2, <2>3, GoToTyped DEF Places, AtHand
    <2> QED
      BY <1>0, <2>2, <2>4 DEF Typed, tables
  <1>2. ASSUME NEW k \in Keys, Load(w, k)
        PROVE  Typed'
    <2> DEFINE seen == IF l.seen.name = k[1] THEN l.seen
                       ELSE [name |-> k[1], row |-> chunk[k[1]]]
               job == [jobDraft[k] EXCEPT !.status = "running", !.attempts = @ + 1]
    <2>1. seen \in [name: Chunks \cup {None}, row: ChunkRow]
      BY <1>f DEF Typed, ChunkTable, Keys
    <2>2. job \in JobRow
      <3>1. jobDraft[k] \in JobRow
        BY DEF Typed
      <3>2. job = [jobDraft[k] EXCEPT !.status = "running",
                                      !.attempts = jobDraft[k].attempts + 1]
        OBVIOUS
      <3> QED
        BY <3>1, <3>2, StartedFacts
    <2> DEFINE rest == [l EXCEPT !.batch = @ \ {k}, !.key = k, !.seen = seen]
    <2>3. /\ GoTo(w, "check", rest)
          /\ WriteJob(w, k, job)
          /\ UNCHANGED <<chunk, tables, vectorDraft, vectorLock, older, crashes>>
      BY <1>2 DEF Load
    <2> HIDE DEF seen, job
    <2>4. rest \in Local /\ rest.key = k
      <3> HIDE DEF l
      <3> QED
        BY <1>l, <1>f, <2>1 DEF Local
    <2> HIDE DEF rest
    <2>5. pc' \in [Passes -> Places] /\ local' \in [Passes -> Local] /\ KeyAtHand'
      BY <1>0, <2>3, <2>4, GoToTyped DEF Places, AtHand
    <2>6. jobDraft' \in [Keys -> JobRow] /\ jobLock' \in [Keys -> Passes \cup {None}]
      BY <1>0, <2>2, <2>3, WriteJobTyped
    <2> QED
      BY <2>3, <2>5, <2>6 DEF Typed, tables
  <1>3. CASE Check(w)
    <2> DEFINE dropping == [l EXCEPT !.stale = ActiveOf(w, Current(w)[1])]
    <2>0. l.key \in Keys
      BY <1>0, <1>3 DEF Check, Typed, KeyAtHand, AtHand
    <2>1. dropping \in Local /\ dropping.key = l.key
      <3> HIDE DEF l
      <3> QED
        BY <1>l, <1>f, ActiveTyped DEF Local
    <2>2. GoTo(w, "embed", l) \/ GoTo(w, "drop", dropping)
      BY <1>3 DEF Check
    <2> HIDE DEF dropping
    <2>3. pc' \in [Passes -> Places] /\ local' \in [Passes -> Local] /\ KeyAtHand'
      BY <1>0, <1>l, <2>0, <2>1, <2>2, GoToTyped DEF Places, AtHand
    <2> QED
      BY <1>3, <2>3 DEF Check, Typed, tables, drafts
  <1>4. CASE CancelJob(w)
    <2>1. WriteJob(w, Current(w), Settled(w, "cancelled", FALSE))
      BY <1>4 DEF CancelJob
    <2>2. jobDraft' \in [Keys -> JobRow] /\ jobLock' \in [Keys -> Passes \cup {None}]
      BY <1>0, <1>s, <2>1, WriteJobTyped DEF TerminalStatus
    <2>3. /\ vectorDraft' \in [Keys -> VectorState]
          /\ vectorLock' \in [Keys -> Passes \cup {None}]
      BY <1>0, <1>4, WriteVectorsTyped DEF CancelJob
    <2>4. pc' \in [Passes -> Places] /\ local' \in [Passes -> Local] /\ KeyAtHand'
      BY <1>0, <1>4, <1>d, GoToTyped DEF CancelJob, Places, AtHand
    <2> QED
      BY <1>4, <2>2, <2>3, <2>4 DEF CancelJob, Typed, tables
  <1>5. CASE RecordJobError(w)
    <2> DEFINE job == IF jobDraft[Current(w)].attempts >= MaxAttempts
                      THEN Settled(w, "failed", FALSE)
                      ELSE Settled(w, "retrying", TRUE)
    <2>1. WriteJob(w, Current(w), job)
      BY <1>5 DEF RecordJobError
    <2>2. Current(w) \in Keys => job \in JobRow
      BY <1>s DEF OpenStatus, TerminalStatus
    <2> HIDE DEF job
    <2>3. jobDraft' \in [Keys -> JobRow] /\ jobLock' \in [Keys -> Passes \cup {None}]
      BY <1>0, <2>1, <2>2, WriteJobTyped
    <2>4. pc' \in [Passes -> Places] /\ local' \in [Passes -> Local] /\ KeyAtHand'
      BY <1>0, <1>5, <1>d, GoToTyped DEF RecordJobError, Places, AtHand
    <2> QED
      BY <1>5, <2>3, <2>4 DEF RecordJobError, Typed, tables
  <1>6. CASE Embed(w)
    <2> DEFINE storing == [l EXCEPT
                 !.stale = ActiveOf(w, Current(w)[1]) \ {Current(w)}]
    <2>0. l.key \in Keys
      BY <1>0, <1>6 DEF Embed, Typed, KeyAtHand, AtHand
    <2>1. storing \in Local /\ storing.key = l.key
      <3> HIDE DEF l
      <3> QED
        BY <1>l, <1>f, ActiveTyped DEF Local
    <2>2. GoTo(w, "store", storing)
      BY <1>6 DEF Embed
    <2> HIDE DEF storing
    <2>3. pc' \in [Passes -> Places] /\ local' \in [Passes -> Local] /\ KeyAtHand'
      BY <1>0, <2>0, <2>1, <2>2, GoToTyped DEF Places, AtHand
    <2> QED
      BY <1>6, <2>3 DEF Embed, Typed, tables, drafts
  <1>7. CASE Store(w)
    <2>1. WriteJob(w, Current(w), Settled(w, "succeeded", FALSE))
      BY <1>7 DEF Store
    <2>2. jobDraft' \in [Keys -> JobRow] /\ jobLock' \in [Keys -> Passes \cup {None}]
      BY <1>0, <1>s, <2>1, WriteJobTyped DEF TerminalStatus
    <2>3. /\ vectorDraft' \in [Keys -> VectorState]
          /\ vectorLock' \in [Keys -> Passes \cup {None}]
      BY <1>0, <1>7, WriteVectorsTyped DEF Store
    <2>4. pc' \in [Passes -> Places] /\ local' \in [Passes -> Local] /\ KeyAtHand'
      BY <1>0, <1>7, <1>d, GoToTyped DEF Store, Places, AtHand
    <2> QED
      BY <1>7, <2>2, <2>3, <2>4 DEF Store, Typed, tables
  <1>8. CASE CommitBatch(w)
    BY <1>0, <1>8, EndPassTyped DEF CommitBatch, Typed
  <1> QED
    BY <1>1, <1>2, <1>3, <1>4, <1>5, <1>6, <1>7, <1>8 DEF WorkerStep

LEMMA PlannerTyped ==
  ASSUME Typed, NEW p \in Planners, PlannerStep(p)
  PROVE  Typed'
  <1>0. p \in Passes
    BY DEF Passes
  <1> DEFINE l == local[p]
  <1>l. l \in Local
    BY <1>0 DEF Typed
  <1>f. /\ l.batch \subseteq Keys /\ l.todo \subseteq Chunks
        /\ l.rows \subseteq [name: Chunks, row: ChunkRow]
        /\ l.key \in Keys \cup {None}
        /\ l.seen \in [name: Chunks \cup {None}, row: ChunkRow]
        /\ l.stale \subseteq Keys
    BY <1>l, LocalFacts
  <1>n. Planned(p) \in Local
    <2>1. Planned(p) = [l EXCEPT !.key = None]
      BY DEF Planned
    <2> HIDE DEF l
    <2> QED
      BY <2>1, <1>l, <1>f DEF Local
  <1>1. CASE StartPlan(p)
    <2> DEFINE todo == {c \in Chunks : ActiveOf(p, c) # {}}
    <2>1. GoTo(p, "sweep", [NoLocal EXCEPT !.todo = todo])
      BY <1>1 DEF StartPlan
    <2>2. todo \subseteq Chunks
      OBVIOUS
    <2> HIDE DEF todo
    <2>3. [NoLocal EXCEPT !.todo = todo] \in Local
      BY <2>2, NoLocalTyped DEF NoLocal, Local
    <2>4. pc' \in [Passes -> Places] /\ local' \in [Passes -> Local] /\ KeyAtHand'
      BY <1>0, <2>1, <2>3, GoToTyped DEF Places, AtHand
    <2> QED
      BY <1>1, <2>4 DEF StartPlan, Typed, tables, drafts
  <1>2. ASSUME NEW c \in Chunks, Sweep(p, c)
        PROVE  Typed'
    <2> DEFINE rest == [l EXCEPT !.todo = @ \ {c}]
               found == [rest EXCEPT !.stale = ActiveOf(p, c)]
    <2>1. GoTo(p, "sweep", rest) \/ GoTo(p, "sweepDrop", found)
      BY <1>2 DEF Sweep
    <2>2. rest \in Local
      <3> HIDE DEF l
      <3> QED
        BY <1>l, <1>f DEF Local
    <2>3. found \in Local
      <3> HIDE DEF rest
      <3> QED
        BY <2>2, ActiveTyped DEF Local
    <2> HIDE DEF rest, found
    <2>4. pc' \in [Passes -> Places] /\ local' \in [Passes -> Local] /\ KeyAtHand'
      BY <1>0, <2>1, <2>2, <2>3, GoToTyped DEF Places, AtHand
    <2> QED
      BY <1>2, <2>4 DEF Sweep, Typed, tables, drafts
  <1>3. CASE DropVectors(p)
    <2> DEFINE place == IF pc[p] = "sweepDrop" THEN "sweep" ELSE "plan"
               rest == [l EXCEPT !.stale = {}]
    <2>1. GoTo(p, place, rest)
      BY <1>3 DEF DropVectors
    <2>2. rest \in Local
      <3> HIDE DEF l
      <3> QED
        BY <1>l DEF Local
    <2>3. place \in Places /\ place \notin AtHand
      BY DEF Places, AtHand
    <2> HIDE DEF place, rest
    <2>4. pc' \in [Passes -> Places] /\ local' \in [Passes -> Local] /\ KeyAtHand'
      BY <1>0, <2>1, <2>2, <2>3, GoToTyped
    <2>5. /\ vectorDraft' \in [Keys -> VectorState]
          /\ vectorLock' \in [Keys -> Passes \cup {None}]
      BY <1>0, <1>3, WriteVectorsTyped DEF DropVectors
    <2> QED
      BY <1>3, <2>4, <2>5 DEF DropVectors, Typed, tables
  <1>4. CASE SelectChunks(p)
    <2> DEFINE rest == [l EXCEPT !.rows = Selected]
    <2>1. GoTo(p, "plan", rest)
      BY <1>4 DEF SelectChunks
    <2>2. rest \in Local
      <3>1. Selected \subseteq [name: Chunks, row: ChunkRow]
        BY SelectedTyped
      <3> HIDE DEF l
      <3> QED
        BY <1>l, <3>1 DEF Local
    <2> HIDE DEF rest
    <2>3. pc' \in [Passes -> Places] /\ local' \in [Passes -> Local] /\ KeyAtHand'
      BY <1>0, <2>1, <2>2, GoToTyped DEF Places, AtHand
    <2> QED
      BY <1>4, <2>3 DEF SelectChunks, Typed, tables, drafts
  <1>5. ASSUME NEW r \in local[p].rows, PlanChunk(p, r)
        PROVE  Typed'
    <2> DEFINE place == Decide(p, r)
               key   == IF place \in {"reset", "insert"}
                        THEN <<r.name, r.row.hash>> ELSE None
               stale == IF place = "planDrop" THEN ActiveOf(p, r.name) ELSE {}
               rest  == [l EXCEPT !.rows = @ \ {r}, !.key = key, !.stale = stale]
    <2>1. GoTo(p, place, rest)
      BY <1>5 DEF PlanChunk
    <2>2. place \in Places /\ (place \in AtHand => place \in {"reset", "insert"})
      BY DEF Decide, Places, AtHand
    <2>3. r.name \in Chunks /\ r.row \in ChunkRow
      BY <1>f
    <2>4. place \in {"reset", "insert"} => r.row.eligible
      BY DEF Decide, MayEmbed, Embeddable
    <2>5. /\ key \in Keys \cup {None}
          /\ place \in {"reset", "insert"} => key \in Keys
      BY <2>3, <2>4 DEF ChunkRow, Keys
    <2>6. stale \subseteq Keys
      BY ActiveTyped
    <2> HIDE DEF place, key, stale
    <2>7. rest \in Local /\ rest.key = key
      <3> HIDE DEF l
      <3> QED
        BY <1>l, <1>f, <2>5, <2>6 DEF Local
    <2> HIDE DEF rest
    <2>8. pc' \in [Passes -> Places] /\ local' \in [Passes -> Local] /\ KeyAtHand'
      BY <1>0, <2>1, <2>2, <2>5, <2>7, GoToTyped
    <2> QED
      BY <1>5, <2>8 DEF PlanChunk, Typed, tables, drafts
  <1>6. CASE ResetFailedJob(p)
    <2>1. jobDraft' \in [Keys -> JobRow] /\ jobLock' \in [Keys -> Passes \cup {None}]
      BY <1>0, <1>6, NewJobTyped, WriteJobTyped DEF ResetFailedJob
    <2>2. pc' \in [Passes -> Places] /\ local' \in [Passes -> Local] /\ KeyAtHand'
      BY <1>0, <1>6, <1>n, GoToTyped DEF ResetFailedJob, Places, AtHand
    <2> QED
      BY <1>6, <2>1, <2>2 DEF ResetFailedJob, Typed, tables
  <1>7. CASE InsertJob(p)
    <2>1. jobDraft' \in [Keys -> JobRow] /\ jobLock' \in [Keys -> Passes \cup {None}]
      BY <1>0, <1>7, NewJobTyped, WriteJobTyped DEF InsertJob
    <2>2. pc' \in [Passes -> Places] /\ local' \in [Passes -> Local] /\ KeyAtHand'
      BY <1>0, <1>7, <1>n, GoToTyped DEF InsertJob, Places, AtHand
    <2>3. Current(p) \in Keys
      BY <1>0, <1>7 DEF InsertJob, Typed, KeyAtHand, AtHand, Current
    <2>4. older' \subseteq Keys \X Keys
      BY <1>7, <2>3 DEF InsertJob, Existing, Typed
    <2> QED
      BY <1>7, <2>1, <2>2, <2>4 DEF InsertJob, Typed, tables
  <1>8. CASE InsertCollides(p)
    BY <1>0, <1>8, EndPassTyped DEF InsertCollides, Typed
  <1>9. CASE CommitPlan(p)
    BY <1>0, <1>9, EndPassTyped DEF CommitPlan, Typed
  <1> QED
    BY <1>1, <1>2, <1>3, <1>4, <1>5, <1>6, <1>7, <1>8, <1>9 DEF PlannerStep

LEMMA RetryDueTyped ==
  ASSUME Typed, NEW k \in Keys, RetryDue(k)
  PROVE  /\ Typed'
         /\ \A j \in Keys : /\ jobs'[j].status = jobs[j].status
                            /\ jobs'[j].attempts = jobs[j].attempts
                            /\ j # k => jobs'[j] = jobs[j]
                            /\ j # k => jobDraft'[j] = jobDraft[j]
         /\ ~jobs'[k].waiting /\ jobDraft'[k] = [jobDraft[k] EXCEPT !.waiting = FALSE]
  <1>1. jobs[k] \in JobRow /\ jobDraft[k] \in JobRow
    BY DEF Typed
  <1>2. \A row \in JobRow : /\ [row EXCEPT !.waiting = FALSE] \in JobRow
                            /\ [row EXCEPT !.waiting = FALSE].status = row.status
                            /\ [row EXCEPT !.waiting = FALSE].attempts = row.attempts
                            /\ ~[row EXCEPT !.waiting = FALSE].waiting
    BY DEF JobRow
  <1>3. /\ jobs' = [jobs EXCEPT ![k] = [jobs[k] EXCEPT !.waiting = FALSE]]
        /\ jobDraft' = [jobDraft EXCEPT ![k] = [jobDraft[k] EXCEPT !.waiting = FALSE]]
        /\ UNCHANGED <<chunk, vectors, jobLock, vectorDraft, vectorLock, older, pc,
                       local, crashes>>
    BY DEF RetryDue
  <1>4. jobs' \in [Keys -> JobRow] /\ jobDraft' \in [Keys -> JobRow]
    BY <1>1, <1>2, <1>3 DEF Typed
  <1>5. KeyAtHand'
    BY <1>3 DEF Typed, KeyAtHand
  <1> QED
    BY <1>1, <1>2, <1>3, <1>4, <1>5 DEF Typed

(* What a transaction's end changes, row by row.                           *)
LEMMA EndPassFacts ==
  ASSUME Typed, NEW p \in Passes, NEW keep \in BOOLEAN, EndPass(p, keep)
  PROVE  /\ pc'[p] = "idle" /\ local'[p] = NoLocal
         /\ \A q \in Passes \ {p} : pc'[q] = pc[q] /\ local'[q] = local[q]
         /\ \A k \in Keys :
              /\ jobs'[k] = IF keep THEN JobSeen(p, k) ELSE jobs[k]
              /\ vectors'[k] = IF keep THEN VectorSeen(p, k) ELSE vectors[k]
              /\ jobDraft'[k] = IF jobLock[k] = p THEN jobs'[k] ELSE jobDraft[k]
              /\ vectorDraft'[k] = IF vectorLock[k] = p THEN vectors'[k]
                                   ELSE vectorDraft[k]
              /\ jobLock'[k] = IF jobLock[k] = p THEN None ELSE jobLock[k]
              /\ vectorLock'[k] = IF vectorLock[k] = p THEN None ELSE vectorLock[k]
  BY DEF Typed, EndPass, GoTo

(* What a write changes.                                                   *)
LEMMA WriteJobFacts ==
  ASSUME Typed, NEW p \in Passes, NEW k \in Keys, NEW row, WriteJob(p, k, row)
  PROVE  /\ jobLock[k] \in {None, p}
         /\ jobDraft'[k] = row /\ jobLock'[k] = p
         /\ \A j \in Keys \ {k} : jobDraft'[j] = jobDraft[j] /\ jobLock'[j] = jobLock[j]
  BY DEF Typed, WriteJob, Free

LEMMA WriteVectorsFacts ==
  ASSUME Typed, NEW p \in Passes, NEW off \in SUBSET Keys, NEW on \in SUBSET Keys,
         WriteVectors(p, off, on)
  PROVE  \A k \in Keys :
           /\ k \in off \cup on => /\ vectorLock[k] \in {None, p}
                                   /\ vectorLock'[k] = p
           /\ k \notin off \cup on => /\ vectorLock'[k] = vectorLock[k]
                                      /\ vectorDraft'[k] = vectorDraft[k]
           /\ k \in on => vectorDraft'[k] = "active"
           /\ k \in off \ on => vectorDraft'[k] = "inactive"
  BY DEF WriteVectors, Free

(* Rows nobody holds are as committed, through every kind of step.         *)
LEMMA DraftsEndPass ==
  ASSUME Typed, DraftsHeld, NEW p \in Passes, NEW keep \in BOOLEAN, EndPass(p, keep)
  PROVE  DraftsHeld'
  <1> SUFFICES ASSUME NEW k \in Keys
               PROVE  /\ jobLock'[k] = None => jobDraft'[k] = jobs'[k]
                      /\ vectorLock'[k] = None => vectorDraft'[k] = vectors'[k]
                      /\ \A q \in Passes :
                           jobLock'[k] = q \/ vectorLock'[k] = q => pc'[q] # "idle"
    BY DEF DraftsHeld
  <1>1. /\ jobs'[k] = IF keep THEN JobSeen(p, k) ELSE jobs[k]
        /\ vectors'[k] = IF keep THEN VectorSeen(p, k) ELSE vectors[k]
        /\ jobDraft'[k] = IF jobLock[k] = p THEN jobs'[k] ELSE jobDraft[k]
        /\ vectorDraft'[k] = IF vectorLock[k] = p THEN vectors'[k] ELSE vectorDraft[k]
        /\ jobLock'[k] = IF jobLock[k] = p THEN None ELSE jobLock[k]
        /\ vectorLock'[k] = IF vectorLock[k] = p THEN None ELSE vectorLock[k]
        /\ \A q \in Passes \ {p} : pc'[q] = pc[q]
    BY EndPassFacts
  <1>2. jobLock'[k] = None => jobDraft'[k] = jobs'[k]
    BY <1>1 DEF DraftsHeld, JobSeen
  <1>3. vectorLock'[k] = None => vectorDraft'[k] = vectors'[k]
    BY <1>1 DEF DraftsHeld, VectorSeen
  <1>4. ASSUME NEW q \in Passes, jobLock'[k] = q \/ vectorLock'[k] = q
        PROVE  pc'[q] # "idle"
    BY <1>1, <1>4, NoPass DEF DraftsHeld
  <1> QED
    BY <1>2, <1>3, <1>4

(* A pass that writes rows is not idle afterwards.                         *)
LEMMA DraftsWrite ==
  ASSUME Typed, DraftsHeld, NEW p \in Passes, NEW place \in Places, NEW l,
         place # "idle", GoTo(p, place, l), UNCHANGED tables,
         \A k \in Keys : \/ jobDraft'[k] = jobDraft[k] /\ jobLock'[k] = jobLock[k]
                         \/ jobLock'[k] = p,
         \A k \in Keys : \/ vectorDraft'[k] = vectorDraft[k] /\ vectorLock'[k] = vectorLock[k]
                         \/ vectorLock'[k] = p
  PROVE  DraftsHeld'
  <1>1. pc'[p] = place /\ \A q \in Passes \ {p} : pc'[q] = pc[q]
    BY DEF Typed, GoTo
  <1> SUFFICES ASSUME NEW k \in Keys
               PROVE  /\ jobLock'[k] = None => jobDraft'[k] = jobs'[k]
                      /\ vectorLock'[k] = None => vectorDraft'[k] = vectors'[k]
                      /\ \A q \in Passes :
                           jobLock'[k] = q \/ vectorLock'[k] = q => pc'[q] # "idle"
    BY DEF DraftsHeld
  <1> QED
    BY <1>1, NoPass DEF DraftsHeld, tables

LEMMA DraftsWorker ==
  ASSUME Typed, DraftsHeld, NEW w \in Workers, WorkerStep(w)
  PROVE  DraftsHeld'
  <1>0. w \in Passes /\ local[w].stale \in SUBSET Keys
    BY LocalFacts DEF Typed, Passes
  <1>k. pc[w] \in AtHand => Current(w) \in Keys
    BY <1>0 DEF Typed, KeyAtHand, Current
  <1>1. CASE Claim(w)
    <2> DEFINE batch == Among({k \in Keys : Claimable(k)}, older, BatchSize)
    <2>1. /\ jobLock' = [k \in Keys |-> IF k \in batch THEN w ELSE jobLock[k]]
          /\ GoTo(w, "next", [NoLocal EXCEPT !.batch = batch])
          /\ UNCHANGED <<chunk, tables, jobDraft, vectorDraft, vectorLock, older,
                         crashes>>
      BY <1>1 DEF Claim
    <2> HIDE DEF batch
    <2> QED
      BY <1>0, <2>1, DraftsWrite DEF Places
  <1>2. ASSUME NEW k \in Keys, Load(w, k)
        PROVE  DraftsHeld'
    <2> DEFINE seen == IF local[w].seen.name = k[1] THEN local[w].seen
                       ELSE [name |-> k[1], row |-> chunk[k[1]]]
               rest == [local[w] EXCEPT !.batch = @ \ {k}, !.key = k, !.seen = seen]
               job == [jobDraft[k] EXCEPT !.status = "running", !.attempts = @ + 1]
    <2>1. /\ GoTo(w, "check", rest)
          /\ WriteJob(w, k, job)
          /\ UNCHANGED <<chunk, tables, vectorDraft, vectorLock, older, crashes>>
      BY <1>2 DEF Load
    <2> HIDE DEF rest, job
    <2>2. /\ jobLock'[k] = w
          /\ \A j \in Keys \ {k} : jobDraft'[j] = jobDraft[j] /\ jobLock'[j] = jobLock[j]
      BY <1>0, <2>1, WriteJobFacts
    <2> QED
      BY <1>0, <2>1, <2>2, DraftsWrite DEF Places
  <1>3. CASE Check(w)
    <2>1. /\ \/ GoTo(w, "embed", local[w])
             \/ GoTo(w, "drop", [local[w] EXCEPT !.stale = ActiveOf(w, Current(w)[1])])
          /\ UNCHANGED <<chunk, tables, drafts, older, crashes>>
      BY <1>3 DEF Check
    <2> QED
      BY <1>0, <2>1, DraftsWrite DEF Places, drafts
  <1>4. CASE CancelJob(w)
    <2>1. /\ WriteVectors(w, local[w].stale, {})
          /\ WriteJob(w, Current(w), Settled(w, "cancelled", FALSE))
          /\ GoTo(w, "next", Done(w)) /\ UNCHANGED tables /\ Current(w) \in Keys
      BY <1>4, <1>k DEF CancelJob, AtHand
    <2>2. /\ jobLock'[Current(w)] = w
          /\ \A j \in Keys \ {Current(w)} :
               jobDraft'[j] = jobDraft[j] /\ jobLock'[j] = jobLock[j]
      BY <1>0, <2>1, WriteJobFacts
    <2>3. \A k \in Keys :
            \/ vectorDraft'[k] = vectorDraft[k] /\ vectorLock'[k] = vectorLock[k]
            \/ vectorLock'[k] = w
      BY <1>0, <2>1, WriteVectorsFacts
    <2> QED
      BY <1>0, <2>1, <2>2, <2>3, DraftsWrite DEF Places
  <1>5. CASE RecordJobError(w)
    <2> DEFINE job == IF jobDraft[Current(w)].attempts >= MaxAttempts
                      THEN Settled(w, "failed", FALSE)
                      ELSE Settled(w, "retrying", TRUE)
    <2>1. /\ WriteJob(w, Current(w), job)
          /\ GoTo(w, "next", Done(w)) /\ Current(w) \in Keys
          /\ UNCHANGED <<chunk, tables, vectorDraft, vectorLock, older, crashes>>
      BY <1>5, <1>k DEF RecordJobError, AtHand
    <2> HIDE DEF job
    <2>2. /\ jobLock'[Current(w)] = w
          /\ \A j \in Keys \ {Current(w)} :
               jobDraft'[j] = jobDraft[j] /\ jobLock'[j] = jobLock[j]
      BY <1>0, <2>1, WriteJobFacts
    <2> QED
      BY <1>0, <2>1, <2>2, DraftsWrite DEF Places
  <1>6. CASE Embed(w)
    <2>1. /\ GoTo(w, "store", [local[w] EXCEPT
                !.stale = ActiveOf(w, Current(w)[1]) \ {Current(w)}])
          /\ UNCHANGED <<chunk, tables, drafts, older, crashes>>
      BY <1>6 DEF Embed
    <2> QED
      BY <1>0, <2>1, DraftsWrite DEF Places, drafts
  <1>7. CASE Store(w)
    <2>1. /\ WriteVectors(w, local[w].stale, {Current(w)})
          /\ WriteJob(w, Current(w), Settled(w, "succeeded", FALSE))
          /\ GoTo(w, "next", Done(w)) /\ UNCHANGED tables /\ Current(w) \in Keys
      BY <1>7, <1>k DEF Store, AtHand
    <2>2. /\ jobLock'[Current(w)] = w
          /\ \A j \in Keys \ {Current(w)} :
               jobDraft'[j] = jobDraft[j] /\ jobLock'[j] = jobLock[j]
      BY <1>0, <2>1, WriteJobFacts
    <2>3. \A k \in Keys :
            \/ vectorDraft'[k] = vectorDraft[k] /\ vectorLock'[k] = vectorLock[k]
            \/ vectorLock'[k] = w
      <3> DEFINE mine == {Current(w)}
      <3>1. mine \in SUBSET Keys /\ WriteVectors(w, local[w].stale, mine)
        BY <2>1
      <3> HIDE DEF mine
      <3> QED
        BY <1>0, <3>1, WriteVectorsFacts
    <2> QED
      BY <1>0, <2>1, <2>2, <2>3, DraftsWrite DEF Places
  <1>8. CASE CommitBatch(w)
    BY <1>0, <1>8, DraftsEndPass DEF CommitBatch
  <1> QED
    BY <1>1, <1>2, <1>3, <1>4, <1>5, <1>6, <1>7, <1>8 DEF WorkerStep

LEMMA DraftsPlanner ==
  ASSUME Typed, DraftsHeld, NEW p \in Planners, PlannerStep(p)
  PROVE  DraftsHeld'
  <1>0. p \in Passes /\ local[p].stale \in SUBSET Keys
    BY LocalFacts DEF Typed, Passes
  <1>k. pc[p] \in AtHand => Current(p) \in Keys
    BY <1>0 DEF Typed, KeyAtHand, Current
  <1>1. ASSUME NEW place \in Places, NEW l, place # "idle", GoTo(p, place, l),
               UNCHANGED <<chunk, tables, drafts, older, crashes>>
        PROVE  DraftsHeld'
    BY <1>0, <1>1, DraftsWrite DEF drafts
  <1>2. CASE StartPlan(p)
    BY <1>1, <1>2 DEF StartPlan, Places
  <1>3. ASSUME NEW c \in Chunks, Sweep(p, c)
        PROVE  DraftsHeld'
    <2>1. /\ \/ GoTo(p, "sweep", [local[p] EXCEPT !.todo = @ \ {c}])
             \/ GoTo(p, "sweepDrop", [[local[p] EXCEPT !.todo = @ \ {c}] EXCEPT
                                        !.stale = ActiveOf(p, c)])
          /\ UNCHANGED <<chunk, tables, drafts, older, crashes>>
      BY <1>3 DEF Sweep
    <2> QED
      BY <1>1, <2>1 DEF Places
  <1>4. CASE DropVectors(p)
    <2> DEFINE place == IF pc[p] = "sweepDrop" THEN "sweep" ELSE "plan"
    <2>1. /\ WriteVectors(p, local[p].stale, {})
          /\ GoTo(p, place, [local[p] EXCEPT !.stale = {}])
          /\ UNCHANGED <<chunk, tables, jobDraft, jobLock, older, crashes>>
      BY <1>4 DEF DropVectors
    <2>2. place \in Places /\ place # "idle"
      BY DEF Places
    <2> HIDE DEF place
    <2>3. \A k \in Keys :
            \/ vectorDraft'[k] = vectorDraft[k] /\ vectorLock'[k] = vectorLock[k]
            \/ vectorLock'[k] = p
      BY <1>0, <2>1, WriteVectorsFacts
    <2> QED
      BY <1>0, <2>1, <2>2, <2>3, DraftsWrite
  <1>5. CASE SelectChunks(p)
    BY <1>1, <1>5 DEF SelectChunks, Places
  <1>6. ASSUME NEW r \in local[p].rows, PlanChunk(p, r)
        PROVE  DraftsHeld'
    <2> DEFINE place == Decide(p, r)
               rest  == [local[p] EXCEPT
                  !.rows = @ \ {r},
                  !.key = IF place \in {"reset", "insert"}
                          THEN <<r.name, r.row.hash>> ELSE None,
                  !.stale = IF place = "planDrop" THEN ActiveOf(p, r.name) ELSE {}]
    <2>1. /\ GoTo(p, place, rest)
          /\ UNCHANGED <<chunk, tables, drafts, older, crashes>>
      BY <1>6 DEF PlanChunk
    <2>2. place \in Places /\ place # "idle"
      BY DEF Decide, Places
    <2> HIDE DEF place, rest
    <2> QED
      BY <1>1, <2>1, <2>2
  <1>7. CASE ResetFailedJob(p) \/ InsertJob(p)
    <2>1. /\ WriteJob(p, Current(p), NewJob)
          /\ GoTo(p, "plan", Planned(p)) /\ Current(p) \in Keys
          /\ UNCHANGED <<chunk, tables, vectorDraft, vectorLock, crashes>>
      BY <1>7, <1>k DEF ResetFailedJob, InsertJob, AtHand
    <2>2. /\ jobLock'[Current(p)] = p
          /\ \A j \in Keys \ {Current(p)} :
               jobDraft'[j] = jobDraft[j] /\ jobLock'[j] = jobLock[j]
      BY <1>0, <2>1, WriteJobFacts
    <2> QED
      BY <1>0, <2>1, <2>2, DraftsWrite DEF Places
  <1>8. CASE InsertCollides(p)
    BY <1>0, <1>8, DraftsEndPass DEF InsertCollides
  <1>9. CASE CommitPlan(p)
    BY <1>0, <1>9, DraftsEndPass DEF CommitPlan
  <1> QED
    BY <1>1, <1>2, <1>3, <1>4, <1>5, <1>6, <1>7, <1>8, <1>9 DEF PlannerStep

LEMMA TypeStep ==
  ASSUME Typed, DraftsHeld, [EmbeddingNext]_vars
  PROVE  Typed' /\ DraftsHeld'
  <1>1. CASE CatalogChanges
    <2>1. chunk' \in ChunkTable
      BY <1>1, ChunkStepTyped DEF CatalogChanges, Typed
    <2> QED
      BY <1>1, <2>1 DEF CatalogChanges, Typed, KeyAtHand, DraftsHeld, tables, drafts
  <1>2. ASSUME NEW w \in Workers, WorkerStep(w)
        PROVE  Typed' /\ DraftsHeld'
    BY <1>2, WorkerTyped, DraftsWorker
  <1>3. ASSUME NEW p \in Planners, PlannerStep(p)
        PROVE  Typed' /\ DraftsHeld'
    BY <1>3, PlannerTyped, DraftsPlanner
  <1>4. ASSUME NEW p \in Passes, Die(p) \/ FailVictim(p)
        PROVE  Typed' /\ DraftsHeld'
    <2>1. EndPass(p, FALSE)
      BY <1>4 DEF Die, FailVictim
    <2>2. crashes' \in 0..MaxCrashes
      <3>1. CASE Die(p)
        BY <3>1, EmbeddingConstants DEF Die, Typed
      <3>2. CASE FailVictim(p)
        BY <3>2 DEF FailVictim, Typed
      <3> QED
        BY <1>4, <3>1, <3>2
    <2> QED
      BY <2>1, <2>2, EndPassTyped, DraftsEndPass
  <1>5. ASSUME NEW k \in Keys, RetryDue(k)
        PROVE  Typed' /\ DraftsHeld'
    <2>1. Typed' /\ \A j \in Keys \ {k} : jobs'[j] = jobs[j] /\ jobDraft'[j] = jobDraft[j]
      BY <1>5, RetryDueTyped
    <2>2. jobDraft[k] = jobs[k]
      BY <1>5 DEF RetryDue, DraftsHeld
    <2>3. jobDraft'[k] = jobs'[k]
      BY <1>5, <2>2 DEF RetryDue, Typed
    <2> QED
      BY <1>5, <2>1, <2>3 DEF RetryDue, DraftsHeld
  <1>6. CASE UNCHANGED vars
    BY <1>6 DEF vars, tables, drafts, Typed, KeyAtHand, DraftsHeld
  <1> QED
    BY <1>1, <1>2, <1>3, <1>4, <1>5, <1>6 DEF EmbeddingNext

(* Whatever workers, planners, crashes and catalogue changes overlap, the  *)
(* rows keep their types and a row nobody holds is as committed            *)
(* (embeddings/jobs.py, embeddings/storage.py).                            *)
THEOREM EmbeddingTypeCorrect == EmbeddingSpec => []TypeOK
  <1>1. EmbeddingInit => Typed /\ DraftsHeld
    <2>1. EmbeddingInit => DraftsHeld
      BY NoPass DEF EmbeddingInit, DraftsHeld
    <2> QED
      BY <2>1, InitTyped
  <1>2. Typed /\ DraftsHeld /\ [EmbeddingNext]_vars => (Typed /\ DraftsHeld)'
    BY TypeStep
  <1>3. Typed /\ DraftsHeld => TypeOK
    BY TypeParts
  <1> QED
    BY <1>1, <1>2, <1>3, PTL DEF EmbeddingSpec

-----------------------------------------------------------------------------
(* What each step writes, row by row.                                      *)

Alone(p) == \A q \in Passes \ {p} : pc'[q] = pc[q] /\ local'[q] = local[q]

JobsKept == jobDraft' = jobDraft /\ jobLock' = jobLock
VectorsKept == vectorDraft' = vectorDraft /\ vectorLock' = vectorLock
TablesKept == jobs' = jobs /\ vectors' = vectors

LEMMA MoveFacts ==
  ASSUME Typed, NEW p \in Passes, NEW place, NEW l, GoTo(p, place, l)
  PROVE  Alone(p) /\ pc'[p] = place /\ local'[p] = l
  BY DEF Typed, GoTo, Alone

LEMMA ClaimFacts ==
  ASSUME Typed, NEW w \in Workers, Claim(w)
  PROVE  /\ Alone(w) /\ TablesKept /\ VectorsKept /\ jobDraft' = jobDraft
         /\ pc[w] = "idle" /\ pc'[w] = "next" /\ local'[w].stale = {}
         /\ \A k \in local'[w].batch : k \in Keys /\ Claimable(k)
         /\ \A k \in Keys : jobLock'[k] = IF k \in local'[w].batch THEN w
                                         ELSE jobLock[k]
  <1>0. w \in Passes
    BY DEF Passes
  <1> DEFINE batch == Among({k \in Keys : Claimable(k)}, older, BatchSize)
             rest  == [NoLocal EXCEPT !.batch = batch]
  <1>1. \A k \in batch : k \in Keys /\ Claimable(k)
    BY DEF Among
  <1>2. /\ jobLock' = [k \in Keys |-> IF k \in batch THEN w ELSE jobLock[k]]
        /\ pc[w] = "idle" /\ GoTo(w, "next", rest)
        /\ UNCHANGED <<chunk, tables, jobDraft, vectorDraft, vectorLock, older,
                       crashes>>
    BY DEF Claim
  <1> HIDE DEF batch
  <1>3. rest.batch = batch /\ rest.stale = {}
    BY DEF NoLocal
  <1> HIDE DEF rest
  <1>4. Alone(w) /\ pc'[w] = "next" /\ local'[w] = rest
    BY <1>0, <1>2, MoveFacts
  <1> QED
    BY <1>1, <1>2, <1>3, <1>4 DEF TablesKept, VectorsKept, tables

LEMMA LoadFacts ==
  ASSUME Typed, NEW w \in Workers, NEW k \in Keys, Load(w, k)
  PROVE  /\ Alone(w) /\ TablesKept /\ VectorsKept
         /\ pc[w] = "next" /\ pc'[w] = "check"
         /\ k \in local[w].batch /\ local'[w].batch = local[w].batch \ {k}
         /\ local'[w].key = k /\ local'[w].stale = local[w].stale
         /\ jobDraft'[k] = [status |-> "running", waiting |-> jobDraft[k].waiting,
                            attempts |-> jobDraft[k].attempts + 1]
         /\ jobLock[k] \in {None, w} /\ jobLock'[k] = w
         /\ \A j \in Keys \ {k} : jobDraft'[j] = jobDraft[j] /\ jobLock'[j] = jobLock[j]
  <1>0. w \in Passes
    BY DEF Passes
  <1> DEFINE l == local[w]
             seen == IF l.seen.name = k[1] THEN l.seen
                     ELSE [name |-> k[1], row |-> chunk[k[1]]]
             rest == [l EXCEPT !.batch = @ \ {k}, !.key = k, !.seen = seen]
             job == [jobDraft[k] EXCEPT !.status = "running", !.attempts = @ + 1]
  <1>1. /\ GoTo(w, "check", rest) /\ WriteJob(w, k, job)
        /\ pc[w] = "next" /\ k \in l.batch
        /\ UNCHANGED <<chunk, tables, vectorDraft, vectorLock, older, crashes>>
    BY DEF Load
  <1>2. job = [status |-> "running", waiting |-> jobDraft[k].waiting,
               attempts |-> jobDraft[k].attempts + 1]
    <2>1. jobDraft[k] \in JobRow
      BY DEF Typed
    <2>2. job = [jobDraft[k] EXCEPT !.status = "running",
                                    !.attempts = jobDraft[k].attempts + 1]
      OBVIOUS
    <2> HIDE DEF job
    <2> QED
      BY <2>1, <2>2 DEF JobRow
  <1>3. l \in Local
    BY <1>0 DEF Typed
  <1> HIDE DEF seen, job
  <1>4. rest.batch = l.batch \ {k} /\ rest.key = k /\ rest.stale = l.stale
    <2> HIDE DEF l
    <2> QED
      BY <1>3 DEF Local
  <1> HIDE DEF rest
  <1>5. Alone(w) /\ pc'[w] = "check" /\ local'[w] = rest
    BY <1>0, <1>1, MoveFacts
  <1>6. /\ jobLock[k] \in {None, w} /\ jobDraft'[k] = job /\ jobLock'[k] = w
        /\ \A j \in Keys \ {k} : jobDraft'[j] = jobDraft[j] /\ jobLock'[j] = jobLock[j]
    BY <1>0, <1>1, WriteJobFacts
  <1> QED
    BY <1>1, <1>2, <1>4, <1>5, <1>6 DEF TablesKept, VectorsKept, tables

LEMMA CheckFacts ==
  ASSUME Typed, NEW w \in Workers, Check(w) \/ Embed(w)
  PROVE  /\ Alone(w) /\ TablesKept /\ VectorsKept /\ JobsKept
         /\ pc[w] \in {"check", "embed"} /\ pc'[w] \in {"embed", "drop", "store"}
         /\ local'[w].batch = local[w].batch /\ local'[w].key = local[w].key
         /\ local'[w].stale \subseteq local[w].stale \cup ActiveOf(w, Current(w)[1])
         /\ pc'[w] = "store" =>
              ActiveOf(w, Current(w)[1]) \subseteq local'[w].stale \cup {Current(w)}
  <1>0. w \in Passes
    BY DEF Passes
  <1> DEFINE l == local[w]
             active == ActiveOf(w, Current(w)[1])
  <1>1. l \in Local
    BY <1>0 DEF Typed
  <1>2. ASSUME NEW stale
        PROVE  /\ [l EXCEPT !.stale = stale].batch = l.batch
               /\ [l EXCEPT !.stale = stale].key = l.key
               /\ [l EXCEPT !.stale = stale].stale = stale
    <2> HIDE DEF l
    <2> QED
      BY <1>1 DEF Local
  <1>3. CASE Check(w)
    <2>1. /\ pc[w] = "check"
          /\ GoTo(w, "embed", l) \/ GoTo(w, "drop", [l EXCEPT !.stale = active])
          /\ UNCHANGED <<tables, drafts>>
      BY <1>3 DEF Check
    <2> HIDE DEF l, active
    <2>2. /\ Alone(w)
          /\ \/ pc'[w] = "embed" /\ local'[w] = l
             \/ pc'[w] = "drop" /\ local'[w] = [l EXCEPT !.stale = active]
      BY <1>0, <2>1, MoveFacts
    <2>3. /\ pc'[w] \in {"embed", "drop"}
          /\ local'[w].batch = l.batch /\ local'[w].key = l.key
          /\ local'[w].stale \in {l.stale, active}
      <3>1. PICK dropping : dropping = [l EXCEPT !.stale = active]
        OBVIOUS
      <3>2. dropping.batch = l.batch /\ dropping.key = l.key /\ dropping.stale = active
        BY <1>2, <3>1
      <3> QED
        BY <2>2, <3>1, <3>2
    <2> QED
      BY <2>1, <2>2, <2>3
         DEF l, active, TablesKept, VectorsKept, JobsKept, tables, drafts
  <1>4. CASE Embed(w)
    <2> DEFINE stale == active \ {Current(w)}
    <2>1. /\ pc[w] = "embed" /\ GoTo(w, "store", [l EXCEPT !.stale = stale])
          /\ UNCHANGED <<tables, drafts>>
      BY <1>4 DEF Embed
    <2> HIDE DEF l, stale
    <2>2. Alone(w) /\ pc'[w] = "store" /\ local'[w] = [l EXCEPT !.stale = stale]
      BY <1>0, <2>1, MoveFacts
    <2>3. /\ local'[w].batch = l.batch /\ local'[w].key = l.key
          /\ local'[w].stale = stale
      BY <1>2, <2>2
    <2> QED
      BY <2>1, <2>2, <2>3
         DEF l, stale, TablesKept, VectorsKept, JobsKept, tables, drafts
  <1> QED
    BY <1>3, <1>4

(* A worker is done with its job: what all three outcomes have in common.  *)
LEMMA OutcomeWritten ==
  ASSUME Typed, NEW w \in Workers, pc[w] \in AtHand,
         NEW status \in OpenStatus \cup TerminalStatus, NEW waiting \in BOOLEAN,
         WriteJob(w, Current(w), Settled(w, status, waiting)),
         GoTo(w, "next", Done(w))
  PROVE  /\ Alone(w) /\ pc'[w] = "next" /\ Current(w) \in Keys
         /\ local'[w].batch = local[w].batch /\ local'[w].stale = {}
         /\ jobLock[Current(w)] \in {None, w} /\ jobLock'[Current(w)] = w
         /\ jobDraft'[Current(w)].status = status
         /\ jobDraft'[Current(w)].waiting = waiting
         /\ jobDraft'[Current(w)].attempts = jobDraft[Current(w)].attempts
         /\ \A j \in Keys \ {Current(w)} :
              jobDraft'[j] = jobDraft[j] /\ jobLock'[j] = jobLock[j]
  <1>0. w \in Passes
    BY DEF Passes
  <1>1. Current(w) \in Keys
    BY <1>0 DEF Typed, KeyAtHand, Current
  <1>2. Alone(w) /\ pc'[w] = "next" /\ local'[w] = Done(w)
    BY <1>0, MoveFacts
  <1>3. Done(w).batch = local[w].batch /\ Done(w).stale = {}
    <2> DEFINE l == local[w]
    <2>1. l \in Local /\ Done(w) = [l EXCEPT !.key = None, !.stale = {}]
      BY <1>0 DEF Typed, Done
    <2> HIDE DEF l
    <2>2. Done(w).batch = l.batch /\ Done(w).stale = {}
      BY <2>1 DEF Local
    <2> QED
      BY <2>2 DEF l
  <1> DEFINE job == Settled(w, status, waiting)
  <1>4. /\ job.status = status /\ job.waiting = waiting
        /\ job.attempts = jobDraft[Current(w)].attempts
    <2> DEFINE row == jobDraft[Current(w)]
    <2>1. row \in JobRow /\ job = [row EXCEPT !.status = status, !.waiting = waiting]
      BY <1>1 DEF Typed, Settled
    <2> HIDE DEF job, row
    <2>2. job = [status |-> status, attempts |-> row.attempts, waiting |-> waiting]
      BY <2>1 DEF JobRow
    <2> QED
      BY <2>2 DEF row
  <1> HIDE DEF job
  <1>5. /\ jobLock[Current(w)] \in {None, w} /\ jobLock'[Current(w)] = w
        /\ jobDraft'[Current(w)] = job
        /\ \A j \in Keys \ {Current(w)} :
             jobDraft'[j] = jobDraft[j] /\ jobLock'[j] = jobLock[j]
    <2>1. WriteJob(w, Current(w), job)
      BY DEF job
    <2> QED
      BY <1>0, <1>1, <2>1, WriteJobFacts
  <1> QED
    BY <1>1, <1>2, <1>3, <1>4, <1>5

WrittenBy(w) ==
  /\ Alone(w) /\ pc'[w] = "next" /\ Current(w) \in Keys
  /\ local'[w].batch = local[w].batch /\ local'[w].stale = {}
  /\ jobLock[Current(w)] \in {None, w} /\ jobLock'[Current(w)] = w
  /\ jobDraft'[Current(w)].attempts = jobDraft[Current(w)].attempts
  /\ \A j \in Keys \ {Current(w)} :
       jobDraft'[j] = jobDraft[j] /\ jobLock'[j] = jobLock[j]

LEMMA CancelFacts ==
  ASSUME Typed, NEW w \in Workers, CancelJob(w)
  PROVE  /\ WrittenBy(w) /\ TablesKept /\ pc[w] \in Busy
         /\ jobDraft'[Current(w)].status = "cancelled"
         /\ jobDraft'[Current(w)].waiting = FALSE
         /\ \A k \in Keys :
              IF k \in local[w].stale
              THEN /\ vectorLock[k] \in {None, w} /\ vectorLock'[k] = w
                   /\ vectorDraft'[k] = "inactive"
              ELSE vectorLock'[k] = vectorLock[k] /\ vectorDraft'[k] = vectorDraft[k]
  <1>0. w \in Passes /\ local[w].stale \in SUBSET Keys
    BY LocalFacts DEF Typed, Passes
  <1>1. /\ pc[w] = "drop" /\ WriteVectors(w, local[w].stale, {})
        /\ WriteJob(w, Current(w), Settled(w, "cancelled", FALSE))
        /\ GoTo(w, "next", Done(w)) /\ UNCHANGED <<chunk, tables, older, crashes>>
    BY DEF CancelJob
  <1>2. /\ WrittenBy(w) /\ jobDraft'[Current(w)].status = "cancelled"
        /\ jobDraft'[Current(w)].waiting = FALSE
    BY <1>1, OutcomeWritten DEF WrittenBy, AtHand, TerminalStatus
  <1>3. \A k \in Keys :
          IF k \in local[w].stale
          THEN /\ vectorLock[k] \in {None, w} /\ vectorLock'[k] = w
               /\ vectorDraft'[k] = "inactive"
          ELSE vectorLock'[k] = vectorLock[k] /\ vectorDraft'[k] = vectorDraft[k]
    BY <1>0, <1>1, WriteVectorsFacts
  <1> QED
    BY <1>1, <1>2, <1>3 DEF TablesKept, tables, Busy

LEMMA ErrorFacts ==
  ASSUME Typed, NEW w \in Workers, RecordJobError(w)
  PROVE  /\ WrittenBy(w) /\ TablesKept /\ VectorsKept /\ pc[w] \in Busy
         /\ \/ /\ jobDraft[Current(w)].attempts >= MaxAttempts
               /\ jobDraft'[Current(w)].status = "failed"
               /\ jobDraft'[Current(w)].waiting = FALSE
            \/ /\ ~(jobDraft[Current(w)].attempts >= MaxAttempts)
               /\ jobDraft'[Current(w)].status = "retrying"
               /\ jobDraft'[Current(w)].waiting = TRUE
  <1>1. /\ pc[w] = "embed" /\ GoTo(w, "next", Done(w))
        /\ \/ /\ jobDraft[Current(w)].attempts >= MaxAttempts
              /\ WriteJob(w, Current(w), Settled(w, "failed", FALSE))
           \/ /\ ~(jobDraft[Current(w)].attempts >= MaxAttempts)
              /\ WriteJob(w, Current(w), Settled(w, "retrying", TRUE))
        /\ UNCHANGED <<chunk, tables, vectorDraft, vectorLock, older, crashes>>
    BY DEF RecordJobError
  <1>2. CASE /\ jobDraft[Current(w)].attempts >= MaxAttempts
             /\ WriteJob(w, Current(w), Settled(w, "failed", FALSE))
    BY <1>1, <1>2, OutcomeWritten
       DEF WrittenBy, AtHand, TerminalStatus, TablesKept, VectorsKept, tables, Busy
  <1>3. CASE /\ ~(jobDraft[Current(w)].attempts >= MaxAttempts)
             /\ WriteJob(w, Current(w), Settled(w, "retrying", TRUE))
    BY <1>1, <1>3, OutcomeWritten
       DEF WrittenBy, AtHand, OpenStatus, TablesKept, VectorsKept, tables, Busy
  <1> QED
    BY <1>1, <1>2, <1>3

LEMMA StoreFacts ==
  ASSUME Typed, NEW w \in Workers, Store(w)
  PROVE  /\ WrittenBy(w) /\ TablesKept /\ pc[w] = "store"
         /\ jobDraft'[Current(w)].status = "succeeded"
         /\ jobDraft'[Current(w)].waiting = FALSE
         /\ vectorLock[Current(w)] \in {None, w} /\ vectorLock'[Current(w)] = w
         /\ vectorDraft'[Current(w)] = "active"
         /\ \A k \in Keys \ {Current(w)} :
              IF k \in local[w].stale
              THEN /\ vectorLock[k] \in {None, w} /\ vectorLock'[k] = w
                   /\ vectorDraft'[k] = "inactive"
              ELSE vectorLock'[k] = vectorLock[k] /\ vectorDraft'[k] = vectorDraft[k]
  <1>0. w \in Passes /\ local[w].stale \in SUBSET Keys
    BY LocalFacts DEF Typed, Passes
  <1> DEFINE mine == {Current(w)}
             stale == local[w].stale
  <1>1. /\ pc[w] = "store" /\ WriteVectors(w, stale, mine)
        /\ WriteJob(w, Current(w), Settled(w, "succeeded", FALSE))
        /\ GoTo(w, "next", Done(w)) /\ UNCHANGED <<chunk, tables, older, crashes>>
    BY DEF Store
  <1>2. /\ WrittenBy(w) /\ jobDraft'[Current(w)].status = "succeeded"
        /\ jobDraft'[Current(w)].waiting = FALSE
    BY <1>1, OutcomeWritten DEF WrittenBy, AtHand, TerminalStatus
  <1>3. mine \in SUBSET Keys
    BY <1>2 DEF WrittenBy
  <1>4. /\ Current(w) \in mine /\ \A k \in mine : k = Current(w)
    OBVIOUS
  <1>6. stale \in SUBSET Keys
    BY <1>0
  <1> HIDE DEF mine, stale
  <1>5. \A k \in Keys :
          /\ k \in stale \cup mine => /\ vectorLock[k] \in {None, w}
                                               /\ vectorLock'[k] = w
          /\ k \notin stale \cup mine => /\ vectorLock'[k] = vectorLock[k]
                                                  /\ vectorDraft'[k] = vectorDraft[k]
          /\ k \in mine => vectorDraft'[k] = "active"
          /\ k \in stale \ mine => vectorDraft'[k] = "inactive"
    BY <1>0, <1>1, <1>3, <1>6, WriteVectorsFacts
  <1> QED
    BY <1>1, <1>2, <1>3, <1>4, <1>5 DEF stale, TablesKept, tables

(* Planners: looking, dropping and entering jobs.                          *)
LEMMA LookFacts ==
  ASSUME Typed, NEW p \in Planners,
         \/ StartPlan(p) \/ SelectChunks(p)
         \/ \E c \in Chunks : Sweep(p, c)
         \/ \E r \in local[p].rows : PlanChunk(p, r)
  PROVE  /\ Alone(p) /\ TablesKept /\ JobsKept /\ VectorsKept
         /\ \A k \in local'[p].stale : \/ k \in local[p].stale
                                       \/ k \in Keys /\ VectorSeen(p, k) = "active"
         /\ pc'[p] = "reset" => JobSeen(p, local'[p].key).status = "failed"
  <1>0. p \in Passes
    BY DEF Passes
  <1> DEFINE l == local[p]
  <1>l. l \in Local
    BY <1>0 DEF Typed
  <1>a. \A c : \A k \in ActiveOf(p, c) : k \in Keys /\ VectorSeen(p, k) = "active"
    BY DEF ActiveOf
  <1>1. CASE StartPlan(p)
    <2> DEFINE rest == [NoLocal EXCEPT !.todo = {c \in Chunks : ActiveOf(p, c) # {}}]
    <2>1. GoTo(p, "sweep", rest) /\ UNCHANGED <<tables, drafts>>
      BY <1>1 DEF StartPlan
    <2>2. rest.stale = {}
      BY DEF NoLocal
    <2> HIDE DEF rest
    <2>3. Alone(p) /\ pc'[p] = "sweep" /\ local'[p] = rest
      BY <1>0, <2>1, MoveFacts
    <2> QED
      BY <2>1, <2>2, <2>3 DEF TablesKept, JobsKept, VectorsKept, tables, drafts
  <1>2. CASE SelectChunks(p)
    <2> DEFINE rest == [l EXCEPT !.rows = Selected]
    <2>1. GoTo(p, "plan", rest) /\ UNCHANGED <<tables, drafts>>
      BY <1>2 DEF SelectChunks
    <2>2. rest.stale = l.stale
      <3> HIDE DEF l
      <3> QED
        BY <1>l DEF Local
    <2> HIDE DEF rest
    <2>3. Alone(p) /\ pc'[p] = "plan" /\ local'[p] = rest
      BY <1>0, <2>1, MoveFacts
    <2> QED
      BY <2>1, <2>2, <2>3 DEF TablesKept, JobsKept, VectorsKept, tables, drafts
  <1>3. ASSUME NEW c \in Chunks, Sweep(p, c)
        PROVE  /\ Alone(p) /\ TablesKept /\ JobsKept /\ VectorsKept
               /\ \A k \in local'[p].stale : \/ k \in local[p].stale
                                             \/ k \in Keys /\ VectorSeen(p, k) = "active"
               /\ pc'[p] # "reset"
    <2> DEFINE rest  == [l EXCEPT !.todo = @ \ {c}]
               found == [rest EXCEPT !.stale = ActiveOf(p, c)]
    <2>1. /\ GoTo(p, "sweep", rest) \/ GoTo(p, "sweepDrop", found)
          /\ UNCHANGED <<tables, drafts>>
      BY <1>3 DEF Sweep
    <2>2. rest.stale = l.stale /\ found.stale = ActiveOf(p, c)
      <3> HIDE DEF l
      <3> QED
        BY <1>l DEF Local
    <2> HIDE DEF rest, found
    <2>3. /\ Alone(p)
          /\ \/ pc'[p] = "sweep" /\ local'[p] = rest
             \/ pc'[p] = "sweepDrop" /\ local'[p] = found
      BY <1>0, <2>1, MoveFacts
    <2> QED
      BY <1>a, <2>1, <2>2, <2>3 DEF TablesKept, JobsKept, VectorsKept, tables, drafts
  <1>4. ASSUME NEW r \in local[p].rows, PlanChunk(p, r)
        PROVE  /\ Alone(p) /\ TablesKept /\ JobsKept /\ VectorsKept
               /\ \A k \in local'[p].stale : k \in Keys /\ VectorSeen(p, k) = "active"
               /\ pc'[p] = "reset" => JobSeen(p, local'[p].key).status = "failed"
    <2> DEFINE place == Decide(p, r)
               key   == IF place \in {"reset", "insert"}
                        THEN <<r.name, r.row.hash>> ELSE None
               stale == IF place = "planDrop" THEN ActiveOf(p, r.name) ELSE {}
               rest  == [l EXCEPT !.rows = @ \ {r}, !.key = key, !.stale = stale]
    <2>1. GoTo(p, place, rest) /\ UNCHANGED <<tables, drafts>>
      BY <1>4 DEF PlanChunk
    <2>2. place = "reset" => JobSeen(p, key).status = "failed"
      BY DEF Decide
    <2>3. \A k \in stale : k \in Keys /\ VectorSeen(p, k) = "active"
      BY <1>a
    <2> HIDE DEF place, key, stale
    <2>4. rest.key = key /\ rest.stale = stale
      <3> HIDE DEF l
      <3> QED
        BY <1>l DEF Local
    <2> HIDE DEF rest
    <2>5. Alone(p) /\ pc'[p] = place /\ local'[p] = rest
      BY <1>0, <2>1, MoveFacts
    <2> QED
      BY <2>1, <2>2, <2>3, <2>4, <2>5
         DEF TablesKept, JobsKept, VectorsKept, tables, drafts
  <1> QED
    BY <1>1, <1>2, <1>3, <1>4

LEMMA DropFacts ==
  ASSUME Typed, NEW p \in Planners, DropVectors(p)
  PROVE  /\ Alone(p) /\ TablesKept /\ JobsKept
         /\ pc'[p] \in {"sweep", "plan"} /\ local'[p].stale = {}
         /\ \A k \in Keys :
              IF k \in local[p].stale
              THEN /\ vectorLock[k] \in {None, p} /\ vectorLock'[k] = p
                   /\ vectorDraft'[k] = "inactive"
              ELSE vectorLock'[k] = vectorLock[k] /\ vectorDraft'[k] = vectorDraft[k]
  <1>0. p \in Passes /\ local[p].stale \in SUBSET Keys /\ local[p] \in Local
    BY LocalFacts DEF Typed, Passes
  <1> DEFINE place == IF pc[p] = "sweepDrop" THEN "sweep" ELSE "plan"
             l     == local[p]
             rest  == [l EXCEPT !.stale = {}]
  <1>1. /\ WriteVectors(p, local[p].stale, {}) /\ GoTo(p, place, rest)
        /\ UNCHANGED <<chunk, tables, jobDraft, jobLock, older, crashes>>
    BY DEF DropVectors
  <1>2. place \in {"sweep", "plan"}
    OBVIOUS
  <1>3. rest.stale = {}
    <2>1. l \in Local
      BY <1>0
    <2> HIDE DEF l
    <2> QED
      BY <2>1 DEF Local
  <1> HIDE DEF place, rest
  <1>4. Alone(p) /\ pc'[p] = place /\ local'[p] = rest
    BY <1>0, <1>1, MoveFacts
  <1>5. \A k \in Keys :
          IF k \in local[p].stale
          THEN /\ vectorLock[k] \in {None, p} /\ vectorLock'[k] = p
               /\ vectorDraft'[k] = "inactive"
          ELSE vectorLock'[k] = vectorLock[k] /\ vectorDraft'[k] = vectorDraft[k]
    BY <1>0, <1>1, WriteVectorsFacts
  <1> QED
    BY <1>1, <1>2, <1>3, <1>4, <1>5 DEF TablesKept, JobsKept, tables

LEMMA EnterFacts ==
  ASSUME Typed, NEW p \in Planners, ResetFailedJob(p) \/ InsertJob(p)
  PROVE  /\ Alone(p) /\ TablesKept /\ VectorsKept /\ pc'[p] = "plan"
         /\ local'[p].stale = local[p].stale
         /\ Current(p) \in Keys
         /\ pc[p] = "reset" \/ JobSeen(p, Current(p)).status = "none"
         /\ jobLock[Current(p)] \in {None, p} /\ jobLock'[Current(p)] = p
         /\ jobDraft'[Current(p)] = NewJob
         /\ \A j \in Keys \ {Current(p)} :
              jobDraft'[j] = jobDraft[j] /\ jobLock'[j] = jobLock[j]
  <1>0. p \in Passes /\ local[p] \in Local
    BY DEF Typed, Passes
  <1>1. /\ WriteJob(p, Current(p), NewJob) /\ GoTo(p, "plan", Planned(p))
        /\ pc[p] \in {"reset", "insert"}
        /\ pc[p] = "reset" \/ JobSeen(p, Current(p)).status = "none"
        /\ UNCHANGED <<chunk, tables, vectorDraft, vectorLock, crashes>>
    BY DEF ResetFailedJob, InsertJob
  <1>2. Current(p) \in Keys
    BY <1>0, <1>1 DEF Typed, KeyAtHand, AtHand, Current
  <1>3. Planned(p).stale = local[p].stale
    <2> DEFINE l == local[p]
    <2>1. l \in Local /\ Planned(p) = [l EXCEPT !.key = None]
      BY <1>0 DEF Planned
    <2> HIDE DEF l
    <2>2. Planned(p).stale = l.stale
      BY <2>1 DEF Local
    <2> QED
      BY <2>2 DEF l
  <1>4. Alone(p) /\ pc'[p] = "plan" /\ local'[p] = Planned(p)
    BY <1>0, <1>1, MoveFacts
  <1>5. /\ jobLock[Current(p)] \in {None, p} /\ jobLock'[Current(p)] = p
        /\ jobDraft'[Current(p)] = NewJob
        /\ \A j \in Keys \ {Current(p)} :
             jobDraft'[j] = jobDraft[j] /\ jobLock'[j] = jobLock[j]
    BY <1>0, <1>1, <1>2, WriteJobFacts
  <1> QED
    BY <1>1, <1>2, <1>3, <1>4, <1>5 DEF TablesKept, VectorsKept, tables

-----------------------------------------------------------------------------
(* Jobs in order.  One step touches only its own pass's rows, free rows,   *)
(* and, when it commits, the tables.                                       *)

OnePlanner == \A p, q \in Planners : p = q

LEMMA PassKinds ==
  /\ Passes = Workers \cup Planners
  /\ \A w \in Workers, p \in Planners : w # p
  /\ None \notin Passes
  BY EmbeddingConstants DEF Passes

(* The rows another pass holds are left alone.                             *)
OthersKept(p) ==
  \A k \in Keys :
    /\ jobLock'[k] \in {jobLock[k], p, None}
    /\ jobLock[k] \notin {None, p} => /\ jobLock'[k] = jobLock[k]
                                      /\ jobs'[k] = jobs[k]
                                      /\ jobDraft'[k] = jobDraft[k]

LEMMA OtherWorkers ==
  ASSUME Typed, JobsInOrder, NEW p \in Passes, NEW v \in Workers, v # p,
         Alone(p), OthersKept(p)
  PROVE  WorkerInOrder(v)'
  <1>0. v \in Passes /\ v # None /\ pc'[v] = pc[v] /\ local'[v] = local[v]
    BY PassKinds DEF Alone
  <1>1. \A k \in Keys : jobLock[k] = v <=> jobLock'[k] = v
    BY <1>0 DEF OthersKept
  <1>2. \A k \in Keys : jobLock[k] = v => /\ jobs'[k] = jobs[k]
                                          /\ jobDraft'[k] = jobDraft[k]
    BY <1>0 DEF OthersKept
  <1>3. /\ \A k \in Keys : jobLock[k] = v => ClaimInOrder(v, k)
        /\ \A k \in local[v].batch : jobLock[k] = v
        /\ pc[v] \in Busy => /\ jobLock[Current(v)] = v
                             /\ Current(v) \notin local[v].batch
    BY DEF JobsInOrder, WorkerInOrder
  <1>4. ASSUME NEW k \in Keys, jobLock'[k] = v
        PROVE  ClaimInOrder(v, k)'
    <2>1. ClaimInOrder(v, k) /\ jobs'[k] = jobs[k] /\ jobDraft'[k] = jobDraft[k]
      BY <1>1, <1>2, <1>3, <1>4
    <2> QED
      BY <1>0, <2>1 DEF ClaimInOrder, Ended, Current
  <1>5. /\ local[v].batch \subseteq Keys
        /\ pc[v] \in Busy => Current(v) \in Keys
    BY <1>0, LocalFacts DEF Typed, KeyAtHand, Current, Busy, AtHand
  <1>6. \A k \in local'[v].batch : jobLock'[k] = v
    BY <1>0, <1>1, <1>3, <1>5
  <1>7. pc'[v] \in Busy => /\ jobLock'[Current(v)'] = v
                           /\ Current(v)' \notin local'[v].batch
    BY <1>0, <1>1, <1>3, <1>5 DEF Current
  <1> QED
    BY <1>4, <1>6, <1>7 DEF WorkerInOrder

LEMMA OtherPlanners ==
  ASSUME Typed, JobsInOrder, NEW p \in Passes, NEW q \in Planners, q # p,
         Alone(p), OthersKept(p),
         \A k \in Keys : jobs[k].status = "failed" => jobs'[k].status = "failed"
  PROVE  PlannerInOrder(q)'
  <1>0. q \in Passes /\ q # None /\ pc'[q] = pc[q] /\ local'[q] = local[q]
    BY PassKinds DEF Alone
  <1>1. \A k \in Keys : jobLock[k] = q <=> jobLock'[k] = q
    BY <1>0 DEF OthersKept
  <1>2. \A k \in Keys : jobLock[k] = q => /\ jobs'[k] = jobs[k]
                                          /\ jobDraft'[k] = jobDraft[k]
    BY <1>0 DEF OthersKept
  <1>3. PlannerInOrder(q)
    BY DEF JobsInOrder
  <1>4. pc[q] = "reset" => Current(q) \in Keys
    BY <1>0 DEF Typed, KeyAtHand, AtHand, Current
  <1>5. pc'[q] = "reset" => jobs'[Current(q)'].status = "failed"
    BY <1>0, <1>3, <1>4 DEF PlannerInOrder, Current
  <1>6. \A k \in Keys : jobLock'[k] = q => /\ jobs'[k].status \in {"none", "failed"}
                                           /\ jobDraft'[k] = NewJob
    BY <1>1, <1>2, <1>3 DEF PlannerInOrder
  <1> QED
    BY <1>5, <1>6 DEF PlannerInOrder

(* Every pass that is not p is in order after p's step.                    *)
LEMMA OthersInOrder ==
  ASSUME Typed, JobsInOrder, NEW p \in Passes, Alone(p), OthersKept(p),
         \/ p \in Planners /\ OnePlanner
         \/ \A k \in Keys : jobs[k].status = "failed" => jobs'[k].status = "failed",
         p \in Workers => WorkerInOrder(p)', p \in Planners => PlannerInOrder(p)'
  PROVE  JobsInOrder'
  BY OtherWorkers, OtherPlanners DEF JobsInOrder, OnePlanner

(* A transaction ends: its rows are free, its changes in the tables or gone.*)
LEMMA EndJobs ==
  ASSUME Typed, DraftsHeld, JobsInOrder, NEW p \in Passes, NEW keep \in BOOLEAN,
         EndPass(p, keep), p \in Planners => OnePlanner \/ ~keep
  PROVE  JobsInOrder'
  <1>1. /\ Alone(p) /\ pc'[p] = "idle" /\ local'[p] = NoLocal
        /\ \A k \in Keys :
             /\ jobs'[k] = IF keep THEN JobSeen(p, k) ELSE jobs[k]
             /\ jobDraft'[k] = IF jobLock[k] = p THEN jobs'[k] ELSE jobDraft[k]
             /\ jobLock'[k] = IF jobLock[k] = p THEN None ELSE jobLock[k]
    BY EndPassFacts DEF Alone
  <1>2. OthersKept(p)
    BY <1>1 DEF OthersKept, JobSeen
  <1>3. p \in Workers => WorkerInOrder(p)'
    BY <1>1, PassKinds DEF WorkerInOrder, NoLocal, Busy
  <1>4. p \in Planners => PlannerInOrder(p)'
    BY <1>1, PassKinds DEF PlannerInOrder
  <1>5. ASSUME p \in Workers, NEW k \in Keys, jobs[k].status = "failed"
        PROVE  jobs'[k].status = "failed"
    <2>1. jobLock[k] # p
      BY <1>5 DEF JobsInOrder, WorkerInOrder, ClaimInOrder, Retryable
    <2> QED
      BY <1>1, <1>5, <2>1 DEF JobSeen
  <1>6. ~keep => \A k \in Keys : jobs'[k] = jobs[k]
    BY <1>1
  <1> QED
    BY <1>1, <1>2, <1>3, <1>4, <1>5, <1>6, PassKinds, OthersInOrder

LEMMA WorkerJobs ==
  ASSUME Typed, DraftsHeld, JobsInOrder, NEW w \in Workers, WorkerStep(w)
  PROVE  JobsInOrder'
  <1>0. w \in Passes /\ w \notin Planners /\ w # None
    BY PassKinds
  <1>i. /\ \A k \in Keys : jobLock[k] = w => ClaimInOrder(w, k)
        /\ \A k \in local[w].batch : jobLock[k] = w
        /\ pc[w] \in Busy => /\ jobLock[Current(w)] = w
                             /\ Current(w) \notin local[w].batch
    BY DEF JobsInOrder, WorkerInOrder
  <1>t. local[w].batch \subseteq Keys /\ (pc[w] \in AtHand => Current(w) \in Keys)
    BY <1>0, LocalFacts DEF Typed, KeyAtHand, Current
  <1>1. CASE Claim(w)
    <2>1. /\ Alone(w) /\ TablesKept /\ jobDraft' = jobDraft
          /\ pc[w] = "idle" /\ pc'[w] = "next"
          /\ \A k \in local'[w].batch : k \in Keys /\ Claimable(k)
          /\ \A k \in Keys : jobLock'[k] = IF k \in local'[w].batch THEN w
                                          ELSE jobLock[k]
      BY <1>1, ClaimFacts
    <2>2. \A k \in Keys : jobLock[k] # w
      BY <1>0, <2>1 DEF DraftsHeld
    <2>3. ASSUME NEW k \in Keys, jobLock'[k] = w
          PROVE  ClaimInOrder(w, k)'
      <3>1. k \in local'[w].batch /\ Claimable(k)
        BY <2>1, <2>2, <2>3
      <3>2. jobDraft[k] = jobs[k]
        BY <3>1 DEF Claimable, DraftsHeld
      <3> QED
        BY <2>1, <3>1, <3>2 DEF ClaimInOrder, Claimable, TablesKept
    <2>4. WorkerInOrder(w)'
      BY <2>1, <2>3 DEF WorkerInOrder, Busy
    <2>5. OthersKept(w)
      BY <2>1 DEF OthersKept, TablesKept, Claimable
    <2> QED
      BY <1>0, <2>1, <2>4, <2>5, OthersInOrder DEF TablesKept
  <1>2. ASSUME NEW k \in Keys, Load(w, k)
        PROVE  JobsInOrder'
    <2>1. /\ Alone(w) /\ TablesKept
          /\ pc[w] = "next" /\ pc'[w] = "check"
          /\ k \in local[w].batch /\ local'[w].batch = local[w].batch \ {k}
          /\ local'[w].key = k
          /\ jobDraft'[k] = [status |-> "running", waiting |-> jobDraft[k].waiting,
                             attempts |-> jobDraft[k].attempts + 1]
          /\ jobLock[k] \in {None, w} /\ jobLock'[k] = w
          /\ \A j \in Keys \ {k} : jobDraft'[j] = jobDraft[j] /\ jobLock'[j] = jobLock[j]
      BY <1>2, LoadFacts
    <2>2. /\ jobs[k].status \in Retryable /\ ~jobs[k].waiting
          /\ jobDraft[k] = jobs[k]
      BY <1>i, <2>1 DEF ClaimInOrder
    <2>w. jobs[k].waiting = FALSE
      BY <2>2 DEF Typed, JobRow
    <2>3. ClaimInOrder(w, k)'
      <3>1. /\ jobs'[k] = jobs[k] /\ k \notin local'[w].batch
            /\ pc'[w] \in Busy /\ Current(w)' = k
        BY <2>1 DEF TablesKept, Busy, Current
      <3>2. jobDraft'[k] = [status |-> "running", waiting |-> FALSE,
                            attempts |-> jobs[k].attempts + 1]
        BY <2>1, <2>2, <2>w
      <3> QED
        BY <2>2, <3>1, <3>2 DEF ClaimInOrder
    <2>4. ASSUME NEW j \in Keys \ {k}, jobLock'[j] = w
          PROVE  ClaimInOrder(w, j)'
      <3>1. /\ jobs'[j] = jobs[j] /\ jobDraft'[j] = jobDraft[j] /\ Current(w)' # j
            /\ j \in local'[w].batch <=> j \in local[w].batch
            /\ pc[w] \notin Busy
        BY <2>1, <2>4 DEF TablesKept, Current, Busy
      <3>2. ClaimInOrder(w, j)
        BY <1>i, <2>1, <2>4
      <3> QED
        BY <3>1, <3>2 DEF ClaimInOrder, Ended
    <2>5. WorkerInOrder(w)'
      BY <1>i, <1>t, <2>1, <2>3, <2>4 DEF WorkerInOrder, Current
    <2>6. OthersKept(w)
      BY <1>0, <2>1 DEF OthersKept, TablesKept
    <2> QED
      BY <1>0, <2>1, <2>5, <2>6, OthersInOrder DEF TablesKept
  <1>3. CASE Check(w) \/ Embed(w)
    <2>1. /\ Alone(w) /\ TablesKept /\ JobsKept
          /\ pc[w] \in Busy /\ pc'[w] \in Busy
          /\ local'[w].batch = local[w].batch /\ Current(w)' = Current(w)
      BY <1>3, CheckFacts DEF Busy, Current
    <2>2. ASSUME NEW k \in Keys, jobLock'[k] = w
          PROVE  ClaimInOrder(w, k)'
      <3>1. ClaimInOrder(w, k)
        BY <1>i, <2>1, <2>2 DEF JobsKept
      <3> QED
        BY <2>1, <3>1 DEF ClaimInOrder, Ended, JobsKept, TablesKept
    <2>3. WorkerInOrder(w)'
      BY <1>i, <2>1, <2>2 DEF WorkerInOrder, JobsKept
    <2>4. OthersKept(w)
      BY <2>1 DEF OthersKept, JobsKept, TablesKept
    <2> QED
      BY <1>0, <2>1, <2>3, <2>4, OthersInOrder DEF TablesKept
  <1>4. CASE CancelJob(w) \/ RecordJobError(w) \/ Store(w)
    <2>1. WrittenBy(w) /\ TablesKept /\ pc[w] \in Busy
      BY <1>4, CancelFacts, ErrorFacts, StoreFacts DEF Busy
    <2>k. PICK k \in Keys : k = Current(w)
      BY <2>1 DEF WrittenBy
    <2>2. /\ Alone(w) /\ pc'[w] = "next" /\ k \in Keys
          /\ local'[w].batch = local[w].batch
          /\ jobLock[k] = w /\ jobLock'[k] = w
          /\ k \notin local[w].batch
          /\ jobDraft'[k].attempts = jobDraft[k].attempts
          /\ \A j \in Keys \ {k} : jobDraft'[j] = jobDraft[j] /\ jobLock'[j] = jobLock[j]
      BY <1>i, <2>1, <2>k DEF WrittenBy
    <2>3. /\ jobs[k].status \in Retryable /\ ~jobs[k].waiting
          /\ jobDraft[k].attempts = jobs[k].attempts + 1
      <3>1. ClaimInOrder(w, k)
        BY <1>i, <2>2
      <3> QED
        BY <2>1, <2>2, <2>k, <3>1 DEF ClaimInOrder
    <2>n. jobDraft[k].attempts \in Nat
      BY <2>2 DEF Typed, JobRow
    <2>4. \/ jobDraft'[k].status \in {"succeeded", "cancelled"} /\ ~jobDraft'[k].waiting
          \/ /\ jobDraft'[k].status = "failed" /\ ~jobDraft'[k].waiting
             /\ jobDraft[k].attempts >= MaxAttempts
          \/ /\ jobDraft'[k].status = "retrying" /\ jobDraft'[k].waiting
             /\ ~(jobDraft[k].attempts >= MaxAttempts)
      BY <1>4, <2>k, CancelFacts, ErrorFacts, StoreFacts
    <2>5. ClaimInOrder(w, k)'
      <3>1. jobs' = jobs /\ k \notin local'[w].batch /\ pc'[w] \notin Busy
        BY <2>1, <2>2 DEF TablesKept, Busy
      <3>2. Ended(k)'
        BY <2>2, <2>3, <2>4, <2>n, <3>1, EmbeddingConstants DEF Ended
      <3> QED
        BY <2>3, <3>1, <3>2 DEF ClaimInOrder
    <2>6. ASSUME NEW j \in Keys \ {k}, jobLock'[j] = w
          PROVE  ClaimInOrder(w, j)'
      <3>1. /\ jobs'[j] = jobs[j] /\ jobDraft'[j] = jobDraft[j]
            /\ j \in local'[w].batch <=> j \in local[w].batch
            /\ pc'[w] \notin Busy
        BY <2>1, <2>2 DEF TablesKept, Busy
      <3>2. ClaimInOrder(w, j) /\ j # Current(w)
        BY <1>i, <2>2, <2>k, <2>6
      <3> QED
        BY <3>1, <3>2 DEF ClaimInOrder, Ended
    <2>7. WorkerInOrder(w)'
      BY <1>i, <1>t, <2>2, <2>5, <2>6 DEF WorkerInOrder, Busy
    <2>8. OthersKept(w)
      BY <1>0, <2>1, <2>2 DEF OthersKept, TablesKept
    <2> QED
      BY <1>0, <2>1, <2>2, <2>7, <2>8, OthersInOrder DEF TablesKept
  <1>5. CASE CommitBatch(w)
    BY <1>0, <1>5, EndJobs DEF CommitBatch
  <1> QED
    BY <1>1, <1>2, <1>3, <1>4, <1>5 DEF WorkerStep

LEMMA PlannerJobs ==
  ASSUME Typed, DraftsHeld, JobsInOrder, OnePlanner, NEW p \in Planners, PlannerStep(p),
         Typed'
  PROVE  JobsInOrder'
  <1>0. p \in Passes /\ p \notin Workers /\ p # None
    BY PassKinds
  <1>i. /\ \A k \in Keys : jobLock[k] = p => /\ jobs[k].status \in {"none", "failed"}
                                             /\ jobDraft[k] = NewJob
        /\ pc[p] = "reset" => jobs[Current(p)].status = "failed"
    BY DEF JobsInOrder, PlannerInOrder
  <1>1. CASE \/ StartPlan(p) \/ SelectChunks(p)
             \/ \E c \in Chunks : Sweep(p, c)
             \/ \E r \in local[p].rows : PlanChunk(p, r)
    <2>1. /\ Alone(p) /\ TablesKept /\ JobsKept
          /\ pc'[p] = "reset" => JobSeen(p, Current(p)').status = "failed"
      BY <1>1, LookFacts DEF Current
    <2>2. pc'[p] = "reset" => jobs'[Current(p)'].status = "failed"
      <3>1. SUFFICES ASSUME pc'[p] = "reset"
                     PROVE  jobs[Current(p)'].status = "failed"
        BY <2>1 DEF TablesKept
      <3>2. PICK k \in Keys : k = Current(p)'
        BY <1>0, <3>1 DEF Typed, KeyAtHand, AtHand, Current
      <3> QED
        BY <1>i, <2>1, <3>1, <3>2 DEF JobSeen, NewJob
    <2>3. PlannerInOrder(p)'
      BY <1>i, <2>1, <2>2 DEF PlannerInOrder, JobsKept, TablesKept
    <2>4. OthersKept(p)
      BY <2>1 DEF OthersKept, JobsKept, TablesKept
    <2> QED
      BY <1>0, <2>1, <2>3, <2>4, OthersInOrder DEF TablesKept
  <1>2. CASE DropVectors(p)
    <2>1. Alone(p) /\ TablesKept /\ JobsKept /\ pc'[p] # "reset"
      BY <1>2, DropFacts
    <2>2. PlannerInOrder(p)'
      BY <1>i, <2>1 DEF PlannerInOrder, JobsKept, TablesKept
    <2>3. OthersKept(p)
      BY <2>1 DEF OthersKept, JobsKept, TablesKept
    <2> QED
      BY <1>0, <2>1, <2>2, <2>3, OthersInOrder DEF TablesKept
  <1>3. CASE ResetFailedJob(p) \/ InsertJob(p)
    <2>1. PICK k \in Keys : k = Current(p)
      BY <1>3, EnterFacts
    <2>2. /\ Alone(p) /\ TablesKept /\ pc'[p] = "plan"
          /\ pc[p] = "reset" \/ JobSeen(p, k).status = "none"
          /\ jobLock[k] \in {None, p} /\ jobLock'[k] = p /\ jobDraft'[k] = NewJob
          /\ \A j \in Keys \ {k} : jobDraft'[j] = jobDraft[j] /\ jobLock'[j] = jobLock[j]
      BY <1>3, <2>1, EnterFacts
    <2>3. jobs[k].status \in {"none", "failed"}
      BY <1>i, <2>1, <2>2 DEF JobSeen, NewJob
    <2>4. PlannerInOrder(p)'
      BY <1>i, <2>2, <2>3 DEF PlannerInOrder, TablesKept
    <2>5. OthersKept(p)
      BY <1>0, <2>2 DEF OthersKept, TablesKept
    <2> QED
      BY <1>0, <2>2, <2>4, <2>5, OthersInOrder DEF TablesKept
  <1>4. CASE InsertCollides(p) \/ CommitPlan(p)
    <2>1. EndPass(p, TRUE) \/ EndPass(p, FALSE)
      BY <1>4 DEF InsertCollides, CommitPlan
    <2> QED
      BY <1>0, <2>1, EndJobs
  <1> QED
    BY <1>1, <1>2, <1>3, <1>4 DEF PlannerStep

LEMMA RetryDueJobs ==
  ASSUME Typed, DraftsHeld, JobsInOrder, NEW k \in Keys, RetryDue(k)
  PROVE  JobsInOrder'
  <1>1. /\ jobLock' = jobLock /\ pc' = pc /\ local' = local /\ jobLock[k] = None
        /\ \A j \in Keys : /\ jobs'[j].status = jobs[j].status
                           /\ j # k => jobs'[j] = jobs[j] /\ jobDraft'[j] = jobDraft[j]
    BY RetryDueTyped DEF RetryDue
  <1>2. ASSUME NEW w \in Workers
        PROVE  WorkerInOrder(w)'
    <2>1. WorkerInOrder(w) /\ w # None
      BY PassKinds DEF JobsInOrder
    <2>2. ASSUME NEW j \in Keys, jobLock'[j] = w
          PROVE  ClaimInOrder(w, j)'
      <3>1. ClaimInOrder(w, j) /\ jobs'[j] = jobs[j] /\ jobDraft'[j] = jobDraft[j]
        BY <1>1, <2>1, <2>2 DEF WorkerInOrder
      <3> QED
        BY <1>1, <3>1 DEF ClaimInOrder, Ended, Current
    <2> QED
      BY <1>1, <2>1, <2>2 DEF WorkerInOrder, Current
  <1>3. ASSUME NEW p \in Planners
        PROVE  PlannerInOrder(p)'
    <2>1. PlannerInOrder(p) /\ p # None /\ p \in Passes
      BY PassKinds DEF JobsInOrder
    <2>2. pc[p] = "reset" => Current(p) \in Keys
      BY <2>1 DEF Typed, KeyAtHand, AtHand, Current
    <2> QED
      BY <1>1, <2>1, <2>2 DEF PlannerInOrder, Current
  <1> QED
    BY <1>2, <1>3 DEF JobsInOrder

LEMMA JobsStep ==
  ASSUME Typed, DraftsHeld, JobsInOrder, OnePlanner, [EmbeddingNext]_vars
  PROVE  JobsInOrder'
  <1>1. CASE CatalogChanges \/ UNCHANGED vars
    <2>1. UNCHANGED <<jobs, jobDraft, jobLock, pc, local>>
      BY <1>1 DEF CatalogChanges, vars, tables, drafts
    <2>2. ASSUME NEW w \in Workers PROVE WorkerInOrder(w)'
      BY <2>1 DEF JobsInOrder, WorkerInOrder, ClaimInOrder, Ended, Current
    <2>3. ASSUME NEW p \in Planners PROVE PlannerInOrder(p)'
      BY <2>1 DEF JobsInOrder, PlannerInOrder, Current
    <2> QED
      BY <2>2, <2>3 DEF JobsInOrder
  <1>2. ASSUME NEW w \in Workers, WorkerStep(w) PROVE JobsInOrder'
    BY <1>2, WorkerJobs
  <1>3. ASSUME NEW p \in Planners, PlannerStep(p) PROVE JobsInOrder'
    BY <1>3, TypeStep, PlannerJobs
  <1>4. ASSUME NEW p \in Passes, Die(p) \/ FailVictim(p) PROVE JobsInOrder'
    BY <1>4, EndJobs DEF Die, FailVictim
  <1>5. ASSUME NEW k \in Keys, RetryDue(k) PROVE JobsInOrder'
    BY <1>5, RetryDueJobs
  <1> QED
    BY <1>1, <1>2, <1>3, <1>4, <1>5 DEF EmbeddingNext

LEMMA JobsInitially == EmbeddingInit => JobsInOrder
  <1> SUFFICES ASSUME EmbeddingInit PROVE JobsInOrder
    OBVIOUS
  <1>1. /\ \A k \in Keys : jobLock[k] = None
        /\ \A p \in Passes : pc[p] = "idle" /\ local[p].batch = {}
    BY DEF EmbeddingInit, NoLocal
  <1> QED
    BY <1>1, PassKinds DEF JobsInOrder, WorkerInOrder, PlannerInOrder, Busy

(* Only the end of a transaction enters attempts.                          *)
LEMMA AttemptsStep ==
  ASSUME Typed, DraftsHeld, JobsInOrder, AttemptsAccounted, [EmbeddingNext]_vars
  PROVE  AttemptsAccounted'
  <1>1. ASSUME NEW p \in Passes, NEW keep \in BOOLEAN, EndPass(p, keep),
               keep => pc[p] \in {"next", "plan"} /\ (p \in Workers => local[p].batch = {})
        PROVE  AttemptsAccounted'
    <2> SUFFICES ASSUME NEW k \in Keys, keep, jobLock[k] = p
                 PROVE  jobs'[k] = jobDraft[k] =>
                          /\ jobs'[k].status \in {"none", "pending"}
                               => jobs'[k].attempts = 0
                          /\ jobs'[k].status = "retrying"
                               => jobs'[k].attempts \in 1..(MaxAttempts - 1)
                          /\ jobs'[k].status = "failed"
                               => jobs'[k].attempts = MaxAttempts
                          /\ jobs'[k].status \in {"succeeded", "cancelled"}
                               => jobs'[k].attempts \in 1..MaxAttempts
                          /\ jobs'[k].status # "running"
                          /\ jobs'[k].waiting => jobs'[k].status = "retrying"
      <3>1. \A k \in Keys : jobs'[k] = IF keep THEN JobSeen(p, k) ELSE jobs[k]
        BY <1>1, EndPassFacts
      <3>2. \A k \in Keys : jobs'[k] = jobs[k] \/ (keep /\ jobLock[k] = p /\ jobs'[k] = jobDraft[k])
        BY <3>1 DEF JobSeen
      <3> QED
        BY <3>2 DEF AttemptsAccounted
    <2>1. CASE p \in Planners
      <3>1. jobDraft[k] = NewJob
        BY <2>1 DEF JobsInOrder, PlannerInOrder
      <3> QED
        BY <3>1 DEF NewJob
    <2>2. CASE p \in Workers
      <3>1. ClaimInOrder(p, k) /\ pc[p] \notin Busy /\ k \notin local[p].batch
        BY <1>1, <2>2, PassKinds DEF JobsInOrder, WorkerInOrder, Busy
      <3>2. Ended(k) /\ jobs[k].status \in Retryable
        BY <3>1 DEF ClaimInOrder
      <3>3. /\ jobs[k].attempts \in Nat /\ jobs[k].attempts <= MaxAttempts - 1
            /\ MaxAttempts \in Nat \ {0} /\ jobDraft[k].attempts \in Nat
        BY <3>2, EmbeddingConstants DEF AttemptsAccounted, Retryable, Typed, JobRow
      <3> QED
        BY <3>2, <3>3 DEF Ended
    <2> QED
      BY <2>1, <2>2, PassKinds
  <1>2. ASSUME jobs' = jobs
        PROVE  AttemptsAccounted'
    BY <1>2 DEF AttemptsAccounted
  <1>3. CASE CatalogChanges \/ UNCHANGED vars
    BY <1>2, <1>3 DEF CatalogChanges, vars, tables
  <1>4. ASSUME NEW w \in Workers, WorkerStep(w) PROVE AttemptsAccounted'
    <2>1. jobs' = jobs \/ CommitBatch(w)
      BY <1>4 DEF WorkerStep, Claim, Load, Check, CancelJob, RecordJobError, Embed,
                  Store, tables
    <2> QED
      BY <1>1, <1>2, <2>1, PassKinds DEF CommitBatch
  <1>5. ASSUME NEW p \in Planners, PlannerStep(p) PROVE AttemptsAccounted'
    <2>1. jobs' = jobs \/ InsertCollides(p) \/ CommitPlan(p)
      BY <1>5 DEF PlannerStep, StartPlan, Sweep, DropVectors, SelectChunks, PlanChunk,
                  ResetFailedJob, InsertJob, tables
    <2> QED
      BY <1>1, <1>2, <2>1, PassKinds DEF InsertCollides, CommitPlan
  <1>6. ASSUME NEW p \in Passes, Die(p) \/ FailVictim(p) PROVE AttemptsAccounted'
    BY <1>1, <1>6 DEF Die, FailVictim
  <1>7. ASSUME NEW k \in Keys, RetryDue(k) PROVE AttemptsAccounted'
    <2>1. /\ \A j \in Keys : /\ jobs'[j].status = jobs[j].status
                             /\ jobs'[j].attempts = jobs[j].attempts
                             /\ j # k => jobs'[j] = jobs[j]
          /\ ~jobs'[k].waiting
      BY <1>7, RetryDueTyped
    <2> QED
      BY <2>1 DEF AttemptsAccounted
  <1> QED
    BY <1>3, <1>4, <1>5, <1>6, <1>7 DEF EmbeddingNext

(* Attempts are counted once each, for any number of workers beside one    *)
(* planner (embeddings/jobs.py:179-182, 452-467).                          *)
THEOREM AttemptsAlwaysAccounted ==
  OnePlanner => (EmbeddingSpec => []AttemptsAccounted)
  <1> DEFINE Inv == Typed /\ DraftsHeld /\ JobsInOrder /\ AttemptsAccounted
  <1>1. EmbeddingInit => Inv
    <2>1. EmbeddingInit => DraftsHeld
      BY NoPass DEF EmbeddingInit, DraftsHeld
    <2>2. EmbeddingInit => AttemptsAccounted
      BY DEF EmbeddingInit, AttemptsAccounted, NoJob
    <2> QED
      BY <2>1, <2>2, InitTyped, JobsInitially
  <1>2. OnePlanner /\ Inv /\ [EmbeddingNext]_vars => Inv'
    BY TypeStep, JobsStep, AttemptsStep
  <1>3. Inv => AttemptsAccounted
    OBVIOUS
  <1> HIDE DEF Inv
  <1>4. SUFFICES ASSUME OnePlanner PROVE EmbeddingSpec => []AttemptsAccounted
    OBVIOUS
  <1>5. Inv /\ [EmbeddingNext]_vars => Inv'
    BY <1>2, <1>4
  <1> QED
    BY <1>1, <1>3, <1>5, PTL DEF EmbeddingSpec

-----------------------------------------------------------------------------
(* Vectors in order.                                                       *)

(* Rows that others hold are not written.                                  *)
Respectful(p) ==
  \A k \in Keys :
    /\ jobLock'[k] \in {jobLock[k], p} /\ vectorLock'[k] \in {vectorLock[k], p}
    /\ jobLock[k] \notin {None, p} => jobDraft'[k] = jobDraft[k] /\ jobLock'[k] = jobLock[k]
    /\ vectorLock[k] \notin {None, p} => /\ vectorDraft'[k] = vectorDraft[k]
                                         /\ vectorLock'[k] = vectorLock[k]

LEMMA SeenKept ==
  ASSUME Typed, NEW p \in Passes, NEW q \in Passes, q # p, NEW k \in Keys,
         TablesKept, Respectful(p)
  PROVE  JobSeen(q, k)' = JobSeen(q, k) /\ VectorSeen(q, k)' = VectorSeen(q, k)
  BY PassKinds DEF JobSeen, VectorSeen, TablesKept, Respectful

(* So only what p itself sees needs to be looked at.                       *)
LEMMA VectorsWritten ==
  ASSUME Typed, VectorsInOrder, NEW p \in Passes, TablesKept, Alone(p), Respectful(p),
         \A k \in Keys :
           /\ VectorSeen(p, k)' # "none" <=> JobSeen(p, k)'.status = "succeeded"
           /\ vectors[k] # "none" => vectorDraft'[k] # "none"
           /\ vectors[k] = "inactive" => vectorDraft'[k] = "inactive"
           /\ vectors[k] = "none" /\ vectorLock'[k] # None
                => jobLock'[k] = vectorLock'[k],
         \A k \in local'[p].stale : VectorSeen(p, k)' # "none"
  PROVE  VectorsInOrder'
  <1>1. VectorIffSucceeded'
    BY DEF VectorsInOrder, VectorIffSucceeded, TablesKept
  <1>2. ASSUME NEW q \in Passes, NEW k \in Keys
        PROVE  VectorSeen(q, k)' # "none" <=> JobSeen(q, k)'.status = "succeeded"
    <2>1. CASE q = p
      BY <2>1
    <2>2. CASE q # p
      BY <2>2, SeenKept DEF VectorsInOrder
    <2> QED
      BY <2>1, <2>2
  <1>3. \A k \in Keys :
          /\ vectors'[k] # "none" => vectorDraft'[k] # "none"
          /\ vectors'[k] = "inactive" => vectorDraft'[k] = "inactive"
          /\ vectors'[k] = "none" /\ vectorLock'[k] # None
               => jobLock'[k] = vectorLock'[k]
    BY DEF TablesKept
  <1>4. ASSUME NEW q \in Passes, NEW k \in local'[q].stale
        PROVE  VectorSeen(q, k)' # "none"
    <2>1. CASE q = p
      BY <2>1, <1>4
    <2>2. CASE q # p
      <3>1. k \in local[q].stale
        BY <1>4, <2>2 DEF Alone
      <3>2. k \in Keys
        BY <3>1, LocalFacts DEF Typed
      <3> QED
        BY <2>2, <3>1, <3>2, SeenKept DEF VectorsInOrder
    <2> QED
      BY <2>1, <2>2
  <1> QED
    BY <1>1, <1>2, <1>3, <1>4 DEF VectorsInOrder

(* Only reading, a pass learns of vectors that are there.                  *)
LEMMA VectorsLooked ==
  ASSUME Typed, VectorsInOrder, NEW p \in Passes, TablesKept, JobsKept, VectorsKept,
         Alone(p),
         \A k \in local'[p].stale : \/ k \in local[p].stale
                                    \/ k \in Keys /\ VectorSeen(p, k) = "active"
  PROVE  VectorsInOrder'
  <1>1. Respectful(p)
    BY DEF Respectful, JobsKept, VectorsKept
  <1>2. \A k : VectorSeen(p, k)' = VectorSeen(p, k) /\ JobSeen(p, k)' = JobSeen(p, k)
    BY DEF VectorSeen, JobSeen, TablesKept, JobsKept, VectorsKept
  <1>3. \A k \in local'[p].stale : VectorSeen(p, k)' # "none"
    BY <1>2 DEF VectorsInOrder
  <1>4. \A k \in Keys :
          /\ VectorSeen(p, k)' # "none" <=> JobSeen(p, k)'.status = "succeeded"
          /\ vectors[k] # "none" => vectorDraft'[k] # "none"
          /\ vectors[k] = "inactive" => vectorDraft'[k] = "inactive"
          /\ vectors[k] = "none" /\ vectorLock'[k] # None
               => jobLock'[k] = vectorLock'[k]
    BY <1>2 DEF VectorsInOrder, JobsKept, VectorsKept
  <1> QED
    BY <1>1, <1>3, <1>4, VectorsWritten

(* Deactivating what it knows of, and writing a job that is no success and *)
(* has no vector, or none.                                                 *)
LEMMA VectorsDropped ==
  ASSUME Typed, VectorsInOrder, NEW p \in Passes, TablesKept, Alone(p),
         local'[p].stale = {} \/ (local'[p].stale = local[p].stale /\ VectorsKept),
         Respectful(p),
         \A k \in Keys :
           \/ vectorLock'[k] = vectorLock[k] /\ vectorDraft'[k] = vectorDraft[k]
           \/ /\ k \in local[p].stale /\ vectorLock'[k] = p
              /\ vectorLock[k] \in {None, p} /\ vectorDraft'[k] = "inactive",
         \A k \in Keys :
           \/ jobLock'[k] = jobLock[k] /\ jobDraft'[k] = jobDraft[k]
           \/ /\ jobLock'[k] = p /\ jobLock[k] \in {None, p}
              /\ jobDraft'[k].status # "succeeded"
              /\ VectorSeen(p, k) = "none"
  PROVE  VectorsInOrder'
  <1>1. ASSUME NEW k \in Keys
        PROVE  /\ VectorSeen(p, k)' # "none" <=> JobSeen(p, k)'.status = "succeeded"
               /\ vectors[k] # "none" => vectorDraft'[k] # "none"
               /\ vectors[k] = "inactive" => vectorDraft'[k] = "inactive"
               /\ vectors[k] = "none" /\ vectorLock'[k] # None
                    => jobLock'[k] = vectorLock'[k]
    <2>0. /\ VectorSeen(p, k) # "none" <=> JobSeen(p, k).status = "succeeded"
          /\ vectors[k] # "none" => vectorDraft[k] # "none"
          /\ vectors[k] = "inactive" => vectorDraft[k] = "inactive"
          /\ vectors[k] = "none" /\ vectorLock[k] # None => jobLock[k] = vectorLock[k]
          /\ k \in local[p].stale => VectorSeen(p, k) # "none"
      BY DEF VectorsInOrder
    <2>1. vectors' = vectors /\ jobs' = jobs
      BY DEF TablesKept
    <2>2. VectorSeen(p, k)' # "none" <=> VectorSeen(p, k) # "none"
      BY <2>0, <2>1 DEF VectorSeen
    <2>3. VectorSeen(p, k)' # "none" <=> JobSeen(p, k)'.status = "succeeded"
      BY <2>0, <2>1, <2>2 DEF JobSeen
    <2>4. vectors[k] = "none" /\ vectorLock'[k] # None => jobLock'[k] = vectorLock'[k]
      <3>1. ASSUME vectors[k] = "none", vectorLock'[k] # None
            PROVE  vectorLock[k] = vectorLock'[k]
        BY <2>0, <3>1, PassKinds DEF VectorSeen
      <3>2. SUFFICES ASSUME vectors[k] = "none", vectorLock'[k] # None
                     PROVE  jobLock'[k] = vectorLock'[k]
        OBVIOUS
      <3>3. jobLock[k] = vectorLock'[k]
        BY <2>0, <3>1, <3>2
      <3> QED
        BY <3>2, <3>3
    <2>5. /\ vectors[k] # "none" => vectorDraft'[k] # "none"
          /\ vectors[k] = "inactive" => vectorDraft'[k] = "inactive"
      BY <2>0
    <2> QED
      BY <2>3, <2>4, <2>5
  <1>2. \A k \in local'[p].stale : VectorSeen(p, k)' # "none"
    BY DEF VectorsInOrder, VectorsKept, VectorSeen, TablesKept
  <1> QED
    BY <1>1, <1>2, VectorsWritten

LEMMA VectorsStored ==
  ASSUME Typed, JobsInOrder, VectorsInOrder, NEW w \in Workers, Store(w)
  PROVE  VectorsInOrder'
  <1>0. w \in Passes /\ w # None
    BY PassKinds
  <1>1. PICK k \in Keys : k = Current(w)
    BY <1>0, StoreFacts DEF WrittenBy
  <1>2. /\ Alone(w) /\ TablesKept /\ pc[w] \in Busy /\ local'[w].stale = {}
        /\ jobLock[k] \in {None, w} /\ jobLock'[k] = w
        /\ jobDraft'[k].status = "succeeded"
        /\ \A j \in Keys \ {k} : jobDraft'[j] = jobDraft[j] /\ jobLock'[j] = jobLock[j]
        /\ vectorLock[k] \in {None, w} /\ vectorLock'[k] = w
        /\ vectorDraft'[k] = "active"
        /\ \A j \in Keys \ {k} :
             IF j \in local[w].stale
             THEN /\ vectorLock[j] \in {None, w} /\ vectorLock'[j] = w
                  /\ vectorDraft'[j] = "inactive"
             ELSE vectorLock'[j] = vectorLock[j] /\ vectorDraft'[j] = vectorDraft[j]
    <2>1. WrittenBy(w) /\ TablesKept /\ pc[w] = "store"
      BY StoreFacts
    <2>2. /\ Alone(w) /\ local'[w].stale = {}
          /\ jobLock[k] \in {None, w} /\ jobLock'[k] = w
          /\ \A j \in Keys \ {k} : jobDraft'[j] = jobDraft[j] /\ jobLock'[j] = jobLock[j]
      BY <1>1, <2>1 DEF WrittenBy
    <2>3. /\ jobDraft'[k].status = "succeeded"
          /\ vectorLock[k] \in {None, w} /\ vectorLock'[k] = w
          /\ vectorDraft'[k] = "active"
      BY <1>1, StoreFacts
    <2>4. \A j \in Keys \ {k} :
            IF j \in local[w].stale
            THEN /\ vectorLock[j] \in {None, w} /\ vectorLock'[j] = w
                 /\ vectorDraft'[j] = "inactive"
            ELSE vectorLock'[j] = vectorLock[j] /\ vectorDraft'[j] = vectorDraft[j]
      BY <1>1, StoreFacts
    <2> QED
      BY <2>1, <2>2, <2>3, <2>4 DEF Busy
  <1>3. jobs[k].status \in Retryable
    BY <1>1, <1>2 DEF JobsInOrder, WorkerInOrder, ClaimInOrder
  <1>4. vectors[k] = "none"
    BY <1>3 DEF VectorsInOrder, VectorIffSucceeded, Retryable
  <1>5. Respectful(w)
    BY <1>2 DEF Respectful
  <1>6. ASSUME NEW j \in Keys
        PROVE  /\ VectorSeen(w, j)' # "none" <=> JobSeen(w, j)'.status = "succeeded"
               /\ vectors[j] # "none" => vectorDraft'[j] # "none"
               /\ vectors[j] = "inactive" => vectorDraft'[j] = "inactive"
               /\ vectors[j] = "none" /\ vectorLock'[j] # None
                    => jobLock'[j] = vectorLock'[j]
    <2>1. CASE j = k
      BY <1>0, <1>2, <1>4, <2>1 DEF VectorSeen, JobSeen
    <2>2. CASE j # k
      <3>0. /\ VectorSeen(w, j) # "none" <=> JobSeen(w, j).status = "succeeded"
            /\ vectors[j] # "none" => vectorDraft[j] # "none"
            /\ vectors[j] = "inactive" => vectorDraft[j] = "inactive"
            /\ vectors[j] = "none" /\ vectorLock[j] # None => jobLock[j] = vectorLock[j]
            /\ j \in local[w].stale => VectorSeen(w, j) # "none"
        BY <1>0 DEF VectorsInOrder
      <3>1. vectors' = vectors /\ jobs' = jobs
        BY <1>2 DEF TablesKept
      <3>2. jobDraft'[j] = jobDraft[j] /\ jobLock'[j] = jobLock[j]
        BY <1>2, <2>2
      <3>3. \/ vectorLock'[j] = vectorLock[j] /\ vectorDraft'[j] = vectorDraft[j]
            \/ /\ j \in local[w].stale /\ vectorLock'[j] = w
               /\ vectorLock[j] \in {None, w} /\ vectorDraft'[j] = "inactive"
        BY <1>2, <2>2
      <3>4. VectorSeen(w, j)' # "none" <=> VectorSeen(w, j) # "none"
        BY <3>0, <3>1, <3>3 DEF VectorSeen
      <3>5. JobSeen(w, j)' = JobSeen(w, j)
        BY <3>1, <3>2 DEF JobSeen
      <3>6. vectors[j] = "none" /\ vectorLock'[j] # None => vectorLock[j] = vectorLock'[j]
        BY <1>0, <3>0, <3>3 DEF VectorSeen
      <3> QED
        BY <3>0, <3>2, <3>3, <3>4, <3>5, <3>6
    <2> QED
      BY <2>1, <2>2
  <1>7. \A j \in local'[w].stale : VectorSeen(w, j)' # "none"
    BY <1>2
  <1> QED
    BY <1>0, <1>2, <1>5, <1>6, <1>7, VectorsWritten

(* At the end of a transaction what its pass saw is what all see.          *)
LEMMA VectorsEnd ==
  ASSUME Typed, DraftsHeld, JobsInOrder, VectorsInOrder,
         NEW p \in Passes, NEW keep \in BOOLEAN, EndPass(p, keep)
  PROVE  VectorsInOrder'
  <1>1. /\ Alone(p) /\ local'[p] = NoLocal
        /\ \A k \in Keys :
             /\ jobs'[k] = IF keep THEN JobSeen(p, k) ELSE jobs[k]
             /\ vectors'[k] = IF keep THEN VectorSeen(p, k) ELSE vectors[k]
             /\ jobDraft'[k] = IF jobLock[k] = p THEN jobs'[k] ELSE jobDraft[k]
             /\ vectorDraft'[k] = IF vectorLock[k] = p THEN vectors'[k] ELSE vectorDraft[k]
             /\ jobLock'[k] = IF jobLock[k] = p THEN None ELSE jobLock[k]
             /\ vectorLock'[k] = IF vectorLock[k] = p THEN None ELSE vectorLock[k]
    BY EndPassFacts DEF Alone
  <1>2. ASSUME NEW k \in Keys
        PROVE  /\ vectors[k] # "none" <=> jobs[k].status = "succeeded"
               /\ \A q \in Passes :
                    VectorSeen(q, k) # "none" <=> JobSeen(q, k).status = "succeeded"
               /\ vectors[k] # "none" => vectorDraft[k] # "none"
               /\ vectors[k] = "inactive" => vectorDraft[k] = "inactive"
               /\ vectors[k] = "none" /\ vectorLock[k] # None
                    => jobLock[k] = vectorLock[k]
    BY DEF VectorsInOrder, VectorIffSucceeded
  <1>3. VectorIffSucceeded'
    BY <1>1, <1>2 DEF VectorIffSucceeded
  (* A success has no lock on its job.                                     *)
  <1>4. ASSUME NEW k \in Keys, jobs[k].status = "succeeded"
        PROVE  jobLock[k] = None
    <2>1. \A w \in Workers : jobLock[k] # w
      BY <1>4 DEF JobsInOrder, WorkerInOrder, ClaimInOrder, Retryable
    <2>2. \A q \in Planners : jobLock[k] # q
      BY <1>4 DEF JobsInOrder, PlannerInOrder
    <2> QED
      BY <2>1, <2>2, PassKinds DEF Typed
  <1>5. ASSUME NEW k \in Keys, vectors[k] # "none"
        PROVE  vectors'[k] # "none" /\ jobs'[k] = jobs[k]
    <2>1. jobLock[k] = None
      BY <1>2, <1>4, <1>5
    <2>2. VectorSeen(p, k) # "none"
      BY <1>2, <1>5 DEF VectorSeen
    <2> QED
      BY <1>1, <1>5, <2>1, <2>2, PassKinds DEF JobSeen
  <1>6. ASSUME NEW q \in Passes, q # p, NEW k \in Keys
        PROVE  VectorSeen(q, k)' # "none" <=> JobSeen(q, k)'.status = "succeeded"
    <2>1. CASE vectors[k] # "none"
      <3>1. jobs'[k].status = "succeeded" /\ jobLock[k] = None
        BY <1>2, <1>4, <1>5, <2>1
      <3>2. JobSeen(q, k)'.status = "succeeded"
        BY <1>1, <1>6, <3>1, PassKinds DEF JobSeen
      <3>3. VectorSeen(q, k)' # "none"
        BY <1>1, <1>2, <1>5, <1>6, <2>1 DEF VectorSeen
      <3> QED
        BY <3>2, <3>3
    <2>2. CASE vectors[k] = "none" /\ vectorLock[k] # q
      <3>1. jobs[k].status # "succeeded"
        BY <1>2, <2>2
      <3>2. VectorSeen(q, k)' = vectors'[k]
        BY <1>1, <1>6, <2>2, PassKinds DEF VectorSeen
      <3>3. CASE jobLock[k] = q
        <4>1. vectorLock[k] # p
          BY <1>2, <1>6, <2>2, <3>3, PassKinds
        <4>2. vectors'[k] = "none"
          BY <1>1, <2>2, <4>1 DEF VectorSeen
        <4>3. JobSeen(q, k)' = jobDraft[k] /\ JobSeen(q, k) = jobDraft[k]
          BY <1>1, <1>6, <3>3 DEF JobSeen
        <4> QED
          BY <1>2, <2>2, <3>2, <4>2, <4>3 DEF VectorSeen
      <3>4. CASE jobLock[k] # q
        <4>1. JobSeen(q, k)' = jobs'[k]
          BY <1>1, <3>4, PassKinds DEF JobSeen
        <4> QED
          BY <1>3, <3>2, <4>1 DEF VectorIffSucceeded
      <3> QED
        BY <3>3, <3>4
    <2>3. CASE vectors[k] = "none" /\ vectorLock[k] = q
      <3>1. jobLock[k] = q
        BY <1>2, <2>3, PassKinds
      <3>2. JobSeen(q, k)' = JobSeen(q, k) /\ VectorSeen(q, k)' = VectorSeen(q, k)
        BY <1>1, <1>6, <2>3, <3>1 DEF JobSeen, VectorSeen
      <3> QED
        BY <1>2, <3>2
    <2> QED
      BY <2>1, <2>2, <2>3
  <1>7. ASSUME NEW k \in Keys
        PROVE  VectorSeen(p, k)' # "none" <=> JobSeen(p, k)'.status = "succeeded"
    <2>1. VectorSeen(p, k)' = vectors'[k] /\ JobSeen(p, k)' = jobs'[k]
      BY <1>1, PassKinds DEF VectorSeen, JobSeen
    <2> QED
      BY <1>3, <2>1 DEF VectorIffSucceeded
  <1>8. ASSUME NEW k \in Keys
        PROVE  /\ vectors'[k] # "none" => vectorDraft'[k] # "none"
               /\ vectors'[k] = "inactive" => vectorDraft'[k] = "inactive"
               /\ vectors'[k] = "none" /\ vectorLock'[k] # None
                    => jobLock'[k] = vectorLock'[k]
    <2>1. CASE vectorLock[k] = p
      BY <1>1, <2>1
    <2>2. CASE vectorLock[k] # p
      <3>1. vectors'[k] = vectors[k] /\ vectorLock'[k] = vectorLock[k]
        BY <1>1, <2>2 DEF VectorSeen
      <3>2. vectorDraft'[k] = vectorDraft[k]
        BY <1>1, <2>2
      <3> QED
        BY <1>1, <1>2, <2>2, <3>1, <3>2
    <2> QED
      BY <2>1, <2>2
  <1>9. ASSUME NEW q \in Passes, NEW k \in local'[q].stale
        PROVE  VectorSeen(q, k)' # "none"
    <2>1. q # p /\ k \in local[q].stale
      BY <1>1, <1>9 DEF Alone, NoLocal
    <2>2. k \in Keys /\ VectorSeen(q, k) # "none"
      BY <2>1, LocalFacts DEF Typed, VectorsInOrder
    <2>3. CASE vectorLock[k] = q
      BY <1>1, <2>1, <2>2, <2>3 DEF VectorSeen
    <2>4. CASE vectorLock[k] # q
      <3>1. vectors'[k] # "none"
        BY <1>5, <2>2, <2>4 DEF VectorSeen
      <3> QED
        BY <1>1, <2>2, <2>4, <3>1, PassKinds DEF VectorSeen
    <2> QED
      BY <2>3, <2>4
  <1> QED
    BY <1>3, <1>6, <1>7, <1>8, <1>9 DEF VectorsInOrder

LEMMA VectorsWorker ==
  ASSUME Typed, DraftsHeld, JobsInOrder, VectorsInOrder,
         NEW w \in Workers, WorkerStep(w)
  PROVE  VectorsInOrder'
  <1>0. w \in Passes /\ w # None
    BY PassKinds
  <1>i. /\ \A k \in Keys : jobLock[k] = w => ClaimInOrder(w, k)
        /\ \A k \in local[w].batch : jobLock[k] = w
        /\ pc[w] \in Busy => /\ jobLock[Current(w)] = w
                             /\ Current(w) \notin local[w].batch
    BY DEF JobsInOrder, WorkerInOrder
  <1>v. \A k \in Keys : VectorSeen(w, k) # "none" <=> JobSeen(w, k).status = "succeeded"
    BY <1>0 DEF VectorsInOrder
  <1>1. CASE Claim(w)
    <2>1. /\ Alone(w) /\ TablesKept /\ VectorsKept /\ jobDraft' = jobDraft
          /\ local'[w].stale = {}
          /\ \A k \in local'[w].batch : k \in Keys /\ Claimable(k)
          /\ \A k \in Keys : jobLock'[k] = IF k \in local'[w].batch THEN w
                                          ELSE jobLock[k]
      BY <1>1, ClaimFacts
    <2>2. Respectful(w)
      BY <2>1 DEF Respectful, VectorsKept, Claimable
    <2>3. ASSUME NEW k \in Keys
          PROVE  /\ VectorSeen(w, k)' = VectorSeen(w, k)
                 /\ JobSeen(w, k)' = JobSeen(w, k)
                 /\ vectorLock[k] # None /\ vectors[k] = "none"
                      => jobLock'[k] = jobLock[k]
      <3>1. k \in local'[w].batch => jobDraft[k] = jobs[k] /\ jobLock[k] = None
        BY <2>1 DEF Claimable, DraftsHeld
      <3>2. VectorSeen(w, k)' = VectorSeen(w, k)
        BY <2>1 DEF VectorSeen, VectorsKept, TablesKept
      <3>3. JobSeen(w, k)' = JobSeen(w, k)
        BY <2>1, <3>1 DEF JobSeen, TablesKept
      <3>4. vectors[k] = "none" /\ vectorLock[k] # None => jobLock[k] = vectorLock[k]
        BY DEF VectorsInOrder
      <3> QED
        BY <2>1, <3>1, <3>2, <3>3, <3>4
    <2>4. \A k \in Keys :
            /\ VectorSeen(w, k)' # "none" <=> JobSeen(w, k)'.status = "succeeded"
            /\ vectors[k] # "none" => vectorDraft'[k] # "none"
            /\ vectors[k] = "inactive" => vectorDraft'[k] = "inactive"
            /\ vectors[k] = "none" /\ vectorLock'[k] # None
                 => jobLock'[k] = vectorLock'[k]
      BY <1>v, <2>1, <2>3 DEF VectorsInOrder, VectorsKept
    <2> QED
      BY <1>0, <2>1, <2>2, <2>4, VectorsWritten
  <1>2. ASSUME NEW k \in Keys, Load(w, k)
        PROVE  VectorsInOrder'
    <2>1. /\ Alone(w) /\ TablesKept /\ VectorsKept
          /\ k \in local[w].batch /\ local'[w].stale = local[w].stale
          /\ jobDraft'[k] = [status |-> "running", waiting |-> jobDraft[k].waiting,
                             attempts |-> jobDraft[k].attempts + 1]
          /\ jobLock[k] \in {None, w} /\ jobLock'[k] = w
          /\ \A j \in Keys \ {k} : jobDraft'[j] = jobDraft[j] /\ jobLock'[j] = jobLock[j]
      BY <1>2, LoadFacts
    <2>s. jobDraft'[k].status # "succeeded"
      BY <2>1
    <2>2. JobSeen(w, k).status \in Retryable
      BY <1>i, <2>1 DEF ClaimInOrder, JobSeen
    <2>3. VectorSeen(w, k) = "none"
      BY <1>v, <2>2 DEF Retryable
    <2>4. Respectful(w)
      BY <2>1 DEF Respectful, VectorsKept
    <2> QED
      BY <1>0, <2>1, <2>s, <2>3, <2>4, VectorsDropped DEF VectorsKept
  <1>3. CASE Check(w) \/ Embed(w)
    <2>1. /\ Alone(w) /\ TablesKept /\ VectorsKept /\ JobsKept
          /\ local'[w].stale \subseteq local[w].stale \cup ActiveOf(w, Current(w)[1])
      BY <1>3, CheckFacts
    <2>2. \A k \in local'[w].stale : \/ k \in local[w].stale
                                     \/ k \in Keys /\ VectorSeen(w, k) = "active"
      BY <2>1 DEF ActiveOf
    <2> QED
      BY <1>0, <2>1, <2>2, VectorsLooked
  <1>4. CASE CancelJob(w) \/ RecordJobError(w)
    <2>1. WrittenBy(w) /\ TablesKept /\ pc[w] \in Busy
      BY <1>4, CancelFacts, ErrorFacts
    <2>2. PICK k \in Keys : k = Current(w)
      BY <2>1 DEF WrittenBy
    <2>3. /\ Alone(w) /\ local'[w].stale = {}
          /\ jobLock[k] = w /\ jobLock'[k] = w /\ k \notin local[w].batch
          /\ \A j \in Keys \ {k} : jobDraft'[j] = jobDraft[j] /\ jobLock'[j] = jobLock[j]
      BY <1>i, <2>1, <2>2 DEF WrittenBy
    <2>4. jobDraft'[k].status # "succeeded"
      BY <1>4, <2>2, CancelFacts, ErrorFacts
    <2>5. \A j \in Keys :
            \/ vectorLock'[j] = vectorLock[j] /\ vectorDraft'[j] = vectorDraft[j]
            \/ /\ j \in local[w].stale /\ vectorLock'[j] = w
               /\ vectorLock[j] \in {None, w} /\ vectorDraft'[j] = "inactive"
      BY <1>4, CancelFacts, ErrorFacts DEF VectorsKept
    <2>6. VectorSeen(w, k) = "none"
      <3>1. ClaimInOrder(w, k)
        BY <1>i, <2>3
      <3>2. JobSeen(w, k).status = "running"
        BY <2>1, <2>2, <2>3, <3>1 DEF ClaimInOrder, JobSeen
      <3> QED
        BY <1>v, <3>2
    <2>7. Respectful(w)
      BY <2>3, <2>5 DEF Respectful
    <2> QED
      BY <1>0, <2>1, <2>3, <2>4, <2>5, <2>6, <2>7, VectorsDropped
  <1>5. CASE Store(w)
    BY <1>5, VectorsStored
  <1>6. CASE CommitBatch(w)
    BY <1>0, <1>6, VectorsEnd DEF CommitBatch
  <1> QED
    BY <1>1, <1>2, <1>3, <1>4, <1>5, <1>6 DEF WorkerStep

LEMMA VectorsPlanner ==
  ASSUME Typed, DraftsHeld, JobsInOrder, VectorsInOrder,
         NEW p \in Planners, PlannerStep(p)
  PROVE  VectorsInOrder'
  <1>0. p \in Passes /\ p # None
    BY PassKinds
  <1>v. \A k \in Keys : VectorSeen(p, k) # "none" <=> JobSeen(p, k).status = "succeeded"
    BY <1>0 DEF VectorsInOrder
  <1>1. CASE \/ StartPlan(p) \/ SelectChunks(p)
             \/ \E c \in Chunks : Sweep(p, c)
             \/ \E r \in local[p].rows : PlanChunk(p, r)
    BY <1>0, <1>1, LookFacts, VectorsLooked
  <1>2. CASE DropVectors(p)
    <2>1. /\ Alone(p) /\ TablesKept /\ JobsKept /\ local'[p].stale = {}
          /\ \A k \in Keys :
               \/ vectorLock'[k] = vectorLock[k] /\ vectorDraft'[k] = vectorDraft[k]
               \/ /\ k \in local[p].stale /\ vectorLock'[k] = p
                  /\ vectorLock[k] \in {None, p} /\ vectorDraft'[k] = "inactive"
      BY <1>2, DropFacts
    <2>2. Respectful(p)
      BY <2>1 DEF Respectful, JobsKept
    <2> QED
      BY <1>0, <2>1, <2>2, VectorsDropped DEF JobsKept
  <1>3. CASE ResetFailedJob(p) \/ InsertJob(p)
    <2>1. PICK k \in Keys : k = Current(p)
      BY <1>3, EnterFacts
    <2>2. /\ Alone(p) /\ TablesKept /\ VectorsKept
          /\ local'[p].stale = local[p].stale
          /\ pc[p] = "reset" \/ JobSeen(p, k).status = "none"
          /\ jobLock[k] \in {None, p} /\ jobLock'[k] = p /\ jobDraft'[k] = NewJob
          /\ \A j \in Keys \ {k} : jobDraft'[j] = jobDraft[j] /\ jobLock'[j] = jobLock[j]
      BY <1>3, <2>1, EnterFacts
    <2>3. JobSeen(p, k).status # "succeeded"
      BY <2>1, <2>2 DEF JobsInOrder, PlannerInOrder, JobSeen, NewJob
    <2>4. VectorSeen(p, k) = "none" /\ NewJob.status # "succeeded"
      BY <1>v, <2>3 DEF NewJob
    <2>5. Respectful(p)
      BY <2>2 DEF Respectful, VectorsKept
    <2> QED
      BY <1>0, <2>2, <2>4, <2>5, VectorsDropped DEF VectorsKept
  <1>4. CASE InsertCollides(p) \/ CommitPlan(p)
    <2>1. EndPass(p, TRUE) \/ EndPass(p, FALSE)
      BY <1>4 DEF InsertCollides, CommitPlan
    <2> QED
      BY <1>0, <2>1, VectorsEnd
  <1> QED
    BY <1>1, <1>2, <1>3, <1>4 DEF PlannerStep

LEMMA VectorsStep ==
  ASSUME Typed, DraftsHeld, JobsInOrder, VectorsInOrder, [EmbeddingNext]_vars
  PROVE  VectorsInOrder'
  <1>1. CASE CatalogChanges \/ UNCHANGED vars
    <2>1. UNCHANGED <<jobs, jobDraft, jobLock, vectors, vectorDraft, vectorLock, local>>
      BY <1>1 DEF CatalogChanges, vars, tables, drafts
    <2> QED
      BY <2>1 DEF VectorsInOrder, VectorIffSucceeded, VectorSeen, JobSeen
  <1>2. ASSUME NEW w \in Workers, WorkerStep(w) PROVE VectorsInOrder'
    BY <1>2, VectorsWorker
  <1>3. ASSUME NEW p \in Planners, PlannerStep(p) PROVE VectorsInOrder'
    BY <1>3, VectorsPlanner
  <1>4. ASSUME NEW p \in Passes, Die(p) \/ FailVictim(p) PROVE VectorsInOrder'
    BY <1>4, VectorsEnd DEF Die, FailVictim
  <1>5. ASSUME NEW k \in Keys, RetryDue(k) PROVE VectorsInOrder'
    <2>1. /\ UNCHANGED <<jobLock, vectors, vectorDraft, vectorLock, local>>
          /\ jobLock[k] = None
          /\ \A j \in Keys : /\ jobs'[j].status = jobs[j].status
                             /\ j # k => jobDraft'[j] = jobDraft[j]
      BY <1>5, RetryDueTyped DEF RetryDue
    <2>2. \A p \in Passes, j \in Keys :
            JobSeen(p, j)'.status = JobSeen(p, j).status
      BY <2>1, PassKinds DEF JobSeen
    <2> QED
      BY <2>1, <2>2 DEF VectorsInOrder, VectorIffSucceeded, VectorSeen
  <1> QED
    BY <1>1, <1>2, <1>3, <1>4, <1>5 DEF EmbeddingNext

LEMMA VectorsInitially == EmbeddingInit => VectorsInOrder
  <1> SUFFICES ASSUME EmbeddingInit PROVE VectorsInOrder
    OBVIOUS
  <1>1. /\ \A k \in Keys : /\ jobLock[k] = None /\ vectorLock[k] = None
                           /\ vectors[k] = "none" /\ vectorDraft[k] = "none"
                           /\ jobs[k].status = "none"
        /\ \A p \in Passes : local[p].stale = {}
    BY DEF EmbeddingInit, NoLocal, NoJob
  <1> QED
    BY <1>1, PassKinds DEF VectorsInOrder, VectorIffSucceeded, VectorSeen, JobSeen

(* What every invariant of the tables rests on.                            *)
InOrder == Typed /\ DraftsHeld /\ JobsInOrder /\ VectorsInOrder

LEMMA InOrderAlways == OnePlanner => (EmbeddingSpec => []InOrder)
  <1>1. EmbeddingInit => InOrder
    <2>1. EmbeddingInit => DraftsHeld
      BY NoPass DEF EmbeddingInit, DraftsHeld
    <2> QED
      BY <2>1, InitTyped, JobsInitially, VectorsInitially DEF InOrder
  <1>2. OnePlanner /\ InOrder /\ [EmbeddingNext]_vars => InOrder'
    BY TypeStep, JobsStep, VectorsStep DEF InOrder
  <1>3. SUFFICES ASSUME OnePlanner PROVE EmbeddingSpec => []InOrder
    OBVIOUS
  <1>4. InOrder /\ [EmbeddingNext]_vars => InOrder'
    BY <1>2, <1>3
  <1> QED
    BY <1>1, <1>4, PTL DEF EmbeddingSpec

(* A vector is there exactly when its job has succeeded, for any number of *)
(* workers beside one planner and whatever dies or changes meanwhile       *)
(* (embeddings/jobs.py:229-249).                                           *)
THEOREM VectorsMatchJobs ==
  OnePlanner => (EmbeddingSpec => []VectorIffSucceeded)
  <1>1. InOrder => VectorIffSucceeded
    BY DEF InOrder, VectorsInOrder
  <1> QED
    BY <1>1, InOrderAlways, PTL

-----------------------------------------------------------------------------
(* The tables are the ledger.                                              *)

Same(k) == jobs'[k].status = jobs[k].status /\ vectors'[k] = vectors[k]

Recorded(k) ==
  \/ Same(k)
  \/ /\ <<jobs[k].status, jobs'[k].status>> \in Ledger!Moves
     /\ vectors'[k] \in IF jobs'[k].status = "succeeded" THEN {"active", "inactive"}
                        ELSE {vectors[k]}
  \/ /\ jobs'[k].status = jobs[k].status
     /\ vectors[k] = "active" /\ vectors'[k] = "inactive"

LEMMA EndRecorded ==
  ASSUME InOrder, NEW p \in Passes, NEW keep \in BOOLEAN, EndPass(p, keep),
         keep => pc[p] \in {"next", "plan"} /\ (p \in Workers => local[p].batch = {}),
         NEW k \in Keys
  PROVE  Recorded(k)
  <1>0. Typed /\ JobsInOrder /\ p # None
    BY PassKinds DEF InOrder
  <1>1. /\ vectors[k] # "none" <=> jobs[k].status = "succeeded"
        /\ VectorSeen(p, k) # "none" <=> JobSeen(p, k).status = "succeeded"
        /\ vectors[k] # "none" => vectorDraft[k] # "none"
        /\ vectors[k] = "inactive" => vectorDraft[k] = "inactive"
        /\ vectors[k] = "none" /\ vectorLock[k] # None => jobLock[k] = vectorLock[k]
    BY DEF InOrder, VectorsInOrder, VectorIffSucceeded
  <1>2. /\ jobs'[k] = IF keep THEN JobSeen(p, k) ELSE jobs[k]
        /\ vectors'[k] = IF keep THEN VectorSeen(p, k) ELSE vectors[k]
    BY <1>0, EndPassFacts
  <1>3. /\ vectors[k] \in VectorState /\ vectorDraft[k] \in VectorState
        /\ VectorSeen(p, k) \in VectorState
    BY <1>0 DEF Typed, VectorSeen
  <1>4. CASE ~keep
    BY <1>2, <1>4 DEF Recorded, Same
  <1>5. CASE keep /\ jobLock[k] # p
    <2>1. jobs'[k] = jobs[k]
      BY <1>2, <1>5 DEF JobSeen
    <2>2. \/ vectors'[k] = vectors[k]
          \/ vectors[k] = "active" /\ vectors'[k] = "inactive"
      BY <1>0, <1>1, <1>2, <1>3, <1>5 DEF VectorSeen, VectorState
    <2> QED
      BY <2>1, <2>2 DEF Recorded, Same
  <1>6. CASE keep /\ jobLock[k] = p
    <2>1. jobs'[k] = jobDraft[k] /\ vectors'[k] = VectorSeen(p, k)
      BY <1>2, <1>6 DEF JobSeen
    <2>2. vectors'[k] # "none" <=> jobs'[k].status = "succeeded"
      BY <1>1, <1>2, <1>6
    <2>3. CASE p \in Planners
      <3>1. jobs[k].status \in {"none", "failed"} /\ jobs'[k].status = "pending"
        BY <1>0, <1>6, <2>1, <2>3 DEF JobsInOrder, PlannerInOrder, NewJob
      <3>2. vectors[k] = "none" /\ vectors'[k] = "none"
        BY <1>1, <2>2, <3>1
      <3>3. <<jobs[k].status, jobs'[k].status>> \in Ledger!Moves
        BY <3>1 DEF Ledger!Moves
      <3> QED
        BY <3>1, <3>2, <3>3 DEF Recorded
    <2>4. CASE p \in Workers
      <3>1. ClaimInOrder(p, k) /\ pc[p] \notin Busy /\ k \notin local[p].batch
        BY <1>0, <1>6, <2>4, PassKinds DEF JobsInOrder, WorkerInOrder, Busy
      <3>2. /\ jobs[k].status \in Retryable
            /\ jobs'[k].status \in {"retrying", "succeeded", "failed", "cancelled"}
        BY <2>1, <3>1 DEF ClaimInOrder, Ended
      <3>3. vectors[k] = "none"
        BY <1>1, <3>2 DEF Retryable
      <3>4. <<jobs[k].status, jobs'[k].status>> \in Ledger!Moves
        BY <3>2 DEF Ledger!Moves, Retryable
      <3>5. vectors'[k] \in IF jobs'[k].status = "succeeded" THEN {"active", "inactive"}
                            ELSE {vectors[k]}
        BY <1>3, <2>1, <2>2, <3>3 DEF VectorState
      <3> QED
        BY <3>4, <3>5 DEF Recorded
    <2> QED
      BY <2>3, <2>4 DEF Passes
  <1> QED
    BY <1>4, <1>5, <1>6

LEMMA StepRecorded ==
  ASSUME InOrder, [EmbeddingNext]_vars, NEW k \in Keys
  PROVE  Recorded(k)
  <1>1. ASSUME TablesKept PROVE Recorded(k)
    BY <1>1 DEF TablesKept, Recorded, Same
  <1>2. CASE CatalogChanges \/ UNCHANGED vars
    BY <1>1, <1>2 DEF CatalogChanges, vars, tables, TablesKept
  <1>3. ASSUME NEW w \in Workers, WorkerStep(w) PROVE Recorded(k)
    <2>1. TablesKept \/ CommitBatch(w)
      BY <1>3 DEF WorkerStep, Claim, Load, Check, CancelJob, RecordJobError, Embed,
                  Store, tables, TablesKept
    <2> QED
      BY <1>1, <2>1, EndRecorded, PassKinds DEF CommitBatch
  <1>4. ASSUME NEW p \in Planners, PlannerStep(p) PROVE Recorded(k)
    <2>1. TablesKept \/ InsertCollides(p) \/ CommitPlan(p)
      BY <1>4 DEF PlannerStep, StartPlan, Sweep, DropVectors, SelectChunks, PlanChunk,
                  ResetFailedJob, InsertJob, tables, TablesKept
    <2> QED
      BY <1>1, <2>1, EndRecorded, PassKinds DEF InsertCollides, CommitPlan
  <1>5. ASSUME NEW p \in Passes, Die(p) \/ FailVictim(p) PROVE Recorded(k)
    BY <1>5, EndRecorded DEF Die, FailVictim
  <1>6. ASSUME NEW j \in Keys, RetryDue(j) PROVE Recorded(k)
    BY <1>6, RetryDueTyped DEF RetryDue, Recorded, Same, InOrder
  <1> QED
    BY <1>2, <1>3, <1>4, <1>5, <1>6 DEF EmbeddingNext

(* The committed jobs and vectors implement the ledger: a text is embedded *)
(* once, no finished job starts again and no vector that went out of use   *)
(* comes back (embeddings/jobs.py:378-429).                                *)
THEOREM LedgerImplemented ==
  OnePlanner => (EmbeddingSpec => LedgerKept)
  <1>1. EmbeddingInit => Ledger!LedgerInit
    BY DEF EmbeddingInit, NoJob, Ledger!LedgerInit
  <1>2. InOrder /\ [EmbeddingNext]_vars => Ledger!Transaction
    <2>1. SUFFICES ASSUME InOrder, [EmbeddingNext]_vars, NEW k \in Keys
                   PROVE  Ledger!Kept(k) \/ Ledger!Worked(k) \/ Ledger!Dropped(k)
      BY DEF Ledger!Transaction
    <2>2. Recorded(k)
      BY <2>1, StepRecorded
    <2> QED
      BY <2>2 DEF Recorded, Same, Ledger!Kept, Ledger!Worked, Ledger!Dropped
  <1>3. InOrder /\ [EmbeddingNext]_vars
          => [Ledger!Transaction]_<<[k \in Keys |-> jobs[k].status], vectors>>
    BY <1>2
  <1>4. SUFFICES ASSUME OnePlanner PROVE EmbeddingSpec => LedgerKept
    OBVIOUS
  <1> QED
    BY <1>1, <1>3, <1>4, InOrderAlways, PTL
       DEF EmbeddingSpec, LedgerKept, Ledger!LedgerSpec

-----------------------------------------------------------------------------
(* One active vector of a chunk, for one worker.                           *)

OneSeenOfAChunk(w) ==
  \A c \in Chunks, g \in Hashes, h \in Hashes :
    VectorSeen(w, <<c, g>>) = "active" /\ VectorSeen(w, <<c, h>>) = "active" => g = h

OneVectorInv(w) == Typed /\ DraftsHeld /\ OneActiveVector /\ OneVectorSeen(w)

(* It is enough that w sees no other active vectors than before, and that  *)
(* what is committed is what it saw.                                       *)
LEMMA NoOtherSeen ==
  ASSUME NEW w \in Workers, OneVectorInv(w),
         \A k \in Keys :
           /\ VectorSeen(w, k)' = "active" => VectorSeen(w, k) = "active"
           /\ vectors'[k] = "active" => vectors[k] = "active" \/ VectorSeen(w, k) = "active",
         (\A k \in Keys : vectors'[k] = "active" => vectors[k] = "active")
           \/ (\A k \in Keys : vectors'[k] = "active" => VectorSeen(w, k) = "active"),
         \A k \in Keys : vectorLock'[k] \in Planners => vectorDraft'[k] = "inactive",
         \/ pc'[w] # "store"
         \/ /\ pc[w] = "store" /\ local'[w] = local[w] /\ Current(w) \in Keys
  PROVE  OneActiveVector' /\ OneVectorSeen(w)'
  <1>1. OneSeenOfAChunk(w) /\ OneActiveVector
    BY DEF OneVectorInv, OneVectorSeen, OneSeenOfAChunk
  <1>2. \A c \in Chunks, g \in Hashes, h \in Hashes :
          /\ VectorSeen(w, <<c, g>>)' = "active" /\ VectorSeen(w, <<c, h>>)' = "active"
          => g = h
    <2> SUFFICES ASSUME NEW c \in Chunks, NEW g \in Hashes, NEW h \in Hashes,
                        VectorSeen(w, <<c, g>>)' = "active",
                        VectorSeen(w, <<c, h>>)' = "active"
                 PROVE  g = h
      OBVIOUS
    <2>1. <<c, g>> \in Keys /\ <<c, h>> \in Keys
      BY DEF Keys
    <2>2. VectorSeen(w, <<c, g>>) = "active" /\ VectorSeen(w, <<c, h>>) = "active"
      BY <2>1
    <2> QED
      BY <1>1, <2>2 DEF OneSeenOfAChunk
  <1>3. OneActiveVector'
    <2> SUFFICES ASSUME NEW c \in Chunks, NEW g \in Hashes, NEW h \in Hashes,
                        vectors'[<<c, g>>] = "active", vectors'[<<c, h>>] = "active"
                 PROVE  g = h
      BY DEF OneActiveVector
    <2>1. <<c, g>> \in Keys /\ <<c, h>> \in Keys
      BY DEF Keys
    <2>2. \/ vectors[<<c, g>>] = "active" /\ vectors[<<c, h>>] = "active"
          \/ VectorSeen(w, <<c, g>>) = "active" /\ VectorSeen(w, <<c, h>>) = "active"
      BY <2>1
    <2> QED
      BY <1>1, <2>2 DEF OneSeenOfAChunk, OneActiveVector
  <1>4. ASSUME pc'[w] = "store"
        PROVE  ActiveOf(w, Current(w)[1])'
                 \subseteq local'[w].stale \cup {Current(w)'}
    <2>1. /\ pc[w] = "store" /\ local'[w] = local[w] /\ Current(w)' = Current(w)
      BY <1>4 DEF Current
    <2>2. ActiveOf(w, Current(w)[1]) \subseteq local[w].stale \cup {Current(w)}
      BY <2>1 DEF OneVectorInv, OneVectorSeen
    <2>3. ActiveOf(w, Current(w)[1])' \subseteq ActiveOf(w, Current(w)[1])
      BY <2>1 DEF ActiveOf
    <2> QED
      BY <2>1, <2>2, <2>3
  <1> QED
    BY <1>2, <1>3, <1>4 DEF OneVectorSeen

LEMMA OneVectorEnd ==
  ASSUME NEW w \in Workers, Workers = {w}, OneVectorInv(w),
         NEW p \in Passes, NEW keep \in BOOLEAN, EndPass(p, keep)
  PROVE  OneActiveVector' /\ OneVectorSeen(w)'
  <1>1. /\ Alone(p) /\ pc'[p] = "idle"
        /\ \A k \in Keys :
             /\ vectors'[k] = IF keep THEN VectorSeen(p, k) ELSE vectors[k]
             /\ vectorDraft'[k] = IF vectorLock[k] = p THEN vectors'[k] ELSE vectorDraft[k]
             /\ vectorLock'[k] = IF vectorLock[k] = p THEN None ELSE vectorLock[k]
    BY EndPassFacts DEF Alone, OneVectorInv
  <1>2. \A k \in Keys : vectorLock[k] \in Planners => vectorDraft[k] = "inactive"
    BY DEF OneVectorInv, OneVectorSeen
  <1>3. p \in Planners => w # p
    BY PassKinds
  <1>4. \A k \in Keys : vectorLock'[k] \in Planners => vectorDraft'[k] = "inactive"
    BY <1>1, <1>2, PassKinds
  <1>5. CASE p = w /\ keep
    <2>1. \A k \in Keys : vectors'[k] = VectorSeen(w, k) /\ VectorSeen(w, k)' = vectors'[k]
      BY <1>1, <1>5, PassKinds DEF VectorSeen
    <2> QED
      BY <1>1, <1>4, <1>5, <2>1, NoOtherSeen
  <1>6. CASE p = w /\ ~keep
    <2>1. \A k \in Keys : vectors'[k] = vectors[k] /\ VectorSeen(w, k)' = vectors[k]
      BY <1>1, <1>6, PassKinds DEF VectorSeen
    <2>2. OneActiveVector'
      BY <2>1 DEF OneVectorInv, OneActiveVector, Keys
    <2>3. \A c \in Chunks, g \in Hashes, h \in Hashes :
            /\ VectorSeen(w, <<c, g>>)' = "active" /\ VectorSeen(w, <<c, h>>)' = "active"
            => g = h
      BY <2>1 DEF OneVectorInv, OneActiveVector, Keys
    <2> QED
      BY <1>1, <1>4, <1>6, <2>2, <2>3 DEF OneVectorSeen
  <1>7. CASE p # w
    <2>1. p \in Planners /\ pc'[w] = pc[w] /\ local'[w] = local[w]
      BY <1>1, <1>7 DEF Passes, Alone
    <2>2. \A k \in Keys : vectors'[k] = "active" => vectors[k] = "active"
      BY <1>1, <1>2, <2>1 DEF VectorSeen
    <2>3. \A k \in Keys : VectorSeen(w, k)' = "active" => VectorSeen(w, k) = "active"
      BY <1>1, <1>7, <2>2, PassKinds DEF VectorSeen
    <2>4. pc[w] = "store" => Current(w) \in Keys
      BY PassKinds DEF OneVectorInv, Typed, KeyAtHand, AtHand, Current
    <2> QED
      BY <1>4, <2>1, <2>2, <2>3, <2>4, NoOtherSeen
  <1> QED
    BY <1>5, <1>6, <1>7

(* Steps that write no vector.                                             *)
LEMMA OneVectorKept ==
  ASSUME NEW w \in Workers, OneVectorInv(w), vectors' = vectors, VectorsKept,
         pc'[w] = "store" => pc[w] = "store" /\ local'[w] = local[w]
  PROVE  OneActiveVector' /\ OneVectorSeen(w)'
  <1>1. \A k \in Keys : VectorSeen(w, k)' = VectorSeen(w, k)
    BY DEF VectorSeen, VectorsKept
  <1>2. \A k \in Keys : vectorLock'[k] \in Planners => vectorDraft'[k] = "inactive"
    BY DEF OneVectorInv, OneVectorSeen, VectorsKept
  <1>3. pc[w] = "store" => Current(w) \in Keys
    BY PassKinds DEF OneVectorInv, Typed, KeyAtHand, AtHand, Current
  <1> QED
    BY <1>1, <1>2, <1>3, NoOtherSeen

LEMMA OneVectorWorker ==
  ASSUME NEW w \in Workers, Workers = {w}, OneVectorInv(w), WorkerStep(w)
  PROVE  OneActiveVector' /\ OneVectorSeen(w)'
  <1>0. w \in Passes /\ w # None /\ w \notin Planners /\ Typed
    BY PassKinds DEF OneVectorInv
  <1>i. \A k \in Keys : vectorLock[k] \in Planners => vectorDraft[k] = "inactive"
    BY DEF OneVectorInv, OneVectorSeen
  <1>1. CASE Claim(w) \/ RecordJobError(w) \/ \E k \in Keys : Load(w, k)
    <2>1. vectors' = vectors /\ VectorsKept /\ pc'[w] # "store"
      <3>1. CASE Claim(w)
        BY <1>0, <3>1, ClaimFacts DEF TablesKept
      <3>2. CASE RecordJobError(w)
        BY <1>0, <3>2, ErrorFacts DEF TablesKept, WrittenBy
      <3>3. ASSUME NEW k \in Keys, Load(w, k)
            PROVE  vectors' = vectors /\ VectorsKept /\ pc'[w] # "store"
        BY <1>0, <3>3, LoadFacts DEF TablesKept
      <3> QED
        BY <1>1, <3>1, <3>2, <3>3
    <2> QED
      BY <2>1, OneVectorKept
  <1>2. CASE Check(w) \/ Embed(w)
    <2>1. /\ vectors' = vectors /\ VectorsKept /\ Current(w)' = Current(w)
          /\ pc'[w] = "store" =>
               ActiveOf(w, Current(w)[1]) \subseteq local'[w].stale \cup {Current(w)}
      BY <1>0, <1>2, CheckFacts DEF TablesKept, Current
    <2>2. ActiveOf(w, Current(w)[1])' = ActiveOf(w, Current(w)[1])
      BY <2>1 DEF ActiveOf, VectorSeen, VectorsKept
    <2>3. OneActiveVector'
      BY <2>1 DEF OneVectorInv, OneActiveVector
    <2>4. \A c \in Chunks, g \in Hashes, h \in Hashes :
            /\ VectorSeen(w, <<c, g>>)' = "active" /\ VectorSeen(w, <<c, h>>)' = "active"
            => g = h
      BY <2>1 DEF OneVectorInv, OneVectorSeen, VectorSeen, VectorsKept
    <2> QED
      BY <1>i, <2>1, <2>2, <2>3, <2>4 DEF OneVectorSeen, VectorsKept
  <1>3. CASE CancelJob(w)
    <2>1. /\ vectors' = vectors /\ pc'[w] # "store"
          /\ \A k \in Keys :
               \/ vectorLock'[k] = vectorLock[k] /\ vectorDraft'[k] = vectorDraft[k]
               \/ vectorLock'[k] = w /\ vectorDraft'[k] = "inactive"
      BY <1>0, <1>3, CancelFacts DEF TablesKept, WrittenBy
    <2>2. \A k \in Keys : VectorSeen(w, k)' = "active" => VectorSeen(w, k) = "active"
      BY <2>1 DEF VectorSeen
    <2>3. \A k \in Keys : vectorLock'[k] \in Planners => vectorDraft'[k] = "inactive"
      BY <1>0, <1>i, <2>1
    <2> QED
      BY <2>1, <2>2, <2>3, NoOtherSeen
  <1>4. CASE Store(w)
    <2>1. PICK cur \in Keys : cur = Current(w)
      BY <1>0, <1>4, StoreFacts DEF WrittenBy
    <2>2. /\ vectors' = vectors /\ pc'[w] # "store" /\ pc[w] = "store"
          /\ vectorLock'[cur] = w /\ vectorDraft'[cur] = "active"
      BY <1>0, <1>4, <2>1, StoreFacts DEF TablesKept, WrittenBy
    <2>3. \A k \in Keys \ {cur} :
            IF k \in local[w].stale
            THEN vectorLock'[k] = w /\ vectorDraft'[k] = "inactive"
            ELSE vectorLock'[k] = vectorLock[k] /\ vectorDraft'[k] = vectorDraft[k]
      BY <1>0, <1>4, <2>1, StoreFacts
    <2>4. \A k \in Keys \ {cur} :
            VectorSeen(w, k)' = "active" =>
              VectorSeen(w, k) = "active" /\ k \notin local[w].stale
      BY <2>2, <2>3 DEF VectorSeen
    <2>5. \A k \in Keys \ {cur} :
            VectorSeen(w, k) = "active" /\ k[1] = cur[1] => k \in local[w].stale
      BY <2>1, <2>2 DEF OneVectorInv, OneVectorSeen, ActiveOf
    <2>6. ASSUME NEW c \in Chunks, NEW g \in Hashes, NEW h \in Hashes,
                 VectorSeen(w, <<c, g>>)' = "active", VectorSeen(w, <<c, h>>)' = "active"
          PROVE  g = h
      <3>1. <<c, g>> \in Keys /\ <<c, h>> \in Keys
        BY DEF Keys
      <3>2. CASE <<c, g>> # cur /\ <<c, h>> # cur
        BY <2>4, <2>6, <3>1, <3>2 DEF OneVectorInv, OneVectorSeen
      <3>3. CASE <<c, g>> = cur \/ <<c, h>> = cur
        <4>1. <<c, g>>[1] = c /\ <<c, h>>[1] = c
          OBVIOUS
        <4>2. <<c, g>> = cur /\ <<c, h>> = cur
          BY <2>4, <2>5, <2>6, <3>1, <3>3, <4>1
        <4> QED
          BY <4>2
      <3> QED
        BY <3>2, <3>3
    <2>7. \A k \in Keys : vectorLock'[k] \in Planners => vectorDraft'[k] = "inactive"
      BY <1>0, <1>i, <2>2, <2>3
    <2>8. OneActiveVector'
      BY <2>2 DEF OneVectorInv, OneActiveVector
    <2> QED
      BY <2>2, <2>6, <2>7, <2>8 DEF OneVectorSeen
  <1>5. CASE CommitBatch(w)
    BY <1>0, <1>5, OneVectorEnd DEF CommitBatch
  <1> QED
    BY <1>1, <1>2, <1>3, <1>4, <1>5 DEF WorkerStep

LEMMA OneVectorPlanner ==
  ASSUME NEW w \in Workers, Workers = {w}, OneVectorInv(w),
         NEW p \in Planners, PlannerStep(p)
  PROVE  OneActiveVector' /\ OneVectorSeen(w)'
  <1>0. p \in Passes /\ w \in Passes /\ p # None /\ p # w /\ Typed
    BY PassKinds DEF OneVectorInv
  <1>i. \A k \in Keys : vectorLock[k] \in Planners => vectorDraft[k] = "inactive"
    BY DEF OneVectorInv, OneVectorSeen
  <1>1. CASE \/ StartPlan(p) \/ SelectChunks(p)
             \/ \E c \in Chunks : Sweep(p, c)
             \/ \E r \in local[p].rows : PlanChunk(p, r)
    <2>1. vectors' = vectors /\ VectorsKept /\ pc'[w] = pc[w] /\ local'[w] = local[w]
      BY <1>0, <1>1, LookFacts DEF TablesKept, Alone
    <2> QED
      BY <2>1, OneVectorKept
  <1>2. CASE ResetFailedJob(p) \/ InsertJob(p)
    <2>1. vectors' = vectors /\ VectorsKept /\ pc'[w] = pc[w] /\ local'[w] = local[w]
      BY <1>0, <1>2, EnterFacts DEF TablesKept, Alone
    <2> QED
      BY <2>1, OneVectorKept
  <1>3. CASE DropVectors(p)
    <2>1. /\ vectors' = vectors /\ pc'[w] = pc[w] /\ local'[w] = local[w]
          /\ \A k \in Keys :
               \/ vectorLock'[k] = vectorLock[k] /\ vectorDraft'[k] = vectorDraft[k]
               \/ /\ vectorLock[k] \in {None, p} /\ vectorLock'[k] = p
                  /\ vectorDraft'[k] = "inactive"
      BY <1>0, <1>3, DropFacts DEF TablesKept, Alone
    <2>2. \A k \in Keys : VectorSeen(w, k)' = VectorSeen(w, k)
      BY <1>0, <2>1, PassKinds DEF VectorSeen
    <2>3. \A k \in Keys : vectorLock'[k] \in Planners => vectorDraft'[k] = "inactive"
      BY <1>i, <2>1
    <2>4. pc[w] = "store" => Current(w) \in Keys
      BY <1>0 DEF Typed, KeyAtHand, AtHand, Current
    <2> QED
      BY <2>1, <2>2, <2>3, <2>4, NoOtherSeen
  <1>4. CASE InsertCollides(p) \/ CommitPlan(p)
    <2>1. EndPass(p, TRUE) \/ EndPass(p, FALSE)
      BY <1>4 DEF InsertCollides, CommitPlan
    <2> QED
      BY <1>0, <2>1, OneVectorEnd
  <1> QED
    BY <1>1, <1>2, <1>3, <1>4 DEF PlannerStep

(* At most one vector of a chunk is active when one worker runs, beside    *)
(* any number of planners (embeddings/storage.py:50-91).                   *)
THEOREM OneVectorServed ==
  ASSUME NEW w, Workers = {w}
  PROVE  EmbeddingSpec => []OneActiveVector
  <1>0. w \in Workers
    OBVIOUS
  <1>1. EmbeddingInit => OneVectorInv(w)
    <2> SUFFICES ASSUME EmbeddingInit PROVE OneVectorInv(w)
      OBVIOUS
    <2>1. /\ \A k \in Keys : vectorLock[k] = None /\ vectors[k] = "none"
          /\ pc[w] = "idle" /\ DraftsHeld
      BY <1>0, NoPass, PassKinds DEF EmbeddingInit, DraftsHeld
    <2>2. \A k \in Keys : VectorSeen(w, k) = "none" /\ vectorLock[k] \notin Planners
      BY <2>1, <1>0, PassKinds DEF VectorSeen
    <2> QED
      BY <2>1, <2>2, InitTyped DEF OneVectorInv, OneActiveVector, OneVectorSeen, Keys
  <1>2. ASSUME OneVectorInv(w), [EmbeddingNext]_vars
        PROVE  OneVectorInv(w)'
    <2>1. (Typed /\ DraftsHeld)'
      BY <1>2, TypeStep DEF OneVectorInv
    <2>2. CASE CatalogChanges \/ UNCHANGED vars
      <3>1. vectors' = vectors /\ VectorsKept /\ pc'[w] = pc[w] /\ local'[w] = local[w]
        BY <2>2 DEF CatalogChanges, vars, tables, drafts, VectorsKept
      <3> QED
        BY <1>0, <1>2, <2>1, <3>1, OneVectorKept DEF OneVectorInv
    <2>3. ASSUME NEW v \in Workers, WorkerStep(v) PROVE OneVectorInv(w)'
      BY <1>0, <1>2, <2>1, <2>3, OneVectorWorker DEF OneVectorInv
    <2>4. ASSUME NEW p \in Planners, PlannerStep(p) PROVE OneVectorInv(w)'
      BY <1>0, <1>2, <2>1, <2>4, OneVectorPlanner DEF OneVectorInv
    <2>5. ASSUME NEW p \in Passes, Die(p) \/ FailVictim(p) PROVE OneVectorInv(w)'
      <3>1. EndPass(p, FALSE)
        BY <2>5 DEF Die, FailVictim
      <3> QED
        BY <1>0, <1>2, <2>1, <3>1, OneVectorEnd DEF OneVectorInv
    <2>6. ASSUME NEW k \in Keys, RetryDue(k) PROVE OneVectorInv(w)'
      <3>1. vectors' = vectors /\ VectorsKept /\ pc'[w] = pc[w] /\ local'[w] = local[w]
        BY <2>6 DEF RetryDue, VectorsKept
      <3> QED
        BY <1>0, <1>2, <2>1, <3>1, OneVectorKept DEF OneVectorInv
    <2> QED
      BY <1>2, <2>2, <2>3, <2>4, <2>5, <2>6 DEF EmbeddingNext
  <1>3. OneVectorInv(w) => OneActiveVector
    BY DEF OneVectorInv
  <1>4. OneVectorInv(w) /\ [EmbeddingNext]_vars => OneVectorInv(w)'
    BY <1>2
  <1> HIDE DEF OneVectorInv
  <1> QED
    BY <1>1, <1>3, <1>4, PTL DEF EmbeddingSpec

=============================================================================
