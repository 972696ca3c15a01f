--------------------------- MODULE ContentPipeline ---------------------------
(***************************************************************************)
(* One source's files on their way to chunk rows, round by round: a        *)
(* snapshot is fetched and classified; each file kept is extracted,        *)
(* redacted, chunked and stored in a session of its own; when all are      *)
(* through, the chunks absent from the snapshot are retired.  The product  *)
(* does not call these stages yet; their order and their sessions are      *)
(* those of the repository's composition tests.  An exception ends the     *)
(* round, and what earlier sessions committed stays.                       *)
(***************************************************************************)
EXTENDS Chunking

CONSTANTS
  Configs,     \* what sources.yaml may say of the source, in the runs
  Snapshots,   \* for each source version: the files and the fetcher's skips
  MaxRounds    \* bound: snapshots ingested one after the other

Token == Classes \X Nat

ASSUME ContentConstants ==
  /\ Words \in Seq(STRING)
  /\ None \notin DOMAIN Snapshots /\ MaxRounds \in Nat
  /\ \A v \in DOMAIN Snapshots : \A f \in DOMAIN Snapshots[v].files :
       ReadAs(Snapshots[v].files[f], Token)
  /\ \A v \in DOMAIN Snapshots :
       /\ DOMAIN Snapshots[v].files \subseteq Paths
       /\ IsFiniteSet(DOMAIN Snapshots[v].files)
       /\ Snapshots[v].skipped \in Seq([locator: STRING, reason: STRING])
  /\ \A c \in Configs :
       /\ c.profile \in STRING /\ {c.reason, c.generated, c.vendored} \subseteq BOOLEAN
       /\ c.include \cup c.exclude \cup c.override \subseteq SUBSET Paths

VARIABLES
  source, version,     \* the configuration, and the version of the latest round
  stage,               \* the call that comes next
  decided, todo, work, \* discovery's answer, the files left, the one at hand
  saved,               \* the keys the round has stored
  store, attempts,     \* committed chunk and artifact_extractions rows
  rounds

vars == <<source, version, stage, decided, todo, work, saved, store, attempts,
          rounds>>

Versions == DOMAIN Snapshots

Rows == INSTANCE ChunkCatalog
          WITH Chunks <- {}, Hashes <- {}, Sources <- {}, SourceOf <- <<>>,
               Contents <- <<>>, MayRewrite <- FALSE, MayRestore <- TRUE,
               chunk <- store

NoWork == [extractor |-> None, result |-> Raised, cleaned |-> <<>>, chunks |-> <<>>]

(* The row's own columns, and the chunk the others were copied from.       *)
NewRow(c) == [row |-> Rows!NoChunk, of |-> c]

Offer(c) == [version |-> version, hash |-> c.text,
             eligible |-> c.text # <<>> /\ c.license = "allowed"]

SaveChunk(rows, c) ==
  LET old == IF c.key \in DOMAIN rows THEN rows[c.key] ELSE NewRow(c)
  IN  [k \in DOMAIN rows \cup {c.key} |->
         IF k = c.key THEN [row |-> Rows!Saved(old.row, Offer(c)), of |-> c]
         ELSE rows[k]]

Current(rows) == {k \in DOMAIN rows : Rows!HasCurrent(rows[k].row)}

(* A mutated form: only rows that this version made are looked at.         *)
RetiredOfVersion(rows, keys) ==
  [k \in DOMAIN rows |->
     IF k \in Current(rows) \ keys /\ rows[k].row.version = version
     THEN [rows[k] EXCEPT !.row = Rows!Retired(@)] ELSE rows[k]]

RetiredAbsent(rows, keys) ==
  [k \in DOMAIN rows |->
     IF k \in Current(rows) \ keys
     THEN [rows[k] EXCEPT !.row = Rows!Retired(@)] ELSE rows[k]]

-----------------------------------------------------------------------------
Init ==
  /\ source \in Configs
  /\ version = None /\ stage = "idle"
  /\ decided = [artifacts |-> <<>>, skipped |-> <<>>]
  /\ todo = <<>> /\ work = NoWork /\ saved = {}
  /\ store = <<>> /\ attempts = {} /\ rounds = 0

Artifact == Head(todo)

FileOf(v, artifact) ==
  LET files == Snapshots[v].files
  IN  files[CHOOSE f \in DOMAIN files : Normal[f] = artifact.path]

(* The files in the order of the fetchers, by path.                        *)
FilesOf(v) ==
  LET files == DOMAIN Snapshots[v].files
  IN  InOrder(files, {p \in files \X files : About[p[1]].order < About[p[2]].order})

FailRound ==
  /\ stage' = "failed" /\ todo' = <<>> /\ work' = NoWork
  /\ UNCHANGED <<source, version, decided, saved, store, attempts, rounds>>

Fetch(v) ==
  /\ stage \in {"idle", "done", "failed"} /\ rounds < MaxRounds
  /\ version' = v /\ stage' = "discover" /\ saved' = {} /\ rounds' = rounds + 1
  /\ UNCHANGED <<source, decided, todo, work, store, attempts>>

DiscoverFiles ==
  /\ stage = "discover"
  /\ IF CanClassify(source, FilesOf(version))
     THEN /\ decided' = Discover(source, [files |-> FilesOf(version),
                                          skipped |-> Snapshots[version].skipped])
          /\ todo' = decided'.artifacts /\ stage' = "extract"
          /\ UNCHANGED <<source, version, work, saved, store, attempts, rounds>>
     ELSE FailRound

(* The registry's choice and the extractor's call: either may raise.       *)
ExtractFile ==
  /\ stage = "extract" /\ todo # <<>>
  /\ LET kind   == SelectExtractor(Artifact)
         result == Extract(kind, Artifact, FileOf(version, Artifact))
     IN  IF kind = None \/ result.raised THEN FailRound
         ELSE /\ work' = [work EXCEPT !.extractor = kind, !.result = result]
              /\ stage' = "redact"
              /\ UNCHANGED <<source, version, decided, todo, saved, store,
                             attempts, rounds>>

RedactResult ==
  /\ stage = "redact"
  /\ work' = [work EXCEPT !.cleaned = [i \in DOMAIN work.result.candidates |->
                Sanitized(work.result.candidates[i], source.labels)]]
  /\ stage' = "chunk"
  /\ UNCHANGED <<source, version, decided, todo, saved, store, attempts, rounds>>

ChunkCleaned ==
  /\ stage = "chunk"
  /\ work' = [work EXCEPT !.chunks =
                ChunkResult(work.cleaned, SettingsOf(ProfileNamed(Artifact.profile)[1]))]
  /\ stage' = "store"
  /\ UNCHANGED <<source, version, decided, todo, saved, store, attempts, rounds>>

Keys(chunks) == {chunks[i].key : i \in DOMAIN chunks}

SavedAll(rows, chunks) ==
  LET after[n \in 0..Len(chunks)] ==
        IF n = 0 THEN rows ELSE SaveChunk(after[n - 1], chunks[n])
  IN  after[Len(chunks)]

(* One session: the attempt, its chunks, their memberships and citations.  *)
(* A row that a CHECK constraint refuses rolls all of it back.             *)
StoreChunks ==
  /\ stage = "store"
  /\ IF \A i \in DOMAIN work.chunks : Accepts(work.chunks[i])
     THEN /\ store' = SavedAll(store, work.chunks)
          /\ attempts' = attempts \cup
               {[path |-> Artifact.path, version |-> version,
                 status |-> Status(work.result)]}
          /\ saved' = saved \cup Keys(work.chunks)
          /\ todo' = Tail(todo) /\ work' = NoWork /\ stage' = "extract"
          /\ UNCHANGED <<source, version, decided, rounds>>
     ELSE FailRound

RetireAbsent ==
  /\ stage = "extract" /\ todo = <<>>
  /\ store' = RetiredAbsent(store, saved) /\ stage' = "done"
  /\ UNCHANGED <<source, version, decided, todo, work, saved, attempts, rounds>>

Next ==
  \/ \E v \in Versions : Fetch(v)
  \/ DiscoverFiles
  \/ ExtractFile
  \/ RedactResult
  \/ ChunkCleaned
  \/ StoreChunks
  \/ RetireAbsent

Spec == Init /\ [][Next]_vars
=============================================================================
