------------------------------- MODULE Catalog -------------------------------
(***************************************************************************)
(* The catalogue rows of ONE configured source (tables sources,            *)
(* source_versions, artifacts, artifact_versions, source_changes and       *)
(* change_versions) and the repository calls that rewrite them while one   *)
(* ingestion run persists a snapshot.  Every operator maps the rows a      *)
(* transaction sees to the rows it leaves; nothing here is visible to      *)
(* another session before IngestionRuns!Complete commits it.               *)
(*                                                                         *)
(* A source version row is named by its version_label (unique per source); *)
(* its primary key is derived from the snapshot hash, which is a different *)
(* value: both are kept.                                                   *)
(***************************************************************************)
CONSTANTS
  Paths,     \* artifact keys: paths inside a source
  Sums,      \* content checksums
  Labels,    \* version labels ("branch:main@...", "snapshot:...")
  Hashes,    \* source_version_hash prefixes, the primary keys of versions
  Profiles,  \* (extractor profile, corpus eligibility) pairs of discovery
  Commits,   \* commits reported as source changes
  None       \* SQL NULL, and "no row"

ASSUME NoneIsFresh ==
  None \notin Paths \cup Sums \cup Labels \cup Hashes \cup Profiles \cup Commits

(***************************************************************************)
(* What a fetcher returns: a label, a hash, the content of every path      *)
(* (None: the path is absent; a path listed by two tracked refs has the    *)
(* content of the last one, as the upserts of the code leave it) and the   *)
(* commits reachable from the refs.  Discovery keeps some of the paths and *)
(* gives each a profile.                                                   *)
(***************************************************************************)
Snapshot == [label: Labels, hash: Hashes,
             tree: [Paths -> Sums \cup {None}], commits: SUBSET Commits]

Entry == [sum: Sums \cup {None}, profile: Profiles \cup {None}]

NoEntry == [sum |-> None, profile |-> None]

Discovered == [Paths -> Entry]

Present(found) == {p \in Paths : found[p].sum # None}

-----------------------------------------------------------------------------
VersionRow == [id: Hashes \cup {None}, current: BOOLEAN]

ArtifactRow == [version: Labels \cup {None}, sum: Sums \cup {None},
                profile: Profiles \cup {None},
                first: Labels \cup {None}, last: Labels \cup {None}]

MemberRow == [known: BOOLEAN, current: BOOLEAN, tombstoned: BOOLEAN,
              sum: Sums \cup {None},
              first: Labels \cup {None}, last: Labels \cup {None}]

SourceRows == [exists: BOOLEAN,
               versions: [Labels -> VersionRow],
               artifacts: [Paths -> ArtifactRow],
               members: [Paths -> [Labels -> MemberRow]],
               changes: [Commits -> Labels \cup {None}],
               changeMembers: SUBSET (Commits \X Labels)]

NoRows ==
  [exists |-> FALSE,
   versions |-> [l \in Labels |-> [id |-> None, current |-> FALSE]],
   artifacts |-> [p \in Paths |-> [version |-> None, sum |-> None,
                                   profile |-> None,
                                   first |-> None, last |-> None]],
   members |-> [p \in Paths |-> [l \in Labels |->
                  [known |-> FALSE, current |-> FALSE, tombstoned |-> FALSE,
                   sum |-> None, first |-> None, last |-> None]]],
   changes |-> [c \in Commits |-> None],
   changeMembers |-> {}]

(* The artifacts that are in the source now: artifacts.source_version_id is *)
(* set.  Retired artifacts keep their row with a NULL there.                *)
Live(rows) == {p \in Paths : rows.artifacts[p].version # None}

-----------------------------------------------------------------------------
(* upsert_source *)
UpsertSource(rows) == [rows EXCEPT !.exists = TRUE]

(* A mutated form: a retired artifact is compared like a live one.         *)
DecisionOnRetired(row, entry) ==
  IF row.sum = None THEN "added"
  ELSE IF row.sum = entry.sum /\ row.profile = entry.profile THEN "unchanged"
  ELSE "changed"

(* plan_incremental_ingestion: the decision for every path, as four sets.  *)
Decision(row, entry) ==
  IF row.version = None THEN "added"
  ELSE IF row.sum = entry.sum /\ row.profile = entry.profile THEN "unchanged"
  ELSE "changed"

Decided(rows, found, status) ==
  {p \in Present(found) : Decision(rows.artifacts[p], found[p]) = status}

IncrementalPlan == [added: SUBSET Paths, changed: SUBSET Paths,
                    unchanged: SUBSET Paths, tombstoned: SUBSET Paths]

NoPlan == [added |-> {}, changed |-> {}, unchanged |-> {}, tombstoned |-> {}]

(* A mutated form: an artifact tombstoned before is tombstoned again.      *)
PlanRetiringTwice(rows, found) ==
  [added |-> Decided(rows, found, "added"),
   changed |-> Decided(rows, found, "changed"),
   unchanged |-> Decided(rows, found, "unchanged"),
   tombstoned |-> {p \in Paths \ Present(found) : rows.artifacts[p].sum # None}]

PlanFor(rows, found) ==
  [added |-> Decided(rows, found, "added"),
   changed |-> Decided(rows, found, "changed"),
   unchanged |-> Decided(rows, found, "unchanged"),
   tombstoned |-> Live(rows) \ Present(found)]

(* A mutated form: the locators of all decisions, tombstones included.     *)
EveryKey(plan) ==
  plan.added \cup plan.changed \cup plan.unchanged \cup plan.tombstoned

CurrentKeys(plan) == plan.added \cup plan.changed \cup plan.unchanged

(* upsert_source_version looks the row up by label and, when it is new,    *)
(* inserts it under an id built from the hash: the INSERT violates the     *)
(* primary key when another label already owns that id.                    *)
VersionCollides(rows, snap) ==
  /\ rows.versions[snap.label].id = None
  /\ \E l \in Labels : rows.versions[l].id = snap.hash

UpsertVersion(rows, snap) ==
  LET old == rows.versions[snap.label].id
  IN  [rows EXCEPT !.versions =
         [l \in Labels |->
            IF l = snap.label
            THEN [id |-> IF old = None THEN snap.hash ELSE old, current |-> TRUE]
            ELSE [rows.versions[l] EXCEPT !.current = FALSE]]]

(* Mutated forms of UpsertArtifact: the other memberships keep is_current; *)
(* the membership found for the artifact is updated in place; the lineage  *)
(* of a path restarts with every version; git lineage is guessed.          *)
UpsertKeepingCurrent(rows, label, p, entry, git) ==
  [rows EXCEPT
     !.artifacts[p] = [version |-> label, sum |-> entry.sum,
                       profile |-> entry.profile, first |-> label,
                       last |-> label],
     !.members[p][label] = [known |-> TRUE, current |-> TRUE,
                            tombstoned |-> FALSE, sum |-> entry.sum,
                            first |-> label, last |-> label]]

UpsertInPlace(rows, label, p, entry, git) ==
  [rows EXCEPT
     !.artifacts[p] = [version |-> label, sum |-> entry.sum,
                       profile |-> entry.profile, first |-> label,
                       last |-> label],
     !.members[p] = [l \in Labels |->
        IF l = label \/ rows.members[p][l].known
        THEN [known |-> TRUE, current |-> l = label, tombstoned |-> FALSE,
              sum |-> entry.sum, first |-> label, last |-> label]
        ELSE rows.members[p][l]]]

UpsertRestartingLineage(rows, label, p, entry, git) ==
  [rows EXCEPT
     !.artifacts[p] = [version |-> label, sum |-> entry.sum,
                       profile |-> entry.profile,
                       first |-> IF git THEN None ELSE label,
                       last |-> IF git THEN None ELSE label]]

UpsertGuessingLineage(rows, label, p, entry, git) ==
  LET old == rows.artifacts[p].first
  IN  [rows EXCEPT
         !.artifacts[p] = [version |-> label, sum |-> entry.sum,
                           profile |-> entry.profile,
                           first |-> IF old = None THEN label ELSE old,
                           last |-> label]]

(* upsert_artifact followed by upsert_artifact_version: the artifact row   *)
(* moves to the version, every membership of the artifact loses is_current *)
(* and the membership in this version is created or revived.  Only a local *)
(* directory proves which versions contain a path.                         *)
UpsertArtifact(rows, label, p, entry, git) ==
  LET old   == rows.artifacts[p]
      first == IF ~git /\ old.first = None THEN label ELSE old.first
      last  == IF git THEN None ELSE label
  IN  [rows EXCEPT
         !.artifacts[p] = [version |-> label, sum |-> entry.sum,
                           profile |-> entry.profile,
                           first |-> first, last |-> last],
         !.members[p] = [l \in Labels |->
            IF l = label
            THEN [known |-> TRUE, current |-> TRUE, tombstoned |-> FALSE,
                  sum |-> entry.sum, first |-> first, last |-> last]
            ELSE [rows.members[p][l] EXCEPT !.current = FALSE]]]

(* retire_artifacts_absent_from_discovery: the rows of its join, then the  *)
(* UPDATE of the current memberships and of the artifacts they belong to.  *)
StaleMembers(rows, keys) ==
  {m \in (Paths \ keys) \X Labels : rows.members[m[1]][m[2]].current}

RetireAbsent(rows, keys) ==
  LET stale == {p \in Paths \ keys :
                  \E l \in Labels : rows.members[p][l].current}
  IN  [rows EXCEPT
         !.artifacts = [p \in Paths |->
            IF p \in stale THEN [rows.artifacts[p] EXCEPT !.version = None]
            ELSE rows.artifacts[p]],
         !.members = [p \in Paths |-> [l \in Labels |->
            IF p \in stale /\ rows.members[p][l].current
            THEN [rows.members[p][l] EXCEPT !.current = FALSE,
                                            !.tombstoned = TRUE]
            ELSE rows.members[p][l]]]]

(* upsert_change and upsert_change_version for every commit reported.      *)
UpsertChanges(rows, snap) ==
  [rows EXCEPT
     !.changes = [c \in Commits |-> IF c \in snap.commits THEN snap.label
                                    ELSE rows.changes[c]],
     !.changeMembers = rows.changeMembers \cup (snap.commits \X {snap.label})]

-----------------------------------------------------------------------------
(* What a reader of the catalogue sees of the source: path to content.     *)
View(rows) == [p \in Paths |-> IF p \in Live(rows) THEN rows.artifacts[p].sum
                               ELSE None]
-----------------------------------------------------------------------------
(* Rows of one source that agree with each other. *)

(* The pointer artifacts.source_version_id and the flag                    *)
(* artifact_versions.is_current say the same thing.                        *)
PointerMatchesFlag(rows) ==
  \A p \in Paths, l \in Labels :
    rows.members[p][l].current <=> rows.artifacts[p].version = l

(* A current membership exists, is not tombstoned and carries the checksum *)
(* of its artifact.                                                        *)
CurrentIsAlive(rows) ==
  \A p \in Paths, l \in Labels :
    rows.members[p][l].current =>
      /\ rows.members[p][l].known
      /\ ~rows.members[p][l].tombstoned
      /\ rows.members[p][l].sum = rows.artifacts[p].sum
      /\ rows.members[p][l].sum # None

(* Foreign keys: a membership or a change names a version that has a row.  *)
VersionsExist(rows) ==
  /\ \A p \in Paths, l \in Labels :
       rows.members[p][l].known => rows.versions[l].id # None
  /\ \A c \in Commits :
       rows.changes[c] # None =>
         /\ <<c, rows.changes[c]>> \in rows.changeMembers
         /\ rows.versions[rows.changes[c]].id # None

(* Primary keys of source_versions: two labels never share an id.          *)
VersionIdsDistinct(rows) ==
  \A k, l \in Labels :
    rows.versions[k].id = rows.versions[l].id /\ rows.versions[k].id # None
      => k = l

RowsAgree(rows) ==
  /\ PointerMatchesFlag(rows)
  /\ CurrentIsAlive(rows)
  /\ VersionsExist(rows)
  /\ VersionIdsDistinct(rows)

(* The live artifacts belong to one version, the current one. *)
OneSnapshotRows(rows) ==
  /\ \A k, l \in Labels :
       rows.versions[k].current /\ rows.versions[l].current => k = l
  /\ \A p \in Live(rows) : rows.versions[rows.artifacts[p].version].current
=============================================================================
