--------------------------- MODULE IngestionProofs ---------------------------
(***************************************************************************)
(* Proofs about IngestionRuns for every set of processes, sources, paths,  *)
(* labels and requests.  The first part shows that run rows and processes  *)
(* belong together (OpenRuns); the second, that transactions of one source *)
(* exclude each other and commit whole snapshots (TransactionsInOrder).    *)
(* Before them: what each repository call does to the rows of a source.    *)
(***************************************************************************)
EXTENDS IngestionSafety, TLAPS

-----------------------------------------------------------------------------
(* The calls on the rows: they keep them well typed and in agreement       *)
(* (RowsAgree), and leave exactly the versions and live artifacts they     *)
(* should.                                                                 *)

(* Replacing one table leaves the others as they were. *)
LEMMA WithVersions ==
  ASSUME NEW rows \in SourceRows, NEW versions \in [Labels -> VersionRow]
  PROVE  LET new == [rows EXCEPT !.versions = versions]
         IN  /\ new \in SourceRows
             /\ new.exists = rows.exists
             /\ new.versions = versions
             /\ new.artifacts = rows.artifacts
             /\ new.members = rows.members
             /\ new.changes = rows.changes
             /\ new.changeMembers = rows.changeMembers
  BY DEF SourceRows

(* A source that was never ingested has rows that agree. *)
LEMMA NoRowsAgree ==
  /\ NoRows \in SourceRows
  /\ RowsAgree(NoRows)
  /\ OneSnapshotRows(NoRows)
  /\ View(NoRows) = [p \in Paths |-> None]
<1> USE NoneIsFresh
<1>1. NoRows \in SourceRows
  BY DEF NoRows, SourceRows, VersionRow, ArtifactRow, MemberRow
<1>2. RowsAgree(NoRows)
  BY DEF NoRows, RowsAgree, PointerMatchesFlag, CurrentIsAlive, VersionsExist,
         VersionIdsDistinct
<1>3. OneSnapshotRows(NoRows)
  BY DEF NoRows, OneSnapshotRows, Live
<1>4. View(NoRows) = [p \in Paths |-> None]
  BY DEF NoRows, View, Live
<1> QED BY <1>1, <1>2, <1>3, <1>4

(* upsert_source changes nothing but the existence of the sources row. *)
LEMMA UpsertSourceWrites ==
  ASSUME NEW rows \in SourceRows
  PROVE  LET new == UpsertSource(rows)
         IN  /\ new \in SourceRows
             /\ new.versions = rows.versions
             /\ new.artifacts = rows.artifacts
             /\ new.members = rows.members
             /\ new.changes = rows.changes
             /\ new.changeMembers = rows.changeMembers
  BY DEF UpsertSource, SourceRows

LEMMA UpsertSourceAgrees ==
  ASSUME NEW rows \in SourceRows, RowsAgree(rows)
  PROVE  RowsAgree(UpsertSource(rows))
<1> DEFINE new == UpsertSource(rows)
<1>1. /\ new.versions = rows.versions
      /\ new.artifacts = rows.artifacts
      /\ new.members = rows.members
      /\ new.changes = rows.changes
      /\ new.changeMembers = rows.changeMembers
  BY UpsertSourceWrites
<1> HIDE DEF new
<1>2. PointerMatchesFlag(new) /\ CurrentIsAlive(new)
  BY <1>1 DEF RowsAgree, PointerMatchesFlag, CurrentIsAlive
<1>3. VersionsExist(new) /\ VersionIdsDistinct(new)
  BY <1>1 DEF RowsAgree, VersionsExist, VersionIdsDistinct
<1>4. RowsAgree(new)
  BY <1>2, <1>3 DEF RowsAgree
<1> QED BY <1>4 DEF new

(* The decisions cover exactly the discovered paths, and the planned       *)
(* tombstones are the live artifacts that discovery no longer has.         *)
LEMMA PlanCovers ==
  ASSUME NEW rows \in SourceRows, NEW found \in Discovered
  PROVE  /\ PlanFor(rows, found) \in IncrementalPlan
         /\ CurrentKeys(PlanFor(rows, found)) = Present(found)
         /\ PlanFor(rows, found).tombstoned = Live(rows) \ Present(found)
  BY DEF PlanFor, IncrementalPlan, CurrentKeys, Decided, Decision, Present, Live

(* upsert_source_version makes the version of the snapshot the only        *)
(* current one, and no two versions share an id.                           *)
LEMMA UpsertVersionWrites ==
  ASSUME NEW rows \in SourceRows, NEW snap \in Snapshot
  PROVE  LET new == UpsertVersion(rows, snap)
             old == rows.versions[snap.label].id
         IN  /\ new \in SourceRows
             /\ new.versions = [l \in Labels |->
                  IF l = snap.label
                  THEN [id |-> IF old = None THEN snap.hash ELSE old,
                        current |-> TRUE]
                  ELSE [rows.versions[l] EXCEPT !.current = FALSE]]
             /\ new.artifacts = rows.artifacts
             /\ new.members = rows.members
             /\ new.changes = rows.changes
             /\ new.changeMembers = rows.changeMembers
<1> DEFINE new == UpsertVersion(rows, snap)
           old == rows.versions[snap.label].id
           versions == [l \in Labels |->
             IF l = snap.label
             THEN [id |-> IF old = None THEN snap.hash ELSE old, current |-> TRUE]
             ELSE [rows.versions[l] EXCEPT !.current = FALSE]]
<1>1. versions \in [Labels -> VersionRow]
  BY DEF Snapshot, SourceRows, VersionRow
<1>2. new = [rows EXCEPT !.versions = versions]
  BY DEF UpsertVersion
<1> HIDE DEF new, versions
<1>3. /\ new \in SourceRows
      /\ new.versions = versions
      /\ new.artifacts = rows.artifacts
      /\ new.members = rows.members
      /\ new.changes = rows.changes
      /\ new.changeMembers = rows.changeMembers
  BY <1>1, <1>2, WithVersions
<1> QED BY <1>3 DEF new, versions

LEMMA UpsertVersionAgrees ==
  ASSUME NEW rows \in SourceRows, NEW snap \in Snapshot,
         RowsAgree(rows), ~VersionCollides(rows, snap)
  PROVE  /\ RowsAgree(UpsertVersion(rows, snap))
         /\ UpsertVersion(rows, snap).versions[snap.label].id # None
         /\ \A l \in Labels :
              UpsertVersion(rows, snap).versions[l].current <=> l = snap.label
<1> DEFINE new == UpsertVersion(rows, snap)
           old == rows.versions[snap.label].id
<1> USE NoneIsFresh
<1>1. /\ snap.label \in Labels
      /\ snap.hash \in Hashes
      /\ snap.hash # None
  BY DEF Snapshot
<1>2. /\ new.versions = [l \in Labels |->
           IF l = snap.label
           THEN [id |-> IF old = None THEN snap.hash ELSE old, current |-> TRUE]
           ELSE [rows.versions[l] EXCEPT !.current = FALSE]]
      /\ new.artifacts = rows.artifacts
      /\ new.members = rows.members
      /\ new.changes = rows.changes
      /\ new.changeMembers = rows.changeMembers
  BY UpsertVersionWrites
<1> HIDE DEF new
<1>3. \A l \in Labels :
        /\ new.versions[l].current <=> l = snap.label
        /\ l # snap.label => new.versions[l].id = rows.versions[l].id
        /\ rows.versions[l].id # None => new.versions[l].id = rows.versions[l].id
  <2> SUFFICES ASSUME NEW l \in Labels
               PROVE  /\ new.versions[l].current <=> l = snap.label
                      /\ l # snap.label => new.versions[l].id = rows.versions[l].id
                      /\ rows.versions[l].id # None
                           => new.versions[l].id = rows.versions[l].id
    OBVIOUS
  <2>1. rows.versions[l] \in VersionRow
    BY DEF SourceRows
  <2>2. CASE l = snap.label
    <3>1. new.versions[l] = [id |-> IF old = None THEN snap.hash ELSE old, current |-> TRUE]
      BY <1>2, <2>2, Zenon
    <3> QED
      BY <2>2, <3>1
  <2>3. CASE l # snap.label
    <3>1. new.versions[l] = [rows.versions[l] EXCEPT !.current = FALSE]
      BY <1>2, <2>3, Zenon
    <3> QED
      BY <2>1, <2>3, <3>1 DEF VersionRow
  <2> QED
    BY <2>2, <2>3
<1>4. /\ new.versions[snap.label].id # None
      /\ old = None => new.versions[snap.label].id = snap.hash
  BY <1>1, <1>2 DEF SourceRows, VersionRow
<1>5. PointerMatchesFlag(new) /\ CurrentIsAlive(new)
  BY <1>2 DEF RowsAgree, PointerMatchesFlag, CurrentIsAlive
<1>6. VersionsExist(new)
  <2>1. /\ \A c \in Commits : rows.changes[c] \in Labels \cup {None}
        /\ VersionsExist(rows)
    BY DEF RowsAgree, SourceRows
  <2>2. \A p \in Paths, l \in Labels :
          new.members[p][l].known => new.versions[l].id # None
    BY <1>2, <1>3, <2>1 DEF VersionsExist
  <2>3. \A c \in Commits : new.changes[c] # None =>
          /\ <<c, new.changes[c]>> \in new.changeMembers
          /\ new.versions[new.changes[c]].id # None
    <3>1. \A c \in Commits : rows.changes[c] # None =>
            /\ rows.changes[c] \in Labels
            /\ <<c, rows.changes[c]>> \in rows.changeMembers
            /\ rows.versions[rows.changes[c]].id # None
      BY <2>1 DEF VersionsExist
    <3>2. new.changes = rows.changes /\ new.changeMembers = rows.changeMembers
      BY <1>2
    <3>3. \A l \in Labels : rows.versions[l].id # None => new.versions[l].id # None
      BY <1>3
    <3> QED
      BY <3>1, <3>2, <3>3
  <2> QED
    BY <2>2, <2>3 DEF VersionsExist
<1>7. VersionIdsDistinct(new)
  <2> SUFFICES ASSUME NEW k \in Labels, NEW l \in Labels,
                      new.versions[k].id = new.versions[l].id,
                      new.versions[k].id # None, k # l
               PROVE  FALSE
    BY DEF VersionIdsDistinct
  <2>1. CASE old # None
    BY <2>1, <1>3 DEF RowsAgree, VersionIdsDistinct
  <2>2. CASE old = None
    BY <2>2, <1>1, <1>3, <1>4 DEF RowsAgree, VersionIdsDistinct, VersionCollides
  <2> QED BY <2>1, <2>2
<1>8. RowsAgree(new)
  BY <1>5, <1>6, <1>7 DEF RowsAgree
<1> QED BY <1>1, <1>3, <1>4, <1>8 DEF new

(* upsert_artifact and upsert_artifact_version move one artifact to the    *)
(* version and touch no other artifact.                                    *)
LEMMA UpsertArtifactWrites ==
  ASSUME NEW rows \in SourceRows, NEW label \in Labels, NEW p \in Paths,
         NEW entry \in Entry, NEW git \in BOOLEAN
  PROVE  LET new == UpsertArtifact(rows, label, p, entry, git)
         IN  /\ new \in SourceRows
             /\ new.versions = rows.versions
             /\ new.changes = rows.changes
             /\ new.changeMembers = rows.changeMembers
             /\ new.artifacts[p].version = label
             /\ new.artifacts[p].sum = entry.sum
             /\ \A q \in Paths \ {p} : /\ new.artifacts[q] = rows.artifacts[q]
                                       /\ new.members[q] = rows.members[q]
             /\ \A l \in Labels :
                  /\ new.members[p][l].current <=> l = label
                  /\ l = label => /\ new.members[p][l].known
                                  /\ ~new.members[p][l].tombstoned
                                  /\ new.members[p][l].sum = entry.sum
                  /\ l # label =>
                       new.members[p][l].known = rows.members[p][l].known
<1> USE NoneIsFresh
<1> DEFINE new   == UpsertArtifact(rows, label, p, entry, git)
           old   == rows.artifacts[p]
           first == IF ~git /\ old.first = None THEN label ELSE old.first
           last  == IF git THEN None ELSE label
           row   == [version |-> label, sum |-> entry.sum,
                     profile |-> entry.profile, first |-> first, last |-> last]
           mem   == [l \in Labels |->
                      IF l = label
                      THEN [known |-> TRUE, current |-> TRUE,
                            tombstoned |-> FALSE, sum |-> entry.sum,
                            first |-> first, last |-> last]
                      ELSE [rows.members[p][l] EXCEPT !.current = FALSE]]
<1>1. /\ old \in ArtifactRow
      /\ entry.sum \in Sums \cup {None}
      /\ entry.profile \in Profiles \cup {None}
  BY DEF SourceRows, Entry
<1>2. first \in Labels \cup {None} /\ last \in Labels \cup {None}
  BY <1>1 DEF ArtifactRow
<1>3. row \in ArtifactRow
  BY <1>1, <1>2 DEF ArtifactRow
<1>4. mem \in [Labels -> MemberRow]
  <2> SUFFICES ASSUME NEW l \in Labels
               PROVE  mem[l] \in MemberRow
    OBVIOUS
  <2>1. rows.members[p][l] \in MemberRow
    BY DEF SourceRows
  <2> HIDE DEF first, last
  <2>2. CASE l = label
    BY <2>2, <1>1, <1>2 DEF MemberRow
  <2>3. CASE l # label
    BY <2>1, <2>3 DEF MemberRow
  <2> QED BY <2>2, <2>3
<1> DEFINE arts  == [rows.artifacts EXCEPT ![p] = row]
           mems  == [rows.members EXCEPT ![p] = mem]
<1>5. new = [rows EXCEPT !.artifacts = arts, !.members = mems]
  BY DEF UpsertArtifact
<1> HIDE DEF new, row, mem
<1>6. /\ arts \in [Paths -> ArtifactRow]
      /\ mems \in [Paths -> [Labels -> MemberRow]]
  BY <1>3, <1>4 DEF SourceRows
<1>7. /\ new \in SourceRows
      /\ new.versions = rows.versions
      /\ new.artifacts = arts
      /\ new.members = mems
      /\ new.changes = rows.changes
      /\ new.changeMembers = rows.changeMembers
  <2> HIDE DEF arts, mems
  <2> QED BY <1>5, <1>6 DEF SourceRows
<1>8. /\ new.artifacts[p] = row
      /\ new.members[p] = mem
      /\ \A q \in Paths \ {p} : /\ new.artifacts[q] = rows.artifacts[q]
                                /\ new.members[q] = rows.members[q]
  BY <1>7 DEF SourceRows
<1>9. new.artifacts[p].version = label /\ new.artifacts[p].sum = entry.sum
  BY <1>8 DEF row
<1>10. ASSUME NEW l \in Labels
      PROVE  /\ new.members[p][l].current <=> l = label
             /\ l = label => /\ new.members[p][l].known
                             /\ ~new.members[p][l].tombstoned
                             /\ new.members[p][l].sum = entry.sum
             /\ l # label => new.members[p][l].known = rows.members[p][l].known
  <2>1. rows.members[p][l] \in MemberRow
    BY DEF SourceRows
  <2>2. CASE l = label
    BY <2>2, <1>8 DEF mem
  <2>3. CASE l # label
    BY <2>1, <2>3, <1>8 DEF mem, MemberRow
  <2> QED BY <2>2, <2>3
<1> QED BY <1>7, <1>8, <1>9, <1>10 DEF new

LEMMA UpsertArtifactAgrees ==
  ASSUME NEW rows \in SourceRows, NEW label \in Labels, NEW p \in Paths,
         NEW entry \in Entry, NEW git \in BOOLEAN,
         RowsAgree(rows), entry.sum # None, rows.versions[label].id # None
  PROVE  RowsAgree(UpsertArtifact(rows, label, p, entry, git))
<1> DEFINE new == UpsertArtifact(rows, label, p, entry, git)
<1>1. /\ new.versions = rows.versions
      /\ new.changes = rows.changes
      /\ new.changeMembers = rows.changeMembers
      /\ new.artifacts[p].version = label
      /\ new.artifacts[p].sum = entry.sum
      /\ \A q \in Paths \ {p} : /\ new.artifacts[q] = rows.artifacts[q]
                                /\ new.members[q] = rows.members[q]
  BY UpsertArtifactWrites
<1>2. \A l \in Labels :
        /\ new.members[p][l].current <=> l = label
        /\ l = label => /\ new.members[p][l].known
                        /\ ~new.members[p][l].tombstoned
                        /\ new.members[p][l].sum = entry.sum
        /\ l # label => new.members[p][l].known = rows.members[p][l].known
  BY UpsertArtifactWrites
<1> HIDE DEF new
<1>3. PointerMatchesFlag(new)
  BY <1>1, <1>2 DEF RowsAgree, PointerMatchesFlag
<1>4. CurrentIsAlive(new)
  BY <1>1, <1>2 DEF RowsAgree, CurrentIsAlive
<1>5. VersionsExist(new)
  <2>1. \A q \in Paths, l \in Labels :
          new.members[q][l].known => l = label \/ rows.members[q][l].known
    BY <1>1, <1>2
  <2> QED BY <2>1, <1>1 DEF RowsAgree, VersionsExist
<1>6. VersionIdsDistinct(new)
  BY <1>1 DEF RowsAgree, VersionIdsDistinct
<1>7. RowsAgree(new)
  BY <1>3, <1>4, <1>5, <1>6 DEF RowsAgree
<1> QED BY <1>7 DEF new

(* Retirement leaves live exactly the artifacts that are among the keys.   *)
LEMMA RetireWrites ==
  ASSUME NEW rows \in SourceRows, NEW keys \in SUBSET Paths
  PROVE  LET new == RetireAbsent(rows, keys)
         IN  /\ new \in SourceRows
             /\ new.versions = rows.versions
             /\ new.changes = rows.changes
             /\ new.changeMembers = rows.changeMembers
             /\ \A p \in keys :
                  /\ new.artifacts[p] = rows.artifacts[p]
                  /\ \A l \in Labels : new.members[p][l] = rows.members[p][l]
             /\ \A p \in Paths \ keys :
                  \/ new.artifacts[p].version = None
                  \/ /\ new.artifacts[p] = rows.artifacts[p]
                     /\ \A l \in Labels : ~rows.members[p][l].current
             /\ \A p \in Paths \ keys, l \in Labels :
                  /\ ~new.members[p][l].current
                  /\ new.members[p][l].known = rows.members[p][l].known
<1> USE NoneIsFresh
<1> DEFINE new   == RetireAbsent(rows, keys)
           stale == {p \in Paths \ keys :
                       \E l \in Labels : rows.members[p][l].current}
           arts  == [p \in Paths |->
                       IF p \in stale
                       THEN [rows.artifacts[p] EXCEPT !.version = None]
                       ELSE rows.artifacts[p]]
           Member(p, l) == IF p \in stale /\ rows.members[p][l].current
                           THEN [rows.members[p][l] EXCEPT !.current = FALSE,
                                                           !.tombstoned = TRUE]
                           ELSE rows.members[p][l]
           mems  == [p \in Paths |-> [l \in Labels |-> Member(p, l)]]
<1>1. arts \in [Paths -> ArtifactRow]
  <2> SUFFICES ASSUME NEW p \in Paths
               PROVE  arts[p] \in ArtifactRow
    OBVIOUS
  <2>1. rows.artifacts[p] \in ArtifactRow
    BY DEF SourceRows
  <2> QED BY <2>1 DEF ArtifactRow
<1>2. mems \in [Paths -> [Labels -> MemberRow]]
  <2> SUFFICES ASSUME NEW p \in Paths, NEW l \in Labels
               PROVE  mems[p][l] \in MemberRow
    OBVIOUS
  <2>1. rows.members[p][l] \in MemberRow
    BY DEF SourceRows
  <2> QED BY <2>1 DEF MemberRow
<1>3. new = [rows EXCEPT !.artifacts = arts, !.members = mems]
  BY DEF RetireAbsent
<1> HIDE DEF new
<1>4. /\ new \in SourceRows
      /\ new.versions = rows.versions
      /\ new.artifacts = arts
      /\ new.members = mems
      /\ new.changes = rows.changes
      /\ new.changeMembers = rows.changeMembers
  <2> HIDE DEF arts, mems
  <2> QED BY <1>1, <1>2, <1>3 DEF SourceRows
<1> HIDE DEF Member
<1>5. \A p \in Paths, l \in Labels : new.members[p][l] = Member(p, l)
  BY <1>4
<1>6. \A p \in Paths \ keys :
        \/ new.artifacts[p].version = None
        \/ /\ new.artifacts[p] = rows.artifacts[p]
           /\ \A l \in Labels : ~rows.members[p][l].current
  <2> SUFFICES ASSUME NEW p \in Paths \ keys
               PROVE  \/ new.artifacts[p].version = None
                      \/ /\ new.artifacts[p] = rows.artifacts[p]
                         /\ \A l \in Labels : ~rows.members[p][l].current
    OBVIOUS
  <2>1. CASE p \in stale
    <3>1. rows.artifacts[p] \in ArtifactRow
      BY DEF SourceRows
    <3>2. new.artifacts[p] = [rows.artifacts[p] EXCEPT !.version = None]
      BY <2>1, <1>4
    <3> QED BY <3>1, <3>2 DEF ArtifactRow
  <2>2. CASE p \notin stale
    BY <2>2, <1>4
  <2> QED BY <2>1, <2>2
<1>7. \A p \in keys : /\ new.artifacts[p] = rows.artifacts[p]
                      /\ \A l \in Labels : new.members[p][l] = rows.members[p][l]
  BY <1>4, <1>5 DEF Member
<1>8. \A p \in Paths \ keys, l \in Labels :
        /\ ~new.members[p][l].current
        /\ new.members[p][l].known = rows.members[p][l].known
  <2> SUFFICES ASSUME NEW p \in Paths \ keys, NEW l \in Labels
               PROVE  /\ ~new.members[p][l].current
                      /\ new.members[p][l].known = rows.members[p][l].known
    OBVIOUS
  <2>1. rows.members[p][l] \in MemberRow
    BY DEF SourceRows
  <2>2. CASE rows.members[p][l].current
    <3>1. new.members[p][l] = [rows.members[p][l] EXCEPT !.current = FALSE,
                                                         !.tombstoned = TRUE]
      BY <2>2, <1>5 DEF Member
    <3> QED BY <2>1, <3>1 DEF MemberRow
  <2>3. CASE ~rows.members[p][l].current
    <3>1. new.members[p][l] = rows.members[p][l]
      BY <2>3, <1>5 DEF Member
    <3> QED BY <2>3, <3>1
  <2> QED BY <2>2, <2>3
<1> QED BY <1>4, <1>6, <1>7, <1>8 DEF new

LEMMA RetireAgrees ==
  ASSUME NEW rows \in SourceRows, NEW keys \in SUBSET Paths, RowsAgree(rows)
  PROVE  /\ RowsAgree(RetireAbsent(rows, keys))
         /\ \A p \in Paths \ keys :
              RetireAbsent(rows, keys).artifacts[p].version = None
<1> DEFINE new == RetireAbsent(rows, keys)
<1> USE NoneIsFresh
<1>1. /\ new.versions = rows.versions
      /\ new.changes = rows.changes
      /\ new.changeMembers = rows.changeMembers
  BY RetireWrites
<1>2. \A p \in keys :
        /\ new.artifacts[p] = rows.artifacts[p]
        /\ \A l \in Labels : new.members[p][l] = rows.members[p][l]
  BY RetireWrites
<1>3. \A p \in Paths \ keys :
        \/ new.artifacts[p].version = None
        \/ /\ new.artifacts[p] = rows.artifacts[p]
           /\ \A l \in Labels : ~rows.members[p][l].current
  BY RetireWrites
<1>4. \A p \in Paths \ keys, l \in Labels :
        /\ ~new.members[p][l].current
        /\ new.members[p][l].known = rows.members[p][l].known
  BY RetireWrites
<1> HIDE DEF new
<1>5. \A p \in Paths \ keys : new.artifacts[p].version = None
  <2> SUFFICES ASSUME NEW p \in Paths \ keys,
                      \A l \in Labels : ~rows.members[p][l].current
               PROVE  rows.artifacts[p].version = None
    BY <1>3
  <2>1. \A l \in Labels : rows.artifacts[p].version # l
    BY DEF RowsAgree, PointerMatchesFlag
  <2>2. rows.artifacts[p] \in ArtifactRow
    BY DEF SourceRows
  <2> QED BY <2>1, <2>2 DEF ArtifactRow
<1>6. PointerMatchesFlag(new)
  BY <1>2, <1>4, <1>5 DEF RowsAgree, PointerMatchesFlag
<1>7. CurrentIsAlive(new)
  BY <1>2, <1>4 DEF RowsAgree, CurrentIsAlive
<1>8. VersionsExist(new)
  <2>1. \A p \in Paths, l \in Labels :
          new.members[p][l].known => rows.members[p][l].known
    BY <1>2, <1>4
  <2> QED BY <2>1, <1>1 DEF RowsAgree, VersionsExist
<1>9. VersionIdsDistinct(new)
  BY <1>1 DEF RowsAgree, VersionIdsDistinct
<1>10. RowsAgree(new)
  BY <1>6, <1>7, <1>8, <1>9 DEF RowsAgree
<1> QED BY <1>5, <1>10 DEF new

(* Recording changes touches neither artifacts nor versions. *)
LEMMA UpsertChangesWrites ==
  ASSUME NEW rows \in SourceRows, NEW snap \in Snapshot
  PROVE  LET new == UpsertChanges(rows, snap)
         IN  /\ new \in SourceRows
             /\ new.versions = rows.versions
             /\ new.artifacts = rows.artifacts
             /\ new.members = rows.members
             /\ new.changes = [c \in Commits |->
                  IF c \in snap.commits THEN snap.label ELSE rows.changes[c]]
             /\ new.changeMembers =
                  rows.changeMembers \cup (snap.commits \X {snap.label})
<1> DEFINE new == UpsertChanges(rows, snap)
           changes == [c \in Commits |-> IF c \in snap.commits THEN snap.label
                                         ELSE rows.changes[c]]
           members == rows.changeMembers \cup (snap.commits \X {snap.label})
<1>1. snap.label \in Labels /\ snap.commits \subseteq Commits
  BY DEF Snapshot
<1>2. changes \in [Commits -> Labels \cup {None}]
  BY <1>1 DEF SourceRows
<1>3. members \in SUBSET (Commits \X Labels)
  BY <1>1 DEF SourceRows
<1>4. new = [rows EXCEPT !.changes = changes, !.changeMembers = members]
  BY DEF UpsertChanges
<1> HIDE DEF new, changes, members
<1>5. /\ new \in SourceRows
      /\ new.versions = rows.versions
      /\ new.artifacts = rows.artifacts
      /\ new.members = rows.members
      /\ new.changes = changes
      /\ new.changeMembers = members
  BY <1>2, <1>3, <1>4 DEF SourceRows
<1> QED BY <1>5 DEF new, changes, members

LEMMA UpsertChangesAgrees ==
  ASSUME NEW rows \in SourceRows, NEW snap \in Snapshot,
         RowsAgree(rows), rows.versions[snap.label].id # None
  PROVE  RowsAgree(UpsertChanges(rows, snap))
<1> DEFINE new == UpsertChanges(rows, snap)
<1>1. snap.label \in Labels /\ snap.commits \subseteq Commits
  BY DEF Snapshot
<1>2. /\ new.versions = rows.versions
      /\ new.artifacts = rows.artifacts
      /\ new.members = rows.members
      /\ new.changes = [c \in Commits |->
           IF c \in snap.commits THEN snap.label ELSE rows.changes[c]]
      /\ new.changeMembers =
           rows.changeMembers \cup (snap.commits \X {snap.label})
  BY UpsertChangesWrites
<1> HIDE DEF new
<1>3. PointerMatchesFlag(new) /\ CurrentIsAlive(new) /\ VersionIdsDistinct(new)
  BY <1>2 DEF RowsAgree, PointerMatchesFlag, CurrentIsAlive, VersionIdsDistinct
<1>4. VersionsExist(new)
  BY <1>1, <1>2 DEF RowsAgree, VersionsExist
<1>5. RowsAgree(new)
  BY <1>3, <1>4 DEF RowsAgree
<1> QED BY <1>5 DEF new

-----------------------------------------------------------------------------
(* The initial state. *)

LEMMA NoRunTyped == NoRun \in RunRow
  BY DEF NoRun, RunRow, NoPlan, IncrementalPlan

LEMMA NoLocalTyped == NoLocal \in Local /\ NoLocal.run = None
<1>1. NoLocal.found \in Discovered
  BY DEF NoLocal, Discovered, Entry, NoEntry
<1>2. NoLocal.plan \in IncrementalPlan
  BY DEF NoLocal, NoPlan, IncrementalPlan
<1> QED BY <1>1, <1>2, NoRowsAgree DEF NoLocal, Local

LEMMA NoCallTyped == NoCall \in Call
  BY DEF NoCall, Call

LEMMA OpenRunsInit == Init => OpenRuns
<1> SUFFICES ASSUME Init PROVE OpenRuns
  OBVIOUS
<1>1. TypeOK
  BY NoRowsAgree, NoRunTyped, NoLocalTyped, NoCallTyped DEF Init, TypeOK, PCs
<1>2. \A w \in Workers : ~HasRun(w)
  BY DEF Init, HasRun, Working, BeforeTxn, InTxn
<1> QED BY <1>1, <1>2 DEF OpenRuns, RunInHand, RunsApart

-----------------------------------------------------------------------------
(* How a step of one process changes what it has in hand. *)

(* The process keeps its run, and writes no other run row.                 *)
LEMMA RunKept ==
  ASSUME OpenRuns, NEW w \in Workers, HasRun(w), NEW at \in PCs, NEW l \in Local,
         pc' = [pc EXCEPT ![w] = at],
         local' = [local EXCEPT ![w] = l], l.run = local[w].run,
         runs' \in [RunIds -> RunRow],
         runs'[l.run].source = Src(w), runs'[l.run].status \in StatusAt(at),
         \A r \in RunIds \ {l.run} : runs'[r] = runs[r]
  PROVE  /\ pc' \in [Workers -> PCs]
         /\ local' \in [Workers -> Local]
         /\ RunInHand'
         /\ RunsApart'
<1>1. /\ pc' \in [Workers -> PCs]
      /\ local' \in [Workers -> Local]
      /\ pc'[w] = at /\ local'[w] = l
      /\ \A v \in Workers \ {w} : pc'[v] = pc[v] /\ local'[v] = local[v]
  BY DEF OpenRuns, TypeOK
<1>2. \A v \in Workers : HasRun(v)' => local'[v].run = local[v].run
  BY <1>1
<1>3. \A v \in Workers : HasRun(v)' => HasRun(v)
  BY <1>1 DEF HasRun
<1>4. RunsApart'
  BY <1>2, <1>3 DEF OpenRuns, RunsApart
<1>5. RunInHand'
  <2> SUFFICES ASSUME NEW v \in Workers, HasRun(v)'
               PROVE  /\ local'[v].run \in RunIds
                      /\ runs'[local'[v].run].source \in Sources
                      /\ runs'[local'[v].run].status \in StatusAt(pc'[v])
    BY DEF RunInHand, Src, RunOf
  <2>1. CASE v = w
    BY <2>1, <1>1 DEF OpenRuns, RunInHand
  <2>2. CASE v # w
    <3>1. local[v].run # local[w].run
      BY <2>2, <1>3 DEF OpenRuns, RunsApart
    <3>2. /\ local[v].run \in RunIds
          /\ runs[local[v].run].source \in Sources
          /\ runs[local[v].run].status \in StatusAt(pc[v])
      BY <1>3 DEF OpenRuns, RunInHand, Src, RunOf
    <3> QED BY <2>2, <3>1, <3>2, <1>1
  <2> QED BY <2>1, <2>2
<1> QED BY <1>1, <1>4, <1>5

(* The process puts its run down, if it has one.                           *)
LEMMA RunLeft ==
  ASSUME OpenRuns, NEW w \in Workers, NEW at \in {"idle", "choosing"},
         NEW l \in Local, pc' = [pc EXCEPT ![w] = at],
         local' = [local EXCEPT ![w] = l], runs' \in [RunIds -> RunRow],
         \A r \in RunIds : runs'[r] = runs[r] \/ (HasRun(w) /\ r = local[w].run)
  PROVE  /\ pc' \in [Workers -> PCs]
         /\ local' \in [Workers -> Local]
         /\ RunInHand'
         /\ RunsApart'
<1>1. /\ pc' \in [Workers -> PCs]
      /\ local' \in [Workers -> Local]
      /\ pc'[w] = at
      /\ \A v \in Workers \ {w} : pc'[v] = pc[v] /\ local'[v] = local[v]
  BY DEF OpenRuns, TypeOK, PCs
<1>2. \A v \in Workers : HasRun(v)' => v # w /\ HasRun(v)
  BY <1>1 DEF HasRun, Working, BeforeTxn, InTxn
<1>3. RunsApart'
  BY <1>1, <1>2 DEF OpenRuns, RunsApart
<1>4. RunInHand'
  <2> SUFFICES ASSUME NEW v \in Workers, HasRun(v)'
               PROVE  /\ local'[v].run \in RunIds
                      /\ runs'[local'[v].run].source \in Sources
                      /\ runs'[local'[v].run].status \in StatusAt(pc'[v])
    BY DEF RunInHand, Src, RunOf
  <2>1. /\ local[v].run \in RunIds
        /\ runs[local[v].run].source \in Sources
        /\ runs[local[v].run].status \in StatusAt(pc[v])
    BY <1>2 DEF OpenRuns, RunInHand, Src, RunOf
  <2>2. runs'[local[v].run] = runs[local[v].run]
    BY <1>2, <2>1 DEF OpenRuns, RunsApart
  <2> QED BY <1>1, <1>2, <2>1, <2>2
<1> QED BY <1>1, <1>3, <1>4
-----------------------------------------------------------------------------
(* The actions that end the work on a run. *)

LEMMA PlacesDiffer ==
  /\ InTxn \subseteq PCs /\ Working \subseteq PCs
  /\ "failed" \in PCs /\ "failed" \notin InTxn
  /\ "idle" \notin InTxn /\ "choosing" \notin InTxn
  /\ BeforeTxn \cap InTxn = {}
  BY DEF PCs, Working, BeforeTxn, InTxn

LEMMA ReleasedTyped ==
  ASSUME TypeOK, NEW w
  PROVE  Released(w) \in [Sources -> Workers \cup {None}]
  BY DEF TypeOK, Released

LEMMA RaiseKeepsOpenRuns ==
  ASSUME OpenRuns, NEW w \in Workers, pc[w] \in Working,
         NEW error \in ErrorTypes, Raise(w, error)
  PROVE  OpenRuns'
<1> DEFINE l == [NoLocal EXCEPT !.run = local[w].run, !.error = error]
<1>1. HasRun(w) /\ local[w].run \in RunIds
  BY DEF HasRun, OpenRuns, RunInHand
<1>2. l \in Local /\ l.run = local[w].run
  BY <1>1, NoLocalTyped DEF Local
<1>3. /\ pc' = [pc EXCEPT ![w] = "failed"]
      /\ local' = [local EXCEPT ![w] = l]
      /\ lock' = Released(w)
      /\ UNCHANGED <<db, runs, call>>
  BY DEF Raise, GoTo
<1> HIDE DEF l
<1>4. runs[l.run].source = Src(w) /\ runs[l.run].status \in StatusAt("failed")
  <2>1. runs[l.run].status \in StatusAt(pc[w])
    BY <1>1, <1>2 DEF OpenRuns, RunInHand, RunOf
  <2> QED BY <2>1, <1>2 DEF Src, RunOf, StatusAt, ActiveStatus, InTxn
<1>5. runs' \in [RunIds -> RunRow]
  BY <1>3 DEF OpenRuns, TypeOK
<1>6. /\ pc' \in [Workers -> PCs]
      /\ local' \in [Workers -> Local]
      /\ RunInHand'
      /\ RunsApart'
  BY <1>1, <1>2, <1>3, <1>4, <1>5, RunKept, PlacesDiffer
<1>7. TypeOK'
  BY <1>3, <1>5, <1>6, ReleasedTyped DEF OpenRuns, TypeOK
<1> QED BY <1>6, <1>7 DEF OpenRuns

LEMMA ExitKeepsOpenRuns ==
  ASSUME OpenRuns, NEW w \in Workers, Exit(w), UNCHANGED db,
         lock' \in [Sources -> Workers \cup {None}],
         runs' \in [RunIds -> RunRow],
         \A r \in RunIds : runs'[r] = runs[r] \/ (HasRun(w) /\ r = local[w].run)
  PROVE  OpenRuns'
<1>1. /\ pc' = [pc EXCEPT ![w] = "idle"]
      /\ call' = [call EXCEPT ![w] = NoCall]
      /\ local' = [local EXCEPT ![w] = NoLocal]
  BY DEF Exit, GoTo
<1>2. /\ pc' \in [Workers -> PCs]
      /\ local' \in [Workers -> Local]
      /\ RunInHand'
      /\ RunsApart'
  BY <1>1, NoLocalTyped, RunLeft
<1>3. TypeOK'
  BY <1>1, <1>2, NoCallTyped DEF OpenRuns, TypeOK
<1> QED BY <1>2, <1>3 DEF OpenRuns

LEMMA ReportKeepsOpenRuns ==
  ASSUME OpenRuns, NEW w \in Workers, HasRun(w), Report(w),
         db' \in [Sources -> SourceRows],
         lock' \in [Sources -> Workers \cup {None}],
         runs' \in [RunIds -> RunRow],
         \A r \in RunIds : runs'[r] = runs[r] \/ r = local[w].run
  PROVE  OpenRuns'
<1>1. /\ pc' = [pc EXCEPT ![w] = "choosing"]
      /\ call' = [call EXCEPT ![w].results = @ \cup {local[w].run}]
      /\ local' = [local EXCEPT ![w] = NoLocal]
  BY DEF Report, GoTo
<1>2. /\ pc' \in [Workers -> PCs]
      /\ local' \in [Workers -> Local]
      /\ RunInHand'
      /\ RunsApart'
  <2>1. \A r \in RunIds : runs'[r] = runs[r] \/ (HasRun(w) /\ r = local[w].run)
    OBVIOUS
  <2> QED BY <2>1, <1>1, NoLocalTyped, RunLeft
<1>3. call' \in [Workers -> Call]
  <2>1. local[w].run \in RunIds
    BY DEF OpenRuns, RunInHand
  <2>2. call[w] \in Call
    BY DEF OpenRuns, TypeOK
  <2>3. [call[w] EXCEPT !.results = @ \cup {local[w].run}] \in Call
    BY <2>1, <2>2 DEF Call
  <2> QED BY <1>1, <2>3 DEF OpenRuns, TypeOK
<1>4. TypeOK'
  BY <1>1, <1>2, <1>3 DEF OpenRuns, TypeOK
<1> QED BY <1>2, <1>4 DEF OpenRuns

(* A step inside a run that writes no row of another table than runs.      *)
LEMMA WorkKeepsOpenRuns ==
  ASSUME OpenRuns, NEW w \in Workers, HasRun(w), NEW at \in PCs, NEW l \in Local,
         pc' = [pc EXCEPT ![w] = at], UNCHANGED <<db, call>>,
         local' = [local EXCEPT ![w] = l], l.run = local[w].run,
         lock' \in [Sources -> Workers \cup {None}],
         runs' = runs, StatusAt(pc[w]) \subseteq StatusAt(at)
  PROVE  OpenRuns'
<1>1. runs' \in [RunIds -> RunRow]
  BY DEF OpenRuns, TypeOK
<1>2. /\ runs'[l.run].source = Src(w)
      /\ runs'[l.run].status \in StatusAt(at)
  <2>1. RunOf(w).status \in StatusAt(pc[w])
    BY DEF OpenRuns, RunInHand
  <2>2. runs'[l.run] = RunOf(w)
    BY DEF RunOf
  <2> QED BY <2>1, <2>2 DEF Src
<1>3. /\ pc' \in [Workers -> PCs]
      /\ local' \in [Workers -> Local]
      /\ RunInHand'
      /\ RunsApart'
  BY <1>1, <1>2, RunKept
<1>4. TypeOK'
  BY <1>1, <1>3 DEF OpenRuns, TypeOK
<1> QED BY <1>3, <1>4 DEF OpenRuns

(* The statuses that go with the places of a run. *)
LEMMA StatusAtPlaces ==
  /\ StatusAt("started") = {"started"}
  /\ StatusAt("fetching") = {"fetching"}
  /\ \A at \in {"discovering", "waiting"} \cup InTxn :
       StatusAt(at) = {"discovering"}
  BY DEF StatusAt, InTxn

LEMMA CommitStatusWrites ==
  ASSUME OpenRuns, NEW w \in Workers, HasRun(w),
         NEW status \in ActiveStatus \cup TerminalStatus,
         CommitStatus(w, status)
  PROVE  /\ runs' \in [RunIds -> RunRow]
         /\ runs'[local[w].run].source = Src(w)
         /\ runs'[local[w].run].status = status
         /\ \A r \in RunIds \ {local[w].run} : runs'[r] = runs[r]
<1>1. local[w].run \in RunIds /\ RunOf(w) \in RunRow
  BY DEF OpenRuns, RunInHand, TypeOK, RunOf
<1>2. runs' = [runs EXCEPT ![local[w].run] = [RunOf(w) EXCEPT !.status = status]]
  BY DEF CommitStatus, RunOf
<1>3. /\ [RunOf(w) EXCEPT !.status = status] \in RunRow
      /\ [RunOf(w) EXCEPT !.status = status].source = RunOf(w).source
      /\ [RunOf(w) EXCEPT !.status = status].status = status
  BY <1>1 DEF RunRow
<1> QED BY <1>1, <1>2, <1>3 DEF OpenRuns, TypeOK, Src

-----------------------------------------------------------------------------
(* Run rows and processes belong together: every step.                     *)

LEMMA InvokeKeepsOpenRuns ==
  ASSUME OpenRuns, NEW w \in Workers, Invoke(w)
  PROVE  OpenRuns'
<1>1. PICK q \in Requests :
        call' = [call EXCEPT ![w] =
          [ids |-> q.ids, left |-> Selected(q), matching |-> q.matching,
           dry |-> q.dry, results |-> {}]]
  BY DEF Invoke
<1>2. q \in Request
  BY RunsAssumption
<1>3. Selected(q) \subseteq Sources
  BY <1>2, RunsAssumption DEF Request, Selected
<1>4. [ids |-> q.ids, left |-> Selected(q), matching |-> q.matching,
       dry |-> q.dry, results |-> {}] \in Call
  BY <1>2, <1>3 DEF Request, Call
<1>5. call' \in [Workers -> Call]
  BY <1>1, <1>4 DEF OpenRuns, TypeOK
<1>6. /\ pc' = [pc EXCEPT ![w] = "choosing"]
      /\ UNCHANGED <<db, runs, lock, local>>
  BY DEF Invoke, GoTo
<1>7. local' = [local EXCEPT ![w] = local[w]]
  BY <1>6 DEF OpenRuns, TypeOK
<1>8. /\ pc' \in [Workers -> PCs]
      /\ local' \in [Workers -> Local]
      /\ RunInHand'
      /\ RunsApart'
  <2>1. local[w] \in Local /\ runs' \in [RunIds -> RunRow]
    BY <1>6 DEF OpenRuns, TypeOK
  <2>2. \A r \in RunIds : runs'[r] = runs[r] \/ (HasRun(w) /\ r = local[w].run)
    BY <1>6
  <2> QED BY <2>1, <2>2, <1>6, <1>7, RunLeft
<1>9. TypeOK'
  BY <1>5, <1>6, <1>8 DEF OpenRuns, TypeOK
<1> QED BY <1>8, <1>9 DEF OpenRuns

LEMMA StartRunKeepsOpenRuns ==
  ASSUME OpenRuns, NEW w \in Workers, StartRun(w)
  PROVE  OpenRuns'
<1>1. PICK s \in Sources, r \in RunIds :
        /\ runs[r].status = "none"
        /\ runs' = [runs EXCEPT ![r] = [NoRun EXCEPT !.source = s,
                                                     !.status = "started"]]
        /\ local' = [local EXCEPT ![w] = [NoLocal EXCEPT !.run = r]]
        /\ call' = [call EXCEPT ![w].left = @ \ {s}]
  BY DEF StartRun
<1> DEFINE row == [NoRun EXCEPT !.source = s, !.status = "started"]
           l   == [NoLocal EXCEPT !.run = r]
<1>2. row \in RunRow /\ row.source = s /\ row.status = "started"
  BY NoRunTyped DEF RunRow, ActiveStatus
<1>3. l \in Local /\ l.run = r
  BY NoLocalTyped DEF Local
<1>4. /\ pc' = [pc EXCEPT ![w] = "started"]
      /\ UNCHANGED <<db, lock>>
  BY DEF StartRun, GoTo
<1> HIDE DEF row, l
<1>5. runs' = [runs EXCEPT ![r] = row] /\ local' = [local EXCEPT ![w] = l]
  BY <1>1 DEF row, l
<1>6. call' \in [Workers -> Call]
  <2>1. call[w] \in Call
    BY DEF OpenRuns, TypeOK
  <2>2. [call[w] EXCEPT !.left = @ \ {s}] \in Call
    BY <2>1 DEF Call
  <2> QED BY <1>1, <2>2 DEF OpenRuns, TypeOK
<1>7. /\ runs' \in [RunIds -> RunRow]
      /\ local' \in [Workers -> Local]
      /\ pc' \in [Workers -> PCs]
      /\ runs'[r] = row /\ local'[w] = l /\ pc'[w] = "started"
      /\ \A q \in RunIds \ {r} : runs'[q] = runs[q]
      /\ \A v \in Workers \ {w} : pc'[v] = pc[v] /\ local'[v] = local[v]
  BY <1>2, <1>3, <1>4, <1>5 DEF OpenRuns, TypeOK, PCs, Working, BeforeTxn
<1>8. TypeOK'
  BY <1>4, <1>6, <1>7 DEF OpenRuns, TypeOK
<1>9. \A v \in Workers : HasRun(v) =>
        /\ local[v].run \in RunIds \ {r}
        /\ runs[local[v].run].source \in Sources
        /\ runs[local[v].run].status \in StatusAt(pc[v])
  <2> SUFFICES ASSUME NEW v \in Workers, HasRun(v)
               PROVE  /\ local[v].run \in RunIds \ {r}
                      /\ runs[local[v].run].source \in Sources
                      /\ runs[local[v].run].status \in StatusAt(pc[v])
    OBVIOUS
  <2>1. /\ local[v].run \in RunIds
        /\ runs[local[v].run].source \in Sources
        /\ runs[local[v].run].status \in StatusAt(pc[v])
    BY DEF OpenRuns, RunInHand, Src, RunOf
  <2>2. "none" \notin StatusAt(pc[v])
    BY DEF StatusAt, ActiveStatus
  <2> QED BY <2>1, <2>2, <1>1
<1>10. RunInHand'
  <2> SUFFICES ASSUME NEW v \in Workers, HasRun(v)'
               PROVE  /\ local'[v].run \in RunIds
                      /\ runs'[local'[v].run].source \in Sources
                      /\ runs'[local'[v].run].status \in StatusAt(pc'[v])
    BY DEF RunInHand, Src, RunOf
  <2>1. CASE v = w
    BY <2>1, <1>2, <1>3, <1>7, StatusAtPlaces
  <2>2. CASE v # w
    <3>1. HasRun(v) /\ pc'[v] = pc[v] /\ local'[v] = local[v]
      BY <2>2, <1>7 DEF HasRun
    <3> QED BY <3>1, <1>7, <1>9
  <2> QED BY <2>1, <2>2
<1>11. RunsApart'
  BY <1>3, <1>7, <1>9 DEF OpenRuns, RunsApart, HasRun
<1> QED BY <1>8, <1>10, <1>11 DEF OpenRuns

(* Discovery keeps some of the paths of a snapshot.                        *)
LEMMA KeptTyped ==
  ASSUME NEW snap \in Snapshot, NEW rules \in Rules
  PROVE  Kept(snap, rules) \in Discovered
  BY RunsAssumption DEF Snapshot, Kept, Discovered, Entry, NoEntry

(* Rewriting one process's private record.                                 *)
LEMMA LocalRewritten ==
  ASSUME NEW l \in Local
  PROVE  /\ \A snap \in Snapshot :
              /\ [l EXCEPT !.snap = snap] \in Local
              /\ [l EXCEPT !.snap = snap].run = l.run
         /\ \A found \in Discovered, saw \in BOOLEAN :
              /\ [l EXCEPT !.found = found, !.sawRow = saw] \in Local
              /\ [l EXCEPT !.found = found, !.sawRow = saw].run = l.run
         /\ \A txn \in SourceRows :
              /\ [l EXCEPT !.txn = txn] \in Local
              /\ [l EXCEPT !.txn = txn].run = l.run
         /\ \A plan \in IncrementalPlan :
              /\ [l EXCEPT !.plan = plan] \in Local
              /\ [l EXCEPT !.plan = plan].run = l.run
  BY DEF Local
LEMMA DryRunKeepsOpenRuns ==
  ASSUME OpenRuns, NEW w \in Workers, CompleteDryRun(w)
  PROVE  OpenRuns'
<1>1. HasRun(w)
  BY DEF CompleteDryRun, HasRun, Working, BeforeTxn
<1>2. CommitStatus(w, "completed") /\ Report(w) /\ UNCHANGED <<db, lock>>
  BY DEF CompleteDryRun
<1>3. /\ runs' \in [RunIds -> RunRow]
      /\ \A r \in RunIds \ {local[w].run} : runs'[r] = runs[r]
  BY <1>1, <1>2, CommitStatusWrites DEF TerminalStatus
<1>4. db' \in [Sources -> SourceRows] /\ lock' \in [Sources -> Workers \cup {None}]
  BY <1>2 DEF OpenRuns, TypeOK
<1>5. \A r \in RunIds : runs'[r] = runs[r] \/ r = local[w].run
  BY <1>3
<1> QED BY <1>1, <1>2, <1>3, <1>4, <1>5, ReportKeepsOpenRuns

LEMMA BeginFetchKeepsOpenRuns ==
  ASSUME OpenRuns, NEW w \in Workers, BeginFetch(w)
  PROVE  OpenRuns'
<1>1. HasRun(w)
  BY DEF BeginFetch, HasRun, Working, BeforeTxn
<1>2. /\ CommitStatus(w, "fetching")
      /\ pc' = [pc EXCEPT ![w] = "fetching"]
      /\ UNCHANGED <<db, lock, call, local>>
  BY DEF BeginFetch, GoTo
<1>3. /\ runs' \in [RunIds -> RunRow]
      /\ runs'[local[w].run].source = Src(w)
      /\ runs'[local[w].run].status \in StatusAt("fetching")
      /\ \A r \in RunIds \ {local[w].run} : runs'[r] = runs[r]
  BY <1>1, <1>2, CommitStatusWrites, StatusAtPlaces DEF ActiveStatus
<1>4. local[w] \in Local /\ local' = [local EXCEPT ![w] = local[w]]
  BY <1>2 DEF OpenRuns, TypeOK
<1>5. "fetching" \in PCs
  BY DEF PCs, Working, BeforeTxn
<1>6. /\ pc' \in [Workers -> PCs]
      /\ local' \in [Workers -> Local]
      /\ RunInHand'
      /\ RunsApart'
  BY <1>1, <1>2, <1>3, <1>4, <1>5, RunKept
<1>7. TypeOK'
  BY <1>2, <1>3, <1>6 DEF OpenRuns, TypeOK
<1> QED BY <1>6, <1>7 DEF OpenRuns

LEMMA FetchKeepsOpenRuns ==
  ASSUME OpenRuns, NEW w \in Workers, Fetch(w)
  PROVE  OpenRuns'
<1>1. HasRun(w) /\ Src(w) \in Sources
  BY DEF Fetch, HasRun, Working, BeforeTxn, OpenRuns, RunInHand
<1>2. PICK snap \in Upstream[Src(w)] : local' = [local EXCEPT ![w].snap = snap]
  BY DEF Fetch
<1>3. snap \in Snapshot
  BY <1>1, RunsAssumption
<1> DEFINE l == [local[w] EXCEPT !.snap = snap]
<1>4. /\ CommitStatus(w, "discovering")
      /\ pc' = [pc EXCEPT ![w] = "discovering"]
      /\ UNCHANGED <<db, lock, call>>
  BY DEF Fetch, GoTo
<1>5. local[w] \in Local
  BY DEF OpenRuns, TypeOK
<1>6. l \in Local /\ l.run = local[w].run /\ local' = [local EXCEPT ![w] = l]
  BY <1>2, <1>3, <1>5, LocalRewritten
<1> HIDE DEF l
<1>7. /\ runs' \in [RunIds -> RunRow]
      /\ runs'[l.run].source = Src(w)
      /\ runs'[l.run].status \in StatusAt("discovering")
      /\ \A r \in RunIds \ {l.run} : runs'[r] = runs[r]
  BY <1>1, <1>4, <1>6, CommitStatusWrites, StatusAtPlaces DEF ActiveStatus
<1>8. "discovering" \in PCs
  BY DEF PCs, Working, BeforeTxn
<1>9. /\ pc' \in [Workers -> PCs]
      /\ local' \in [Workers -> Local]
      /\ RunInHand'
      /\ RunsApart'
  BY <1>1, <1>4, <1>6, <1>7, <1>8, RunKept
<1>10. TypeOK'
  BY <1>4, <1>7, <1>9 DEF OpenRuns, TypeOK
<1> QED BY <1>9, <1>10 DEF OpenRuns

(* A step of the work after the fetch: the private record is rewritten and *)
(* the process stays among the places of the status discovering.           *)
LEMMA PrivateStepKeepsOpenRuns ==
  ASSUME OpenRuns, NEW w \in Workers,
         pc[w] \in {"discovering", "waiting"} \cup InTxn,
         NEW at \in {"discovering", "waiting"} \cup InTxn, NEW l \in Local,
         pc' = [pc EXCEPT ![w] = at], UNCHANGED <<db, runs, call>>,
         local' = [local EXCEPT ![w] = l], l.run = local[w].run,
         lock' \in [Sources -> Workers \cup {None}]
  PROVE  OpenRuns'
<1>1. HasRun(w) /\ at \in PCs
  BY DEF HasRun, PCs, Working, BeforeTxn
<1>2. StatusAt(pc[w]) \subseteq StatusAt(at)
  BY StatusAtPlaces
<1> QED BY <1>1, <1>2, WorkKeepsOpenRuns

LEMMA DiscoverKeepsOpenRuns ==
  ASSUME OpenRuns, NEW w \in Workers, Discover(w), local[w].snap \in Snapshot
  PROVE  OpenRuns'
<1>1. PICK rules \in Rules :
        local' = [local EXCEPT ![w].found = Kept(local[w].snap, rules),
                               ![w].sawRow = db[Src(w)].exists]
  BY DEF Discover
<1> DEFINE found == Kept(local[w].snap, rules)
           saw   == db[Src(w)].exists
           l     == [local[w] EXCEPT !.found = found, !.sawRow = saw]
<1>2. HasRun(w) /\ Src(w) \in Sources
  BY DEF Discover, HasRun, Working, BeforeTxn, OpenRuns, RunInHand
<1>3. found \in Discovered
  BY KeptTyped
<1>4. saw \in BOOLEAN
  BY <1>2 DEF OpenRuns, TypeOK, SourceRows
<1>5. local[w] \in Local
  BY DEF OpenRuns, TypeOK
<1>6. local' = [local EXCEPT ![w] = l]
  BY <1>1
<1> HIDE DEF found, saw
<1>7. l \in Local /\ l.run = local[w].run
  BY <1>3, <1>4, <1>5, LocalRewritten
<1> HIDE DEF l
<1>8. /\ pc[w] = "discovering"
      /\ pc' = [pc EXCEPT ![w] = "waiting"]
      /\ UNCHANGED <<db, runs, lock, call>>
  BY DEF Discover, GoTo
<1>9. lock' \in [Sources -> Workers \cup {None}]
  BY <1>8 DEF OpenRuns, TypeOK
<1> QED BY <1>6, <1>7, <1>8, <1>9, PrivateStepKeepsOpenRuns

LEMMA LockSourceKeepsOpenRuns ==
  ASSUME OpenRuns, NEW w \in Workers, LockSource(w)
  PROVE  OpenRuns'
<1>1. HasRun(w) /\ Src(w) \in Sources /\ pc[w] = "waiting" /\ pc[w] \in Working
  BY DEF LockSource, HasRun, Working, BeforeTxn, OpenRuns, RunInHand
<1>2. CASE Raise(w, "IntegrityError")
  BY <1>1, <1>2, RaiseKeepsOpenRuns DEF ErrorTypes
<1>3. CASE /\ lock' = [lock EXCEPT ![Src(w)] = w]
           /\ local' = [local EXCEPT ![w].txn = UpsertSource(db[Src(w)])]
           /\ GoTo(w, "planning")
           /\ UNCHANGED <<db, runs, call>>
  <2> DEFINE txn == UpsertSource(db[Src(w)])
             l   == [local[w] EXCEPT !.txn = txn]
  <2>1. db[Src(w)] \in SourceRows /\ local[w] \in Local
    BY <1>1 DEF OpenRuns, TypeOK
  <2>2. txn \in SourceRows
    BY <2>1, UpsertSourceWrites
  <2>3. local' = [local EXCEPT ![w] = l]
    BY <1>3
  <2> HIDE DEF txn
  <2>4. l \in Local /\ l.run = local[w].run
    BY <2>1, <2>2, LocalRewritten
  <2> HIDE DEF l
  <2>5. lock' \in [Sources -> Workers \cup {None}]
    BY <1>1, <1>3 DEF OpenRuns, TypeOK
  <2>6. pc' = [pc EXCEPT ![w] = "planning"] /\ "planning" \in InTxn
    BY <1>3 DEF GoTo, InTxn
  <2> QED BY <1>1, <1>3, <2>3, <2>4, <2>5, <2>6, PrivateStepKeepsOpenRuns
<1> QED BY <1>2, <1>3 DEF LockSource

LEMMA PlanRunKeepsOpenRuns ==
  ASSUME OpenRuns, NEW w \in Workers, PlanRun(w)
  PROVE  OpenRuns'
<1> DEFINE plan == PlanFor(local[w].txn, local[w].found)
           l    == [local[w] EXCEPT !.plan = plan]
<1>1. /\ pc[w] = "planning"
      /\ pc' = [pc EXCEPT ![w] = "versioning"]
      /\ local' = [local EXCEPT ![w] = l]
      /\ UNCHANGED <<db, runs, lock, call>>
  BY DEF PlanRun, GoTo
<1>2. local[w] \in Local
  BY DEF OpenRuns, TypeOK
<1>3. plan \in IncrementalPlan
  BY <1>2, PlanCovers DEF Local
<1> HIDE DEF plan
<1>4. l \in Local /\ l.run = local[w].run
  BY <1>2, <1>3, LocalRewritten
<1> HIDE DEF l
<1>5. {"planning", "versioning"} \subseteq InTxn
  BY DEF InTxn
<1>6. lock' \in [Sources -> Workers \cup {None}]
  BY <1>1 DEF OpenRuns, TypeOK
<1> QED BY <1>1, <1>4, <1>5, <1>6, PrivateStepKeepsOpenRuns

LEMMA RecordVersionKeepsOpenRuns ==
  ASSUME OpenRuns, NEW w \in Workers, RecordVersion(w),
         local[w].snap \in Snapshot
  PROVE  OpenRuns'
<1>1. pc[w] \in Working
  BY DEF RecordVersion, Working, InTxn
<1>2. CASE Raise(w, "IntegrityError")
  BY <1>1, <1>2, RaiseKeepsOpenRuns DEF ErrorTypes
<1>3. CASE /\ local' = [local EXCEPT
                ![w].txn = UpsertVersion(local[w].txn, local[w].snap),
                ![w].todo = Present(local[w].found)]
           /\ GoTo(w, "artifacts")
           /\ UNCHANGED <<db, runs, lock, call>>
  <2> DEFINE txn  == UpsertVersion(local[w].txn, local[w].snap)
             todo == Present(local[w].found)
             l    == [local[w] EXCEPT !.txn = txn, !.todo = todo]
  <2>1. /\ pc[w] = "versioning"
        /\ pc' = [pc EXCEPT ![w] = "artifacts"]
        /\ local' = [local EXCEPT ![w] = l]
    BY <1>3 DEF RecordVersion, GoTo
  <2>2. local[w] \in Local
    BY DEF OpenRuns, TypeOK
  <2>3. local[w].txn \in SourceRows /\ todo \in SUBSET Paths
    BY <2>2 DEF Local, Present
  <2>4. txn \in SourceRows
    BY <2>3, UpsertVersionWrites
  <2> HIDE DEF txn, todo
  <2>5. l \in Local /\ l.run = local[w].run
    BY <2>2, <2>3, <2>4 DEF Local
  <2> HIDE DEF l
  <2>6. {"versioning", "artifacts"} \subseteq InTxn
    BY DEF InTxn
  <2>7. lock' \in [Sources -> Workers \cup {None}]
    BY <1>3 DEF OpenRuns, TypeOK
  <2> QED BY <1>3, <2>1, <2>5, <2>6, <2>7, PrivateStepKeepsOpenRuns
<1> QED BY <1>2, <1>3 DEF RecordVersion

LEMMA RecordArtifactKeepsOpenRuns ==
  ASSUME OpenRuns, NEW w \in Workers, RecordArtifact(w),
         local[w].snap \in Snapshot
  PROVE  OpenRuns'
<1>1. PICK p \in local[w].todo :
        local' = [local EXCEPT
          ![w].txn = UpsertArtifact(local[w].txn, local[w].snap.label, p,
                                    local[w].found[p], IsGit(Src(w))),
          ![w].todo = local[w].todo \ {p}]
  BY DEF RecordArtifact
<1> DEFINE txn  == UpsertArtifact(local[w].txn, local[w].snap.label, p,
                                  local[w].found[p], IsGit(Src(w)))
           todo == local[w].todo \ {p}
           l    == [local[w] EXCEPT !.txn = txn, !.todo = todo]
<1>2. local' = [local EXCEPT ![w] = l]
  BY <1>1
<1>3. local[w] \in Local
  BY DEF OpenRuns, TypeOK
<1>4. /\ local[w].txn \in SourceRows
      /\ local[w].todo \in SUBSET Paths
      /\ local[w].found \in Discovered
  BY <1>3 DEF Local
<1>5. /\ p \in Paths
      /\ todo \in SUBSET Paths
      /\ local[w].found[p] \in Entry
      /\ local[w].snap.label \in Labels
      /\ IsGit(Src(w)) \in BOOLEAN
  BY <1>4 DEF Discovered, Snapshot, IsGit
<1>6. txn \in SourceRows
  <2> DEFINE git == IsGit(Src(w))
  <2> HIDE DEF git
  <2> QED BY <1>4, <1>5, UpsertArtifactWrites DEF git
<1> HIDE DEF txn, todo
<1>7. l \in Local /\ l.run = local[w].run
  BY <1>3, <1>5, <1>6 DEF Local
<1> HIDE DEF l
<1>8. /\ pc[w] = "artifacts"
      /\ pc' = [pc EXCEPT ![w] = "artifacts"]
      /\ lock' \in [Sources -> Workers \cup {None}]
      /\ UNCHANGED <<db, runs, call>>
  BY DEF RecordArtifact, OpenRuns, TypeOK
<1>9. "artifacts" \in InTxn
  BY DEF InTxn
<1> QED BY <1>2, <1>7, <1>8, <1>9, PrivateStepKeepsOpenRuns

LEMMA RetireArtifactsKeepsOpenRuns ==
  ASSUME OpenRuns, NEW w \in Workers, RetireArtifacts(w)
  PROVE  OpenRuns'
<1> DEFINE keys    == CurrentKeys(local[w].plan)
           txn     == RetireAbsent(local[w].txn, keys)
           retired == StaleMembers(local[w].txn, keys)
           l       == [local[w] EXCEPT !.txn = txn, !.retired = retired]
<1>1. /\ pc[w] = "artifacts"
      /\ pc' = [pc EXCEPT ![w] = "changes"]
      /\ local' = [local EXCEPT ![w] = l]
      /\ UNCHANGED <<db, runs, lock, call>>
  BY DEF RetireArtifacts, GoTo
<1>2. local[w] \in Local
  BY DEF OpenRuns, TypeOK
<1>3. local[w].txn \in SourceRows /\ keys \in SUBSET Paths
  BY <1>2 DEF Local, IncrementalPlan, CurrentKeys
<1>4. retired \in SUBSET (Paths \X Labels)
  BY DEF StaleMembers
<1> HIDE DEF keys
<1>5. txn \in SourceRows
  BY <1>3, RetireWrites
<1> HIDE DEF txn, retired
<1>6. l \in Local /\ l.run = local[w].run
  BY <1>2, <1>4, <1>5 DEF Local
<1> HIDE DEF l
<1>7. {"artifacts", "changes"} \subseteq InTxn
  BY DEF InTxn
<1>8. lock' \in [Sources -> Workers \cup {None}]
  BY <1>1 DEF OpenRuns, TypeOK
<1> QED BY <1>1, <1>6, <1>7, <1>8, PrivateStepKeepsOpenRuns

LEMMA RecordChangesKeepsOpenRuns ==
  ASSUME OpenRuns, NEW w \in Workers, RecordChanges(w),
         local[w].snap \in Snapshot
  PROVE  OpenRuns'
<1> DEFINE txn == UpsertChanges(local[w].txn, local[w].snap)
           l   == [local[w] EXCEPT !.txn = txn]
<1>1. /\ pc[w] = "changes"
      /\ pc' = [pc EXCEPT ![w] = "finishing"]
      /\ local' = [local EXCEPT ![w] = l]
      /\ UNCHANGED <<db, runs, lock, call>>
  BY DEF RecordChanges, GoTo
<1>2. local[w] \in Local
  BY DEF OpenRuns, TypeOK
<1>3. local[w].txn \in SourceRows
  BY <1>2 DEF Local
<1>4. txn \in SourceRows
  BY <1>3, UpsertChangesWrites
<1> HIDE DEF txn
<1>5. l \in Local /\ l.run = local[w].run
  BY <1>2, <1>4, LocalRewritten
<1> HIDE DEF l
<1>6. {"changes", "finishing"} \subseteq InTxn
  BY DEF InTxn
<1>7. lock' \in [Sources -> Workers \cup {None}]
  BY <1>1 DEF OpenRuns, TypeOK
<1> QED BY <1>1, <1>5, <1>6, <1>7, PrivateStepKeepsOpenRuns

LEMMA CompleteKeepsOpenRuns ==
  ASSUME OpenRuns, NEW w \in Workers, Complete(w), local[w].snap \in Snapshot
  PROVE  OpenRuns'
<1> DEFINE row == [RunOf(w) EXCEPT !.status = "completed",
                                   !.version = local[w].snap.label,
                                   !.plan = local[w].plan,
                                   !.retired = local[w].retired]
<1>1. /\ HasRun(w)
      /\ Src(w) \in Sources
      /\ local[w].run \in RunIds
  BY DEF Complete, HasRun, Working, InTxn, OpenRuns, RunInHand
<1>2. /\ db' = [db EXCEPT ![Src(w)] = local[w].txn]
      /\ runs' = [runs EXCEPT ![local[w].run] = row]
      /\ lock' = Released(w)
      /\ Report(w)
  BY DEF Complete
<1>3. RunOf(w) \in RunRow /\ local[w] \in Local
  BY <1>1 DEF OpenRuns, TypeOK, RunOf
<1>4. row \in RunRow
  BY <1>3 DEF RunRow, TerminalStatus, Local, Snapshot
<1> HIDE DEF row
<1>5. /\ runs' \in [RunIds -> RunRow]
      /\ \A r \in RunIds : runs'[r] = runs[r] \/ r = local[w].run
  BY <1>1, <1>2, <1>4 DEF OpenRuns, TypeOK
<1>6. db' \in [Sources -> SourceRows]
  BY <1>2, <1>3 DEF OpenRuns, TypeOK, Local
<1>7. lock' \in [Sources -> Workers \cup {None}]
  BY <1>2, ReleasedTyped DEF OpenRuns
<1> QED BY <1>1, <1>2, <1>5, <1>6, <1>7, ReportKeepsOpenRuns

LEMMA RecordFailureKeepsOpenRuns ==
  ASSUME OpenRuns, NEW w \in Workers, RecordFailure(w)
  PROVE  OpenRuns'
<1> DEFINE row == [RunOf(w) EXCEPT !.status = "failed",
                                   !.stage = RunOf(w).status,
                                   !.error = local[w].error]
<1>1. /\ HasRun(w)
      /\ local[w].run \in RunIds
      /\ RunOf(w).status \in ActiveStatus
  BY DEF RecordFailure, HasRun, OpenRuns, RunInHand, StatusAt, InTxn
<1>2. /\ runs' = [runs EXCEPT ![local[w].run] = row]
      /\ Exit(w)
      /\ UNCHANGED <<db, lock>>
  BY DEF RecordFailure
<1>3. RunOf(w) \in RunRow /\ local[w] \in Local
  BY <1>1 DEF OpenRuns, TypeOK, RunOf
<1>4. row \in RunRow
  BY <1>1, <1>3 DEF RunRow, TerminalStatus, Local
<1> HIDE DEF row
<1>5. /\ runs' \in [RunIds -> RunRow]
      /\ \A r \in RunIds : runs'[r] = runs[r] \/ (HasRun(w) /\ r = local[w].run)
  BY <1>1, <1>2, <1>4 DEF OpenRuns, TypeOK
<1>6. lock' \in [Sources -> Workers \cup {None}]
  BY <1>2 DEF OpenRuns, TypeOK
<1> QED BY <1>2, <1>5, <1>6, ExitKeepsOpenRuns
-----------------------------------------------------------------------------
(* The work of one run, place by place (WorkAt). *)

LEMMA NoWorkYet ==
  ASSUME NEW at, NEW l, NEW s, at \notin {"discovering", "waiting"} \cup InTxn
  PROVE  WorkAt(at, l, s)
  BY DEF WorkAt, VersionedAt, RetiredAt, InTxn

LEMMA WorkFetched ==
  ASSUME NEW l, NEW s, l.snap \in Upstream[s]
  PROVE  WorkAt("discovering", l, s)
  BY DEF WorkAt, VersionedAt, RetiredAt, InTxn

LEMMA WorkDiscovered ==
  ASSUME NEW l \in Local, NEW s, NEW rules \in Rules, NEW saw,
         WorkAt("discovering", l, s)
  PROVE  WorkAt("waiting", [l EXCEPT !.found = Kept(l.snap, rules),
                                     !.sawRow = saw], s)
<1> DEFINE found == Kept(l.snap, rules)
           new   == [l EXCEPT !.found = found, !.sawRow = saw]
<1> HIDE DEF found
<1>1. new.found = found /\ new.snap = l.snap
  BY DEF Local
<1> HIDE DEF new
<1>2. WorkAt("waiting", new, s)
  BY <1>1 DEF found, WorkAt, VersionedAt, RetiredAt, InTxn
<1> QED BY <1>2 DEF new, found

LEMMA WorkLocked ==
  ASSUME NEW l \in Local, NEW s, NEW txn, RowsAgree(txn),
         WorkAt("waiting", l, s)
  PROVE  WorkAt("planning", [l EXCEPT !.txn = txn], s)
<1> DEFINE new == [l EXCEPT !.txn = txn]
<1>1. new.found = l.found /\ new.snap = l.snap /\ new.txn = txn
  BY DEF Local
<1> HIDE DEF new
<1>2. WorkAt("planning", new, s)
  BY <1>1 DEF WorkAt, VersionedAt, RetiredAt, InTxn
<1> QED BY <1>2 DEF new

LEMMA WorkPlanned ==
  ASSUME NEW l \in Local, NEW s, WorkAt("planning", l, s)
  PROVE  WorkAt("versioning", [l EXCEPT !.plan = PlanFor(l.txn, l.found)], s)
<1> DEFINE plan == PlanFor(l.txn, l.found)
           new  == [l EXCEPT !.plan = plan]
<1>1. CurrentKeys(plan) = Present(l.found)
  BY PlanCovers DEF Local
<1> HIDE DEF plan
<1>2. /\ new.found = l.found /\ new.snap = l.snap /\ new.txn = l.txn
      /\ new.plan = plan
  BY DEF Local
<1> HIDE DEF new
<1>3. WorkAt("versioning", new, s)
  BY <1>1, <1>2 DEF WorkAt, VersionedAt, RetiredAt, InTxn
<1> QED BY <1>3 DEF new, plan

LEMMA WorkVersioned ==
  ASSUME NEW l \in Local, NEW s, l.snap \in Snapshot,
         WorkAt("versioning", l, s), ~VersionCollides(l.txn, l.snap)
  PROVE  WorkAt("artifacts",
                [l EXCEPT !.txn = UpsertVersion(l.txn, l.snap),
                          !.todo = Present(l.found)], s)
<1> DEFINE txn  == UpsertVersion(l.txn, l.snap)
           todo == Present(l.found)
           new  == [l EXCEPT !.txn = txn, !.todo = todo]
<1>1. l.txn \in SourceRows /\ RowsAgree(l.txn)
  BY DEF Local, WorkAt, InTxn
<1>2. /\ RowsAgree(txn)
      /\ txn.versions[l.snap.label].id # None
      /\ \A k \in Labels : txn.versions[k].current <=> k = l.snap.label
  BY <1>1, UpsertVersionAgrees
<1> HIDE DEF txn, todo
<1>3. /\ new.found = l.found /\ new.snap = l.snap /\ new.plan = l.plan
      /\ new.txn = txn /\ new.todo = todo
  BY DEF Local
<1> HIDE DEF new
<1>4. WorkAt("artifacts", new, s)
  <2>1. /\ new.snap \in Upstream[s]
        /\ \E rules \in Rules : new.found = Kept(new.snap, rules)
        /\ CurrentKeys(new.plan) = Present(new.found)
    BY <1>3 DEF WorkAt, InTxn
  <2> QED BY <1>2, <1>3, <2>1 DEF todo, WorkAt, VersionedAt, RetiredAt
<1> QED BY <1>4 DEF new, txn, todo

LEMMA WorkRecorded ==
  ASSUME NEW l \in Local, NEW s, NEW p \in l.todo, NEW git \in BOOLEAN,
         l.snap \in Snapshot, WorkAt("artifacts", l, s)
  PROVE  WorkAt("artifacts",
                [l EXCEPT !.txn = UpsertArtifact(l.txn, l.snap.label, p,
                                                 l.found[p], git),
                          !.todo = l.todo \ {p}], s)
<1> DEFINE txn  == UpsertArtifact(l.txn, l.snap.label, p, l.found[p], git)
           todo == l.todo \ {p}
           new  == [l EXCEPT !.txn = txn, !.todo = todo]
<1>1. /\ l.txn \in SourceRows
      /\ l.snap.label \in Labels
      /\ p \in Paths
      /\ l.found[p] \in Entry
  BY DEF Local, Snapshot, Discovered
<1>2. /\ RowsAgree(l.txn)
      /\ l.txn.versions[l.snap.label].id # None
      /\ \A k \in Labels : l.txn.versions[k].current <=> k = l.snap.label
      /\ \A q \in Present(l.found) \ l.todo :
           /\ l.txn.artifacts[q].version = l.snap.label
           /\ l.txn.artifacts[q].sum = l.found[q].sum
      /\ l.todo \subseteq Present(l.found)
  BY DEF WorkAt, VersionedAt, InTxn
<1>3. l.found[p].sum # None
  BY <1>2 DEF Present
<1>4. RowsAgree(txn)
  BY <1>1, <1>2, <1>3, UpsertArtifactAgrees
<1>5. /\ txn.versions = l.txn.versions
      /\ txn.artifacts[p].version = l.snap.label
      /\ txn.artifacts[p].sum = l.found[p].sum
      /\ \A q \in Paths \ {p} : txn.artifacts[q] = l.txn.artifacts[q]
  BY <1>1, UpsertArtifactWrites
<1> HIDE DEF txn
<1>6. /\ new.found = l.found /\ new.snap = l.snap /\ new.plan = l.plan
      /\ new.txn = txn /\ new.todo = todo
  <2> HIDE DEF todo
  <2> QED BY DEF Local
<1> HIDE DEF new
<1>7. \A q \in Present(l.found) \ todo :
        /\ txn.artifacts[q].version = l.snap.label
        /\ txn.artifacts[q].sum = l.found[q].sum
  BY <1>2, <1>5 DEF Present
<1>8. WorkAt("artifacts", new, s)
  <2>1. /\ new.snap \in Upstream[s]
        /\ \E rules \in Rules : new.found = Kept(new.snap, rules)
        /\ CurrentKeys(new.plan) = Present(new.found)
    BY <1>6 DEF WorkAt, InTxn
  <2> QED BY <1>2, <1>4, <1>5, <1>6, <1>7, <2>1
          DEF WorkAt, VersionedAt, RetiredAt
<1> QED BY <1>8 DEF new, txn

LEMMA WorkRetired ==
  ASSUME NEW l \in Local, NEW s, l.todo = {}, NEW retired,
         WorkAt("artifacts", l, s)
  PROVE  WorkAt("changes",
                [l EXCEPT !.txn = RetireAbsent(l.txn, CurrentKeys(l.plan)),
                          !.retired = retired], s)
<1> DEFINE txn == RetireAbsent(l.txn, CurrentKeys(l.plan))
           new == [l EXCEPT !.txn = txn, !.retired = retired]
<1>1. l.txn \in SourceRows /\ Present(l.found) \in SUBSET Paths
  BY DEF Local, Present
<1>2. /\ l.snap \in Upstream[s]
      /\ \E rules \in Rules : l.found = Kept(l.snap, rules)
      /\ RowsAgree(l.txn)
      /\ CurrentKeys(l.plan) = Present(l.found)
      /\ l.txn.versions[l.snap.label].id # None
      /\ \A k \in Labels : l.txn.versions[k].current <=> k = l.snap.label
      /\ \A q \in Present(l.found) \ l.todo :
           /\ l.txn.artifacts[q].version = l.snap.label
           /\ l.txn.artifacts[q].sum = l.found[q].sum
  BY DEF WorkAt, VersionedAt, InTxn
<1>3. /\ RowsAgree(txn)
      /\ \A p \in Paths \ Present(l.found) : txn.artifacts[p].version = None
  BY <1>1, <1>2, RetireAgrees
<1>4. /\ txn.versions = l.txn.versions
      /\ \A p \in Present(l.found) : txn.artifacts[p] = l.txn.artifacts[p]
  BY <1>1, <1>2, RetireWrites
<1> HIDE DEF txn
<1>5. /\ new.found = l.found /\ new.snap = l.snap /\ new.plan = l.plan
      /\ new.txn = txn /\ new.todo = {}
  BY DEF Local
<1> HIDE DEF new
<1>6. WorkAt("changes", new, s)
  BY <1>2, <1>3, <1>4, <1>5 DEF WorkAt, VersionedAt, RetiredAt
<1> QED BY <1>6 DEF new, txn

LEMMA WorkChanged ==
  ASSUME NEW l \in Local, NEW s, l.snap \in Snapshot, WorkAt("changes", l, s)
  PROVE  WorkAt("finishing",
                [l EXCEPT !.txn = UpsertChanges(l.txn, l.snap)], s)
<1> DEFINE txn == UpsertChanges(l.txn, l.snap)
           new == [l EXCEPT !.txn = txn]
<1>1. l.txn \in SourceRows
  BY DEF Local
<1>2. /\ RowsAgree(l.txn)
      /\ l.txn.versions[l.snap.label].id # None
  BY DEF WorkAt, VersionedAt, InTxn
<1>3. /\ RowsAgree(txn)
      /\ txn.versions = l.txn.versions
      /\ txn.artifacts = l.txn.artifacts
  BY <1>1, <1>2, UpsertChangesAgrees, UpsertChangesWrites
<1> HIDE DEF txn
<1>4. /\ new.found = l.found /\ new.snap = l.snap /\ new.plan = l.plan
      /\ new.txn = txn /\ new.todo = l.todo
  BY DEF Local
<1> HIDE DEF new
<1>5. WorkAt("finishing", new, s)
  BY <1>3, <1>4 DEF WorkAt, VersionedAt, RetiredAt, InTxn
<1> QED BY <1>5 DEF new, txn

(* What the work ends with: the rows agree, show one snapshot, and a       *)
(* reader sees exactly what discovery kept of it.                          *)
LEMMA WorkDone ==
  ASSUME NEW l \in Local, NEW s, l.snap \in Snapshot,
         WorkAt("finishing", l, s)
  PROVE  /\ RowsAgree(l.txn)
         /\ OneSnapshotRows(l.txn)
         /\ View(l.txn) = [p \in Paths |-> l.found[p].sum]
<1> USE NoneIsFresh
<1>1. /\ RowsAgree(l.txn)
      /\ \A k \in Labels : l.txn.versions[k].current <=> k = l.snap.label
      /\ \A p \in Present(l.found) :
           /\ l.txn.artifacts[p].version = l.snap.label
           /\ l.txn.artifacts[p].sum = l.found[p].sum
      /\ \A p \in Paths \ Present(l.found) : l.txn.artifacts[p].version = None
  BY DEF WorkAt, VersionedAt, RetiredAt, InTxn
<1>2. l.snap.label \in Labels
  BY DEF Snapshot
<1>3. Live(l.txn) = Present(l.found)
  BY <1>1, <1>2 DEF Live, Present
<1>4. OneSnapshotRows(l.txn)
  BY <1>1, <1>2, <1>3 DEF OneSnapshotRows
<1>5. View(l.txn) = [p \in Paths |-> l.found[p].sum]
  BY <1>1, <1>3 DEF View, Present
<1> QED BY <1>1, <1>4, <1>5
-----------------------------------------------------------------------------
(* Transactions in order: one step of one process. *)

(* What every step of w does around it: w moves to `at' with the private   *)
(* record l, writes no run row that another process has in hand, takes or  *)
(* drops the lock as it enters or leaves its transaction, and commits only *)
(* rows that agree and show one snapshot.                                  *)
OrderlyStep(w, at, l, dbNext, runsNext, lockNext) ==
  /\ \A r \in RunIds : \/ runsNext[r] = runs[r]
                       \/ (HasRun(w) /\ r = local[w].run)
                       \/ runs[r].status = "none"
  /\ \/ /\ pc[w] \in InTxn <=> at \in InTxn
        /\ lockNext = lock
        /\ at \in InTxn =>
             runsNext[l.run].source = runs[local[w].run].source
     \/ at \notin InTxn /\ lockNext = Released(w)
     \/ /\ pc[w] \notin InTxn /\ at \in InTxn
        /\ lock[Src(w)] = None
        /\ lockNext = [lock EXCEPT ![Src(w)] = w]
        /\ runsNext[l.run].source = Src(w)
  /\ WorkAt(at, l, runsNext[l.run].source)
  /\ \A s \in Sources :
       \/ dbNext[s] = db[s]
       \/ RowsAgree(dbNext[s]) /\ OneSnapshotRows(dbNext[s])

LEMMA OrderlyStepKeeps ==
  ASSUME TransactionsInOrder, OpenRuns', NEW w \in Workers, NEW at, NEW l,
         pc' = [pc EXCEPT ![w] = at], local' = [local EXCEPT ![w] = l],
         OrderlyStep(w, at, l, db', runs', lock')
  PROVE  TransactionsInOrder'
<1>1. /\ pc'[w] = at /\ local'[w] = l
      /\ \A v \in Workers \ {w} : pc'[v] = pc[v] /\ local'[v] = local[v]
  BY DEF TransactionsInOrder, OpenRuns, TypeOK
<1>2. \A v \in Workers \ {w} : HasRun(v) => Src(v)' = Src(v)
  <2> SUFFICES ASSUME NEW v \in Workers \ {w}, HasRun(v)
               PROVE  runs'[local[v].run].source = runs[local[v].run].source
    BY <1>1 DEF Src, RunOf
  <2>1. /\ local[v].run \in RunIds
        /\ runs[local[v].run].status \in StatusAt(pc[v])
        /\ HasRun(w) => local[v].run # local[w].run
    BY DEF TransactionsInOrder, OpenRuns, RunInHand, RunsApart, RunOf
  <2>2. runs[local[v].run].status # "none"
    BY <2>1 DEF StatusAt, ActiveStatus
  <2> QED BY <2>1, <2>2 DEF OrderlyStep
<1>3. WorkInHand'
  <2> SUFFICES ASSUME NEW v \in Workers
               PROVE  WorkAt(pc'[v], local'[v], Src(v)')
    BY DEF WorkInHand
  <2>1. CASE v = w
    BY <2>1, <1>1 DEF OrderlyStep, Src, RunOf
  <2>2. CASE v # w /\ HasRun(v)
    BY <2>2, <1>1, <1>2 DEF TransactionsInOrder, WorkInHand
  <2>3. CASE v # w /\ ~HasRun(v)
    <3>1. pc[v] \notin {"discovering", "waiting"} \cup InTxn
      BY <2>3 DEF HasRun, Working, BeforeTxn
    <3> QED BY <2>3, <3>1, <1>1, NoWorkYet
  <2> QED BY <2>1, <2>2, <2>3
<1>4. LockHeld'
  <2> SUFFICES ASSUME NEW s \in Sources, NEW v \in Workers
               PROVE  lock'[s] = v <=> pc'[v] \in InTxn /\ Src(v)' = s
    BY DEF LockHeld
  <2>1. lock[s] = v <=> pc[v] \in InTxn /\ Src(v) = s
    BY DEF TransactionsInOrder, LockHeld
  <2>2. lock[s] = w <=> pc[w] \in InTxn /\ Src(w) = s
    BY DEF TransactionsInOrder, LockHeld
  <2>3. v # w => /\ pc'[v] = pc[v]
                 /\ pc[v] \in InTxn => Src(v)' = Src(v)
    BY <1>1, <1>2 DEF HasRun, Working
  <2>4. lock \in [Sources -> Workers \cup {None}] /\ None \notin Workers
    BY RunsAssumption DEF TransactionsInOrder, OpenRuns, TypeOK
  <2>5. CASE /\ pc[w] \in InTxn <=> at \in InTxn
             /\ lock' = lock
             /\ at \in InTxn => runs'[l.run].source = runs[local[w].run].source
    BY <2>1, <2>3, <2>5, <1>1 DEF Src, RunOf
  <2>6. CASE at \notin InTxn /\ lock' = Released(w)
    BY <2>1, <2>2, <2>3, <2>4, <2>6, <1>1 DEF Released
  <2>7. CASE /\ pc[w] \notin InTxn /\ at \in InTxn
             /\ lock[Src(w)] = None
             /\ lock' = [lock EXCEPT ![Src(w)] = w]
             /\ runs'[l.run].source = Src(w)
    <3>1. Src(w)' = Src(w)
      BY <2>7, <1>1 DEF Src, RunOf
    <3>2. CASE v = w
      BY <2>1, <2>4, <2>7, <3>1, <3>2, <1>1
    <3>3. CASE v # w
      BY <2>1, <2>3, <2>4, <2>7, <3>3
    <3> QED BY <3>2, <3>3
  <2> QED BY <2>5, <2>6, <2>7 DEF OrderlyStep
<1>5. CatalogAgrees' /\ OneSnapshotPerSource'
  BY DEF OrderlyStep, TransactionsInOrder, CatalogAgrees, OneSnapshotPerSource
<1> QED BY <1>3, <1>4, <1>5 DEF TransactionsInOrder
LEMMA InTransaction ==
  ASSUME TransactionsInOrder, NEW w \in Workers,
         pc[w] \in {"discovering", "waiting"} \cup InTxn
  PROVE  /\ HasRun(w)
         /\ Src(w) \in Sources
         /\ local[w] \in Local
         /\ local[w].snap \in Snapshot
         /\ local[w].snap \in Upstream[Src(w)]
         /\ WorkAt(pc[w], local[w], Src(w))
<1>1. HasRun(w)
  BY DEF HasRun, Working, BeforeTxn
<1>2. Src(w) \in Sources /\ local[w] \in Local
  BY <1>1 DEF TransactionsInOrder, OpenRuns, RunInHand, TypeOK
<1>3. WorkAt(pc[w], local[w], Src(w))
  BY DEF TransactionsInOrder, WorkInHand
<1>4. local[w].snap \in Upstream[Src(w)]
  BY <1>3 DEF WorkAt
<1>5. local[w].snap \in Snapshot
  BY <1>2, <1>4, RunsAssumption
<1> QED BY <1>1, <1>2, <1>3, <1>4, <1>5

LEMMA RaiseKeepsOrder ==
  ASSUME TransactionsInOrder, NEW w \in Workers, pc[w] \in Working,
         NEW error \in ErrorTypes, Raise(w, error)
  PROVE  TransactionsInOrder'
<1> DEFINE l == [NoLocal EXCEPT !.run = local[w].run, !.error = error]
<1>1. OpenRuns'
  BY RaiseKeepsOpenRuns DEF TransactionsInOrder
<1>2. /\ pc' = [pc EXCEPT ![w] = "failed"]
      /\ local' = [local EXCEPT ![w] = l]
      /\ lock' = Released(w)
      /\ UNCHANGED <<db, runs>>
  BY DEF Raise, GoTo
<1> HIDE DEF l
<1>3. WorkAt("failed", l, runs'[l.run].source)
  BY NoWorkYet, PlacesDiffer
<1>4. OrderlyStep(w, "failed", l, db', runs', lock')
  BY <1>2, <1>3, PlacesDiffer DEF OrderlyStep
<1> QED BY <1>1, <1>2, <1>4, OrderlyStepKeeps

(* Steps that leave the process without work of a transaction.             *)
LEMMA OutsideKeepsOrder ==
  ASSUME TransactionsInOrder, OpenRuns', NEW w \in Workers,
         NEW at \in {"idle", "choosing", "started", "fetching"}, NEW l,
         pc' = [pc EXCEPT ![w] = at], local' = [local EXCEPT ![w] = l],
         \A r \in RunIds : \/ runs'[r] = runs[r]
                           \/ (HasRun(w) /\ r = local[w].run)
                           \/ runs[r].status = "none",
         lock' = Released(w) \/ (pc[w] \notin InTxn /\ lock' = lock),
         UNCHANGED db
  PROVE  TransactionsInOrder'
<1>1. at \notin InTxn /\ at \notin {"discovering", "waiting"} \cup InTxn
  BY DEF InTxn
<1>2. WorkAt(at, l, runs'[l.run].source)
  BY <1>1, NoWorkYet
<1>3. OrderlyStep(w, at, l, db', runs', lock')
  BY <1>1, <1>2 DEF OrderlyStep
<1> QED BY <1>3, OrderlyStepKeeps

(* Steps of the work on one run, outside or inside the transaction.        *)
LEMMA WorkKeepsOrder ==
  ASSUME TransactionsInOrder, OpenRuns', NEW w \in Workers, NEW at, NEW l,
         pc[w] \in {"discovering", "waiting"} \cup InTxn,
         pc[w] \in InTxn <=> at \in InTxn,
         pc' = [pc EXCEPT ![w] = at], local' = [local EXCEPT ![w] = l],
         l.run = local[w].run, WorkAt(at, l, Src(w)),
         UNCHANGED <<db, runs, lock>>
  PROVE  TransactionsInOrder'
<1>1. OrderlyStep(w, at, l, db', runs', lock')
  BY DEF OrderlyStep, Src, RunOf
<1> QED BY <1>1, OrderlyStepKeeps

LEMMA FetchKeepsOrder ==
  ASSUME TransactionsInOrder, NEW w \in Workers, Fetch(w)
  PROVE  TransactionsInOrder'
<1>1. OpenRuns'
  BY FetchKeepsOpenRuns DEF TransactionsInOrder
<1>2. PICK snap \in Upstream[Src(w)] : local' = [local EXCEPT ![w].snap = snap]
  BY DEF Fetch
<1> DEFINE l == [local[w] EXCEPT !.snap = snap]
<1>3. /\ HasRun(w)
      /\ local[w].run \in RunIds
      /\ local[w] \in Local
  BY DEF Fetch, HasRun, Working, BeforeTxn, TransactionsInOrder, OpenRuns,
         RunInHand, TypeOK
<1>4. /\ CommitStatus(w, "discovering")
      /\ pc[w] = "fetching"
      /\ pc' = [pc EXCEPT ![w] = "discovering"]
      /\ UNCHANGED <<db, lock>>
  BY DEF Fetch, GoTo
<1>5. l.run = local[w].run /\ l.snap = snap /\ local' = [local EXCEPT ![w] = l]
  BY <1>2, <1>3 DEF Local
<1> HIDE DEF l
<1>6. /\ runs'[l.run].source = Src(w)
      /\ \A r \in RunIds \ {local[w].run} : runs'[r] = runs[r]
  BY <1>3, <1>4, <1>5, CommitStatusWrites DEF TransactionsInOrder, ActiveStatus
<1>7. WorkAt("discovering", l, runs'[l.run].source)
  BY <1>5, <1>6, WorkFetched
<1>8. pc[w] \notin InTxn /\ "discovering" \notin InTxn
  BY <1>4 DEF InTxn
<1>9. OrderlyStep(w, "discovering", l, db', runs', lock')
  BY <1>3, <1>4, <1>6, <1>7, <1>8 DEF OrderlyStep
<1> QED BY <1>1, <1>4, <1>5, <1>9, OrderlyStepKeeps

LEMMA DiscoverKeepsOrder ==
  ASSUME TransactionsInOrder, NEW w \in Workers, Discover(w)
  PROVE  TransactionsInOrder'
<1>1. pc[w] = "discovering"
  BY DEF Discover
<1>2. /\ local[w] \in Local
      /\ local[w].snap \in Snapshot
      /\ WorkAt("discovering", local[w], Src(w))
  BY <1>1, InTransaction
<1>3. OpenRuns'
  BY <1>2, DiscoverKeepsOpenRuns DEF TransactionsInOrder
<1>4. PICK rules \in Rules :
        local' = [local EXCEPT ![w].found = Kept(local[w].snap, rules),
                               ![w].sawRow = db[Src(w)].exists]
  BY DEF Discover
<1> DEFINE found == Kept(local[w].snap, rules)
           saw   == db[Src(w)].exists
           l     == [local[w] EXCEPT !.found = found, !.sawRow = saw]
<1>5. local' = [local EXCEPT ![w] = l]
  BY <1>4
<1> HIDE DEF saw
<1>6. WorkAt("waiting", l, Src(w))
  BY <1>2, WorkDiscovered
<1>7. l.run = local[w].run
  <2> HIDE DEF found
  <2> QED BY <1>2 DEF Local
<1> HIDE DEF found, l
<1>8. pc' = [pc EXCEPT ![w] = "waiting"] /\ UNCHANGED <<db, runs, lock>>
  BY DEF Discover, GoTo
<1>9. pc[w] \in InTxn <=> "waiting" \in InTxn
  BY <1>1 DEF InTxn
<1> QED BY <1>1, <1>3, <1>5, <1>6, <1>7, <1>8, <1>9, WorkKeepsOrder

LEMMA LockSourceKeepsOrder ==
  ASSUME TransactionsInOrder, NEW w \in Workers, LockSource(w)
  PROVE  TransactionsInOrder'
<1>1. OpenRuns'
  BY LockSourceKeepsOpenRuns DEF TransactionsInOrder
<1>2. pc[w] = "waiting" /\ pc[w] \in Working /\ lock[Src(w)] = None
  BY DEF LockSource, Working, BeforeTxn
<1>3. /\ Src(w) \in Sources
      /\ local[w] \in Local
      /\ WorkAt("waiting", local[w], Src(w))
  BY <1>2, InTransaction
<1>4. CASE Raise(w, "IntegrityError")
  BY <1>2, <1>4, RaiseKeepsOrder DEF ErrorTypes
<1>5. CASE /\ lock' = [lock EXCEPT ![Src(w)] = w]
           /\ local' = [local EXCEPT ![w].txn = UpsertSource(db[Src(w)])]
           /\ GoTo(w, "planning")
           /\ UNCHANGED <<db, runs, call>>
  <2> DEFINE txn == UpsertSource(db[Src(w)])
             l   == [local[w] EXCEPT !.txn = txn]
  <2>1. RowsAgree(txn)
    <3>1. db[Src(w)] \in SourceRows /\ RowsAgree(db[Src(w)])
      BY <1>3 DEF TransactionsInOrder, OpenRuns, TypeOK, CatalogAgrees
    <3> QED BY <3>1, UpsertSourceAgrees
  <2>2. local' = [local EXCEPT ![w] = l]
    BY <1>5
  <2> HIDE DEF txn
  <2>3. WorkAt("planning", l, Src(w)) /\ l.run = local[w].run
    BY <1>3, <2>1, WorkLocked DEF Local
  <2> HIDE DEF l
  <2>4. pc' = [pc EXCEPT ![w] = "planning"]
    BY <1>5 DEF GoTo
  <2>5. pc[w] \notin InTxn /\ "planning" \in InTxn
    BY <1>2 DEF InTxn
  <2>6. runs'[l.run].source = Src(w)
    BY <1>5, <2>3 DEF Src, RunOf
  <2>7. OrderlyStep(w, "planning", l, db', runs', lock')
    BY <1>2, <1>5, <2>3, <2>5, <2>6 DEF OrderlyStep
  <2> QED BY <1>1, <2>2, <2>4, <2>7, OrderlyStepKeeps
<1> QED BY <1>4, <1>5 DEF LockSource

LEMMA PlanRunKeepsOrder ==
  ASSUME TransactionsInOrder, NEW w \in Workers, PlanRun(w)
  PROVE  TransactionsInOrder'
<1> DEFINE l == [local[w] EXCEPT !.plan = PlanFor(local[w].txn, local[w].found)]
<1>1. OpenRuns'
  BY PlanRunKeepsOpenRuns DEF TransactionsInOrder
<1>2. /\ pc[w] = "planning"
      /\ pc' = [pc EXCEPT ![w] = "versioning"]
      /\ local' = [local EXCEPT ![w] = l]
      /\ UNCHANGED <<db, runs, lock>>
  BY DEF PlanRun, GoTo
<1>3. {"planning", "versioning"} \subseteq InTxn
  BY DEF InTxn
<1>4. local[w] \in Local /\ WorkAt("planning", local[w], Src(w))
  BY <1>2, <1>3, InTransaction
<1>5. WorkAt("versioning", l, Src(w)) /\ l.run = local[w].run
  BY <1>4, WorkPlanned DEF Local
<1> HIDE DEF l
<1> QED BY <1>1, <1>2, <1>3, <1>5, WorkKeepsOrder

LEMMA RecordVersionKeepsOrder ==
  ASSUME TransactionsInOrder, NEW w \in Workers, RecordVersion(w)
  PROVE  TransactionsInOrder'
<1>1. pc[w] = "versioning" /\ pc[w] \in Working /\ pc[w] \in InTxn
  BY DEF RecordVersion, Working, InTxn
<1>2. /\ local[w] \in Local
      /\ local[w].snap \in Snapshot
      /\ WorkAt("versioning", local[w], Src(w))
  BY <1>1, InTransaction
<1>3. CASE Raise(w, "IntegrityError")
  BY <1>1, <1>3, RaiseKeepsOrder DEF ErrorTypes
<1>4. CASE /\ ~VersionCollides(local[w].txn, local[w].snap)
           /\ local' = [local EXCEPT
                ![w].txn = UpsertVersion(local[w].txn, local[w].snap),
                ![w].todo = Present(local[w].found)]
           /\ GoTo(w, "artifacts")
           /\ UNCHANGED <<db, runs, lock, call>>
  <2> DEFINE txn == UpsertVersion(local[w].txn, local[w].snap)
             l   == [local[w] EXCEPT !.txn = txn, !.todo = Present(local[w].found)]
  <2>1. OpenRuns'
    BY <1>2, RecordVersionKeepsOpenRuns DEF TransactionsInOrder
  <2>2. WorkAt("artifacts", l, Src(w))
    BY <1>2, <1>4, WorkVersioned
  <2>3. local' = [local EXCEPT ![w] = l]
    BY <1>4
  <2>4. l.run = local[w].run
    <3> HIDE DEF txn
    <3> QED BY <1>2 DEF Local
  <2> HIDE DEF l, txn
  <2>5. pc' = [pc EXCEPT ![w] = "artifacts"] /\ "artifacts" \in InTxn
    BY <1>4 DEF GoTo, InTxn
  <2> QED BY <1>1, <1>4, <2>1, <2>2, <2>3, <2>4, <2>5, WorkKeepsOrder
<1> QED BY <1>3, <1>4 DEF RecordVersion

LEMMA RecordArtifactKeepsOrder ==
  ASSUME TransactionsInOrder, NEW w \in Workers, RecordArtifact(w)
  PROVE  TransactionsInOrder'
<1>1. PICK p \in local[w].todo :
        local' = [local EXCEPT
          ![w].txn = UpsertArtifact(local[w].txn, local[w].snap.label, p,
                                    local[w].found[p], IsGit(Src(w))),
          ![w].todo = local[w].todo \ {p}]
  BY DEF RecordArtifact
<1> DEFINE git == IsGit(Src(w))
           txn == UpsertArtifact(local[w].txn, local[w].snap.label, p,
                                 local[w].found[p], git)
           l   == [local[w] EXCEPT !.txn = txn, !.todo = local[w].todo \ {p}]
<1>2. local' = [local EXCEPT ![w] = l]
  BY <1>1
<1>3. git \in BOOLEAN
  BY DEF IsGit
<1> HIDE DEF git
<1>4. /\ pc[w] = "artifacts"
      /\ pc' = [pc EXCEPT ![w] = "artifacts"]
      /\ UNCHANGED <<db, runs, lock>>
  BY DEF RecordArtifact, TransactionsInOrder, OpenRuns, TypeOK
<1>5. "artifacts" \in InTxn
  BY DEF InTxn
<1>6. /\ local[w] \in Local
      /\ local[w].snap \in Snapshot
      /\ WorkAt("artifacts", local[w], Src(w))
  BY <1>4, <1>5, InTransaction
<1>7. OpenRuns'
  BY <1>6, RecordArtifactKeepsOpenRuns DEF TransactionsInOrder
<1>8. WorkAt("artifacts", l, Src(w))
  BY <1>3, <1>6, WorkRecorded
<1>9. l.run = local[w].run
  <2> HIDE DEF txn
  <2> QED BY <1>6 DEF Local
<1> HIDE DEF l
<1> QED BY <1>2, <1>4, <1>5, <1>7, <1>8, <1>9, WorkKeepsOrder

LEMMA RetireArtifactsKeepsOrder ==
  ASSUME TransactionsInOrder, NEW w \in Workers, RetireArtifacts(w)
  PROVE  TransactionsInOrder'
<1> DEFINE keys    == CurrentKeys(local[w].plan)
           txn     == RetireAbsent(local[w].txn, keys)
           retired == StaleMembers(local[w].txn, keys)
           l       == [local[w] EXCEPT !.txn = txn, !.retired = retired]
<1>1. OpenRuns'
  BY RetireArtifactsKeepsOpenRuns DEF TransactionsInOrder
<1>2. /\ pc[w] = "artifacts"
      /\ local[w].todo = {}
      /\ pc' = [pc EXCEPT ![w] = "changes"]
      /\ local' = [local EXCEPT ![w] = l]
      /\ UNCHANGED <<db, runs, lock>>
  BY DEF RetireArtifacts, GoTo
<1>3. {"artifacts", "changes"} \subseteq InTxn
  BY DEF InTxn
<1>4. local[w] \in Local /\ WorkAt("artifacts", local[w], Src(w))
  BY <1>2, <1>3, InTransaction
<1> HIDE DEF retired
<1>5. WorkAt("changes", l, Src(w))
  BY <1>2, <1>4, WorkRetired
<1>6. l.run = local[w].run
  <2> HIDE DEF txn
  <2> QED BY <1>4 DEF Local
<1> HIDE DEF l
<1> QED BY <1>1, <1>2, <1>3, <1>5, <1>6, WorkKeepsOrder

LEMMA RecordChangesKeepsOrder ==
  ASSUME TransactionsInOrder, NEW w \in Workers, RecordChanges(w)
  PROVE  TransactionsInOrder'
<1> DEFINE txn == UpsertChanges(local[w].txn, local[w].snap)
           l   == [local[w] EXCEPT !.txn = txn]
<1>1. /\ pc[w] = "changes"
      /\ pc' = [pc EXCEPT ![w] = "finishing"]
      /\ local' = [local EXCEPT ![w] = l]
      /\ UNCHANGED <<db, runs, lock>>
  BY DEF RecordChanges, GoTo
<1>2. {"changes", "finishing"} \subseteq InTxn
  BY DEF InTxn
<1>3. /\ local[w] \in Local
      /\ local[w].snap \in Snapshot
      /\ WorkAt("changes", local[w], Src(w))
  BY <1>1, <1>2, InTransaction
<1>4. OpenRuns'
  BY <1>3, RecordChangesKeepsOpenRuns DEF TransactionsInOrder
<1>5. WorkAt("finishing", l, Src(w))
  BY <1>3, WorkChanged
<1>6. l.run = local[w].run
  <2> HIDE DEF txn
  <2> QED BY <1>3 DEF Local
<1> HIDE DEF l
<1> QED BY <1>1, <1>2, <1>4, <1>5, <1>6, WorkKeepsOrder

LEMMA CompleteKeepsOrder ==
  ASSUME TransactionsInOrder, NEW w \in Workers, Complete(w)
  PROVE  TransactionsInOrder'
<1>1. pc[w] = "finishing" /\ pc[w] \in InTxn
  BY DEF Complete, InTxn
<1>2. /\ HasRun(w)
      /\ Src(w) \in Sources
      /\ local[w] \in Local
      /\ local[w].snap \in Snapshot
      /\ WorkAt("finishing", local[w], Src(w))
  BY <1>1, InTransaction
<1>3. OpenRuns'
  BY <1>2, CompleteKeepsOpenRuns DEF TransactionsInOrder
<1>4. /\ db' = [db EXCEPT ![Src(w)] = local[w].txn]
      /\ lock' = Released(w)
      /\ pc' = [pc EXCEPT ![w] = "choosing"]
      /\ local' = [local EXCEPT ![w] = NoLocal]
  BY DEF Complete, Report, GoTo
<1>5. RowsAgree(local[w].txn) /\ OneSnapshotRows(local[w].txn)
  BY <1>2, WorkDone
<1>6. \A s \in Sources :
        db'[s] = db[s] \/ (RowsAgree(db'[s]) /\ OneSnapshotRows(db'[s]))
  BY <1>4, <1>5 DEF TransactionsInOrder, OpenRuns, TypeOK
<1>7. \A r \in RunIds : runs'[r] = runs[r] \/ (HasRun(w) /\ r = local[w].run)
  BY <1>2 DEF Complete, TransactionsInOrder, OpenRuns, TypeOK
<1>8. WorkAt("choosing", NoLocal, runs'[NoLocal.run].source)
  BY NoWorkYet, PlacesDiffer
<1>9. OrderlyStep(w, "choosing", NoLocal, db', runs', lock')
  BY <1>4, <1>6, <1>7, <1>8, PlacesDiffer DEF OrderlyStep
<1> QED BY <1>3, <1>4, <1>9, OrderlyStepKeeps
-----------------------------------------------------------------------------
(* Every step, and the theorems. *)

LEMMA TransactionsInOrderInit == Init => TransactionsInOrder
<1> SUFFICES ASSUME Init PROVE TransactionsInOrder
  OBVIOUS
<1>1. OpenRuns
  BY OpenRunsInit
<1>2. LockHeld
  BY RunsAssumption DEF Init, LockHeld, InTxn
<1>3. WorkInHand
  BY NoWorkYet, PlacesDiffer DEF Init, WorkInHand
<1>4. CatalogAgrees /\ OneSnapshotPerSource
  BY NoRowsAgree DEF Init, CatalogAgrees, OneSnapshotPerSource
<1> QED BY <1>1, <1>2, <1>3, <1>4 DEF TransactionsInOrder

LEMMA TransactionsInOrderStep == TransactionsInOrder /\ [Next]_vars => TransactionsInOrder'
<1> SUFFICES ASSUME TransactionsInOrder, [Next]_vars PROVE TransactionsInOrder'
  OBVIOUS
<1>0. OpenRuns /\ TypeOK
  BY DEF TransactionsInOrder, OpenRuns
<1>1. ASSUME NEW w \in Workers, Invoke(w) PROVE TransactionsInOrder'
  <2>1. /\ pc' = [pc EXCEPT ![w] = "choosing"]
        /\ local' = [local EXCEPT ![w] = local[w]]
        /\ pc[w] \notin InTxn
        /\ UNCHANGED <<db, runs, lock>>
    BY <1>0, <1>1 DEF Invoke, GoTo, TypeOK, InTxn
  <2>2. OpenRuns'
    BY <1>0, <1>1, InvokeKeepsOpenRuns
  <2> QED BY <2>1, <2>2, OutsideKeepsOrder
<1>2. ASSUME NEW w \in Workers, StartRun(w) PROVE TransactionsInOrder'
  <2>1. PICK s \in Sources, r \in RunIds :
          /\ runs[r].status = "none"
          /\ runs' = [runs EXCEPT ![r] = [NoRun EXCEPT !.source = s,
                                                       !.status = "started"]]
          /\ local' = [local EXCEPT ![w] = [NoLocal EXCEPT !.run = r]]
    BY <1>2 DEF StartRun
  <2>2. /\ pc[w] \notin InTxn
        /\ pc' = [pc EXCEPT ![w] = "started"]
        /\ UNCHANGED <<db, lock>>
    BY <1>2 DEF StartRun, GoTo, InTxn
  <2>3. \A q \in RunIds : \/ runs'[q] = runs[q]
                          \/ (HasRun(w) /\ q = local[w].run)
                          \/ runs[q].status = "none"
    BY <1>0, <2>1 DEF TypeOK
  <2>4. OpenRuns'
    BY <1>0, <1>2, StartRunKeepsOpenRuns
  <2> DEFINE l == [NoLocal EXCEPT !.run = r]
  <2> HIDE DEF l
  <2>5. local' = [local EXCEPT ![w] = l]
    BY <2>1 DEF l
  <2> QED BY <2>2, <2>3, <2>4, <2>5, OutsideKeepsOrder
<1>3. ASSUME NEW w \in Workers, Exit(w), UNCHANGED <<db, runs>>,
             lock' = Released(w) \/ (pc[w] \notin InTxn /\ lock' = lock)
      PROVE  TransactionsInOrder'
  <2>1. /\ pc' = [pc EXCEPT ![w] = "idle"]
        /\ local' = [local EXCEPT ![w] = NoLocal]
    BY <1>3 DEF Exit, GoTo
  <2>2. /\ lock' \in [Sources -> Workers \cup {None}]
        /\ runs' \in [RunIds -> RunRow]
    BY <1>0, <1>3, ReleasedTyped DEF TypeOK
  <2>3. OpenRuns'
    BY <1>0, <1>3, <2>2, ExitKeepsOpenRuns
  <2> QED BY <1>3, <2>1, <2>3, OutsideKeepsOrder
<1>4. ASSUME NEW w \in Workers, RefuseProfile(w) \/ Return(w)
      PROVE  TransactionsInOrder'
  <2>1. /\ Exit(w)
        /\ UNCHANGED <<db, runs, lock>>
        /\ pc[w] \notin InTxn
    BY <1>4 DEF RefuseProfile, Return, InTxn
  <2> QED BY <1>3, <2>1
<1>5. ASSUME NEW w \in Workers, Crash(w) PROVE TransactionsInOrder'
  BY <1>3, <1>5 DEF Crash
<1>6. ASSUME NEW w \in Workers, CompleteDryRun(w) PROVE TransactionsInOrder'
  <2>1. /\ pc[w] \notin InTxn
        /\ HasRun(w)
        /\ CommitStatus(w, "completed")
        /\ pc' = [pc EXCEPT ![w] = "choosing"]
        /\ local' = [local EXCEPT ![w] = NoLocal]
        /\ UNCHANGED <<db, lock>>
    BY <1>6 DEF CompleteDryRun, Report, GoTo, HasRun, Working, BeforeTxn, InTxn
  <2>2. \A r \in RunIds \ {local[w].run} : runs'[r] = runs[r]
    BY <1>0, <2>1, CommitStatusWrites DEF TerminalStatus
  <2>3. OpenRuns'
    BY <1>0, <1>6, DryRunKeepsOpenRuns
  <2> QED BY <2>1, <2>2, <2>3, OutsideKeepsOrder
<1>7. ASSUME NEW w \in Workers, RejectType(w) PROVE TransactionsInOrder'
  <2>1. pc[w] \in Working
    BY <1>7 DEF RejectType, Working, BeforeTxn
  <2> QED BY <1>7, <2>1, RaiseKeepsOrder DEF RejectType, ErrorTypes
<1>8. ASSUME NEW w \in Workers, BeginFetch(w) PROVE TransactionsInOrder'
  <2>1. /\ pc[w] \notin InTxn
        /\ HasRun(w)
        /\ CommitStatus(w, "fetching")
        /\ pc' = [pc EXCEPT ![w] = "fetching"]
        /\ local' = [local EXCEPT ![w] = local[w]]
        /\ UNCHANGED <<db, lock>>
    BY <1>0, <1>8
       DEF BeginFetch, GoTo, HasRun, Working, BeforeTxn, InTxn, TypeOK
  <2>2. \A r \in RunIds \ {local[w].run} : runs'[r] = runs[r]
    BY <1>0, <2>1, CommitStatusWrites DEF ActiveStatus
  <2>3. OpenRuns'
    BY <1>0, <1>8, BeginFetchKeepsOpenRuns
  <2> QED BY <2>1, <2>2, <2>3, OutsideKeepsOrder
<1>9. ASSUME NEW w \in Workers, RecordFailure(w) PROVE TransactionsInOrder'
  <2>1. /\ pc[w] \notin InTxn
        /\ HasRun(w)
        /\ \A r \in RunIds : r # local[w].run => runs'[r] = runs[r]
        /\ pc' = [pc EXCEPT ![w] = "idle"]
        /\ local' = [local EXCEPT ![w] = NoLocal]
        /\ UNCHANGED <<db, lock>>
    BY <1>0, <1>9 DEF RecordFailure, Exit, GoTo, HasRun, InTxn, TypeOK
  <2>2. OpenRuns'
    BY <1>0, <1>9, RecordFailureKeepsOpenRuns
  <2> QED BY <2>1, <2>2, OutsideKeepsOrder
<1>10. ASSUME NEW w \in Workers, Fail(w) PROVE TransactionsInOrder'
  BY <1>10, RaiseKeepsOrder DEF Fail, ErrorTypes
<1>11. ASSUME NEW w \in Workers, Step(w) PROVE TransactionsInOrder'
  BY <1>2, <1>4, <1>6, <1>7, <1>8, <1>9, <1>11, FetchKeepsOrder,
     DiscoverKeepsOrder, LockSourceKeepsOrder, PlanRunKeepsOrder,
     RecordVersionKeepsOrder, RecordArtifactKeepsOrder,
     RetireArtifactsKeepsOrder, RecordChangesKeepsOrder, CompleteKeepsOrder
     DEF Step
<1>12. CASE UNCHANGED vars
  <2>1. OpenRuns'
    BY <1>12, <1>0 DEF vars, OpenRuns, TypeOK, RunInHand, RunsApart, HasRun,
       Src, RunOf
  <2>2. LockHeld' /\ WorkInHand'
    BY <1>12 DEF vars, TransactionsInOrder, LockHeld, WorkInHand, Src, RunOf
  <2>3. CatalogAgrees' /\ OneSnapshotPerSource'
    BY <1>12 DEF vars, TransactionsInOrder, CatalogAgrees, OneSnapshotPerSource
  <2> QED BY <2>1, <2>2, <2>3 DEF TransactionsInOrder
<1> QED BY <1>1, <1>5, <1>10, <1>11, <1>12 DEF Next, Finished

(* Every process works on a run row of its own, holds the lock of the      *)
(* source whose rows it rewrites, and has them as far towards its snapshot *)
(* as its place in run_ingestion says.                                     *)
THEOREM TransactionsStayInOrder == Spec => []TransactionsInOrder
<1> QED BY TransactionsInOrderInit, TransactionsInOrderStep, PTL DEF Spec

(* All state stays within the columns and fields of its tables.            *)
THEOREM TypeCorrect == Spec => []TypeOK
<1>1. TransactionsInOrder => TypeOK
  BY DEF TransactionsInOrder, OpenRuns
<1> QED BY <1>1, TransactionsStayInOrder, PTL

(* However runs of the same source interleave, fail and are killed, the    *)
(* committed rows of each source agree with each other.                    *)
THEOREM CatalogAlwaysAgrees == Spec => []CatalogAgrees
<1>1. TransactionsInOrder => CatalogAgrees
  BY DEF TransactionsInOrder
<1> QED BY <1>1, TransactionsStayInOrder, PTL

(* The live artifacts of a source never mix two source versions.           *)
THEOREM SnapshotsNeverMix == Spec => []OneSnapshotPerSource
<1>1. TransactionsInOrder => OneSnapshotPerSource
  BY DEF TransactionsInOrder
<1> QED BY <1>1, TransactionsStayInOrder, PTL

(* Two processes never rewrite the rows of one source at the same time.    *)
THEOREM WritersExclude == Spec => []WritersExcluded
<1>1. TransactionsInOrder => WritersExcluded
  <2> SUFFICES ASSUME TransactionsInOrder, NEW v \in Workers, NEW w \in Workers,
                      pc[v] \in InTxn, pc[w] \in InTxn, v # w, Src(v) = Src(w)
               PROVE  FALSE
    BY DEF WritersExcluded
  <2>1. Src(v) \in Sources
    BY InTransaction
  <2>2. lock[Src(v)] = v /\ lock[Src(v)] = w
    BY <2>1 DEF TransactionsInOrder, LockHeld
  <2> QED BY <2>2
<1> QED BY <1>1, TransactionsStayInOrder, PTL
-----------------------------------------------------------------------------
(* Ingestion implements SnapshotPublication. *)

LEMMA PublicationInit == Init => Publication!Init
<1> SUFFICES ASSUME Init PROVE Publication!Init
  OBVIOUS
<1>1. [s \in Sources |-> View(db[s])] = [s \in Sources |-> [p \in Paths |-> None]]
  BY NoRowsAgree DEF Init
<1>2. [r \in RunIds |-> runs[r].source] = [r \in RunIds |-> None]
  BY DEF Init, NoRun
<1>3. [r \in RunIds |-> Outcome(r)] = [r \in RunIds |-> "none"]
  BY DEF Init, NoRun, Outcome, ActiveStatus
<1> QED BY <1>1, <1>2, <1>3 DEF Publication!Init
(* A step that writes one run row changes the outcome of that run alone.   *)
LEMMA OneOutcomeChanges ==
  ASSUME NEW r \in RunIds, \A q \in RunIds \ {r} : runs'[q] = runs[q]
  PROVE  /\ [q \in RunIds |-> Outcome(q)]' =
              [[q \in RunIds |-> Outcome(q)] EXCEPT ![r] = Outcome(r)']
         /\ [q \in RunIds |-> runs[q].source]' =
              [[q \in RunIds |-> runs[q].source] EXCEPT ![r] = runs'[r].source]
  BY DEF Outcome

(* An open run closes, and readers see what they saw.                      *)
LEMMA CloseUnseen ==
  ASSUME NEW r \in RunIds, \A q \in RunIds \ {r} : runs'[q] = runs[q],
         runs[r].status \in ActiveStatus, runs'[r].source = runs[r].source,
         UNCHANGED db, runs'[r].status \in TerminalStatus
  PROVE  Publication!Next
<1>1. /\ [q \in RunIds |-> Outcome(q)]' =
           [[q \in RunIds |-> Outcome(q)] EXCEPT ![r] = runs'[r].status]
      /\ [q \in RunIds |-> runs[q].source]' = [q \in RunIds |-> runs[q].source]
  BY OneOutcomeChanges DEF Outcome, ActiveStatus, TerminalStatus
<1>2. [q \in RunIds |-> Outcome(q)][r] = "open"
  BY DEF Outcome
<1>3. [s \in Sources |-> View(db[s])]' = [s \in Sources |-> View(db[s])]
  OBVIOUS
<1>4. CASE runs'[r].status = "completed"
  <2>1. Publication!CompleteDry(r)
    BY <1>1, <1>2, <1>3, <1>4 DEF Publication!CompleteDry, Publication!Close
  <2> QED BY <2>1 DEF Publication!Next
<1>5. CASE runs'[r].status = "failed"
  <2>1. Publication!Fail(r)
    BY <1>1, <1>2, <1>3, <1>5 DEF Publication!Fail, Publication!Close
  <2> QED BY <2>1 DEF Publication!Next
<1> QED BY <1>4, <1>5 DEF TerminalStatus

LEMMA StartRunOpens ==
  ASSUME OpenRuns, NEW w \in Workers, StartRun(w)
  PROVE  Publication!Next
<1>1. PICK s \in Sources, r \in RunIds :
        /\ runs[r].status = "none"
        /\ runs' = [runs EXCEPT ![r] = [NoRun EXCEPT !.source = s,
                                                     !.status = "started"]]
  BY DEF StartRun
<1> DEFINE row == [NoRun EXCEPT !.source = s, !.status = "started"]
<1>2. row.source = s /\ row.status = "started"
  BY NoRunTyped DEF RunRow
<1> HIDE DEF row
<1>3. runs'[r] = row /\ \A q \in RunIds \ {r} : runs'[q] = runs[q]
  BY <1>1 DEF row, OpenRuns, TypeOK
<1>4. /\ [q \in RunIds |-> Outcome(q)]' =
           [[q \in RunIds |-> Outcome(q)] EXCEPT ![r] = "open"]
      /\ [q \in RunIds |-> runs[q].source]' =
           [[q \in RunIds |-> runs[q].source] EXCEPT ![r] = s]
  BY <1>2, <1>3, OneOutcomeChanges DEF Outcome, ActiveStatus
<1>5. [q \in RunIds |-> Outcome(q)][r] = "none"
  BY <1>1 DEF Outcome, ActiveStatus
<1>6. [q \in Sources |-> View(db[q])]' = [q \in Sources |-> View(db[q])]
  BY DEF StartRun
<1>7. Publication!Open(r, s)
  BY <1>4, <1>5, <1>6 DEF Publication!Open
<1> QED BY <1>7 DEF Publication!Next

LEMMA CompletePublishes ==
  ASSUME TransactionsInOrder, NEW w \in Workers, Complete(w)
  PROVE  Publication!Next
<1> DEFINE r       == local[w].run
           content == [p \in Paths |-> local[w].found[p].sum]
           row     == [RunOf(w) EXCEPT !.status = "completed",
                                       !.version = local[w].snap.label,
                                       !.plan = local[w].plan,
                                       !.retired = local[w].retired]
<1>1. pc[w] = "finishing" /\ pc[w] \in InTxn
  BY DEF Complete, InTxn
<1>2. /\ Src(w) \in Sources
      /\ local[w] \in Local
      /\ local[w].snap \in Snapshot
      /\ WorkAt("finishing", local[w], Src(w))
  BY <1>1, InTransaction
<1>3. r \in RunIds /\ RunOf(w).status \in ActiveStatus /\ RunOf(w) \in RunRow
  BY <1>1 DEF TransactionsInOrder, OpenRuns, TypeOK, RunInHand, HasRun, Working,
     StatusAt, ActiveStatus, RunOf
<1>4. row.source = Src(w) /\ row.status = "completed"
  BY <1>3 DEF RunRow, Src
<1> HIDE DEF row
<1>5. runs'[r] = row /\ \A q \in RunIds \ {r} : runs'[q] = runs[q]
  BY <1>3 DEF row, Complete, TransactionsInOrder, OpenRuns, TypeOK
<1>6. View(local[w].txn) = content
  BY <1>2, WorkDone
<1>7. content \in OfferedBy(Src(w))
  BY <1>2 DEF WorkAt, InTxn, OfferedBy
<1>8. [s \in Sources |-> View(db[s])]' =
        [[s \in Sources |-> View(db[s])] EXCEPT ![Src(w)] = content]
  <2> HIDE DEF content
  <2> QED BY <1>2, <1>6 DEF Complete, TransactionsInOrder, OpenRuns, TypeOK
<1> HIDE DEF content
<1>9. /\ [q \in RunIds |-> Outcome(q)]' =
           [[q \in RunIds |-> Outcome(q)] EXCEPT ![r] = "completed"]
      /\ [q \in RunIds |-> runs[q].source]' = [q \in RunIds |-> runs[q].source]
  BY <1>3, <1>4, <1>5, OneOutcomeChanges DEF Outcome, ActiveStatus, Src, RunOf
<1>10. /\ [q \in RunIds |-> Outcome(q)][r] = "open"
       /\ [q \in RunIds |-> runs[q].source][r] = Src(w)
       /\ [s \in Sources |-> OfferedBy(s)][Src(w)] = OfferedBy(Src(w))
  BY <1>2, <1>3 DEF Outcome, Src, RunOf
<1>11. Publication!Publish(r)
  BY <1>7, <1>8, <1>9, <1>10 DEF Publication!Publish, Publication!Close
<1> QED BY <1>3, <1>11 DEF Publication!Next

LEMMA PublicationStep ==
  TransactionsInOrder /\ [Next]_vars => [Publication!Next]_(Publication!vars)
<1> SUFFICES ASSUME TransactionsInOrder, [Next]_vars
             PROVE  [Publication!Next]_(Publication!vars)
  OBVIOUS
<1>0. OpenRuns /\ TypeOK
  BY DEF TransactionsInOrder, OpenRuns
<1>1. ASSUME UNCHANGED <<db, runs>> PROVE UNCHANGED Publication!vars
  BY <1>1 DEF Publication!vars, Outcome
<1>2. ASSUME NEW w \in Workers, Raise(w, "OtherError") \/ Raise(w, "GitCommandError")
                                \/ Raise(w, "IntegrityError")
                                \/ Raise(w, "IngestionStageNotImplementedError")
      PROVE  UNCHANGED <<db, runs>>
  BY <1>2 DEF Raise
<1>3. ASSUME NEW w \in Workers, CommitStatus(w, "fetching") \/ CommitStatus(w, "discovering"),
             HasRun(w), pc[w] \in {"started", "fetching"}, UNCHANGED db
      PROVE  UNCHANGED Publication!vars
  <2> DEFINE r == local[w].run
  <2>1. r \in RunIds /\ runs[r].status \in ActiveStatus
    BY <1>0, <1>3, StatusAtPlaces
       DEF OpenRuns, RunInHand, RunOf, ActiveStatus
  <2>2. /\ runs'[r].source = runs[r].source
        /\ runs'[r].status \in ActiveStatus
        /\ \A q \in RunIds \ {r} : runs'[q] = runs[q]
    BY <1>0, <1>3, CommitStatusWrites DEF ActiveStatus, Src, RunOf
  <2>3. \A q \in RunIds : Outcome(q)' = Outcome(q) /\ runs'[q].source = runs[q].source
    BY <2>1, <2>2 DEF Outcome
  <2> QED BY <1>3, <2>3 DEF Publication!vars
<1>4. ASSUME NEW w \in Workers, CompleteDryRun(w) PROVE Publication!Next
  <2> DEFINE r == local[w].run
  <2>1. /\ HasRun(w) /\ pc[w] = "started"
        /\ CommitStatus(w, "completed") /\ UNCHANGED db
    BY <1>4 DEF CompleteDryRun, HasRun, Working, BeforeTxn
  <2>2. r \in RunIds /\ runs[r].status \in ActiveStatus
    BY <1>0, <2>1, StatusAtPlaces DEF OpenRuns, RunInHand, RunOf, ActiveStatus
  <2>3. /\ runs'[r].source = runs[r].source
        /\ runs'[r].status \in TerminalStatus
        /\ \A q \in RunIds \ {r} : runs'[q] = runs[q]
    BY <1>0, <2>1, CommitStatusWrites DEF TerminalStatus, Src, RunOf
  <2> HIDE DEF r
  <2> QED BY <2>1, <2>2, <2>3, CloseUnseen
<1>5. ASSUME NEW w \in Workers, RecordFailure(w) PROVE Publication!Next
  <2> DEFINE r   == local[w].run
             row == [RunOf(w) EXCEPT !.status = "failed",
                                     !.stage = RunOf(w).status,
                                     !.error = local[w].error]
  <2>1. /\ r \in RunIds
        /\ runs[r].status \in ActiveStatus
        /\ RunOf(w) \in RunRow
    BY <1>0, <1>5 DEF RecordFailure, HasRun, OpenRuns, TypeOK, RunInHand, RunOf,
       StatusAt, InTxn
  <2>2. row.source = runs[r].source /\ row.status = "failed"
    BY <2>1 DEF RunRow, RunOf
  <2> HIDE DEF row
  <2>3. /\ runs'[r] = row
        /\ \A q \in RunIds \ {r} : runs'[q] = runs[q]
        /\ UNCHANGED db
    BY <1>0, <1>5, <2>1 DEF RecordFailure, TypeOK, row
  <2> HIDE DEF r
  <2> QED BY <2>1, <2>2, <2>3, CloseUnseen DEF TerminalStatus
<1>6. ASSUME NEW w \in Workers, BeginFetch(w) \/ Fetch(w)
      PROVE  UNCHANGED Publication!vars
  BY <1>3, <1>6 DEF BeginFetch, Fetch, HasRun, Working, BeforeTxn
<1>7. ASSUME NEW w \in Workers,
             \/ Invoke(w) \/ RefuseProfile(w) \/ Return(w) \/ RejectType(w)
             \/ Discover(w) \/ LockSource(w) \/ PlanRun(w) \/ RecordVersion(w)
             \/ RecordArtifact(w) \/ RetireArtifacts(w) \/ RecordChanges(w)
             \/ Fail(w) \/ Crash(w)
      PROVE  UNCHANGED Publication!vars
  <2>1. UNCHANGED <<db, runs>>
    BY <1>2, <1>7 DEF Invoke, RefuseProfile, Return, RejectType, Discover,
       LockSource, PlanRun, RecordVersion, RecordArtifact, RetireArtifacts,
       RecordChanges, Fail, Crash
  <2> QED BY <1>1, <2>1
<1>8. CASE UNCHANGED vars
  BY <1>1, <1>8 DEF vars
<1> QED BY <1>0, <1>4, <1>5, <1>6, <1>7, <1>8, StartRunOpens, CompletePublishes
        DEF Next, Step, Finished

(* Readers of the catalogue see every source change only by whole offered  *)
(* snapshots, each published by the completion of one of its runs.         *)
THEOREM IngestionPublishesAtomically == Spec => PublishesAtomically
<1> QED BY PublicationInit, PublicationStep, TransactionsStayInOrder, PTL
        DEF Spec, PublishesAtomically, Publication!Spec
-----------------------------------------------------------------------------
(* Run rows only move forward. *)

LEMMA RunsMoveForwardStep ==
  TransactionsInOrder /\ [Next]_vars => [RunsMoveForward]_runs
<1> SUFFICES ASSUME TransactionsInOrder, [Next]_vars PROVE [RunsMoveForward]_runs
  OBVIOUS
<1>0. OpenRuns /\ TypeOK
  BY DEF TransactionsInOrder, OpenRuns
<1>1. ASSUME NEW r \in RunIds, \A q \in RunIds \ {r} : runs'[q] = runs[q],
             <<runs[r].status, runs'[r].status>> \in StatusOrder,
             runs'[r].status = "failed" => runs'[r].stage = runs[r].status
      PROVE  RunsMoveForward
  BY <1>1 DEF RunsMoveForward
<1>2. ASSUME NEW w \in Workers, StartRun(w) PROVE RunsMoveForward
  <2>1. PICK s \in Sources, r \in RunIds :
          /\ runs[r].status = "none"
          /\ runs' = [runs EXCEPT ![r] = [NoRun EXCEPT !.source = s,
                                                       !.status = "started"]]
    BY <1>2 DEF StartRun
  <2> DEFINE row == [NoRun EXCEPT !.source = s, !.status = "started"]
  <2>2. row.status = "started"
    BY NoRunTyped DEF RunRow
  <2> HIDE DEF row
  <2>3. runs'[r] = row /\ \A q \in RunIds \ {r} : runs'[q] = runs[q]
    BY <1>0, <2>1 DEF TypeOK, row
  <2> QED BY <1>1, <2>1, <2>2, <2>3 DEF StatusOrder
<1>3. ASSUME NEW w \in Workers, HasRun(w),
             NEW status \in ActiveStatus \cup TerminalStatus,
             CommitStatus(w, status), status # "failed",
             <<RunOf(w).status, status>> \in StatusOrder
      PROVE  RunsMoveForward
  <2>1. local[w].run \in RunIds
    BY <1>0, <1>3 DEF OpenRuns, RunInHand
  <2>2. /\ runs'[local[w].run].status = status
        /\ \A q \in RunIds \ {local[w].run} : runs'[q] = runs[q]
    BY <1>0, <1>3, CommitStatusWrites
  <2> QED BY <1>1, <1>3, <2>1, <2>2 DEF RunOf
<1>4. ASSUME NEW w \in Workers, HasRun(w)
      PROVE  RunOf(w).status \in StatusAt(pc[w])
  BY <1>0, <1>4 DEF OpenRuns, RunInHand
<1>5. ASSUME NEW w \in Workers, CompleteDryRun(w) \/ BeginFetch(w)
      PROVE  RunsMoveForward
  <2>1. HasRun(w) /\ RunOf(w).status = "started"
    BY <1>4, <1>5, StatusAtPlaces
       DEF CompleteDryRun, BeginFetch, HasRun, Working, BeforeTxn
  <2> QED BY <1>3, <1>5, <2>1
          DEF CompleteDryRun, BeginFetch, StatusOrder, ActiveStatus,
              TerminalStatus
<1>6. ASSUME NEW w \in Workers, Fetch(w) PROVE RunsMoveForward
  <2>1. HasRun(w) /\ RunOf(w).status = "fetching"
    BY <1>4, <1>6, StatusAtPlaces DEF Fetch, HasRun, Working, BeforeTxn
  <2> QED BY <1>3, <1>6, <2>1 DEF Fetch, StatusOrder, ActiveStatus
<1>7. ASSUME NEW w \in Workers, HasRun(w), NEW row \in RunRow,
             runs' = [runs EXCEPT ![local[w].run] = row],
             <<RunOf(w).status, row.status>> \in StatusOrder,
             row.status = "failed" => row.stage = RunOf(w).status
      PROVE  RunsMoveForward
  <2>1. local[w].run \in RunIds
    BY <1>0, <1>7 DEF OpenRuns, RunInHand
  <2>2. /\ runs'[local[w].run] = row
        /\ \A q \in RunIds \ {local[w].run} : runs'[q] = runs[q]
    BY <1>0, <1>7, <2>1 DEF TypeOK
  <2> QED BY <1>1, <1>7, <2>1, <2>2 DEF RunOf
<1>8. ASSUME NEW w \in Workers, Complete(w) PROVE RunsMoveForward
  <2> DEFINE row == [RunOf(w) EXCEPT !.status = "completed",
                                     !.version = local[w].snap.label,
                                     !.plan = local[w].plan,
                                     !.retired = local[w].retired]
  <2>1. HasRun(w) /\ RunOf(w).status = "discovering"
    BY <1>4, <1>8, StatusAtPlaces DEF Complete, HasRun, Working, InTxn
  <2>2. row \in RunRow /\ row.status = "completed"
    <3>1. /\ RunOf(w) \in RunRow
          /\ local[w] \in Local
          /\ local[w].snap \in Snapshot
      BY <1>0, <1>8, <2>1, InTransaction
         DEF Complete, InTxn, OpenRuns, RunInHand, TypeOK, RunOf
    <3>2. /\ local[w].snap.label \in Labels
          /\ local[w].plan \in IncrementalPlan
          /\ local[w].retired \in SUBSET (Paths \X Labels)
      BY <3>1 DEF Snapshot, Local
    <3> QED BY <3>1, <3>2 DEF RunRow, TerminalStatus
  <2>3. runs' = [runs EXCEPT ![local[w].run] = row]
    BY <1>8 DEF Complete
  <2> HIDE DEF row
  <2> QED BY <1>7, <2>1, <2>2, <2>3 DEF StatusOrder
<1>9. ASSUME NEW w \in Workers, RecordFailure(w) PROVE RunsMoveForward
  <2> DEFINE row == [RunOf(w) EXCEPT !.status = "failed",
                                     !.stage = RunOf(w).status,
                                     !.error = local[w].error]
  <2>1. HasRun(w) /\ RunOf(w).status \in ActiveStatus
    BY <1>4, <1>9 DEF RecordFailure, HasRun, StatusAt, InTxn
  <2>2. row \in RunRow /\ row.status = "failed" /\ row.stage = RunOf(w).status
    <3>1. /\ RunOf(w) \in RunRow
          /\ local[w].error \in ErrorTypes \cup {None}
      BY <1>0, <2>1 DEF OpenRuns, RunInHand, TypeOK, RunOf, Local
    <3> QED BY <2>1, <3>1 DEF RunRow, TerminalStatus
  <2>3. runs' = [runs EXCEPT ![local[w].run] = row]
    BY <1>9 DEF RecordFailure
  <2> HIDE DEF row
  <2> QED BY <1>7, <2>1, <2>2, <2>3 DEF StatusOrder
<1>10. ASSUME NEW w \in Workers,
              \/ Invoke(w) \/ RefuseProfile(w) \/ Return(w) \/ RejectType(w)
              \/ Discover(w) \/ LockSource(w) \/ PlanRun(w) \/ RecordVersion(w)
              \/ RecordArtifact(w) \/ RetireArtifacts(w) \/ RecordChanges(w)
              \/ Fail(w) \/ Crash(w)
       PROVE  UNCHANGED runs
  BY <1>10 DEF Invoke, RefuseProfile, Return, RejectType, Discover, LockSource,
     PlanRun, RecordVersion, RecordArtifact, RetireArtifacts, RecordChanges,
     Fail, Crash, Raise
<1>11. CASE UNCHANGED vars
  BY <1>11 DEF vars
<1> QED BY <1>2, <1>5, <1>6, <1>8, <1>9, <1>10, <1>11 DEF Next, Step, Finished

(* Statuses follow the order of run_ingestion, a terminal run row is never *)
(* written again, and the stage of a failure is the status it interrupted. *)
THEOREM RunRowsMoveForward == Spec => RunLifecycle
<1> QED BY RunsMoveForwardStep, TransactionsStayInOrder, PTL
        DEF Spec, RunLifecycle
=============================================================================
