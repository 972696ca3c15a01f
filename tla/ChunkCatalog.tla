---------------------------- MODULE ChunkCatalog ----------------------------
(***************************************************************************)
(* The rows the chunk stage keeps for sanitized chunks: chunks,            *)
(* chunk_versions and citations, as ChunkRepository and CitationRepository *)
(* rewrite them.  A chunk's key is derived from its source, locator and    *)
(* content, so saving it again rewrites the same row; a citation's key is  *)
(* derived from the chunk's, so each chunk has one citation row.           *)
(*                                                                         *)
(* A caller saves a chunk (upsert_chunk, upsert_chunk_version and          *)
(* upsert_citation) and retires the chunks absent from a snapshot, and     *)
(* commits: other sessions see all of a call or nothing of it.             *)
(***************************************************************************)
EXTENDS Naturals

CONSTANTS
  Chunks,      \* chunk keys
  Hashes,      \* hashes of sanitized text
  Versions,    \* source version ids
  Sources,     \* sources
  SourceOf,    \* the source a chunk's key is derived from
  None,        \* SQL NULL, and "no row"
  Contents,    \* what a snapshot may say of each chunk: its version, if any,
               \* its text and whether its labels make it eligible
  MayRewrite,  \* may a key come back with another text?  The chunkers hash
               \* the text into the key and never do; the tables allow it
  MayRestore   \* may a chunk that was withdrawn be offered again?

ASSUME ChunkConstants ==
  /\ SourceOf \in [Chunks -> Sources]
  /\ None \notin Versions \cup Hashes
  /\ Contents \in [Chunks -> SUBSET
       [version: Versions \cup {None}, hash: Hashes, eligible: BOOLEAN]]
  /\ MayRewrite \in BOOLEAN /\ MayRestore \in BOOLEAN

VARIABLE chunk   \* the committed rows of every chunk key

Membership == {"none", "current", "former", "tombstoned"}

(* eligible: allowlisted, with text, redacted and of an allowed license.   *)
ChunkRow ==
  {row \in [known: BOOLEAN, hash: Hashes \cup {None}, eligible: BOOLEAN,
            version: Versions \cup {None}, member: [Versions -> Membership],
            cited: Versions \cup {None}] :
     row.eligible => row.hash # None}

NoChunk == [known |-> FALSE, hash |-> None, eligible |-> FALSE,
            version |-> None, member |-> [v \in Versions |-> "none"],
            cited |-> None]

ChunkTable == [Chunks -> ChunkRow]

-----------------------------------------------------------------------------
UpsertChunk(row, new) ==
  [row EXCEPT !.known = TRUE, !.hash = new.hash, !.eligible = new.eligible,
              !.version = new.version]

(* Every membership loses is_current, the one of the row's version gets it *)
(* (back); tombstones of other versions stay.                              *)
UpsertChunkVersion(row) ==
  IF row.version = None THEN row
  ELSE [row EXCEPT !.member =
          [v \in Versions |->
             IF v = row.version THEN "current"
             ELSE IF @[v] = "current" THEN "former" ELSE @[v]]]

UpsertCitation(row) == [row EXCEPT !.cited = row.version]

Saved(row, new) == UpsertCitation(UpsertChunkVersion(UpsertChunk(row, new)))

HasCurrent(row) == \E v \in Versions : row.member[v] = "current"

Offered(row) == row.eligible /\ row.version # None /\ HasCurrent(row)

StaleChunks(s, keys) ==
  {c \in Chunks : SourceOf[c] = s /\ HasCurrent(chunk[c]) /\ c \notin keys}

Retired(row) ==
  [row EXCEPT !.version = None,
              !.member = [v \in Versions |->
                 IF @[v] = "current" THEN "tombstoned" ELSE @[v]]]

-----------------------------------------------------------------------------
ChunkInit == chunk = [c \in Chunks |-> NoChunk]

(* A chunk of a snapshot is saved.                                         *)
Save(c, new) ==
  /\ ~MayRewrite => chunk[c].hash \in {new.hash, None}
  /\ ~MayRestore => \/ ~chunk[c].known
                    \/ Offered(chunk[c])
                    \/ ~Offered(Saved(chunk[c], new))
  /\ chunk' = [chunk EXCEPT ![c] = Saved(@, new)]

(* The chunks of a source that are not among keys leave it.                *)
RetireAbsent(s, keys) ==
  /\ StaleChunks(s, keys) # {}
  /\ chunk' = [c \in Chunks |->
       IF c \in StaleChunks(s, keys) THEN Retired(chunk[c]) ELSE chunk[c]]

SaveAny == \E c \in Chunks : \E new \in Contents[c] : Save(c, new)

RetireAny == \E s \in Sources, keys \in SUBSET Chunks : RetireAbsent(s, keys)

ChunkNext == SaveAny \/ RetireAny

ChunkSpec == ChunkInit /\ [][ChunkNext]_chunk
=============================================================================
