------------------------------- MODULE Chunking -------------------------------
(***************************************************************************)
(* From sanitized candidates to chunks: the settings of a profile, the     *)
(* windows of a text, which chunker takes a candidate and the key a chunk  *)
(* gets (chunking/base.py, pipeline.py and the three chunkers).            *)
(***************************************************************************)
EXTENDS Extraction, Redaction

CONSTANTS DefaultSize, DefaultOverlap   \* 1200 and 120 characters

ASSUME ChunkingConstants == DefaultSize \in Nat \ {0} /\ DefaultOverlap \in Nat

AtLeast(least, n) == IF n < least THEN least ELSE n
AtMost(most, n) == IF n > most THEN most ELSE n

(* An option that is not given is -1; one of 0 is taken for the default.   *)
OrDefault(option, default) == IF option \in {-1, 0} THEN default ELSE option

(* The first enabled tool that gives either option gives both.             *)
SettingsOf(profile) ==
  LET tools  == profile.tools
      giving == KeptAt(tools, {i \in DOMAIN tools :
                  tools[i].enabled /\ (tools[i].size # -1 \/ tools[i].overlap # -1)})
  IN  IF giving = <<>> THEN [size |-> DefaultSize, overlap |-> DefaultOverlap]
      ELSE [size |-> AtLeast(1, OrDefault(giving[1].size, DefaultSize)),
            overlap |-> AtLeast(0, OrDefault(giving[1].overlap, DefaultOverlap))]

-----------------------------------------------------------------------------
Strip(text) ==
  LET solid == {i \in DOMAIN text : text[i] # Space}
  IN  IF solid = {} THEN <<>> ELSE SubSeq(text, Min(solid), Max(solid))

Overlap(settings) == AtMost(settings.size - 1, settings.overlap)

(* A window begins where the one before it ends, less the overlap.         *)
Start(settings, i) == (i - 1) * (settings.size - Overlap(settings))

End(text, settings, i) == AtMost(Len(text), Start(settings, i) + settings.size)

(* The first window that reaches the end is the last.                      *)
WindowCount(text, settings) ==
  CHOOSE n \in 1..Len(text) :
    /\ End(text, settings, n) = Len(text)
    /\ \A i \in 1..(n - 1) : End(text, settings, i) < Len(text)

Window(text, settings, i) ==
  Strip(SubSeq(text, Start(settings, i) + 1, End(text, settings, i)))

(* A mutated form: the last window is left out.                            *)
WholeWindows(text, settings) ==
  [i \in 1..(WindowCount(text, settings) - 1) |-> Window(text, settings, i)]

Windows(text, settings) ==
  [i \in 1..WindowCount(text, settings) |-> Window(text, settings, i)]

SplitText(text, settings) ==
  IF Len(Strip(text)) <= settings.size THEN <<Strip(text)>>
  ELSE Windows(Strip(text), settings)

-----------------------------------------------------------------------------
(* _chunk_candidate: which chunker takes a candidate.                      *)
Chunker(candidate) ==
  IF candidate.type \in {"object", "array", "import"} THEN None
  ELSE IF \/ candidate.keys # <<>> \/ candidate.schema # <<>> \/ candidate.endpoint
          \/ candidate.type \in {"scalar", "endpoint", "schema", "schema_path"}
       THEN "structured"
  ELSE IF candidate.symbols # <<>> \/ candidate.type = "symbol" THEN "source_code"
  ELSE "document"

(* The structure a chunk's key is made of; a chunker that does not put the *)
(* locator in leaves it to the key itself.                                 *)
Structure(candidate) ==
  LET chunker == Chunker(candidate)
      names   == CASE chunker = "source_code" -> candidate.symbols
                   [] chunker = "structured" /\ candidate.endpoint -> candidate.keys
                   [] chunker = "structured" /\ candidate.schema # <<>> -> candidate.schema
                   [] chunker = "structured" -> candidate.keys
                   [] OTHER -> <<>>
  IN  [chunker |-> chunker, type |-> candidate.type, names |-> names,
       headings |-> IF chunker = "document" THEN candidate.headings ELSE <<>>]

(* stable_chunk_key, of one source: its hash of these.                     *)
ChunkKey(candidate, text, ordinal) ==
  [at |-> candidate.at, text |-> text, structure |-> Structure(candidate),
   ordinal |-> ordinal]

Chunk(clean, text, ordinal) ==
  [key |-> ChunkKey(clean.candidate, text, ordinal), text |-> text,
   headings |-> Structure(clean.candidate).headings,
   signature |-> clean.candidate.signature,
   sensitivity |-> clean.sensitivity, license |-> clean.license,
   licensed |-> clean.licensed, visibility |-> clean.visibility]

(* build_chunks_for_candidate: nothing of a blank text.                    *)
ChunksOf(clean, settings) ==
  LET parts == SplitText(clean.text, settings)
  IN  IF Chunker(clean.candidate) = None \/ Strip(clean.text) = <<>> THEN <<>>
      ELSE [i \in DOMAIN parts |-> Chunk(clean, parts[i], i)]

ChunkResult(cleaned, settings) ==
  FlattenSeq([i \in DOMAIN cleaned |-> ChunksOf(cleaned[i], settings)])
=============================================================================
