---------------------------- MODULE ContentSafety ----------------------------
(***************************************************************************)
(* What the content stages promise of the files they classify, the places  *)
(* they find, the texts they store and the rows they leave.                *)
(***************************************************************************)
EXTENDS ContentPipeline

Path(i) == decided.artifacts[i].path

(* One reason is enough for a file that is there for two.                  *)
OptedIn(a) ==
  LET name    == About[a.path]
      profile == ProfileNamed(a.profile)[1]
  IN  \/ name.generated /\ (source.generated \/ profile.generated)
      \/ name.vendored /\ (source.vendored \/ profile.vendored)
      \/ /\ source.reason /\ \E P \in source.exclude : a.path \in P
         /\ \E P \in source.override : a.path \in P

(* Every file of the snapshot is either kept once, in the order of the     *)
(* paths, or reported once as skipped, and what the fetcher skipped stays  *)
(* reported.  No file is kept that the source's globs leave out, but an    *)
(* excluded one that is overridden with a reason on record, and none that  *)
(* is generated or vendored, unless the source or its profile takes such   *)
(* files, or it is kept for that reason (classifier.py:49-216).            *)
EveryFileDecided ==
  stage = "extract" /\ saved = {} =>
    LET files == Snapshots[version].files
        told  == decided.skipped
        kept  == DOMAIN decided.artifacts
    IN  /\ Len(decided.artifacts) + Len(told)
             = Cardinality(DOMAIN files) + Len(Snapshots[version].skipped)
        /\ {Normal[f] : f \in DOMAIN files} \subseteq
             {Path(i) : i \in kept} \cup {told[i].locator : i \in DOMAIN told}
        /\ \A i \in DOMAIN Snapshots[version].skipped :
             Snapshots[version].skipped[i] \in ToSet(told)
        /\ \A i, j \in kept : i < j => About[Path(i)].order < About[Path(j)].order
        /\ \A i \in kept :
             /\ source.include = {} \/ \E P \in source.include : Path(i) \in P
             /\ (\E P \in source.exclude : Path(i) \in P) =>
                  source.reason /\ \E P \in source.override : Path(i) \in P
             /\ About[Path(i)].generated \/ About[Path(i)].vendored =>
                  OptedIn(decided.artifacts[i])

-----------------------------------------------------------------------------
(* A heading stands above a block if no heading between them, the block's  *)
(* own included, is of its level or a higher one.                          *)
StandsAbove(blocks, j, i) ==
  /\ blocks[j].kind = "heading"
  /\ \A k \in (j + 1)..i :
       blocks[k].kind = "heading" => blocks[k].level > blocks[j].level

TitlesAbove(blocks, i) ==
  LET above == KeptAt(blocks, {j \in 1..i : StandsAbove(blocks, j, i)})
  IN  [k \in DOMAIN above |-> above[k].text]

(* The longest runs of lines that are not blank.                           *)
Runs(lines) ==
  {run \in (DOMAIN lines) \X (DOMAIN lines) :
     /\ run[1] <= run[2]
     /\ \A i \in run[1]..run[2] : ~Blank(lines[i])
     /\ run[1] > 1 => Blank(lines[run[1] - 1])
     /\ run[2] < Len(lines) => Blank(lines[run[2] + 1])}

(* The names of the definitions around one, by their lines.                *)
NamesAround(defs, i) ==
  LET around == {j \in DOMAIN defs : /\ defs[j].line[1] <= defs[i].line[1]
                                     /\ defs[j].line[2] >= defs[i].line[2]}
      order  == InOrder(around, {p \in around \X around :
                                   defs[p[1]].line[1] < defs[p[2]].line[1]})
  IN  [k \in DOMAIN order |-> defs[order[k]].name]

(* The profiles on the way from a file's own along the fallbacks.          *)
Following(id) ==
  IF ProfileNamed(id) = <<>> THEN None ELSE ProfileNamed(id)[1].fallback

Way(artifact) ==
  LET way[n \in 0..Len(Profiles)] ==
        IF n = 0 THEN artifact.profile ELSE Following(way[n - 1])
  IN  way

(* What the tools of such a profile offer for the file.                    *)
Offers(artifact, id) ==
  LET found == ProfileNamed(id)
  IN  IF found = <<>> THEN <<>> ELSE Offering(found[1], artifact)

Tools(n, artifact) == Offers(artifact, Way(artifact)[n])

(* A file goes to the tool that fits it in the first profile on the way,   *)
(* however the profiles are linked, and to none if no profile has one.     *)
ToolRight(artifact) ==
  LET selected == SelectExtractor(artifact)
      steps    == 0..Len(Profiles)
  IN  \/ selected = None /\ \A n \in steps : Tools(n, artifact) = <<>>
      \/ \E n \in steps : /\ \A m \in 0..(n - 1) : Tools(m, artifact) = <<>>
                          /\ Tools(n, artifact) # <<>>
                          /\ selected = Tools(n, artifact)[1]

HeadingsRight(found, blocks) ==
  /\ DOMAIN found = DOMAIN blocks
  /\ \A i \in DOMAIN found : found[i].headings = TitlesAbove(blocks, i)

ParagraphsRight(found, lines) ==
  /\ {found[i].at.line : i \in DOMAIN found} = Runs(lines)
  /\ \A i, j \in DOMAIN found : i < j => found[i].at.line[2] < found[j].at.line[1]

SymbolsRight(found, defs) ==
  \A i \in DOMAIN found : found[i].type = "symbol" =>
    found[i].symbols = NamesAround(defs, i)

(* What a candidate says of its place is what the file holds there: the    *)
(* headings above a block, the lines of a paragraph (each one found), the  *)
(* names around a definition; and the file went to the right tool          *)
(* (registry.py:41-107, markdown.py:36-94, html.py:33-85, text.py:25-43,   *)
(* source_code.py:157-182).                                                *)
PlacesRight ==
  /\ stage = "extract" /\ todo # <<>> => ToolRight(Artifact)
  /\ stage = "redact" =>
       LET file  == FileOf(version, Artifact)
           found == work.result.candidates
       IN  /\ work.extractor \in {"md", "html"} => HeadingsRight(found, file.blocks)
           /\ work.extractor = "text" => ParagraphsRight(found, file.lines)
           /\ work.extractor = "code" => SymbolsRight(found, file.defs)

-----------------------------------------------------------------------------
Says(text, classes) == \E i \in DOMAIN text : text[i][1] \in classes

(* The pieces from i to j hold a part of a marker, or touch one.           *)
Marked(text, i, j) == \E k \in (DOMAIN text) \cap ((i - 1)..(j + 1)) : text[k][1] \in Marks

Sought(labels) ==
  {"assignment", "bearer", "key block", "connection", "cloud key"}
  \cup IF PiiRequired(labels) THEN {"email"} ELSE {}

(* Where one of these patterns still matches, away from all markers.       *)
LeftIn(text, labels) ==
  {m \in (DOMAIN text) \X (DOMAIN text) :
     /\ \E name \in Sought(labels) : Fits(Rule(name, "secret"), text, m[1], m[2])
     /\ ~Marked(text, m[1], m[2])}

(* The rules run one after the other over what those before them left, and *)
(* a match that takes a part of another one's leaves its rest.  What comes *)
(* out of all of them, the configured ones included, holds no match of a   *)
(* built-in rule that applies to the source, except one that holds or      *)
(* touches a marker: a label like SECRET: reads like a key.  Nor does a    *)
(* stored chunk, except at its first or last piece, where a window may cut *)
(* a word.  A chunk's labels are no looser than the source's and what was  *)
(* replaced in its own window ask for, and a chunk counts as allowed only  *)
(* under an allowed license.  The rest of a secret whose beginning another *)
(* rule took is a match of none, and not excluded by this                  *)
(* (redaction.py:40-148, classification.py:9-37, policy.py:49-72).         *)
TextsSanitized ==
  /\ stage = "chunk" =>
       \A i \in DOMAIN work.cleaned : LeftIn(work.cleaned[i].text, source.labels) = {}
  /\ \A k \in DOMAIN store :
       LET c == store[k].of
       IN  /\ \A m \in LeftIn(c.text, source.labels) : m[1] = 1 \/ m[2] = Len(c.text)
           /\ Says(c.text, {"secret label"}) => c.sensitivity = "restricted"
           /\ Says(c.text, {"pii label"}) =>
                c.sensitivity \in {"confidential", "restricted"}
           /\ SensitivityRank(c.sensitivity) >= SensitivityRank(source.labels.sensitivity)
           /\ c.license = "allowed" => c.licensed \in AllowedLicenses

(* A text that fits is one chunk; a longer one is cut into windows that    *)
(* are no longer than the profile's size, begin with its beginning and end *)
(* with its end, and overlap so that any stretch one longer than the       *)
(* overlap is whole in one of them (base.py:264-276).                      *)
WindowsCover ==
  stage = "store" =>
    LET settings == SettingsOf(ProfileNamed(Artifact.profile)[1])
    IN  \A i \in DOMAIN work.cleaned :
          LET text  == Strip(work.cleaned[i].text)
              parts == SplitText(work.cleaned[i].text, settings)
              reach == Overlap(settings) + 1
          IN  /\ \A p \in DOMAIN parts : Len(parts[p]) <= settings.size
              /\ Len(parts) = 1 <=> Len(text) <= settings.size
              /\ IsPrefix(parts[1], text) /\ IsSuffix(Last(parts), text)
              /\ \A n \in 1..(Len(text) - reach + 1) :
                   LET stretch == Strip(SubSeq(text, n, n + reach - 1))
                   IN  \E p \in DOMAIN parts : \E m \in 0..(Len(parts[p]) - Len(stretch)) :
                         SubSeq(parts[p], m + 1, m + Len(stretch)) = stretch

-----------------------------------------------------------------------------
(* What a version's files make, worked out from nothing.                   *)
KeptOf(v) ==
  {a \in {Classified(source, f) : f \in DOMAIN Snapshots[v].files} :
     SkipReason(source, a) = None}

ResultOf(v, a) == Extract(SelectExtractor(a), a, FileOf(v, a))

KeysOf(v, a) ==
  LET candidates == ResultOf(v, a).candidates
      cleaned    == [i \in DOMAIN candidates |-> Sanitized(candidates[i], source.labels)]
  IN  Keys(ChunkResult(cleaned, SettingsOf(ProfileNamed(a.profile)[1])))

(* After a round that went through, the chunks that are current are those  *)
(* of its snapshot and no others, each at the round's version in its row,  *)
(* its membership and its citation, although rounds before it may have     *)
(* failed half way and left their own chunks current; every kept file has  *)
(* an attempt on record with what became of it (chunks.py:20-160,          *)
(* artifact_extractions.py:55-80).                                         *)
StoreMatchesSnapshot ==
  stage = "done" =>
    /\ Current(store) = UNION {KeysOf(version, a) : a \in KeptOf(version)}
    /\ \A k \in DOMAIN store :
         LET row == store[k].row
         IN  IF k \in Current(store)
             THEN /\ row.version = version /\ row.cited = version
                  /\ \A v \in Versions : row.member[v] = "current" <=> v = version
             ELSE row.version = None
    /\ \A a \in KeptOf(version) :
         [path |-> a.path, version |-> version, status |-> Status(ResultOf(version, a))]
           \in attempts

=============================================================================
