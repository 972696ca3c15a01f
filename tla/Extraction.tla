------------------------------ MODULE Extraction ------------------------------
(***************************************************************************)
(* Choosing an extractor for a classified file and the candidates it makes *)
(* of the file (extractors/registry.py and the nine extractors).           *)
(*                                                                         *)
(* A file is given as its parsers read it (markdown-it, BeautifulSoup,     *)
(* json, yaml, tomllib, tree-sitter): lines, blocks, a tree of keys, or    *)
(* definitions.  A text is a sequence of tokens <<class, n>>, whose class  *)
(* is what the later stages recognise in it.  A text of None is treated    *)
(* like an empty one by everything that follows.                           *)
(***************************************************************************)
EXTENDS ArtifactDiscovery, SequencesExt

CONSTANTS
  Words    \* the keys of the structured files, in the order of the strings

Space == <<"space", 0>>
NoLine == <<>>
Methods == {"get", "put", "post", "delete", "patch", "options", "head", "trace"}

(* What the readers find in a file, its texts made of the tokens T.  Every *)
(* node of a tree has all its keys among the words.                        *)
ReadAs(file, T) ==
  /\ file.lines \in Seq(Seq(T))
  /\ file.blocks \in Seq([kind: STRING, level: Nat, text: Seq(T), line: Seq(Nat),
                          id: STRING, fence: BOOLEAN, language: STRING])
  /\ IsFiniteSet(DOMAIN file.nodes)
  /\ \A p \in DOMAIN file.nodes :
       /\ p \in Seq(ToSet(Words)) /\ file.nodes[p].kind \in {"object", "array", "scalar"}
       /\ file.nodes[p].text \in Seq(T) /\ file.nodes[p].string \in BOOLEAN
  /\ file.defs \in Seq([name: STRING, parent: Nat, line: Seq(Nat), doc: Seq(T),
                        signature: Seq(T)])
  /\ file.imports \in Seq(STRING)
  /\ {file.utf8, file.parses, file.valid, file.sortable} \subseteq BOOLEAN

(* A file none of whose readers finds anything.                            *)
EmptyFile == [lines |-> <<>>, blocks |-> <<>>, nodes |-> <<>>, defs |-> <<>>,
              imports |-> <<>>, utf8 |-> TRUE, parses |-> TRUE, valid |-> TRUE,
              sortable |-> TRUE]

(* Where a candidate was found: a file's path and what the locator adds.   *)
Place(path, line, pointer, mark) ==
  [file |-> path, line |-> line, pointer |-> pointer, mark |-> mark]

Plain == [type |-> "paragraph", text |-> <<>>, at |-> Place("", NoLine, <<>>, ""),
          headings |-> <<>>, keys |-> <<>>, schema |-> <<>>, endpoint |-> FALSE,
          symbols |-> <<>>, signature |-> <<>>]

(* A result: raised tells that no result came back at all.                 *)
Extracted(candidates, severities) ==
  [candidates |-> candidates, severities |-> severities, raised |-> FALSE]
Raised == [candidates |-> <<>>, severities |-> {}, raised |-> TRUE]

Warned(file) == IF file.utf8 THEN {} ELSE {"warning"}

(* ExtractionResult.status: a failed one may hold candidates all the same. *)
Status(result) ==
  IF "error" \in result.severities THEN "failed"
  ELSE IF result.candidates = <<>> THEN "skipped" ELSE "completed"

-----------------------------------------------------------------------------
(* Selection: what a tool makes of the file's suffix and role.             *)
ToolExtractor(tool, artifact) ==
  LET suffix == About[artifact.path].suffix
      role   == artifact.role
  IN  CASE tool = "builtin-markdown-html" /\ suffix \in {"md", "html"} -> suffix
        [] tool \in {"builtin-source-code-splitter", "tree-sitter"}
             /\ role = "source_code" -> "code"
        [] tool \in {"builtin-structured-files", "jsonschema"}
             /\ role = "json_schema" -> "json_schema"
        [] tool = "builtin-structured-files" /\ role # "json_schema"
             /\ suffix \in {"json", "yaml", "toml"} -> suffix
        [] tool = "builtin-openapi-parser" /\ role = "openapi_spec" -> "openapi"
        [] tool = "builtin-text" -> "text"
        [] OTHER -> None

Offering(profile, artifact) ==
  LET offered == [i \in DOMAIN profile.tools |->
                    ToolExtractor(profile.tools[i].tool, artifact)]
  IN  IF profile.enabled
      THEN KeptAt(offered, {i \in DOMAIN profile.tools :
                              profile.tools[i].enabled /\ offered[i] # None})
      ELSE <<>>

(* _select_from_profile: the first extractor of a profile's tools, or of   *)
(* its fallback's; None is the LookupError, also for a cycle.              *)
SelectFromProfile(artifact) ==
  LET select[seen \in SUBSET STRING] ==
        [id \in STRING |->
           LET found   == ProfileNamed(id)
               offered == Offering(found[1], artifact)
           IN  IF found = <<>> \/ id \in seen THEN None
               ELSE IF offered # <<>> THEN offered[1]
               ELSE select[seen \cup {id}][found[1].fallback]]
  IN  select

SelectExtractor(artifact) == SelectFromProfile(artifact)[{}][artifact.profile]

-----------------------------------------------------------------------------
(* A mutated form: a heading closes only those of deeper levels.           *)
AboveOrBeside(headings, level) ==
  KeptAt(headings, {i \in DOMAIN headings : headings[i].level <= level})

(* Markdown and HTML: the headings above a block.                          *)
Above(headings, level) ==
  KeptAt(headings, {i \in DOMAIN headings : headings[i].level < level})

Titles(headings) == [i \in DOMAIN headings |-> headings[i].title]

Headings(headings, block) ==
  IF block.kind = "heading"
  THEN Append(Above(headings, block.level),
              [level |-> block.level, title |-> block.text])
  ELSE headings

(* HTML names an element by its id, else by its first line; Markdown by    *)
(* the lines of the block.                                                 *)
BlockPlace(path, block, html) ==
  IF html /\ block.id # "" THEN Place(path, NoLine, <<>>, block.id)
  ELSE IF html THEN Place(path, <<block.line[1]>>, <<>>, "")
  ELSE Place(path, block.line, <<>>, "")

(* The headings open at a block, its own included.                         *)
OpenAt(blocks) ==
  LET open[n \in 0..Len(blocks)] ==
        IF n = 0 THEN <<>> ELSE Headings(open[n - 1], blocks[n])
  IN  open

DocumentCandidates(path, html, blocks) ==
  [i \in DOMAIN blocks |->
     [Plain EXCEPT !.type = blocks[i].kind,
                   !.text = IF blocks[i].kind = "table" THEN <<>> ELSE blocks[i].text,
                   !.at = BlockPlace(path, blocks[i], html),
                   !.headings = Titles(OpenAt(blocks)[i])]]

(* A fence whose info string is empty has no first word to take: the index *)
(* error ends the call, before the "or None" that follows it.              *)
FenceUnnamed(blocks) ==
  \E i \in DOMAIN blocks :
     blocks[i].kind = "code_block" /\ blocks[i].fence /\ blocks[i].language = ""

ExtractDocument(path, file, html) ==
  IF ~html /\ FenceUnnamed(file.blocks) THEN Raised
  ELSE Extracted(DocumentCandidates(path, html, file.blocks), Warned(file))

-----------------------------------------------------------------------------
(* Plain text: paragraphs between blank lines.                             *)
Blank(line) == \A i \in DOMAIN line : line[i] = Space

Joined(lines) ==
  FlattenSeq([i \in DOMAIN lines |-> IF i = 1 THEN lines[i]
                                     ELSE <<Space>> \o lines[i]])

Paragraph(path, lines, first, last) ==
  [Plain EXCEPT !.text = Joined(SubSeq(lines, first, last)),
                !.at = Place(path, <<first, last>>, <<>>, "")]

(* A block still open at the end of the file reaches to its last line.     *)
LastParagraph(path, lines, state) ==
  IF state.first = 0 THEN state.done
  ELSE Append(state.done, Paragraph(path, lines, state.first, Len(lines)))

TextStep(path, lines, state, i) ==
  IF ~Blank(lines[i])
  THEN [state EXCEPT !.first = IF @ = 0 THEN i ELSE @]
  ELSE IF state.first = 0 THEN state
  ELSE [first |-> 0,
        done |-> Append(state.done, Paragraph(path, lines, state.first, i - 1))]

TextRead(path, lines) ==
  LET upto[n \in 0..Len(lines)] ==
        IF n = 0 THEN [first |-> 0, done |-> <<>>]
        ELSE TextStep(path, lines, upto[n - 1], n)
  IN  upto[Len(lines)]

ExtractText(path, file) ==
  Extracted(LastParagraph(path, file.lines, TextRead(path, file.lines)), Warned(file))

-----------------------------------------------------------------------------
(* Structured files: a node for every path of keys, in the order of a      *)
(* walk that sorts the keys of an object.                                  *)
WordRank(word) == CHOOSE i \in DOMAIN Words : Words[i] = word

PathBefore(p, q) ==
  \/ Len(p) < Len(q) /\ IsPrefix(p, q)
  \/ \E i \in DOMAIN p \cap DOMAIN q :
       /\ SubSeq(p, 1, i - 1) = SubSeq(q, 1, i - 1)
       /\ WordRank(p[i]) < WordRank(q[i])

InWalkOrder(paths) ==
  InOrder(paths, {p \in paths \X paths : PathBefore(p[1], p[2])})

Structured(path, nodes) ==
  LET order == InWalkOrder(DOMAIN nodes)
  IN  [i \in DOMAIN order |->
         [Plain EXCEPT !.type = nodes[order[i]].kind,
                       !.text = IF nodes[order[i]].kind = "scalar"
                                THEN nodes[order[i]].text ELSE <<>>,
                       !.at = Place(path, NoLine, order[i], ""),
                       !.keys = order[i]]]

IsObject(nodes, p) == p \in DOMAIN nodes /\ nodes[p].kind = "object"

(* The text of a node that is a string, else none.                         *)
StringAt(nodes, p) ==
  IF p \in DOMAIN nodes /\ nodes[p].kind = "scalar" /\ nodes[p].string
  THEN nodes[p].text ELSE <<>>

(* An empty summary gives way to the description, one that is no string    *)
(* does not (null, false and 0, which would, are not told apart).          *)
Summary(nodes, p) ==
  LET q == Append(p, "summary")
  IN  IF q \in DOMAIN nodes /\ (nodes[q].kind = "scalar" => nodes[q].text # <<>>)
      THEN StringAt(nodes, q)
      ELSE StringAt(nodes, Append(p, "description"))

Endpoints(nodes) ==
  {p \in DOMAIN nodes : /\ Len(p) = 3 /\ p[1] = "paths" /\ p[3] \in Methods
                        /\ \A n \in 0..3 : IsObject(nodes, SubSeq(p, 1, n))}

Children(nodes, parent) ==
  {p \in DOMAIN nodes : /\ Len(p) = Len(parent) + 1 /\ IsPrefix(parent, p)
                        /\ \A n \in 0..Len(parent) : IsObject(nodes, SubSeq(p, 1, n))}

Operations(path, nodes) ==
  LET order == InWalkOrder(Endpoints(nodes))
  IN  [i \in DOMAIN order |->
         [Plain EXCEPT !.type = "endpoint", !.text = Summary(nodes, order[i]),
                       !.at = Place(path, NoLine, order[i], ""),
                       !.keys = order[i], !.endpoint = TRUE]]

Described(path, nodes, parent, type) ==
  LET order == InWalkOrder(Children(nodes, parent))
  IN  [i \in DOMAIN order |->
         [Plain EXCEPT !.type = type,
                       !.text = StringAt(nodes, Append(order[i], "description")),
                       !.at = Place(path, NoLine, order[i], ""),
                       !.schema = order[i]]]

SpecCandidates(kind, path, nodes) ==
  CASE kind = "openapi" -> Operations(path, nodes)
                           \o Described(path, nodes, <<"components", "schemas">>, "schema")
    [] kind = "json_schema" -> Described(path, nodes, <<"$defs">>, "schema_path")
                               \o Described(path, nodes, <<"properties">>, "schema_path")
    [] OTHER -> <<>>

(* A file that does not parse gives an error and nothing else; one that a  *)
(* validator refuses gives an error and its candidates; keys that cannot   *)
(* be sorted (YAML's 200 beside default) end the call.                     *)
ExtractStructured(kind, path, file) ==
  IF ~file.parses THEN Extracted(<<>>, {"error"})
  ELSE IF ~file.sortable THEN Raised
  ELSE Extracted(Structured(path, file.nodes) \o SpecCandidates(kind, path, file.nodes),
                 Warned(file) \cup IF kind \in {"openapi", "json_schema"} /\ ~file.valid
                                   THEN {"error"} ELSE {})

-----------------------------------------------------------------------------
(* Source code: one candidate per definition, parents first (the code      *)
(* sorts them by locator, which only orders the rows), and per import.     *)
(* Only Python has a grammar.                                              *)
SymbolPath(defs, i) ==
  LET names[k \in 0..Len(defs)] ==
        IF k = 0 THEN <<>> ELSE Append(names[defs[k].parent], defs[k].name)
  IN  names[i]

Symbol(path, defs, i) ==
  [Plain EXCEPT !.type = "symbol", !.text = defs[i].doc,
                !.at = Place(path, defs[i].line, <<>>, ""),
                !.symbols = SymbolPath(defs, i), !.signature = defs[i].signature]

Import(path, module) ==
  [Plain EXCEPT !.type = "import", !.at = Place(path, NoLine, <<>>, module)]

ExtractCode(path, language, file) ==
  LET symbols == [i \in DOMAIN file.defs |-> Symbol(path, file.defs, i)]
      imports == [i \in DOMAIN file.imports |-> Import(path, file.imports[i])]
  IN  IF language # "python" THEN Extracted(<<>>, {"warning"})
      ELSE Extracted(symbols \o imports,
                     Warned(file) \cup IF file.parses THEN {} ELSE {"error"})

-----------------------------------------------------------------------------
Extract(kind, artifact, file) ==
  CASE kind \in {"md", "html"} -> ExtractDocument(artifact.path, file, kind = "html")
    [] kind = "text" -> ExtractText(artifact.path, file)
    [] kind = "code" -> ExtractCode(artifact.path, artifact.language, file)
    [] OTHER -> ExtractStructured(kind, artifact.path, file)
=============================================================================
