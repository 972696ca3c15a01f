------------------------------ MODULE MCContent ------------------------------
(***************************************************************************)
(* A small instance of the content stages for TLC: the shipped extractor   *)
(* profiles with small windows, a text profile, and files of every kind.   *)
(***************************************************************************)
EXTENDS ContentSafety

AllPaths == {"guide.md", "page.html", "notes.txt", "mod.py", "main.go", "run.sh",
             "openapi.yaml", "user.schema.json", "conf.yaml", "gen/doc.md",
             "vendor/doc.md", "draft.md", "win/a.md", "win\\a.md",
             "dist/lib.md", "up\\..\\x.md"}

Name(order, suffix) ==
  [order |-> order, hints |-> {}, suffix |-> suffix, generated |-> FALSE,
   vendored |-> FALSE]

AllAbout ==
  "guide.md" :> Name(4, "md") @@ "page.html" :> Name(10, "html")
  @@ "notes.txt" :> Name(8, "txt") @@ "mod.py" :> Name(7, "py")
  @@ "main.go" :> Name(6, "go") @@ "run.sh" :> Name(11, "sh")
  @@ "openapi.yaml" :> [Name(9, "yaml") EXCEPT !.hints = {"openapi_spec"}]
  @@ "user.schema.json" :> [Name(12, "json") EXCEPT !.hints = {"json_schema"}]
  @@ "conf.yaml" :> Name(1, "yaml") @@ "draft.md" :> Name(2, "md")
  @@ "gen/doc.md" :> [Name(3, "md") EXCEPT !.generated = TRUE]
  @@ "vendor/doc.md" :> [Name(13, "md") EXCEPT !.vendored = TRUE]
  @@ "win/a.md" :> Name(14, "md") @@ "win\\a.md" :> Name(15, "md")
  @@ "dist/lib.md" :> [Name(16, "md") EXCEPT !.generated = TRUE, !.vendored = TRUE]
  @@ "up\\..\\x.md" :> Name(17, "md")

Slashes ==
  [p \in AllPaths |-> CASE p = "win\\a.md" -> "win/a.md"
                        [] p = "up\\..\\x.md" -> None
                        [] OTHER -> p]

Suffixed(suffixes) == {p \in AllPaths : AllAbout[p].suffix \in suffixes}

Tool(id, enabled, size, overlap) ==
  [tool |-> id, enabled |-> enabled, size |-> size, overlap |-> overlap]

AllProfiles == <<
  [id |-> "docs", family |-> "docs", enabled |-> TRUE,
   patterns |-> Suffixed({"md", "html"}), generated |-> FALSE, vendored |-> FALSE,
   tools |-> <<Tool("builtin-markdown-html", TRUE, 3, 1), Tool("docling", FALSE, -1, -1)>>,
   fallback |-> "digest"],
  [id |-> "code", family |-> "code", enabled |-> TRUE,
   patterns |-> Suffixed({"py", "go", "sh"}), generated |-> FALSE, vendored |-> FALSE,
   tools |-> <<Tool("builtin-source-code-splitter", TRUE, 2, 5)>>, fallback |-> "digest"],
  [id |-> "config", family |-> "schemas", enabled |-> TRUE,
   patterns |-> Suffixed({"json", "yaml", "toml"}), generated |-> TRUE, vendored |-> FALSE,
   tools |-> <<Tool("jsonschema", FALSE, 1, 0), Tool("builtin-structured-files", TRUE, 0, -1)>>,
   fallback |-> "digest"],
  [id |-> "specs", family |-> "api_specs", enabled |-> TRUE,
   patterns |-> {"openapi.yaml"}, generated |-> FALSE, vendored |-> FALSE,
   tools |-> <<Tool("builtin-openapi-parser", TRUE, 2, -1)>>, fallback |-> "config"],
  [id |-> "digest", family |-> "repository_digest", enabled |-> FALSE,
   patterns |-> AllPaths, generated |-> FALSE, vendored |-> FALSE,
   tools |-> <<Tool("gitingest", FALSE, -1, -1)>>, fallback |-> None],
  [id |-> "plain", family |-> "docs", enabled |-> FALSE,
   patterns |-> {}, generated |-> FALSE, vendored |-> FALSE,
   tools |-> <<>>, fallback |-> "plainer"],
  [id |-> "plainer", family |-> "docs", enabled |-> TRUE,
   patterns |-> {}, generated |-> FALSE, vendored |-> FALSE,
   tools |-> <<Tool("builtin-openapi-parser", TRUE, -1, -1),
               Tool("builtin-text", TRUE, 4, 2)>>, fallback |-> "plain"],
  [id |-> "loop", family |-> "docs", enabled |-> FALSE,
   patterns |-> {}, generated |-> FALSE, vendored |-> FALSE,
   tools |-> <<>>, fallback |-> "loop"]>>

Labels(sensitivity, license) ==
  [sensitivity |-> sensitivity, license |-> license, visibility |-> "invited_users"]

Config(profile, labels) ==
  [profile |-> profile, labels |-> labels, include |-> {},
   exclude |-> {{"draft.md"}}, override |-> {}, reason |-> FALSE,
   generated |-> FALSE, vendored |-> FALSE]

AllConfigs == {
  Config("docs", Labels("public", "review_required")),
  [Config("plain", Labels("confidential", "unknown")) EXCEPT !.generated = TRUE],
  [Config("plainer", Labels("internal", "review_required"))
     EXCEPT !.override = {{"draft.md"}}, !.reason = TRUE],
  [Config("docs", Labels("odd", "review_required"))
     EXCEPT !.override = {{"draft.md"}}, !.vendored = TRUE,
            !.include = {Suffixed({"md"}), {"notes.txt"}}],
  Config("plain", Labels("public", "allowed")),
  Config("loop", Labels("public", "unknown")),
  Config("missing", Labels("public", "unknown"))}

W(n) == <<"word", n>>
P(class) == <<class, 0>>
Secret == <<P("key"), W(1)>>
Mail == <<W(1), P("domain")>>
(* token: "Bearer eyJ...", of which the first rule takes the beginning.    *)
Nested == <<P("key"), P("quote"), P("bearer"), Space, W(1)>>
Bearer == <<P("bearer"), Space, W(1)>>
KeyText == <<P("begin"), Space, P("header"), W(1), P("end"), Space, P("header")>>
Uri == <<P("scheme"), P("authority"), W(1)>>
(* xpostgres://...: no rule sees a scheme in it.                           *)
Joint == <<W(1)>> \o Uri
Mit == <<"license", 1>>
Gpl == <<"license", 2>>

Block(kind, level, text, line) ==
  [kind |-> kind, level |-> level, text |-> text, line |-> line, id |-> "",
   fence |-> kind = "code_block", language |-> "python"]

Blocks(blocks) == [EmptyFile EXCEPT !.blocks = blocks]
Lines(lines) == [EmptyFile EXCEPT !.lines = lines]

Guide == Blocks(<<
  Block("heading", 1, <<W(1)>>, <<1, 1>>),
  Block("section", 0, <<W(2), Space>> \o Secret \o <<Space>> \o Mail \o <<Space, W(3)>>, <<2, 3>>),
  Block("heading", 3, <<W(4)>>, <<4, 4>>),
  Block("table", 0, <<W(5)>>, <<5, 6>>),
  Block("heading", 2, <<W(6)>>, <<7, 7>>),
  Block("code_block", 0, <<W(7), Space, Space, Space, W(8)>>, <<8, 9>>),
  Block("heading", 2, <<W(9)>>, <<10, 10>>)>>)
Guide2 == [Guide EXCEPT !.blocks = Append(@, Block("section", 0, <<Mit>>, <<11, 11>>))]
Fence == Blocks(<<[Block("code_block", 0, <<W(1)>>, <<1, 3>>) EXCEPT !.language = ""]>>)
Page == Blocks(<<
  [Block("heading", 2, <<W(1)>>, <<1>>) EXCEPT !.id = "top"],
  [Block("code_block", 0, <<W(2)>>, <<2>>) EXCEPT !.fence = FALSE, !.language = ""],
  [Block("code_block", 0, <<W(2)>>, <<2>>) EXCEPT !.fence = FALSE, !.language = ""],
  Block("section", 0, <<Gpl, Space>> \o Bearer, <<3>>),
  Block("section", 0, <<P("key")>> \o KeyText, <<4>>),
  Block("section", 0, KeyText \o <<Space>> \o Uri, <<5>>)>>)
Notes == Lines(<<<<Space>>, <<W(1), Space>> \o Mail, Joint, <<W(2)>>, <<>>, <<>>,
                 Nested, <<P("cloud key")>>>>)

Def(name, parent, line, doc) ==
  [name |-> name, parent |-> parent, line |-> line, doc |-> doc, signature |-> <<>>]
Module == [EmptyFile EXCEPT !.imports = <<"os", "re">>, !.defs = <<
  Def("A", 0, <<1, 6>>, <<W(1), W(2), W(3)>>), Def("f", 1, <<2, 5>>, <<>>),
  Def("g", 2, <<3, 4>>, <<W(4), Space>> \o Secret), Def("h", 0, <<7, 8>>, <<W(5)>>)>>]
Broken == [EmptyFile EXCEPT !.parses = FALSE, !.utf8 = FALSE]

Object == [kind |-> "object", text |-> <<>>, string |-> FALSE]
Str(text) == [kind |-> "scalar", text |-> text, string |-> TRUE]
Number == [kind |-> "scalar", text |-> <<W(9)>>, string |-> FALSE]
List == [kind |-> "array", text |-> <<>>, string |-> FALSE]

Tree(nodes) == [EmptyFile EXCEPT !.nodes = nodes]
Conf == Tree(<<>> :> Object @@ <<"a">> :> List @@ <<"a", "0">> :> Number
             @@ <<"a", "1">> :> Str(Nested) @@ <<"b">> :> Str(<<Space>>))
Api == [Tree(<<>> :> Object @@ <<"paths">> :> Object @@ <<"paths", "a">> :> Object
             @@ <<"paths", "a", "get">> :> Object
             @@ <<"paths", "a", "get", "summary">> :> Str(<<>>)
             @@ <<"paths", "a", "get", "description">> :> Str(<<W(1)>> \o Mail \o <<Space, W(2)>>)
             @@ <<"components">> :> Object @@ <<"components", "schemas">> :> Object
             @@ <<"components", "schemas", "b">> :> Number)
        EXCEPT !.valid = FALSE]
Schema == Tree(<<>> :> Object @@ <<"$defs">> :> Object @@ <<"$defs", "b">> :> Object
               @@ <<"$defs", "b", "description">> :> Str(<<W(1)>>)
               @@ <<"properties">> :> Object @@ <<"properties", "a">> :> Number)
AllWords == <<"$defs", "0", "1", "a", "b", "components", "description", "get", "paths",
              "properties", "schemas", "summary">>

Snapshot(files) == [files |-> files, skipped |-> <<>>]

AllSnapshots ==
  "v1" :> [files |-> "guide.md" :> Guide @@ "conf.yaml" :> Conf @@ "gen/doc.md" :> Guide
                     @@ "draft.md" :> Page @@ "vendor/doc.md" :> Page
                     @@ "win\\a.md" :> Guide2 @@ "dist/lib.md" :> Page,
           skipped |-> <<[locator |-> "link.md", reason |-> "symlink"]>>]
  @@ "v2" :> Snapshot("guide.md" :> Guide2 @@ "page.html" :> Page @@ "mod.py" :> Module
                      @@ "main.go" :> Module @@ "openapi.yaml" :> Api
                      @@ "user.schema.json" :> Schema)
  @@ "v3" :> Snapshot("guide.md" :> Guide @@ "notes.txt" :> Notes @@ "run.sh" :> Notes)
  @@ "v4" :> Snapshot("conf.yaml" :> Broken @@ "draft.md" :> Guide2 @@ "mod.py" :> Broken)
  @@ "v5" :> Snapshot("conf.yaml" :> Conf @@ "guide.md" :> Fence
                      @@ "notes.txt" :> Notes)
  @@ "v6" :> Snapshot("draft.md" :> Guide
                      @@ "openapi.yaml" :> [Api EXCEPT !.sortable = FALSE])
  @@ "v7" :> Snapshot("guide.md" :> Guide @@ "up\\..\\x.md" :> Page)

(* One like the shipped ones, which knows the same keys, and a disabled one. *)
Rules == <<
  [classes |-> {"key", "secret label"}, value |-> TRUE, type |-> "secret",
   enabled |-> TRUE, pattern |-> TRUE],
  [classes |-> {"word"}, value |-> FALSE, type |-> "pii", enabled |-> FALSE,
   pattern |-> TRUE]>>
=============================================================================
