-------------------------- MODULE ArtifactDiscovery --------------------------
(***************************************************************************)
(* Which fetched files are kept for extraction and how each is labelled    *)
(* (discovery/classifier.py, path_rules.py, linguist.py).                  *)
(*                                                                         *)
(* A path is a value; what the classifiers read in its name is told by     *)
(* About.  A glob pattern is the set of paths it matches.                  *)
(***************************************************************************)
EXTENDS OrderedSets, TLC

CONSTANTS
  Paths,       \* source-relative paths, as the fetchers give them
  About,       \* what the name of a path says, see Named
  Normal,      \* the path with backslashes turned into slashes, None if it
               \* is then absolute or goes up a directory
  Profiles     \* extractors.yaml: the profiles, in their order

None == "none"

(* Words of a path that give it a role, the first of this list winning.    *)
Hints == <<"license", "changelog", "test", "example", "openapi_spec",
           "json_schema">>

(* order: where the path sorts.                                            *)
Named == [order: Nat, hints: SUBSET {Hints[i] : i \in 1..Len(Hints)},
          suffix: {"md", "html", "txt", "py", "go", "sh", "json", "yaml", "toml",
                  "other"},
          generated: BOOLEAN, vendored: BOOLEAN]

Families == {"code", "docs", "schemas", "api_specs", "repository_digest"}

Profile == [id: STRING, family: Families, enabled: BOOLEAN,
            patterns: SUBSET Paths, generated: BOOLEAN, vendored: BOOLEAN,
            tools: Seq([tool: STRING, enabled: BOOLEAN, size: Int, overlap: Int]),
            fallback: STRING]

ASSUME DiscoveryConstants ==
  /\ About \in [Paths -> Named]
  /\ None \notin Paths /\ Normal \in [Paths -> Paths \cup {None}]
  /\ \A p, q \in Paths : About[p].order = About[q].order => p = q
  /\ \A p \in Paths : Normal[p] # None => Normal[Normal[p]] = Normal[p]
  /\ \A p \in Paths : "json_schema" \in About[p].hints
                        => About[p].suffix = "json"
  /\ Profiles \in Seq(Profile)
  /\ \A i, j \in 1..Len(Profiles) : Profiles[i].id = Profiles[j].id => i = j
  /\ \A i \in 1..Len(Profiles) : Profiles[i].id # None

-----------------------------------------------------------------------------
(* LANGUAGE_BY_SUFFIX: the suffixes the roles tell apart.                  *)
Language(path) ==
  CASE About[path].suffix = "md" -> "markdown"
    [] About[path].suffix = "txt" -> "text"
    [] About[path].suffix = "py" -> "python"
    [] About[path].suffix = "sh" -> "shell"
    [] About[path].suffix = "other" -> None
    [] OTHER -> About[path].suffix

(* A shell script is in no language list: it has no role.                  *)
ArtifactRole(path) ==
  LET hinted == SelectSeq(Hints, LAMBDA h : h \in About[path].hints)
  IN  IF hinted # <<>> THEN hinted[1]
      ELSE IF Language(path) \in {"python", "go"} THEN "source_code"
      ELSE IF Language(path) \in {"markdown", "html", "text"} THEN "documentation"
      ELSE IF About[path].suffix \in {"json", "yaml", "toml"} THEN "schema"
      ELSE "unknown"

PreferredFamily(role) ==
  CASE role \in {"documentation", "changelog", "license", "example"} -> "docs"
    [] role = "source_code" -> "code"
    [] role = "openapi_spec" -> "api_specs"
    [] role \in {"schema", "json_schema"} -> "schemas"
    [] OTHER -> None

ProfileNamed(id) == KeptAt(Profiles, {i \in DOMAIN Profiles : Profiles[i].id = id})

(* The first enabled profile that matches: of the role's family, else of   *)
(* any, else the source's own, enabled or not.                             *)
SelectProfile(source, path) ==
  LET fitting == {i \in DOMAIN Profiles :
                    Profiles[i].enabled /\ path \in Profiles[i].patterns}
      family  == {i \in fitting :
                    Profiles[i].family = PreferredFamily(ArtifactRole(path))}
  IN  (KeptAt(Profiles, family) \o KeptAt(Profiles, fitting)
         \o ProfileNamed(source.profile))[1]

-----------------------------------------------------------------------------
Matches(path, patterns) == \E P \in patterns : path \in P

Included(source, path) == source.include = {} \/ Matches(path, source.include)

(* A mutated form: no reason need be recorded.                             *)
HasSilentOverride(source, path) ==
  Matches(path, source.exclude) /\ Matches(path, source.override)

HasExcludeOverride(source, path) ==
  /\ source.reason
  /\ Matches(path, source.exclude)
  /\ Matches(path, source.override)

(* What makes an exception of a file: the recorded reason does not tell    *)
(* which of the checks it was given for.                                   *)
Overridden(source, profile, path) ==
  \/ About[path].generated /\ (source.generated \/ profile.generated)
  \/ About[path].vendored /\ (source.vendored \/ profile.vendored)
  \/ HasExcludeOverride(source, path)

Classified(source, file) ==
  LET path    == Normal[file]
      profile == SelectProfile(source, path)
  IN  [path |-> path, role |-> ArtifactRole(path), language |-> Language(path),
       profile |-> profile.id, overridden |-> Overridden(source, profile, path)]

SkipReason(source, artifact) ==
  LET path == artifact.path
  IN  IF Matches(path, source.exclude) /\ ~HasExcludeOverride(source, path)
      THEN "excluded_by_glob"
      ELSE IF ~Included(source, path) THEN "not_included_by_glob"
      ELSE IF About[path].generated /\ ~artifact.overridden THEN "generated_file"
      ELSE IF About[path].vendored /\ ~artifact.overridden THEN "vendored_file"
      ELSE None

(* A file as classified, with what the rules say of it.                    *)
Verdict(source, artifact) ==
  [artifact |-> artifact, reason |-> SkipReason(source, artifact)]

Decided(source, files) ==
  [i \in DOMAIN files |-> Verdict(source, Classified(source, files[i]))]

(* Sorted by path, as they came where the paths are the same.              *)
ByPath(decided, places) ==
  LET order(i) == About[decided[i].artifact.path].order
  IN  InOrder(places, {p \in places \X places :
                         \/ order(p[1]) < order(p[2])
                         \/ order(p[1]) = order(p[2]) /\ p[1] < p[2]})

(* What is told of a file that is not kept.                                *)
SkippedArtifact(verdict) == [locator |-> verdict.artifact.path, reason |-> verdict.reason]

(* The files kept, by path; the others after those the fetcher skipped.    *)
Discover(source, snapshot) ==
  LET decided == Decided(source, snapshot.files)
      kept    == {i \in DOMAIN decided : decided[i].reason = None}
      sorted  == ByPath(decided, kept)
      left    == KeptAt(decided, (DOMAIN decided) \ kept)
  IN  [artifacts |-> [k \in DOMAIN sorted |-> decided[sorted[k]].artifact],
       skipped |-> snapshot.skipped \o
                   [i \in DOMAIN left |-> SkippedArtifact(left[i])]]

ProfileKnown(source) == ProfileNamed(source.profile) # <<>>

(* A path that is refused fails the discovery of all the files, and so     *)
(* does a source that names an unknown profile, if there is a file.        *)
CanClassify(source, files) ==
  \A i \in DOMAIN files : Normal[files[i]] # None /\ ProfileKnown(source)
=============================================================================
