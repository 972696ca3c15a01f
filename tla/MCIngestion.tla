----------------------------- MODULE MCIngestion -----------------------------
(***************************************************************************)
(* Small instances of IngestionRuns for TLC.                               *)
(***************************************************************************)
EXTENDS IngestionSafety, TLC

CONSTANTS s1, s2, s3, w1, w2, p1, p2, c1, c2

WorkerSymmetry == Permutations(Workers)

Snap(label, hash, x, y, commits) ==
  [label |-> label, hash |-> hash, tree |-> (p1 :> x @@ p2 :> y),
   commits |-> commits]

(* A source whose content grows, changes and shrinks. *)
Evolving ==
  {Snap("v1", "h1", "a", "a", {c1}), Snap("v2", "h2", "b", None, {c1, c2}),
   Snap("v3", "h3", None, "a", {})}

(* The same, and the first commit seen again under another ref label: the  *)
(* hash ignores the label, so the two versions have one id.                *)
Retagged ==
  {Snap("v1", "h1", "a", "a", {c1}), Snap("v2", "h1", "a", "a", {c1}),
   Snap("v3", "h3", None, "a", {})}

OnlyGit   == (s1 :> "git_repository")
OnlyLocal == (s1 :> "local_directory")
AllTypes  == (s1 :> "local_directory" @@ s2 :> "git_repository"
              @@ s3 :> "unsupported")

EvolvingUpstream == [s \in Sources |-> Evolving]
RetaggedUpstream == [s \in Sources |-> Retagged]
MixedUpstream    == (s1 :> {Snap("v1", "h1", "a", "a", {}),
                            Snap("v2", "h2", "b", None, {})}
                     @@ s2 :> Retagged @@ s3 :> {})

KeepAll == (p1 :> "docs" @@ p2 :> "docs")
SkipOne == (p1 :> "code" @@ p2 :> Skip)

TwoRules == {KeepAll, SkipOne}
OneRule  == {KeepAll}

Ask(ids, enforce, matching, dry) ==
  [ids |-> ids, enforce |-> enforce, matching |-> matching, dry |-> dry]

OneSource == <<s1>>
AskOne    == {Ask(<<s1>>, TRUE, {s1}, FALSE)}

(* The command line: all the enabled sources, a repeated name, a dry run, a *)
(* disabled source (refused), a profile one source does not have; and the   *)
(* library call for one source, enabled or not.                             *)
ManySources == <<s1, s2, s3>>
AskMany ==
  {Ask(<<>>, TRUE, Sources, FALSE), Ask(<<s2, s1, s2>>, TRUE, Sources, FALSE),
   Ask(<<>>, TRUE, Sources, TRUE), Ask(<<s3>>, TRUE, Sources, FALSE),
   Ask(<<s1, s2>>, TRUE, {s1}, FALSE), Ask(<<s3>>, FALSE, Sources, FALSE)}
=============================================================================
