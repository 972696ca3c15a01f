------------------------------ MODULE GitCache ------------------------------
(***************************************************************************)
(* GitRepositoryFetcher.fetch: each git source keeps one clone under the   *)
(* cache root, which outlives runs, edits of sources.yaml and killed       *)
(* processes.  A fetch makes that clone one of the configured repository,  *)
(* by cloning, by re-cloning or by `git fetch`, and then resolves the      *)
(* tracked refs in it one after the other.  There is one action per git    *)
(* or file system command the fetcher waits for.  Nothing locks the cache: *)
(* the commands of several ingest processes interleave.                    *)
(*                                                                         *)
(* What the git commands do is external: it is modelled as git 2.39 does   *)
(* it when called with the arguments the fetcher uses.                     *)
(***************************************************************************)
EXTENDS Naturals, Sequences

CONSTANTS
  Workers,       \* ingest processes that may be alive at the same time
  Urls,          \* repositories a source may be configured with
  Names,         \* names branches and tags may have
  Commits,       \* commit SHAs
  Ancestors,     \* the commits reachable from each commit, itself included
  Repositories,  \* the states each repository may be in
  Configs,       \* the entries sources.yaml may have for the source
  None,          \* no url, no commit, no clone, not fetched
  MaxRuns,       \* bound: how many fetches are ever begun
  MaxMoves,      \* bound: how often repositories change
  MayCrash       \* whether a process may be killed

HEAD == "HEAD"

Refs == [Names -> Commits \cup {None}]

(* A repository at its url: its branches and tags, and the branch its HEAD *)
(* names, which exists.                                                    *)
Repository == [branches: Refs, tags: Refs, default: Names]

Config == [url: Urls \cup {None},
           tracked: Seq(Names \cup Commits \cup {HEAD})]

(* Outside the configuration nothing is assumed of the urls: commits may   *)
(* be shared between repositories (forks).                                 *)
ASSUME CacheAssumption ==
  /\ None \notin Urls \cup Commits \cup Names \cup Repository \cup Workers
  /\ HEAD \notin Names \cup Commits
  /\ Names \cap Commits = {}
  /\ Ancestors \in [Commits -> SUBSET Commits]
  /\ \A c \in Commits : c \in Ancestors[c]
  /\ Repositories \in [Urls -> SUBSET Repository]
  /\ \A u \in Urls : \A r \in Repositories[u] : r.branches[r.default] # None
  /\ Configs \subseteq Config
  /\ MaxRuns \in Nat /\ MaxMoves \in Nat
  /\ MayCrash \in BOOLEAN

VARIABLES
  upstream,  \* what each repository shows at present
  cache,     \* the clone in the source's cache directory, None without one
  cloner,    \* the process whose `git clone` is filling that directory
  pc,        \* where each process is in fetch
  local,     \* what each process knows: configuration, refs resolved so far
  begun,     \* fetches begun so far
  moves      \* changes of repositories so far

vars == <<upstream, cache, cloner, pc, local, begun, moves>>

-----------------------------------------------------------------------------
(* The clone.                                                              *)

NoRefs == [n \in Names |-> None]

(* default is the branch refs/remotes/origin/HEAD and HEAD name, None      *)
(* before clone has written them.                                          *)
Clone == [url: Urls \cup {None}, heads: Refs, remotes: Refs, tags: Refs,
          default: Names \cup {None}, objects: SUBSET Commits]

Reachable(r) ==
  UNION {Ancestors[c] : c \in ({r.branches[n] : n \in Names}
                               \cup {r.tags[n] : n \in Names}) \ {None}}

Blank(u) == [url |-> u, heads |-> NoRefs, remotes |-> NoRefs,
             tags |-> NoRefs, default |-> None, objects |-> {}]

(* A finished clone has one local branch, the one HEAD names.              *)
Cloned(u, r) ==
  [url |-> u,
   heads |-> [NoRefs EXCEPT ![r.default] = r.branches[r.default]],
   remotes |-> r.branches, tags |-> r.tags, default |-> r.default,
   objects |-> Reachable(r)]

(* Mutated forms of the fetch: without --prune; with --force.              *)
FetchedUnpruned(c, r) ==
  [c EXCEPT !.remotes = [n \in Names |-> IF r.branches[n] # None
                                           THEN r.branches[n]
                                           ELSE c.remotes[n]],
            !.tags = [n \in Names |-> IF c.tags[n] # None THEN c.tags[n]
                                                          ELSE r.tags[n]],
            !.objects = @ \cup Reachable(r)]

FetchedForced(c, r) ==
  [c EXCEPT !.remotes = r.branches,
            !.tags = [n \in Names |-> IF r.tags[n] # None THEN r.tags[n]
                                                          ELSE c.tags[n]],
            !.objects = @ \cup Reachable(r)]

(* fetch --prune --tags: remote branches follow the repository, new tags   *)
(* are added, deleted ones stay and moved ones are refused.  No local      *)
(* branch moves.                                                           *)
Fetched(c, r) ==
  [c EXCEPT !.remotes = r.branches,
            !.tags = [n \in Names |-> IF c.tags[n] # None THEN c.tags[n]
                                                          ELSE r.tags[n]],
            !.objects = @ \cup Reachable(r)]

(* git exits with an error after a fetch that refused a tag.               *)
TagRefused(c, r) ==
  \E n \in Names : None \notin {c.tags[n], r.tags[n]} /\ c.tags[n] # r.tags[n]

(* What a killed `git clone` may leave: a repository without a remote,     *)
(* one without refs, one with everything but the local branch.             *)
HalfCloned(u, r) ==
  {Blank(None), Blank(u)} \cup
  {[Cloned(u, r) EXCEPT !.heads = NoRefs, !.default = d] :
     d \in {None, r.default}}

(* What a killed rmtree may leave while .git is there; a ref whose objects *)
(* are gone does not resolve.                                              *)
HalfDeleted(c) == {c, Blank(c.url), Blank(None)}

-----------------------------------------------------------------------------
(* Resolution of refs.                                                     *)

ResolvedRef == [label: Names \cup Commits \cup {HEAD}, commit: Commits,
                type: {"tag", "branch", "commit"}]

(* The commit refs/remotes/origin/HEAD and HEAD lead to.                   *)
Target(c, refs) == IF c.default = None THEN None ELSE refs[c.default]

(* A mutated form: the remote branches are not tried.                      *)
LocalCandidates(c, label) ==
  IF label \in Names THEN << <<c.tags[label], "tag">>,
                             <<c.heads[label], "branch">> >>
  ELSE IF label = HEAD THEN << <<Target(c, c.heads), "commit">> >>
  ELSE << <<IF label \in c.objects THEN label ELSE None, "commit">> >>

(* The four names _resolve_ref tries for a label, in its order.            *)
Candidates(c, label) ==
  IF label \in Names THEN << <<c.tags[label], "tag">>,
                             <<c.heads[label], "branch">>,
                             <<c.remotes[label], "branch">> >>
  ELSE IF label = HEAD THEN << <<Target(c, c.remotes), "branch">>,
                               <<Target(c, c.heads), "commit">> >>
  ELSE << <<IF label \in c.objects THEN label ELSE None, "commit">> >>

Found(c, label) ==
  {i \in DOMAIN Candidates(c, label) : Candidates(c, label)[i][1] # None}

Resolve(c, label) ==
  LET i == CHOOSE i \in Found(c, label) :
             \A j \in Found(c, label) : i <= j
  IN  [label |-> label, commit |-> Candidates(c, label)[i][1],
       type |-> Candidates(c, label)[i][2]]

Requested(config) ==
  IF config.tracked = <<>> THEN <<HEAD>> ELSE config.tracked

-----------------------------------------------------------------------------
Places == {"idle", "probe", "compare", "delete", "clone", "cloning", "fetch",
           "resolve", "list", "returned", "failed"}

Errors == {"GitRepositoryConfigError", "GitCommandError", "OSError"}

(* seen, kept for the properties: the repository as this fetch saw it when *)
(* git last asked it.                                                      *)
Local == [config: Config, refs: Seq(ResolvedRef),
          seen: Repository \cup {None}, error: Errors \cup {None}]

Entering(config, error) ==
  [config |-> config, refs |-> <<>>, seen |-> None, error |-> error]

NoLocal == Entering([url |-> None, tracked |-> <<>>], None)

Init ==
  /\ upstream \in {f \in [Urls -> UNION {Repositories[u] : u \in Urls}] :
                     \A u \in Urls : f[u] \in Repositories[u]}
  /\ cache = None
  /\ cloner = None
  /\ pc = [w \in Workers |-> "idle"]
  /\ local = [w \in Workers |-> NoLocal]
  /\ begun = 0
  /\ moves = 0

UpstreamMoves(u) ==
  /\ moves < MaxMoves
  /\ \E r \in Repositories[u] \ {upstream[u]} :
       upstream' = [upstream EXCEPT ![u] = r]
  /\ moves' = moves + 1
  /\ UNCHANGED <<cache, cloner, pc, local, begun>>

Goto(w, place) == pc' = [pc EXCEPT ![w] = place]

Fails(w, error) ==
  /\ Goto(w, "failed")
  /\ local' = [local EXCEPT ![w].error = error]

Url(w) == local[w].config.url

(* A mutated form: a source without url is not refused.                    *)
BeginUnchecked(w, config) ==
  /\ pc[w] \in {"idle", "returned", "failed"}
  /\ begun < MaxRuns
  /\ begun' = begun + 1
  /\ local' = [local EXCEPT ![w] = Entering(config, None)]
  /\ Goto(w, "probe")
  /\ UNCHANGED <<upstream, cache, cloner, moves>>

(* fetch is entered with the source as sources.yaml describes it now.      *)
Begin(w, config) ==
  /\ pc[w] \in {"idle", "returned", "failed"}
  /\ begun < MaxRuns
  /\ begun' = begun + 1
  /\ local' = [local EXCEPT ![w] =
                 Entering(config, IF config.url = None
                                    THEN "GitRepositoryConfigError" ELSE None)]
  /\ Goto(w, IF config.url = None THEN "failed" ELSE "probe")
  /\ UNCHANGED <<upstream, cache, cloner, moves>>

(* (cache_path / ".git").is_dir()                                          *)
Probe(w) ==
  /\ pc[w] = "probe"
  /\ Goto(w, IF cache = None THEN "clone" ELSE "compare")
  /\ UNCHANGED <<upstream, cache, cloner, local, begun, moves>>

(* A mutated form: any clone will do.                                      *)
CompareNothing(w) ==
  /\ pc[w] = "compare"
  /\ cache # None
  /\ Goto(w, "fetch")
  /\ UNCHANGED <<upstream, cache, cloner, local, begun, moves>>

(* git remote get-url origin; a clone without a remote answers nothing,    *)
(* which is no configured url.                                             *)
CompareUrl(w) ==
  /\ pc[w] = "compare"
  /\ cache # None
  /\ Goto(w, IF cache.url = Url(w) THEN "fetch" ELSE "delete")
  /\ UNCHANGED <<upstream, cache, cloner, local, begun, moves>>

(* A mutated form: the origin is set to the new url instead.               *)
Repoint(w) ==
  /\ pc[w] = "delete"
  /\ cache # None
  /\ cache' = [cache EXCEPT !.url = Url(w)]
  /\ Goto(w, "fetch")
  /\ UNCHANGED <<upstream, cloner, local, begun, moves>>

(* shutil.rmtree(cache_path)                                               *)
Delete(w) ==
  /\ pc[w] = "delete"
  /\ cache # None
  /\ cache' = None
  /\ cloner' = None
  /\ Goto(w, "clone")
  /\ UNCHANGED <<upstream, local, begun, moves>>

(* Another process has deleted the directory a command is to run in.       *)
CacheGone(w) ==
  /\ pc[w] \in {"compare", "delete", "fetch", "resolve", "list"}
  /\ cache = None
  /\ Fails(w, "OSError")
  /\ UNCHANGED <<upstream, cache, cloner, begun, moves>>

(* git clone --no-checkout: it creates the directory, ...                  *)
CloneBegins(w) ==
  /\ pc[w] = "clone"
  /\ cache = None
  /\ cache' = Blank(None)
  /\ cloner' = w
  /\ Goto(w, "cloning")
  /\ UNCHANGED <<upstream, local, begun, moves>>

(* ... which must not be there yet ...                                     *)
CloneRefused(w) ==
  /\ pc[w] = "clone"
  /\ cache # None
  /\ Fails(w, "GitCommandError")
  /\ UNCHANGED <<upstream, cache, cloner, begun, moves>>

(* ... and fills it with what the repository shows,                        *)
CloneEnds(w) ==
  /\ pc[w] = "cloning"
  /\ cloner = w
  /\ cache' = Cloned(Url(w), upstream[Url(w)])
  /\ cloner' = None
  /\ local' = [local EXCEPT ![w].seen = upstream[Url(w)]]
  /\ Goto(w, "resolve")
  /\ UNCHANGED <<upstream, begun, moves>>

(* or fails, as it does when another process has deleted the directory,    *)
(* and removes the directory; whether a directory made since by another    *)
(* process goes with it depends on the moment.                             *)
CloneFails(w) ==
  /\ pc[w] = "cloning"
  /\ \/ cloner = w /\ cache' = None /\ cloner' = None
     \/ cloner # w /\ UNCHANGED <<cache, cloner>>
     \/ cloner # w /\ cache' = None /\ cloner' = None
  /\ Fails(w, "GitCommandError")
  /\ UNCHANGED <<upstream, begun, moves>>

(* git fetch asks the repository the clone names.                          *)
FetchOrigin(w) ==
  /\ pc[w] = "fetch"
  /\ cache # None
  /\ cache.url # None
  /\ LET r == upstream[cache.url]
     IN  /\ cache' = Fetched(cache, r)
         /\ IF TagRefused(cache, r)
              THEN Fails(w, "GitCommandError")
              ELSE /\ local' = [local EXCEPT ![w].seen = r]
                   /\ Goto(w, "resolve")
  /\ UNCHANGED <<upstream, cloner, begun, moves>>

(* The repository is not to be reached, or the clone is not usable.        *)
FetchFails(w) ==
  /\ pc[w] = "fetch"
  /\ cache # None
  /\ Fails(w, "GitCommandError")
  /\ UNCHANGED <<upstream, cache, cloner, begun, moves>>

NextLabel(w) == Requested(local[w].config)[Len(local[w].refs) + 1]

AllResolved(w) == Len(local[w].refs) = Len(Requested(local[w].config))

(* _resolve_ref for the next requested label.                              *)
ResolveRef(w) ==
  /\ pc[w] = "resolve"
  /\ cache # None
  /\ ~AllResolved(w)
  /\ IF Found(cache, NextLabel(w)) = {}
       THEN Fails(w, "GitRepositoryConfigError")
       ELSE /\ local' = [local EXCEPT ![w].refs =
                           Append(@, Resolve(cache, NextLabel(w)))]
            /\ Goto(w, IF Len(local[w].refs) + 1
                            = Len(Requested(local[w].config))
                         THEN "list" ELSE "resolve")
  /\ UNCHANGED <<upstream, cache, cloner, begun, moves>>

Listable(w) ==
  \A i \in DOMAIN local[w].refs : local[w].refs[i].commit \in cache.objects

(* ls-tree and log of every resolved commit, and the snapshot is returned. *)
ListAndReturn(w) ==
  /\ pc[w] = "list"
  /\ cache # None
  /\ Listable(w)
  /\ Goto(w, "returned")
  /\ UNCHANGED <<upstream, cache, cloner, local, begun, moves>>

ListFails(w) ==
  /\ pc[w] = "list"
  /\ cache # None
  /\ ~Listable(w)
  /\ Fails(w, "GitCommandError")
  /\ UNCHANGED <<upstream, cache, cloner, begun, moves>>

(* A killed process leaves the cache as the command at hand had it.        *)
Kill(w) ==
  /\ MayCrash
  /\ pc[w] \notin {"idle", "returned", "failed"}
  /\ cache' \in
       IF pc[w] = "delete" /\ cache # None THEN HalfDeleted(cache)
       ELSE IF pc[w] = "cloning" /\ cloner = w
         THEN HalfCloned(Url(w), upstream[Url(w)])
       ELSE IF pc[w] = "fetch" /\ cache # None /\ cache.url # None
         THEN {cache, Fetched(cache, upstream[cache.url])}
       ELSE {cache}
  /\ cloner' = IF cloner = w THEN None ELSE cloner
  /\ Goto(w, "idle")
  /\ local' = [local EXCEPT ![w] = NoLocal]
  /\ UNCHANGED <<upstream, begun, moves>>

Next ==
  \/ \E u \in Urls : UpstreamMoves(u)
  \/ \E w \in Workers :
       \/ \E config \in Configs : Begin(w, config)
       \/ Probe(w) \/ CompareUrl(w) \/ Delete(w) \/ CacheGone(w)
       \/ CloneBegins(w) \/ CloneRefused(w) \/ CloneEnds(w) \/ CloneFails(w)
       \/ FetchOrigin(w) \/ FetchFails(w)
       \/ ResolveRef(w) \/ ListAndReturn(w) \/ ListFails(w)
       \/ Kill(w)

Spec == Init /\ [][Next]_vars
=============================================================================
