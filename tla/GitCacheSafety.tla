--------------------------- MODULE GitCacheSafety ---------------------------
(***************************************************************************)
(* What a fetch through the cache promises: the snapshot is one of the     *)
(* configured repository, as recent as the fetch.                          *)
(***************************************************************************)
EXTENDS GitCache

(* Past the check of the configuration there is a url, and no more refs    *)
(* are resolved than were asked for.                                       *)
LocalsTyped ==
  /\ pc \in [Workers -> Places]
  /\ local \in [Workers -> Local]
  /\ \A w \in Workers :
       /\ pc[w] \notin {"idle", "failed"} => Url(w) \in Urls
       /\ Len(local[w].refs) <= Len(Requested(local[w].config))

(* The sets every variable of fetch stays in (git_repository.py:56-148).   *)
TypeOK ==
  /\ upstream \in [Urls -> Repository]
  /\ \A u \in Urls : upstream[u] \in Repositories[u]
  /\ cache \in Clone \cup {None}
  /\ cloner \in Workers \cup {None}
  /\ begun \in Nat /\ moves \in Nat
  /\ LocalsTyped

(* Every commit the repository of u has ever had on a branch or tag.       *)
ShownBy(u) == UNION {Reachable(r) : r \in Repositories[u]}

HeldBy(c) ==
  (c.objects \cup {c.heads[n] : n \in Names} \cup {c.remotes[n] : n \in Names}
             \cup {c.tags[n] : n \in Names}) \ {None}

HoldsItsOrigin(c) ==
  HeldBy(c) \subseteq IF c.url = None THEN {} ELSE ShownBy(c.url)

(* The cache only ever holds commits of the repository it names as its     *)
(* origin, whatever processes overlap, fail or die and however often the   *)
(* configured url changes: reading get-url is enough to know whose         *)
(* commits these are (git_repository.py:132-148).                          *)
CacheHoldsItsOrigin == cache # None => HoldsItsOrigin(cache)

(* A snapshot names a repository_url and commits of that very repository,  *)
(* although the cache may have been made for another url or left by a      *)
(* killed process (git_repository.py:94-115).                              *)
OnlyConfiguredRepository ==
  \A w \in Workers : pc[w] = "returned" =>
    \A i \in DOMAIN local[w].refs :
      local[w].refs[i].commit \in ShownBy(Url(w))

(* The commits the repository of u has had as branch n, and as tag n.      *)
BranchShown(u, n) == {r.branches[n] : r \in Repositories[u]} \ {None}
TagShown(u, n) == {r.tags[n] : r \in Repositories[u]} \ {None}

(* The commits of the branches that have been its default.                 *)
DefaultShown(u) == UNION {BranchShown(u, r.default) : r \in Repositories[u]}

AnswersOf(label, commits, types) ==
  {[label |-> label, commit |-> c, type |-> t] : c \in commits, t \in types}

(* The refs that answer a label of a source configured with u.             *)
ShownAs(u, label) ==
  IF label \in Names
    THEN AnswersOf(label, BranchShown(u, label), {"branch"})
           \cup AnswersOf(label, TagShown(u, label), {"tag"})
  ELSE IF label = HEAD THEN AnswersOf(label, DefaultShown(u), {"branch", "commit"})
  ELSE AnswersOf(label, {label} \cap ShownBy(u), {"commit"})

(* The snapshots that answer a configuration: one ref for each label it    *)
(* asks for, in its order.                                                 *)
SnapshotsFor(config) ==
  LET labels == Requested(config)
      refs   == UNION {ShownAs(config.url, labels[i]) : i \in DOMAIN labels}
  IN  IF config.url = None THEN {}
      ELSE {s \in [DOMAIN labels -> refs] :
              \A i \in DOMAIN labels : s[i] \in ShownAs(config.url, labels[i])}

Ended == {"idle", "returned", "failed"}

Asked == [w \in Workers |-> IF pc[w] \in Ended THEN None ELSE local[w].config]
Answered == [w \in Workers |-> IF pc[w] = "returned" THEN local[w].refs ELSE None]

(* To its caller a fetch is one question and one answer: a snapshot with   *)
(* every requested ref once and in order, each at a commit that the        *)
(* configured repository has shown under that very name, or no snapshot,   *)
(* whatever url the cache was made for and wherever earlier fetches were   *)
(* killed (git_repository.py:56-115, 151-188).                             *)
Fetch == INSTANCE SnapshotFetch
           WITH Answers <- [c \in Configs |-> SnapshotsFor(c)],
                asked <- Asked, answer <- Answered
FetchAnswers == Fetch!Spec

Fresh(w, ref) ==
  ref.type = "branch" /\ ref.label \in Names =>
    ref.commit = local[w].seen.branches[ref.label]

(* A tracked branch resolves to the commit it had upstream during this     *)
(* fetch (git_repository.py:146, 158-177).                                 *)
TrackedBranchesFresh ==
  \A w \in Workers : pc[w] = "returned" =>
    \A i \in DOMAIN local[w].refs : Fresh(w, local[w].refs[i])

(* The same for every branch but the one the clone made a local branch of. *)
(* Prune, tags of the same name and half-made clones do not disturb it.    *)
RemoteBranchesFresh ==
  \A w \in Workers : pc[w] = "list" =>
    \A i \in DOMAIN local[w].refs :
      LET ref == local[w].refs[i]
      IN  ref.label \in Names /\ cache.heads[ref.label] = None
            => Fresh(w, ref)

(* A fetch that reached the repository only fails to resolve a name that   *)
(* the repository no longer has: a cache of another url, a killed clone or *)
(* a half-deleted directory never hides one.  HEAD, which stands for a     *)
(* source without tracked refs, is only lost to a killed process           *)
(* (git_repository.py:158-177).                                            *)
UnresolvedOnlyWhenGone ==
  \A w \in Workers :
    /\ pc[w] = "resolve" /\ cache # None /\ ~AllResolved(w)
    /\ Found(cache, NextLabel(w)) = {}
    =>
      LET label == NextLabel(w)
      IN  /\ label \in Names =>
               local[w].seen.branches[label] = None
               /\ local[w].seen.tags[label] = None
          /\ label = HEAD => MayCrash

(* A tag the cache has resolved to a commit never names another one, until *)
(* the whole clone is thrown away: snapshots labelled with one tag agree   *)
(* (git_repository.py:146: fetch --tags without --force).                  *)
TagKept ==
  cache # None /\ cache' # None /\ cache.url = cache'.url =>
    \A n \in Names : cache.tags[n] # None =>
      cache'.tags[n] \in {cache.tags[n], None}
TagsNeverMove == [][TagKept]_vars
=============================================================================
