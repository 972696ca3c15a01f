--------------------------- MODULE GitCacheProofs ---------------------------
(***************************************************************************)
(* Whose commits the cache holds, and whose commits a snapshot names.      *)
(***************************************************************************)
EXTENDS GitCacheSafety, TLAPS

(* What a repository shows is made of commits, and it shows the commits    *)
(* its branches and tags name.                                             *)
LEMMA ReachableFacts ==
  ASSUME NEW r \in Repository
  PROVE  /\ Reachable(r) \subseteq Commits
         /\ \A n \in Names : /\ r.branches[n] # None => r.branches[n] \in Reachable(r)
                             /\ r.tags[n] # None => r.tags[n] \in Reachable(r)
  <1>1. r.branches \in Refs /\ r.tags \in Refs
    BY DEF Repository
  <1>2. \A c \in Commits : c \in Ancestors[c] /\ Ancestors[c] \subseteq Commits
    BY CacheAssumption
  <1> QED
    BY <1>1, <1>2 DEF Reachable, Refs

(* A state of the repository at u is a repository, and what it shows is    *)
(* among what u has shown.                                                 *)
LEMMA ShownFacts ==
  ASSUME NEW u \in Urls, NEW r \in Repositories[u]
  PROVE  r \in Repository /\ Reachable(r) \subseteq ShownBy(u)
  BY CacheAssumption DEF ShownBy

LEMMA BlankFacts ==
  ASSUME NEW u \in Urls \cup {None}
  PROVE  Blank(u) \in Clone /\ HeldBy(Blank(u)) = {} /\ Blank(u).url = u
  BY DEF Blank, Clone, NoRefs, Refs, HeldBy

(* A clone is a Clone of its url, and holds only commits of it.            *)
LEMMA ClonedFacts ==
  ASSUME NEW u \in Urls, NEW r \in Repositories[u]
  PROVE  /\ Cloned(u, r) \in Clone
         /\ Cloned(u, r).url = u
         /\ HeldBy(Cloned(u, r)) \subseteq ShownBy(u)
  <1>1. r \in Repository /\ Reachable(r) \subseteq ShownBy(u)
    BY ShownFacts
  <1>2. r.branches \in Refs /\ r.tags \in Refs /\ r.default \in Names
    BY <1>1 DEF Repository
  <1>3. Reachable(r) \subseteq Commits
    BY <1>1, ReachableFacts
  <1>4. \A n \in Names : /\ r.branches[n] # None => r.branches[n] \in Reachable(r)
                         /\ r.tags[n] # None => r.tags[n] \in Reachable(r)
    BY <1>1, ReachableFacts
  <1> DEFINE heads == [NoRefs EXCEPT ![r.default] = r.branches[r.default]]
  <1>5. /\ heads \in Refs
        /\ \A n \in Names : heads[n] \in {None, r.branches[n]}
    BY <1>2 DEF NoRefs, Refs
  <1>6. /\ Cloned(u, r).url = u /\ Cloned(u, r).heads = heads
        /\ Cloned(u, r).remotes = r.branches /\ Cloned(u, r).tags = r.tags
        /\ Cloned(u, r).objects = Reachable(r)
    BY DEF Cloned
  <1>7. Cloned(u, r) \in Clone
    BY <1>2, <1>3, <1>5 DEF Cloned, Clone
  <1>8. HeldBy(Cloned(u, r)) \subseteq Reachable(r)
    <2> HIDE DEF heads
    <2> QED
      BY <1>4, <1>5, <1>6 DEF HeldBy
  <1> QED
    BY <1>1, <1>6, <1>7, <1>8

(* git fetch keeps a clone a clone of its url.                             *)
LEMMA FetchedFacts ==
  ASSUME NEW u \in Urls, NEW r \in Repositories[u],
         NEW c \in Clone, HeldBy(c) \subseteq ShownBy(u)
  PROVE  /\ Fetched(c, r) \in Clone
         /\ Fetched(c, r).url = c.url
         /\ HeldBy(Fetched(c, r)) \subseteq ShownBy(u)
  <1>1. r \in Repository /\ Reachable(r) \subseteq ShownBy(u)
    BY ShownFacts
  <1>2. r.branches \in Refs /\ r.tags \in Refs
    BY <1>1 DEF Repository
  <1>3. Reachable(r) \subseteq Commits
    BY <1>1, ReachableFacts
  <1>4. \A n \in Names : /\ r.branches[n] # None => r.branches[n] \in Reachable(r)
                         /\ r.tags[n] # None => r.tags[n] \in Reachable(r)
    BY <1>1, ReachableFacts
  <1> DEFINE tags == [n \in Names |-> IF c.tags[n] # None THEN c.tags[n]
                                                          ELSE r.tags[n]]
  <1>5. c.tags \in Refs /\ c.objects \subseteq Commits
    BY DEF Clone
  <1>6. /\ tags \in Refs
        /\ \A n \in Names : tags[n] \in {c.tags[n], r.tags[n]}
    BY <1>2, <1>5 DEF Refs
  <1>7. /\ Fetched(c, r).url = c.url /\ Fetched(c, r).heads = c.heads
        /\ Fetched(c, r).remotes = r.branches /\ Fetched(c, r).tags = tags
        /\ Fetched(c, r).objects = c.objects \cup Reachable(r)
    BY DEF Fetched, Clone
  <1>8. Fetched(c, r) \in Clone
    BY <1>2, <1>3, <1>5, <1>6 DEF Fetched, Clone
  <1>9. HeldBy(Fetched(c, r)) \subseteq HeldBy(c) \cup Reachable(r)
    <2> HIDE DEF tags
    <2> QED
      BY <1>4, <1>6, <1>7 DEF HeldBy
  <1> QED
    BY <1>1, <1>7, <1>8, <1>9

(* What a killed clone or rmtree leaves is a clone of the same url or one  *)
(* that holds nothing.                                                     *)
LEMMA HalfClonedFacts ==
  ASSUME NEW u \in Urls, NEW r \in Repositories[u], NEW c \in HalfCloned(u, r)
  PROVE  /\ c \in Clone
         /\ c.url \in {u, None}
         /\ HeldBy(c) \subseteq ShownBy(u)
         /\ c.url = None => HeldBy(c) = {}
  <1>1. CASE c \in {Blank(None), Blank(u)}
    BY <1>1, BlankFacts
  <1>2. CASE \E d \in {None, r.default} :
               c = [Cloned(u, r) EXCEPT !.heads = NoRefs, !.default = d]
    <2>1. PICK d \in {None, r.default} :
            c = [Cloned(u, r) EXCEPT !.heads = NoRefs, !.default = d]
      BY <1>2
    <2> DEFINE full == Cloned(u, r)
    <2>2. /\ full \in Clone /\ full.url = u
          /\ HeldBy(full) \subseteq ShownBy(u)
      BY ClonedFacts
    <2>3. d \in Names \cup {None} /\ NoRefs \in Refs
      BY ShownFacts DEF Repository, NoRefs, Refs
    <2>4. \A n \in Names : NoRefs[n] = None
      BY DEF NoRefs
    <2> HIDE DEF full
    <2>5. c = [full EXCEPT !.heads = NoRefs, !.default = d]
      BY <2>1 DEF full
    <2>6. c \in Clone /\ c.url = u
      BY <2>2, <2>3, <2>5 DEF Clone
    <2>7. /\ c.heads = NoRefs /\ c.remotes = full.remotes
          /\ c.tags = full.tags /\ c.objects = full.objects
      BY <2>2, <2>5 DEF Clone
    <2>8. HeldBy(c) \subseteq HeldBy(full)
      BY <2>4, <2>7 DEF HeldBy
    <2>9. u # None
      BY CacheAssumption
    <2> QED
      BY <2>2, <2>6, <2>8, <2>9
  <1> QED
    BY <1>1, <1>2 DEF HalfCloned

(* _resolve_ref answers a commit the clone holds.                          *)
LEMMA ResolveFacts ==
  ASSUME NEW c \in Clone, NEW label \in Names \cup Commits \cup {HEAD},
         Found(c, label) # {}
  PROVE  /\ Resolve(c, label) \in ResolvedRef
         /\ Resolve(c, label).commit \in HeldBy(c)
  <1> DEFINE tries == Candidates(c, label)
  <1>1. /\ c.tags \in Refs /\ c.heads \in Refs /\ c.remotes \in Refs
        /\ c.objects \subseteq Commits /\ c.default \in Names \cup {None}
    BY DEF Clone
  <1>2. \A i \in DOMAIN tries :
          /\ i \in 1 .. 3
          /\ tries[i][1] # None => tries[i][1] \in HeldBy(c) \cap Commits
          /\ tries[i][2] \in {"tag", "branch", "commit"}
    <2>1. CASE label \in Names
      <3>1. tries = << <<c.tags[label], "tag">>, <<c.heads[label], "branch">>,
                       <<c.remotes[label], "branch">> >>
        BY <2>1 DEF Candidates
      <3> HIDE DEF tries
      <3> QED
        BY <1>1, <2>1, <3>1 DEF HeldBy, Refs
    <2>2. CASE label \notin Names /\ label = HEAD
      <3>1. tries = << <<Target(c, c.remotes), "branch">>,
                       <<Target(c, c.heads), "commit">> >>
        BY <2>2 DEF Candidates
      <3>2. /\ Target(c, c.remotes) # None =>
                 Target(c, c.remotes) \in HeldBy(c) \cap Commits
            /\ Target(c, c.heads) # None =>
                 Target(c, c.heads) \in HeldBy(c) \cap Commits
        BY <1>1 DEF Target, HeldBy, Refs
      <3> HIDE DEF tries
      <3> QED
        BY <3>1, <3>2
    <2>3. CASE label \notin Names /\ label # HEAD
      <3>1. tries = << <<IF label \in c.objects THEN label ELSE None,
                         "commit">> >>
        BY <2>3 DEF Candidates
      <3> HIDE DEF tries
      <3> QED
        BY <1>1, <3>1 DEF HeldBy
    <2> QED
      BY <2>1, <2>2, <2>3
  <1> HIDE DEF tries
  <1>3. Found(c, label) = {i \in DOMAIN tries : tries[i][1] # None}
    BY DEF Found, tries
  <1>4. \E i \in Found(c, label) : \A j \in Found(c, label) : i <= j
    <2>1. Found(c, label) \subseteq {1, 2, 3}
      BY <1>2, <1>3
    <2> QED
      BY <2>1
  <1>5. PICK i \in Found(c, label) :
          Resolve(c, label) = [label |-> label, commit |-> tries[i][1],
                               type |-> tries[i][2]]
    BY <1>4 DEF Resolve, tries
  <1> QED
    BY <1>2, <1>3, <1>5 DEF ResolvedRef

-----------------------------------------------------------------------------
(* Every step leaves a clone whose commits are those of its origin.        *)
LEMMA CacheStep ==
  ASSUME TypeOK, CacheHoldsItsOrigin, [Next]_vars
  PROVE  cache' # None => cache' \in Clone /\ HoldsItsOrigin(cache')
  <1>1. /\ None \notin Urls
        /\ \A u \in Urls : upstream[u] \in Repositories[u]
    BY CacheAssumption DEF TypeOK, LocalsTyped
  <1>2. cache # None => cache \in Clone /\ HoldsItsOrigin(cache)
    BY DEF TypeOK, CacheHoldsItsOrigin
  <1>3. CASE UNCHANGED cache
    BY <1>2, <1>3
  <1>4. ASSUME NEW w \in Workers, CloneBegins(w)
        PROVE  cache' \in Clone /\ HoldsItsOrigin(cache')
    <2>1. cache' = Blank(None)
      BY <1>4 DEF CloneBegins
    <2>2. Blank(None) \in Clone /\ HeldBy(Blank(None)) = {}
      BY BlankFacts
    <2> QED
      BY <2>1, <2>2 DEF HoldsItsOrigin
  <1>5. ASSUME NEW w \in Workers, CloneEnds(w)
        PROVE  cache' \in Clone /\ HoldsItsOrigin(cache')
    <2>1. Url(w) \in Urls
      BY <1>5 DEF CloneEnds, TypeOK, LocalsTyped
    <2>2. upstream[Url(w)] \in Repositories[Url(w)]
      BY <1>1, <2>1
    <2>3. cache' = Cloned(Url(w), upstream[Url(w)])
      BY <1>5 DEF CloneEnds
    <2>4. /\ cache' \in Clone /\ cache'.url = Url(w)
          /\ HeldBy(cache') \subseteq ShownBy(Url(w))
      BY <2>1, <2>2, <2>3, ClonedFacts
    <2> QED
      BY <1>1, <2>1, <2>4 DEF HoldsItsOrigin
  <1>6. ASSUME cache # None, cache.url # None
        PROVE  LET c == Fetched(cache, upstream[cache.url])
               IN  c \in Clone /\ HoldsItsOrigin(c)
    <2>1. cache \in Clone /\ cache.url \in Urls
      BY <1>2, <1>6 DEF Clone
    <2>2. upstream[cache.url] \in Repositories[cache.url]
      BY <1>1, <2>1
    <2>3. HeldBy(cache) \subseteq ShownBy(cache.url)
      BY <1>2, <1>6 DEF HoldsItsOrigin
    <2> DEFINE c == Fetched(cache, upstream[cache.url])
    <2>4. /\ c \in Clone /\ c.url = cache.url
          /\ HeldBy(c) \subseteq ShownBy(cache.url)
      BY <2>1, <2>2, <2>3, FetchedFacts
    <2> HIDE DEF c
    <2>5. HoldsItsOrigin(c)
      BY <1>6, <2>4 DEF HoldsItsOrigin
    <2> QED
      BY <2>4, <2>5 DEF c
  <1>7. ASSUME NEW w \in Workers, Kill(w), cache' # None
        PROVE  cache' \in Clone /\ HoldsItsOrigin(cache')
    <2>1. CASE cache' = cache
      BY <1>2, <1>7, <2>1
    <2>2. CASE cache # None /\ cache' \in HalfDeleted(cache)
      <3>1. cache.url \in Urls \cup {None}
        BY <1>2, <2>2 DEF Clone
      <3>2. \A u \in Urls \cup {None} :
              Blank(u) \in Clone /\ HoldsItsOrigin(Blank(u))
        BY BlankFacts DEF HoldsItsOrigin
      <3> QED
        BY <1>2, <2>2, <3>1, <3>2 DEF HalfDeleted
    <2>3. CASE /\ pc[w] = "cloning"
               /\ cache' \in HalfCloned(Url(w), upstream[Url(w)])
      <3>1. Url(w) \in Urls
        BY <2>3 DEF TypeOK, LocalsTyped
      <3>2. upstream[Url(w)] \in Repositories[Url(w)]
        BY <1>1, <3>1
      <3>3. /\ cache' \in Clone /\ cache'.url \in {Url(w), None}
            /\ HeldBy(cache') \subseteq ShownBy(Url(w))
            /\ cache'.url = None => HeldBy(cache') = {}
        BY <2>3, <3>1, <3>2, HalfClonedFacts
      <3> QED
        BY <3>3 DEF HoldsItsOrigin
    <2>4. CASE /\ cache # None /\ cache.url # None
               /\ cache' = Fetched(cache, upstream[cache.url])
      BY <1>6, <2>4
    <2> QED
      BY <1>7, <2>1, <2>2, <2>3, <2>4 DEF Kill
  <1>8. ASSUME NEW w \in Workers, FetchOrigin(w)
        PROVE  cache' \in Clone /\ HoldsItsOrigin(cache')
    BY <1>6, <1>8 DEF FetchOrigin
  <1>9. CASE cache' = None
    BY <1>9
  <1>10. CASE \E u \in Urls : UpstreamMoves(u)
    BY <1>3, <1>10 DEF UpstreamMoves
  <1>11. ASSUME NEW w \in Workers, NEW config \in Configs, Begin(w, config)
         PROVE  UNCHANGED cache
    BY <1>11 DEF Begin
  <1>12. ASSUME NEW w \in Workers,
                \/ Probe(w) \/ CompareUrl(w) \/ CacheGone(w)
                \/ CloneRefused(w) \/ FetchFails(w) \/ ResolveRef(w)
                \/ ListAndReturn(w) \/ ListFails(w)
         PROVE  UNCHANGED cache
    BY <1>12 DEF Probe, CompareUrl, CacheGone, CloneRefused, FetchFails,
                 ResolveRef, ListAndReturn, ListFails
  <1>13. ASSUME NEW w \in Workers, Delete(w) \/ CloneFails(w)
         PROVE  cache' = None \/ UNCHANGED cache
    BY <1>13 DEF Delete, CloneFails
  <1>14. CASE UNCHANGED vars
    BY <1>3, <1>14 DEF vars
  <1> QED
    BY <1>3, <1>4, <1>5, <1>7, <1>8, <1>9, <1>10, <1>11, <1>12, <1>13, <1>14
       DEF Next

-----------------------------------------------------------------------------
(* A step of w that puts it at a place p with knowledge l keeps the types. *)
LEMMA LocalStep ==
  ASSUME TypeOK, NEW w \in Workers, NEW p \in Places, NEW l \in Local,
         p \notin {"idle", "failed"} => l.config.url \in Urls,
         Len(l.refs) <= Len(Requested(l.config)),
         pc' = [pc EXCEPT ![w] = p], local' = [local EXCEPT ![w] = l]
  PROVE  LocalsTyped'
  <1>1. pc \in [Workers -> Places] /\ local \in [Workers -> Local]
    BY DEF TypeOK, LocalsTyped
  <1>2. \A v \in Workers : /\ pc'[v] = IF v = w THEN p ELSE pc[v]
                           /\ local'[v] = IF v = w THEN l ELSE local[v]
    BY <1>1
  <1>3. ASSUME NEW v \in Workers
        PROVE  /\ pc'[v] \notin {"idle", "failed"} => Url(v)' \in Urls
               /\ Len(local'[v].refs) <= Len(Requested(local'[v].config))
    <2>1. CASE v = w
      BY <1>2, <2>1 DEF Url
    <2>2. CASE v # w
      BY <1>2, <2>2 DEF Url, TypeOK, LocalsTyped
    <2> QED
      BY <2>1, <2>2
  <1> QED
    BY <1>1, <1>3 DEF LocalsTyped

(* The same, of a step that only moves w to a later place.                 *)
LEMMA PlaceStep ==
  ASSUME TypeOK, NEW w \in Workers, NEW p \in Places,
         pc[w] \notin {"idle", "failed"},
         pc' = [pc EXCEPT ![w] = p], UNCHANGED local
  PROVE  LocalsTyped'
  <1>1. /\ local[w] \in Local /\ local[w].config.url \in Urls
        /\ Len(local[w].refs) <= Len(Requested(local[w].config))
    BY DEF TypeOK, LocalsTyped, Url
  <1>2. local' = [local EXCEPT ![w] = local[w]]
    BY DEF TypeOK, LocalsTyped
  <1> QED
    BY <1>1, <1>2, LocalStep

(* And of a step at which fetch raises.                                    *)
LEMMA FailStep ==
  ASSUME TypeOK, NEW w \in Workers, NEW e \in Errors, Fails(w, e)
  PROVE  LocalsTyped'
  <1> DEFINE l == [local[w] EXCEPT !.error = e]
  <1>1. /\ local[w] \in Local
        /\ Len(local[w].refs) <= Len(Requested(local[w].config))
    BY DEF TypeOK, LocalsTyped
  <1>2. l \in Local /\ l.refs = local[w].refs /\ l.config = local[w].config
    BY <1>1 DEF Local
  <1>3. pc' = [pc EXCEPT ![w] = "failed"] /\ local' = [local EXCEPT ![w] = l]
    BY DEF Fails, Goto
  <1>4. "failed" \in Places
    BY DEF Places
  <1> HIDE DEF l
  <1> QED
    BY <1>1, <1>2, <1>3, <1>4, LocalStep

(* What is asked for is a sequence of labels.                              *)
LEMMA RequestedType ==
  ASSUME NEW config \in Config
  PROVE  Requested(config) \in Seq(Names \cup Commits \cup {HEAD})
  <1>1. config.tracked \in Seq(Names \cup Commits \cup {HEAD})
    BY DEF Config
  <1>2. <<HEAD>> \in Seq(Names \cup Commits \cup {HEAD})
    OBVIOUS
  <1> QED
    BY <1>1, <1>2 DEF Requested

(* A ref is resolved for a label of the configuration.                     *)
LEMMA NextLabelType ==
  ASSUME TypeOK, NEW w \in Workers, ~AllResolved(w)
  PROVE  /\ NextLabel(w) \in Names \cup Commits \cup {HEAD}
         /\ Len(local[w].refs) + 1 <= Len(Requested(local[w].config))
  <1>1. /\ local[w].config \in Config
        /\ local[w].refs \in Seq(ResolvedRef)
        /\ Len(local[w].refs) <= Len(Requested(local[w].config))
    BY DEF TypeOK, LocalsTyped, Local
  <1>2. Requested(local[w].config) \in Seq(Names \cup Commits \cup {HEAD})
    BY <1>1, RequestedType
  <1>3. /\ Len(local[w].refs) \in Nat
        /\ Len(Requested(local[w].config)) \in Nat
        /\ Len(local[w].refs) # Len(Requested(local[w].config))
    BY <1>1, <1>2 DEF AllResolved
  <1>4. Len(local[w].refs) + 1 \in 1 .. Len(Requested(local[w].config))
    BY <1>1, <1>3
  <1> QED
    BY <1>2, <1>4 DEF NextLabel

(* Every step keeps the types.                                             *)
LEMMA TypeStep ==
  ASSUME TypeOK, CacheHoldsItsOrigin, [Next]_vars
  PROVE  TypeOK'
  <1>1. cache' \in Clone \cup {None}
    BY CacheStep
  <1>2. CASE UNCHANGED vars
    BY <1>2 DEF vars, TypeOK, LocalsTyped, Url
  <1>3. ASSUME NEW u \in Urls, UpstreamMoves(u)
        PROVE  TypeOK'
    <2>1. PICK r \in Repositories[u] : upstream' = [upstream EXCEPT ![u] = r]
      BY <1>3 DEF UpstreamMoves
    <2>2. r \in Repository
      BY ShownFacts
    <2>3. /\ upstream' \in [Urls -> Repository]
          /\ \A v \in Urls : upstream'[v] \in Repositories[v]
      BY <2>1, <2>2 DEF TypeOK
    <2>4. moves' \in Nat /\ UNCHANGED <<cache, cloner, pc, local, begun>>
      BY <1>3 DEF UpstreamMoves, TypeOK
    <2> QED
      BY <2>3, <2>4, <1>1 DEF TypeOK, LocalsTyped, Url
  <1> DEFINE Rest ==
        /\ upstream' = upstream /\ moves' = moves
        /\ begun' \in {begun, begun + 1}
        /\ cloner' \in Workers \cup {None}
  <1>4. ASSUME Rest, LocalsTyped'
        PROVE  TypeOK'
    BY <1>1, <1>4 DEF TypeOK
  <1>5. ASSUME NEW w \in Workers, NEW config \in Configs, Begin(w, config)
        PROVE  TypeOK'
    <2> DEFINE p == IF config.url = None THEN "failed" ELSE "probe"
    <2> DEFINE e == IF config.url = None THEN "GitRepositoryConfigError"
                                         ELSE None
    <2> DEFINE l == Entering(config, e)
    <2>1. config \in Config /\ config.url \in Urls \cup {None}
      BY CacheAssumption DEF Config
    <2>2. p \in Places /\ e \in Errors \cup {None}
      BY DEF Places, Errors
    <2>3. l = [config |-> config, refs |-> <<>>, seen |-> None, error |-> e]
      BY DEF Entering
    <2>4. p \notin {"idle", "failed"} => config.url \in Urls
      BY <2>1
    <2>5. pc' = [pc EXCEPT ![w] = p] /\ local' = [local EXCEPT ![w] = l]
      BY <1>5 DEF Begin, Goto
    <2> HIDE DEF p, e, l
    <2>6. l \in Local /\ l.config = config /\ l.refs = <<>>
      BY <2>1, <2>2, <2>3 DEF Local
    <2>7. Len(l.refs) <= Len(Requested(l.config))
      <3>1. Len(Requested(config)) \in Nat
        BY <2>1, RequestedType
      <3> QED
        BY <2>6, <3>1
    <2>8. LocalsTyped'
      BY <2>2, <2>4, <2>5, <2>6, <2>7, LocalStep
    <2>9. Rest
      BY <1>5 DEF Begin, TypeOK
    <2> QED
      BY <1>4, <2>8, <2>9
  <1>6. ASSUME NEW w \in Workers, Probe(w)
        PROVE  TypeOK'
    <2> DEFINE p == IF cache = None THEN "clone" ELSE "compare"
    <2>1. p \in Places /\ pc' = [pc EXCEPT ![w] = p]
      BY <1>6 DEF Probe, Places, Goto
    <2> HIDE DEF p
    <2>2. LocalsTyped'
      BY <1>6, <2>1, PlaceStep DEF Probe
    <2> QED
      BY <1>4, <1>6, <2>2 DEF Probe, TypeOK
  <1>7. ASSUME NEW w \in Workers, CompareUrl(w)
        PROVE  TypeOK'
    <2> DEFINE p == IF cache.url = Url(w) THEN "fetch" ELSE "delete"
    <2>1. p \in Places /\ pc' = [pc EXCEPT ![w] = p]
      BY <1>7 DEF CompareUrl, Places, Goto
    <2> HIDE DEF p
    <2>2. LocalsTyped'
      BY <1>7, <2>1, PlaceStep DEF CompareUrl
    <2> QED
      BY <1>4, <1>7, <2>2 DEF CompareUrl, TypeOK
  <1>8. ASSUME NEW w \in Workers, Delete(w)
        PROVE  TypeOK'
    <2>1. "clone" \in Places /\ pc' = [pc EXCEPT ![w] = "clone"]
      BY <1>8 DEF Delete, Places, Goto
    <2>2. LocalsTyped'
      BY <1>8, <2>1, PlaceStep DEF Delete
    <2> QED
      BY <1>4, <1>8, <2>2 DEF Delete, TypeOK
  <1>9. ASSUME NEW w \in Workers, CloneBegins(w)
        PROVE  TypeOK'
    <2>1. "cloning" \in Places /\ pc' = [pc EXCEPT ![w] = "cloning"]
      BY <1>9 DEF CloneBegins, Places, Goto
    <2>2. LocalsTyped'
      BY <1>9, <2>1, PlaceStep DEF CloneBegins
    <2> QED
      BY <1>4, <1>9, <2>2 DEF CloneBegins, TypeOK
  <1>10. ASSUME NEW w \in Workers, ListAndReturn(w)
         PROVE  TypeOK'
    <2>1. "returned" \in Places /\ pc' = [pc EXCEPT ![w] = "returned"]
      BY <1>10 DEF ListAndReturn, Places, Goto
    <2>2. LocalsTyped'
      BY <1>10, <2>1, PlaceStep DEF ListAndReturn
    <2> QED
      BY <1>4, <1>10, <2>2 DEF ListAndReturn, TypeOK
  <1>11. ASSUME NEW w \in Workers, NEW e \in Errors, Fails(w, e), Rest
         PROVE  TypeOK'
    BY <1>4, <1>11, FailStep
  <1>12. ASSUME NEW w \in Workers,
                \/ CacheGone(w) \/ CloneRefused(w) \/ CloneFails(w)
                \/ FetchFails(w) \/ ListFails(w)
         PROVE  TypeOK'
    <2>1. Fails(w, "OSError") \/ Fails(w, "GitCommandError")
      BY <1>12 DEF CacheGone, CloneRefused, CloneFails, FetchFails, ListFails
    <2>2. Rest
      BY <1>12 DEF CacheGone, CloneRefused, CloneFails, FetchFails, ListFails,
                   TypeOK
    <2>3. "OSError" \in Errors /\ "GitCommandError" \in Errors
      BY DEF Errors
    <2> HIDE DEF Rest
    <2> QED
      BY <1>11, <2>1, <2>2, <2>3
  <1>13. ASSUME NEW w \in Workers, NEW r \in Repository,
                pc[w] \notin {"idle", "failed"}, Goto(w, "resolve"),
                local' = [local EXCEPT ![w].seen = r]
         PROVE  LocalsTyped'
    <2> DEFINE l == [local[w] EXCEPT !.seen = r]
    <2>1. /\ local[w] \in Local /\ local[w].config.url \in Urls
          /\ Len(local[w].refs) <= Len(Requested(local[w].config))
      BY <1>13 DEF TypeOK, LocalsTyped, Url
    <2>2. l \in Local /\ l.refs = local[w].refs /\ l.config = local[w].config
      BY <2>1 DEF Local
    <2>3. /\ "resolve" \in Places /\ pc' = [pc EXCEPT ![w] = "resolve"]
          /\ local' = [local EXCEPT ![w] = l]
      BY <1>13 DEF Places, Goto
    <2> HIDE DEF l
    <2> QED
      BY <2>1, <2>2, <2>3, LocalStep
  <1>14. ASSUME NEW w \in Workers, CloneEnds(w)
         PROVE  TypeOK'
    <2>1. Url(w) \in Urls
      BY <1>14 DEF CloneEnds, TypeOK, LocalsTyped
    <2>2. upstream[Url(w)] \in Repository
      BY <2>1 DEF TypeOK
    <2>3. LocalsTyped'
      BY <1>13, <1>14, <2>2 DEF CloneEnds
    <2> QED
      BY <1>4, <1>14, <2>3 DEF CloneEnds, TypeOK
  <1>15. ASSUME NEW w \in Workers, FetchOrigin(w)
         PROVE  TypeOK'
    <2>1. cache.url \in Urls
      BY <1>15 DEF FetchOrigin, TypeOK, Clone
    <2>2. upstream[cache.url] \in Repository
      BY <2>1 DEF TypeOK
    <2>3. Rest
      BY <1>15 DEF FetchOrigin, TypeOK
    <2>4. CASE Fails(w, "GitCommandError")
      <3>1. "GitCommandError" \in Errors
        BY DEF Errors
      <3> HIDE DEF Rest
      <3> QED
        BY <1>11, <2>3, <2>4, <3>1
    <2>5. CASE /\ local' = [local EXCEPT ![w].seen = upstream[cache.url]]
               /\ Goto(w, "resolve")
      <3>1. pc[w] \notin {"idle", "failed"}
        BY <1>15 DEF FetchOrigin
      <3>2. LocalsTyped'
        BY <1>13, <2>2, <2>5, <3>1
      <3> HIDE DEF Rest
      <3> QED
        BY <1>4, <2>3, <3>2
    <2> QED
      BY <1>15, <2>4, <2>5 DEF FetchOrigin
  <1>16. ASSUME NEW w \in Workers, ResolveRef(w)
         PROVE  TypeOK'
    <2>1. Rest
      BY <1>16 DEF ResolveRef, TypeOK
    <2>2. CASE Found(cache, NextLabel(w)) = {}
      <3>1. "GitRepositoryConfigError" \in Errors
        BY DEF Errors
      <3>2. Fails(w, "GitRepositoryConfigError")
        BY <1>16, <2>2 DEF ResolveRef
      <3> HIDE DEF Rest
      <3> QED
        BY <1>11, <2>1, <3>1, <3>2
    <2>3. CASE Found(cache, NextLabel(w)) # {}
      <3>1. /\ NextLabel(w) \in Names \cup Commits \cup {HEAD}
            /\ Len(local[w].refs) + 1 <= Len(Requested(local[w].config))
        BY <1>16, NextLabelType DEF ResolveRef
      <3>2. cache \in Clone
        BY <1>16 DEF ResolveRef, TypeOK
      <3> DEFINE ref == Resolve(cache, NextLabel(w))
      <3>3. ref \in ResolvedRef
        BY <2>3, <3>1, <3>2, ResolveFacts
      <3> HIDE DEF ref
      <3> DEFINE l == [local[w] EXCEPT !.refs = Append(local[w].refs, ref)]
      <3> DEFINE p == IF Len(local[w].refs) + 1
                           = Len(Requested(local[w].config))
                        THEN "list" ELSE "resolve"
      <3>4. /\ local[w] \in Local /\ local[w].config.url \in Urls
            /\ local[w].refs \in Seq(ResolvedRef)
        BY <1>16 DEF ResolveRef, TypeOK, LocalsTyped, Local, Url
      <3>5. /\ Append(local[w].refs, ref) \in Seq(ResolvedRef)
            /\ Len(Append(local[w].refs, ref)) = Len(local[w].refs) + 1
        BY <3>3, <3>4
      <3>6. /\ l \in Local /\ l.config = local[w].config
            /\ l.refs = Append(local[w].refs, ref)
        BY <3>4, <3>5 DEF Local
      <3>7. p \in Places
        BY DEF Places
      <3>8. pc' = [pc EXCEPT ![w] = p] /\ local' = [local EXCEPT ![w] = l]
        BY <1>16, <2>3 DEF ResolveRef, Goto, ref
      <3> HIDE DEF l, p
      <3>9. LocalsTyped'
        BY <3>1, <3>4, <3>5, <3>6, <3>7, <3>8, LocalStep
      <3> HIDE DEF Rest
      <3> QED
        BY <1>4, <2>1, <3>9
    <2> QED
      BY <2>2, <2>3
  <1>17. ASSUME NEW w \in Workers, Kill(w)
         PROVE  TypeOK'
    <2>1. Rest
      BY <1>17 DEF Kill, TypeOK
    <2>2. NoLocal \in Local /\ NoLocal.refs = <<>> /\ NoLocal.config \in Config
      BY DEF NoLocal, Entering, Local, Config
    <2>3. Len(NoLocal.refs) <= Len(Requested(NoLocal.config))
      <3>1. Len(Requested(NoLocal.config)) \in Nat
        BY <2>2, RequestedType
      <3> QED
        BY <2>2, <3>1
    <2>4. /\ "idle" \in Places /\ pc' = [pc EXCEPT ![w] = "idle"]
          /\ local' = [local EXCEPT ![w] = NoLocal]
      BY <1>17 DEF Kill, Places, Goto
    <2>5. LocalsTyped'
      BY <2>2, <2>3, <2>4, LocalStep
    <2> HIDE DEF Rest
    <2> QED
      BY <1>4, <2>1, <2>5
  <1> QED
    BY <1>2, <1>3, <1>5, <1>6, <1>7, <1>8, <1>9, <1>10, <1>12, <1>14, <1>15,
       <1>16, <1>17 DEF Next

(* The types, and CacheHoldsItsOrigin, hold from the start.                *)
LEMMA InitTyped == Init => TypeOK /\ CacheHoldsItsOrigin
  <1> SUFFICES ASSUME Init
               PROVE  TypeOK /\ CacheHoldsItsOrigin
    OBVIOUS
  <1>1. upstream \in [Urls -> UNION {Repositories[u] : u \in Urls}]
        /\ \A u \in Urls : upstream[u] \in Repositories[u]
    BY DEF Init
  <1>2. upstream \in [Urls -> Repository]
    BY <1>1, ShownFacts
  <1>3. NoLocal \in Local /\ NoLocal.refs = <<>> /\ NoLocal.config \in Config
    BY DEF NoLocal, Entering, Local, Config
  <1>4. Len(Requested(NoLocal.config)) \in Nat
    BY <1>3, RequestedType
  <1>5. LocalsTyped
    BY <1>3, <1>4 DEF Init, LocalsTyped, Places
  <1> QED
    BY <1>1, <1>2, <1>5 DEF Init, TypeOK, CacheHoldsItsOrigin

(* Every variable of fetch keeps its type, for any number of processes,    *)
(* repositories and configurations (git_repository.py:56-148).             *)
THEOREM FetchTypeCorrect == Spec => []TypeOK
  <1>1. TypeOK /\ CacheHoldsItsOrigin /\ [Next]_vars
          => TypeOK' /\ CacheHoldsItsOrigin'
    BY TypeStep, CacheStep DEF CacheHoldsItsOrigin
  <1> QED
    BY <1>1, InitTyped, PTL DEF Spec

(* The cache only ever holds commits of the repository it names as its     *)
(* origin, whatever processes overlap, fail or die                         *)
(* (git_repository.py:130-148).                                            *)
THEOREM CacheNeverMixes == Spec => []CacheHoldsItsOrigin
  <1>1. TypeOK /\ CacheHoldsItsOrigin /\ [Next]_vars
          => TypeOK' /\ CacheHoldsItsOrigin'
    BY TypeStep, CacheStep DEF CacheHoldsItsOrigin
  <1> QED
    BY <1>1, InitTyped, PTL DEF Spec

-----------------------------------------------------------------------------
(* One process at a time.  What is between a snapshot and the check of the *)
(* url: the clone the process works in is of its url, and so are the       *)
(* commits it has resolved.                                                *)
OriginChecked ==
  \A w \in Workers :
    pc[w] \in {"fetch", "resolve", "list"} /\ cache # None =>
      cache.url = Url(w)

RefsConfigured ==
  \A w \in Workers : \A i \in DOMAIN local[w].refs :
    local[w].refs[i].commit \in ShownBy(Url(w))

Alone == \A v, w \in Workers : v = w

LEMMA OriginStep ==
  ASSUME Alone, TypeOK, CacheHoldsItsOrigin, OriginChecked, [Next]_vars
  PROVE  OriginChecked'
  <1>1. CASE UNCHANGED <<cache, pc, local>>
    BY <1>1 DEF OriginChecked, Url
  <1>2. ASSUME NEW w \in Workers,
               pc'[w] \in {"fetch", "resolve", "list"} /\ cache' # None =>
                 cache'.url = local'[w].config.url
        PROVE  OriginChecked'
    BY <1>2 DEF Alone, OriginChecked, Url
  <1>3. pc \in [Workers -> Places] /\ local \in [Workers -> Local]
    BY DEF TypeOK, LocalsTyped
  <1>4. ASSUME NEW w \in Workers, NEW config \in Configs, Begin(w, config)
        PROVE  OriginChecked'
    <2>1. pc'[w] \in {"failed", "probe"}
      BY <1>3, <1>4 DEF Begin, Goto
    <2> QED
      BY <1>2, <2>1
  <1>5. ASSUME NEW w \in Workers,
               \/ Probe(w) \/ Delete(w) \/ CacheGone(w) \/ CloneBegins(w)
               \/ CloneRefused(w) \/ CloneFails(w) \/ FetchFails(w)
               \/ ListAndReturn(w) \/ ListFails(w) \/ Kill(w)
        PROVE  OriginChecked'
    <2>1. pc'[w] \notin {"fetch", "resolve", "list"}
      BY <1>3, <1>5 DEF Probe, Delete, CacheGone, CloneBegins, CloneRefused,
           CloneFails, FetchFails, ListAndReturn, ListFails, Kill, Fails, Goto
    <2> QED
      BY <1>2, <2>1
  <1>6. ASSUME NEW w \in Workers, CompareUrl(w)
        PROVE  OriginChecked'
    <2>1. /\ UNCHANGED <<cache, local>>
          /\ pc'[w] = IF cache.url = Url(w) THEN "fetch" ELSE "delete"
      BY <1>3, <1>6 DEF CompareUrl, Goto
    <2>2. pc'[w] = "fetch" => cache'.url = local'[w].config.url
      BY <2>1 DEF Url
    <2>3. pc'[w] \in {"fetch", "delete"}
      BY <2>1
    <2> QED
      BY <1>2, <2>2, <2>3
  <1>7. ASSUME NEW w \in Workers, CloneEnds(w)
        PROVE  OriginChecked'
    <2>1. cache'.url = Url(w)
      BY <1>7 DEF CloneEnds, Cloned
    <2>2. local'[w].config = local[w].config
      BY <1>3, <1>7 DEF CloneEnds, Local
    <2> QED
      BY <1>2, <2>1, <2>2 DEF Url
  <1>8. ASSUME NEW w \in Workers, FetchOrigin(w)
        PROVE  OriginChecked'
    <2>1. cache'.url = cache.url
      BY <1>8 DEF FetchOrigin, Fetched, TypeOK, Clone
    <2>2. cache.url = Url(w)
      BY <1>8 DEF FetchOrigin, OriginChecked
    <2>3. local'[w].config = local[w].config
      BY <1>3, <1>8 DEF FetchOrigin, Fails, Local
    <2> QED
      BY <1>2, <2>1, <2>2, <2>3 DEF Url
  <1>9. ASSUME NEW w \in Workers, ResolveRef(w)
        PROVE  OriginChecked'
    <2>1. cache' = cache /\ cache.url = Url(w)
      BY <1>9 DEF ResolveRef, OriginChecked
    <2>2. local'[w].config = local[w].config
      BY <1>3, <1>9 DEF ResolveRef, Fails, Local
    <2> QED
      BY <1>2, <2>1, <2>2 DEF Url
  <1>10. CASE (\E u \in Urls : UpstreamMoves(u)) \/ UNCHANGED vars
    BY <1>1, <1>10 DEF UpstreamMoves, vars
  <1> QED
    BY <1>4, <1>5, <1>6, <1>7, <1>8, <1>9, <1>10 DEF Next

LEMMA RefsStep ==
  ASSUME Alone, TypeOK, CacheHoldsItsOrigin, OriginChecked, RefsConfigured,
         [Next]_vars
  PROVE  RefsConfigured'
  <1>1. pc \in [Workers -> Places] /\ local \in [Workers -> Local]
    BY DEF TypeOK, LocalsTyped
  <1>2. ASSUME NEW w \in Workers,
               \/ /\ local'[w].refs = local[w].refs
                  /\ local'[w].config = local[w].config
               \/ local'[w].refs = <<>>
        PROVE  RefsConfigured'
    BY <1>2 DEF Alone, RefsConfigured, Url
  <1>3. ASSUME NEW w \in Workers, NEW config \in Configs, Begin(w, config)
        PROVE  RefsConfigured'
    <2>1. local'[w].refs = <<>>
      BY <1>1, <1>3 DEF Begin, Entering
    <2> QED
      BY <1>2, <2>1
  <1>4. ASSUME NEW w \in Workers, Kill(w)
        PROVE  RefsConfigured'
    <2>1. local'[w].refs = <<>>
      BY <1>1, <1>4 DEF Kill, NoLocal, Entering
    <2> QED
      BY <1>2, <2>1
  <1>5. ASSUME NEW w \in Workers,
               \/ Probe(w) \/ CompareUrl(w) \/ Delete(w) \/ CacheGone(w)
               \/ CloneBegins(w) \/ CloneRefused(w) \/ CloneEnds(w)
               \/ CloneFails(w) \/ FetchOrigin(w) \/ FetchFails(w)
               \/ ListAndReturn(w) \/ ListFails(w)
        PROVE  RefsConfigured'
    <2>1. \/ local' = local
          \/ \E e : local' = [local EXCEPT ![w].error = e]
          \/ \E r : local' = [local EXCEPT ![w].seen = r]
      BY <1>5 DEF Probe, CompareUrl, Delete, CacheGone, CloneBegins,
           CloneRefused, CloneEnds, CloneFails, FetchOrigin, FetchFails,
           ListAndReturn, ListFails, Fails
    <2>2. /\ local'[w].refs = local[w].refs
          /\ local'[w].config = local[w].config
      BY <1>1, <2>1 DEF Local
    <2> QED
      BY <1>2, <2>2
  <1>6. ASSUME NEW w \in Workers, ResolveRef(w)
        PROVE  RefsConfigured'
    <2>1. local[w] \in Local
      BY <1>1
    <2>2. CASE Found(cache, NextLabel(w)) = {}
      <3>1. local' = [local EXCEPT ![w].error = "GitRepositoryConfigError"]
        BY <1>6, <2>2 DEF ResolveRef, Fails
      <3>2. /\ local'[w].refs = local[w].refs
            /\ local'[w].config = local[w].config
        BY <1>1, <2>1, <3>1 DEF Local
      <3> QED
        BY <1>2, <3>2
    <2>3. CASE Found(cache, NextLabel(w)) # {}
      <3> DEFINE ref == Resolve(cache, NextLabel(w))
      <3>1. NextLabel(w) \in Names \cup Commits \cup {HEAD}
        BY <1>6, NextLabelType DEF ResolveRef
      <3>2. cache \in Clone /\ HoldsItsOrigin(cache) /\ cache.url = Url(w)
        BY <1>6 DEF ResolveRef, TypeOK, CacheHoldsItsOrigin, OriginChecked
      <3>3. ref.commit \in HeldBy(cache)
        BY <2>3, <3>1, <3>2, ResolveFacts
      <3>4. Url(w) # None
        BY <1>6, CacheAssumption DEF ResolveRef, TypeOK, LocalsTyped
      <3>5. ref.commit \in ShownBy(Url(w))
        BY <3>2, <3>3, <3>4 DEF HoldsItsOrigin
      <3>6. local' = [local EXCEPT ![w].refs = Append(local[w].refs, ref)]
        BY <1>1, <1>6, <2>3 DEF ResolveRef
      <3> HIDE DEF ref
      <3>7. /\ local'[w].refs = Append(local[w].refs, ref)
            /\ local'[w].config = local[w].config
        BY <1>1, <2>1, <3>6 DEF Local
      <3>8. local[w].refs \in Seq(ResolvedRef)
        BY <2>1 DEF Local
      <3>9. \A i \in DOMAIN local'[w].refs :
              local'[w].refs[i] = ref
              \/ (i \in DOMAIN local[w].refs
                  /\ local'[w].refs[i] = local[w].refs[i])
        BY <3>7, <3>8
      <3> QED
        BY <3>5, <3>7, <3>9 DEF Alone, RefsConfigured, Url
    <2> QED
      BY <2>2, <2>3
  <1>7. CASE (\E u \in Urls : UpstreamMoves(u)) \/ UNCHANGED vars
    BY <1>7 DEF UpstreamMoves, vars, RefsConfigured, Url
  <1> QED
    BY <1>3, <1>4, <1>5, <1>6, <1>7 DEF Next

(* A process that has the cache to itself returns commits of the           *)
(* configured repository only, whatever earlier, possibly killed fetches   *)
(* for other urls have left behind (git_repository.py:56-148).             *)
THEOREM SnapshotsOfConfiguredRepository ==
  Alone => (Spec => []OnlyConfiguredRepository)
  <1> DEFINE Inv == /\ TypeOK /\ CacheHoldsItsOrigin
                    /\ OriginChecked /\ RefsConfigured
  <1>1. ASSUME Alone
        PROVE  Spec => []OnlyConfiguredRepository
    <2>1. Init => Inv
      <3>1. Init => OriginChecked /\ RefsConfigured
        BY DEF Init, NoLocal, Entering, OriginChecked, RefsConfigured
      <3> QED
        BY <3>1, InitTyped
    <2>2. Inv /\ [Next]_vars => Inv'
      <3>1. ASSUME Inv, [Next]_vars
            PROVE  CacheHoldsItsOrigin'
        BY <3>1, CacheStep DEF CacheHoldsItsOrigin
      <3> QED
        BY <1>1, <3>1, TypeStep, OriginStep, RefsStep
    <2>3. Inv => OnlyConfiguredRepository
      BY DEF RefsConfigured, OnlyConfiguredRepository
    <2> QED
      BY <2>1, <2>2, <2>3, PTL DEF Spec
  <1> QED
    BY <1>1

-----------------------------------------------------------------------------
(* Freshness, with one process at a time: from the command that asked the  *)
(* repository on, the remote branches of the clone are those it saw, and   *)
(* nothing has been resolved before.                                       *)

Unresolved == {"probe", "compare", "delete", "clone", "cloning", "fetch"}

SeenIn(c, r) ==
  /\ r \in Repository
  /\ c.remotes = r.branches
  /\ \A n \in Names : r.tags[n] # None => c.tags[n] # None

RefsSeen(c, l) ==
  \A i \in DOMAIN l.refs :
    LET ref == l.refs[i]
    IN  ref.label \in Names /\ ref.type = "branch" /\ c.heads[ref.label] = None
          => ref.commit = l.seen.branches[ref.label]

AtWork(w) ==
  /\ pc[w] \in Unresolved => local[w].refs = <<>>
  /\ pc[w] \in {"resolve", "list"} =>
       SeenIn(cache, local[w].seen) /\ RefsSeen(cache, local[w])

(* Without kills a clone that nobody is making is whole: its HEAD leads to *)
(* a commit.                                                               *)
Whole(w) ==
  \/ MayCrash
  \/ /\ pc[w] = "cloning" => cloner = w
     /\ pc[w] # "cloning" /\ cache # None =>
          cache.default # None /\ cache.heads[cache.default] # None

FetchInOrder == TypeOK /\ \A w \in Workers : AtWork(w) /\ Whole(w)

(* A branch that is no local branch resolves to the remote one.            *)
LEMMA BranchResolved ==
  ASSUME NEW c \in Clone, NEW label, Found(c, label) # {}
  PROVE  /\ Resolve(c, label).label = label
         /\ label \in Names /\ c.heads[label] = None
              /\ Resolve(c, label).type = "branch" =>
                   Resolve(c, label).commit = c.remotes[label]
  <1>1. Resolve(c, label).label = label
    BY DEF Resolve
  <1>2. ASSUME label \in Names, c.heads[label] = None,
               Resolve(c, label).type = "branch"
        PROVE  Resolve(c, label).commit = c.remotes[label]
    <2> DEFINE tries == Candidates(c, label)
    <2>1. tries = << <<c.tags[label], "tag">>, <<c.heads[label], "branch">>,
                     <<c.remotes[label], "branch">> >>
      BY <1>2 DEF Candidates
    <2>2. Found(c, label) = {i \in DOMAIN tries : tries[i][1] # None}
      BY DEF Found
    <2> HIDE DEF tries
    <2>3. Found(c, label) \subseteq {1, 3}
      BY <1>2, <2>1, <2>2
    <2>4. \E i \in Found(c, label) : \A j \in Found(c, label) : i <= j
      BY <2>3
    <2>5. PICK i \in Found(c, label) :
            Resolve(c, label) = [label |-> label, commit |-> tries[i][1],
                                 type |-> tries[i][2]]
      BY <2>4 DEF Resolve, tries
    <2>6. i = 3
      BY <1>2, <2>1, <2>3, <2>5
    <2> QED
      BY <2>1, <2>5, <2>6
  <1> QED
    BY <1>1, <1>2

(* What the commands that ask the repository leave.                        *)
LEMMA ClonedFresh ==
  ASSUME NEW u \in Urls, NEW r \in Repositories[u]
  PROVE  /\ SeenIn(Cloned(u, r), r)
         /\ Cloned(u, r).default # None
         /\ Cloned(u, r).heads[Cloned(u, r).default] # None
  <1>1. /\ r \in Repository /\ r.default \in Names
        /\ r.branches[r.default] # None
    BY CacheAssumption DEF Repository
  <1>2. r.default # None
    BY <1>1, CacheAssumption
  <1> QED
    BY <1>1, <1>2 DEF Cloned, SeenIn, NoRefs

LEMMA FetchedFresh ==
  ASSUME NEW u \in Urls, NEW r \in Repositories[u], NEW c \in Clone
  PROVE  /\ SeenIn(Fetched(c, r), r)
         /\ Fetched(c, r).default = c.default /\ Fetched(c, r).heads = c.heads
  <1> DEFINE tags == [n \in Names |-> IF c.tags[n] # None THEN c.tags[n]
                                                          ELSE r.tags[n]]
  <1>1. \A n \in Names : r.tags[n] # None => tags[n] # None
    OBVIOUS
  <1> HIDE DEF tags
  <1>2. /\ Fetched(c, r).remotes = r.branches /\ Fetched(c, r).tags = tags
        /\ Fetched(c, r).default = c.default /\ Fetched(c, r).heads = c.heads
    BY DEF Fetched, Clone, tags
  <1>3. r \in Repository
    BY CacheAssumption
  <1> QED
    BY <1>1, <1>2, <1>3 DEF SeenIn

(* Steps after which w is at a place where little is claimed.              *)
LEMMA RestFresh ==
  ASSUME FetchInOrder, NEW w \in Workers,
         \/ \E config \in Configs : Begin(w, config)
         \/ Probe(w) \/ CompareUrl(w) \/ Delete(w)
         \/ CloneBegins(w) \/ CloneRefused(w) \/ CloneFails(w) \/ CacheGone(w)
         \/ FetchFails(w) \/ ListAndReturn(w) \/ ListFails(w) \/ Kill(w)
  PROVE  AtWork(w)' /\ Whole(w)'
  <1>1. pc \in [Workers -> Places] /\ local \in [Workers -> Local]
    BY DEF FetchInOrder, TypeOK, LocalsTyped
  <1>2. AtWork(w) /\ Whole(w)
    BY DEF FetchInOrder
  <1>3. CASE \E config \in Configs : Begin(w, config)
    <2>1. /\ pc'[w] \in {"failed", "probe"} /\ local'[w].refs = <<>>
          /\ pc[w] # "cloning" /\ UNCHANGED <<cache, cloner>>
      BY <1>1, <1>3 DEF Begin, Goto, Entering
    <2> QED
      BY <1>2, <2>1 DEF AtWork, Whole
  <1>4. CASE Probe(w)
    <2>1. /\ pc[w] = "probe" /\ UNCHANGED <<cache, cloner, local>>
          /\ cache = None => pc'[w] = "clone"
          /\ cache # None => pc'[w] = "compare"
      BY <1>1, <1>4 DEF Probe, Goto
    <2> QED
      BY <1>2, <2>1 DEF AtWork, Whole, Unresolved
  <1>5. CASE CompareUrl(w)
    <2>1. /\ pc[w] = "compare" /\ UNCHANGED <<cache, cloner, local>>
          /\ pc'[w] \in {"fetch", "delete"}
      BY <1>1, <1>5 DEF CompareUrl, Goto
    <2> QED
      BY <1>2, <2>1 DEF AtWork, Whole, Unresolved
  <1>6. CASE Delete(w)
    <2>1. /\ pc[w] = "delete" /\ cache' = None /\ UNCHANGED local
          /\ pc'[w] = "clone"
      BY <1>1, <1>6 DEF Delete, Goto
    <2> QED
      BY <1>2, <2>1 DEF AtWork, Whole, Unresolved
  <1>7. CASE CloneBegins(w)
    <2>1. /\ pc[w] = "clone" /\ cloner' = w /\ UNCHANGED local
          /\ pc'[w] = "cloning"
      BY <1>1, <1>7 DEF CloneBegins, Goto
    <2> QED
      BY <1>2, <2>1 DEF AtWork, Whole, Unresolved
  <1>8. CASE CloneFails(w)
    <2>1. pc[w] = "cloning" /\ pc'[w] = "failed"
      BY <1>1, <1>8 DEF CloneFails, Fails, Goto
    <2>2. MayCrash \/ cache' = None
      BY <1>2, <1>8, <2>1 DEF CloneFails, Whole
    <2> QED
      BY <2>1, <2>2 DEF AtWork, Whole, Unresolved
  <1>9. CASE \/ CloneRefused(w) \/ CacheGone(w) \/ FetchFails(w)
             \/ ListAndReturn(w) \/ ListFails(w)
    <2>1. /\ pc'[w] \in {"failed", "returned"} /\ pc[w] # "cloning"
          /\ UNCHANGED <<cache, cloner>>
      BY <1>1, <1>9 DEF CloneRefused, CacheGone, FetchFails, ListAndReturn,
           ListFails, Fails, Goto
    <2> QED
      BY <1>2, <2>1 DEF AtWork, Whole, Unresolved
  <1>10. CASE Kill(w)
    <2>1. MayCrash /\ pc'[w] = "idle"
      BY <1>1, <1>10 DEF Kill, Goto
    <2> QED
      BY <2>1 DEF AtWork, Whole, Unresolved
  <1> QED
    BY <1>3, <1>4, <1>5, <1>6, <1>7, <1>8, <1>9, <1>10

(* The commands that ask the repository.                                   *)
LEMMA AskedFresh ==
  ASSUME FetchInOrder, NEW w \in Workers, CloneEnds(w) \/ FetchOrigin(w)
  PROVE  AtWork(w)' /\ Whole(w)'
  <1>1. /\ pc \in [Workers -> Places] /\ local \in [Workers -> Local]
        /\ \A u \in Urls : upstream[u] \in Repositories[u]
        /\ cache \in Clone \cup {None}
    BY DEF FetchInOrder, TypeOK, LocalsTyped
  <1>2. AtWork(w) /\ Whole(w)
    BY DEF FetchInOrder
  <1>3. local[w] \in Local /\ local[w].refs = <<>>
    BY <1>1, <1>2 DEF AtWork, Unresolved, CloneEnds, FetchOrigin
  <1>4. ASSUME NEW r, local' = [local EXCEPT ![w].seen = r]
        PROVE  local'[w].seen = r /\ RefsSeen(cache', local'[w])
    <2>1. local'[w].seen = r /\ local'[w].refs = <<>>
      BY <1>1, <1>3, <1>4 DEF Local
    <2> QED
      BY <2>1 DEF RefsSeen
  <1>5. CASE CloneEnds(w)
    <2>1. Url(w) \in Urls
      BY <1>5 DEF FetchInOrder, TypeOK, LocalsTyped, CloneEnds
    <2>2. /\ cache' = Cloned(Url(w), upstream[Url(w)])
          /\ pc'[w] = "resolve"
          /\ local' = [local EXCEPT ![w].seen = upstream[Url(w)]]
      BY <1>1, <1>5 DEF CloneEnds, Goto
    <2>3. /\ SeenIn(cache', upstream[Url(w)])
          /\ cache'.default # None /\ cache'.heads[cache'.default] # None
      BY <1>1, <2>1, <2>2, ClonedFresh
    <2> QED
      BY <1>4, <2>2, <2>3 DEF AtWork, Whole, Unresolved
  <1>6. CASE FetchOrigin(w)
    <2>1. /\ cache \in Clone /\ cache.url \in Urls
          /\ cache # None /\ pc[w] = "fetch"
      BY <1>1, <1>6 DEF FetchOrigin, Clone
    <2> DEFINE r == upstream[cache.url]
    <2>2. r \in Repositories[cache.url]
      BY <1>1, <2>1
    <2>3. /\ cache' = Fetched(cache, r)
          /\ \/ pc'[w] = "failed"
             \/ pc'[w] = "resolve" /\ local' = [local EXCEPT ![w].seen = r]
      BY <1>1, <1>6 DEF FetchOrigin, Fails, Goto
    <2>4. /\ SeenIn(cache', r)
          /\ cache'.default = cache.default /\ cache'.heads = cache.heads
      BY <2>1, <2>2, <2>3, FetchedFresh
    <2> HIDE DEF r
    <2>5. Whole(w)'
      <3>1. pc'[w] # "cloning"
        BY <2>3
      <3> QED
        BY <1>2, <2>1, <2>4, <3>1 DEF Whole
    <2>6. CASE pc'[w] = "failed"
      BY <2>5, <2>6 DEF AtWork, Unresolved
    <2>7. CASE /\ pc'[w] = "resolve"
               /\ local' = [local EXCEPT ![w].seen = r]
      <3>1. local'[w].seen = r /\ RefsSeen(cache', local'[w])
        BY ONLY <1>4, <2>7
      <3> QED
        BY <2>4, <2>5, <2>7, <3>1 DEF AtWork, Unresolved
    <2> QED
      BY <2>3, <2>6, <2>7
  <1> QED
    BY <1>5, <1>6

LEMMA ResolvedFresh ==
  ASSUME FetchInOrder, NEW w \in Workers, ResolveRef(w)
  PROVE  AtWork(w)' /\ Whole(w)'
  <1>1. /\ pc \in [Workers -> Places] /\ local \in [Workers -> Local]
        /\ cache \in Clone
    BY DEF FetchInOrder, TypeOK, LocalsTyped, ResolveRef
  <1>2. AtWork(w) /\ Whole(w) /\ pc[w] = "resolve" /\ cache # None
        /\ UNCHANGED <<cache, cloner>>
    BY DEF FetchInOrder, ResolveRef
  <1>3. pc'[w] \in {"failed", "resolve", "list"}
    BY <1>1 DEF ResolveRef, Fails, Goto
  <1>4. Whole(w)'
    BY <1>2, <1>3 DEF Whole
  <1>5. CASE Found(cache, NextLabel(w)) = {}
    <2>1. pc'[w] = "failed"
      BY <1>1, <1>5 DEF ResolveRef, Fails, Goto
    <2> QED
      BY <1>4, <2>1 DEF AtWork, Unresolved
  <1>6. CASE Found(cache, NextLabel(w)) # {}
    <2> DEFINE ref == Resolve(cache, NextLabel(w))
    <2>1. /\ ref.label \in Names /\ cache.heads[ref.label] = None
               /\ ref.type = "branch" =>
                    ref.commit = cache.remotes[ref.label]
      <3> DEFINE label == NextLabel(w)
      <3> HIDE DEF label
      <3>1. Resolve(cache, label).label = label
        BY <1>1, <1>6, BranchResolved DEF label
      <3>2. /\ label \in Names /\ cache.heads[label] = None
                 /\ Resolve(cache, label).type = "branch" =>
                      Resolve(cache, label).commit = cache.remotes[label]
        BY <1>1, <1>6, BranchResolved DEF label
      <3> QED
        BY <3>1, <3>2 DEF label
    <2>2. local' = [local EXCEPT ![w].refs = Append(local[w].refs, ref)]
      BY <1>1, <1>6 DEF ResolveRef
    <2> HIDE DEF ref
    <2>3. /\ local'[w].refs = Append(local[w].refs, ref)
          /\ local'[w].seen = local[w].seen
          /\ local[w].refs \in Seq(ResolvedRef)
      BY <1>1, <2>2 DEF Local
    <2>4. \A i \in DOMAIN local'[w].refs :
            local'[w].refs[i] = ref
            \/ (i \in DOMAIN local[w].refs
                /\ local'[w].refs[i] = local[w].refs[i])
      BY <2>3
    <2>5. SeenIn(cache, local[w].seen) /\ RefsSeen(cache, local[w])
      BY <1>2 DEF AtWork
    <2>6. RefsSeen(cache', local'[w])
      <3> SUFFICES ASSUME NEW i \in DOMAIN local'[w].refs,
                          local'[w].refs[i].label \in Names,
                          local'[w].refs[i].type = "branch",
                          cache.heads[local'[w].refs[i].label] = None
                   PROVE  local'[w].refs[i].commit
                            = local'[w].seen.branches[local'[w].refs[i].label]
        BY <1>2 DEF RefsSeen
      <3>1. CASE local'[w].refs[i] = ref
        BY <2>1, <2>3, <2>5, <3>1 DEF SeenIn
      <3>2. CASE i \in DOMAIN local[w].refs
                 /\ local'[w].refs[i] = local[w].refs[i]
        BY <2>3, <2>5, <3>2 DEF RefsSeen
      <3> QED
        BY <2>4, <3>1, <3>2
    <2> QED
      BY <1>2, <1>3, <1>4, <2>3, <2>5, <2>6 DEF AtWork, Unresolved
  <1> QED
    BY <1>5, <1>6

LEMMA FetchStaysInOrder == Alone => (Spec => []FetchInOrder)
  <1> SUFFICES ASSUME Alone
               PROVE  Spec => []FetchInOrder
    OBVIOUS
  <1>1. Init => FetchInOrder
    <2> SUFFICES ASSUME Init, NEW w \in Workers
                 PROVE  AtWork(w) /\ Whole(w)
      BY InitTyped DEF FetchInOrder
    <2> QED
      BY DEF Init, AtWork, Whole, Unresolved
  <1>2. FetchInOrder /\ CacheHoldsItsOrigin /\ [Next]_vars => FetchInOrder'
    <2> SUFFICES ASSUME FetchInOrder, CacheHoldsItsOrigin, [Next]_vars
                 PROVE  FetchInOrder'
      OBVIOUS
    <2>1. TypeOK'
      BY TypeStep DEF FetchInOrder
    <2>2. CASE UNCHANGED <<cache, cloner, pc, local>>
      BY <2>1, <2>2 DEF FetchInOrder, AtWork, Whole
    <2>3. ASSUME NEW w \in Workers, AtWork(w)' /\ Whole(w)'
          PROVE  FetchInOrder'
      BY <2>1, <2>3 DEF Alone, FetchInOrder
    <2>4. CASE \E w \in Workers :
                 \/ \E config \in Configs : Begin(w, config)
                 \/ Probe(w) \/ CompareUrl(w) \/ Delete(w)
                 \/ CloneBegins(w) \/ CloneRefused(w) \/ CloneFails(w)
                 \/ CacheGone(w) \/ FetchFails(w) \/ ListAndReturn(w)
                 \/ ListFails(w) \/ Kill(w)
      BY <2>3, <2>4, RestFresh
    <2>5. CASE \E w \in Workers : CloneEnds(w) \/ FetchOrigin(w)
      BY <2>3, <2>5, AskedFresh
    <2>6. CASE \E w \in Workers : ResolveRef(w)
      BY <2>3, <2>6, ResolvedFresh
    <2>7. CASE (\E u \in Urls : UpstreamMoves(u)) \/ UNCHANGED vars
      BY <2>2, <2>7 DEF UpstreamMoves, vars
    <2> QED
      BY <2>4, <2>5, <2>6, <2>7 DEF Next
  <1> QED
    BY <1>1, <1>2, CacheNeverMixes, PTL DEF Spec

(* A process that has the cache to itself returns for every branch but the *)
(* clone's own the commit the repository showed this fetch, whatever       *)
(* earlier fetches, tags and prunes left (git_repository.py:146, 158-177). *)
THEOREM RemoteBranchesStayFresh == Alone => (Spec => []RemoteBranchesFresh)
  <1>1. FetchInOrder => RemoteBranchesFresh
    <2> SUFFICES ASSUME FetchInOrder, NEW w \in Workers, pc[w] = "list",
                        NEW i \in DOMAIN local[w].refs,
                        local[w].refs[i].label \in Names,
                        cache.heads[local[w].refs[i].label] = None
                 PROVE  Fresh(w, local[w].refs[i])
      BY DEF RemoteBranchesFresh
    <2> QED
      BY DEF FetchInOrder, AtWork, RefsSeen, Fresh
  <1> QED
    BY <1>1, FetchStaysInOrder, PTL

(* A fetch that has the cache to itself only fails to resolve a name the   *)
(* repository no longer has, and HEAD only after a kill                    *)
(* (git_repository.py:158-177).                                            *)
THEOREM UnresolvedIsGone == Alone => (Spec => []UnresolvedOnlyWhenGone)
  <1>1. FetchInOrder => UnresolvedOnlyWhenGone
    <2> SUFFICES ASSUME FetchInOrder, NEW w \in Workers, pc[w] = "resolve",
                        cache # None, NEW label, label = NextLabel(w),
                        Found(cache, label) = {}
                 PROVE  /\ label \in Names =>
                             local[w].seen.branches[label] = None
                             /\ local[w].seen.tags[label] = None
                        /\ label = HEAD => MayCrash
      BY DEF UnresolvedOnlyWhenGone
    <2>1. SeenIn(cache, local[w].seen) /\ Whole(w)
      BY DEF FetchInOrder, AtWork
    <2>2. ASSUME label \in Names
          PROVE  local[w].seen.branches[label] = None
                 /\ local[w].seen.tags[label] = None
      <3>1. Candidates(cache, label)
              = << <<cache.tags[label], "tag">>, <<cache.heads[label], "branch">>,
                   <<cache.remotes[label], "branch">> >>
        BY <2>2 DEF Candidates
      <3>2. cache.tags[label] = None /\ cache.remotes[label] = None
        BY <3>1 DEF Found
      <3> QED
        BY <2>1, <2>2, <3>2 DEF SeenIn
    <2>3. ASSUME label = HEAD, ~MayCrash
          PROVE  FALSE
      <3>1. Candidates(cache, label)
              = << <<Target(cache, cache.remotes), "branch">>,
                   <<Target(cache, cache.heads), "commit">> >>
        BY <2>3, CacheAssumption DEF Candidates
      <3>2. Target(cache, cache.heads) = None
        BY <3>1 DEF Found
      <3>3. cache.default # None /\ cache.heads[cache.default] # None
        BY <2>1, <2>3 DEF Whole
      <3> QED
        BY <3>2, <3>3 DEF Target
    <2> QED
      BY <2>2, <2>3
  <1> QED
    BY <1>1, FetchStaysInOrder, PTL

-----------------------------------------------------------------------------
(* Tags.                                                                   *)

(* A directory that `git clone` is filling is empty.                       *)
CloneFromNothing == cloner # None => cache = Blank(None)

LEMMA CloneStartsEmpty ==
  ASSUME TypeOK, CloneFromNothing, [Next]_vars
  PROVE  CloneFromNothing'
  <1>1. /\ pc \in [Workers -> Places] /\ None \notin Workers
        /\ cache # None => cache \in Clone
    BY CacheAssumption DEF TypeOK, LocalsTyped
  <1>2. CASE UNCHANGED <<cache, cloner>>
    BY <1>2 DEF CloneFromNothing
  <1>3. ASSUME NEW w \in Workers, Delete(w) \/ CloneBegins(w) \/ CloneEnds(w)
        PROVE  CloneFromNothing'
    BY <1>3 DEF CloneFromNothing, Delete, CloneBegins, CloneEnds
  <1>4. ASSUME NEW w \in Workers, CloneFails(w)
        PROVE  CloneFromNothing'
    BY <1>4 DEF CloneFromNothing, CloneFails
  <1>5. ASSUME NEW w \in Workers, FetchOrigin(w)
        PROVE  CloneFromNothing'
    BY <1>5 DEF CloneFromNothing, FetchOrigin, Blank
  <1>6. ASSUME NEW w \in Workers, Kill(w)
        PROVE  CloneFromNothing'
    <2>1. CASE cloner = w
      BY <1>6, <2>1 DEF CloneFromNothing, Kill
    <2>2. CASE cloner # w /\ cloner # None
      <3>1. cloner' = cloner /\ cache = Blank(None) /\ cache.url = None
        BY <1>6, <2>2 DEF CloneFromNothing, Kill, Blank
      <3>2. HalfDeleted(cache) = {Blank(None)}
        BY <3>1 DEF HalfDeleted
      <3> QED
        BY <1>6, <2>2, <3>1, <3>2 DEF CloneFromNothing, Kill
    <2>3. CASE cloner = None
      BY <1>1, <1>6, <2>3 DEF CloneFromNothing, Kill
    <2> QED
      BY <2>1, <2>2, <2>3
  <1> QED
    BY <1>2, <1>3, <1>4, <1>5, <1>6
    DEF Next, vars, UpstreamMoves, Begin, Probe, CompareUrl, CacheGone,
        CloneRefused, FetchFails, ResolveRef, ListAndReturn, ListFails

(* What a fetch and an unfinished deletion do to the tags of a clone.      *)
LEMMA FetchKeepsTags ==
  ASSUME NEW c \in Clone, NEW r, NEW n \in Names, c.tags[n] # None
  PROVE  Fetched(c, r).tags[n] = c.tags[n]
  <1> DEFINE tags == [m \in Names |-> IF c.tags[m] # None THEN c.tags[m]
                                                          ELSE r.tags[m]]
  <1>1. tags[n] = c.tags[n]
    OBVIOUS
  <1> HIDE DEF tags
  <1>2. Fetched(c, r).tags = tags
    BY DEF Fetched, Clone, tags
  <1> QED
    BY <1>1, <1>2

LEMMA DeletionDropsTags ==
  ASSUME NEW c, NEW d \in HalfDeleted(c), NEW n \in Names
  PROVE  d.tags[n] \in {c.tags[n], None}
  BY DEF HalfDeleted, Blank, NoRefs

(* Every other write of the directory is of an empty one, or ends without. *)
LEMMA TagsKept ==
  ASSUME TypeOK, CloneFromNothing, [Next]_vars
  PROVE  [TagKept]_vars
  <1>1. /\ pc \in [Workers -> Places] /\ None \notin Workers
        /\ cache # None => cache \in Clone
    BY CacheAssumption DEF TypeOK, LocalsTyped
  <1>2. \A n \in Names : Blank(None).tags[n] = None
    BY DEF Blank, NoRefs
  <1>3. ASSUME cache' = cache
        PROVE  TagKept
    BY <1>3 DEF TagKept
  <1>4. ASSUME cache = None \/ cache' = None \/ cache = Blank(None)
        PROVE  TagKept
    BY <1>2, <1>4 DEF TagKept
  <1>5. ASSUME NEW r, cache \in Clone, cache' = Fetched(cache, r)
        PROVE  TagKept
    BY <1>5, FetchKeepsTags DEF TagKept
  <1>6. ASSUME cache' \in HalfDeleted(cache)
        PROVE  TagKept
    BY <1>6, DeletionDropsTags DEF TagKept
  <1>7. ASSUME NEW w \in Workers, Kill(w), cache' # cache
        PROVE  TagKept
    <2>1. CASE pc[w] = "delete" /\ cache # None
      <3>1. cache' \in HalfDeleted(cache)
        BY <1>7, <2>1 DEF Kill
      <3> QED
        BY <1>6, <3>1
    <2>2. CASE pc[w] = "cloning" /\ cloner = w
      BY <1>1, <1>4, <2>2 DEF CloneFromNothing
    <2>3. CASE pc[w] = "fetch" /\ cache # None /\ cache.url # None
      <3>1. cache' = Fetched(cache, upstream[cache.url])
        BY <1>7, <2>3 DEF Kill
      <3> QED
        BY <1>1, <1>5, <2>3, <3>1
    <2> QED
      BY <1>7, <2>1, <2>2, <2>3 DEF Kill
  <1>8. ASSUME NEW w \in Workers,
               Delete(w) \/ CloneBegins(w) \/ CloneEnds(w) \/ CloneFails(w)
        PROVE  TagKept
    <2>1. cache = None \/ cache' = None \/ cache = Blank(None) \/ cache' = cache
      BY <1>1, <1>8 DEF CloneFromNothing, Delete, CloneBegins, CloneEnds, CloneFails
    <2> QED
      BY <1>3, <1>4, <2>1
  <1>9. ASSUME NEW w \in Workers, FetchOrigin(w)
        PROVE  TagKept
    <2>1. cache # None /\ cache' = Fetched(cache, upstream[cache.url])
      BY <1>9 DEF FetchOrigin
    <2> QED
      BY <1>1, <1>5, <2>1
  <1> QED
    BY <1>3, <1>7, <1>8, <1>9
    DEF Next, vars, UpstreamMoves, Begin, Probe, CompareUrl, CacheGone,
        CloneRefused, FetchFails, ResolveRef, ListAndReturn, ListFails

(* A tag once resolved to a commit never names another one while the clone *)
(* lasts, for any number of overlapping, failing and killed processes      *)
(* (git_repository.py:146: fetch --tags without --force).                  *)
THEOREM ResolvedTagsStay == Spec => TagsNeverMove
  <1>1. Init => CloneFromNothing
    BY DEF Init, CloneFromNothing
  <1>2. TypeOK /\ CloneFromNothing /\ [Next]_vars => CloneFromNothing'
    BY CloneStartsEmpty
  <1>3. TypeOK /\ CloneFromNothing /\ [Next]_vars => [TagKept]_vars
    BY TagsKept
  <1> QED
    BY <1>1, <1>2, <1>3, FetchTypeCorrect, PTL DEF Spec, TagsNeverMove

-----------------------------------------------------------------------------
(* The answers.  Each name of the clone is at a commit that the origin has *)
(* shown under this very name.                                             *)
NamesShown(c, u) ==
  /\ c.default # None => \E r \in Repositories[u] : r.default = c.default
  /\ \A n \in Names : /\ c.heads[n] # None => c.heads[n] \in BranchShown(u, n)
                      /\ c.remotes[n] # None => c.remotes[n] \in BranchShown(u, n)
                      /\ c.tags[n] # None => c.tags[n] \in TagShown(u, n)

NamesOfOrigin == cache # None /\ cache.url # None => NamesShown(cache, cache.url)

LEMMA BlankNames ==
  ASSUME NEW u, NEW v
  PROVE  NamesShown(Blank(v), u)
  BY DEF NamesShown, Blank, NoRefs

LEMMA ClonedNames ==
  ASSUME NEW u \in Urls, NEW r \in Repositories[u]
  PROVE  /\ Cloned(u, r).url = u
         /\ NamesShown(Cloned(u, r), u)
  <1>1. r.branches \in Refs /\ r.tags \in Refs /\ r.default \in Names
    BY ShownFacts DEF Repository
  <1>2. PICK c : c = Cloned(u, r)
    OBVIOUS
  <1>3. /\ c.url = u /\ c.remotes = r.branches /\ c.tags = r.tags /\ c.default = r.default
        /\ c.heads = [NoRefs EXCEPT ![r.default] = r.branches[r.default]]
    BY <1>2 DEF Cloned
  <1>4. \A n \in Names : c.heads[n] \in {None, r.branches[n]}
    BY <1>1, <1>3 DEF NoRefs
  <1>5. \A n \in Names : /\ r.branches[n] # None => r.branches[n] \in BranchShown(u, n)
                         /\ r.tags[n] # None => r.tags[n] \in TagShown(u, n)
    BY DEF BranchShown, TagShown
  <1> QED
    BY <1>2, <1>3, <1>4, <1>5 DEF NamesShown

LEMMA FetchedNames ==
  ASSUME NEW u \in Urls, NEW r \in Repositories[u], NEW c \in Clone, NamesShown(c, u)
  PROVE  /\ Fetched(c, r).url = c.url
         /\ NamesShown(Fetched(c, r), u)
  <1>1. PICK d : d = Fetched(c, r)
    OBVIOUS
  <1>2. /\ d.url = c.url /\ d.default = c.default /\ d.heads = c.heads
        /\ d.remotes = r.branches
        /\ d.tags = [n \in Names |-> IF c.tags[n] # None THEN c.tags[n] ELSE r.tags[n]]
    BY <1>1 DEF Fetched, Clone
  <1>3. \A n \in Names : d.tags[n] \in {c.tags[n], r.tags[n]}
    BY <1>2
  <1>4. \A n \in Names : /\ r.branches[n] # None => r.branches[n] \in BranchShown(u, n)
                         /\ r.tags[n] # None => r.tags[n] \in TagShown(u, n)
    BY DEF BranchShown, TagShown
  <1> QED
    BY <1>1, <1>2, <1>3, <1>4 DEF NamesShown

LEMMA HalfClonedNames ==
  ASSUME NEW u \in Urls, NEW r \in Repositories[u], NEW c \in HalfCloned(u, r)
  PROVE  c.url \in {None, u} /\ NamesShown(c, u)
  <1>1. CASE c \in {Blank(None), Blank(u)}
    <2>1. c.url \in {None, u}
      BY <1>1 DEF Blank
    <2> QED
      BY <1>1, <2>1, BlankNames
  <1>2. CASE \E d \in {None, r.default} :
               c = [Cloned(u, r) EXCEPT !.heads = NoRefs, !.default = d]
    <2>1. PICK d \in {None, r.default} :
            c = [Cloned(u, r) EXCEPT !.heads = NoRefs, !.default = d]
      BY <1>2
    <2>2. PICK full : full = Cloned(u, r)
      OBVIOUS
    <2>3. full \in Clone /\ full.url = u /\ NamesShown(full, u)
      BY <2>2, ClonedFacts, ClonedNames
    <2>4. /\ c.url = u /\ c.heads = NoRefs /\ c.remotes = full.remotes
          /\ c.tags = full.tags /\ c.default = d
      BY <2>1, <2>2, <2>3 DEF Clone
    <2>5. \A n \in Names : c.heads[n] = None
      BY <2>4 DEF NoRefs
    <2> QED
      BY <2>3, <2>4, <2>5 DEF NamesShown
  <1> QED
    BY <1>1, <1>2 DEF HalfCloned

(* What a step does to the cache.                                          *)
CacheMoves ==
  \/ cache' = None \/ cache' = cache
  \/ \E u \in Urls \cup {None} : cache' = Blank(u)
  \/ \E u \in Urls : cache' = Cloned(u, upstream[u])
                     \/ cache' \in HalfCloned(u, upstream[u])
  \/ cache # None /\ cache.url # None /\ cache' = Fetched(cache, upstream[cache.url])

LEMMA CacheIsMoved ==
  ASSUME TypeOK, [Next]_vars
  PROVE  CacheMoves
  <1>1. ASSUME NEW w \in Workers, Kill(w)
        PROVE  CacheMoves
    <2>1. CASE pc[w] = "delete" /\ cache # None
      <3>1. cache' \in {cache, Blank(cache.url), Blank(None)}
        BY <1>1, <2>1 DEF Kill, HalfDeleted
      <3>2. cache.url \in Urls \cup {None}
        BY <2>1 DEF TypeOK, Clone
      <3> QED
        BY <3>1, <3>2 DEF CacheMoves
    <2>2. CASE pc[w] = "cloning" /\ cloner = w
      <3>1. cache' \in HalfCloned(Url(w), upstream[Url(w)])
        BY <1>1, <2>2 DEF Kill
      <3>2. Url(w) \in Urls
        BY <2>2 DEF TypeOK, LocalsTyped
      <3> QED
        BY <3>1, <3>2 DEF CacheMoves
    <2>3. CASE pc[w] = "fetch" /\ cache # None /\ cache.url # None
      <3>1. cache' \in {cache, Fetched(cache, upstream[cache.url])}
        BY <1>1, <2>3 DEF Kill
      <3> QED
        BY <2>3, <3>1 DEF CacheMoves
    <2>4. CASE /\ ~(pc[w] = "delete" /\ cache # None)
               /\ ~(pc[w] = "cloning" /\ cloner = w)
               /\ ~(pc[w] = "fetch" /\ cache # None /\ cache.url # None)
      <3>1. cache' = cache
        BY <1>1, <2>4 DEF Kill
      <3> QED
        BY <3>1 DEF CacheMoves
    <2> QED
      BY <2>1, <2>2, <2>3, <2>4
  <1>2. ASSUME NEW w \in Workers, Delete(w) \/ CloneBegins(w) \/ CloneFails(w)
        PROVE  CacheMoves
    <2>1. cache' = None \/ cache' = cache \/ cache' = Blank(None)
      BY <1>2 DEF Delete, CloneBegins, CloneFails
    <2> QED
      BY <2>1 DEF CacheMoves
  <1>3. ASSUME NEW w \in Workers, CloneEnds(w)
        PROVE  CacheMoves
    <2>1. cache' = Cloned(Url(w), upstream[Url(w)])
      BY <1>3 DEF CloneEnds
    <2>2. Url(w) \in Urls
      BY <1>3 DEF CloneEnds, TypeOK, LocalsTyped
    <2> QED
      BY <2>1, <2>2 DEF CacheMoves
  <1>4. ASSUME NEW w \in Workers, FetchOrigin(w)
        PROVE  CacheMoves
    BY <1>4 DEF FetchOrigin, CacheMoves
  <1>5. ASSUME cache' = cache
        PROVE  CacheMoves
    BY <1>5 DEF CacheMoves
  <1>6. ASSUME NEW w \in Workers,
               \/ \E config \in Configs : Begin(w, config)
               \/ Probe(w) \/ CompareUrl(w) \/ CacheGone(w)
               \/ CloneRefused(w) \/ FetchFails(w) \/ ResolveRef(w)
               \/ ListAndReturn(w) \/ ListFails(w)
        PROVE  cache' = cache
    BY <1>6 DEF Begin, Probe, CompareUrl, CacheGone, CloneRefused, FetchFails,
                ResolveRef, ListAndReturn, ListFails
  <1>7. CASE (\E u \in Urls : UpstreamMoves(u)) \/ UNCHANGED vars
    BY <1>5, <1>7 DEF UpstreamMoves, vars
  <1> QED
    BY <1>1, <1>2, <1>3, <1>4, <1>5, <1>6, <1>7 DEF Next

LEMMA NamesStep ==
  ASSUME TypeOK, NamesOfOrigin, [Next]_vars
  PROVE  NamesOfOrigin'
  <1>1. \A u \in Urls : upstream[u] \in Repositories[u]
    BY DEF TypeOK
  <1>2. CASE cache' = None \/ cache' = cache
    BY <1>2 DEF NamesOfOrigin, NamesShown, BranchShown, TagShown
  <1>3. ASSUME NEW u, NamesShown(cache', u), cache'.url \in {None, u}
        PROVE  NamesOfOrigin'
    BY <1>3 DEF NamesOfOrigin, NamesShown, BranchShown, TagShown
  <1>4. ASSUME NEW u \in Urls \cup {None}, cache' = Blank(u)
        PROVE  NamesOfOrigin'
    <2>1. cache'.url = u
      BY <1>4 DEF Blank
    <2> QED
      BY <1>3, <1>4, <2>1, BlankNames
  <1>5. ASSUME NEW u \in Urls, cache' = Cloned(u, upstream[u])
        PROVE  NamesOfOrigin'
    BY <1>1, <1>3, <1>5, ClonedNames
  <1>6. ASSUME NEW u \in Urls, cache' \in HalfCloned(u, upstream[u])
        PROVE  NamesOfOrigin'
    BY <1>1, <1>3, <1>6, HalfClonedNames
  <1>7. CASE /\ cache # None /\ cache.url # None
             /\ cache' = Fetched(cache, upstream[cache.url])
    <2>1. cache \in Clone /\ cache.url \in Urls
      BY <1>7 DEF TypeOK, Clone
    <2>2. NamesShown(cache, cache.url)
      BY <1>7 DEF NamesOfOrigin
    <2>3. cache'.url = cache.url /\ NamesShown(cache', cache.url)
      BY <1>1, <1>7, <2>1, <2>2, FetchedNames
    <2> QED
      BY <1>3, <2>3
  <1> QED
    BY <1>2, <1>4, <1>5, <1>6, <1>7, CacheIsMoved DEF CacheMoves

(* _resolve_ref answers with the first of the names that exists.           *)
LEMMA FirstFound ==
  ASSUME NEW c, NEW label, Found(c, label) # {}
  PROVE  \E i \in DOMAIN Candidates(c, label) :
           /\ Candidates(c, label)[i][1] # None
           /\ Resolve(c, label) = [label |-> label, commit |-> Candidates(c, label)[i][1],
                                   type |-> Candidates(c, label)[i][2]]
  <1>1. DOMAIN Candidates(c, label) \subseteq {1, 2, 3}
    BY DEF Candidates
  <1>2. Found(c, label) \subseteq {1, 2, 3}
    BY <1>1 DEF Found
  <1>3. \E i \in Found(c, label) : \A j \in Found(c, label) : i <= j
    BY <1>2
  <1>4. PICK i : i = CHOOSE k \in Found(c, label) : \A j \in Found(c, label) : k <= j
    OBVIOUS
  <1>5. i \in Found(c, label)
    BY <1>3, <1>4
  <1>6. Resolve(c, label) = [label |-> label, commit |-> Candidates(c, label)[i][1],
                             type |-> Candidates(c, label)[i][2]]
    BY <1>4 DEF Resolve
  <1>7. i \in DOMAIN Candidates(c, label) /\ Candidates(c, label)[i][1] # None
    BY <1>5 DEF Found
  <1> QED
    BY <1>6, <1>7

LEMMA AnAnswer ==
  ASSUME NEW label, NEW commits, NEW types, NEW c \in commits, NEW t \in types
  PROVE  [label |-> label, commit |-> c, type |-> t] \in AnswersOf(label, commits, types)
  BY DEF AnswersOf

(* What a clone of u resolves a label to answers this label for u.         *)
LEMMA ResolveShown ==
  ASSUME NEW u, NEW c \in Clone, NamesShown(c, u), c.objects \subseteq ShownBy(u),
         NEW label \in Names \cup Commits \cup {HEAD}, Found(c, label) # {}
  PROVE  Resolve(c, label) \in ShownAs(u, label)
  <1>1. PICK tries : tries = Candidates(c, label)
    OBVIOUS
  <1>2. PICK i \in DOMAIN tries :
          /\ tries[i][1] # None
          /\ Resolve(c, label) = [label |-> label, commit |-> tries[i][1],
                                  type |-> tries[i][2]]
    BY <1>1, FirstFound
  <1>3. PICK commit : commit = tries[i][1]
    OBVIOUS
  <1>4. PICK type : type = tries[i][2]
    OBVIOUS
  <1>5. Resolve(c, label) = [label |-> label, commit |-> commit, type |-> type]
    BY <1>2, <1>3, <1>4
  <1>6. CASE label \in Names
    <2>1. tries = << <<c.tags[label], "tag">>, <<c.heads[label], "branch">>,
                     <<c.remotes[label], "branch">> >>
      BY <1>1, <1>6 DEF Candidates
    <2>2. \/ type = "tag" /\ commit = c.tags[label]
          \/ type = "branch" /\ commit \in {c.heads[label], c.remotes[label]}
      BY <1>2, <1>3, <1>4, <2>1
    <2>3. \/ type = "tag" /\ commit \in TagShown(u, label)
          \/ type = "branch" /\ commit \in BranchShown(u, label)
      BY <1>2, <1>3, <1>6, <2>2 DEF NamesShown
    <2>4. \/ Resolve(c, label) \in AnswersOf(label, TagShown(u, label), {"tag"})
          \/ Resolve(c, label) \in AnswersOf(label, BranchShown(u, label), {"branch"})
      BY <1>5, <2>3, AnAnswer
    <2> QED
      BY <1>6, <2>4 DEF ShownAs
  <1>7. CASE label \notin Names /\ label = HEAD
    <2>1. tries = << <<Target(c, c.remotes), "branch">>, <<Target(c, c.heads), "commit">> >>
      BY <1>1, <1>7 DEF Candidates
    <2>2. /\ type \in {"branch", "commit"}
          /\ commit \in {Target(c, c.remotes), Target(c, c.heads)}
      BY <1>2, <1>3, <1>4, <2>1
    <2>3. c.default # None /\ commit \in {c.remotes[c.default], c.heads[c.default]}
      BY <1>2, <1>3, <2>2 DEF Target
    <2>4. PICK r \in Repositories[u] : r.default = c.default
      BY <2>3 DEF NamesShown
    <2>5. c.default \in Names
      BY <2>3 DEF Clone
    <2>6. commit \in BranchShown(u, r.default)
      BY <1>2, <1>3, <2>3, <2>4, <2>5 DEF NamesShown
    <2>7. commit \in DefaultShown(u)
      BY <2>4, <2>6 DEF DefaultShown
    <2>8. Resolve(c, label) \in AnswersOf(label, DefaultShown(u), {"branch", "commit"})
      BY <1>5, <2>2, <2>7, AnAnswer
    <2> QED
      BY <1>7, <2>8 DEF ShownAs
  <1>8. CASE label \notin Names /\ label # HEAD
    <2>1. tries = << <<IF label \in c.objects THEN label ELSE None, "commit">> >>
      BY <1>1, <1>8 DEF Candidates
    <2>2. type = "commit" /\ commit = IF label \in c.objects THEN label ELSE None
      BY <1>2, <1>3, <1>4, <2>1
    <2>3. commit \in {label} \cap ShownBy(u)
      BY <1>2, <1>3, <2>2
    <2>4. Resolve(c, label) \in AnswersOf(label, {label} \cap ShownBy(u), {"commit"})
      BY <1>5, <2>2, <2>3, AnAnswer
    <2> QED
      BY <1>8, <2>4 DEF ShownAs
  <1> QED
    BY <1>6, <1>7, <1>8

(* A sequence with an answer for every label answers the configuration.    *)
LEMMA SnapshotAnswers ==
  ASSUME NEW config \in Config, config.url # None, NEW s \in Seq(ResolvedRef),
         Len(s) = Len(Requested(config)),
         \A i \in DOMAIN s : s[i] \in ShownAs(config.url, Requested(config)[i])
  PROVE  s \in SnapshotsFor(config)
  <1> DEFINE labels == Requested(config)
             refs   == UNION {ShownAs(config.url, labels[i]) : i \in DOMAIN labels}
  <1>1. SnapshotsFor(config) = {t \in [DOMAIN labels -> refs] :
          \A i \in DOMAIN labels : t[i] \in ShownAs(config.url, labels[i])}
    BY Zenon DEF SnapshotsFor
  <1>2. labels \in Seq(Names \cup Commits \cup {HEAD})
    BY RequestedType
  <1> HIDE DEF labels
  <1>3. DOMAIN s = DOMAIN labels
    <2>1. Len(s) = Len(labels)
      BY DEF labels
    <2>2. DOMAIN s = 1..Len(s) /\ DOMAIN labels = 1..Len(labels)
      BY <1>2
    <2> QED
      BY <2>1, <2>2, Zenon
  <1>4. \A i \in DOMAIN labels : s[i] \in ShownAs(config.url, labels[i])
    BY <1>3, Zenon DEF labels
  <1>5. \A i \in DOMAIN labels : s[i] \in refs
    BY <1>4, Zenon
  <1> HIDE DEF refs
  <1>6. s \in [DOMAIN labels -> refs]
    <2>1. s = [i \in 1..Len(s) |-> s[i]]
      OBVIOUS
    <2>2. DOMAIN s = 1..Len(s)
      OBVIOUS
    <2> QED
      BY <1>3, <1>5, <2>1, <2>2, Zenon
  <1> QED
    BY <1>1, <1>4, <1>6, Zenon

-----------------------------------------------------------------------------
(* What a process at p has in hand: its configuration is one of those      *)
(* there are, and what it has resolved answers the first labels of it, all *)
(* of them when it lists them or has returned.                             *)
InHand(p, l) ==
  /\ p \notin Ended => l.config \in Configs
  /\ \A i \in DOMAIN l.refs : l.refs[i] \in ShownAs(l.config.url, Requested(l.config)[i])
  /\ p \in {"list", "returned"} => Len(l.refs) = Len(Requested(l.config))

HandsRight == \A w \in Workers : InHand(pc[w], local[w])

(* A step of a process that is inside fetch, at which it resolves nothing. *)
GoesOn(w) ==
  /\ pc[w] \notin Ended
  /\ local'[w].config = local[w].config /\ local'[w].refs = local[w].refs
  /\ \/ pc'[w] \in {"compare", "delete", "clone", "cloning", "fetch", "resolve"}
     \/ pc'[w] = "failed"

LEMMA MostStepsGoOn ==
  ASSUME TypeOK, NEW w \in Workers,
         \/ Probe(w) \/ CompareUrl(w) \/ Delete(w) \/ CacheGone(w)
         \/ CloneBegins(w) \/ CloneRefused(w) \/ CloneEnds(w) \/ CloneFails(w)
         \/ FetchOrigin(w) \/ FetchFails(w) \/ ListFails(w)
  PROVE  GoesOn(w)
  <1>1. pc \in [Workers -> Places] /\ local \in [Workers -> Local]
    BY DEF TypeOK, LocalsTyped
  <1>2. ASSUME local' = local \/ (\E e : local' = [local EXCEPT ![w].error = e])
                              \/ (\E r : local' = [local EXCEPT ![w].seen = r])
        PROVE  local'[w].config = local[w].config /\ local'[w].refs = local[w].refs
    <2>1. local[w] \in Local
      BY <1>1
    <2> QED
      BY <1>1, <1>2, <2>1 DEF Local
  <1>3. CASE Probe(w) \/ CompareUrl(w) \/ Delete(w) \/ CloneBegins(w)
    <2>1. /\ pc[w] \notin Ended /\ local' = local
          /\ pc'[w] \in {"compare", "delete", "clone", "cloning", "fetch"}
      BY <1>1, <1>3 DEF Probe, CompareUrl, Delete, CloneBegins, Goto, Ended
    <2> QED
      BY <1>2, <2>1 DEF GoesOn
  <1>4. CASE \/ CacheGone(w) \/ CloneRefused(w) \/ CloneFails(w) \/ FetchFails(w)
             \/ ListFails(w)
    <2>1. pc[w] \notin Ended /\ \E e \in Errors : Fails(w, e)
      BY <1>4 DEF CacheGone, CloneRefused, CloneFails, FetchFails, ListFails, Ended, Errors
    <2>2. pc'[w] = "failed" /\ \E e : local' = [local EXCEPT ![w].error = e]
      BY <1>1, <2>1 DEF Fails, Goto
    <2> QED
      BY <1>2, <2>1, <2>2 DEF GoesOn
  <1>5. CASE CloneEnds(w)
    <2>1. /\ pc[w] \notin Ended /\ pc'[w] = "resolve"
          /\ \E r : local' = [local EXCEPT ![w].seen = r]
      BY <1>1, <1>5 DEF CloneEnds, Goto, Ended
    <2> QED
      BY <1>2, <2>1 DEF GoesOn
  <1>6. CASE FetchOrigin(w)
    <2>1. /\ pc[w] \notin Ended /\ pc'[w] \in {"resolve", "failed"}
          /\ \/ \E e : local' = [local EXCEPT ![w].error = e]
             \/ \E r : local' = [local EXCEPT ![w].seen = r]
      BY <1>1, <1>6 DEF FetchOrigin, Fails, Goto, Ended
    <2> QED
      BY <1>2, <2>1 DEF GoesOn
  <1> QED
    BY <1>3, <1>4, <1>5, <1>6

(* The step that resolves a ref adds an answer to those in hand.           *)
Resolves(w) ==
  /\ pc[w] = "resolve" /\ pc'[w] \in {"list", "resolve"}
  /\ local'[w].config = local[w].config
  /\ \E ref \in ShownAs(Url(w), NextLabel(w)) :
       local'[w].refs = Append(local[w].refs, ref)
  /\ pc'[w] = "list" => Len(local[w].refs) + 1 = Len(Requested(local[w].config))

LEMMA ResolutionAnswers ==
  ASSUME TypeOK, CacheHoldsItsOrigin, NamesOfOrigin, OriginChecked,
         NEW w \in Workers, ResolveRef(w)
  PROVE  GoesOn(w) \/ Resolves(w)
  <1>1. pc \in [Workers -> Places] /\ local \in [Workers -> Local]
    BY DEF TypeOK, LocalsTyped
  <1>2. local[w] \in Local /\ pc[w] = "resolve" /\ cache # None /\ ~AllResolved(w)
    BY <1>1 DEF ResolveRef
  <1>3. CASE Found(cache, NextLabel(w)) = {}
    <2>1. /\ local' = [local EXCEPT ![w].error = "GitRepositoryConfigError"]
          /\ pc'[w] = "failed"
      BY <1>1, <1>3 DEF ResolveRef, Fails, Goto
    <2>2. local'[w].config = local[w].config /\ local'[w].refs = local[w].refs
      BY <1>1, <1>2, <2>1 DEF Local
    <2> QED
      BY <1>2, <2>1, <2>2 DEF GoesOn, Ended
  <1>4. CASE Found(cache, NextLabel(w)) # {}
    <2>1. PICK ref : ref = Resolve(cache, NextLabel(w))
      OBVIOUS
    <2>2. PICK label \in Names \cup Commits \cup {HEAD} : label = NextLabel(w)
      BY <1>2, NextLabelType
    <2>3. PICK u \in Urls : u = Url(w)
      BY <1>2 DEF TypeOK, LocalsTyped
    <2>4. cache \in Clone /\ cache.url = u /\ u # None
      BY <1>2, <2>3, CacheAssumption DEF TypeOK, OriginChecked
    <2>5. NamesShown(cache, u)
      BY <1>2, <2>4 DEF NamesOfOrigin
    <2>6. cache.objects \subseteq ShownBy(u)
      <3>1. HeldBy(cache) \subseteq ShownBy(u)
        BY <1>2, <2>4 DEF CacheHoldsItsOrigin, HoldsItsOrigin
      <3>2. cache.objects \subseteq Commits /\ None \notin Commits
        BY <2>4, CacheAssumption DEF Clone
      <3>3. cache.objects \subseteq HeldBy(cache)
        BY <3>2 DEF HeldBy
      <3> QED
        BY <3>1, <3>3, Zenon
    <2>7. ref \in ShownAs(u, label)
      BY <1>4, <2>1, <2>2, <2>4, <2>5, <2>6, ResolveShown
    <2>8. /\ local' = [local EXCEPT ![w].refs = Append(local[w].refs, ref)]
          /\ pc'[w] \in {"list", "resolve"}
          /\ pc'[w] = "list" => Len(local[w].refs) + 1 = Len(Requested(local[w].config))
      BY <1>1, <1>4, <2>1 DEF ResolveRef, Goto
    <2>9. local'[w].config = local[w].config /\ local'[w].refs = Append(local[w].refs, ref)
      BY <1>1, <1>2, <2>8 DEF Local
    <2> QED
      BY <1>2, <2>2, <2>3, <2>7, <2>8, <2>9 DEF Resolves
  <1> QED
    BY <1>3, <1>4

LEMMA HandKept ==
  ASSUME TypeOK, NEW w \in Workers, InHand(pc[w], local[w]),
         \/ \E config \in Configs : Begin(w, config)
         \/ GoesOn(w) \/ Resolves(w) \/ ListAndReturn(w) \/ Kill(w)
  PROVE  InHand(pc'[w], local'[w])
  <1>1. pc \in [Workers -> Places] /\ local \in [Workers -> Local]
    BY DEF TypeOK, LocalsTyped
  <1>2. CASE \E config \in Configs : Begin(w, config)
    <2>1. /\ local'[w].config \in Configs /\ local'[w].refs = <<>>
          /\ pc'[w] \in {"failed", "probe"}
      BY <1>1, <1>2 DEF Begin, Goto, Entering
    <2> QED
      BY <2>1 DEF InHand
  <1>3. CASE GoesOn(w)
    <2>1. pc'[w] \notin {"list", "returned"}
      BY <1>3 DEF GoesOn
    <2> QED
      BY <1>3, <2>1 DEF InHand, GoesOn
  <1>4. CASE Resolves(w)
    <2>1. PICK ref \in ShownAs(Url(w), NextLabel(w)) :
            local'[w].refs = Append(local[w].refs, ref)
      BY <1>4 DEF Resolves
    <2>2. PICK refs \in Seq(ResolvedRef) : refs = local[w].refs
      BY <1>1 DEF Local
    <2>3. PICK config : config = local[w].config
      OBVIOUS
    <2>4. /\ local'[w].refs = Append(refs, ref) /\ local'[w].config = config
          /\ ref \in ShownAs(config.url, Requested(config)[Len(refs) + 1])
          /\ pc[w] = "resolve" /\ pc'[w] \in {"list", "resolve"}
          /\ pc'[w] = "list" => Len(refs) + 1 = Len(Requested(config))
      BY <1>4, <2>1, <2>2, <2>3 DEF Resolves, Url, NextLabel
    <2>5. /\ config \in Configs
          /\ \A i \in DOMAIN refs : refs[i] \in ShownAs(config.url, Requested(config)[i])
      BY <2>2, <2>3, <2>4 DEF InHand, Ended
    <2>6. PICK more : more = Append(refs, ref)
      OBVIOUS
    <2>7. /\ Len(more) = Len(refs) + 1
          /\ \A i \in DOMAIN more : \/ i \in DOMAIN refs /\ more[i] = refs[i]
                                    \/ i = Len(refs) + 1 /\ more[i] = ref
      BY <2>2, <2>6
    <2>8. \A i \in DOMAIN more : more[i] \in ShownAs(config.url, Requested(config)[i])
      BY <2>4, <2>5, <2>7
    <2> QED
      BY <2>4, <2>5, <2>6, <2>7, <2>8 DEF InHand
  <1>5. CASE ListAndReturn(w)
    <2>1. local'[w] = local[w] /\ pc[w] = "list" /\ pc'[w] = "returned"
      BY <1>1, <1>5 DEF ListAndReturn, Goto
    <2> QED
      BY <2>1 DEF InHand, Ended
  <1>6. CASE Kill(w)
    <2>1. local'[w].refs = <<>> /\ pc'[w] = "idle"
      BY <1>1, <1>6 DEF Kill, Goto, NoLocal, Entering
    <2> QED
      BY <2>1 DEF InHand, Ended
  <1> QED
    BY <1>2, <1>3, <1>4, <1>5, <1>6

(* What a step shows to the caller, when only one process calls.           *)
LEMMA StepShown ==
  ASSUME Alone, TypeOK, NEW w \in Workers, InHand(pc[w], local[w]),
         \/ \E config \in Configs : Begin(w, config)
         \/ GoesOn(w) \/ Resolves(w) \/ ListAndReturn(w) \/ Kill(w)
  PROVE  Fetch!Next \/ UNCHANGED <<Asked, Answered>>
  <1>1. pc \in [Workers -> Places] /\ local \in [Workers -> Local]
    BY DEF TypeOK, LocalsTyped
  <1>2. /\ Asked[w] = IF pc[w] \in Ended THEN None ELSE local[w].config
        /\ Asked'[w] = IF pc'[w] \in Ended THEN None ELSE local'[w].config
        /\ Answered[w] = IF pc[w] = "returned" THEN local[w].refs ELSE None
        /\ Answered'[w] = IF pc'[w] = "returned" THEN local'[w].refs ELSE None
    BY DEF Asked, Answered
  <1>3. Asked' = [Asked EXCEPT ![w] = Asked'[w]]
    BY DEF Alone, Asked
  <1>4. Answered' = [Answered EXCEPT ![w] = Answered'[w]]
    BY DEF Alone, Answered
  <1>5. /\ Asked'[w] = Asked[w] => Asked' = Asked
        /\ Answered'[w] = Answered[w] => Answered' = Answered
    BY <1>3, <1>4 DEF Asked, Answered
  <1>6. ASSUME NEW config \in Configs, Begin(w, config)
        PROVE  Fetch!Next
    <2>1. /\ pc[w] \in Ended /\ local'[w].config = config
          /\ pc'[w] = IF config.url = None THEN "failed" ELSE "probe"
      BY <1>1, <1>6 DEF Begin, Goto, Entering, Ended
    <2>2. Asked[w] = None /\ Answered'[w] = None
      BY <1>2, <2>1
    <2>3. CASE config.url = None
      <3>1. Asked' = Asked
        BY <1>2, <1>5, <2>1, <2>2, <2>3 DEF Ended
      <3>2. [c \in Configs |-> SnapshotsFor(c)][config] = {}
        BY <2>3 DEF SnapshotsFor
      <3>3. Fetch!Refuse(w, config)
        BY <1>4, <2>2, <3>1, <3>2 DEF Fetch!Refuse
      <3> QED
        BY <3>3 DEF Fetch!Next
    <2>4. CASE config.url # None
      <3>1. Asked'[w] = config
        BY <1>2, <2>1, <2>4 DEF Ended
      <3>2. Fetch!Ask(w, config)
        BY <1>3, <1>4, <2>2, <3>1 DEF Fetch!Ask
      <3> QED
        BY <3>2 DEF Fetch!Next
    <2> QED
      BY <2>3, <2>4
  <1>7. ASSUME pc[w] \notin Ended
        PROVE  Asked[w] = local[w].config /\ Asked[w] \in Configs /\ Answered[w] = None
    BY <1>2, <1>7 DEF InHand, Ended
  <1>8. ASSUME pc[w] \notin Ended, pc'[w] \in {"failed", "idle"}
        PROVE  Fetch!Next
    <2>1. Asked'[w] = None /\ Answered' = Answered
      BY <1>2, <1>5, <1>7, <1>8 DEF Ended
    <2>2. Fetch!GiveUp(w)
      BY <1>3, <1>7, <1>8, <2>1 DEF Fetch!GiveUp
    <2> QED
      BY <2>2 DEF Fetch!Next
  <1>9. ASSUME pc[w] \notin Ended, pc'[w] \notin Ended, local'[w].config = local[w].config
        PROVE  UNCHANGED <<Asked, Answered>>
    BY <1>2, <1>5, <1>7, <1>9 DEF Ended
  <1>10. CASE GoesOn(w)
    <2>1. pc'[w] = "failed" \/ pc'[w] \notin Ended
      BY <1>10 DEF GoesOn, Ended
    <2> QED
      BY <1>8, <1>9, <1>10, <2>1 DEF GoesOn
  <1>11. CASE Resolves(w)
    <2>1. /\ pc[w] \notin Ended /\ pc'[w] \notin Ended
          /\ local'[w].config = local[w].config
      BY <1>11 DEF Resolves, Ended
    <2> QED
      BY <1>9, <2>1
  <1>12. CASE Kill(w)
    <2>1. pc[w] \notin Ended /\ pc'[w] = "idle"
      BY <1>1, <1>12 DEF Kill, Goto, Ended
    <2> QED
      BY <1>8, <2>1
  <1>13. CASE ListAndReturn(w)
    <2>1. /\ pc[w] = "list" /\ pc[w] \notin Ended
          /\ pc'[w] = "returned" /\ local'[w] = local[w]
      BY <1>1, <1>13 DEF ListAndReturn, Goto, Ended
    <2>2. local[w].config \in Config /\ local[w].config.url # None
      BY <1>1, <2>1, CacheAssumption DEF TypeOK, LocalsTyped, Local, Url
    <2>3. local[w].refs \in SnapshotsFor(local[w].config)
      <3>1. /\ local[w].refs \in Seq(ResolvedRef)
            /\ Len(local[w].refs) = Len(Requested(local[w].config))
            /\ \A i \in DOMAIN local[w].refs :
                 local[w].refs[i]
                   \in ShownAs(local[w].config.url, Requested(local[w].config)[i])
        BY <1>1, <2>1 DEF InHand, Local
      <3> QED
        BY <2>2, <3>1, SnapshotAnswers
    <2>4. Asked'[w] = None /\ Answered'[w] = local[w].refs
      BY <1>2, <2>1 DEF Ended
    <2>5. Answered'[w] \in [c \in Configs |-> SnapshotsFor(c)][Asked[w]]
      BY <1>7, <2>1, <2>3, <2>4
    <2>6. Fetch!Answer(w)
      BY <1>3, <1>4, <1>7, <2>1, <2>4, <2>5 DEF Fetch!Answer
    <2> QED
      BY <2>6 DEF Fetch!Next
  <1> QED
    BY <1>6, <1>10, <1>11, <1>12, <1>13

AnswersRight == OriginChecked /\ NamesOfOrigin /\ HandsRight

LEMMA AnswersStep ==
  ASSUME Alone, TypeOK, CacheHoldsItsOrigin, AnswersRight, [Next]_vars
  PROVE  AnswersRight' /\ [Fetch!Next]_<<Asked, Answered>>
  <1>1. OriginChecked' /\ NamesOfOrigin'
    BY OriginStep, NamesStep DEF AnswersRight
  <1>2. CASE UNCHANGED <<pc, local>>
    <2>1. UNCHANGED <<Asked, Answered>>
      BY <1>2 DEF Asked, Answered
    <2>2. HandsRight'
      BY <1>2 DEF AnswersRight, HandsRight
    <2> QED
      BY <1>1, <2>1, <2>2 DEF AnswersRight
  <1>3. ASSUME NEW w \in Workers,
               \/ \E config \in Configs : Begin(w, config)
               \/ GoesOn(w) \/ Resolves(w) \/ ListAndReturn(w) \/ Kill(w)
        PROVE  AnswersRight' /\ [Fetch!Next]_<<Asked, Answered>>
    <2>1. InHand(pc[w], local[w])
      BY DEF AnswersRight, HandsRight
    <2>2. InHand(pc'[w], local'[w])
      BY <1>3, <2>1, HandKept
    <2>3. HandsRight'
      <3> SUFFICES ASSUME NEW v \in Workers
                   PROVE  InHand(pc'[v], local'[v])
        BY DEF HandsRight
      <3>1. v = w
        BY DEF Alone
      <3> QED
        BY <2>2, <3>1
    <2>4. Fetch!Next \/ UNCHANGED <<Asked, Answered>>
      BY <1>3, <2>1, StepShown
    <2> QED
      BY <1>1, <2>3, <2>4 DEF AnswersRight
  <1>4. ASSUME NEW w \in Workers,
               \/ Probe(w) \/ CompareUrl(w) \/ Delete(w) \/ CacheGone(w)
               \/ CloneBegins(w) \/ CloneRefused(w) \/ CloneEnds(w) \/ CloneFails(w)
               \/ FetchOrigin(w) \/ FetchFails(w) \/ ListFails(w)
        PROVE  AnswersRight' /\ [Fetch!Next]_<<Asked, Answered>>
    BY <1>3, <1>4, MostStepsGoOn
  <1>5. ASSUME NEW w \in Workers, ResolveRef(w)
        PROVE  AnswersRight' /\ [Fetch!Next]_<<Asked, Answered>>
    BY <1>3, <1>5, ResolutionAnswers DEF AnswersRight
  <1>6. CASE (\E u \in Urls : UpstreamMoves(u)) \/ UNCHANGED vars
    BY <1>2, <1>6 DEF UpstreamMoves, vars
  <1> QED
    BY <1>3, <1>4, <1>5, <1>6 DEF Next

(* A process that has the cache to itself asks and is answered as          *)
(* SnapshotFetch says: fetch returns a snapshot with every requested ref   *)
(* once and in order, each at a commit the configured repository has shown *)
(* under that very name, or it returns none (git_repository.py:56-188).    *)
THEOREM FetchImplemented == Alone => (Spec => FetchAnswers)
  <1> SUFFICES ASSUME Alone
               PROVE  Spec => FetchAnswers
    OBVIOUS
  <1>1. Init => AnswersRight /\ Fetch!Init
    <2> SUFFICES ASSUME Init
                 PROVE  AnswersRight /\ Fetch!Init
      OBVIOUS
    <2>1. OriginChecked /\ NamesOfOrigin
      BY DEF Init, OriginChecked, NamesOfOrigin
    <2>2. HandsRight
      <3>1. \A w \in Workers : pc[w] = "idle" /\ local[w].refs = <<>>
        BY DEF Init, NoLocal, Entering
      <3>2. ASSUME NEW l, l.refs = <<>>
            PROVE  InHand("idle", l)
        <4>1. DOMAIN l.refs = {}
          BY <3>2
        <4> QED
          BY <4>1 DEF InHand, Ended
      <3> QED
        BY <3>1, <3>2, Zenon DEF HandsRight
    <2>3. Fetch!Init
      BY DEF Init, Fetch!Init, Asked, Answered, Ended
    <2> QED
      BY <2>1, <2>2, <2>3 DEF AnswersRight
  <1>2. TypeOK /\ CacheHoldsItsOrigin /\ AnswersRight /\ [Next]_vars
          => AnswersRight' /\ [Fetch!Next]_<<Asked, Answered>>
    BY AnswersStep
  <1> QED
    BY <1>1, <1>2, FetchTypeCorrect, CacheNeverMixes, PTL
       DEF Spec, FetchAnswers, Fetch!Spec, Fetch!vars
=============================================================================
