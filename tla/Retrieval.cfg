SPECIFICATION Spec
CONSTANTS
  c1 = c1
  c2 = c2
  c3 = c3
  c4 = c4
  c5 = c5
  s1 = s1
  s2 = s2
  l1 = l1
  l2 = l2
  v1 = v1
  v2 = v2
  h1 = h1
  h2 = h2
  i1 = i1
  i2 = i2
  None = None
  NoMatch = NoMatch
  NoIndex = NoIndex
  Chunks <- AllChunks
  Hashes = {h1, h2}
  Versions = {v1, v2}
  Sources = {s1, s2}
  SourceOf <- SourceMap
  Contents <- Offers
  MayRewrite = TRUE
  MayRestore = TRUE
  Labels = {l1, l2}
  LabelOf <- LabelMap
  Indexes = {i1, i2}
  Paths = {"exact", "bm25", "vector"}
  Trusted <- OneSource
  KeyOf <- KeyMap
  Lists = {"exact", "bm25", "vector", "relationship"}
  Weight <- Weights
  RankConstant = 1
  MaxRank = 6
  Authority <- AuthorityMap
  MaxDepth = 2
  MaxFanout = 2
  MaxCandidates = 6
  Direction = "both"
  LengthOf <- Texts
  Requests <- SomeRequests
  Snapshots <- AllOffered
  VectorIndex = i1
  IndexRows <- SomeRows
  Rankings <- SomeRankings
  Embedded = {c1, c2, c4}
  FusedLimit = 3
  RerankLimit = 2
  SeedLists <- Seeded
  Edges <- SomeEdges
  Conflicts <- SomeConflicts
  Linkable = {s1}
  AuthorityOn = TRUE
  MaxChanges = 2
INVARIANTS
  OnlyPermittedShown
  EvidenceConsistent
  FusionRespectsRanks
  ExpansionAccepted
  BudgetHonest
CHECK_DEADLOCK FALSE
