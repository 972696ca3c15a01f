SPECIFICATION Spec
CONSTANTS
  s1 = s1
  s2 = s2
  s3 = s3
  w1 = w1
  w2 = w2
  p1 = p1
  p2 = p2
  c1 = c1
  c2 = c2
  None = None
  Paths = {p1, p2}
  Sums = {"a", "b"}
  Labels = {"v1", "v2", "v3"}
  Hashes = {"h1", "h2", "h3"}
  Profiles = {"docs", "code"}
  Commits = {c1, c2}
  Workers = {w1, w2}
  Sources = {s1}
  Order <- OneSource
  Enabled = {s1}
  SourceType <- OnlyLocal
  Requests <- AskOne
  Upstream <- EvolvingUpstream
  Rules <- TwoRules
  MaxRuns = 3
  MayCrash = TRUE
SYMMETRY WorkerSymmetry
INVARIANTS
  TypeOK
  CatalogAgrees
  OneSnapshotPerSource
  PlanMatchesRetirement
  CountersBalance
  WritersExcluded
  TransactionsInOrder
PROPERTIES
  HistoryKept
  LineageIsProved
  RunLifecycle
  PublishesAtomically
