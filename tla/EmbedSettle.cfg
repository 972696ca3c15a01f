SPECIFICATION FairEmbeddingSpec
CONSTANTS
  w1 = w1
  w2 = w2
  p1 = p1
  c1 = c1
  c2 = c2
  h1 = h1
  h2 = h2
  v1 = v1
  s1 = s1
  None = None
  Chunks = {c1}
  Hashes = {h1, h2}
  Versions = {v1}
  Sources = {s1}
  SourceOf <- OneSource
  Contents <- TwoTexts
  MayRewrite = TRUE
  MayRestore = TRUE
  Workers = {w1}
  Planners = {p1}
  Scope = {c1}
  Smaller = {}
  PlanLimit = 1
  BatchSize = 2
  MaxAttempts = 2
  MayFail = TRUE
  MaxCrashes = 1
INVARIANTS
  OneActiveVector
PROPERTIES
  JobsSettle
  OfferedChunksEmbedded
  WithdrawnVectorsDropped
CHECK_DEADLOCK FALSE
