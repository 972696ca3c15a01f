SPECIFICATION Spec
CONSTANTS
  s1 = s1
  s2 = s2
  s3 = s3
  w1 = w1
  w2 = w2
  p1 = p1
  p2 = p2
  c1 = c1
  c2 = c2
  None = None
  Paths = {p1, p2}
  Sums = {"a", "b"}
  Labels = {"v1", "v2", "v3"}
  Hashes = {"h1", "h2", "h3"}
  Profiles = {"docs", "code"}
  Commits = {c1, c2}
  Workers = {w1}
  Sources = {s1, s2, s3}
  Order <- ManySources
  Enabled = {s1, s2}
  SourceType <- AllTypes
  Requests <- AskMany
  Upstream <- MixedUpstream
  Rules <- TwoRules
  MaxRuns = 3
  MayCrash = TRUE
INVARIANTS
  RequestAccounted
PROPERTIES
  LineageIsProved
  PublishesAtomically
