SPECIFICATION Spec
CONSTANTS
  w1 = w1
  w2 = w2
  u1 = u1
  u2 = u2
  main = main
  side = side
  c1 = c1
  c2 = c2
  c3 = c3
  d1 = d1
  None = None
  Urls = {u1, u2}
  Names = {main, side}
  Commits = {c1, c2, c3, d1}
  Ancestors <- History
  Repositories <- TwoRepositories
  Workers = {w1, w2}
  Configs <- Edited
  MaxRuns = 3
  MaxMoves = 1
  MayCrash = TRUE
INVARIANTS
  CacheHoldsItsOrigin
CHECK_DEADLOCK FALSE
