SPECIFICATION Spec
CONSTANTS
  Paths <- AllPaths
  About <- AllAbout
  Normal <- Slashes
  Profiles <- AllProfiles
  Words <- AllWords
  ConfiguredRules <- Rules
  AllowedLicenses = {1}
  DefaultSize = 4
  DefaultOverlap = 1
  Configs <- AllConfigs
  Snapshots <- AllSnapshots
  MaxRounds = 3
INVARIANTS
  EveryFileDecided
  PlacesRight
  TextsSanitized
  WindowsCover
  StoreMatchesSnapshot
CHECK_DEADLOCK FALSE
