CONSTANTS
  Prs = {1, 2}
  Tables <- TwoTables
  Opening <- BothMinor
  DailyCap = 1
  VerifyTimeout = 1
  RebaseTimeout = 1
  MaxDay = 2
  MaxNews = 2
  Kids = {"kid"}
  Free = {"free"}
  Human = {"human"}
  QuietDays = 1
  MaxFixes = 1
  MaxRuns = 1
  MaxUpsets = 1
  Maintenance <- TestsAndEscapes
  Checks = {"ci"}
  Cadence = 1
  Cooldown = 1
  Threshold = 1
  MaxDate = 2
  MaxMerges = 1
  MaxMoves = 1
SPECIFICATION UpkeepSpec
INVARIANTS
  BotsActOnce
  VerificationIsSound
  AuditsAreWhole
PROPERTIES
  MergesOnlyLowRisk
  UpkeepEnds
CHECK_DEADLOCK FALSE
