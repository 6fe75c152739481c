CONSTANTS
  MaxAttempts = 2
  MaxCommits = 2
  MaxPrs = 2
  MaxUpsets = 1
  Items = {1, 2, 3}
  Proj <- ProjectOf
  Area <- AreaOf
  Floor <- FloorOf
  Deps <- DependsOn
  Platforms = {"opus", "sonnet", "codex"}
  Group <- GroupOf
  MaxRuns <- RunsOf
  Tier <- TierOf
  ByTier <- Budgets
  Total = 3
  MaxParallel = 2
  Moods <- SomeMoods
  Errors = {"git"}
  Canary = 1
  Settle = 1
  FirstState <- OneReady
  FirstFails <- FailedTwice
  MaxClock = 1
  MaxRun = 4
  MaxNews = 1
SPECIFICATION WorkSpec
PROPERTIES
  StartsAreMeasured
  MergesAreVouched
  ChargesAreFair
  ReviewedWorkIsKept
CHECK_DEADLOCK FALSE
