CONSTANTS
  Platforms = {"claude", "codex", "cline", "work"}
  Projects = {"a", "b", "c"}
  PeakHours = {1}
  Stale = 2
  HoldTime = 2
  LastHour = 2
  MaxNews = 2
  PConf <- ThePlatforms
  Policy <- ThePolicies
  Routes <- TheRoutes
  Proof <- TheVerdicts
  Asked <- TheRequests
  Probed <- TheReadings
  Window = 5
  Guard = 4
  Backoff = 1
  MaxTime = 7
  MaxCrashes = 1
  Dirs <- OneDir
  Versions = {1, 2}
  Locks = {"a", "b"}
  Snapshots <- SomeSnapshots
  Registries <- SomeRegistries
  Satisfies <- Specifiers
  Classics <- SomeClassics
  Rulesets <- SomeRulesets
  Keys = {1, 2}
  Signatures = {"quota", "deps", "paused"}
  Exhausted <- SomeTiers
  Gaps = {1, 2}
  Retention = 3
  Horizon = 5
SPECIFICATION ReadingsSpec
INVARIANTS
  RoutingAgrees
  WaitsAreReal
  SpacedTurns
  ClearMeansSound
  PassMeansProtected
CHECK_DEADLOCK FALSE
