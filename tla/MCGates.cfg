CONSTANTS
  Threshold = 2
  MaxAttempts = 2
  MaxHeads = 2
  MaxRuns = 7
  MaxUpsets = 1
  InconclusiveCap = 1
  Reports <- SomeReports
  ReviewInconclusiveCap = 1
  MaxNews = 2
  MaxPrs = 2
  MaxBuilds = 2
  MaxTime = 3
  MaxFaults = 1
SPECIFICATION GatesSpec
INVARIANT DemotionsAreSound
PROPERTIES
  
  ClaimsAreReviewed
  ShipmentsAreSound
  Settles
CHECK_DEADLOCK FALSE
