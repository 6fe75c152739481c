CONSTANTS
  Items = {i1}
  Runs = {r1}
  Sessions = {s1}
  Conductor = conductor
  Nobody = nobody
  MaxAttempts = 2
  LaunchFailLimit = 2
  MaxAborts = 1
  MaxOrders = 0
  MaxLapses = 1
  MaxCommands = 1
  MaxCloses = 1
  MaxUpsets = 3
  Allowance <- Bounds
SPECIFICATION EndingsSpec
PROPERTIES
  EveryRunEnds
  NothingStranded
  NothingIsLeftOver
CHECK_DEADLOCK FALSE
