CONSTANTS
  Items = {i1}
  Runs = {r1}
  Sessions = {s1}
  Conductor = conductor
  Nobody = nobody
  MaxAttempts = 2
  LaunchFailLimit = 2
  MaxAborts = 0
  MaxOrders = 0
  MaxLapses = 0
  MaxCommands = 1
  MaxCloses = 0
  MaxUpsets = 2
  Allowance <- Bounds
SPECIFICATION Spec
SYMMETRY Symmetry
PROPERTY SessionKeepsItsItem
