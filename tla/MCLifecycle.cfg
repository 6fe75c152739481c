CONSTANTS
  Items = {i1}
  Runs = {r1, r2}
  Sessions = {s1}
  Conductor = conductor
  Nobody = nobody
  MaxAttempts = 2
  LaunchFailLimit = 2
  MaxAborts = 1
  MaxOrders = 1
  MaxLapses = 1
  MaxCommands = 2
  MaxCloses = 1
  MaxUpsets = 2
  Allowance <- Bounds
SPECIFICATION Spec
SYMMETRY Symmetry
PROPERTY CleanEndings
