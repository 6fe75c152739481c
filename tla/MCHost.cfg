CONSTANTS
  Items = {i1, i2}
  Runs = {r1, r2}
  Sessions = {s1, s2}
  Conductor = conductor
  Nobody = nobody
  MaxParallel = 1
  Ttl = 2
  MaxGrants = 4
  Versions = {1, 2, 3}
  Kinds <- FiveKinds
  MaxUpsets = 2
SPECIFICATION HostSpec
CONSTRAINT WithinBounds
INVARIANT OneWriter
PROPERTIES
  DisplacedOnlyByHumanOrHandoff
  DisplacedRunYields
  SlotsAreKept
  ImplementsFence
  UpdatesAreSafe
CHECK_DEADLOCK FALSE
