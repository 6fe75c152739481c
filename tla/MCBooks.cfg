CONSTANTS
  Requests = {q1, q2, q3}
  Items = {1, 2}
  MaxMerges = 3
  MaxFaults = 1
  Labels <- FeatureAndFix
  Versions <- BothSchemes
  Grants = {1, 2}
  Line = 3
  Amounts = {1, 2}
  Ttl = 1
  MaxEpoch = 3
  MaxLost = 1
SPECIFICATION BooksSpec
SYMMETRY Symmetry
PROPERTIES
  WithinBudget
  ReleasesAreTrue
  MachinesAgree
CHECK_DEADLOCK FALSE
