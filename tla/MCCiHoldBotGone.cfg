CONSTANTS
  Items = {1, 2, 3}
  Unfiled = {3}
  Named = {3}
  MaxHeads = 2
  MaxUpsets = 2
SPECIFICATION BusySpec
PROPERTY BotGoneEndsHold
CHECK_DEADLOCK FALSE
