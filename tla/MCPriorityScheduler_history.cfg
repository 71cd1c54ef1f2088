SPECIFICATION FairSpec
CONSTANTS
  base = base
  k1 = k1
  k2 = k2
  k3 = k3
  o1 = o1
  o2 = o2
  NoOne = NoOne
  MaxDay = 3
  FirstDay = 2
  Keys = {k1}
  Base = base
  MaxAttempts = 2
  MaxGenerations = 1
  Operators = {o1}
  Requests = {}
  Crashes = TRUE
PROPERTIES
  HistoryDrains
CHECK_DEADLOCK FALSE
