SPECIFICATION FairSpec
CONSTANTS
  base = base
  k1 = k1
  k2 = k2
  k3 = k3
  o1 = o1
  o2 = o2
  NoOne = NoOne
  MaxDay = 1
  FirstDay = 1
  Keys = {k1}
  Base = base
  MaxAttempts = 2
  MaxGenerations = 1
  Operators = {o1}
  Requests = {"recover", "retry"}
  Crashes = TRUE
INVARIANTS
  TypeOK
  SlotNotStranded
PROPERTIES
  RecoveryServed
  
CHECK_DEADLOCK FALSE
