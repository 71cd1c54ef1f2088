SPECIFICATION FairSpec
CONSTANTS
  MaxLead = 2
  Labels = {"active", "unknown", "closed"}
  Proofs = {"verified"}
  MaxEvents <- MCMaxEvents
  PageSize = 1
  Invalid = {1}
  MaxFaults = 1
INVARIANTS
  ClueOK
  OnePlace
  SummaryInStep
PROPERTIES
  NothingReopens
  
CHECK_DEADLOCK FALSE
