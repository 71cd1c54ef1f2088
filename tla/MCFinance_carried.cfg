SPECIFICATION Spec
CONSTANTS
  Parts = {"carried"}
  Slots <- MCSlots
  MaxBatches = 3
  MaxMonth = 3
  Directions = {"promotion", "management"}
  BaseNets <- MCBaseNets
  Disputes = {"x", "y"}
  DisputeAmount = 1
  Adjustments <- MCAdjustments
  MaxInvoices = 3
  MaxIssues = 2
  Stores = {"s1", "s2"}
  Codes = {1, 2}
  MaxProfiles = 3
INVARIANTS
  NegativeAppliedOnce
CHECK_DEADLOCK FALSE
