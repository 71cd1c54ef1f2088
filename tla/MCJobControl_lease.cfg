SPECIFICATION FairSpec
CONSTANTS
  d1 = d1
  d2 = d2
  p1 = p1
  f1 = f1
  w1 = w1
  w2 = w2
  o1 = o1
  o2 = o2
  NoOne = NoOne
  DateJobs = {d1}
  ParentSyncs = {}
  FinalizeJobs = {}
  Priority = {d1}
  Workers = {w1, w2}
  CrashProne = {w2}
  Operators = {}
  Requests = {}
  LeaseTicks = 1
  MaxPauses = 1
  MaxAttempts = 2
  StageCount <- MCStageCount
INVARIANTS
  TypeOK
  CheckpointsInOrder
  NeverQuarantined
  SuccessIsCheckpointed
PROPERTIES
  CheckpointsStable
  EveryJobSettles
CHECK_DEADLOCK FALSE
