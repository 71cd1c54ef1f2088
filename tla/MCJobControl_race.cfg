SPECIFICATION Spec
CONSTANTS
  d1 = d1
  d2 = d2
  p1 = p1
  f1 = f1
  w1 = w1
  w2 = w2
  o1 = o1
  o2 = o2
  NoOne = NoOne
  DateJobs = {d1}
  ParentSyncs = {}
  FinalizeJobs = {}
  Priority = {d1}
  Workers = {w1, w2}
  CrashProne = {w2}
  Operators = {o1, o2}
  Requests = {"cancel", "retry"}
  LeaseTicks = 2
  MaxPauses = 0
  MaxAttempts = 3
  StageCount <- MCOneStage
INVARIANTS
  HistoryContiguous
  RunningRowSound
  
  FailedRowClosed
CHECK_DEADLOCK FALSE
