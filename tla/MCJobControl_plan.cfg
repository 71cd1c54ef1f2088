SPECIFICATION Spec
CONSTANTS
  d1 = d1
  d2 = d2
  p1 = p1
  f1 = f1
  w1 = w1
  w2 = w2
  o1 = o1
  o2 = o2
  NoOne = NoOne
  DateJobs = {d1, d2}
  ParentSyncs = {p1}
  FinalizeJobs = {f1}
  Priority = {}
  Workers = {w1, w2}
  CrashProne = {w2}
  Operators = {}
  Requests = {}
  LeaseTicks = 1
  MaxPauses = 0
  MaxAttempts = 1
  StageCount <- MCOneStage
INVARIANTS
  FinalizeLast
  SingleWriter
PROPERTIES
  TerminalIsFinal
CHECK_DEADLOCK FALSE
