SPECIFICATION FairSpec
CONSTANTS
  full = full
  month = month
  reviewed = reviewed
  final = final
  compact = compact
  w1 = w1
  w2 = w2
  NoOne = NoOne
  Scope <- MCScope
  MaxMonth = 1
  Rebuilds = {month}
  Reviewed = {}
  Finalizers = {final}
  Compactions = {compact}
  Automatic = {compact}
  Workers = {w1, w2}
  MaxAttempts = 2
  MaxVersion = 0
  DepthLimit = 4
  MaintainDepth = 1
  FeeWriters = {}
  Stores = {}
  Disputed = {}
  Closed = {1}
PROPERTIES
  HeavySlotFreed
CHECK_DEADLOCK FALSE
