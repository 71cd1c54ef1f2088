SPECIFICATION Spec
CONSTANTS
  full = full
  month = month
  reviewed = reviewed
  final = final
  compact = compact
  w1 = w1
  w2 = w2
  NoOne = NoOne
  Scope <- MCScope
  MaxMonth = 2
  Rebuilds = {full, month}
  Reviewed = {}
  Finalizers = {}
  Compactions = {}
  Automatic = {}
  Workers = {w1, w2}
  MaxAttempts = 2
  MaxVersion = 1
  DepthLimit = 4
  MaintainDepth = 3
  FeeWriters = {}
  Stores = {1}
  Disputed = {}
  Closed = {2}
INVARIANTS
  TypeOK
  LineageSound
  PublicationNotLost
  BilledAsPublished
SYMMETRY WorkerSymmetry
CHECK_DEADLOCK FALSE
