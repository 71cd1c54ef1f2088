SPECIFICATION Spec
CONSTANTS
  full = full
  month = month
  reviewed = reviewed
  final = final
  compact = compact
  w1 = w1
  w2 = w2
  NoOne = NoOne
  Scope <- MCScope
  MaxMonth = 2
  Rebuilds = {}
  Reviewed = {reviewed}
  Finalizers = {final}
  Compactions = {compact}
  Automatic = {compact}
  Workers = {w1, w2}
  MaxAttempts = 2
  MaxVersion = 1
  DepthLimit = 4
  MaintainDepth = 2
  FeeWriters = {1, 2}
  Stores = {1}
  Disputed = {2}
  Closed = {}
INVARIANTS
  LiveClaimOwnsHead
  ReviewedIsPublished
PROPERTIES
  ServedView
SYMMETRY WorkerSymmetry
CHECK_DEADLOCK FALSE
