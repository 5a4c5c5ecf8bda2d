CONSTANTS
  o1 = o1
  Orders = {o1}
  HyphenIds = {}
  Qty = 3
  MaxRetries = 2
  MaxTransient = 1
SPECIFICATION FairSpec
INVARIANTS
  TypeOK
  OneOrderOrNone
  NtTrailsVenue
  NoFillLost
PROPERTIES
  MirrorSpec
  TasksResolve
CHECK_DEADLOCK FALSE
