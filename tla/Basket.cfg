CONSTANTS
  Coroutines = {"fxs", "xsm", "again"}
  Insts = {1, 2}
  Levers <- MCLevers
  FirstLever = 1
  AccountMode = "long_short_mode"
  Faults = TRUE
  Owner <- MCOwner
  Kind <- MCKind
  Universe <- MCUniverse
  MaxQty = 1
  Schedules <- MCSchedules
  Carried <- MCCarried
  Rejections = TRUE
SPECIFICATION FairSpec
INVARIANTS
  TypeOK
  CacheMatchesOkx
  NoStrayLegs
  RoundReachesTarget
PROPERTIES
  RoundEnds
CHECK_DEADLOCK FALSE
