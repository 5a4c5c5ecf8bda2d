CONSTANTS
  t1 = t1
  t2 = t2
  t3 = t3
  Tasks = {t1, t2, t3}
  Isolated = FALSE
  PosMode = "net_mode"
  Zs <- MCZs
  ZEntry = 4
  ZExit = 1
  ZStop = 7
  Faults = FALSE
  Rejections = TRUE
  Sharing = FALSE
  MaxHeld = 2
SPECIFICATION MCSpec
INVARIANTS
  TypeOK
  PairStaysHedged
  CrossPositionMatchesVenue
PROPERTIES
  CooldownHolds
SYMMETRY Permuted
CHECK_DEADLOCK FALSE
