CONSTANTS
  s1 = s1
  Strategies = {s1}
  Equities = {100, 98, 95, 91}
  DailyPct = 3
  WeeklyPct = 8
  TicksPerDay = 3
  DaysPerWeek = 2
  AllocInterval = 2
  MaxAwait = 1
  RegimeInterval = 3
  MaxRegime = 1
  MaxSkips = 1
  MaxInFlight = 1
  MaxTime = 10
  MaxCrashes = 1
SPECIFICATION Spec
INVARIANTS
  TypeOK
  HaltCoversBreach
  FedOnTime
PROPERTIES
  BreakerSpec
CHECK_DEADLOCK FALSE
