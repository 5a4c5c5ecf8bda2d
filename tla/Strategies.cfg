SPECIFICATION Spec
CONSTANTS
  Lot = 2
  MaxRaw = 4
  Every = 1
  EntryRate = 2
  ExitRate = 1
  MaxRate = 2
  MaxDays = 2
  ForceDays = 2
  MaxRounds = 2
  MaxQty = 2
  Threshold = 0
  HedgeGap = 2
  CloseDays = 1
  MaxPerp = 4
  MaxSold = 2
INVARIANTS
  StrategiesTypeOK
  AccountsMatchBelief
PROPERTIES
  ExpiriesAreMet
