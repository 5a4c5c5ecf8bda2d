SPECIFICATION MCSpec
CONSTANTS
  Lot = 2
  MaxRaw = 4
  MaxEntries = 2
  Cool = 2
  Hold = 2
  N = 2
  Cap = 3
  Want = 2
  MinBars = 2
  Period = 2
  Attempts = 2
  MaxNow = 6
  Universe = 4
  TopScore = 2
  MaxSide = 2
  MaxCap = 3
  Parties = 4
  Totals = {2, 5}
  MaxWeight = 2
PROPERTIES
  ColumnsAligned
CHECK_DEADLOCK FALSE
