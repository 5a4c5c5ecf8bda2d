SPECIFICATION MCSpec
CONSTANTS
  a = a
  b = b
  c = c
  Tasks = {a, b, c}
  Capacity = 2
  Period = 3
  MaxCool = 2
  MaxAge = 4
  Sizes = {100}
  MaxTrades = 2
  Window = 2
  TargetVol = 15
  MaxScale = 200
  MinScale = 10
  Vols = {0, 7, 60}
  Fraction = 25
  MaxFraction = 50
  WinRates = {30, 60}
  Rewards = {100}
  CorrThreshold = 70
  HighCorrScale = 50
  Corrs = {100}
  Ranks = {"none", "high"}
  Kinds = {"reversal"}
  Configs = {{}, {"rate"}, {"account", "vol", "regime", "rate"}, {"vol", "kelly", "correlation"}, {"account", "vol", "kelly", "drawdown", "correlation", "regime", "rate"}}
  Requests = {1, 2}
  QueueSize = 2
  MaxFrames = 3
  OptionUlys = TRUE
  MaxHandlers = 3
  Days = 2
  PageCap = 2
  LastDay = 4
  LastOrder = 2
INVARIANTS BarsAreConfirmed
CHECK_DEADLOCK FALSE
