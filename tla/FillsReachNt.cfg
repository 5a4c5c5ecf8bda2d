CONSTANTS
  o1 = o1
  Orders = {o1}
  HyphenIds = {o1}
  Qty = 1
  MaxRetries = 0
  MaxTransient = 0
SPECIFICATION Spec
INVARIANT FillsReachNt
CHECK_DEADLOCK FALSE
