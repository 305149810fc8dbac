SPECIFICATION Spec
CONSTANTS
  USD = USD
  Symbols = {USD}
  Exposures <- MCExposures
  RiskTolerance <- MCTolerance
  OrderCap <- MCCap
  Capacity = 3
  Prompt = FALSE
  Margin = TRUE
  Faults = {"timeout","refuse","write"}
  MaxDrops = 1
  MaxChanges = 1
  MaxOrders = 2
INVARIANTS FlagsFollowState Inv
CHECK_DEADLOCK FALSE
