SPECIFICATION LiveSpec
CONSTANTS
  USD = USD
  Symbols = {USD}
  Exposures <- MCExposures
  RiskTolerance <- MCTolerance
  OrderCap <- MCCap
  Capacity = 8
  Prompt = TRUE
  Margin = FALSE
  Faults = {}
  MaxDrops = 1
  MaxChanges = 1
  MaxOrders = 12
PROPERTIES BecomesReady HedgeConverges
CHECK_DEADLOCK FALSE
