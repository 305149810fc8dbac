SPECIFICATION LiveSpec
CONSTANTS
  NumUsers = 2
  BTC = btc
  KKP = kkp
  Fiat = {kkp}
  Amounts = {1}
  KarmaReports = {1, 3}
  SwapValues = {2}
  PaymentValues = {3}
  PaymentRates <- MCRates
  RateUnit = 10
  InitTotals <- MCTotals
  Faults = {"row", "totals", "dca", "restart"}
  Intervals <- MCIntervals
  DcaSettings <- MCSettings
  LoopbackSize = 4
  JournalSize = 1
  MaxMessages = 3
INVARIANTS FundedBooks KarmaBacked StartsAgain LoopbackFits DcaExact
PROPERTIES DcaAsked AuditStops
CHECK_DEADLOCK FALSE
