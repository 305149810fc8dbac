SPECIFICATION Spec
CONSTANTS
  NumUsers = 1
  BTC = btc
  usd = usd
  Fiat = {usd}
  Amounts = {0, 3}
  Rates <- MCRates
  Sat = 2
  MaxFee = 1
  NumInvoices = 2
  NumRequests = 2
  NumExternal = 1
  ExternalValue <- MCExternalOne
  InitFunds <- MCNoFunds
  InitDealer = 2
  Faults = {"event", "row", "summary", "restart"}
  Services = {"invoice", "dealer"}
INVARIANTS StoredIsLedger Inv BooksMatchNode FullyBacked
