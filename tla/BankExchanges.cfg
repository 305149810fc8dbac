SPECIFICATION Spec
CONSTANTS
  NumUsers = 2
  BTC = btc
  usd = usd
  Fiat = {usd}
  Amounts = {3}
  Rates <- MCRates
  Sat = 2
  MaxFee = 1
  NumInvoices = 1
  NumRequests = 2
  NumExternal = 1
  ExternalValue <- MCExternalOne
  InitFunds <- MCFunds
  InitDealer = 2
  Faults = {"row", "restart"}
  Services = {"swap", "transfer", "health", "lnurl"}
INVARIANTS Inv BooksMatchNode FullyBacked
