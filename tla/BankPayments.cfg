SPECIFICATION LiveSpec
CONSTANTS
  NumUsers = 2
  BTC = btc
  usd = usd
  Fiat = {usd}
  Amounts = {2, 3}
  Rates <- MCRates
  Sat = 2
  MaxFee = 1
  NumInvoices = 1
  NumRequests = 2
  NumExternal = 1
  ExternalValue <- MCExternalOne
  InitFunds <- MCFunds
  InitDealer = 2
  Faults = {"summary", "reply"}
  Services = {"payment", "invoice"}
INVARIANTS Reconciled Inv BooksMatchNode
PROPERTIES RefundIsExact PaymentsEnd DepositsCredited
