SPECIFICATION Spec
CONSTANTS
  BTC = BTC
  usd = usd
  eur = eur
  Fiat = {usd, eur}
  NumUsers = 2
  Uids = {u1, u2}
  Amounts <- MCAmounts
  Conversions <- MCConversions
  Books <- MCBooks
  Quantities <- MCQuantities
  HalfSpread <- MCHalfSpread
  QUOTE_TTL = 1
  MaxPrice = 4
  MaxTime = 2
  MaxQuotes = 2
SYMMETRY Symmetry
INVARIANTS
  QuotesFollowBook
  NoFreeRoundTrip
PROPERTIES
  HonouredAsPromised
