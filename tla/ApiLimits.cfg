SPECIFICATION LimitsSpec
CONSTANTS
  Requests = {r1, r2, r3}
  MaxRequests = 2
  RateInterval = 1
  Quota = 1
  QuotaInterval = 2
  RequestLimit = 1
  BankInterval = 2
  MaxTime = 2
INVARIANTS LimitIsEarned NoPlaceLost QuotaHolds BankLimitHolds
PROPERTIES RefusedAtLimit QuotaComesBack
CHECK_DEADLOCK FALSE
