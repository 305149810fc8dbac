SPECIFICATION Spec
CONSTANTS
  Keys = {k1}
  Requests = {r1, r2}
  Bodies = {b1, b2}
  None = None
  MaxCreated = 2
  API_PROFILE_TIMEOUT = 1
  SECONDS_IN_HOUR = 5
  NAP = 2
  Historical = TRUE
  Faults = {"check", "send"}
  FirstTime = 1
  MaxTime = 9
  MaxStarts = 2
SYMMETRY Symmetry
INVARIANTS
  StoreFollowsCache
  AnsweredOnce
  IndexComplete
PROPERTIES
  AnswersNeverGoBack
CHECK_DEADLOCK FALSE
