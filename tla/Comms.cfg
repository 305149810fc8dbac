SPECIFICATION Spec
CONSTANTS
  r1 = r1
  r2 = r2
  r3 = r3
  id1 = id1
  id2 = id2
  id3 = id3
  Routes = {r1, r2, r3}
  Ids = {id1, id2, id3}
  KindOf <- MCMixed
  IdOf <- MCMixedIds
  Timeout <- MCTimeout
  FilterExpiration = 1
  FilterSizeLimit = 0
  Capacity = 2
  MaxTime = 2
INVARIANTS OwnAnswer AnswerNotMissed Inv
CHECK_DEADLOCK FALSE
