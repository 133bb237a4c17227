SPECIFICATION Spec
CONSTANTS
  k1 = k1
  k2 = k2
  t1 = t1
  t2 = t2
  NoToken = NoToken
  Tokens = {k1, k2}
  Threads = {t1, t2}
  TokenTtl = 1
  MaxTime = 2
  MaxRequests = 3
  MaxChanges = 2
  MaxLost = 1
SYMMETRY Symmetry
INVARIANTS
  TypeOK
  ServedWhenOpen
  RefusedForCause
  FailedFetchKeepsLink
  OnceUnlessOverlapped
CHECK_DEADLOCK FALSE
