SPECIFICATION FairSpec
CONSTANTS
  u1 = u1
  u2 = u2
  a1 = a1
  a2 = a2
  w1 = w1
  w2 = w2
  Nobody = Nobody
  Nowhere = Nowhere
  Users = {u1, u2}
  Addresses = {a1, a2}
  Workers = {w1, w2}
  BlockFor = 1
  MaxTime = 2
  MaxBlocks = 2
  MaxTrouble = 1
INVARIANTS
  TypeOK
  RulesHaveTimers
PROPERTIES
  BlockHolds
  RejectsEnd
CHECK_DEADLOCK FALSE
