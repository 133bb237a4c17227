SPECIFICATION Spec
CONSTANTS
  i1 = i1
  i2 = i2
  p1 = p1
  p2 = p2
  l1 = l1
  l2 = l2
  NoDoc = NoDoc
  Empty = Empty
  Nobody = Nobody
  Ids = {i1, i2}
  Begins <- Apart
  Portals = {p1, p2}
  Locals = {}
  PortalKinds = {"append"}
  LocalKinds = {}
  Killed = {}
  MaxEdits = 2
  MaxFail = 0
  MaxSecond = 0
INVARIANTS
  NeverTruncated
CHECK_DEADLOCK FALSE
