SPECIFICATION Spec
CONSTANTS
  i1 = i1
  i2 = i2
  p1 = p1
  p2 = p2
  l1 = l1
  l2 = l2
  NoDoc = NoDoc
  Empty = Empty
  Nobody = Nobody
  Ids = {i1, i2}
  Begins <- Apart
  Portals = {p1, p2}
  Locals = {l1, l2}
  PortalKinds = {"append", "remove", "replace", "restore"}
  LocalKinds = {"add", "expire", "rotate"}
  Killed = {i2}
  MaxEdits = 2
  MaxFail = 2
  MaxSecond = 1
INVARIANTS
  TypeOK
  
  
  
PROPERTIES
  BackupIsReplaced
  Settles
CHECK_DEADLOCK FALSE
