SPECIFICATION Spec
CONSTANTS
  p1 = p1
  o1 = o1
  t1 = t1
  t2 = t2
  Never = Never
  Portal = {p1}
  Operator = {o1}
  Threads = {t1, t2}
  PortalTtl = 2
  OperatorTtl = 3
  MaxAge = 4
  MaxWait = 1
  MaxLogins = 1
  MaxTime = 6
INVARIANTS
  TypeOK
  ActiveStaysIn
  NotAfterEnd
PROPERTIES
  AcceptedInWindow
  ExpiredPurged
CHECK_DEADLOCK FALSE
