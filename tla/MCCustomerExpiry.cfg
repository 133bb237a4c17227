SPECIFICATION Spec
CONSTANTS
  c1 = c1
  c2 = c2
  r1 = r1
  r2 = r2
  Disabled = Disabled
  Nobody = Nobody
  Customers = {c1, c2}
  Requests = {r1, r2}
  Ops = {"create", "archive", "bulkdelete"}
  Singles = {"renew", "switch"}
  MaxOps = 3
  MaxFail = 1
PROPERTIES
  ExpiredGoes
CHECK_DEADLOCK FALSE
