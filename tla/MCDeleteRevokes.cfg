SPECIFICATION Spec
CONSTANTS
  c1 = c1
  c2 = c2
  r1 = r1
  r2 = r2
  Disabled = Disabled
  Nobody = Nobody
  Customers = {c1}
  Requests = {r1}
  Ops = {"create", "delete"}
  Singles = {"rename"}
  MaxOps = 3
  MaxFail = 0
PROPERTIES
  DeleteRevokes
CHECK_DEADLOCK FALSE
