SPECIFICATION Spec
CONSTANTS
  c1 = c1
  c2 = c2
  r1 = r1
  r2 = r2
  Disabled = Disabled
  Nobody = Nobody
  Customers = {c1}
  Requests = {r1, r2}
  Ops = {"create", "rotate", "archive", "unarchive", "reset", "delete", "bulkdelete",
         "deleteuser", "cleanup", "reclaim"}
  Singles = {"rename", "renew", "bulk", "botrenew", "switch"}
  MaxOps = 4
  MaxFail = 1
SYMMETRY Threads
INVARIANTS
  TypeOK
  NoOrphanAccess
  OnePassword
  NoLitter
CHECK_DEADLOCK FALSE
