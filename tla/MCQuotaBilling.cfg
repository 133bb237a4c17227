SPECIFICATION Spec
CONSTANTS
  alice = alice
  op = op
  v1 = v1
  Unmapped = Unmapped
  Nobody = Nobody
  Customers = {alice, op}
  Operators = {op}
  Vips = {v1}
  MaxBytes = 2
  MaxDisturb = 2
INVARIANTS
  TypeOK
  NoOverBilling
PROPERTIES
  BillsOnlyBillable
  CatchesUp
  OnlyTornStops
  ImplementsLedger
