SPECIFICATION FairSpec
CONSTANTS
  u1 = u1
  u2 = u2
  r1 = r1
  r2 = r2
  p1 = p1
  Default = Default
  None = None
  Octets = {1, 8, 80, 129}
  Users = {u1}
  Remotes = {r1}
  Plans = {p1}
  MaxChanges = 2
  MaxTrouble = 1
INVARIANTS
  TypeOK
  StaysShaped
PROPERTIES
  ShapedEventually
  OutRulesGo
