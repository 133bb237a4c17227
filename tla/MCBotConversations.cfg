SPECIFICATION Spec
CONSTANTS
  n1 = n1
  n2 = n2
  d1 = d1
  c1 = c1
  c2 = c2
  s1 = s1
  v1 = v1
  Unset = Unset
  Names = {n1}
  Durations = {d1}
  Caps = {c1, c2}
  Speeds = {s1}
  Devices = {v1}
  MaxCards = 2
  MaxStarts = 2
  MaxBacks = 1
  MaxStops = 1
  MaxFlushes = 1
INVARIANTS
  TypeOK
  KeysReady
  MadeIsShown
  TierOfChoices
