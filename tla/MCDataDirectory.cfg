SPECIFICATION Spec
CONSTANTS
  c1 = c1
  c2 = c2
  k1 = k1
  k2 = k2
  Clients <- MCClients
  Keys <- MCKeys
  Values = {0, 1, 2}
  InRange = {0, 1}
  Default = 0
  MaxClients = 1
  NoOne = noOne
INVARIANTS TypeOK WayBackKept SettingsKept ServingIsReachable PurgedClean
PROPERTY OnlyOwnedRemoved
CHECK_DEADLOCK FALSE
SYMMETRY Symmetry
