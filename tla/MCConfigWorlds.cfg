\* Nobody writes config.toml in the middle of a transaction; and everybody does.
SPECIFICATION MCSpec
CONSTANTS
  u1 = u1
  e1 = e1
  e2 = e2
  c0 = c0
  c1 = c1
  UserUrls <- MCUserUrls
  Endpoints <- MCEndpoints
  CallUrls <- MCCallUrls
  CallFor <- MCCallFor
  WsUrl = wsUrl
  Absent = absent
  NonString = nonString
  NoFile = noFile
  NoSnapshot = noSnapshot
  None = none
  EditsRace = FALSE
  HomeMoves = FALSE
INVARIANTS Restorable ServedHasSnapshot PointsAtServed ServedHasSnapshotAnywhere
PROPERTIES ImplementsLease ImplementsLink
