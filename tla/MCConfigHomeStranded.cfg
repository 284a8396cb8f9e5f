\* A restart resolves another CODEX_HOME.
SPECIFICATION Spec
CONSTANTS
  u1 = u1
  e1 = e1
  e2 = e2
  c0 = c0
  c1 = c1
  UserUrls = {}
  Endpoints <- MCEndpoints
  CallUrls <- MCCallUrls
  CallFor <- MCCallForDefault
  WsUrl = wsUrl
  Absent = absent
  NonString = nonString
  NoFile = noFile
  NoSnapshot = noSnapshot
  None = none
  EditsRace = FALSE
  HomeMoves = TRUE
INVARIANT Restorable
