\* config.toml changes between the read and the write of a transaction.
SPECIFICATION Spec
CONSTANTS
  u1 = u1
  e1 = e1
  e2 = e2
  c0 = c0
  c1 = c1
  UserUrls <- MCUserUrls
  Endpoints <- MCEndpoints
  CallUrls <- MCCallUrls
  CallFor <- MCCallFor
  WsUrl = wsUrl
  Absent = absent
  NonString = nonString
  NoFile = noFile
  NoSnapshot = noSnapshot
  None = none
  EditsRace = TRUE
  HomeMoves = FALSE
PROPERTY ReplacesWhatItRead
