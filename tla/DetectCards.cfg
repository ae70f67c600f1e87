CONSTANTS
  c1 = c1
  Cards <- MCOneCard
  MaxIdent = 2
  Window = 7
  Tolerance = 0
  Grace = 0
  Reuse = 2
  MaxAge = 2
  Delay = 1
  Drift = 0
  MayMiss = {"account"}
  MayGrant = TRUE
  MayPurge = TRUE
  MaxTime = 6
  MaxLogs = 1
  MaxStaff = 1
  MaxTurns = 2
SPECIFICATION Spec
CHECK_DEADLOCK FALSE
CONSTRAINT MCBound
INVARIANTS EventHasOfficialReset OneEventPerWindow
