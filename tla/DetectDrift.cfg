CONSTANTS
  c1 = c1
  Cards <- MCNoCards
  MaxIdent = 1
  Window = 4
  Tolerance = 2
  Grace = 1
  Reuse = 2
  MaxAge = 2
  Delay = 1
  Drift = 1
  MayMiss = {}
  MayGrant = FALSE
  MayPurge = FALSE
  MaxTime = 7
  MaxLogs = 2
  MaxStaff = 1
  MaxTurns = 0
SPECIFICATION Spec
CHECK_DEADLOCK FALSE
INVARIANTS TypeOK EventHasOfficialReset ConfirmDistinct
PROPERTIES WindowUsageGrows
