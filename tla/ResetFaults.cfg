CONSTANTS
  Sources = {a1}
  Subs <- MCSubs
  Dims = {weekly}
  Configs <- MCOnlyFull
  NoSub = NoSub
  MaxEvents = 4
  SemSize = 4
  MaxWindow = 2
  MaxIds = 3
  SaveOutcomes = {TRUE, FALSE}
  MayCrash = TRUE
SPECIFICATION Spec
INVARIANTS TypeOK IInv AtMostOnceReset SnapshotBeforeReset SucceededMeansLanded OneEventPerWindow
PROPERTIES FuseNeverBack DiskVerdictFinal LedgerSpec
