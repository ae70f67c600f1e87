CONSTANTS
  Sources = {a1, a2, a3}
  Subs <- MCOneSub
  Dims = {weekly}
  Configs <- MCOnlyFull
  NoSub = NoSub
  MaxEvents = 1
  SemSize = 2
  MaxWindow = 1
  MaxIds = 2
  SaveOutcomes = {TRUE}
  MayCrash = FALSE
SPECIFICATION FairSpec
INVARIANTS SucceededMeansLanded
PROPERTIES CycleEnds
