CONSTANTS
  Sources = {a1}
  Subs <- MCSubs
  Dims = {daily, weekly}
  Configs <- MCEdits
  NoSub = NoSub
  MaxEvents = 2
  SemSize = 1
  MaxWindow = 2
  MaxIds = 2
  SaveOutcomes = {TRUE}
  MayCrash = FALSE
SPECIFICATION Spec
INVARIANTS OneStraggler OnlyStartedTargets SettledWhenIdle
