CONSTANTS
  Handlers = {h1, h2}
  Scopes <- MCTabs
  Subs <- MCSubs
  InGroup <- MCInGroup
  PageSize = 1
  SecretFile = TRUE
  MaxRequests = 2
  MaxWhole = 0
  SaveOutcomes = {TRUE}
  MayCrash = FALSE
SPECIFICATION Spec
INVARIANTS NoSaveForgotten
