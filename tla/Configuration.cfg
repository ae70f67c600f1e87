CONSTANTS
  Handlers = {h1}
  Scopes <- AllScopes
  Subs <- MCSubs
  InGroup <- MCInGroup
  PageSize = 1
  SecretFile = TRUE
  MaxRequests = 3
  MaxWhole = 1
  SaveOutcomes = {TRUE, FALSE}
  MayCrash = TRUE
SPECIFICATION Spec
INVARIANTS TypeOK NoSaveForgotten KeyFollows MappingReconciled
