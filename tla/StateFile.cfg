CONSTANTS
  Accounts = {a1, a2}
  Versions <- MCVersions
  MaxWindow = 2
  MaxEvents = 2
  SaveOutcomes = {TRUE, FALSE}
SPECIFICATION Spec
SYMMETRY MCSymmetry
CHECK_DEADLOCK FALSE
INVARIANTS NoReplay BaselineIsNative UndoWindowFixed RestartIsSame
