CONSTANTS
  Subs = {s1}
  Ids = {e1, e2}
  Dims <- MCBoth
  Day = 2
  Week = 3
  Month = 9
  Overlap = FALSE
  Others = FALSE
  LostAck = FALSE
  SaveOutcomes = {TRUE}
  MayCrash = FALSE
  MaxTime = 4
  MaxSpent = 2
  MaxApplied = 2
SPECIFICATION Spec
SYMMETRY MCSymmetry
CHECK_DEADLOCK FALSE
INVARIANTS TypeOK UsageIsReal UndoEnds
PROPERTIES ConsumptionKept
