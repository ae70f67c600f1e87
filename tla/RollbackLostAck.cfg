CONSTANTS
  Subs = {s1}
  Ids = {e1}
  Dims <- MCDaily
  Day = 3
  Week = 4
  Month = 9
  Overlap = FALSE
  Others = FALSE
  LostAck = TRUE
  SaveOutcomes = {TRUE}
  MayCrash = FALSE
  MaxTime = 3
  MaxSpent = 2
  MaxApplied = 2
SPECIFICATION Spec
SYMMETRY MCSymmetry
CHECK_DEADLOCK FALSE
INVARIANTS UndoneOnce
