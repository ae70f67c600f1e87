CONSTANTS
  Subs = {s1, s2}
  Ids = {e1}
  Dims <- MCWeekly
  Day = 3
  Week = 3
  Month = 9
  Overlap = FALSE
  Others = TRUE
  LostAck = TRUE
  SaveOutcomes = {TRUE, FALSE}
  MayCrash = TRUE
  MaxTime = 2
  MaxSpent = 1
  MaxApplied = 2
SPECIFICATION Spec
SYMMETRY MCSymmetry
CHECK_DEADLOCK FALSE
INVARIANTS UndoneOnce UndoneIsTrue
