SPECIFICATION SmallSpec
CONSTANTS
  a1 = a1
  a2 = a2
  c1 = c1
  c2 = c2
  Items = {a1, a2}
  Classes = {c1, c2}
  Usages = {0, 1}
  MaxEdits = 1
  MaxCalls = 1
  Purging = TRUE
  None = None
INVARIANTS FillTypeOK  FailedIsUntouched PaidIsSavedAndCharged
PROPERTIES FilledIsKept FillEnds
CHECK_DEADLOCK FALSE
