SPECIFICATION Spec
CONSTANTS
  Items = {a1}
  Classes = {c1}
  Usages = {0, 1}
  MaxEdits = 0
  MaxCalls = 0
  Purging = FALSE
  None = None
INVARIANTS ReportedIsSaved
CHECK_DEADLOCK FALSE
