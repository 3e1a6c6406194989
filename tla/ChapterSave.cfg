SPECIFICATION Spec
CONSTANTS
  Pages = {p1, p2}
  Edits = {e1, e2}
  Retention = 1
  MaxSends = 3
  MaxLeaves = 1
  Allowed = {"loss", "restore", "rename", "sync", "flush", "crash", "load"}
  None = None
SYMMETRY Interchangeable
INVARIANTS SaveTypeOK HistoryIsComplete SavedWasCommitted
PROPERTIES SavesAddUp
CHECK_DEADLOCK FALSE
