SPECIFICATION Spec
CONSTANTS
  Pages = {p1}
  Edits = {e1}
  Retention = 1
  MaxSends = 2
  MaxLeaves = 1
  Allowed = {"flush", "crash", "load", "loss"}
  None = None
SYMMETRY Interchangeable
INVARIANTS FlushedSurvives
CHECK_DEADLOCK FALSE
