SPECIFICATION Spec
CONSTANTS
  Pages = {p1, p2}
  Edits = {e1, e2}
  Retention = 1
  MaxSends = 2
  MaxLeaves = 0
  Allowed = {"threads"}
  None = None
SYMMETRY Interchangeable
PROPERTIES SavesAddUp
CHECK_DEADLOCK FALSE
