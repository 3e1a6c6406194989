SPECIFICATION Spec
CONSTANTS
  c1 = c1
  c2 = c2
  c3 = c3
  c4 = c4
  Pages = {p1, p2}
  Chapters = {c1, c2, c3, c4}
  First <- Started
  Group <- Groups
  MaxCalls = 3
  None = None
SYMMETRY Interchangeable
INVARIANTS OrderTypeOK SyncedShowsOrder 
 
CHECK_DEADLOCK FALSE
