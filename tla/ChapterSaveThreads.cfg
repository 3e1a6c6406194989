SPECIFICATION FairSpec
CONSTANTS
  Pages = {p1}
  Edits = {e1, e2}
  Retention = 1
  MaxSends = 3
  MaxLeaves = 1
  Allowed = {"threads", "refresh", "switch"}
  None = None
INVARIANTS SnapshotsAreReal
 
CHECK_DEADLOCK FALSE
