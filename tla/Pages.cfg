SPECIFICATION PagesSpec
CONSTANTS
  Pages = {"article", "publications", "articles", "books", "wizard", "comments", "metadata", "import", "authors", "settings", "templates", "dialogs", "dock"}
  a1 = a1
  a2 = a2
  a3 = a3
  n1 = n1
  n2 = n2
  Empty = Empty
  None = None
  NoName = NoName
  Items = {a1, a2}
  Classes = {c1}
  Usages = {1}
  MaxEdits = 0
  MaxCalls = 0
  Purging = FALSE
  MaxDrops = 1
  MaxReloads = 1
  Forgets = TRUE
  Workers = 1
  Records = {a1, a2}
  FillClasses = {c1, c2}
  MaxJobs = 2
  MaxMishaps = 2
  Patterns = {q1, q2}
  Builtins = {q1}
  Labels = {l1, l2, l3}
  MaxTemplateCalls = 3
INVARIANTS PagesTypeOK ListsShowRows  DoneAsShown DockTellsTheTruth
 
CHECK_DEADLOCK FALSE
