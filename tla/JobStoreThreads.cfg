SPECIFICATION HangingSpec
CONSTANTS
  Jobs = {j1}
  Streams = {s1}
  Threads = {t1, t2}
  MaxEvents = 1
  NoOne = NoOne
INVARIANTS
  TypeOK
  EndedJobIsClosed
PROPERTIES
  ClosedStaysClosed
  CancelEndsWorker
