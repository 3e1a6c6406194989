SPECIFICATION FairSpec
CONSTANTS
  Jobs = {j1}
  Streams = {s1, s2}
  Threads = {}
  MaxEvents = 2
  NoOne = NoOne
INVARIANTS
  StreamsAreServed
PROPERTIES
  TerminalIsFinal
  KeepsPromise
