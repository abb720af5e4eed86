CONSTANTS
  StreamLen = 9
  Capacity = 7
  Stale = {"next"}
SPECIFICATION Spec
INVARIANTS
  OutputInOrder
  CountsOnce
  EndsWithTheStream
PROPERTY
  RefinesReassembly
