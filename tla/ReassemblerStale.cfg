CONSTANTS
  StreamLen = 8
  Capacity = 8
  Stale = {"next", "other"}
SPECIFICATION LoopSpec
INVARIANT OutputInOrder
