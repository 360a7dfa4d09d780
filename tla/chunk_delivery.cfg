CONSTANTS
  Types = {"cache", "update"}
  MaxChunks = 3
  MaxMessages = 3
  MaxBreaks = 1
SPECIFICATION FairSpec
CHECK_DEADLOCK FALSE
INVARIANTS InBounds
PROPERTIES DeliversWholeMessages EveryMessageArrives
