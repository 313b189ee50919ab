SPECIFICATION FairSpec
CONSTANTS
  p1 = p1
  p2 = p2
  Procs = {p1, p2}
  Unique = TRUE
  Program <- CutRows
  Keys <- CutKeys
  Flushed <- CutFlushed
  Initial <- Partial
  MaxRuns = 3
  MaxCrashes = 1
CHECK_DEADLOCK FALSE
INVARIANTS OneRowPerKey AllWaitForOne
PROPERTIES SeedsAtomically EveryRunEnds SomeRunSucceeds RerunSucceeds
