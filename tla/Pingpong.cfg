CONSTANTS
  Threads = {t1, t2}
  Zero = t1
  Builds = {TRUE, FALSE}
  Sizes = 2
  SmallSizes = 1
  Loop = 1
  Skip = 1
  LoopLarge = 2
  SkipLarge = 1
  MaxErrors = 1
  MaxLost = 1
  MaxNoThread = 1
SPECIFICATION Spec
INVARIANTS WorkersInStep RoundTripsReal
PROPERTIES Completes
CHECK_DEADLOCK FALSE
