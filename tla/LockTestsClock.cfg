CONSTANTS
  Threads = {t1, t2, t3}
  Tests = 3
SPECIFICATION TestsSpec
INVARIANT StartedBeforeWork
CHECK_DEADLOCK FALSE
