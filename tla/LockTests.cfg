CONSTANTS
  Threads = {t1, t2, t3}
  Tests = 3
SPECIFICATION TestsSpec
INVARIANTS ClockRunsAtWork TimesOfTest
CHECK_DEADLOCK FALSE
