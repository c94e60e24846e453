CONSTANTS
  NRanks = 5
  NPairs = 2
  IOV_CNT = 2
  Calls <- MCCalls
  Loop = 1
  Skip = 1
  Window = 1
  Modes <- MCModes
  MaxFailures = 1
  Failing = {0, 2}
SPECIFICATION Spec
INVARIANTS RanksInStep NoWarmupTimed AllReceived ResetLosesNothing SurplusBounded
PROPERTIES Completes
CHECK_DEADLOCK FALSE
