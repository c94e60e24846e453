CONSTANTS
  NumTests = 3
  max_jobs = 2
  Timeouts = {1, 2}
  MaxOutput = 2
  PipeSize = 1
SPECIFICATION ScriptSpec
INVARIANTS ReportsExact
PROPERTIES Ends
CHECK_DEADLOCK FALSE
