CONSTANTS
  InitLen = 4
  MaxLen = 16
  Lines <- MCEvenLines
  Paths = {"null", "missing", "exists", "unreadable"}
  Calls = {"add", "print"}
  CallLimit = 6
  MaxFails = 2
SPECIFICATION InfoSpec
INVARIANTS BuffersValid EachByteOnce
PROPERTIES AddEnds
CHECK_DEADLOCK FALSE
