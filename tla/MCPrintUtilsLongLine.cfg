CONSTANTS
  InitLen = 4
  MaxLen = 16
  Lines <- MCOddLines
  Paths = {"exists"}
  Calls = {"add"}
  CallLimit = 3
  MaxFails = 0
SPECIFICATION InfoSpec
INVARIANT TbufValid
CHECK_DEADLOCK FALSE
