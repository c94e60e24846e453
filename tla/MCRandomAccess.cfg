CONSTANTS
  num_ranks = 3
  LogTableSize = 2
  Width = 4
  Poly = {0, 1}
  MaxLost = 1
SPECIFICATION Spec
INVARIANTS RanksInStep TargetsReady StreamsCompose ErrorsExact
INVARIANTS TablesShared JumpsToStream
PROPERTIES Completes
CHECK_DEADLOCK FALSE
