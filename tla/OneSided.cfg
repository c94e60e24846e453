CONSTANTS
  Threads = {t1, t2}
  Sizes = 2
  SmallSizes = 1
  Loop = 1
  Skip = 1
  Window = 2
  LoopLarge = 2
  SkipLarge = 1
  MaxErrors = 1
  MaxNoThread = 1
SPECIFICATION Spec
INVARIANTS SizesChangeAtRest SurplusBounded AnswerAfterWrites BytesExact
PROPERTIES Completes
CHECK_DEADLOCK FALSE
