CONSTANTS
  Threads = {t1, t2, t3, t4}
  MaxCalls = 4
SPECIFICATION Spec
INVARIANTS IInv NoEarlyReturn
PROPERTIES ImplementsBarrier
CHECK_DEADLOCK FALSE
