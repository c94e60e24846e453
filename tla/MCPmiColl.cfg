CONSTANTS
  NRanks = 3
  MaxOps = 2
  Programs <- MCPrograms
  Orders <- MCOrders
SPECIFICATION Spec
INVARIANTS InStep DataOfThisCall
PROPERTIES WriteOnce Completes CollectivesSynchronise
CHECK_DEADLOCK FALSE
