SPECIFICATION FairSpec
CONSTANTS
  MaxCSeq = 3
  MaxInfo = 2
  LoopLimit = 2
CHECK_DEADLOCK FALSE
INVARIANTS
  NoUseAfterFree
  NoLeak
  OrderlyEnd
  OneExchange
  IInv
PROPERTIES
  CallbackOrder
  Freed
