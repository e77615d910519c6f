SPECIFICATION FairSpec
CONSTANTS
  MaxViewports = 3
INVARIANTS
  TypeOK
  ViewportsInOrder
PROPERTIES
  HandlerReturns
  ReaderReturns
  ViewportsHandled
CHECK_DEADLOCK FALSE
