\* One application thread, every fault, close() and a second connection.
CONSTANTS
  a = a  b = b
  Issuers <- OnlyA
  Drainers <- OnlyA
  Openers <- OnlyA
  Closers <- OnlyA
  Depth = 2
  Batching = TRUE
  AutoReconnects = {0, 1}
  Faults <- EveryFault
  MaxCmd = 3
  MaxConn = 2
SPECIFICATION FairSpec
INVARIANT SlotsMatchPending
INVARIANT NoForeignAnswer
INVARIANT OneListener
PROPERTY CleanConnect
PROPERTY CloseReturns
CHECK_DEADLOCK FALSE
