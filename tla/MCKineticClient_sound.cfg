\* Two application threads on one sound connection.
CONSTANTS
  a = a  b = b
  Issuers <- Both
  Drainers <- OnlyB
  Openers <- OnlyA
  Closers <- Nobody
  Depth = 2
  Batching = TRUE
  AutoReconnects = {0}
  Faults <- NoFaults
  MaxCmd = 4
  MaxConn = 1
SPECIFICATION FairSpec
PROPERTY LedgerSpec
PROPERTY DrainReturns
