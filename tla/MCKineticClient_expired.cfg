\* One application thread whose commands expire.
CONSTANTS
  a = a  b = b
  Issuers <- OnlyA
  Drainers <- Nobody
  Openers <- OnlyA
  Closers <- Nobody
  Depth = 2
  Batching = FALSE
  AutoReconnects = {0}
  Faults <- Expiry
  MaxCmd = 3
  MaxConn = 1
SPECIFICATION Spec
INVARIANT DriveWithinDepth
CHECK_DEADLOCK FALSE
