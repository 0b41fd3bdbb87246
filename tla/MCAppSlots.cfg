\* Two flask threads, two slots, two kv_client processes; at most one error
\* that a client reports itself.
CONSTANTS
  r1 = r1  r2 = r2  p1 = p1  p2 = p2  s1 = s1  s2 = s2  k1 = k1  k2 = k2
  Reader <- Readers
  Proc <- Procs
  Slot <- Slots
  Key <- Keys
  Asks <- OneKeyEach
  MaxInFlight = 2
  MaxReported = 1
  Frail <- OneProc
SPECIFICATION Spec
INVARIANT TypeOK
INVARIANT RepliesMatch
INVARIANT FreeSlotsUnset
INVARIANT SlotsOwnedOnce
PROPERTY RequestsReturn
CHECK_DEADLOCK FALSE
