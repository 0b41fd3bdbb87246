\* One reporter, whose statuses overtake each other; two starts at once are too many.
CONSTANTS
  r1 = r1
  Reporter <- OneReporter
  MaxStatus = 2
  Attempts = 2
  Limit = 2
  RecoveryCount = 2
  Window = 0
  MaxTime = 1
  MaxWipes = 1
  MaxStarts = 3
SPECIFICATION FairSpec
INVARIANT StatusHistory
INVARIANT ToldIsStored
INVARIANT RecoveryBounded
PROPERTY RecoversOrDies
CHECK_DEADLOCK FALSE
