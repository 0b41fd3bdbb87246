\* Two workers and three paths, one of which makes a filter raise, through a
\* queue of two; one worker may fail to start.
CONSTANTS
  w1 = w1  w2 = w2  i1 = i1  i2 = i2  i3 = i3  none = none
  Worker <- TwoWorkers
  Item <- ThreeItems
  Accepted <- Passing
  Failing <- Raising
  QSize = 2
  Sentinel = none
  Duds <- NoneOrOneDud
SPECIFICATION Spec
INVARIANT UnfinishedExact
INVARIANT CountsConserved
INVARIANT Drained
INVARIANT ReportComplete
PROPERTY SearchEnds
CHECK_DEADLOCK FALSE
