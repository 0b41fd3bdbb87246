\* Two workers; one of them may be slow to stop.
CONSTANTS
  w1 = w1  w2 = w2
  Worker <- TwoWorkers
  BatchQueue = 1
  MaxBatch = 2
  MaxMishaps = 1
  Impatient <- OneWorker
  EarlyStop = FALSE
SPECIFICATION FairSpec
INVARIANT BatchesBounded
INVARIANT QueueNeverFull
INVARIANT StoppedMeansClosed
PROPERTY NothingSentAfterStop
PROPERTY StopReturns
CHECK_DEADLOCK FALSE
