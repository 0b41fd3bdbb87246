\* Four threads over two slots: nobody calls wait_q or resizes the queue.
CONSTANTS
  t1 = t1  t2 = t2  t3 = t3  t4 = t4
  Issuers <- FourIssuers
  Drainers <- NoThreads
  TimedDrainers <- NoThreads
  InitDepth = 2
  Depths <- NoDepths
  Goals <- ZeroGoal
SPECIFICATION FairSpec
INVARIANT NoStrandedIssuer
PROPERTY SleepersWake
