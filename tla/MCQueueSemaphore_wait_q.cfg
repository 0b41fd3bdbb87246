\* Two threads drain the queue while a third one fills it.
CONSTANTS
  t1 = t1  t2 = t2  t3 = t3  t4 = t4
  Issuers <- OneIssuer
  Drainers <- TwoDrainers
  TimedDrainers <- NoThreads
  InitDepth = 1
  Depths <- NoDepths
  Goals <- ZeroGoal
SPECIFICATION FairSpec
PROPERTY WaitQReturns
CHECK_DEADLOCK FALSE
