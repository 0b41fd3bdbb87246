\* acquire(), wait_q() with and without timeout, clear() and resizing together.
CONSTANTS
  t1 = t1  t2 = t2  t3 = t3  t4 = t4
  Issuers <- MixedIssuers
  Drainers <- MixedDrainers
  TimedDrainers <- MixedTimed
  InitDepth = 2
  Depths <- MixedDepths
  Goals <- MixedGoals
SPECIFICATION Spec
INVARIANT TypeOK
PROPERTY PoolSpec
