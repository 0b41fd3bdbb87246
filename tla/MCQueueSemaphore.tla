-------------------------- MODULE MCQueueSemaphore --------------------------
(* Instances of QueueSemaphore for TLC. *)
EXTENDS QueueSemaphore, TLC

CONSTANTS t1, t2, t3, t4

NoThreads == {}
NoDepths == {}

(* issuers only *)
FourIssuers == {t1, t2, t3, t4}

(* issuers and wait_q callers on one Condition; t2 does both *)
MixedIssuers == {t1, t2}
MixedDrainers == {t2, t3}
MixedTimed == {t3}
MixedDepths == {1, 3}
MixedGoals == {0, 1}

(* two threads that only drain *)
OneIssuer == {t1}
TwoDrainers == {t2, t3}
ZeroGoal == {0}
==============================================================================
