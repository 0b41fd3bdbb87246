--------------------------- MODULE QueueSemaphore ---------------------------
(***************************************************************************)
(* Client.Semaphore and Client.wait_q (kv_client/client.py): the counter   *)
(* of outstanding commands, the threads that block in acquire() for a free *)
(* slot, and those that block in wait_q() until enough slots are free.     *)
(* Both sorts of thread sleep on ONE Condition, and release() wakes one    *)
(* thread of either sort.                                                  *)
(***************************************************************************)
EXTENDS PyCondition, FiniteSets

CONSTANTS
  Issuers,       \* threads that issue commands, hence call acquire()
  Drainers,      \* threads that call wait_q(); may also be issuers
  TimedDrainers, \* those that pass wait_q() a timeout that can run out
  InitDepth,     \* queue_depth given to the constructor
  Depths,        \* values later assigned to queue_depth
  Goals          \* values passed to wait_q() as its outstanding argument

ASSUME SemaphoreAssumption ==
  /\ InitDepth \in Nat \ {0}
  /\ Depths \subseteq Nat
  /\ Goals \subseteq Nat
  /\ TimedDrainers \subseteq Drainers
  /\ IsFiniteSet(Issuers)

VARIABLES
  depth,         \* Semaphore.depth
  outstanding,   \* Semaphore._outstanding
  waiters,       \* the sleepers of Semaphore._cond
  pc,            \* what each thread is executing
  goal           \* the outstanding argument of its wait_q() call

vars == <<depth, outstanding, waiters, pc, goal>>

Thread == Issuers \cup Drainers

Awake(t) == ~Asleep(waiters, t)

Init ==
  /\ depth = InitDepth
  /\ outstanding = 0
  /\ waiters = <<>>
  /\ pc = [t \in Thread |-> "idle"]
  /\ goal = [t \in Thread |-> 0]

-----------------------------------------------------------------------------
(* acquire(): the caller loops on "outstanding >= depth", sleeping in      *)
(* between; a woken thread competes with the newcomers.                    *)

AcquireCall(t) ==
  /\ pc[t] = "idle"
  /\ pc' = [pc EXCEPT ![t] = "acquire"]
  /\ UNCHANGED <<depth, outstanding, waiters, goal>>

AcquireSleep(t) ==
  /\ pc[t] = "acquire" /\ Awake(t)
  /\ outstanding >= depth
  /\ waiters' = Wait(waiters, t)
  /\ UNCHANGED <<depth, outstanding, pc, goal>>

\* mutant: the test in acquire() lets one command too many through
AcquireTakeOneMore(t) ==
  /\ pc[t] = "acquire" /\ Awake(t)
  /\ outstanding <= depth
  /\ outstanding' = outstanding + 1
  /\ pc' = [pc EXCEPT ![t] = "idle"]
  /\ UNCHANGED <<depth, waiters, goal>>

AcquireTake(t) ==
  /\ pc[t] = "acquire" /\ Awake(t)
  /\ outstanding < depth
  /\ outstanding' = outstanding + 1
  /\ pc' = [pc EXCEPT ![t] = "idle"]
  /\ UNCHANGED <<depth, waiters, goal>>

(* acquire(blocking=False): returns False at once when there is no slot. *)
TryAcquire(t) ==
  /\ pc[t] = "idle"
  /\ outstanding < depth
  /\ outstanding' = outstanding + 1
  /\ UNCHANGED <<depth, waiters, pc, goal>>

-----------------------------------------------------------------------------
(* release() (the listener, one per answered command) and clear() (close). *)

\* mutant: release() does not look whether there is anything to release
ReleaseBelowZero ==
  /\ outstanding' = outstanding - 1
  /\ waiters' = Notify(waiters)
  /\ UNCHANGED <<depth, pc, goal>>

\* mutant: release() notifies only when the queue was full
ReleaseOnlyFromFull ==
  /\ outstanding > 0
  /\ outstanding' = outstanding - 1
  /\ waiters' = IF outstanding = depth THEN Notify(waiters) ELSE waiters
  /\ UNCHANGED <<depth, pc, goal>>

\* mutant: release() wakes the newest sleeper
ReleaseToNewest ==
  /\ outstanding > 0
  /\ outstanding' = outstanding - 1
  /\ waiters' = IF waiters = <<>> THEN waiters ELSE SubSeq(waiters, 1, Len(waiters) - 1)
  /\ UNCHANGED <<depth, pc, goal>>

Release ==
  /\ outstanding > 0
  /\ outstanding' = outstanding - 1
  /\ waiters' = Notify(waiters)
  /\ UNCHANGED <<depth, pc, goal>>

Clear ==
  /\ outstanding' = 0
  /\ waiters' = NotifyAll(waiters)
  /\ UNCHANGED <<depth, pc, goal>>

(* The queue_depth setter assigns the depth outside the lock, wakes no one. *)
SetDepth(d) ==
  /\ depth' = d
  /\ UNCHANGED <<outstanding, waiters, pc, goal>>

-----------------------------------------------------------------------------
(* wait_q(outstanding=n, timeout) *)

WaitQCall(t, n) ==
  /\ pc[t] = "idle"
  /\ pc' = [pc EXCEPT ![t] = "wait_q"]
  /\ goal' = [goal EXCEPT ![t] = n]
  /\ UNCHANGED <<depth, outstanding, waiters>>

WaitQSleep(t) ==
  /\ pc[t] = "wait_q" /\ Awake(t)
  /\ outstanding > goal[t]
  /\ waiters' = Wait(waiters, t)
  /\ UNCHANGED <<depth, outstanding, pc, goal>>

WaitQTrue(t) ==
  /\ pc[t] = "wait_q" /\ Awake(t)
  /\ outstanding <= goal[t]
  /\ pc' = [pc EXCEPT ![t] = "idle"]
  /\ goal' = [goal EXCEPT ![t] = 0]
  /\ UNCHANGED <<depth, outstanding, waiters>>

(* The deadline has passed, whether the thread still sleeps or has just been *)
(* notified: the loop ends without another look at the counter.              *)
WaitQTimeout(t) ==
  /\ pc[t] = "wait_q"
  /\ waiters' = LeaveWait(waiters, t)
  /\ pc' = [pc EXCEPT ![t] = "idle"]
  /\ goal' = [goal EXCEPT ![t] = 0]
  /\ UNCHANGED <<depth, outstanding>>

-----------------------------------------------------------------------------
AcquireStep(t) == AcquireSleep(t) \/ AcquireTake(t)
WaitQStep(t) == WaitQSleep(t) \/ WaitQTrue(t)

Next ==
  \/ \E t \in Issuers : AcquireCall(t) \/ AcquireStep(t) \/ TryAcquire(t)
  \/ Release
  \/ Clear
  \/ \E d \in Depths : SetDepth(d)
  \/ \E t \in Drainers : WaitQStep(t) \/ \E n \in Goals : WaitQCall(t, n)
  \/ \E t \in TimedDrainers : WaitQTimeout(t)

Spec == Init /\ [][Next]_vars

(* The interpreter schedules every runnable thread, and the drive answers   *)
(* what it was sent; that callers call, or close() clears, is not promised. *)
Fairness ==
  /\ \A t \in Issuers : WF_vars(AcquireStep(t))
  /\ \A t \in Drainers : WF_vars(WaitQStep(t))
  /\ WF_vars(Release)

FairSpec == Spec /\ Fairness
-----------------------------------------------------------------------------
(* The semaphore's counter, its depth and its callers keep their types.     *)
TypeOK ==
  /\ depth \in Depths \cup {InitDepth}
  /\ outstanding \in Nat
  /\ waiters \in Seq(Thread)
  /\ pc \in [Thread -> {"idle", "acquire", "wait_q"}]
  /\ goal \in [Thread -> Nat]

Acquiring == {t \in Issuers : pc[t] = "acquire" /\ Awake(t)}

(* Client.Semaphore's release() may notify() one thread only because every   *)
(* sleeper waits for the same thing: while some thread sleeps in acquire(),  *)
(* the free slots never outnumber the threads on their way to take one.      *)
(* (True without wait_q callers and without depth changes.)                  *)
NoStrandedIssuer == waiters # <<>> => depth - outstanding <= Cardinality(Acquiring)

(* The Condition is fair among its sleepers: a thread that sleeps in         *)
(* acquire() is woken eventually, however the others re-enter the queue.     *)
SleepersWake == \A t \in Issuers : (pc[t] = "acquire" /\ ~Awake(t)) ~> Awake(t)

(* README.md:51 of python-client: wait_q(n) returns once n or fewer commands *)
(* are outstanding (or, if it does not, the counter went up again).          *)
WaitQReturns ==
  \A t \in Drainers :
    (pc[t] = "wait_q" /\ outstanding <= goal[t]) ~> (pc[t] = "idle" \/ outstanding > goal[t])

-----------------------------------------------------------------------------
(* The semaphore is a slot pool: the waiting is invisible to it.             *)
Pool == INSTANCE SlotPool WITH
          Limits <- Depths \cup {InitDepth}, used <- outstanding, limit <- depth
PoolSpec == Pool!Spec
==============================================================================
