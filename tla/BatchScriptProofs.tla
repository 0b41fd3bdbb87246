--------------------------- MODULE BatchScriptProofs ---------------------------
(***************************************************************************)
(* For any number of workers and any batch_queue, and whoever stops the    *)
(* script when: no connection has more than batch_queue commits            *)
(* unanswered, and its queue of 2 * batch_queue slots never fills up,      *)
(* unless batch_queue is 1 and the script is stopped twice at once.        *)
(* wait_q() bounds what a worker sends only while it sends alone: the      *)
(* argument counts the flush of each thread that stops the worker too.     *)
(*                                                                         *)
(* And if the user's Ctrl-C comes only after the workers have started,     *)
(* stop() leaves every worker's connection closed, and nothing is sent     *)
(* afterwards; the tracker's too, unless its threads outlived the joins.   *)
(***************************************************************************)
EXTENDS BatchScript, TLAPS

ByUser(w) == <<"user", w>>
ByScript(w) == <<"script", w>>

(* Where a thread of a worker can be.                                       *)
WorkerLabel == {"unborn", "loop", "create", "commit", "acquire", "wait_q", "stop", "mark",
                "await", "join", "check", "flush", "flushing", "drain", "close", "closing", "death",
                "end", "raised"}

(* A flush is outstanding no longer than its thread is in wait_q(0).        *)
Flushes(t) == IF pc[t] = "drain" THEN 1 ELSE 0

QueueType ==
  /\ pc \in [Thread -> WorkerLabel]
  /\ out \in [Worker -> Nat] /\ commits \in [Worker -> Nat]

(* Outside wait_q() a worker has room for another batch, for ever once it   *)
(* left its loop; whatever else is outstanding is a flush.                  *)
QueueOf(w) ==
  /\ commits[w] <= out[w]
  /\ commits[w] <= BatchQueue
  /\ pc[Run(w)] # "wait_q" => commits[w] <= BatchQueue - 1
  /\ out[w] <= commits[w] + Flushes(Run(w)) + Flushes(ByUser(w)) + Flushes(ByScript(w))

QueueInv == QueueType /\ \A w \in Worker : QueueOf(w)

-----------------------------------------------------------------------------
LEMMA Threads ==
  /\ \A w \in Worker : /\ {Run(w), ByUser(w), ByScript(w)} \subseteq Thread
                       /\ Run(w) # ByUser(w) /\ Run(w) # ByScript(w) /\ ByUser(w) # ByScript(w)
                       /\ Run(w)[2] = w /\ ByUser(w)[2] = w /\ ByScript(w)[2] = w
  /\ \A t \in Thread : t[2] \in Worker /\ t \in {Run(t[2]), ByUser(t[2]), ByScript(t[2])}
  BY DEF Thread, Stopper, Run, ByUser, ByScript

LEMMA QueueInvInit == Init => QueueInv
<1> SUFFICES ASSUME Init PROVE QueueInv
  OBVIOUS
<1>1. QueueType
  BY DEF Init, QueueType, WorkerLabel
<1>2. ASSUME NEW w \in Worker PROVE QueueOf(w)
  <2>1. /\ out[w] = 0 /\ commits[w] = 0
        /\ pc[Run(w)] = "unborn"
        /\ pc[ByUser(w)] = "unborn" /\ pc[ByScript(w)] = "unborn"
    BY Threads DEF Init
  <2> QED
    BY <2>1, ScriptAssumption DEF QueueOf, Flushes
<1> QED
  BY <1>1, <1>2 DEF QueueInv

(* A thread that goes on without a command and without an answer: it leaves *)
(* wait_q() only when the queue is short enough.                            *)
LEMMA JumpKeeps ==
  ASSUME QueueInv, NEW t \in Thread, NEW label \in WorkerLabel, Jump(t, label),
         UNCHANGED <<out, commits>>,
         pc[t] = "drain" => out[t[2]] = 0,
         t = Run(t[2]) /\ pc[t] = "wait_q" => out[t[2]] <= BatchQueue - 1
  PROVE  QueueInv'
<1>1. pc' = [pc EXCEPT ![t] = label] /\ pc \in [Thread -> WorkerLabel]
  BY DEF Jump, QueueInv, QueueType
<1>2. QueueType'
  BY <1>1 DEF QueueInv, QueueType
<1>3. ASSUME NEW w \in Worker PROVE QueueOf(w)'
  <2>1. /\ out[w] \in Nat /\ commits[w] \in Nat /\ QueueOf(w)
        /\ out'[w] = out[w] /\ commits'[w] = commits[w]
    BY DEF QueueInv, QueueType
  <2>2. CASE w # t[2]
    <3>1. /\ pc'[Run(w)] = pc[Run(w)]
          /\ pc'[ByUser(w)] = pc[ByUser(w)] /\ pc'[ByScript(w)] = pc[ByScript(w)]
      BY <2>2, <1>1, Threads
    <3> QED
      BY <2>1, <3>1 DEF QueueOf, Flushes
  <2>3. CASE w = t[2]
    <3>1. out[w] <= commits[w] + Flushes(Run(w))' + Flushes(ByUser(w))' + Flushes(ByScript(w))'
      <4>1. CASE pc[t] = "drain"
        BY <4>1, <2>1, <2>3 DEF Flushes
      <4>2. CASE pc[t] # "drain"
        <5>1. \A u \in Thread : u[2] = w => (pc[u] = "drain" => pc'[u] = "drain")
          BY <4>2, <1>1
        <5>2. /\ pc[Run(w)] = "drain" => pc'[Run(w)] = "drain"
              /\ pc[ByUser(w)] = "drain" => pc'[ByUser(w)] = "drain"
              /\ pc[ByScript(w)] = "drain" => pc'[ByScript(w)] = "drain"
          BY <5>1, Threads
        <5> QED
          BY <5>2, <2>1 DEF QueueOf, Flushes
      <4> QED
        BY <4>1, <4>2
    <3>2. pc'[Run(w)] # "wait_q" => commits[w] <= BatchQueue - 1
      <4>1. CASE t = Run(w) /\ pc[t] = "wait_q"
        BY <4>1, <2>1, <2>3, ScriptAssumption DEF QueueOf
      <4>2. CASE t = Run(w) /\ pc[t] # "wait_q"
        BY <4>2, <2>1 DEF QueueOf
      <4>3. CASE t # Run(w)
        BY <4>3, <1>1, <2>1, Threads DEF QueueOf
      <4> QED
        BY <4>1, <4>2, <4>3
    <3> QED
      BY <2>1, <3>1, <3>2 DEF QueueOf
  <2> QED
    BY <2>2, <2>3
<1> QED
  BY <1>2, <1>3 DEF QueueInv

(* A step that touches one worker's queue and at most one of its threads.   *)
Only(w) ==
  /\ \A t \in Thread : t[2] # w => pc'[t] = pc[t]
  /\ \A v \in Worker : v # w => out'[v] = out[v] /\ commits'[v] = commits[v]

LEMMA QueueStepKeeps ==
  ASSUME QueueInv, NEW w \in Worker, Only(w), QueueType', QueueOf(w)'
  PROVE  QueueInv'
<1>1. ASSUME NEW v \in Worker, v # w PROVE QueueOf(v)'
  <2>1. out'[v] = out[v] /\ commits'[v] = commits[v] /\ QueueOf(v)
    BY <1>1 DEF Only, QueueInv
  <2>2. /\ pc'[Run(v)] = pc[Run(v)]
        /\ pc'[ByUser(v)] = pc[ByUser(v)] /\ pc'[ByScript(v)] = pc[ByScript(v)]
    BY <1>1, Threads DEF Only
  <2> QED
    BY <2>1, <2>2 DEF QueueOf, Flushes
<1> QED
  BY <1>1 DEF QueueInv

LEMMA CommitKeeps ==
  ASSUME QueueInv, NEW w \in Worker, Commit(w)
  PROVE  QueueInv'
<1>1. /\ out[w] \in Nat /\ commits[w] \in Nat /\ QueueOf(w) /\ QueueType
      /\ {Run(w), ByUser(w), ByScript(w)} \subseteq Thread
      /\ Run(w) # ByUser(w) /\ Run(w) # ByScript(w) /\ Run(w)[2] = w
  BY Threads DEF QueueInv, QueueType
<1>2. /\ pc[Run(w)] = "acquire" /\ pc' = [pc EXCEPT ![Run(w)] = "wait_q"]
      /\ out' = [out EXCEPT ![w] = @ + 1] /\ commits' = [commits EXCEPT ![w] = @ + 1]
  BY DEF Commit, Jump
<1>3. QueueType' /\ Only(w)
  BY <1>1, <1>2 DEF QueueType, WorkerLabel, Only
<1>4. /\ pc'[Run(w)] = "wait_q"
      /\ pc'[ByUser(w)] = pc[ByUser(w)] /\ pc'[ByScript(w)] = pc[ByScript(w)]
      /\ out'[w] = out[w] + 1 /\ commits'[w] = commits[w] + 1
  BY <1>1, <1>2 DEF QueueType
<1>5. QueueOf(w)'
  BY <1>1, <1>2, <1>4, ScriptAssumption DEF QueueOf, Flushes
<1> QED
  BY <1>3, <1>5, QueueStepKeeps

LEMMA FlushKeeps ==
  ASSUME QueueInv, NEW t \in Thread, Flush(t)
  PROVE  QueueInv'
<1> DEFINE w == t[2]
<1>1. /\ w \in Worker /\ out[w] \in Nat /\ commits[w] \in Nat /\ QueueOf(w) /\ QueueType
      /\ {Run(w), ByUser(w), ByScript(w)} \subseteq Thread /\ t \in {Run(w), ByUser(w), ByScript(w)}
      /\ Run(w) # ByUser(w) /\ Run(w) # ByScript(w) /\ ByUser(w) # ByScript(w)
  BY Threads DEF QueueInv, QueueType
<1>2. /\ pc[t] = "flushing" /\ pc' = [pc EXCEPT ![t] = "drain"]
      /\ out' = [out EXCEPT ![w] = @ + 1] /\ commits' = commits
  BY DEF Flush, Jump
<1>3. QueueType' /\ Only(w)
  BY <1>1, <1>2 DEF QueueType, WorkerLabel, Only
<1>4. /\ pc'[t] = "drain" /\ \A u \in Thread : u # t => pc'[u] = pc[u]
      /\ out'[w] = out[w] + 1 /\ commits'[w] = commits[w]
  BY <1>1, <1>2 DEF QueueType
<1>5. QueueOf(w)'
  BY <1>1, <1>2, <1>4, ScriptAssumption DEF QueueOf, Flushes
<1> QED
  BY <1>1, <1>3, <1>5, QueueStepKeeps

LEMMA AnswerKeeps ==
  ASSUME QueueInv, NEW w \in Worker, Answer(w)
  PROVE  QueueInv'
<1>1. out[w] \in Nat /\ commits[w] \in Nat /\ QueueOf(w) /\ QueueType
  BY DEF QueueInv, QueueType
<1>2. pc' = pc /\ out' = [out EXCEPT ![w] = @ - 1] /\ out'[w] = out[w] - 1
  BY <1>1 DEF Answer, AnswerCommit, AnswerFlush, Answered, QueueType
<1>3. CASE AnswerCommit(w)
  <2>1. /\ commits' = [commits EXCEPT ![w] = @ - 1] /\ commits[w] > 0
        /\ commits'[w] = commits[w] - 1
    BY <1>1, <1>3 DEF AnswerCommit, QueueType
  <2>2. out[w] - 1 \in Nat /\ commits[w] - 1 \in Nat
    BY <1>1, <2>1 DEF QueueOf
  <2>3. QueueType' /\ Only(w)
    BY <1>1, <1>2, <2>1, <2>2 DEF QueueType, Only
  <2>4. QueueOf(w)'
    BY <1>1, <1>2, <2>1, ScriptAssumption DEF QueueOf, Flushes
  <2> QED
    BY <2>3, <2>4, QueueStepKeeps
<1>4. CASE AnswerFlush(w)
  <2>1. commits' = commits /\ out[w] > commits[w]
    BY <1>4 DEF AnswerFlush
  <2>2. out[w] - 1 \in Nat
    BY <1>1, <2>1
  <2>3. QueueType' /\ Only(w)
    BY <1>1, <1>2, <2>1, <2>2 DEF QueueType, Only
  <2>4. QueueOf(w)'
    BY <1>1, <1>2, <2>1, ScriptAssumption DEF QueueOf, Flushes
  <2> QED
    BY <2>3, <2>4, QueueStepKeeps
<1> QED
  BY <1>3, <1>4 DEF Answer

LEMMA CloseKeeps ==
  ASSUME QueueInv, NEW t \in Thread, Close(t)
  PROVE  QueueInv'
<1> DEFINE w == t[2]
<1>1. w \in Worker /\ QueueType
  BY Threads DEF QueueInv
<1>2. /\ pc' = [pc EXCEPT ![t] = IF handle[w] THEN "closing" ELSE "raised"]
      /\ out' = [out EXCEPT ![w] = 0] /\ commits' = [commits EXCEPT ![w] = 0]
  BY DEF Close, Jump
<1>3. QueueType' /\ Only(w)
  BY <1>1, <1>2 DEF QueueType, WorkerLabel, Only
<1>4. out'[w] = 0 /\ commits'[w] = 0
  BY <1>1, <1>2 DEF QueueType
<1>5. QueueOf(w)'
  BY <1>4, ScriptAssumption DEF QueueOf, Flushes
<1> QED
  BY <1>1, <1>3, <1>5, QueueStepKeeps

(* Batches.stop starts its stop threads, which do not run yet.              *)
LEMMA TrackerClosedKeeps ==
  ASSUME QueueInv, NEW s \in Stopper, TrackerClosed(s)
  PROVE  QueueInv'
<1>1. /\ out' = out /\ commits' = commits
      /\ pc' = [t \in Thread |-> IF t[1] = s /\ pc[t] = "unborn" THEN "stop" ELSE pc[t]]
  BY DEF TrackerClosed, clientVars
<1>2. QueueType'
  BY <1>1 DEF QueueInv, QueueType, WorkerLabel
<1>3. ASSUME NEW w \in Worker PROVE QueueOf(w)'
  <2>1. /\ pc'[Run(w)] = pc[Run(w)]
        /\ pc'[ByUser(w)] = "drain" <=> pc[ByUser(w)] = "drain"
        /\ pc'[ByScript(w)] = "drain" <=> pc[ByScript(w)] = "drain"
    BY <1>1, Threads DEF Run, Stopper
  <2> QED
    BY <1>1, <2>1 DEF QueueInv, QueueOf, Flushes
<1> QED
  BY <1>2, <1>3 DEF QueueInv

LEMMA BatchStepKeeps ==
  ASSUME QueueInv, NEW w \in Worker, BatchStep(w) \/ StartWorker(w)
  PROVE  QueueInv'
<1>1. Run(w) \in Thread /\ Run(w)[2] = w
  BY Threads
<1>2. CASE Commit(w)
  BY <1>2, CommitKeeps
<1>3. CASE StartWorker(w)
  <2>1. pc[Run(w)] = "unborn" /\ Jump(Run(w), "loop") /\ UNCHANGED <<out, commits>>
    BY <1>3 DEF StartWorker, clientVars
  <2> QED
    BY <1>1, <2>1, JumpKeeps DEF WorkerLabel
<1>4. CASE Loop(w)
  <2>1. /\ pc[Run(w)] = "loop" /\ UNCHANGED <<out, commits>>
        /\ Jump(Run(w), "create") \/ Jump(Run(w), "stop")
    BY <1>4 DEF Loop, clientVars
  <2> QED
    BY <1>1, <2>1, JumpKeeps DEF WorkerLabel
<1>5. CASE CreateBatch(w)
  <2>1. /\ pc[Run(w)] = "create" /\ UNCHANGED <<out, commits>>
        /\ Jump(Run(w), "commit") \/ Jump(Run(w), "raised")
    BY <1>5 DEF CreateBatch, clientVars
  <2> QED
    BY <1>1, <2>1, JumpKeeps DEF WorkerLabel
<1>6. CASE CommitTest(w)
  <2>1. /\ pc[Run(w)] = "commit" /\ UNCHANGED <<out, commits>>
        /\ Jump(Run(w), "acquire") \/ Jump(Run(w), "wait_q")
    BY <1>6 DEF CommitTest, clientVars
  <2> QED
    BY <1>1, <2>1, JumpKeeps DEF WorkerLabel
<1>7. CASE WaitQ(w)
  <2>1. /\ pc[Run(w)] = "wait_q" /\ out[w] <= BatchQueue - 1
        /\ Jump(Run(w), "loop") /\ UNCHANGED <<out, commits>>
    BY <1>7 DEF WaitQ, clientVars
  <2> QED
    BY <1>1, <2>1, JumpKeeps DEF WorkerLabel
<1> QED
  BY <1>2, <1>3, <1>4, <1>5, <1>6, <1>7 DEF BatchStep

LEMMA WorkerStopKeeps ==
  ASSUME QueueInv, NEW t \in Thread, WorkerStopStep(t)
  PROVE  QueueInv'
<1> DEFINE Quiet == UNCHANGED <<out, commits>> /\ pc[t] # "wait_q" /\ pc[t] # "drain"
<1>1. ASSUME Quiet, NEW label \in WorkerLabel, Jump(t, label) PROVE QueueInv'
  BY <1>1, JumpKeeps
<1>2. CASE WorkerStopTest(t)
  <2>1. Quiet /\ (Jump(t, "mark") \/ Jump(t, "end") \/ Jump(t, "await"))
    BY <1>2 DEF WorkerStopTest, clientVars
  <2> QED
    BY <2>1, <1>1 DEF WorkerLabel
<1>3. CASE WorkerStopMark(t)
  <2>1. Quiet /\ (Jump(t, "check") \/ Jump(t, "join"))
    BY <1>3 DEF WorkerStopMark, clientVars
  <2> QED
    BY <2>1, <1>1 DEF WorkerLabel
<1>4. CASE WorkerStopAwait(t) \/ Death(t)
  <2>1. Quiet /\ Jump(t, "end")
    BY <1>4 DEF WorkerStopAwait, Death, clientVars
  <2> QED
    BY <2>1, <1>1 DEF WorkerLabel
<1>5. CASE Check(t)
  <2>1. Quiet /\ (Jump(t, "flush") \/ Jump(t, "death"))
    BY <1>5 DEF Check, clientVars
  <2> QED
    BY <2>1, <1>1 DEF WorkerLabel
<1>6. CASE FlushTest(t)
  <2>1. Quiet /\ (Jump(t, "flushing") \/ Jump(t, "drain"))
    BY <1>6 DEF FlushTest, clientVars
  <2> QED
    BY <2>1, <1>1 DEF WorkerLabel
<1>7. CASE Drain(t)
  <2>1. /\ pc[t] = "drain" /\ out[t[2]] = 0 /\ UNCHANGED <<out, commits>> /\ Jump(t, "close")
    BY <1>7 DEF Drain, clientVars
  <2> QED
    BY <2>1, JumpKeeps DEF WorkerLabel
<1>8. CASE Closed(t)
  <2>1. Quiet /\ Jump(t, "death")
    BY <1>8 DEF Closed
  <2> QED
    BY <2>1, <1>1 DEF WorkerLabel
<1>9. CASE WaitQSleep(t)
  BY <1>9 DEF WaitQSleep, QueueInv, QueueType, QueueOf, Flushes
<1> QED
  BY <1>2, <1>3, <1>4, <1>5, <1>6, <1>7, <1>8, <1>9, FlushKeeps, CloseKeeps DEF WorkerStopStep

LEMMA QueueInvNext == QueueInv /\ [Next]_vars => QueueInv'
<1> SUFFICES ASSUME QueueInv, [Next]_vars PROVE QueueInv'
  OBVIOUS
<1>1. ASSUME UNCHANGED <<pc, out, commits>> PROVE QueueInv'
  BY <1>1 DEF QueueInv, QueueType, QueueOf, Flushes
<1>2. Start \/ Interrupt \/ WaitReturns \/ Report \/ RetrieveGetlog => UNCHANGED <<pc, out, commits>>
  BY DEF Start, Interrupt, WaitReturns, Report, RetrieveGetlog, clientVars
<1>3. CASE ScriptStep
  <2>1. CountFailures \/ TrackerStart \/ Hired \/ Watch => UNCHANGED <<pc, out, commits>>
    BY DEF CountFailures, TrackerStart, Hired, Watch, clientVars
  <2>2. ASSUME NEW w \in Worker, ConnectClient(w) PROVE UNCHANGED <<pc, out, commits>>
    BY <2>2 DEF ConnectClient
  <2> QED
    BY <1>1, <1>3, <2>1, <2>2, BatchStepKeeps DEF ScriptStep
<1>4. ASSUME NEW s \in Stopper, StopStep(s) PROVE QueueInv'
  <2>1. StopStep(s) /\ ~TrackerClosed(s) => UNCHANGED <<pc, out, commits>>
    BY DEF StopStep, StopTest, StopMark, StopAwait, TrackerJoin, TrackerClose, TrackerRaises, StopComplete,
           clientVars
  <2> QED
    BY <1>1, <1>4, <2>1, TrackerClosedKeeps
<1>5. UNCHANGED vars => UNCHANGED <<pc, out, commits>>
  BY DEF vars, clientVars
<1> QED
  BY <1>1, <1>2, <1>3, <1>4, <1>5, BatchStepKeeps, AnswerKeeps, WorkerStopKeeps DEF Next

LEMMA QueueInvariant == Spec => []QueueInv
  BY QueueInvInit, QueueInvNext, PTL DEF Spec

-----------------------------------------------------------------------------
(* Batches.py:281: no connection has more than batch_queue commits          *)
(* unanswered, however its worker is stopped.                               *)
THEOREM BatchesAreBounded == Spec => []BatchesBounded
<1>1. QueueInv => BatchesBounded
  BY DEF QueueInv, QueueOf, BatchesBounded
<1> QED
  BY <1>1, QueueInvariant, PTL

LEMMA RoomForAll == QueueInv => QueueNeverFull
<1> SUFFICES ASSUME QueueInv, NEW t \in Thread, pc[t] \in {"acquire", "flushing"},
                    ~(BatchQueue = 1 /\ StoppedTwice(t[2]))
             PROVE  out[t[2]] < QueueDepth
  BY DEF QueueNeverFull
<1> DEFINE w == t[2]
<1>1. /\ w \in Worker /\ out[w] \in Nat /\ commits[w] \in Nat /\ QueueOf(w)
      /\ t \in {Run(w), ByUser(w), ByScript(w)}
  BY Threads DEF QueueInv, QueueType
<1>2. Flushes(Run(w)) \in 0 .. 1 /\ Flushes(ByUser(w)) \in 0 .. 1 /\ Flushes(ByScript(w)) \in 0 .. 1
  BY DEF Flushes
<1>3. /\ Flushes(t) = 0
      /\ pc[Run(w)] = "wait_q" => Flushes(Run(w)) = 0
  BY DEF Flushes
<1>4. out[w] <= BatchQueue + 1
  \* the thread itself has no flush outstanding; the worker's other threads may have one
  \* each, and a worker in wait_q(), with all its commits outstanding, has none
  <2>1. CASE t = Run(w)
    BY <1>1, <1>2, <1>3, <2>1, ScriptAssumption DEF QueueOf
  <2>2. CASE t = ByUser(w)
    BY <1>1, <1>2, <1>3, <2>2, ScriptAssumption DEF QueueOf
  <2>3. CASE t = ByScript(w)
    BY <1>1, <1>2, <1>3, <2>3, ScriptAssumption DEF QueueOf
  <2> QED BY <1>1, <2>1, <2>2, <2>3
<1>5. ASSUME ~StoppedTwice(w) PROVE out[w] <= BatchQueue
  <2>1. Flushes(ByUser(w)) = 0 \/ Flushes(ByScript(w)) = 0
    BY <1>5 DEF StoppedTwice, Stopper, ByUser, ByScript, Flushes
  <2>2. \A s \in {ByUser(w), ByScript(w)} : t = s => pc[s] # "unborn"
    OBVIOUS
  <2>3. CASE t = Run(w)
    BY <1>1, <1>2, <1>3, <2>1, <2>3, ScriptAssumption DEF QueueOf
  <2>4. CASE t = ByUser(w)
    <3>1. Flushes(ByScript(w)) = 0
      BY <1>5, <2>2, <2>4 DEF StoppedTwice, Stopper, ByUser, ByScript, Flushes
    <3> QED BY <1>1, <1>2, <1>3, <2>4, <3>1, ScriptAssumption DEF QueueOf
  <2>5. CASE t = ByScript(w)
    <3>1. Flushes(ByUser(w)) = 0
      BY <1>5, <2>2, <2>5 DEF StoppedTwice, Stopper, ByUser, ByScript, Flushes
    <3> QED BY <1>1, <1>2, <1>3, <2>5, <3>1, ScriptAssumption DEF QueueOf
  <2> QED BY <1>1, <2>3, <2>4, <2>5
<1> QED
  BY <1>1, <1>4, <1>5, ScriptAssumption DEF QueueDepth

(* Batches.py:96: 2 * batch_queue slots are enough for the commits and for  *)
(* the flushes of the threads that may stop a worker at once; for those of  *)
(* two calls of Batches.stop and the worker's own, only from 2 on.          *)
THEOREM QueueIsNeverFull == Spec => []QueueNeverFull
  BY QueueInvariant, RoomForAll, PTL

-----------------------------------------------------------------------------
(* What the stop of the script leaves behind.                              *)
(*                                                                         *)
(* Ctrl-C comes once the workers have been started (~EarlyStop); whatever  *)
(* the races between the threads that stop, however long a join takes and  *)
(* whatever raises, the invariant is this.                                 *)

ShutType ==
  /\ pc \in [Thread -> WorkerLabel]
  /\ DOMAIN mpc = Stopper
  /\ up \in [Worker -> BOOLEAN] /\ done \in [Worker -> BOOLEAN]

(* While the script connects and hires, nobody stops it; nothing of a       *)
(* worker runs before all of them are connected.                            *)
Early == mpc["script"] \in {"unborn", "connect", "track", "hire"}

PhaseInv ==
  /\ Early => ~mDone /\ mpc["user"] \in {"start", "wait"}
  /\ mpc["user"] = "start" <=> mpc["script"] = "unborn"
  /\ mpc["script"] \in {"unborn", "connect"} =>
       /\ \A t \in Thread : pc[t] = "unborn"
       /\ \A w \in Worker : ~done[w]

(* The tracker's client is closed for good once its reporting threads have  *)
(* ended, which stop() finds unless a join gave up.                         *)
Joined == \E s \in Stopper : mpc[s] \in {"tracker_close", "tracker_closing", "fire"}
ClosedAgain == \E s \in Stopper : mpc[s] \in {"tracker_closing", "fire"}
TrackerInv ==
  "unfinished" \notin mishaps =>
    /\ mDone \/ Joined => reporter = "off"
    /\ mDone \/ ClosedAgain => ~tUp

(* A thread that stops a worker gets to its end by closing the client, by   *)
(* finding it closed, or by waiting for one that did.                       *)
ShutInv ==
  /\ \A t \in Thread :
       pc[t] \in {"closing", "death"} \/ (t[1] # "run" /\ pc[t] \in {"end", "raised"}) => ~up[t[2]]
  /\ \A w \in Worker : done[w] \/ mDone => ~up[w]

(* What went wrong is not forgotten.                                        *)
Recorded == "unfinished" \in mishaps => "unfinished" \in mishaps'

CloseInv == ShutType /\ PhaseInv /\ TrackerInv /\ ShutInv

LEMMA CloseInvInit == Init => CloseInv
<1> SUFFICES ASSUME Init PROVE CloseInv
  OBVIOUS
<1>1. /\ \A t \in Thread : pc[t] = "unborn"
      /\ mpc["user"] = "start" /\ mpc["script"] = "unborn"
      /\ ~mDone /\ \A w \in Worker : ~done[w] /\ ~up[w]
  BY DEF Init, Stopper
<1>2. ShutType
  BY DEF Init, ShutType, WorkerLabel
<1>3. PhaseInv /\ ShutInv
  BY <1>1 DEF PhaseInv, Early, ShutInv
<1>4. TrackerInv
  BY DEF Init, TrackerInv, Joined, ClosedAgain, Stopper
<1> QED BY <1>2, <1>3, <1>4 DEF CloseInv

(* A thread of a worker goes on to label, while all else that matters here  *)
(* stays.                                                                   *)
LEMMA JumpShuts ==
  ASSUME CloseInv, NEW t \in Thread, NEW label \in WorkerLabel, Jump(t, label),
         UNCHANGED <<mDone, mpc, up, done, tUp, reporter>>, Recorded,
         mpc["script"] \notin {"unborn", "connect"},
         label \in {"closing", "death"} \/ (t[1] # "run" /\ label \in {"end", "raised"}) => ~up[t[2]]
  PROVE  CloseInv'
<1>1. pc' = [pc EXCEPT ![t] = label] /\ pc \in [Thread -> WorkerLabel]
  BY DEF Jump, CloseInv, ShutType
<1>2. pc'[t] = label /\ \A u \in Thread : u # t => pc'[u] = pc[u]
  BY <1>1
<1>3. ShutType'
  BY <1>1 DEF CloseInv, ShutType
<1>4. PhaseInv' /\ TrackerInv'
  BY DEF CloseInv, PhaseInv, TrackerInv, Joined, ClosedAgain, Early, Recorded
<1>5. ShutInv'
  BY <1>2 DEF CloseInv, ShutInv
<1> QED BY <1>3, <1>4, <1>5 DEF CloseInv

(* No thread of a worker moves before the workers are connected.            *)
LEMMA BornLate ==
  ASSUME CloseInv, NEW t \in Thread, pc[t] # "unborn"
  PROVE  mpc["script"] \notin {"unborn", "connect"}
BY DEF CloseInv, PhaseInv

LEMMA BatchStepShuts ==
  ASSUME CloseInv, NEW w \in Worker, BatchStep(w)
  PROVE  CloseInv'
<1>1. Run(w) \in Thread /\ Run(w)[1] = "run"
  BY Threads DEF Run
<1>2. /\ pc[Run(w)] # "unborn"
      /\ UNCHANGED <<mDone, mpc, up, done, tUp, reporter>> /\ Recorded
      /\ \E label \in {"create", "stop", "commit", "raised", "acquire", "wait_q", "loop"} : Jump(Run(w), label)
  BY DEF BatchStep, Loop, CreateBatch, CommitTest, Commit, WaitQ, scriptVars, eventVars, clientVars,
         trackVars, Recorded
<1>3. PICK label \in {"create", "stop", "commit", "raised", "acquire", "wait_q", "loop"} : Jump(Run(w), label)
  BY <1>2
<1>4. label \in WorkerLabel /\ ~(label \in {"closing", "death"})
  BY <1>3 DEF WorkerLabel
<1> QED BY <1>1, <1>2, <1>3, <1>4, BornLate, JumpShuts

LEMMA WorkerStopShuts ==
  ASSUME CloseInv, NEW t \in Thread, WorkerStopStep(t)
  PROVE  CloseInv'
<1> DEFINE Others == UNCHANGED <<mDone, mpc, up, done, tUp, reporter>> /\ Recorded
           w == t[2]
<1>0. /\ w \in Worker /\ t = <<t[1], w>> /\ t[1] \in {"run", "user", "script"}
      /\ ShutType /\ ShutInv
  BY DEF CloseInv, Thread, Stopper
<1>1. ASSUME pc[t] # "unborn", Others, NEW label \in WorkerLabel, Jump(t, label),
             label \in {"closing", "death"} \/ (t[1] # "run" /\ label \in {"end", "raised"}) => ~up[t[2]]
      PROVE  CloseInv'
  BY <1>1, BornLate, JumpShuts
<1>2. CASE WorkerStopTest(t)
  <2>1. pc[t] # "unborn" /\ Others
    BY <1>2 DEF WorkerStopTest, Recorded, Note, scriptVars, clientVars, trackVars
  <2>2. Jump(t, "mark") \/ (Jump(t, "end") /\ t[1] = "run") \/ Jump(t, "await")
    BY <1>2 DEF WorkerStopTest, Run
  <2> QED BY <1>1, <2>1, <2>2 DEF WorkerLabel
<1>3. CASE WorkerStopMark(t)
  <2>1. pc[t] # "unborn" /\ Others /\ (Jump(t, "check") \/ Jump(t, "join"))
    BY <1>3 DEF WorkerStopMark, Recorded, scriptVars, clientVars, trackVars
  <2> QED BY <1>1, <2>1 DEF WorkerLabel
<1>4. CASE WorkerStopAwait(t)
  <2>1. pc[t] # "unborn" /\ Others /\ Jump(t, "end") /\ done[w]
    BY <1>4 DEF WorkerStopAwait, Recorded, scriptVars, eventVars, clientVars, trackVars
  <2>2. ~up[w]
    BY <1>0, <2>1 DEF ShutInv
  <2> QED BY <1>1, <2>1, <2>2 DEF WorkerLabel
<1>5. CASE Check(t)
  <2>1. pc[t] # "unborn" /\ Others /\ (Jump(t, "flush") \/ (Jump(t, "death") /\ ~up[w]))
    BY <1>5 DEF Check, Recorded, Note, scriptVars, eventVars, clientVars, trackVars
  <2> QED BY <1>1, <2>1 DEF WorkerLabel
<1>6. CASE FlushTest(t) \/ Flush(t) \/ Drain(t)
  <2>1. /\ pc[t] # "unborn" /\ Others
        /\ Jump(t, "flushing") \/ Jump(t, "drain") \/ Jump(t, "close")
    BY <1>6 DEF FlushTest, Flush, Drain, Recorded, scriptVars, eventVars, clientVars, trackVars
  <2> QED BY <1>1, <2>1 DEF WorkerLabel
<1>7. CASE Close(t)
  <2>1. /\ pc[t] = "close"
        /\ up' = [up EXCEPT ![w] = FALSE]
        /\ \E label \in {"closing", "raised"} : pc' = [pc EXCEPT ![t] = label]
        /\ UNCHANGED <<mDone, mpc, done, tUp, reporter, mishaps>>
    BY <1>7 DEF Close, Jump, scriptVars, eventVars, trackVars
  <2>2. /\ pc'[t] \in {"closing", "raised"} /\ \A u \in Thread : u # t => pc'[u] = pc[u]
        /\ ~up'[w] /\ \A v \in Worker : up'[v] => up[v]
    BY <1>0, <2>1 DEF ShutType
  <2>3. ShutType'
    BY <1>0, <2>1 DEF ShutType, WorkerLabel
  <2>4. PhaseInv' /\ TrackerInv'
    BY <2>1, <2>2, BornLate DEF CloseInv, PhaseInv, TrackerInv, Joined, ClosedAgain, Early
  <2>5. ShutInv'
    <3>1. \A u \in Thread : u[2] \in Worker
      BY DEF Thread
    <3> QED BY <1>0, <2>1, <2>2, <3>1 DEF ShutInv
  <2> QED BY <2>3, <2>4, <2>5 DEF CloseInv
<1>8. CASE Closed(t)
  <2>1. pc[t] = "closing" /\ Others /\ Jump(t, "death")
    BY <1>8 DEF Closed, Recorded, scriptVars, eventVars, trackVars
  <2>2. ~up[w]
    BY <1>0, <2>1 DEF ShutInv
  <2> QED BY <1>1, <2>1, <2>2 DEF WorkerLabel
<1>9. CASE Death(t)
  <2>1. /\ pc[t] = "death" /\ done' = [done EXCEPT ![w] = TRUE] /\ pc' = [pc EXCEPT ![t] = "end"]
        /\ UNCHANGED <<mDone, mpc, up, tUp, reporter, mishaps>>
    BY <1>9 DEF Death, Jump, clientVars, trackVars
  <2>2. ~up[w]
    BY <1>0, <2>1 DEF ShutInv
  <2>3. /\ pc'[t] = "end" /\ \A u \in Thread : u # t => pc'[u] = pc[u]
        /\ \A v \in Worker : v # w => done'[v] = done[v]
    BY <1>0, <2>1 DEF ShutType
  <2>4. ShutType'
    BY <1>0, <2>1 DEF ShutType, WorkerLabel
  <2>5. PhaseInv' /\ TrackerInv'
    BY <2>1, <2>3, BornLate DEF CloseInv, PhaseInv, TrackerInv, Joined, ClosedAgain, Early
  <2>6. ShutInv'
    BY <1>0, <2>1, <2>2, <2>3 DEF ShutInv
  <2> QED BY <2>4, <2>5, <2>6 DEF CloseInv
<1>10. CASE WaitQSleep(t)
  <2>1. pc' = pc /\ Others
    BY <1>10 DEF WaitQSleep, Recorded, scriptVars, eventVars, trackVars
  <2> QED BY <2>1 DEF CloseInv, ShutType, PhaseInv, TrackerInv, Joined, ClosedAgain, Recorded, ShutInv, Early
<1> QED
  BY <1>2, <1>3, <1>4, <1>5, <1>6, <1>7, <1>8, <1>9, <1>10 DEF WorkerStopStep

(* The script's activity: only it makes connections, and only before        *)
(* anybody stops it.                                                        *)
LEMMA ScriptStepShuts ==
  ASSUME CloseInv, ScriptStep
  PROVE  CloseInv'
<1>0. ShutType /\ PhaseInv /\ TrackerInv /\ ShutInv
  BY DEF CloseInv
<1>1. ASSUME NEW w \in Worker, ConnectClient(w) PROVE CloseInv'
  <2>1. /\ mpc["script"] = "connect"
        /\ \E ok \in BOOLEAN : up' = [up EXCEPT ![w] = ok]
        /\ UNCHANGED <<mDone, mpc, pc, done, tUp, reporter, mishaps>>
    BY <1>1 DEF ConnectClient, eventVars, trackVars
  <2>2. ShutType'
    BY <1>0, <2>1 DEF ShutType
  <2>3. PhaseInv' /\ TrackerInv'
    BY <1>0, <2>1 DEF PhaseInv, TrackerInv, Joined, ClosedAgain, Early
  <2>4. ShutInv'
    BY <1>0, <2>1 DEF PhaseInv, Early, ShutInv
  <2> QED BY <2>2, <2>3, <2>4 DEF CloseInv
<1>2. CASE CountFailures \/ Hired \/ Watch
  <2>1. /\ mpc["script"] \in {"connect", "hire", "watch"}
        /\ \E label \in {"track", "watch", "stop"} :
             /\ mpc' = [mpc EXCEPT !["script"] = label]
             /\ mpc["script"] = "connect" \/ label # "track"
        /\ UNCHANGED <<mDone, pc, up, done, tUp, reporter, mishaps>>
    BY <1>2 DEF CountFailures, Hired, Watch, Goto, eventVars, clientVars, trackVars
  <2>2. /\ mpc'["script"] \in {"track", "watch", "stop"} /\ mpc'["user"] = mpc["user"]
        /\ DOMAIN mpc' = Stopper
        /\ mpc["script"] = "connect" \/ mpc'["script"] # "track"
    BY <1>0, <2>1 DEF ShutType, Stopper
  <2>4. mpc["user"] # "start"
    BY <1>0, <2>1 DEF PhaseInv
  <2>5. PhaseInv'
    BY <1>0, <2>1, <2>2, <2>4 DEF PhaseInv, Early
  <2>6. TrackerInv'
    BY <1>0, <2>1, <2>2 DEF TrackerInv, Joined, ClosedAgain, Stopper
  <2>7. ShutType' /\ ShutInv'
    BY <1>0, <2>1, <2>2 DEF ShutType, ShutInv
  <2> QED BY <2>5, <2>6, <2>7 DEF CloseInv
<1>3. CASE TrackerStart
  <2>1. /\ mpc["script"] = "track" /\ mpc' = [mpc EXCEPT !["script"] = "hire"]
        /\ UNCHANGED <<mDone, pc, up, done, mishaps>>
    BY <1>3 DEF TrackerStart, Goto, eventVars, clientVars
  <2>2. /\ mpc'["script"] = "hire" /\ mpc'["user"] = mpc["user"]
        /\ DOMAIN mpc' = Stopper
    BY <1>0, <2>1 DEF ShutType, Stopper
  <2>3. PhaseInv' /\ TrackerInv'
    BY <1>0, <2>1, <2>2 DEF PhaseInv, TrackerInv, Joined, ClosedAgain, Early, Stopper
  <2>4. ShutType' /\ ShutInv'
    BY <1>0, <2>1, <2>2 DEF ShutType, ShutInv
  <2> QED BY <2>3, <2>4 DEF CloseInv
<1>4. ASSUME NEW w \in Worker, StartWorker(w) PROVE CloseInv'
  <2>1. /\ mpc["script"] = "hire" /\ pc' = [pc EXCEPT ![Run(w)] = "loop"]
        /\ done' = [done EXCEPT ![w] = FALSE]
        /\ UNCHANGED <<mDone, mpc, up, tUp, reporter, mishaps>>
    BY <1>4 DEF StartWorker, Jump, scriptVars, clientVars, trackVars
  <2>2. Run(w) \in Thread
    BY Threads
  <2>3. /\ pc'[Run(w)] = "loop" /\ \A u \in Thread : u # Run(w) => pc'[u] = pc[u]
        /\ \A v \in Worker : done'[v] => done[v]
    BY <1>0, <2>1, <2>2 DEF ShutType
  <2>4. ShutType'
    BY <1>0, <2>1 DEF ShutType, WorkerLabel
  <2>5. PhaseInv' /\ TrackerInv'
    BY <1>0, <2>1 DEF PhaseInv, TrackerInv, Joined, ClosedAgain, Early
  <2>6. ShutInv'
    BY <1>0, <2>1, <2>3 DEF ShutInv
  <2> QED BY <2>4, <2>5, <2>6 DEF CloseInv
<1> QED BY <1>1, <1>2, <1>3, <1>4 DEF ScriptStep

(* Batches.stop() itself.                                                   *)
LEMMA StopStepShuts ==
  ASSUME CloseInv, NEW s \in Stopper, StopStep(s)
  PROVE  CloseInv'
<1>0. ShutType /\ PhaseInv /\ TrackerInv /\ ShutInv
  BY DEF CloseInv
<1>1. /\ mpc[s] \in {"stop", "mark", "await", "tracker", "tracker_close", "tracker_closing", "fire"}
      /\ \E label \in {"mark", "await", "tracker", "tracker_close", "tracker_closing", "fire", "raised", "end"} :
           mpc' = [mpc EXCEPT ![s] = label]
      /\ UNCHANGED <<up, done, reporter>> /\ Recorded
  BY DEF StopStep, StopTest, StopMark, StopAwait, TrackerJoin, TrackerClose, TrackerClosed, TrackerRaises,
         StopComplete, Goto, Note, Recorded, eventVars, clientVars, trackVars
<1>2. /\ DOMAIN mpc' = Stopper
      /\ mpc'[s] \in {"mark", "await", "tracker", "tracker_close", "tracker_closing", "fire", "raised", "end"}
      /\ \A r \in Stopper : r # s => mpc'[r] = mpc[r]
  BY <1>0, <1>1 DEF ShutType
<1>3. ~Early /\ ~Early' /\ mpc["user"] # "start" /\ mpc'["user"] # "start"
  BY <1>0, <1>1, <1>2 DEF PhaseInv, Early, Stopper
<1>4. PhaseInv'
  BY <1>3 DEF PhaseInv, Early
<1>5. CASE StopTest(s) \/ StopMark(s) \/ StopAwait(s) \/ TrackerRaises(s)
  <2>1. /\ UNCHANGED <<mDone, pc, tUp>>
        /\ mpc'[s] \notin {"tracker_close", "tracker_closing", "fire"}
    BY <1>0, <1>5 DEF StopTest, StopMark, StopAwait, TrackerRaises, Goto, ShutType, trackVars
  <2>2. TrackerInv'
    BY <1>0, <1>1, <1>2, <2>1 DEF TrackerInv, Joined, ClosedAgain, Recorded
  <2>3. ShutType' /\ ShutInv'
    BY <1>0, <1>1, <1>2, <2>1 DEF ShutType, ShutInv
  <2> QED BY <1>4, <2>2, <2>3 DEF CloseInv
<1>6. CASE TrackerJoin(s)
  <2>1. /\ mpc'[s] = "tracker_close"
        /\ "unfinished" \notin mishaps' => reporter = "off"
        /\ UNCHANGED <<mDone, pc, tUp>>
    BY <1>0, <1>6 DEF TrackerJoin, Goto, Note, ShutType, trackVars
  <2>2. TrackerInv'
    BY <1>0, <1>1, <1>2, <2>1 DEF TrackerInv, Joined, ClosedAgain, Recorded
  <2>3. ShutType' /\ ShutInv'
    BY <1>0, <1>1, <1>2, <2>1 DEF ShutType, ShutInv
  <2> QED BY <1>4, <2>2, <2>3 DEF CloseInv
<1>7. CASE TrackerClose(s)
  <2>1. mpc[s] = "tracker_close" /\ ~tUp' /\ UNCHANGED <<mDone, pc, mishaps>>
    BY <1>7 DEF TrackerClose
  <2>2. Joined
    BY <2>1 DEF Joined
  <2>3. TrackerInv'
    BY <1>0, <1>1, <1>2, <2>1, <2>2 DEF TrackerInv
  <2>4. ShutType' /\ ShutInv'
    BY <1>0, <1>1, <1>2, <2>1 DEF ShutType, ShutInv
  <2> QED BY <1>4, <2>3, <2>4 DEF CloseInv
<1>8. CASE TrackerClosed(s)
  <2>1. /\ mpc[s] = "tracker_closing" /\ ~tUp /\ UNCHANGED <<mDone, tUp, mishaps>>
        /\ pc' = [t \in Thread |-> IF t[1] = s /\ pc[t] = "unborn" THEN "stop" ELSE pc[t]]
    BY <1>8 DEF TrackerClosed
  <2>2. Joined
    BY <2>1 DEF Joined
  <2>3. TrackerInv'
    BY <1>0, <1>1, <1>2, <2>1, <2>2 DEF TrackerInv
  <2>4. ShutType'
    BY <1>0, <1>1, <1>2, <2>1 DEF ShutType, WorkerLabel
  <2>5. ShutInv'
    BY <1>0, <1>1, <2>1 DEF ShutInv
  <2> QED BY <1>4, <2>3, <2>4, <2>5 DEF CloseInv
<1>9. CASE StopComplete(s)
  <2>1. /\ mpc[s] = "fire" /\ \A w \in Worker : pc[<<s, w>>] \in {"end", "raised"}
        /\ UNCHANGED <<pc, tUp, mishaps>> /\ mpc'[s] = "end"
    BY <1>0, <1>9 DEF StopComplete, Goto, ShutType, trackVars
  <2>2. Joined /\ ClosedAgain
    BY <2>1 DEF Joined, ClosedAgain
  <2>3. ASSUME NEW w \in Worker PROVE ~up[w]
    <3>1. <<s, w>> \in Thread /\ <<s, w>>[1] # "run" /\ <<s, w>>[2] = w
      BY DEF Thread, Stopper
    <3> QED BY <1>0, <2>1, <3>1 DEF ShutInv
  <2>4. TrackerInv'
    BY <1>0, <1>1, <2>1, <2>2 DEF TrackerInv
  <2>5. ShutType' /\ ShutInv'
    BY <1>0, <1>1, <1>2, <2>1, <2>3 DEF ShutType, ShutInv
  <2> QED BY <1>4, <2>4, <2>5 DEF CloseInv
<1> QED BY <1>5, <1>6, <1>7, <1>8, <1>9 DEF StopStep

(* The user's thread and the tracker's.                                     *)
LEMMA OutsideShuts ==
  ASSUME CloseInv, ~EarlyStop, Start \/ Interrupt \/ WaitReturns \/ Report \/ RetrieveGetlog
  PROVE  CloseInv'
<1>0. ShutType /\ PhaseInv /\ TrackerInv /\ ShutInv
  BY DEF CloseInv
<1>1. UNCHANGED <<pc, up, done, mishaps>>
  BY DEF Start, Interrupt, WaitReturns, Report, RetrieveGetlog, eventVars, clientVars
<1>2. CASE Start
  <2>1. /\ mpc["user"] = "start" /\ ~mDone'
        /\ mpc' = [user |-> "wait", script |-> "connect"]
        /\ UNCHANGED <<tUp, reporter>>
    BY <1>2 DEF Start, trackVars
  <2>2. DOMAIN mpc' = Stopper /\ mpc'["user"] = "wait" /\ mpc'["script"] = "connect"
    BY <2>1 DEF Stopper
  <2>3. PhaseInv' /\ TrackerInv'
    BY <1>0, <1>1, <2>1, <2>2 DEF PhaseInv, TrackerInv, Joined, ClosedAgain, Early, Stopper
  <2>4. ShutType' /\ ShutInv'
    BY <1>0, <1>1, <2>1, <2>2 DEF ShutType, ShutInv
  <2> QED BY <2>3, <2>4 DEF CloseInv
<1>3. CASE Interrupt \/ WaitReturns
  <2>1. /\ mpc["user"] = "wait"
        /\ \E label \in {"stop", "end"} : mpc' = [mpc EXCEPT !["user"] = label]
        /\ UNCHANGED <<mDone, tUp, reporter>>
        /\ mDone \/ mpc["script"] \notin {"connect", "track", "hire"}
    BY <1>3 DEF Interrupt, WaitReturns, Goto, trackVars
  <2>2. /\ DOMAIN mpc' = Stopper /\ mpc'["user"] \in {"stop", "end"}
        /\ mpc'["script"] = mpc["script"]
    BY <1>0, <2>1 DEF ShutType, Stopper
  <2>3. mpc["script"] # "unborn" \/ mDone
    BY <1>0, <1>3, <2>1 DEF PhaseInv
  <2>4. PhaseInv'
    BY <1>0, <1>1, <2>1, <2>2, <2>3 DEF PhaseInv, Early
  <2>5. TrackerInv'
    BY <1>0, <1>1, <2>1, <2>2 DEF TrackerInv, Joined, ClosedAgain, Stopper
  <2>6. ShutType' /\ ShutInv'
    BY <1>0, <1>1, <2>1, <2>2 DEF ShutType, ShutInv
  <2> QED BY <2>4, <2>5, <2>6 DEF CloseInv
<1>4. CASE Report \/ RetrieveGetlog
  <2>1. UNCHANGED <<mDone, mpc>> /\ reporter # "off"
    BY <1>4 DEF Report, RetrieveGetlog, scriptVars
  <2>2. PhaseInv' /\ TrackerInv' /\ ShutType' /\ ShutInv'
    BY <1>0, <1>1, <2>1 DEF PhaseInv, TrackerInv, Joined, ClosedAgain, Early, ShutType, ShutInv
  <2> QED BY <2>2 DEF CloseInv
<1> QED BY <1>2, <1>3, <1>4

LEMMA CloseInvNext ==
  ASSUME ~EarlyStop, CloseInv, [Next]_vars
  PROVE  CloseInv'
<1>1. ASSUME UNCHANGED <<mDone, mpc, pc, up, done, tUp, reporter, mishaps>> PROVE CloseInv'
  BY <1>1 DEF CloseInv, ShutType, PhaseInv, TrackerInv, Joined, ClosedAgain, ShutInv, Early
<1>2. ASSUME NEW w \in Worker, Answer(w) PROVE CloseInv'
  BY <1>1, <1>2 DEF Answer, AnswerCommit, AnswerFlush, Answered, scriptVars, trackVars
<1>3. CASE UNCHANGED vars
  BY <1>1, <1>3 DEF vars, scriptVars, eventVars, clientVars, trackVars
<1> QED
  BY <1>2, <1>3, OutsideShuts, ScriptStepShuts, StopStepShuts, BatchStepShuts, WorkerStopShuts DEF Next

LEMMA CloseInvariant ==
  ASSUME ~EarlyStop
  PROVE  Spec => []CloseInv
<1>1. CloseInv /\ [Next]_vars => CloseInv'
  BY CloseInvNext
<1> QED BY CloseInvInit, <1>1, PTL DEF Spec

(* _stop_complete of the script (Batches.py:230-242): once it is set, every *)
(* worker's client is closed, for any number of workers, of races between   *)
(* stop() calls and of joins that gave up; and so is the tracker's, unless  *)
(* its own threads outlived the joins that wait 5 seconds for them.         *)
THEOREM StopCloses ==
  ASSUME ~EarlyStop
  PROVE  Spec => []StoppedMeansClosed
<1>1. CloseInv => StoppedMeansClosed
  BY DEF CloseInv, TrackerInv, ShutInv, StoppedMeansClosed
<1> QED BY <1>1, CloseInvariant, PTL

LEMMA NothingSent == StoppedMeansClosed /\ [Next]_vars => [mDone => sent' = sent]_vars
<1> SUFFICES ASSUME StoppedMeansClosed, mDone, Next PROVE sent' = sent
  BY DEF vars
<1>1. ASSUME NEW w \in Worker, BatchStep(w) PROVE sent' = sent
  <2>1. ~up[w]
    BY DEF StoppedMeansClosed
  <2> QED BY <1>1, <2>1 DEF BatchStep, Loop, CreateBatch, CommitTest, Commit, WaitQ, clientVars
<1>2. ASSUME NEW t \in Thread, WorkerStopStep(t) PROVE sent' = sent
  BY <1>2 DEF WorkerStopStep, WorkerStopTest, WorkerStopMark, WorkerStopAwait, Check, FlushTest,
              Flush, Drain, Close, Closed, Death, WaitQSleep, clientVars
<1>3. ASSUME NEW s \in Stopper, StopStep(s) PROVE sent' = sent
  BY <1>3 DEF StopStep, StopTest, StopMark, StopAwait, TrackerJoin, TrackerClose, TrackerClosed,
              TrackerRaises, StopComplete, clientVars
<1>4. ASSUME NEW w \in Worker, Answer(w) \/ ConnectClient(w) \/ StartWorker(w) PROVE sent' = sent
  BY <1>4 DEF Answer, AnswerCommit, AnswerFlush, Answered, ConnectClient, StartWorker, clientVars
<1>5. CASE Start \/ Interrupt \/ WaitReturns \/ Report \/ RetrieveGetlog
  BY <1>5 DEF Start, Interrupt, WaitReturns, Report, RetrieveGetlog, clientVars
<1>6. CASE CountFailures \/ TrackerStart \/ Hired \/ Watch
  BY <1>6 DEF CountFailures, TrackerStart, Hired, Watch, clientVars
<1> QED BY <1>1, <1>2, <1>3, <1>4, <1>5, <1>6 DEF Next, ScriptStep

(* ... and from then on no worker sends another batch, also one whose       *)
(* activity outlived the join(30) of its stop (ScriptBases.py:52).          *)
THEOREM NothingIsSentAfterStop ==
  ASSUME ~EarlyStop
  PROVE  Spec => NothingSentAfterStop
  BY StopCloses, NothingSent, PTL DEF Spec, NothingSentAfterStop
==============================================================================
