----------------------------- MODULE BatchScript -----------------------------
(***************************************************************************)
(* The OVS workload script (OVS/Batches.py) on the start, wait and stop of *)
(* Support/ScriptBases.py: the user's thread, the script's activity        *)
(* thread, one worker per connection with an activity thread of its own,   *)
(* the threads that stop the workers, and the performance tracker with its *)
(* reporting thread.  A kv_client is reduced to its queue of outstanding   *)
(* commands and to what close() does with its listener thread.             *)
(***************************************************************************)
EXTENDS PyCondition, FiniteSets

CONSTANTS
  Worker,      \* the connections of the script
  BatchQueue,  \* batch_queue: outstanding batches per connection
  MaxBatch,    \* bound: batches sent, by all of them together
  MaxMishaps,  \* bound: once so many kinds of mishaps are noted, no other follows
  Impatient,   \* the workers whose activity may outlive a join(30)
  EarlyStop    \* may the user stop it while it connects and starts the workers

ASSUME ScriptAssumption == 
  /\ BatchQueue \in Nat \ {0} /\ MaxBatch \in Nat /\ MaxMishaps \in Nat
  /\ IsFiniteSet(Worker) /\ Impatient \subseteq Worker /\ EarlyStop \in BOOLEAN

Stopper == {"user", "script"}                  \* who may call Batches.stop
Thread == ({"run"} \cup Stopper) \X Worker \* a worker's activity, and the threads that
Run(w) == <<"run", w>>                       \* stop it on behalf of either

\* mutant: the queue is as deep as the batches alone require
QueueDepthTight == BatchQueue

QueueDepth == 2 * BatchQueue

VARIABLES
  mKill, mCalled, mDone, \* the script's Events _kill_switch, _stop_called, _stop_complete
  mpc,                   \* what the user's thread and the activity thread execute
  linking,               \* workers whose connect_client has not returned
  kill, called, done,    \* the same Events of each worker
  pc,                    \* what the threads of the workers execute
  up, handle,            \* per worker's client: is_connected; has _listening_thread run
  out, commits, waiters, \* its semaphore, and how many of its slots are END_BATCHes
  sent,                  \* history: batches sent
  tKill, tUp, tHandle,   \* the tracker: its kill switch and its client
  reporter,              \* what the tracker's reporting thread does
  mishaps                \* history: what went wrong, of Mishap

Mishap == {"race",       \* two calls of Batches.stop found _stop_called clear
           "rush",       \* two threads that stop a worker did
           "slow",       \* a join(30) of a worker's activity gave up
           "unfinished", \* a join(5) of the tracker's reporting gave up
           "untracked"}  \* the tracker's client never had a connection to close

scriptVars == <<mKill, mCalled, mDone, mpc, linking>>
eventVars == <<kill, called, done>>
clientVars == <<up, handle, out, commits, waiters, sent>>
trackVars == <<tKill, tUp, tHandle, reporter>>
vars == <<scriptVars, eventVars, pc, clientVars, trackVars, mishaps>>

RunEnded(w) == pc[Run(w)] \in {"unborn", "end", "raised"}
Goto(s, label) == mpc' = [mpc EXCEPT ![s] = label]
Jump(t, label) == pc' = [pc EXCEPT ![t] = label]
Awake(t) == ~Asleep(waiters[t[2]], t)
Spared == Cardinality(mishaps) < MaxMishaps   \* the bound leaves room for a mishap
Note(what, when) == mishaps' = IF when THEN mishaps \cup {what} ELSE mishaps

Init ==
  /\ mKill = FALSE /\ mCalled = FALSE /\ mDone = FALSE
  /\ mpc = [s \in Stopper |-> IF s = "user" THEN "start" ELSE "unborn"]
  /\ linking = Worker
  /\ kill = [w \in Worker |-> FALSE]
  /\ called = [w \in Worker |-> FALSE]
  /\ done = [w \in Worker |-> FALSE]
  /\ pc = [t \in Thread |-> "unborn"]
  /\ up = [w \in Worker |-> FALSE]
  /\ handle = [w \in Worker |-> FALSE]
  /\ out = [w \in Worker |-> 0]
  /\ commits = [w \in Worker |-> 0]
  /\ waiters = [w \in Worker |-> <<>>]
  /\ sent = 0
  /\ tKill = FALSE /\ reporter = "off"
  /\ tUp \in BOOLEAN /\ tHandle = tUp
  /\ mishaps = {}

-----------------------------------------------------------------------------
(* The user's thread: start(), wait(), and stop() on Ctrl-C.               *)

Start ==
  /\ mpc["user"] = "start"
  /\ mKill' = FALSE /\ mCalled' = FALSE /\ mDone' = FALSE
  /\ mpc' = [user |-> "wait", script |-> "connect"]
  /\ UNCHANGED <<linking, eventVars, pc, clientVars, trackVars, mishaps>>

Interrupt ==
  /\ mpc["user"] = "wait" /\ ~mDone
  /\ EarlyStop \/ mpc["script"] \notin {"connect", "track", "hire"}
  /\ Goto("user", "stop")
  /\ UNCHANGED <<mKill, mCalled, mDone, linking, eventVars, pc, clientVars, trackVars, mishaps>>

WaitReturns ==
  /\ mpc["user"] = "wait" /\ mDone
  /\ Goto("user", "end")
  /\ UNCHANGED <<mKill, mCalled, mDone, linking, eventVars, pc, clientVars, trackVars, mishaps>>

-----------------------------------------------------------------------------
(* The activity thread of the script: connect everybody, start the tracker *)
(* and the workers, wait for the kill switch, stop.                        *)

ConnectClient(w) ==
  /\ mpc["script"] = "connect" /\ w \in linking
  /\ linking' = linking \ {w}
  /\ \E ok \in BOOLEAN : /\ up' = [up EXCEPT ![w] = ok]
                         /\ handle' = [handle EXCEPT ![w] = ok]
  /\ UNCHANGED <<mKill, mCalled, mDone, mpc, eventVars, pc, out, commits, waiters, sent,
                 trackVars, mishaps>>

CountFailures ==
  /\ mpc["script"] = "connect" /\ linking = {}
  /\ Goto("script", IF \A w \in Worker : up[w] THEN "track" ELSE "stop")
  /\ UNCHANGED <<mKill, mCalled, mDone, linking, eventVars, pc, clientVars, trackVars, mishaps>>

TrackerStart ==
  /\ mpc["script"] = "track"
  /\ tKill' = FALSE /\ reporter' = "wait"
  /\ \E ok \in BOOLEAN : tUp' = (tUp \/ ok) /\ tHandle' = (tHandle \/ ok)
  /\ Goto("script", "hire")
  /\ UNCHANGED <<mKill, mCalled, mDone, linking, eventVars, pc, clientVars, mishaps>>

StartWorker(w) ==
  /\ mpc["script"] = "hire" /\ pc[Run(w)] = "unborn"
  /\ kill' = [kill EXCEPT ![w] = FALSE]
  /\ called' = [called EXCEPT ![w] = FALSE]
  /\ done' = [done EXCEPT ![w] = FALSE]
  /\ Jump(Run(w), "loop")
  /\ UNCHANGED <<scriptVars, clientVars, trackVars, mishaps>>

Hired ==
  /\ mpc["script"] = "hire" /\ \A w \in Worker : pc[Run(w)] # "unborn"
  /\ Goto("script", "watch")
  /\ UNCHANGED <<mKill, mCalled, mDone, linking, eventVars, pc, clientVars, trackVars, mishaps>>

Watch ==
  /\ mpc["script"] = "watch" /\ mKill
  /\ Goto("script", "stop")
  /\ UNCHANGED <<mKill, mCalled, mDone, linking, eventVars, pc, clientVars, trackVars, mishaps>>

-----------------------------------------------------------------------------
(* Batches.stop(), by the user's thread or by the activity thread.  The    *)
(* test of _stop_called and its setting are two steps.                     *)

StopTest(s) ==
  /\ mpc[s] = "stop"
  /\ LET rival == \E r \in Stopper : mpc[r] = "mark"
     IN /\ rival => Spared
        /\ Note("race", rival)
  /\ mKill' = TRUE
  /\ Goto(s, IF mCalled THEN "await" ELSE "mark")
  /\ UNCHANGED <<mCalled, mDone, linking, eventVars, pc, clientVars, trackVars>>

StopMark(s) ==
  /\ mpc[s] = "mark"
  /\ mCalled' = TRUE /\ tKill' = TRUE
  /\ Goto(s, "tracker")
  /\ UNCHANGED <<mKill, mDone, linking, eventVars, pc, clientVars, tUp, tHandle, reporter, mishaps>>

StopAwait(s) ==
  /\ mpc[s] = "await" /\ mDone
  /\ Goto(s, "end")
  /\ UNCHANGED <<mKill, mCalled, mDone, linking, eventVars, pc, clientVars, trackVars, mishaps>>

(* PerformanceTracker.stop joins its timer and its reporting thread, and     *)
(* gives each 5 seconds.                                                     *)
TrackerJoin(s) ==
  /\ mpc[s] = "tracker"
  /\ reporter = "off" \/ Spared
  /\ Note("unfinished", reporter # "off")
  /\ Goto(s, "tracker_close")
  /\ UNCHANGED <<mKill, mCalled, mDone, linking, eventVars, pc, clientVars, trackVars>>

TrackerClose(s) ==
  /\ mpc[s] = "tracker_close"
  /\ tUp' = FALSE
  /\ Goto(s, "tracker_closing")
  /\ UNCHANGED <<mKill, mCalled, mDone, linking, eventVars, pc, clientVars, tKill, tHandle, reporter, mishaps>>

(* close() joins the listener, which has ended unless a reporting thread has *)
(* connected once more.  Thereafter the stop threads of the workers are     *)
(* started.                                                                 *)
TrackerClosed(s) ==
  /\ mpc[s] = "tracker_closing" /\ tHandle /\ ~tUp
  /\ tHandle' = FALSE
  /\ Goto(s, "fire")
  /\ pc' = [t \in Thread |-> IF t[1] = s /\ pc[t] = "unborn" THEN "stop" ELSE pc[t]]
  /\ UNCHANGED <<mKill, mCalled, mDone, linking, eventVars, clientVars, tKill, tUp, reporter, mishaps>>

(* To join a thread that was never started, or one that another close() has *)
(* replaced, raises RuntimeError.                                           *)
TrackerRaises(s) ==
  /\ mpc[s] = "tracker_closing" /\ ~tHandle
  /\ Goto(s, "raised")
  /\ Note("untracked", "race" \notin mishaps)
  /\ UNCHANGED <<mKill, mCalled, mDone, linking, eventVars, pc, clientVars, trackVars>>

\* mutant: _stop_complete is set before the stop threads are joined
StopCompleteEarly(s) ==
  /\ mpc[s] = "fire"
  /\ mDone' = TRUE
  /\ Goto(s, "end")
  /\ UNCHANGED <<mKill, mCalled, linking, eventVars, pc, clientVars, trackVars, mishaps>>

StopComplete(s) ==
  /\ mpc[s] = "fire" /\ \A w \in Worker : pc[<<s, w>>] \in {"end", "raised"}
  /\ mDone' = TRUE
  /\ Goto(s, "end")
  /\ UNCHANGED <<mKill, mCalled, linking, eventVars, pc, clientVars, trackVars, mishaps>>

-----------------------------------------------------------------------------
(* The tracker's timer thread and the reporting threads that it starts one  *)
(* after the other: each tests the kill switch and asks the drive for a log,*)
(* for which it connects the client when it is not connected.               *)

Report ==
  /\ reporter = "wait"
  /\ reporter' = IF tKill THEN "off" ELSE "ask"
  /\ UNCHANGED <<scriptVars, eventVars, pc, clientVars, tKill, tUp, tHandle, mishaps>>

RetrieveGetlog ==
  /\ reporter = "ask"
  /\ reporter' = "wait"
  /\ \E ok \in BOOLEAN : tUp' = (tUp \/ ok) /\ tHandle' = (tHandle \/ ok)
  /\ UNCHANGED <<scriptVars, eventVars, pc, clientVars, tKill, mishaps>>

-----------------------------------------------------------------------------
(* A worker's activity: batches until the kill switch, then its own stop.  *)

Loop(w) ==
  /\ pc[Run(w)] = "loop"
  /\ up[w] /\ ~kill[w] => sent < MaxBatch
  /\ Jump(Run(w), IF up[w] /\ ~kill[w] THEN "create" ELSE "stop")
  /\ UNCHANGED <<scriptVars, eventVars, clientVars, trackVars, mishaps>>

(* create_batch_operation returns None without a connection, and the first  *)
(* put() then ends the thread.                                              *)
CreateBatch(w) ==
  /\ pc[Run(w)] = "create"
  /\ Jump(Run(w), IF up[w] THEN "commit" ELSE "raised")
  /\ UNCHANGED <<scriptVars, eventVars, clientVars, trackVars, mishaps>>

CommitTest(w) ==
  /\ pc[Run(w)] = "commit"
  /\ Jump(Run(w), IF up[w] THEN "acquire" ELSE "wait_q")
  /\ UNCHANGED <<scriptVars, eventVars, clientVars, trackVars, mishaps>>

(* end_batch takes a slot; a client closed meanwhile fails to send and keeps *)
(* it.  acquire() never sleeps here: see QueueNeverFull.                     *)
Commit(w) ==
  /\ pc[Run(w)] = "acquire" /\ out[w] < QueueDepth
  /\ out' = [out EXCEPT ![w] = @ + 1]
  /\ commits' = [commits EXCEPT ![w] = @ + 1]
  /\ sent' = IF up[w] THEN sent + 1 ELSE sent
  /\ Jump(Run(w), "wait_q")
  /\ UNCHANGED <<scriptVars, eventVars, up, handle, waiters, trackVars, mishaps>>

\* mutant: the worker waits until batch_queue batches are outstanding
WaitQOneMore(w) ==
  /\ pc[Run(w)] = "wait_q" /\ Awake(Run(w))
  /\ out[w] <= BatchQueue
  /\ Jump(Run(w), "loop")
  /\ UNCHANGED <<scriptVars, eventVars, clientVars, trackVars, mishaps>>

WaitQ(w) ==
  /\ pc[Run(w)] = "wait_q" /\ Awake(Run(w))
  /\ out[w] <= BatchQueue - 1
  /\ Jump(Run(w), "loop")
  /\ UNCHANGED <<scriptVars, eventVars, clientVars, trackVars, mishaps>>

(* wait_q() on a queue that is not short enough yet.                        *)
WaitQSleep(t) ==
  LET w == t[2] IN
  /\ Awake(t)
  /\ \/ pc[t] = "wait_q" /\ out[w] > BatchQueue - 1
     \/ pc[t] = "drain" /\ out[w] > 0
  /\ waiters' = [waiters EXCEPT ![w] = Wait(@, t)]
  /\ UNCHANGED <<scriptVars, eventVars, pc, up, handle, out, commits, sent, trackVars, mishaps>>

-----------------------------------------------------------------------------
(* The drive answers a commit or a flush; NO_SPACE throws the kill switch. *)

Answered(w) ==
  /\ out' = [out EXCEPT ![w] = @ - 1]
  /\ waiters' = [waiters EXCEPT ![w] = Notify(@)]
  /\ UNCHANGED <<scriptVars, called, done, pc, up, handle, sent, trackVars, mishaps>>

AnswerCommit(w) ==
  /\ up[w] /\ commits[w] > 0
  /\ Answered(w)
  /\ commits' = [commits EXCEPT ![w] = @ - 1]
  /\ \E noSpace \in BOOLEAN : kill' = [kill EXCEPT ![w] = @ \/ noSpace]

AnswerFlush(w) ==
  /\ up[w] /\ out[w] > commits[w]
  /\ Answered(w)
  /\ UNCHANGED <<commits, kill>>

-----------------------------------------------------------------------------
(* BatchOVSWorker.stop, by the worker's own activity or by a stop thread.  *)

WorkerStopTest(t) ==
  LET w == t[2] IN
  /\ pc[t] = "stop"
  /\ LET rival == \E u \in Thread : u[2] = w /\ pc[u] = "mark"
     IN /\ rival => Spared
        /\ Note("rush", rival)
  /\ kill' = [kill EXCEPT ![w] = TRUE]
  /\ Jump(t, IF ~called[w] THEN "mark" ELSE IF t = Run(w) THEN "end" ELSE "await")
  /\ UNCHANGED <<scriptVars, called, done, clientVars, trackVars>>

WorkerStopMark(t) ==
  LET w == t[2] IN
  /\ pc[t] = "mark"
  /\ called' = [called EXCEPT ![w] = TRUE]
  /\ kill' = [kill EXCEPT ![w] = TRUE]
  /\ Jump(t, IF t = Run(w) THEN "check" ELSE "join")
  /\ UNCHANGED <<scriptVars, done, clientVars, trackVars, mishaps>>

\* mutant: a second stop() returns at once
WorkerStopReturns(t) ==
  /\ pc[t] = "await"
  /\ Jump(t, "end")
  /\ UNCHANGED <<scriptVars, eventVars, clientVars, trackVars, mishaps>>

WorkerStopAwait(t) ==
  /\ pc[t] = "await" /\ done[t[2]]
  /\ Jump(t, "end")
  /\ UNCHANGED <<scriptVars, eventVars, clientVars, trackVars, mishaps>>

(* The activity thread is given 30 seconds; then is_connected is tested.   *)
Check(t) ==
  LET w == t[2] IN
  /\ \/ pc[t] = "check" /\ UNCHANGED mishaps
     \/ pc[t] = "join" /\ (RunEnded(w) \/ (w \in Impatient /\ Spared)) /\ Note("slow", ~RunEnded(w))
  /\ Jump(t, IF up[w] THEN "flush" ELSE "death")
  /\ UNCHANGED <<scriptVars, eventVars, clientVars, trackVars>>

(* flush_all_data tests is_connected again before it takes a slot.          *)
FlushTest(t) ==
  /\ pc[t] = "flush"
  /\ Jump(t, IF up[t[2]] THEN "flushing" ELSE "drain")
  /\ UNCHANGED <<scriptVars, eventVars, clientVars, trackVars, mishaps>>

Flush(t) ==
  /\ pc[t] = "flushing" /\ out[t[2]] < QueueDepth
  /\ out' = [out EXCEPT ![t[2]] = @ + 1]
  /\ Jump(t, "drain")
  /\ UNCHANGED <<scriptVars, eventVars, up, handle, commits, waiters, sent, trackVars, mishaps>>

Drain(t) ==
  /\ pc[t] = "drain" /\ Awake(t) /\ out[t[2]] = 0
  /\ Jump(t, "close")
  /\ UNCHANGED <<scriptVars, eventVars, clientVars, trackVars, mishaps>>

(* close(): the flag, the table and the semaphore, then the listener.       *)
Close(t) ==
  LET w == t[2] IN
  /\ pc[t] = "close"
  /\ up' = [up EXCEPT ![w] = FALSE]
  /\ out' = [out EXCEPT ![w] = 0]
  /\ commits' = [commits EXCEPT ![w] = 0]
  /\ waiters' = [waiters EXCEPT ![w] = NotifyAll(@)]
  /\ Jump(t, IF handle[w] THEN "closing" ELSE "raised")
  /\ UNCHANGED <<scriptVars, eventVars, handle, sent, trackVars, mishaps>>

Closed(t) ==
  /\ pc[t] = "closing"
  /\ handle' = [handle EXCEPT ![t[2]] = FALSE]
  /\ Jump(t, "death")
  /\ UNCHANGED <<scriptVars, eventVars, up, out, commits, waiters, sent, trackVars, mishaps>>

\* mutant: the worker does not tell the script that it died
DeathUnsignalled(t) ==
  /\ pc[t] = "death"
  /\ done' = [done EXCEPT ![t[2]] = TRUE]
  /\ Jump(t, "end")
  /\ UNCHANGED <<scriptVars, kill, called, clientVars, trackVars, mishaps>>

(* _client_death_call() and _stop_complete.set()                            *)
Death(t) ==
  /\ pc[t] = "death"
  /\ mKill' = TRUE
  /\ done' = [done EXCEPT ![t[2]] = TRUE]
  /\ Jump(t, "end")
  /\ UNCHANGED <<mCalled, mDone, mpc, linking, kill, called, clientVars, trackVars, mishaps>>

-----------------------------------------------------------------------------
ScriptStep ==
  \/ CountFailures \/ TrackerStart \/ Hired \/ Watch
  \/ \E w \in Worker : ConnectClient(w) \/ StartWorker(w)

StopStep(s) ==
  \/ StopTest(s) \/ StopMark(s) \/ StopAwait(s)
  \/ TrackerJoin(s) \/ TrackerClose(s) \/ TrackerClosed(s) \/ TrackerRaises(s)
  \/ StopComplete(s)

BatchStep(w) == Loop(w) \/ CreateBatch(w) \/ CommitTest(w) \/ Commit(w) \/ WaitQ(w)

Answer(w) == AnswerCommit(w) \/ AnswerFlush(w)

WorkerStopStep(t) ==
  \/ WorkerStopTest(t) \/ WorkerStopMark(t) \/ WorkerStopAwait(t)
  \/ Check(t) \/ FlushTest(t) \/ Flush(t) \/ Drain(t) \/ Close(t) \/ Closed(t) \/ Death(t) \/ WaitQSleep(t)

Next ==
  \/ Start \/ Interrupt \/ WaitReturns \/ ScriptStep
  \/ \E s \in Stopper : StopStep(s)
  \/ Report \/ RetrieveGetlog
  \/ \E w \in Worker : BatchStep(w) \/ Answer(w)
  \/ \E t \in Thread : WorkerStopStep(t)

Spec == Init /\ [][Next]_vars

(* Every thread runs when it can and the drive answers; that a drive runs   *)
(* out of space or a user presses Ctrl-C is not promised.                   *)
Fairness ==
  /\ WF_vars(Start \/ WaitReturns \/ StopStep("user"))
  /\ WF_vars(ScriptStep \/ StopStep("script"))
  /\ WF_vars(Report \/ RetrieveGetlog)
  /\ \A w \in Worker : /\ WF_vars(Answer(w))
                        /\ WF_vars(BatchStep(w) \/ WorkerStopStep(Run(w)))
                        /\ \A s \in Stopper : WF_vars(WorkerStopStep(<<s, w>>))

FairSpec == Spec /\ Fairness
-----------------------------------------------------------------------------
(* Batches.py:281, "How many outstanding batch commands each client can     *)
(* have": no connection has more than batch_queue commits unanswered, with  *)
(* flushes of stopping threads in the same queue and close() emptying it    *)
(* under a worker that still waits.                                         *)
BatchesBounded == \A w \in Worker : commits[w] <= BatchQueue

(* Batches.py:96: a queue of 2 * batch_queue slots is deep enough for the   *)
(* commits and for the flushes of the threads that stop the worker: no      *)
(* command ever blocks in acquire(), where the answer that frees a slot     *)
(* could wake a wait_q() caller instead.  With a batch_queue of 1 it is too *)
(* short for the threads of two Batches.stop() and the worker's own.        *)
StoppedTwice(w) == \A s \in Stopper : pc[<<s, w>>] # "unborn"
QueueNeverFull ==
  \A t \in Thread : pc[t] \in {"acquire", "flushing"} =>
    out[t[2]] < QueueDepth \/ (BatchQueue = 1 /\ StoppedTwice(t[2]))

(* Once the script reports that it has stopped, every worker's client is    *)
(* closed: also after two threads stopped the script or a worker at once,   *)
(* or after one gave up waiting for the worker's activity.  So is the       *)
(* tracker's, unless the joins of its reporting threads gave up.            *)
StoppedMeansClosed ==
  mDone => /\ \A w \in Worker : ~up[w]
           /\ ~tUp \/ "unfinished" \in mishaps

(* ... and from then on no worker sends another batch.                      *)
NothingSentAfterStop == [][mDone => sent' = sent]_vars

(* Any kill switch, of the script (Ctrl-C) or of a worker (NO_SPACE), stops *)
(* the whole script and ends wait(), unless two threads passed a test of    *)
(* _stop_called together, a join gave up, or the tracker never had a        *)
(* connection: then PerformanceTracker.stop or close() may raise or wait.   *)
StopReturns ==
  (mKill \/ \E w \in Worker : kill[w]) ~> (mDone \/ mishaps # {})
==============================================================================
