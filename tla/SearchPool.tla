------------------------------ MODULE SearchPool ------------------------------
(***************************************************************************)
(* s3dexp/search.py: run_search feeds paths to worker processes through a  *)
(* bounded JoinableQueue, sends one None per worker, waits for the queue   *)
(* and then, for a while, for each worker; search_work runs the filters on *)
(* what it gets and adds its counts to the shared statistics when it ends. *)
(***************************************************************************)
EXTENDS Integers, Sequences, FiniteSets, Functions

CONSTANTS
  Worker,      \* worker processes
  Item,        \* paths to search
  Accepted,    \* those that every filter passes
  Failing,     \* those on which a filter raises an exception
  QSize,       \* Context's qsize
  Sentinel,    \* None
  Duds         \* sets of workers whose filters may fail to instantiate

ASSUME SearchAssumption ==
  /\ IsFiniteSet(Worker) /\ IsFiniteSet(Item)
  /\ Accepted \subseteq Item /\ Failing \subseteq Item
  /\ Accepted \cap Failing = {}
  /\ QSize \in Nat \ {0}
  /\ Sentinel \notin Item
  /\ \A d \in Duds : d \subseteq Worker

VARIABLES
  dud,         \* the workers whose filters do fail to instantiate
  main,        \* run_search: "items", "sentinels", "join_queue", "join_workers", "done"
  toPush,      \* paths not yet put
  toStop,      \* sentinels not yet put
  toReap,      \* workers not yet joined
  q,           \* the queue
  unfinished,  \* its count of unfinished tasks
  wpc, src,    \* per worker: where it is, what it got
  count, countPassed,  \* search_work's counters
  lock,        \* context.lock
  seen,        \* num_items as the worker that holds the lock read it
  stats,       \* context.stats
  searched     \* history: the paths whose filters ran to the end

mainVars == <<main, toPush, toStop, toReap>>
queueVars == <<q, unfinished>>
workerVars == <<wpc, src, count, countPassed>>
statVars == <<lock, seen, stats>>
vars == <<dud, mainVars, queueVars, workerVars, statVars, searched>>

NoStats == [num_workers |-> 0, num_items |-> 0, passed_items |-> 0]

Init ==
  /\ dud \in Duds
  /\ main = "items"
  /\ toPush = Item /\ toStop = Cardinality(Worker) /\ toReap = Worker
  /\ q = <<>> /\ unfinished = 0
  /\ wpc = [w \in Worker |-> "start"] /\ src = [w \in Worker |-> Sentinel]
  /\ count = [w \in Worker |-> 0] /\ countPassed = [w \in Worker |-> 0]
  /\ lock = {} /\ seen = NoStats /\ stats = NoStats
  /\ searched = {}

-----------------------------------------------------------------------------
(* run_search *)

Put(x) ==
  /\ Len(q) < QSize
  /\ q' = Append(q, x)
  /\ unfinished' = unfinished + 1

PutItem ==
  /\ main = "items"
  /\ \E i \in toPush : Put(i) /\ toPush' = toPush \ {i}
  /\ UNCHANGED <<dud, main, toStop, toReap, workerVars, statVars, searched>>

ItemsPut ==
  /\ main = "items" /\ toPush = {}
  /\ main' = "sentinels"
  /\ UNCHANGED <<dud, toPush, toStop, toReap, queueVars, workerVars, statVars, searched>>

PutSentinel ==
  /\ main = "sentinels" /\ toStop > 0
  /\ Put(Sentinel)
  /\ toStop' = toStop - 1
  /\ UNCHANGED <<dud, main, toPush, toReap, workerVars, statVars, searched>>

SentinelsPut ==
  /\ main = "sentinels" /\ toStop = 0
  /\ main' = "join_queue"
  /\ UNCHANGED <<dud, toPush, toStop, toReap, queueVars, workerVars, statVars, searched>>

\* mutant: waits for an empty queue, not for finished tasks
JoinQueueWhenEmpty ==
  /\ main = "join_queue" /\ q = <<>>
  /\ main' = "join_workers"
  /\ UNCHANGED <<dud, toPush, toStop, toReap, queueVars, workerVars, statVars, searched>>

JoinQueue ==
  /\ main = "join_queue" /\ unfinished = 0
  /\ main' = "join_workers"
  /\ UNCHANGED <<dud, toPush, toStop, toReap, queueVars, workerVars, statVars, searched>>

(* w.join(5): the worker has exited, or five seconds have passed.           *)
JoinWorker(w) ==
  /\ main = "join_workers" /\ w \in toReap
  /\ toReap' = toReap \ {w}
  /\ UNCHANGED <<dud, main, toPush, toStop, queueVars, workerVars, statVars, searched>>

Report ==
  /\ main = "join_workers" /\ toReap = {}
  /\ main' = "done"
  /\ UNCHANGED <<dud, toPush, toStop, toReap, queueVars, workerVars, statVars, searched>>

-----------------------------------------------------------------------------
(* search_work *)
WGoto(w, label) == wpc' = [wpc EXCEPT ![w] = label]

(* The filters are instantiated outside the try: a failure ends the process. *)
Start(w) ==
  /\ wpc[w] = "start"
  /\ WGoto(w, IF w \in dud THEN "exit" ELSE "get")
  /\ UNCHANGED <<dud, mainVars, queueVars, src, count, countPassed, statVars, searched>>

Get(w) ==
  /\ wpc[w] = "get" /\ q # <<>>
  /\ q' = Tail(q)
  /\ src' = [src EXCEPT ![w] = Head(q)]
  /\ WGoto(w, IF Head(q) = Sentinel THEN "stop" ELSE "filter")
  /\ UNCHANGED <<dud, mainVars, unfinished, count, countPassed, statVars, searched>>

\* mutant: the counter is incremented before the filters run
FilterCountsFirst(w) ==
  /\ wpc[w] = "filter"
  /\ count' = [count EXCEPT ![w] = @ + 1]
  /\ countPassed' = [countPassed EXCEPT ![w] = IF src[w] \in Accepted THEN @ + 1 ELSE @]
  /\ searched' = IF src[w] \in Failing THEN searched ELSE searched \cup {src[w]}
  /\ WGoto(w, "task_done")
  /\ UNCHANGED <<dud, mainVars, queueVars, src, statVars>>

(* The filter chain on one item; an exception is logged and not counted.    *)
Filter(w) ==
  /\ wpc[w] = "filter"
  /\ IF src[w] \in Failing
     THEN UNCHANGED <<count, countPassed, searched>>
     ELSE /\ count' = [count EXCEPT ![w] = @ + 1]
          /\ countPassed' = [countPassed EXCEPT ![w] = IF src[w] \in Accepted THEN @ + 1 ELSE @]
          /\ searched' = searched \cup {src[w]}
  /\ WGoto(w, "task_done")
  /\ UNCHANGED <<dud, mainVars, queueVars, src, statVars>>

\* mutant: task_done() is skipped for an item whose filter raised
TaskDoneUnlessFailed(w) ==
  /\ wpc[w] \in {"task_done", "stop"}
  /\ unfinished' = IF src[w] \in Failing THEN unfinished ELSE unfinished - 1
  /\ WGoto(w, IF wpc[w] = "stop" THEN "merge" ELSE "get")
  /\ UNCHANGED <<dud, mainVars, q, src, count, countPassed, statVars, searched>>

(* The inner finally: task_done(), after an item and after the sentinel.    *)
TaskDone(w) ==
  /\ wpc[w] \in {"task_done", "stop"}
  /\ unfinished' = unfinished - 1
  /\ WGoto(w, IF wpc[w] = "stop" THEN "merge" ELSE "get")
  /\ UNCHANGED <<dud, mainVars, q, src, count, countPassed, statVars, searched>>

\* mutant: the statistics are updated without the lock
ReadStatsUnlocked(w) ==
  /\ wpc[w] = "merge"
  /\ lock' = lock \cup {w}
  /\ seen' = stats
  /\ WGoto(w, "write")
  /\ UNCHANGED <<dud, mainVars, queueVars, src, count, countPassed, stats, searched>>

(* The outer finally: under context.lock, each += reads and then writes.    *)
ReadStats(w) ==
  /\ wpc[w] = "merge" /\ lock = {}
  /\ lock' = {w}
  /\ seen' = stats
  /\ WGoto(w, "write")
  /\ UNCHANGED <<dud, mainVars, queueVars, src, count, countPassed, stats, searched>>

WriteStats(w) ==
  /\ wpc[w] = "write"
  /\ stats' = [num_workers  |-> seen.num_workers + 1,
               num_items    |-> seen.num_items + count[w],
               passed_items |-> seen.passed_items + countPassed[w]]
  /\ lock' = lock \ {w}
  /\ WGoto(w, "exit")
  /\ UNCHANGED <<dud, mainVars, queueVars, src, count, countPassed, seen, searched>>

-----------------------------------------------------------------------------
MainStep == \/ PutItem \/ ItemsPut \/ PutSentinel \/ SentinelsPut \/ JoinQueue
            \/ (\E w \in Worker : JoinWorker(w)) \/ Report

WorkerStep(w) == \/ Start(w) \/ Get(w) \/ Filter(w) \/ TaskDone(w)
                 \/ ReadStats(w) \/ WriteStats(w)

Next == MainStep \/ \E w \in Worker : WorkerStep(w)

(* The operating system runs every process that can run.                    *)
Spec == /\ Init /\ [][Next]_vars
        /\ WF_vars(MainStep)
        /\ \A w \in Worker : WF_vars(WorkerStep(w))

-----------------------------------------------------------------------------
Busy(w) == wpc[w] \in {"filter", "task_done", "stop"}
Merged(w) == wpc[w] = "exit" /\ w \notin dud

(* q.join() may be trusted: the unfinished count is exactly what is queued  *)
(* or in a worker's hands, so run_search cannot pass it too early, nor wait *)
(* for a task that nobody has (the task_done() in the finally).             *)
UnfinishedExact == unfinished = Len(q) + Cardinality({w \in Worker : Busy(w)})

(* No count is lost or doubled between the workers and the shared           *)
(* statistics: what was searched is in num_items or still with a worker.    *)
CountsConserved ==
  LET unmerged(counter) == [w \in Worker |-> IF Merged(w) THEN 0 ELSE counter[w]] IN
  /\ Cardinality(searched) = stats.num_items + SumFunction(unmerged(count))
  /\ Cardinality(searched \cap Accepted) = stats.passed_items + SumFunction(unmerged(countPassed))

(* q.join() returns only when the search is over: every path has been       *)
(* through the filters and no worker is in its loop any more.  In           *)
(* particular it never returns with a worker that could not start.          *)
Drained ==
  main \in {"join_workers", "done"} =>
    /\ dud = {}
    /\ searched = Item \ Failing
    /\ \A w \in Worker : wpc[w] \in {"merge", "write", "exit"}

(* The figures that run() reports are complete, unless a worker needed more *)
(* than the five seconds it was given after the queue had drained.          *)
ReportComplete ==
  main = "done" /\ (\A w \in Worker : wpc[w] = "exit")
    => /\ stats.num_workers = Cardinality(Worker)
       /\ stats.num_items = Cardinality(Item \ Failing)
       /\ stats.passed_items = Cardinality(Accepted)

(* A search ends when the filters of every worker could be instantiated,    *)
(* whatever the filters do to single items.                                 *)
SearchEnds == dud = {} => <>(main = "done")
==============================================================================
