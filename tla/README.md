# A verification project for the smart-disk emulator

TLA+ modules, TLC runs and TLAPS proofs kept beside the code of this repository: an emulator
for visual search near the disk ("s3dexp"), and the Python 2.7 tooling for Kinetic drives it
uses (the `kv_client` library, the `shenzi` scripts, and two small servers that put a drive
behind HTTP and ZeroMQ).

Contents: [1 the system](#1-the-system), [2 the modules](#2-the-modules),
[3 the runs](#3-the-runs), [4 the proofs](#4-the-proofs),
[5 fairness](#5-fairness), [6 bounds](#6-bounds),
[7 where code and documents disagree](#7-where-code-and-documents-disagree),
[8 what is not modelled](#8-what-is-not-modelled), [9 the plan](#9-the-plan).

To check a run: `tlc -config <cfg> <MC module>`; to check the proofs:
`tlapm` on each of the modules named `*Proofs`. `PROJECT.json` lists the runs, the lines each definition
stands for, the hazards and which property covers which.

## 1 The system

### Components, their state and their operations

| component | source | state | operations |
|---|---|---|---|
| queue semaphore | `kv_client/client.py` 38-92, 205-207, 920-942 | `depth`, `_outstanding`, one `Condition` | `acquire`, `release`, `clear`, `queue_depth = n`, `wait_q` |
| `kv_client.Client` | `kv_client/client.py` | `_connected`, `_socket`, `_sequence`, `_pending`, `_listening_thread`, `callback_delegate`, the semaphore | `connect`, `close`, one method per command, `_listen` and `_on_response` on the listener thread, error reports |
| `Batch` | `kv_client/batch.py` | batch id, operation count, completed flag | `put`, `delete`, `commit`, `abort` |
| web application | `kinetic/app.py` | 16 shared-memory slots, the set of available ones, the request queue | `get`, `getsmart` (flask threads), `serve_requests` (processes), `data_callback` (their listeners) |
| proxy | `kinetic/proxy_server.py`, `s3dexp/kinetic/proxy_client.py` | `pending_requests`, `ready_requests`, a ROUTER socket | the loop in `main`, `data_callbak` on the listener, REQ clients |
| search pool | `s3dexp/search.py`, `script/search_driver.py` | a bounded `JoinableQueue`, a lock, shared statistics | `run_search`, `search_work` |
| video search | `script/video_search.py` | as the pool, and a window of frames | `run`, `worker`, decoders |
| storage simulator | `s3dexp/sim/*` | a SimPy environment, resources for decoders and the bus | `run_server`, `sched_request`, `serve_request`, `SmartStorageClient` |
| `ShenziClient` | `shenzi/Support/ShenziClient.py` | a `Client` and a serial number | `connect` through the drive state monitor, `blocking_cmd` |
| script life cycle | `shenzi/Support/ScriptBases.py` | three events, an activity thread, a client, a status | `start`, `stop`, `wait` |
| performance tracker | `shenzi/Support/PerformanceTracker.py` | counters under a lock, a timer and a report thread | `start`, `stop`, `log_op`, `_snapshot_data` |
| drive state monitor | `shenzi/DriveStateMonitor/*`, `Support/General.py` | one table per listener, restart time cards | managers, listeners, queries, `communicate_with_dsm` |
| key generators | `shenzi/Support/KeyGenerator.py` | the current key, a random mask | `get_next_key` |
| qualification suites | `shenzi/KineticQualification/*` | status, subtests | run, stop |
| OVS simulation | `shenzi/OVS/Simulation.py` | batch group, successes, an event | `run`, callbacks |

### How they interact

Everything that reads or writes a drive goes through `kv_client.Client`. Application threads
call a command, which takes a slot of the semaphore, enters the command in `_pending` under
the next sequence number and sends it. One listener thread per connection receives the
answers, calls the callback that was the `callback_delegate` when the command was registered,
deletes the entry and releases the slot. `wait_q(n)` sleeps on the semaphore's own
`Condition`. The web application runs several such clients in processes of their own, joined
to the flask threads by shared memory only; the proxy runs one, whose listener thread shares
two dictionaries with the proxy's loop. The search pool runs filters in worker processes, and
a filter may be a client of the proxy, of the simulator or of the drive. The `shenzi` scripts
wrap clients in `ScriptBases` and account for their commands in a performance tracker; they
find their drives through the drive state monitor.

### What is hard about it

* Threads of different purpose on one `Condition` (74, 940), woken one at a time.
* Three tables that must agree without a common lock: `_pending`, the semaphore's counter, and
  what the drive holds; each is changed by statements of its own (295 and 296, 906 and 907).
* `connect()` tests `is_connected` forty lines before it sets it.
* Sequence numbers that start again at 0 with each connection, and error reports of the client
  itself that carry sequence number 0.
* `close()` against the listener thread; a callback that raises; a timeout scan over a
  dictionary that other threads extend, delete from and replace.
* Slots of shared memory read by polling a length that is written last.
* Tables indexed by key, when two clients want the same key; a loop that waits inside `get()` for
  a slot that only the listener gives back.
* Counting unfinished work exactly when filters raise and workers fail to start.
* A simulated clock that is set back for late requests while it runs ahead of the wall clock.
* A `stop()` that the user's thread, the activity thread, a worker and a stop thread may all be
  in, over events that are tested and set in two steps, while one of them closes the client that
  another flushes; a tracker that is closed while it may still be connecting.
* Statuses that are stored again because the acknowledgement was lost; listeners that die with
  the socket they listened on; a main thread that waits for a query without a timeout.

### What makes each part correct

* Semaphore: never more than `depth` slots taken, no wake-up lost among issuers.
* Client: on a sound connection each command is answered once; for one application thread,
  across faults, the counter and `_pending` agree, an answer reaches the callback of its own command
  only, and `close()` ends.
* Web application: an answer reaches the request it belongs to; no slot is lost or shared.
* Proxy: a client gets the reply to what it asked, and gets one.
* Pool: `q.join()` ends when and only when the work is done; the statistics add up.
* Simulator: a request is charged for all the work it asked for, resources are not overcommitted
  by requests that are in time, and every request is answered while the server lives.
* Script: any kill switch stops every worker, the tracker and the thread in `wait()`, every
  worker's client is closed by then and sends nothing more; the queues never fill up.
* Drive state monitor: a status that was acknowledged is kept, the history is the newest part
  of what was stored, and a listener that dies is restarted, within a bound, or ends the process.
* For the parts not modelled, see sections 8 and 9.

## 2 The modules

| module | what it models |
|---|---|
| `PyCondition` | `threading.Condition` of Python 2.7 as a list of sleepers (external code, modelled from its use) |
| `SlotPool` | abstract: a pool of slots with a limit |
| `QueueSemaphore` | `Client.Semaphore`, `queue_depth`, `wait_q`; implements `SlotPool` |
| `CommandLedger` | abstract: commands accepted and answered once, at most `Depth` open |
| `KineticClient` | `Client` with its callers, listeners and socket; implements `CommandLedger` on a sound connection |
| `AppSlots` | `kinetic/app.py` |
| `ProxyServer` | `kinetic/proxy_server.py` and its clients |
| `SearchPool` | `s3dexp/search.py` |
| `SmartStorageSim` | `s3dexp/sim` |
| `BatchScript` | `OVS/Batches.py` on `ScriptBases.py`, with its `PerformanceTracker` |
| `DriveStateMonitor` | `StatusListener.py`, the managers of `DriveStateMonitor.py`, the reporters of `General.py` and `status_dsm` |
| `MC*` | constants for TLC |
| `QueueSemaphoreProofs`, `KineticClientProofs`, `AppSlotsProofs`, `ProxyServerProofs`, `SearchPoolProofs`, `SmartStorageSimProofs`, `BatchScriptProofs`, `DriveStateMonitorProofs` | theorems about the modules they are named after |

### QueueSemaphore

What happens between two `wait()` calls happens under the lock and is one action.
`AcquireSleep` and `AcquireTake` are the two outcomes of the loop test in `acquire()`,
`TryAcquire` is `acquire(blocking=False)`, `Release` and `Clear` are the methods of those
names, `SetDepth` is the property's setter (which takes no lock and wakes nobody), and
`WaitQ*` are the loop of `wait_q()`. `waiters` holds the sleepers of the `Condition`, oldest
first; a thread is asleep exactly when it is in the list. `WaitQTimeout` may happen to a
thread that has been picked by `notify()` already: the code then leaves the loop without
another look at the counter.

### KineticClient

Nothing in the client but its semaphore is locked, so a step is one statement on what the threads
share. Per caller, `pc` follows a command from `acquire` over the reconnect loop and
`_update_header` to `_packet_send`; `connect()` from the test of `is_connected` over the socket,
the sign-on, the new `_sequence` and the new thread to `_connected.set()` and `start()`
(`Connect`, `NewSocket`, `Established`, `SignedOn`, `Renumber`, `NewThread`, `SetConnected`,
`StartListener`); and `close()` from `_connected.clear()` over `_pending = dict()` (`Wipe`),
`clear()` (`Clear`) and `join()` to the fresh `Thread()` (`Forget`). Two threads may be in any of
these at once. Per connection there is one listener with its own `lpc`; `handle` is
`_listening_thread`. `sock` is `_socket` ("new", "open" or "closed"), `up` the connections neither
side has ended, `drive` the commands the drive holds or whose answers are in flight, and the status
it sends unasked on a new connection.

`_on_response` is three steps: the callback is called, the entry deleted (906), the slot released
(907): `Receive`, `CallbackReturns` and `SlotReleased` on the listener thread, and `Report`,
`ReportDeletes` and `ReportReleases` on an application thread. Error reports and the sign-on status
carry sequence number 0 and complete command 0 if that is pending (`Report`, `LReport`). `ledger` is
a history of what became of each command. What may go wrong comes from the set `Faults`: dropped
connections, a refused connect, a sign-on that fails or is no status, timeouts, `ssl.SSLError`,
answers that fail their HMAC check, callbacks that raise, and with timeouts a scan of `_pending`
that is disturbed. The client's `auto_reconnect_count` is picked in `Init` from `AutoReconnects`.
Commands are numbered; their contents do not matter here. With `Batching` a command may carry the
`batch_flag`, as those of `Batch.put`, `Batch.delete` and `create_batch_operation` do
(`IssueBatched`): it draws a sequence number like every other, takes no slot, leaves no entry in
`_pending`, and the drive need not answer it. `commit()` is an ordinary command.

Values, HMACs, histograms and printing are left out. A send is one step: the packets of
concurrent senders do not interleave in the model (they can in the code; see the hazards).

### AppSlots

A slot is its `len` (-1, 0, or positive) and the key whose bytes are in it. `TakeSlot` is
`pop()` and `put()`; `ReadSlot` the end of the busy loop; `ResetLen` and `GiveSlot` the two
statements of the `finally` clause. `Serve` sets the delegate and issues the command;
`WritePayload` and `WriteLen` are the two writes of `data_callback`, in that order.
`Report` is an error that the kv_client reports itself, with what `KineticClient` says of it: it
completes the first command of the connection, or goes to the delegate of the latest one. It comes
from an overdue command (`Expire`) or a broken connection (`ConnectionLost`), after which the
listener is dead and sends fail (`SendFails`) or are lost. `ScanDisturbed` is the listener's death
in its timeout scan, after which commands are sent and never answered.

### ProxyServer

`server` is the position in `main`'s loop; one turn takes at most one message and sends at
most one reply. The dictionaries are sets of requests with at most one per key (`Store`).
`Callback` is `pop()`: it takes the request found under the answer's key, or ends the listener thread
when there is none (`KeyError`); `CallbackStores` inserts it into `ready_requests`, and `Release`
gives the slot back in the kv_client, when the loop may long have replied. `ErrorReport` is an error
that names no key, at any time; `IssueFails` is the same exception on the loop's own thread, when
sending a command fails. `upset` records whether the assumption stated in
`proxy_server.py:56` (no two requests for one key) has been broken or the client has reported
an error of its own, after which only `RepliesWanted` is promised.

### SearchPool

`main` is the position in `run_search`, `wpc` those of the workers. `TaskDone` is the inner
`finally`, `ReadStats` and `WriteStats` the two halves of each `+=` on the manager's
dictionary. Workers in `dud` cannot instantiate their filters and exit before their loop.
`JoinWorker` is `w.join(5)`: it returns whether or not the worker has exited.

### SmartStorageSim

`server` is the position in `run_server`: `Turn` takes a request from the socket, if there was one
when it polled, `RunStarts` reads the clock and enters `env.run(until)`; the processes' steps up to
`until` follow, earliest first, then `RunEnds`. A request is a process with a `stage` in the `Route`
of its opcode and the time `due` of its next event. simpy's events without delay are folded into the
step that causes them (`Free` grants the resource to the first in the queue, `Hold` times it);
events at the same time may come in any order, of which simpy picks one. `SchedRequest` enters a
request at its own time stamp, which is all that setting `_now` back (or forward) amounts to: the
next `step()` sets `_now` to the time of the earliest event in any case. `held`, `fired` and `late`
are histories: who held what when, the latest event simulated, and the requests entered before it.
Images outside `Profiled` have no entry in a component's table; a request for one ends the server
(`LookupFails`), as does a frame that goes back (`VideoAssertion`). Times are integers; the wall
clock ticks at any moment, also while the simulation runs.

### BatchScript

`mpc` follows the user's thread (`start`, `wait`, `stop` on Ctrl-C) and the script's activity
thread; `pc` follows each worker's activity thread and the thread that stops it. The test of
`_stop_called` and its setting are two steps, of the script and of each worker (`StopTest`,
`StopMark`, `WorkerStopTest`, `WorkerStopMark`), and so are `is_connected` and what follows it
(`Check`, `FlushTest`, `Flush`, `Drain`, `Close`, `Closed`). A client is reduced to its
connection, the handle of its listener, and its queue: `out` slots taken, of which `commits`
hold an END_BATCH, and the sleepers of its `Condition`. To join a listener that was never
started, or that another `close()` has replaced, raises `RuntimeError` and ends the thread
(`raised`). `AnswerCommit` may report NO_SPACE, which throws the worker's kill switch.

The tracker's `stop()` is four steps: it joins its threads, which may give up after five seconds
each (`TrackerJoin`), closes its client (`TrackerClose`), and either joins the client's listener
(`TrackerClosed`) or raises because there is none (`TrackerRaises`). A reporting thread left over
may meanwhile connect the client again (`RetrieveGetlog`).

`mishaps` records what goes wrong in the code and spoils an orderly stop: two calls of
`Batches.stop()` that find `_stop_called` clear together ("race"), two threads that do so with one
worker ("rush"), a `join(30)` that gives up on a worker's activity ("slow"), a `join(5)` that gives
up on the tracker's reporting ("unfinished"), and a tracker whose client never had a connection, so
that its `close()` raises ("untracked"). The bound `MaxMishaps` limits how many kinds of them one
behaviour has: once it is reached, no other follows, nor a second of a kind.

Left out: exit statuses and messages, `flush_every_batch`, connections that drop (they are in
`KineticClient`), and the puts inside a batch (they take no slot). A `get_log` on a live connection
of the tracker changes nothing here.

### DriveStateMonitor

One drive: the drives share the listener and the lock only, their lists are independent. `rep`
is each reporter's position in the retries of `communicate_with_dsm`; a connection is
`<<reporter, number, try>>`, so that an acknowledgement finds its sender only if it still waits.
`Bind`, `Accept`, `SendAck` and `SocketError` are `StatusListener.listen`; `StoreTrim` and
`StoreAppend` the two halves of `_store_data`, by one thread per message, under the lock.
`Bind` fails once after a death, because `self._socket` holds the old listening socket until
the attempt is over: each death of the status listener costs two entries on its time card.
`Hire` and `Resign` are one round of `_manage` after the task has ended; the clock is read when
a card is stamped and nowhere else, so it advances there.
`querying` is where the main thread is: in `accept()`, or in a `recv()` on the query connection it
has accepted, which has no timeout; it looks at the kill switch after either (`Exit`,
`LastQueryArrives`). These and `Killed` end the process,
and with it everything it knew: statuses are kept in memory only.

Left out: the table of multicast messages, whose listener appears as a task that can fail, and
the answers to the queries "m" and "s" (a query shows `data` at any moment, in any state, as
`get_data` returns the live dictionary).

## 3 The runs

| run | shows |
|---|---|
| `sem_issuers` | four threads on two slots: `NoStrandedIssuer`, `SleepersWake` |
| `sem_mixed` | two issuers, two drainers (one thread is both), timeouts, `clear()`, resizing: `TypeOK`, `PoolSpec` (refinement of `SlotPool`) |
| `sem_wait_q` | violation of `WaitQReturns`, section 7 |
| `client_sound` | two threads, one of which connects, no faults, batched commands among the others: `LedgerSpec` (refinement of `CommandLedger`, with its liveness), `DrainReturns` |
| `client_faults` | one thread, three commands, all faults, `close()`, two connections, with and without auto reconnect, batched commands: `SlotsMatchPending`, `NoForeignAnswer`, `OneListener`, `CleanConnect`, `CloseReturns` |
| `client_expired` | violation of `DriveWithinDepth`, section 7 |
| `app_slots` | two flask threads, two slots, two processes, at most one error report, one process whose listener may die: `TypeOK`, `RepliesMatch`, `FreeSlotsUnset`, `SlotsOwnedOnce`, `RequestsReturn` |
| `proxy` | three clients, three keys of which one may collide, two slots, so that the loop waits for one: `RepliesWanted`, `CallbackFinds`, `OnePlaceEach`, `ClientsServed` |
| `search_pool` | two workers, one of which may fail to start, three paths, a queue of two: `UnfinishedExact`, `CountsConserved`, `Drained`, `ReportComplete`, `SearchEnds` |
| `smart_sim` | two clients, one of which also decodes videos, every resource of capacity one, an image without a profile: `CapacityKept`, `TimeCharged`, `FramesIncrease`, `Answered` |
| `batch_script` | two connections, one of which may outlive its `join(30)`, Ctrl-C at any time once the workers have started, NO_SPACE, one kind of mishap of five: `BatchesBounded`, `QueueNeverFull`, `StoppedMeansClosed`, `NothingSentAfterStop`, `StopReturns` |
| `dsm` | one reporter with two statuses and two attempts each, a history of two, socket errors and failed binds, a wipe, two starts at one time are too many: `StatusHistory`, `ToldIsStored`, `RecoveryBounded`, `RecoversOrDies` |

`NoStrandedIssuer` is the reason why `release()` may call `notify()` and not `notifyAll()`:
while a thread sleeps in `acquire()`, there are at least as many awake threads on their way to
a slot as there are free slots. It holds only when every sleeper waits for the same thing and
the depth does not change, hence the constants of that run.

`DrainReturns` says that `wait_q(0)` returns beside another thread that issues commands; it does so
because that thread issues finitely many. One that never stops may keep the queue from being empty.

`SlotsMatchPending` counts, beside the entries of `_pending`, the commands between `acquire()` and
`_update_header` (`Holding`) and the threads between the `del` and the `release()` of `_on_response`
(`Releasing`). It is an equation without auto reconnect and an inequality with it: an operation that
leaves the reconnect loop through the exception of a failed sign-on (`client.py:259`, not caught)
keeps its slot for good. From the statement of `close()` that replaces `_pending` until it has joined
the listener (`Closing`) the two do differ, and the property says that they agree again afterwards,
whatever the listener did in between: an entry that is wiped under a callback makes the `del` raise
and ends the thread before its `release()`.

`SlotsMatchPending`, `NoForeignAnswer`, `OneListener`, `CleanConnect` and `CloseReturns` are about one
application thread, with its listeners. With two threads, one of which calls `close()` or both of
which call `connect()`, the model has the steps and the properties fail: a command is registered after
another thread's `close()` has emptied `_pending`; two threads pass `client.py:238`, start two
listeners, and the second starts the numbers again under the first one's commands. The repository
nowhere promises otherwise, and every program in it connects and closes a client from one thread at a
time, `OVS/Batches.py` apart, which `BatchScript` models. Which of several threads issues
commands is free in `client_sound`, with one of them connecting.

`NoForeignAnswer` says of each answer under way that the entry of `_pending` under its number
(`OwnEntry`) is its own command's, or that it is a batched command's. The exception is needed:
`connect()` starts the numbers again at 0 (`client.py:269`) while the reconnect inside a command
leaves `_pending` as it is, so a batched command, which has no entry of its own, may draw the
number of an entry left over from the connection before; the drive's answer to it, if there is
one, completes the older command. That takes four commands, one more than the run has: with
`MaxCmd = 4` the safety properties of the run hold too (six million states), and without the exception
TLC finds `NoForeignAnswer` violated. `AnswersFindTheirCommand` proves it for any number.

`RepliesMatch` and `FreeSlotsUnset` are stated until a client reports an error of its own. After
that, a slot can be given back while its answer is under way and the next request may read that
answer; `SlotsOwnedOnce` holds nevertheless. `RequestsReturn` holds as long as every process has its
listener: once one has died, a request that goes to its process is never answered and its thread
spins for ever, which nothing in the code prevents.

`OnePlaceEach`, `CallbackFinds` and `ClientsServed` hold until two requests meet at one key or the
kv_client reports an error. After a collision the overwritten client waits for ever, and after an
error report every client does; nothing denies that. What is promised even then is `RepliesWanted`.
`ClientsServed` is about the loop that waits for a slot inside `get()`: the third key finds both
slots taken, also one whose answer is in `ready_requests` already, and the listener must get through
its `release()` without the loop.

`Drained` and `SearchEnds` together say that a search ends exactly when all workers have
started: the sentinel meant for a worker that died stays in the queue, and `q.join()` waits
for it (`search.py:162`).

`CapacityKept` leaves aside the requests that were entered before events already simulated: such a
request is granted a resource at a time when it was in use, and with it the resource is over
capacity in simulated time. That is the price of the hack at `storage.py:92`; what the run shows is
that nobody else pays: the other requests keep to the capacity among themselves, late requests are
charged in full (`TimeCharged`). (At the simulated times of a late request a resource may stand idle
beside it: it queues behind a holder of a later time.) `FramesIncrease` is stated while no video is
started again: a second search of the same video, or a second client, makes the assertion at
`decoder.py:82` end the server. So does a request for an image without a profile (`decoder.py:48`),
and `Answered` is about servers that live.

`StoppedMeansClosed` has an exception for the tracker: if a join of its threads gave up, its client
may be connected again after it was closed, and nobody closes it then. `StopReturns` leaves aside
the behaviours with a mishap, in which a thread may end with an exception before `_stop_complete` is
set, or a `close()` wait for a listener that was started after it; so what it says of two threads in
one `stop()` is only that the second waits for the first when the test finds `_stop_called` set. It
is here that the rest of the protocol is needed: that a worker's end throws the script's switch,
that a second `stop()` waits, that a flush never blocks. `NothingSentAfterStop` assumes that Ctrl-C
comes after the workers have started (section 7).

`QueueNeverFull` is why this script does not run into the lost wake-up of section 7: issuers
and `wait_q()` callers share the `Condition`, but no issuer ever sleeps there. With a `batch_queue` of
1 and two threads in `Batches.stop()` at once it is not deep enough: two slots, and a commit and
the flushes of three threads. The property excepts that case, which takes four
kinds of mishap (both calls pass the test of `_stop_called`, the tracker's joins give up, two threads
stop the worker at once, and both give up waiting for its activity) and so lies beyond this run; the
theorem has no such bound.

`ToldIsStored` says that the acknowledgement may be sent before the status is stored, because
the storing thread runs already and outlives the listener; and that a status is stored at most
once per attempt. Two statuses of one sender may be stored in the wrong order.

Types are checked in `sem_mixed` and `app_slots`; elsewhere the other properties fail when a
variable leaves its type, and the proofs' invariants state the types they need.

Deadlock is checked in `sem_issuers`, `sem_mixed` and `client_sound`. It is not checked where the
system does stop: a client or a simulator's client that has used up its requests, a search that has
ended, a script that has stopped, a monitor that has exited, a proxy or a web application whose
listener has died.

## 4 The proofs

`QueueSemaphoreProofs` holds theorems for any set of threads, any depth and any sequence of
depth changes, under `SemaphoreAssumption`:

* `SemaphoreTypes`: `Spec => []TypeOK`.
* `IssuersAreNotStranded`: `Spec => []NoStrandedIssuer`, assuming there are no drainers and no
  depth changes, as in the run.
* `ImplementsSlotPool`: `Spec => PoolSpec`.

The inductive invariant `IInv` is `TypeOK` and `SleepersBlocked`: no thread is on the list of
sleepers twice, and none outside `acquire()` or `wait_q()`. That is a fact about CPython's
`Condition` as modelled here, needed by the proofs and no claim about the client. That the entries
of the list are different is preserved by `Wait` only because a thread that sleeps again was awake,
that is, not in the list. Lemmas about the list come first (`WaitSeq`, `NotifySeq`, `LeaveSeq`: each
keeps it a list of different threads), then `InitIInv` and `NextIInv` with one step per action. For
`NoStrandedIssuer` the invariant is strong enough as it stands beside `IInv`: `CountStep` says how
the number of awake acquiring threads changes when one thread falls asleep, wakes or takes a slot.
For the refinement each action maps to an action of `SlotPool` or to a stutter.

`AppSlotsProofs` proves `SlotsAreOwnedOnce`, `Spec => []SlotsOwnedOnce`, for any number of
flask threads, processes, slots and keys, however often commands expire and listeners die, from the one
assumption that the marker for "no slot" is not a slot. `SlotsOwnedOnce` alone is not inductive:
nothing in it says that a thread with a slot is inside a request, so that an idle thread could
take a second one and lose the first. `SlotInv` adds that a thread holds a slot exactly while it
is in `get` or `getsmart` (`Held`) and splits the property into the three facts a step can
disturb (`Partition`). There is one lemma per group of actions; the processes never touch what
the invariant is about.

`BatchScriptProofs` proves `BatchesAreBounded` and `QueueIsNeverFull`, for any number of
connections, any `batch_queue` and whoever stops what when. `QueueInv` says, per worker, that
outside `wait_q()` it has room for one more batch (which `close()` only makes more), and that
whatever is outstanding beside its commits is the flush of a thread that is now in `wait_q(0)`.
The second part is what makes the queue deep enough: at most `batch_queue - 1` commits and one
flush stand beside the command a thread is about to send, and that is less than twice
`batch_queue`. `JumpKeeps` handles the steps that only move a thread; the steps that touch the
queue have a lemma each. A `batch_queue` of 1 with both threads of `Batches.stop()` at work is excepted
(section 3); with one thread less, or one slot more, the sum fits.

`DriveStateMonitorProofs` proves `RecoveryIsBounded` and `HistoryIsKept`. For the first,
`CardInv` says that each time card is in order, lies in the past, and that any
`RECOVERY_COUNT` consecutive starts before the last one span more than the window, which is
what `Exceeded` tested when the next was stamped; a start and the count of recoveries after it
follow because the card is ordered (`SpacedBounds`). For the second, `StoreInv` says that the
list is a suffix of what was stored and that a thread that holds the lock has already made room.

It also proves `ToldAreStored`, `Spec => []ToldIsStored`. `DeliveryInv` numbers the attempts of a
sender: what is held of a status, stored or in a thread that will store it, came over fewer
connections than any that still waits in the backlog, so that it is never held more often than
it was sent; and the connection being acknowledged has its thread already
(`StatusListener.py:57`).

`AppSlotsProofs` goes on with `TypesKept`, `RepliesAreOwn` and `FreeSlotsAreUnset`. The last two
are about the time before a client reports an error of its own, and so is the invariant behind them:
`AnswersInv` is the types, with what a process falls back on, and, while nothing was reported,
`Right`. `Right`
relates the four places an answer passes through: whatever is queued, at a drive or being
written was asked for by a thread that still polls an unset slot (`Wanted`), no slot has two
answers under way (`OneAnswer`), a polling thread finds its own value (`ReadersRight`), and slots
given back are unset. Neither property is inductive without `OneAnswer`: a second answer could
fill a slot that has been read.

`BatchScriptProofs` proves `StopCloses` and `NothingIsSentAfterStop`, both assuming
`~EarlyStop`, that is, a Ctrl-C that comes after the workers were started, as in the run. Without
it both are false (section 7). `CloseInv` follows the client of a worker rather than its threads:
a thread that has marked a worker as stopped, or waited for one that did, finds its client
closed, and no thread opens one after the script's connections have been made (`PhaseInv`,
`ShutInv`). Of the tracker, `TrackerInv` says that as long as no join gave up its reporting threads
have ended before its client is closed. If one did give up, nothing is proved of the tracker's client,
because it may be connected again; that half of `StoppedMeansClosed` has the exception for it.

`KineticClientProofs` is about any number of commands, connections and slots and every set of
faults:

* `Typing`: the types, for any number of threads.
* `SlotsAlwaysMatch`, `ConnectsClean`, `AnswersFindTheirCommand`, `OneListenerAlive`:
  `SlotsMatchPending`, `CleanConnect`, `NoForeignAnswer` and `OneListener`, assuming `Alone`: one
  application thread, beside the listeners it starts.
* `ImplementsLedger`: every step of the client is a step of `CommandLedger` or a stutter, assuming
  `Sound`: any number of threads that issue commands or wait, one of which connects; no faults, no
  `close()`, no auto reconnect, as in `client_sound`.

The hypotheses are not there for the prover. Nothing locks `connect()` and `close()`: with two
threads that connect, or one that closes while another is inside a command, TLC violates the
properties (section 3). So the theorems say that one thread may use a client and reconnect it
whatever goes wrong, and that several may share one that one of them has connected, for as long as
nothing goes wrong; not that it may be shared in every other way.

For one thread, the invariant has a part for each table. `CommandsInv`: what the drive, `_pending`
and the thread hold was accepted. `ConnectionInv`: a live listener is the one that `close()` would
join, and while the client is not connected there is none, outside `close()`. `TableInv`: without
auto reconnect the numbers in use lie below the next one, and a closed client has forgotten its
commands and slots; within `close()` each statement adds its part of that. `LinkInv`: the listener
receives from the newest connection. `AnswersInv`: `NoForeignAnswer`, also for a command whose number is
drawn and not yet sent, and before the numbers start again no command is on the new connection at
all. `SlotsMatchPending` itself is inductive beside these: each statement moves a slot from one of the
places it counts to the next. For the refinement, `OpeningInv` says that until the client is connected
nothing is anywhere but the sign-on status, and afterwards it stays connected; `OwnersInv` that each
number at the drive or at a sender is its command's own, entries belong to different commands, and a
callback is called once; and `LedgerSlots` that each slot belongs to an open command, an answered one
still in `_pending`, or one just deleted, so that no more than `Depth` are open.

`ProxyServerProofs` proves `OnlyOwnReplies`, `CallbacksFind` and `InOnePlace` for any clients, keys
and depth. `PlaceInv` says that each client has at most one request or reply under way, anywhere,
and that it is the one it waits for, the request that the callback has popped and not yet inserted
included; it holds whatever collides. `KeyInv`, while the assumption of
`proxy_server.py:56` holds, says that each key is in the tables once and that whatever is at the
drive is recorded there, and there once.

`SearchPoolProofs` proves `UnfinishedIsExact`, `DrainedAtJoin`, `CountsAreConserved` and
`ReportIsComplete` for any number of workers and paths. `SearchInv` says that the sentinels are
the last entries of the queue and counts them (as many as were put, less the workers that took
one), so that an empty count at `q.join()` leaves no worker before its end. Cardinalities are
handled by the two sets of workers, those with a task in hand and those that have their sentinel.
`CountInv` says that each path is at one place, so that it is searched once, that whoever has read
the statistics holds the lock, and that the statistics and what the workers still have to add
make up what was searched. That needs three facts about `SumFunction`, whose definition is a
fold: that the recursive function in it exists and is unique (`SumExists`, `SumUnique`), that
changing one value changes the sum by the difference (`SumChange`), and that zeros add up to
zero. The library's induction theorems cannot be instantiated here; the three are proved for every
finite set by a smallest counterexample in the order of strict inclusion, which is well founded.

`SmartStorageSimProofs` proves `CapacityIsKept`, `TimeIsCharged` and `FramesOnlyIncrease`
(`CapacityKept`, `TimeCharged`, `FramesIncrease`) for any
clients, capacities, service times and `RUN_AHEAD`. The three actions that move a process are
shown to be one kind of step, `Shift`: at the earliest time scheduled, a process leaves the
resource it holds, if any, and claims the next one of its route, if any. All other steps are either
`Aside` (one client outside the simulation) or `Quiet`, and each invariant has one lemma per kind.

* `BaseInv`: the types; a process is scheduled, or queued at the resource of its stage, or not
  inside; only full resources have queues, which is how simpy's resources work.
* `OrderInv`: no process that entered in time is scheduled, or queued behind a holder that is
  scheduled, before what has been simulated. This is what the clock set back for a late request
  might break, and does not: at such a time only late processes are granted anything.
* `HoldInv`, for `CapacityKept`: of the intervals of requests in time, those that reach beyond
  what has been simulated belong to different holders of the resource. So at a time not simulated
  yet they are no more than the holders, by an injection, and at an earlier one a step adds none.
* `ChargeInv`, for `TimeCharged`: the stages behind a process have been charged by the time it is
  due, and for one that queues by the time any holder before it is due.
* `FrameInv`, for `FramesIncrease`: as long as nothing is started again, the decoder stands at
  a frame of the last video asked for and no later than the one asked for, or that request has
  yet to reach it.

Three models changed with the proofs. `NoForeignAnswer` was false with four commands, which the
attempt to prove it showed and TLC confirmed; it now says what the code keeps (section 3), and
`ClientAssumption` asks for at least one command. `SearchPool` sums with `SumFunction` of
`Functions`, since a sum over an operator argument is beyond the provers; its values are the same.
And `SimAssumption` says that the marker for "no video decoded yet" is not a path.

Model-checked only: all liveness properties (fairness and `ENABLED` are out of the prover's
reach), that is `SleepersWake`, `DrainReturns`, `CloseReturns`, `RequestsReturn`, `ClientsServed`,
`SearchEnds`, `Answered`, `StopReturns`, `RecoversOrDies` and the fairness of `LedgerSpec`. Every
safety property that a passing run checks is a theorem, under the hypotheses given above.

## 5 Fairness

Weak fairness for a thread's steps: the interpreter and the operating system run each thread that
can run. Weak fairness for `Release` (`QueueSemaphore`) and for the listener's steps
(`KineticClient`): a working drive answers what it was sent, and a `recv` on a dead socket fails. No
fairness for callers: nobody has to issue a command, connect, or close, and no fault has to happen.
Strong fairness twice: a drive does not put off its oldest command forever although the listener may
be busy with another answer again and again (`AppSlots`), and `popitem()`, which in CPython 2.7
moves a finger through the table, gets to every ready reply (`ProxyServer`, whose drive likewise
does not put off its oldest command). The simulator's loop polls without waiting and the wall clock
goes on (`SmartStorageSim`): weak fairness for both. In `BatchScript` each thread runs and the drive
answers; nobody has to press Ctrl-C and no drive has to fill up. In `DriveStateMonitor` only the
status listener, its manager and, from `accept()`, the main thread are assumed to go on; nothing is
assumed of reporters, storing threads or errors. A query connection may stay silent for ever, and
the main thread then stays in its `recv()`: `RecoversOrDies` states in its own hypothesis that none
does. No timeout of the client is assumed to fire.

## 6 Bounds

* `QueueSemaphore`: none but the sets of threads. Four threads on two slots are the least with
  two sleepers and two holders; the mixed instance has every pair of purposes on the list.
* `KineticClient`: `MaxCmd` (3 or 4) commands and `MaxConn` (1 or 2) connections; depth 2. One
  command more than the depth makes callers sleep, and the second connection uses sequence
  number 0 again. `AutoReconnects` = {0, 1} where there are faults. The case of a batched command that
  draws a leftover number takes four commands and is beyond `client_faults` (section 3).
* `AppSlots`: `MaxInFlight` = 2 bounds the requests queued or at the drive when another may be
  made, `MaxReported` = 1 the errors a client reports itself, `Frail` = {p1} the processes whose
  listener may die; each thread asks for a key of its own, so that a wrong answer shows.
* `ProxyServer`: no counters; three clients with one request each, three keys and two slots. Two
  clients may ask for the same key, and when they do not, the third key's request finds both slots
  taken: TLC reaches the blocked loop without `upset`.
* `SearchPool`: three paths (accepted, rejected, raising) and two sentinels through a queue of
  two, so that `put` blocks.
* `SmartStorageSim`: three requests (`MaxAsks`), made until `LastAsk`, on videos of two frames;
  `MaxClock` is late enough for all of them to be answered, as `Answered` shows. Each image and
  each frame skipped takes a tick per resource, a decoded frame no time on the bus. One client
  may fall behind while the other's request is simulated, so late requests and queues occur.

* `BatchScript`: `MaxBatch` = 2 batches sent in all, with `batch_queue` = 1, so that a worker
  waits, sends again and is stopped with a batch outstanding; `MaxMishaps` = 1 kind of mishap in a
  behaviour (the safety properties are proved for any); only worker w1 may outlive its join.
* `DriveStateMonitor`: `MaxStatus` = 2 statuses with 2 attempts each, so that four storing
  threads meet a history of two and overtake each other; `MaxWipes` = 1; the clock stops at
  `MaxTime` = 1, which separates starts within the window (0) from starts beyond it; errors
  cease after `MaxStarts` = 3 starts, when each kind of death and both ends have happened.

## 7 Where code and documents disagree

* `wait_q` may sleep on although enough commands have completed. `release()` notifies one
  sleeper; if two threads are in `wait_q(0)`, only one wakes (`sem_wait_q`). The client's
  README (51-52) and the method's documentation promise that it returns. The scripts can get
  there: `StartWaitStopClientAPI.stop()` calls `wait_q` while the activity threads of
  `OVS/Batches.py` and `OVS/Deletes.py` do.
* `queue_depth` is documented as the number of commands that can be outstanding
  (`client.py:124`). An EXPIRED report frees the slot of command 0 while the drive holds it
  (`client_expired`).
* `auto_reconnect_count`: the documentation of `_network_send` (446-448) says that after a
  socket error the client reconnects and sends the packet again. The code reconnects only
  before sending; a `socket.error` of the send is reported as NOT_ATTEMPTED (`SendError`).

More behaviours came up while modelling. The runs name them and leave them aside, by an exception in
a property or by a constant:

* Ctrl-C while `Batches` connects its clients or starts its workers: `stop()` finds nothing to
  stop, and the activity thread starts workers afterwards, which send batches although the
  script has reported that it stopped. With `EarlyStop = TRUE`, TLC finds
  `NothingSentAfterStop` violated.
* When the tracker's client never had a connection, `PerformanceTracker.stop()` raises (it
  joins a `Thread()` that was never started), `_stop_complete` is never set, and `wait()` goes
  on for its year ("untracked").
* `PerformanceTracker.stop()` is documented to "wait for the reporting loop thread to finish"
  (`PerformanceTracker.py:81`). It waits five seconds for each of two threads (84-87) and then closes
  the client, which a reporting thread may be about to use, or to connect again, for good
  ("unfinished"; without the exception TLC finds `StoppedMeansClosed` violated).
* With `batch_queue` 1, two threads in `Batches.stop()` and the worker's own can fill the queue of two
  (without the exception, and with `MaxMishaps` = 5, TLC finds `QueueNeverFull` violated).
* A query connection that sends nothing keeps `_listen` of the drive state monitor in a `recv()`
  without timeout (`DriveStateMonitor.py:65`; in Python 2.7 the socket that `accept()` returns does not
  inherit one). The kill switch is not looked at, so that a monitor whose manager has given up stays
  alive without a status listener, although lines 18-19 say that "the DSM will die" (without its
  hypothesis TLC finds `RecoversOrDies` violated).
* `connect()` called by two threads at once starts two listeners and restarts the numbers in use
  (`client.py:238` to 277); with `use_ssl`, a timeout raises `ssl.SSLError`, whose handler (626) looks
  for no overdue commands, so that none ever expires.
* The check of the managers compares start times with one another, not with the time of the
  death. A listener that started `WORKER_RECOVERY_COUNT` times early on and then ran for a
  month ends the process with its next death.

## 8 What is not modelled

In `KineticClient`: `implicit_flush` (off in every use here), and changes of `queue_depth` during
a connection (the semaphore's module has them); interleaved packets of two senders; exceptions
raised by a delegate inside an error report. Of `ShenziClient`: `connect` and `blocking_cmd`. Of
the scripts: all but `OVS/Batches.py`. Of the drive state monitor: the multicast table and the
answers to queries. The choice of paths and the database rows of the search driver. The FUSE
file system (it forwards each call), the disk and CPU emulators (arithmetic on wall-clock time),
the image filters (pure), the generated protocol buffers, notebooks and database migrations.

Most of the repository's lines are of the last kinds: notebooks with their outputs and generated
code alone are more than two thirds of them, and they hold no state or control to model. The
share of all lines that the definitions stand for is small for that reason; of the components in
section 1 that are modelled it is most of the code that changes shared state.

The key generators' order has a carry (`KeyGenerator.py:245`) and the video window a frame count
(`video_search.py:208`) that are worth checking against reference definitions; neither is
modelled.

## 9 The plan

Done: the semaphore with its proofs, the client with batched commands, the two servers, the
pool, the storage simulator, the OVS script with its tracker, the drive state monitor, and the
theorems of section 4.

1. Proofs: the safety properties the runs check are proved. Open are a refinement of an abstract
   table of requests by `AppSlots` and `ProxyServer`, and `SlotsMatchPending` for several issuing
   threads beside one that closes when the others are done.
2. `blocking_cmd` and `implicit_flush` on `KineticClient`; the quorum of `OVS/Simulation.py`.
3. Pure functions: the key generators against the order of keys; the video window.
