-------------------------- MODULE DriveStateMonitor --------------------------
(***************************************************************************)
(* The Drive State Monitor (shenzi/DriveStateMonitor): the status listener *)
(* and the threads that store what it hears about one drive, the managers  *)
(* that restart the two listeners when they die, and the scripts that      *)
(* report a status until it is acknowledged (ShenziClient.status_dsm).     *)
(* The drives share the listener and the lock and nothing else.            *)
(***************************************************************************)
EXTENDS Integers, Sequences

CONSTANTS
  Reporter,       \* the threads that report on the drive, each its own statuses in turn
  MaxStatus,      \* bound: statuses of each reporter
  Attempts,       \* DSM_STATUS_ATTEMPT_MAX
  Limit,          \* STATUS_ENTRY_LIMIT
  RecoveryCount,  \* WORKER_RECOVERY_COUNT
  Window,         \* WORKER_RECOVERY_TIMOUT
  MaxTime,        \* bound: the clock
  MaxWipes,       \* bound: wipe commands
  MaxStarts       \* bound: starts of listeners after which no error occurs any more

ASSUME MonitorAssumption ==
  /\ MaxStatus \in Nat /\ Attempts \in Nat /\ Limit \in Nat \ {0}
  /\ RecoveryCount \in Nat \ {0, 1} /\ Window \in Nat
  /\ MaxTime \in Nat /\ MaxWipes \in Nat /\ MaxStarts \in Nat

Status == Reporter \X (1 .. MaxStatus)
Worker == {"Multicast", "ScriptStatus"}

VARIABLES
  rep,      \* what each reporter sends: [number, tries, waiting]
  told,     \* history: statuses whose sender received the acknowledgement
  open,     \* does the listener object hold a listening socket
  backlog,  \* connections nobody accepted, each with its status in its buffer
  serving,  \* the connection being acknowledged
  threads,  \* how many storing threads of each status wait for _data_lock
  storing,  \* the statuses whose thread holds _data_lock (at most one)
  data,     \* the entries kept for the drive
  stored,   \* history: the entries appended since the last wipe
  copies,   \* history: how often each status was ever stored
  wipes,    \* history: how many wipe commands there were
  task,     \* what the task thread of each worker does
  card,     \* its time card
  now,      \* the clock when it was last read
  switch,   \* _kill_switch
  querying, \* is _listen in recv on a connection it accepted (else in accept)
  running   \* is the process alive

repVars == <<rep, told>>
storeVars == <<threads, storing, data, stored, copies, wipes>>
workVars == <<task, card>>
vars == <<repVars, open, backlog, serving, storeVars, workVars, now, switch, querying, running>>

Init ==
  /\ rep = [r \in Reporter |-> [number |-> 1, tries |-> 0, waiting |-> FALSE]]
  /\ told = {}
  /\ open = FALSE /\ backlog = <<>> /\ serving = <<>>
  /\ threads = [m \in Status |-> 0] /\ storing = {}
  /\ data = <<>> /\ stored = <<>> /\ copies = [m \in Status |-> 0] /\ wipes = 0
  /\ task = [w \in Worker |-> "dead"]
  /\ card = [w \in Worker |-> <<>>]
  /\ now = 0 /\ switch = FALSE /\ querying = FALSE /\ running = TRUE

-----------------------------------------------------------------------------
(* communicate_with_dsm: up to Attempts connections for one status.  A      *)
(* connection is <<reporter, number, try>>.                                 *)

Current(r) == <<r, rep[r].number, rep[r].tries>>
Sending(r) == rep[r].number <= MaxStatus /\ ~rep[r].waiting
NextStatus(r) == [number |-> rep[r].number + 1, tries |-> 0, waiting |-> FALSE]

(* The kernel accepts a connection as long as the socket is held, also for  *)
(* a listener that died.                                                    *)
Connect(r) ==
  /\ Sending(r) /\ rep[r].tries < Attempts
  /\ rep' = [rep EXCEPT ![r].tries = @ + 1, ![r].waiting = open]
  /\ backlog' = IF open THEN Append(backlog, Current(r)') ELSE backlog
  /\ UNCHANGED <<told, open, serving, storeVars, workVars, now, switch, querying, running>>

(* The socket times out, or is reset, before the acknowledgement arrives.   *)
NoAnswer(r) ==
  /\ rep[r].waiting
  /\ rep' = [rep EXCEPT ![r].waiting = FALSE]
  /\ UNCHANGED <<told, open, backlog, serving, storeVars, workVars, now, switch, querying, running>>

GiveUp(r) ==
  /\ Sending(r) /\ rep[r].tries = Attempts
  /\ rep' = [rep EXCEPT ![r] = NextStatus(r)]
  /\ UNCHANGED <<told, open, backlog, serving, storeVars, workVars, now, switch, querying, running>>

-----------------------------------------------------------------------------
(* StatusListener.listen.  A new socket is bound while self._socket still   *)
(* holds the one of a listener that died: that bind fails, and only then is *)
(* the old socket dropped, with the connections in its backlog.             *)

At(label) == running /\ task["ScriptStatus"] = label
Do(label) == task' = [task EXCEPT !["ScriptStatus"] = label]

Bind ==
  /\ At("bind")
  /\ open' = ~open /\ backlog' = <<>>
  /\ Do(IF open THEN "dead" ELSE "accept")
  /\ UNCHANGED <<repVars, serving, storeVars, card, now, switch, querying, running>>

\* mutant: the message is stored only after the acknowledgement was sent
AcceptUnstored ==
  /\ At("accept") /\ backlog # <<>>
  /\ backlog' = Tail(backlog)
  /\ serving' = Head(backlog)
  /\ Do("ack")
  /\ UNCHANGED <<repVars, open, storeVars, card, now, switch, querying, running>>

(* The storing thread is started before the acknowledgement is sent; a      *)
(* message that is no JSON gets neither.                                    *)
Accept ==
  /\ At("accept") /\ backlog # <<>>
  /\ backlog' = Tail(backlog)
  /\ LET conn == Head(backlog)
     IN \/ UNCHANGED <<serving, threads, task>>
        \/ /\ serving' = conn
           /\ threads' = [threads EXCEPT ![<<conn[1], conn[2]>>] = @ + 1]
           /\ Do("ack")
  /\ UNCHANGED <<repVars, open, storing, data, stored, copies, wipes, card, now, switch, querying, running>>

(* The reporter gets the acknowledgement if it still waits on this          *)
(* connection.                                                              *)
SendAck ==
  /\ At("ack")
  /\ LET r == serving[1] IN
     IF rep[r].waiting /\ Current(r) = serving
     THEN /\ told' = told \cup {<<r, serving[2]>>}
          /\ rep' = [rep EXCEPT ![r] = NextStatus(r)]
     ELSE UNCHANGED repVars
  /\ serving' = <<>>
  /\ Do("accept")
  /\ UNCHANGED <<open, backlog, storeVars, card, now, switch, querying, running>>

ErrorsLeft == Len(card["Multicast"]) + Len(card["ScriptStatus"]) <= MaxStarts

(* A socket error in accept, recv or sendall ends the thread; the listening *)
(* socket stays open.                                                       *)
SocketError ==
  /\ ErrorsLeft /\ (At("accept") \/ At("ack"))
  /\ serving' = <<>>
  /\ Do("dead")
  /\ UNCHANGED <<repVars, open, backlog, storeVars, card, now, switch, querying, running>>

-----------------------------------------------------------------------------
(* _store_data, with _data_lock held from StoreTrim to StoreAppend; between *)
(* the two, a query may serialise the dictionary, which get_data returns.   *)

Newest(n) == IF Len(data) <= n THEN data ELSE SubSeq(data, Len(data) - n + 1, Len(data))

\* mutant: the oldest entry goes only when there are more than Limit
StoreTrimLate(m) ==
  /\ running /\ threads[m] > 0 /\ storing = {}
  /\ threads' = [threads EXCEPT ![m] = @ - 1]
  /\ storing' = {m}
  /\ data' = Newest(Limit)
  /\ UNCHANGED <<repVars, open, backlog, serving, stored, copies, wipes, workVars, now, switch, querying, running>>

StoreTrim(m) ==
  /\ running /\ threads[m] > 0 /\ storing = {}
  /\ threads' = [threads EXCEPT ![m] = @ - 1]
  /\ storing' = {m}
  /\ data' = Newest(Limit - 1)
  /\ UNCHANGED <<repVars, open, backlog, serving, stored, copies, wipes, workVars, now, switch, querying, running>>

StoreAppend(m) ==
  /\ running /\ storing = {m}
  /\ data' = Append(data, m)
  /\ stored' = Append(stored, m) /\ copies' = [copies EXCEPT ![m] = @ + 1]
  /\ storing' = {}
  /\ UNCHANGED <<repVars, open, backlog, serving, threads, wipes, workVars, now, switch, querying, running>>

(* The query "w".                                                           *)
Wipe ==
  /\ running /\ storing = {} /\ wipes < MaxWipes
  /\ data' = <<>> /\ stored' = <<>>
  /\ wipes' = wipes + 1
  /\ UNCHANGED <<repVars, open, backlog, serving, threads, storing, copies, workVars, now, switch, querying, running>>

-----------------------------------------------------------------------------
(* _manage, one manager per worker, and _listen, which ends the process.    *)

(* time_card[-1] - time_card[-WORKER_RECOVERY_COUNT] <= WORKER_RECOVERY_TIMOUT *)
Exceeded(w) ==
  LET n == Len(card[w])
  IN n >= RecoveryCount /\ card[w][n] - card[w][n - RecoveryCount + 1] <= Window

(* The clock is read here and nowhere else: it is brought forward here.      *)
Stamp(w) ==
  \E t \in now .. MaxTime : now' = t /\ card' = [card EXCEPT ![w] = Append(@, t)]

\* mutant: the worker is started first and the time card looked at afterwards
HireAnyway(w) ==
  /\ running /\ task[w] = "dead"
  /\ task' = [task EXCEPT ![w] = IF w = "Multicast" THEN "recv" ELSE "bind"]
  /\ Stamp(w)
  /\ UNCHANGED <<repVars, open, backlog, serving, storeVars, switch, querying, running>>

(* One round of the manager: what it does once the task has ended.          *)
Hire(w) ==
  /\ running /\ task[w] = "dead" /\ ~Exceeded(w)
  /\ task' = [task EXCEPT ![w] = IF w = "Multicast" THEN "recv" ELSE "bind"]
  /\ Stamp(w)
  /\ UNCHANGED <<repVars, open, backlog, serving, storeVars, switch, querying, running>>

\* mutant: a manager that gives up does not say so
GiveUpSilently(w) ==
  /\ running /\ task[w] = "dead" /\ Exceeded(w)
  /\ UNCHANGED vars

Resign(w) ==
  /\ running /\ task[w] = "dead" /\ Exceeded(w)
  /\ switch' = TRUE
  /\ UNCHANGED <<repVars, open, backlog, serving, storeVars, workVars, now, querying, running>>

MulticastFails ==
  /\ ErrorsLeft /\ running /\ task["Multicast"] = "recv"
  /\ task' = [task EXCEPT !["Multicast"] = "dead"]
  /\ UNCHANGED <<repVars, open, backlog, serving, storeVars, card, now, switch, querying, running>>

(* _listen takes a query connection and waits for its query, for which no   *)
(* timeout is set.                                                          *)
AcceptQuery ==
  /\ running /\ ~querying
  /\ querying' = TRUE
  /\ UNCHANGED <<repVars, open, backlog, serving, storeVars, workVars, now, switch, running>>

(* The query arrives and a thread of its own answers it.                    *)
QueryArrives ==
  /\ running /\ querying /\ ~switch
  /\ querying' = FALSE
  /\ UNCHANGED <<repVars, open, backlog, serving, storeVars, workVars, now, switch, running>>

(* The process ends with its daemon threads and its sockets.                *)
Gone ==
  /\ running' = FALSE
  /\ open' = FALSE /\ backlog' = <<>> /\ querying' = FALSE
  /\ UNCHANGED <<repVars, serving, storeVars, workVars, now, switch>>

Exit == running /\ switch /\ ~querying /\ Gone

LastQueryArrives == running /\ switch /\ querying /\ Gone

(* An error on the query socket, or Ctrl-C.                                 *)
Killed == running /\ ErrorsLeft /\ Gone

-----------------------------------------------------------------------------
Report(r) == Connect(r) \/ NoAnswer(r) \/ GiveUp(r)
Listen == Bind \/ Accept \/ SendAck
Store(m) == StoreTrim(m) \/ StoreAppend(m)
Manage(w) == Hire(w) \/ Resign(w)
MainThread == AcceptQuery \/ QueryArrives \/ LastQueryArrives \/ Exit \/ Killed

Next ==
  \/ \E r \in Reporter : Report(r)
  \/ Listen \/ SocketError \/ MulticastFails \/ Wipe
  \/ \E m \in Status : Store(m)
  \/ \E w \in Worker : Manage(w)
  \/ MainThread

Spec == Init /\ [][Next]_vars

(* The status listener, its manager and _listen run when they can; nothing  *)
(* is assumed of the scripts, the storing threads, errors, nor of who opens *)
(* a query connection, which may stay silent forever.                       *)
Fairness == WF_vars(Listen) /\ WF_vars(Exit) /\ WF_vars(Manage("ScriptStatus"))

FairSpec == Spec /\ Fairness
-----------------------------------------------------------------------------
Held(m) == copies[m] + threads[m] + (IF m \in storing THEN 1 ELSE 0)

(* What a query shows is always the newest entries stored since the last    *)
(* wipe, whatever storing thread is at work: never more than the limit, and *)
(* at most one fewer than there could be.                                   *)
StatusHistory ==
  LET n == Len(data)
  IN /\ n <= Limit /\ n >= (IF Len(stored) < Limit THEN Len(stored) ELSE Limit - 1)
     /\ data = SubSeq(stored, Len(stored) - n + 1, Len(stored))

(* General.py:33, StatusListener.py:57: a status whose sender was told that *)
(* it arrived is stored or about to be, also if the listener died since;    *)
(* the retries of a status that was stored though its acknowledgement was   *)
(* lost store it again, at most once per attempt.                           *)
ToldIsStored ==
  \A m \in Status : Held(m) <= Attempts /\ (m \in told => Held(m) > 0)

(* DriveStateMonitor.py:18, "A worker won't be recovered more than          *)
(* (WORKER_RECOVERY_COUNT) times within (WORKER_RECOVERY_TIMOUT) seconds":  *)
(* on no time card do a start and the WORKER_RECOVERY_COUNT recoveries that *)
(* follow it lie within the window.                                         *)
RecoveryBounded ==
  \A w \in Worker : \A i \in 1 .. Len(card[w]) - RecoveryCount :
    card[w][i + RecoveryCount] - card[w][i] > Window

(* A status listener that died listens again, or the whole process ends: a  *)
(* failed bind, dead connections or a manager that gives up never leave it  *)
(* deaf and alive, unless a query connection stays silent forever.          *)
RecoversOrDies ==
  []<>(~querying) =>
    ((task["ScriptStatus"] = "dead") ~> (task["ScriptStatus"] = "accept" \/ ~running))
==============================================================================
