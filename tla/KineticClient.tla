---------------------------- MODULE KineticClient ----------------------------
(***************************************************************************)
(* kv_client.Client: application threads that issue commands, drain the    *)
(* queue, connect and close; the listener thread of each connection; the   *)
(* table _pending that ties an answer to its callback; the queue semaphore *)
(* (QueueSemaphore, here with a fixed depth); and the socket with the      *)
(* drive at its other end.  Nothing in the client but its semaphore is     *)
(* locked: a step is one statement on the state that the threads share.    *)
(***************************************************************************)
EXTENDS PyCondition, FiniteSets

CONSTANTS
  Issuers, Drainers, Openers, Closers,  \* who calls commands, wait_q, connect, close
  Depth,           \* queue_depth
  Batching,        \* may commands carry the batch_flag (create_batch_operation, Batch)
  AutoReconnects,  \* values of auto_reconnect_count, one of which a client is given
  Faults,          \* what may go wrong, of AllFaults
  MaxCmd,          \* bound: commands issued
  MaxConn          \* bound: connections established

AllFaults == {"drop",    \* the peer or the network ends the connection
              "refuse",  \* socket.connect fails
              "sign_on", \* the unsolicited status does not come or is no status
              "expire",  \* socket_timeout passes without an answer
              "ssl",     \* a receive on a TLS socket ends in ssl.SSLError
              "garbled", \* an answer fails its HMAC check, or raises ValueError
              "raise"}   \* a user callback raises an exception

ASSUME ClientAssumption ==
  /\ Depth \in Nat \ {0} /\ Batching \in BOOLEAN
  /\ AutoReconnects \subseteq Nat
  /\ Faults \subseteq AllFaults
  /\ MaxCmd \in Nat \ {0} /\ MaxConn \in Nat
  /\ IsFiniteSet(Issuers \cup Drainers \cup Openers \cup Closers)

Caller == Issuers \cup Drainers \cup Openers \cup Closers
Cmd == 1 .. MaxCmd
Conn == 1 .. MaxConn
Seqno == 0 .. MaxCmd - 1
None == 0          \* no command, no connection, or no thread

VARIABLES
  autoReconnect,   \* auto_reconnect_count, never changed
  connected,       \* the Event _connected
  sock,            \* _socket: "new" (not connected), "open", "closed"
  conn,            \* connections established so far; an open _socket is the last
  up,              \* the connections that neither side has ended
  drive,           \* [conn, seq, cmd] the drive holds or whose answer is in flight;
                   \* cmd is None in the unsolicited status of a new connection
  nextSeq,         \* _sequence
  pending,         \* _pending: the command whose callback is kept under a sequence
  outstanding, waiters,         \* _queue_semaphore
  pc, cur, curSeq, tries,       \* per caller: where it is, its command, its sequence
                                \* number, its reconnect attempts
  after, joined,                \* per caller: where it goes on after a callback that it
                                \* runs itself, the thread that it joins
  lpc, lconn,                   \* per listener thread: where it is, the connection it
                                \* blocks on
  lseq, lnext,                  \* the number it handles, where it goes on after it
  handle,          \* _listening_thread: whose thread, None for a fresh Thread()
  ledger           \* history: the commands accepted, answered, failed, batched

socketVars == <<sock, conn, up, drive>>
netVars == <<autoReconnect, connected, socketVars>>
tableVars == <<nextSeq, pending>>
semVars == <<outstanding, waiters>>
opVars == <<cur, curSeq, tries>>
callerVars == <<pc, opVars, after, joined>>
listenerVars == <<lpc, lconn, lseq, lnext, handle>>
vars == <<netVars, tableVars, semVars, callerVars, listenerVars, ledger>>

Awake(t) == ~Asleep(waiters, t)
Alive(l) == lpc[l] \in {"loop", "recv", "callback", "release"}
Pending == {s \in Seqno : pending[s] # None}
Idle(t) == pc[t] = "idle"
Goto(t, label) == pc' = [pc EXCEPT ![t] = label]
LGoto(l, label) == lpc' = [lpc EXCEPT ![l] = label]
Batched(c) == ledger[c] = "batched"
Issued == {c \in Cmd : ledger[c] # "new" \/ \E t \in Caller : cur[t] = c}
Release == /\ outstanding' = IF outstanding > 0 THEN outstanding - 1 ELSE 0
           /\ waiters' = IF outstanding > 0 THEN Notify(waiters) ELSE waiters
Linked == sock = "open" /\ conn \in up
SignOn(c) == [conn |-> c, seq |-> 0, cmd |-> None]
On(c) == {r \in drive : r.conn = c}
(* The unsolicited status is the first message; answers come in any order.  *)
Arrived(c) == IF SignOn(c) \in drive THEN {SignOn(c)} ELSE On(c)

Init ==
  /\ autoReconnect \in AutoReconnects
  /\ connected = FALSE /\ sock = "new" /\ conn = 0 /\ up = {} /\ drive = {}
  /\ nextSeq = 0 /\ pending = [s \in Seqno |-> None]
  /\ outstanding = 0 /\ waiters = <<>>
  /\ pc = [t \in Caller |-> "idle"]
  /\ cur = [t \in Caller |-> None] /\ curSeq = [t \in Caller |-> 0]
  /\ tries = [t \in Caller |-> 0]
  /\ after = [t \in Caller |-> "idle"] /\ joined = [t \in Caller |-> None]
  /\ lpc = [l \in Conn |-> "unborn"] /\ lconn = [l \in Conn |-> None]
  /\ lseq = [l \in Conn |-> 0] /\ lnext = [l \in Conn |-> "loop"]
  /\ handle = None
  /\ ledger = [c \in Cmd |-> "new"]

-----------------------------------------------------------------------------
(* _on_response: the test of _pending and the call of the callback, the del *)
(* and the release are three steps.  Errors that the client reports itself  *)
(* (_client_error_callback) and the drive's unsolicited status carry        *)
(* ackSequence 0, so they complete command 0 when it is pending; otherwise  *)
(* callback_delegate gets them.  This one is run by an application thread.  *)
Report(t, label) ==
  IF pending[0] # None
  THEN /\ ledger' = [ledger EXCEPT ![pending[0]] = "failed"]
       /\ after' = [after EXCEPT ![t] = label]
       /\ Goto(t, "callback")
  ELSE Goto(t, label) /\ UNCHANGED <<after, ledger>>

(* Where connect() returns to.                                              *)
Connecting(t) == IF cur[t] = None THEN "idle" ELSE "reconnect"

(* An exception leaves the command, or connect(); what it holds stays taken. *)
Abandon(t) ==
  /\ Goto(t, "idle")
  /\ cur' = [cur EXCEPT ![t] = None]
  /\ tries' = [tries EXCEPT ![t] = 0]
  /\ UNCHANGED <<curSeq, after, joined>>

(* del _pending[0], which raises KeyError if another thread was faster.     *)
ReportDeletes(t) ==
  /\ pc[t] = "callback"
  /\ IF pending[0] # None
     THEN /\ pending' = [pending EXCEPT ![0] = None]
          /\ Goto(t, "release")
          /\ UNCHANGED <<opVars, after, joined>>
     ELSE Abandon(t) /\ UNCHANGED pending
  /\ UNCHANGED <<netVars, nextSeq, semVars, listenerVars, ledger>>

ReportReleases(t) ==
  /\ pc[t] = "release"
  /\ Release
  /\ Goto(t, after[t])
  /\ UNCHANGED <<netVars, tableVars, opVars, after, joined, listenerVars, ledger>>

(* What the callback raises goes on, but a ValueError on the sign-on status *)
(* is reported in its turn.                                                 *)
ReportRaises(t) ==
  /\ "raise" \in Faults
  /\ pc[t] = "callback"
  /\ \/ Abandon(t) /\ UNCHANGED ledger
     \/ after[t] = "renumber" /\ Report(t, Connecting(t)) /\ UNCHANGED <<opVars, joined>>
  /\ UNCHANGED <<netVars, tableVars, semVars, listenerVars>>

-----------------------------------------------------------------------------
(* connect(), by itself or from the reconnect loop of a command.            *)

Connect(t) ==
  /\ Idle(t) /\ ~connected
  /\ Goto(t, "socket")
  /\ UNCHANGED <<netVars, tableVars, semVars, opVars, after, joined, listenerVars, ledger>>

NewSocket(t) ==
  /\ pc[t] = "socket"
  /\ sock' = "new"
  /\ Goto(t, "connect")
  /\ UNCHANGED <<autoReconnect, connected, conn, up, drive, tableVars, semVars, opVars, after, joined,
                 listenerVars, ledger>>

Established(t) ==
  /\ pc[t] = "connect" /\ sock = "new" /\ conn < MaxConn
  /\ sock' = "open"
  /\ conn' = conn + 1
  /\ up' = up \cup {conn'}
  /\ drive' = drive \cup {SignOn(conn')}
  /\ Goto(t, "sign_on")
  /\ UNCHANGED <<autoReconnect, connected, tableVars, semVars, opVars, after, joined, listenerVars, ledger>>

(* socket.connect fails, also if another thread has connected or closed the *)
(* socket: REMOTE_CONNECTION_ERROR.                                         *)
Refused(t) ==
  /\ pc[t] = "connect"
  /\ "refuse" \in Faults \/ sock # "new"
  /\ Report(t, Connecting(t))
  /\ UNCHANGED <<netVars, tableVars, semVars, opVars, joined, listenerVars>>

SignedOn(t) ==
  /\ pc[t] = "sign_on" /\ Linked
  /\ \E r \in Arrived(conn) : drive' = drive \ {r}
  /\ Report(t, "renumber")
  /\ UNCHANGED <<autoReconnect, connected, sock, conn, up, tableVars, semVars, opVars, joined, listenerVars>>

(* A message that is no status: AttributeError or ValueError is reported.   *)
(* connect() returns with the socket open.                                  *)
SignOnRefused(t) ==
  /\ "sign_on" \in Faults
  /\ pc[t] = "sign_on" /\ Linked
  /\ \E r \in Arrived(conn) : drive' = drive \ {r}
  /\ Report(t, Connecting(t))
  /\ UNCHANGED <<autoReconnect, connected, sock, conn, up, tableVars, semVars, opVars, joined, listenerVars>>

(* socket.error, or no status within connect_timeout: connect() does not    *)
(* catch it, and it ends the command, whose slot stays taken.               *)
SignOnFails(t) ==
  /\ pc[t] = "sign_on"
  /\ "sign_on" \in Faults \/ ~Linked \/ On(conn) = {}
  /\ Abandon(t)
  /\ UNCHANGED <<netVars, tableVars, semVars, listenerVars, ledger>>

Renumber(t) ==
  /\ pc[t] = "renumber"
  /\ nextSeq' = 0
  /\ Goto(t, "thread")
  /\ UNCHANGED <<netVars, pending, semVars, opVars, after, joined, listenerVars, ledger>>

NewThread(t) ==
  /\ pc[t] = "thread"
  /\ \E l \in Conn : /\ lpc[l] = "unborn" /\ \A k \in Conn : lpc[k] = "unborn" => l <= k
                     /\ handle' = l
  /\ Goto(t, "set")
  /\ UNCHANGED <<netVars, tableVars, semVars, opVars, after, joined, lpc, lconn, lseq, lnext, ledger>>

SetConnected(t) ==
  /\ pc[t] = "set"
  /\ connected' = TRUE
  /\ Goto(t, "start")
  /\ UNCHANGED <<autoReconnect, socketVars, tableVars, semVars, opVars, after, joined, listenerVars, ledger>>

(* start() of a thread that another one has started raises RuntimeError.    *)
StartListener(t) ==
  /\ pc[t] = "start"
  /\ IF handle # None /\ lpc[handle] # "unborn"
     THEN Abandon(t) /\ UNCHANGED lpc
     ELSE /\ Goto(t, Connecting(t))
          /\ lpc' = [l \in Conn |-> IF l = handle THEN "loop" ELSE lpc[l]]
          /\ UNCHANGED <<opVars, after, joined>>
  /\ UNCHANGED <<netVars, tableVars, semVars, lconn, lseq, lnext, handle, ledger>>

ConnectStep(t) ==
  \/ NewSocket(t) \/ Established(t) \/ Refused(t)
  \/ SignedOn(t) \/ SignOnRefused(t) \/ SignOnFails(t)
  \/ Renumber(t) \/ NewThread(t) \/ SetConnected(t) \/ StartListener(t)

-----------------------------------------------------------------------------
(* A command (proto_operation, pin_operation, _command_decorator).          *)

(* Not connected and no auto reconnect: NOT_ATTEMPTED, nothing is issued.   *)
IssueRefused(t) ==
  /\ Idle(t) /\ ~connected /\ autoReconnect = 0
  /\ Report(t, "idle")
  /\ UNCHANGED <<netVars, tableVars, semVars, opVars, joined, listenerVars>>

Begin(t) ==
  /\ Idle(t)
  /\ connected \/ autoReconnect > 0
  /\ \E c \in Cmd \ Issued :
       /\ \A d \in Cmd \ Issued : c <= d
       /\ cur' = [cur EXCEPT ![t] = c]
  /\ UNCHANGED <<netVars, tableVars, semVars, curSeq, tries, after, joined, listenerVars>>

Issue(t) == Begin(t) /\ Goto(t, "acquire") /\ UNCHANGED ledger

(* A command with batch_flag takes no slot.                                 *)
IssueBatched(t) ==
  /\ Batching
  /\ Begin(t)
  /\ ledger' = [ledger EXCEPT ![cur'[t]] = "batched"]
  /\ Goto(t, "reconnect")

AcquireSleep(t) ==
  /\ pc[t] = "acquire" /\ Awake(t)
  /\ outstanding >= Depth
  /\ waiters' = Wait(waiters, t)
  /\ UNCHANGED <<netVars, tableVars, outstanding, callerVars, listenerVars, ledger>>

AcquireTake(t) ==
  /\ pc[t] = "acquire" /\ Awake(t)
  /\ outstanding < Depth
  /\ outstanding' = outstanding + 1
  /\ ledger' = [ledger EXCEPT ![cur[t]] = "open"]
  /\ Goto(t, "reconnect")
  /\ UNCHANGED <<netVars, tableVars, waiters, opVars, after, joined, listenerVars>>

(* The reconnect loop at the head of _network_send.                         *)
Reconnect(t) ==
  /\ pc[t] = "reconnect" /\ ~connected /\ tries[t] < autoReconnect
  /\ tries' = [tries EXCEPT ![t] = @ + 1]
  /\ Goto(t, "socket")
  /\ UNCHANGED <<netVars, tableVars, semVars, cur, curSeq, after, joined, listenerVars, ledger>>

(* Still not connected: NOT_ATTEMPTED is reported, and the operation goes on. *)
LeaveReconnect(t) ==
  /\ pc[t] = "reconnect"
  /\ connected \/ tries[t] >= autoReconnect
  /\ IF connected THEN Goto(t, "register") /\ UNCHANGED <<after, ledger>> ELSE Report(t, "register")
  /\ UNCHANGED <<netVars, tableVars, semVars, opVars, joined, listenerVars>>

\* mutant: sequence numbers are taken from the size of _pending
RegisterBySize(t) ==
  /\ pc[t] = "register"
  /\ LET s == Cardinality(Pending) IN
     /\ pending' = [pending EXCEPT ![s] = cur[t]]
     /\ curSeq' = [curSeq EXCEPT ![t] = s]
  /\ Goto(t, "send")
  /\ UNCHANGED <<netVars, nextSeq, semVars, cur, tries, after, joined, listenerVars, ledger>>

(* _update_header: every command draws a number, only those that took a     *)
(* slot are entered in _pending.                                            *)
Register(t) ==
  /\ pc[t] = "register"
  /\ nextSeq \in Seqno
  /\ pending' = IF Batched(cur[t]) THEN pending ELSE [pending EXCEPT ![nextSeq] = cur[t]]
  /\ curSeq' = [curSeq EXCEPT ![t] = nextSeq]
  /\ nextSeq' = nextSeq + 1
  /\ Goto(t, "send")
  /\ UNCHANGED <<netVars, semVars, cur, tries, after, joined, listenerVars, ledger>>

SendReturns(t) ==
  /\ cur' = [cur EXCEPT ![t] = None]
  /\ tries' = [tries EXCEPT ![t] = 0]
  /\ UNCHANGED <<autoReconnect, connected, sock, conn, up, tableVars, semVars, curSeq, joined, listenerVars>>

(* _packet_send: the drive gets the command, or a broken connection loses   *)
(* it.  What belongs to a batch the drive need not answer.                  *)
Send(t) ==
  /\ pc[t] = "send" /\ sock = "open"
  /\ \/ /\ conn \in up
        /\ drive' = drive \cup {[conn |-> conn, seq |-> curSeq[t], cmd |-> cur[t]]}
     \/ /\ conn \notin up \/ Batched(cur[t])
        /\ drive' = drive
  /\ Goto(t, "idle")
  /\ SendReturns(t)
  /\ UNCHANGED <<after, ledger>>

(* socket.error: NOT_ATTEMPTED; the slot and the entry in _pending stay.    *)
SendError(t) ==
  /\ pc[t] = "send" /\ ~Linked
  /\ Report(t, "idle")
  /\ SendReturns(t)
  /\ UNCHANGED drive

CommandStep(t) ==
  \/ AcquireSleep(t) \/ AcquireTake(t) \/ Reconnect(t) \/ LeaveReconnect(t)
  \/ Register(t) \/ Send(t) \/ SendError(t)

-----------------------------------------------------------------------------
(* wait_q(0), with the year-long timeout left out.                          *)
WaitQCall(t) ==
  /\ Idle(t)
  /\ Goto(t, "wait_q")
  /\ UNCHANGED <<netVars, tableVars, semVars, opVars, after, joined, listenerVars, ledger>>

WaitQSleep(t) ==
  /\ pc[t] = "wait_q" /\ Awake(t) /\ outstanding > 0
  /\ waiters' = Wait(waiters, t)
  /\ UNCHANGED <<netVars, tableVars, outstanding, callerVars, listenerVars, ledger>>

WaitQTrue(t) ==
  /\ pc[t] = "wait_q" /\ Awake(t) /\ outstanding = 0
  /\ Goto(t, "idle")
  /\ UNCHANGED <<netVars, tableVars, semVars, opVars, after, joined, listenerVars, ledger>>

-----------------------------------------------------------------------------
(* close() *)
Close(t) ==
  /\ Idle(t)
  /\ connected' = FALSE
  /\ Goto(t, "shutdown")
  /\ UNCHANGED <<autoReconnect, socketVars, tableVars, semVars, opVars, after, joined, listenerVars, ledger>>

(* shutdown() of a socket that is not connected raises, and skips close();  *)
(* that of a broken connection may.                                         *)
Shutdown(t) ==
  /\ pc[t] = "shutdown"
  /\ \/ Linked /\ sock' = "closed"
     \/ sock = "open" /\ conn \notin up /\ sock' \in {"open", "closed"}
     \/ sock # "open" /\ sock' = sock
  /\ up' = IF sock = "open" THEN up \ {conn} ELSE up
  /\ drive' = IF sock = "open" THEN drive \ On(conn) ELSE drive
  /\ Goto(t, "wipe")
  /\ UNCHANGED <<autoReconnect, connected, conn, tableVars, semVars, opVars, after, joined, listenerVars, ledger>>

\* mutant: close() keeps the pending commands
WipeForgotten(t) ==
  /\ pc[t] = "wipe"
  /\ Goto(t, "clear")
  /\ UNCHANGED <<netVars, tableVars, semVars, opVars, after, joined, listenerVars, ledger>>

(* _pending = dict() *)
Wipe(t) ==
  /\ pc[t] = "wipe"
  /\ pending' = [s \in Seqno |-> None]
  /\ Goto(t, "clear")
  /\ UNCHANGED <<netVars, nextSeq, semVars, opVars, after, joined, listenerVars, ledger>>

\* mutant: close() keeps the slots of the pending commands
ClearForgotten(t) ==
  /\ pc[t] = "clear"
  /\ Goto(t, "join")
  /\ joined' = [joined EXCEPT ![t] = handle]
  /\ UNCHANGED <<netVars, tableVars, semVars, opVars, after, listenerVars, ledger>>

(* Semaphore.clear(); what comes next joins the thread that _listening_thread *)
(* names now.                                                               *)
Clear(t) ==
  /\ pc[t] = "clear"
  /\ outstanding' = 0 /\ waiters' = NotifyAll(waiters)
  /\ Goto(t, "join")
  /\ joined' = [joined EXCEPT ![t] = handle]
  /\ UNCHANGED <<netVars, tableVars, opVars, after, listenerVars, ledger>>

\* mutant: close() does not wait for the listener
JoinWithoutWaiting(t) ==
  /\ pc[t] = "join"
  /\ Goto(t, "forget")
  /\ UNCHANGED <<netVars, tableVars, semVars, opVars, after, joined, listenerVars, ledger>>

(* join() of a Thread() never started raises RuntimeError.                  *)
Join(t) ==
  /\ pc[t] = "join"
  /\ joined[t] # None => ~Alive(joined[t])
  /\ Goto(t, IF joined[t] = None \/ lpc[joined[t]] = "unborn" THEN "idle" ELSE "forget")
  /\ UNCHANGED <<netVars, tableVars, semVars, opVars, after, joined, listenerVars, ledger>>

Forget(t) ==
  /\ pc[t] = "forget"
  /\ handle' = None
  /\ Goto(t, "idle")
  /\ UNCHANGED <<netVars, tableVars, semVars, opVars, after, joined, lpc, lconn, lseq, lnext, ledger>>

CloseStep(t) == Shutdown(t) \/ Wipe(t) \/ Clear(t) \/ Join(t) \/ Forget(t)

-----------------------------------------------------------------------------
(* The listener thread: _listen and the handlers of its exceptions.         *)
LReport(l, label) ==
  IF pending[0] # None
  THEN /\ ledger' = [ledger EXCEPT ![pending[0]] = "failed"]
       /\ lseq' = [lseq EXCEPT ![l] = 0]
       /\ lnext' = [lnext EXCEPT ![l] = label]
       /\ LGoto(l, "callback")
  ELSE LGoto(l, label) /\ UNCHANGED <<lseq, lnext, ledger>>

\* mutant: the listener never tests _connected
ListenForever(l) ==
  /\ lpc[l] = "loop"
  /\ LGoto(l, "recv")
  /\ lconn' = [lconn EXCEPT ![l] = IF sock = "open" THEN conn ELSE None]
  /\ UNCHANGED <<netVars, tableVars, semVars, callerVars, lseq, lnext, handle, ledger>>

ListenTest(l) ==
  /\ lpc[l] = "loop"
  /\ LGoto(l, IF connected THEN "recv" ELSE "dead")
  /\ lconn' = [lconn EXCEPT ![l] = IF sock = "open" THEN conn ELSE None]
  /\ UNCHANGED <<netVars, tableVars, semVars, callerVars, lseq, lnext, handle, ledger>>

(* A message arrives; _on_response calls the callback of its number.        *)
(* Without an entry, as for a batched command, it goes to callback_delegate *)
(* or (START_BATCH) nowhere.                                                *)
Receive(l, r) ==
  /\ lpc[l] = "recv" /\ lconn[l] \in up
  /\ r \in Arrived(lconn[l])
  /\ drive' = drive \ {r}
  /\ IF pending[r.seq] # None
     THEN /\ ledger' = [ledger EXCEPT ![pending[r.seq]] = IF r.cmd = None THEN "failed" ELSE "done"]
          /\ lseq' = [lseq EXCEPT ![l] = r.seq]
          /\ lnext' = [lnext EXCEPT ![l] = "loop"]
          /\ LGoto(l, "callback")
     ELSE LGoto(l, "loop") /\ UNCHANGED <<lseq, lnext, ledger>>
  /\ UNCHANGED <<autoReconnect, connected, sock, conn, up, tableVars, semVars, callerVars, lconn, handle>>

(* The callback returns: del _pending[seq].  It raises KeyError, which ends *)
(* the thread, if the entry is gone meanwhile.                              *)
CallbackReturns(l) ==
  /\ lpc[l] = "callback"
  /\ LGoto(l, IF pending[lseq[l]] # None THEN "release" ELSE "dead")
  /\ pending' = [pending EXCEPT ![lseq[l]] = None]
  /\ UNCHANGED <<netVars, nextSeq, semVars, callerVars, lconn, lseq, lnext, handle, ledger>>

\* mutant: a completed command keeps its slot
SlotKept(l) ==
  /\ lpc[l] = "release"
  /\ LGoto(l, lnext[l])
  /\ UNCHANGED <<netVars, tableVars, semVars, callerVars, lconn, lseq, lnext, handle, ledger>>

SlotReleased(l) ==
  /\ lpc[l] = "release"
  /\ Release
  /\ LGoto(l, lnext[l])
  /\ UNCHANGED <<netVars, tableVars, callerVars, lconn, lseq, lnext, handle, ledger>>

(* The callback raises: ValueError and socket.error are caught and reported. *)
CallbackRaises(l) ==
  /\ "raise" \in Faults
  /\ lpc[l] = "callback"
  /\ \/ LReport(l, "loop")
     \/ connected /\ LReport(l, "dead")
     \/ LGoto(l, "dead") /\ UNCHANGED <<lseq, lnext, ledger>>
  /\ UNCHANGED <<netVars, tableVars, semVars, callerVars, lconn, handle>>

(* HMAC_FAILURE from _async_recv, or a ValueError: reported, and go on.     *)
BadAnswer(l, r) ==
  /\ "garbled" \in Faults
  /\ lpc[l] = "recv" /\ lconn[l] \in up
  /\ r \in Arrived(lconn[l])
  /\ drive' = drive \ {r}
  /\ LReport(l, "loop")
  /\ UNCHANGED <<autoReconnect, connected, sock, conn, up, tableVars, semVars, callerVars, lconn, handle>>

(* socket.error while receiving: INTERNAL_ERROR and the end of the thread,  *)
(* unless close() asked for it.                                             *)
RecvError(l) ==
  /\ lpc[l] = "recv" /\ lconn[l] \notin up
  /\ IF connected THEN LReport(l, "dead") ELSE LGoto(l, "loop") /\ UNCHANGED <<lseq, lnext, ledger>>
  /\ UNCHANGED <<netVars, tableVars, semVars, callerVars, lconn, handle>>

(* ssl.SSLError, timeouts of a TLS socket included: nothing is reported or  *)
(* scanned.                                                                 *)
RecvSSLError(l) ==
  /\ "ssl" \in Faults
  /\ lpc[l] = "recv"
  /\ LGoto(l, IF connected THEN "loop" ELSE "dead")
  /\ UNCHANGED <<netVars, tableVars, semVars, callerVars, lconn, lseq, lnext, handle, ledger>>

(* socket.timeout with an overdue command: EXPIRED, again and again.        *)
RecvTimeout(l) ==
  /\ "expire" \in Faults
  /\ lpc[l] = "recv"
  /\ \/ Pending # {} /\ LReport(l, "loop")
     \/ LGoto(l, IF connected THEN "loop" ELSE "dead") /\ UNCHANGED <<lseq, lnext, ledger>>
  /\ UNCHANGED <<netVars, tableVars, semVars, callerVars, lconn, handle>>

(* While _check_for_socket_timeouts iterates over _pending, a thread adds   *)
(* or deletes an entry (RuntimeError) or close() replaces the dictionary    *)
(* (KeyError): nothing catches either.                                      *)
ScanDisturbed(l) ==
  /\ "expire" \in Faults
  /\ lpc[l] = "recv" /\ Pending # {}
  /\ \/ \E t \in Caller : pc[t] \in {"callback", "wipe"} \/ (pc[t] = "register" /\ ~Batched(cur[t]))
     \/ \E k \in Conn : lpc[k] = "callback"
  /\ LGoto(l, "dead")
  /\ UNCHANGED <<netVars, tableVars, semVars, callerVars, lconn, lseq, lnext, handle, ledger>>

ConnectionDrops(c) ==
  /\ "drop" \in Faults /\ c \in up
  /\ up' = up \ {c} /\ drive' = drive \ On(c)
  /\ UNCHANGED <<autoReconnect, connected, sock, conn, tableVars, semVars, callerVars, listenerVars, ledger>>

-----------------------------------------------------------------------------
CallerStep(t) ==
  \/ ConnectStep(t) \/ CommandStep(t) \/ CloseStep(t)
  \/ WaitQSleep(t) \/ WaitQTrue(t)
  \/ ReportDeletes(t) \/ ReportReleases(t)

ListenerStep(l) ==
  \/ ListenTest(l)
  \/ \E r \in drive : Receive(l, r)
  \/ CallbackReturns(l) \/ SlotReleased(l)
  \/ RecvError(l)

ListenerFault(l) ==
  \/ CallbackRaises(l)
  \/ \E r \in drive : BadAnswer(l, r)
  \/ RecvSSLError(l) \/ RecvTimeout(l) \/ ScanDisturbed(l)

Next ==
  \/ \E t \in Openers : Connect(t)
  \/ \E t \in Issuers : IssueRefused(t) \/ Issue(t) \/ IssueBatched(t)
  \/ \E t \in Drainers : WaitQCall(t)
  \/ \E t \in Closers : Close(t)
  \/ \E t \in Caller : CallerStep(t) \/ ReportRaises(t)
  \/ \E l \in Conn : ListenerStep(l) \/ ListenerFault(l)
  \/ \E c \in up : ConnectionDrops(c)

Spec == Init /\ [][Next]_vars

(* Threads that can run do run, callbacks end, the drive answers what it    *)
(* holds, and a recv on a dead socket fails.  No one has to call anything,  *)
(* and no fault has to happen.                                              *)
Fairness ==
  /\ \A t \in Caller : WF_vars(CallerStep(t))
  /\ \A l \in Conn : WF_vars(ListenerStep(l))

FairSpec == Spec /\ Fairness

-----------------------------------------------------------------------------
(* On a sound connection the client is a command ledger: _pending, the      *)
(* sequence numbers and the semaphore together see to it that each command  *)
(* is answered, once, with at most queue_depth of them open, and that the   *)
(* commands of batches between them change nothing of this.                 *)
Ledger == INSTANCE CommandLedger WITH
            open <- {c \in Cmd : ledger[c] = "open"},
            done <- {c \in Cmd : ledger[c] = "done"}
LedgerSpec == Ledger!Spec

(* wait_q(0) returns beside threads that issue a bounded number of commands *)
(* (MaxCmd); one that issues for ever may keep the queue from being empty.  *)
DrainReturns == \A t \in Drainers : (pc[t] = "wait_q") ~> Idle(t)

(* Every slot that is taken belongs to a command that _pending knows, to    *)
(* one that its caller is about to register, or to one just deleted whose   *)
(* thread is about to release the slot: whatever errors are reported, the   *)
(* semaphore and _pending never drift apart.  Reconnecting inside a command *)
(* can leave slots that nothing will release, but none is released twice.   *)
(* (One application thread; from the moment close() has replaced _pending   *)
(* until it has joined the listener, the two are apart.)                    *)
Holding == {t \in Caller : cur[t] # None /\ ~Batched(cur[t]) /\ pc[t] \notin {"acquire", "send"}}
Releasing == Cardinality({t \in Caller : pc[t] = "release"}) + Cardinality({l \in Conn : lpc[l] = "release"})
Counted == Cardinality(Pending) + Cardinality(Holding) + Releasing
Closing == \E t \in Caller : pc[t] \in {"clear", "join"}
SlotsMatchPending ==
  ~Closing => outstanding >= Counted /\ (autoReconnect = 0 => outstanding = Counted)

(* An answer that a thread may still receive never finds another command's  *)
(* callback under its sequence number, across error reports, close() and    *)
(* new connections; the answer to a batched command finds none at all.  The *)
(* exception is auto reconnect: connect() starts the numbers again and      *)
(* keeps the entries of commands that were let through unconnected, and a   *)
(* batched command, which is never entered itself, may draw the number of   *)
(* such a leftover.                                                         *)
OwnEntry(c, s) ==
  pending[s] = None \/ (IF Batched(c) THEN autoReconnect > 0 ELSE pending[s] = c)

Receivable(c) == (sock = "open" /\ c = conn) \/ \E l \in Conn : lpc[l] = "recv" /\ lconn[l] = c
NoForeignAnswer == \A r \in drive : Receivable(r.conn) /\ r.cmd # None => OwnEntry(r.cmd, r.seq)

(* close() joins the listener before a new connect() starts another one.    *)
OneListener == Cardinality({l \in Conn : Alive(l)}) <= 1

(* A new connection inherits no command and no slot from the previous one,  *)
(* whose sequence numbers it begins to use again (unless a command was let  *)
(* through unconnected for the sake of auto reconnect).                     *)
CleanConnect ==
  [][nextSeq' < nextSeq /\ autoReconnect = 0 => Pending' = {} /\ outstanding' = 0]_vars

(* close() returns: the listener notices, whatever state it is in.          *)
CloseReturns == \A t \in Closers : (pc[t] = "shutdown") ~> Idle(t)

(* client.py:124: "How many commands can be outstanding at a time": the     *)
(* drive never holds more unanswered commands than queue_depth.             *)
DriveWithinDepth == Cardinality({r \in drive : r.cmd # None /\ ~Batched(r.cmd)}) <= Depth
==============================================================================
