------------------------- MODULE KineticClientProofs -------------------------
(***************************************************************************)
(* Proofs about KineticClient for any number of commands, connections and  *)
(* queue slots.  Those on _pending, the semaphore and the listener hold    *)
(* for a client that one application thread uses, whatever goes wrong: two *)
(* threads that connect at once, or close() beside another thread's        *)
(* command, break each of them.  That on the ledger holds for any number   *)
(* of threads on a sound connection that one of them opens.                *)
(***************************************************************************)
EXTENDS KineticClient, FiniteSetTheorems, TLAPS

Alone == \A t, u \in Caller : t = u

ConnectLabel == {"socket", "connect", "sign_on", "renumber", "thread", "set"}
OpLabel == {"acquire", "reconnect", "register", "send"}
CloseLabel == {"shutdown", "wipe", "clear", "join", "forget"}
ReportLabel == {"callback", "release"}
Label == {"idle", "wait_q", "start"} \cup ReportLabel \cup ConnectLabel \cup OpLabel \cup CloseLabel
Return == {"idle", "reconnect", "register", "renumber"}
State == {"new", "batched", "open", "done", "failed"}

TypeInv ==
  /\ autoReconnect \in AutoReconnects /\ connected \in BOOLEAN
  /\ sock \in {"new", "open", "closed"} /\ conn \in 0 .. MaxConn /\ up \subseteq Conn
  /\ drive \subseteq [conn : Conn, seq : Seqno, cmd : Cmd \cup {None}]
  /\ nextSeq \in 0 .. MaxCmd
  /\ pending \in [Seqno -> Cmd \cup {None}]
  /\ outstanding \in Nat /\ waiters \in Seq(Caller)
  /\ pc \in [Caller -> Label] /\ cur \in [Caller -> Cmd \cup {None}]
  /\ curSeq \in [Caller -> Seqno] /\ tries \in [Caller -> Nat]
  /\ after \in [Caller -> Return] /\ joined \in [Caller -> Conn \cup {None}]
  /\ lpc \in [Conn -> {"unborn", "loop", "recv", "callback", "release", "dead"}]
  /\ lconn \in [Conn -> Conn \cup {None}]
  /\ lseq \in [Conn -> Seqno] /\ lnext \in [Conn -> {"loop", "dead"}]
  /\ handle \in Conn \cup {None}
  /\ ledger \in [Cmd -> State]

(* Which commands are where: no two callers have the same one, a caller has *)
(* one exactly inside an operation, and what the drive, _pending and the    *)
(* senders hold was accepted.                                               *)
CommandsInv ==
  /\ \A t, u \in Caller : cur[t] # None /\ t # u => cur[t] # cur[u]
  /\ \A t \in Caller :
       /\ pc[t] \in {"idle", "wait_q"} \cup CloseLabel => cur[t] = None
       /\ pc[t] \in ReportLabel /\ after[t] = "idle" => cur[t] = None
       /\ pc[t] \in OpLabel => cur[t] # None
       /\ pc[t] \in ReportLabel /\ after[t] \in {"reconnect", "register"} => cur[t] # None
       /\ cur[t] # None => (pc[t] = "acquire" <=> ledger[cur[t]] = "new")
  /\ \A s \in Seqno : pending[s] # None => ledger[pending[s]] \notin {"new", "batched"}
  /\ \A r \in drive : r.conn <= conn /\ (r.cmd # None => ledger[r.cmd] # "new")

-----------------------------------------------------------------------------
LEMMA ConstantFacts ==
  /\ 0 \in Seqno /\ Seqno \subseteq 0 .. MaxCmd /\ None \notin Cmd /\ None \notin Conn
  /\ \A s \in Seqno : s + 1 \in 0 .. MaxCmd
  /\ Conn \cup {None} = 0 .. MaxConn
BY ClientAssumption DEF Seqno, Cmd, Conn, None

LEMMA ReleaseFacts ==
  ASSUME outstanding \in Nat, waiters \in Seq(Caller), Release
  PROVE  /\ outstanding' \in Nat /\ waiters' \in Seq(Caller)
         /\ outstanding > 0 => outstanding' = outstanding - 1
         /\ outstanding = 0 => outstanding' = 0
BY DEF Release, Notify

(* What an error report may do, by an application thread or by a listener:  *)
(* the command it completes was accepted and is in no batch.                *)
LEMMA ReportFacts ==
  ASSUME TypeInv, NEW t \in Caller, NEW label \in Return, Report(t, label)
  PROVE  /\ ledger' \in [Cmd -> State]
         /\ pc' \in [Caller -> Label] /\ after' \in [Caller -> Return]
         /\ \/ pc' = [pc EXCEPT ![t] = "callback"] /\ after' = [after EXCEPT ![t] = label]
               /\ pending[0] # None /\ ledger' = [ledger EXCEPT ![pending[0]] = "failed"]
            \/ pc' = [pc EXCEPT ![t] = label] /\ after' = after
               /\ pending[0] = None /\ ledger' = ledger
BY DEF TypeInv, Report, Goto, Label, Return, ReportLabel, OpLabel, ConnectLabel, State

LEMMA LReportFacts ==
  ASSUME TypeInv, NEW l \in Conn, NEW label \in {"loop", "dead"}, LReport(l, label)
  PROVE  /\ ledger' \in [Cmd -> State]
         /\ lpc' \in [Conn -> {"unborn", "loop", "recv", "callback", "release", "dead"}]
         /\ lseq' \in [Conn -> Seqno] /\ lnext' \in [Conn -> {"loop", "dead"}]
         /\ \/ lpc' = [lpc EXCEPT ![l] = "callback"]
               /\ pending[0] # None /\ ledger' = [ledger EXCEPT ![pending[0]] = "failed"]
            \/ lpc' = [lpc EXCEPT ![l] = label]
               /\ pending[0] = None /\ ledger' = ledger
<1>1. CASE pending[0] # None
  <2>1. /\ ledger' = [ledger EXCEPT ![pending[0]] = "failed"] /\ lseq' = [lseq EXCEPT ![l] = 0]
        /\ lnext' = [lnext EXCEPT ![l] = label] /\ lpc' = [lpc EXCEPT ![l] = "callback"]
    BY <1>1 DEF LReport, LGoto
  <2> QED BY <1>1, <2>1, ConstantFacts DEF TypeInv, State
<1>2. CASE pending[0] = None
  BY <1>2 DEF TypeInv, LReport, LGoto
<1> QED BY <1>1, <1>2

LEMMA ConnectingFacts ==
  ASSUME NEW t \in Caller
  PROVE  Connecting(t) = (IF cur[t] = None THEN "idle" ELSE "reconnect")
BY DEF Connecting

LEMMA AbandonFacts ==
  ASSUME TypeInv, NEW t \in Caller, Abandon(t)
  PROVE  /\ pc' = [pc EXCEPT ![t] = "idle"] /\ cur' = [cur EXCEPT ![t] = None]
         /\ pc' \in [Caller -> Label] /\ cur' \in [Caller -> Cmd \cup {None}]
         /\ tries' \in [Caller -> Nat] /\ UNCHANGED <<curSeq, after, joined>>
BY DEF TypeInv, Abandon, Goto, Label

LEMMA TypeInit == Init => TypeInv
<1>1. Init => /\ drive \subseteq [conn : Conn, seq : Seqno, cmd : Cmd \cup {None}]
              /\ waiters \in Seq(Caller) /\ outstanding \in Nat /\ up \subseteq Conn
  BY DEF Init
<1>2. Init => /\ pending \in [Seqno -> Cmd \cup {None}] /\ cur \in [Caller -> Cmd \cup {None}]
              /\ lconn \in [Conn -> Conn \cup {None}] /\ handle \in Conn \cup {None}
              /\ joined \in [Caller -> Conn \cup {None}]
  BY DEF Init
<1>3. Init => /\ curSeq \in [Caller -> Seqno] /\ lseq \in [Conn -> Seqno]
              /\ tries \in [Caller -> Nat] /\ lnext \in [Conn -> {"loop", "dead"}]
  BY ConstantFacts DEF Init
<1>4. Init => /\ pc \in [Caller -> Label] /\ after \in [Caller -> Return]
              /\ lpc \in [Conn -> {"unborn", "loop", "recv", "callback", "release", "dead"}]
              /\ ledger \in [Cmd -> State]
  BY DEF Init, Label, Return, State
<1>5. Init => /\ autoReconnect \in AutoReconnects /\ connected \in BOOLEAN
              /\ sock \in {"new", "open", "closed"} /\ conn \in 0 .. MaxConn
              /\ nextSeq \in 0 .. MaxCmd
  <2>1. 0 \in 0 .. MaxConn /\ 0 \in 0 .. MaxCmd
    BY ClientAssumption
  <2> QED BY <2>1 DEF Init
<1> QED BY <1>1, <1>2, <1>3, <1>4, <1>5 DEF TypeInv

LEMMA TypeStep ==
  ASSUME TypeInv, [Next]_vars
  PROVE  TypeInv'
<1> USE DEF TypeInv, netVars, socketVars, tableVars, semVars, opVars, listenerVars, Goto, LGoto, Idle,
            Label, Return, ReportLabel, ConnectLabel, OpLabel, CloseLabel
<1>0. Issuers \cup Drainers \cup Openers \cup Closers \subseteq Caller
  BY DEF Caller
<1>1. ASSUME NEW t \in Openers, Connect(t)
      PROVE  TypeInv'
  BY <1>1 DEF Connect
<1>2. ASSUME NEW t \in Issuers, IssueRefused(t)
      PROVE  TypeInv'
  BY <1>2, <1>0, ReportFacts DEF IssueRefused
<1>3. ASSUME NEW t \in Issuers, Issue(t)
      PROVE  TypeInv'
  BY <1>3, <1>0 DEF Issue, Begin
<1>4. ASSUME NEW t \in Issuers, IssueBatched(t)
      PROVE  TypeInv'
  BY <1>4, <1>0 DEF IssueBatched, Begin, State
<1>5. ASSUME NEW t \in Drainers, WaitQCall(t)
      PROVE  TypeInv'
  BY <1>5, <1>0 DEF WaitQCall
<1>6. ASSUME NEW t \in Closers, Close(t)
      PROVE  TypeInv'
  BY <1>6, <1>0 DEF Close
<1>7. ASSUME NEW t \in Caller, NewSocket(t)
      PROVE  TypeInv'
  BY <1>7 DEF NewSocket
<1>8. ASSUME NEW t \in Caller, Established(t)
      PROVE  TypeInv'
  <2>1. conn + 1 \in 0 .. MaxConn /\ conn + 1 \in Conn
    BY <1>8, ClientAssumption DEF Established, Conn
  <2>2. SignOn(conn + 1) \in [conn : Conn, seq : Seqno, cmd : Cmd \cup {None}]
    BY <2>1, ConstantFacts DEF SignOn
  <2> QED BY <1>8, <2>1, <2>2 DEF Established
<1>9. ASSUME NEW t \in Caller, Refused(t)
      PROVE  TypeInv'
  <2>1. Connecting(t) \in Return /\ Report(t, Connecting(t))
    BY <1>9 DEF Refused, Connecting
  <2>2. /\ ledger' \in [Cmd -> State] /\ pc' \in [Caller -> Label] /\ after' \in [Caller -> Return]
    BY <2>1, ReportFacts
  <2> QED BY <1>9, <2>2 DEF Refused
<1>10. ASSUME NEW t \in Caller, SignedOn(t)
      PROVE  TypeInv'
  <2>1. "renumber" \in Return /\ Report(t, "renumber")
    BY <1>10 DEF SignedOn, Connecting
  <2>2. /\ ledger' \in [Cmd -> State] /\ pc' \in [Caller -> Label] /\ after' \in [Caller -> Return]
    BY <2>1, ReportFacts
  <2> QED BY <1>10, <2>2 DEF SignedOn
<1>11. ASSUME NEW t \in Caller, SignOnRefused(t)
      PROVE  TypeInv'
  <2>1. Connecting(t) \in Return /\ Report(t, Connecting(t))
    BY <1>11 DEF SignOnRefused, Connecting
  <2>2. /\ ledger' \in [Cmd -> State] /\ pc' \in [Caller -> Label] /\ after' \in [Caller -> Return]
    BY <2>1, ReportFacts
  <2> QED BY <1>11, <2>2 DEF SignOnRefused
<1>12. ASSUME NEW t \in Caller, SendError(t)
      PROVE  TypeInv'
  <2>1. "idle" \in Return /\ Report(t, "idle")
    BY <1>12 DEF SendError, Connecting
  <2>2. /\ ledger' \in [Cmd -> State] /\ pc' \in [Caller -> Label] /\ after' \in [Caller -> Return]
    BY <2>1, ReportFacts
  <2> QED BY <1>12, <2>2 DEF SendError, SendReturns
<1>13. ASSUME NEW t \in Caller, SignOnFails(t)
      PROVE  TypeInv'
  BY <1>13 DEF SignOnFails, Abandon
<1>14. ASSUME NEW t \in Caller, Renumber(t)
      PROVE  TypeInv'
  BY <1>14, ClientAssumption DEF Renumber
<1>15. ASSUME NEW t \in Caller, NewThread(t)
      PROVE  TypeInv'
  BY <1>15 DEF NewThread
<1>16. ASSUME NEW t \in Caller, SetConnected(t)
      PROVE  TypeInv'
  BY <1>16 DEF SetConnected
<1>17. ASSUME NEW t \in Caller, StartListener(t)
      PROVE  TypeInv'
  <2>1. CASE handle # None /\ lpc[handle] # "unborn"
    BY <1>17, <2>1, AbandonFacts DEF StartListener
  <2>2. CASE ~(handle # None /\ lpc[handle] # "unborn")
    <3>1. lpc' \in [Conn -> {"unborn", "loop", "recv", "callback", "release", "dead"}]
      BY <1>17, <2>2 DEF StartListener
    <3> QED BY <1>17, <2>2, <3>1 DEF StartListener, Connecting
  <2> QED BY <2>1, <2>2
<1>18. ASSUME NEW t \in Caller, AcquireSleep(t)
      PROVE  TypeInv'
  BY <1>18 DEF AcquireSleep, Wait, callerVars
<1>19. ASSUME NEW t \in Caller, WaitQSleep(t)
      PROVE  TypeInv'
  BY <1>19 DEF WaitQSleep, Wait, callerVars
<1>20. ASSUME NEW t \in Caller, AcquireTake(t)
      PROVE  TypeInv'
  <2>1. ledger' = [ledger EXCEPT ![cur[t]] = "open"] /\ outstanding' = outstanding + 1
    BY <1>20 DEF AcquireTake
  <2>2. ledger' \in [Cmd -> State]
    BY <2>1 DEF State
  <2>3. outstanding' \in Nat
    BY <2>1
  <2> QED BY <1>20, <2>2, <2>3 DEF AcquireTake
<1>21. ASSUME NEW t \in Caller, Reconnect(t)
      PROVE  TypeInv'
  <2>1. tries' \in [Caller -> Nat]
    BY <1>21 DEF Reconnect
  <2> QED BY <1>21, <2>1 DEF Reconnect
<1>22. ASSUME NEW t \in Caller, LeaveReconnect(t)
      PROVE  TypeInv'
  BY <1>22, ReportFacts DEF LeaveReconnect
<1>23. ASSUME NEW t \in Caller, Register(t)
      PROVE  TypeInv'
  BY <1>23, ConstantFacts DEF Register
<1>24. ASSUME NEW t \in Caller, Send(t)
      PROVE  TypeInv'
  <2>1. CASE drive' = drive
    BY <1>24, <2>1 DEF Send, SendReturns
  <2>2. CASE conn \in up /\ drive' = drive \cup {[conn |-> conn, seq |-> curSeq[t], cmd |-> cur[t]]}
    BY <1>24, <2>2 DEF Send, SendReturns
  <2> QED BY <1>24, <2>1, <2>2 DEF Send
<1>25. ASSUME NEW t \in Caller, Shutdown(t)
      PROVE  TypeInv'
  BY <1>25 DEF Shutdown, On
<1>26. ASSUME NEW t \in Caller, Wipe(t)
      PROVE  TypeInv'
  BY <1>26 DEF Wipe
<1>27. ASSUME NEW t \in Caller, Clear(t)
      PROVE  TypeInv'
  BY <1>27 DEF Clear, NotifyAll
<1>28. ASSUME NEW t \in Caller, Join(t)
      PROVE  TypeInv'
  BY <1>28 DEF Join
<1>29. ASSUME NEW t \in Caller, Forget(t)
      PROVE  TypeInv'
  BY <1>29 DEF Forget
<1>30. ASSUME NEW t \in Caller, WaitQTrue(t)
      PROVE  TypeInv'
  BY <1>30 DEF WaitQTrue
<1>31. ASSUME NEW t \in Caller, ReportDeletes(t)
      PROVE  TypeInv'
  <2>1. CASE pending[0] # None
    BY <1>31, <2>1 DEF ReportDeletes
  <2>2. CASE pending[0] = None
    BY <1>31, <2>2, AbandonFacts DEF ReportDeletes
  <2> QED BY <2>1, <2>2
<1>32. ASSUME NEW t \in Caller, ReportReleases(t)
      PROVE  TypeInv'
  BY <1>32, ReleaseFacts DEF ReportReleases
<1>33. ASSUME NEW t \in Caller, ReportRaises(t)
      PROVE  TypeInv'
  <2>1. CASE Abandon(t) /\ UNCHANGED ledger
    BY <1>33, <2>1 DEF ReportRaises, Abandon
  <2>2. CASE Report(t, Connecting(t)) /\ UNCHANGED <<opVars, joined>>
    BY <1>33, <2>2, ReportFacts, ConnectingFacts DEF ReportRaises
  <2> QED BY <1>33, <2>1, <2>2 DEF ReportRaises
<1>34. ASSUME NEW l \in Conn, ListenTest(l)
      PROVE  TypeInv'
  BY <1>34, ConstantFacts DEF ListenTest, callerVars
<1>35. ASSUME NEW l \in Conn, CallbackReturns(l)
      PROVE  TypeInv'
  BY <1>35 DEF CallbackReturns, callerVars
<1>36. ASSUME NEW l \in Conn, SlotReleased(l)
      PROVE  TypeInv'
  BY <1>36, ReleaseFacts DEF SlotReleased, callerVars
<1>37. ASSUME NEW l \in Conn, RecvError(l) \/ CallbackRaises(l) \/ RecvTimeout(l)
      PROVE  TypeInv'
  <2>1. \/ \E label \in {"loop", "dead"} : LReport(l, label)
        \/ (\E label \in {"loop", "dead"} : LGoto(l, label)) /\ UNCHANGED <<lseq, lnext, ledger>>
    BY <1>37 DEF RecvError, CallbackRaises, RecvTimeout
  <2>2. /\ ledger' \in [Cmd -> State]
        /\ lpc' \in [Conn -> {"unborn", "loop", "recv", "callback", "release", "dead"}]
        /\ lseq' \in [Conn -> Seqno] /\ lnext' \in [Conn -> {"loop", "dead"}]
    BY <2>1, LReportFacts
  <2> QED BY <1>37, <2>2 DEF RecvError, CallbackRaises, RecvTimeout, callerVars
<1>38. ASSUME NEW l \in Conn, RecvSSLError(l) \/ ScanDisturbed(l)
      PROVE  TypeInv'
  BY <1>38 DEF RecvSSLError, ScanDisturbed, callerVars
<1>39. ASSUME NEW l \in Conn, NEW r \in drive, Receive(l, r)
      PROVE  TypeInv'
  <2>1. r.seq \in Seqno /\ drive' \subseteq drive
    BY <1>39 DEF Receive
  <2>2. ledger' \in [Cmd -> State]
    BY <1>39 DEF Receive, State
  <2> QED BY <1>39, <2>1, <2>2 DEF Receive, callerVars
<1>40. ASSUME NEW l \in Conn, NEW r \in drive, BadAnswer(l, r)
      PROVE  TypeInv'
  BY <1>40, LReportFacts DEF BadAnswer, callerVars
<1>41. ASSUME NEW c \in up, ConnectionDrops(c)
      PROVE  TypeInv'
  BY <1>41 DEF ConnectionDrops, callerVars
<1>42. CASE UNCHANGED vars
  BY <1>42 DEF vars, callerVars
<1> QED
  BY <1>1, <1>2, <1>3, <1>4, <1>5, <1>6, <1>7, <1>8, <1>9, <1>10, <1>11, <1>12, <1>13, <1>14,
     <1>15, <1>16, <1>17, <1>18, <1>19, <1>20, <1>21, <1>22, <1>23, <1>24, <1>25, <1>26, <1>27,
     <1>28, <1>29, <1>30, <1>31, <1>32, <1>33, <1>34, <1>35, <1>36, <1>37, <1>38, <1>39, <1>40,
     <1>41, <1>42
     DEF Next, CallerStep, ConnectStep, CommandStep, CloseStep, ListenerStep, ListenerFault, Caller

(* A caller that issues takes a command nobody holds and nobody accepted.   *)
LEMMA BeginFacts ==
  ASSUME TypeInv, NEW t \in Caller, Begin(t)
  PROVE  \E c \in Cmd : /\ cur' = [cur EXCEPT ![t] = c]
                       /\ ledger[c] = "new" /\ \A u \in Caller : cur[u] # c
BY DEF Begin, Issued

(* A step in which no command is taken, registered or sent.                 *)
Settled ==
  \A c \in Cmd : (ledger'[c] = "new" <=> ledger[c] = "new")
                 /\ (ledger'[c] = "batched" <=> ledger[c] = "batched")

CallerOk(t) ==
  /\ pc[t] \in {"idle", "wait_q"} \cup CloseLabel => cur[t] = None
  /\ pc[t] \in ReportLabel /\ after[t] = "idle" => cur[t] = None
  /\ pc[t] \in OpLabel => cur[t] # None
  /\ pc[t] \in ReportLabel /\ after[t] \in {"reconnect", "register"} => cur[t] # None
  /\ cur[t] # None => (pc[t] = "acquire" <=> ledger[cur[t]] = "new")

NothingTaken ==
  /\ Settled
  /\ \A s \in Seqno : pending'[s] \in {None, pending[s]}
  /\ \A r \in drive' : r \in drive \/ (r.conn <= conn' /\ r.cmd = None)
  /\ conn <= conn'
  /\ \A t \in Caller : cur'[t] \in {None, cur[t]}

LEMMA CommandsKept ==
  ASSUME TypeInv, CommandsInv, NothingTaken, \A t \in Caller : CallerOk(t)', conn' \in Nat
  PROVE  CommandsInv'
<1>1. /\ drive \subseteq [conn : Conn, seq : Seqno, cmd : Cmd \cup {None}]
      /\ cur \in [Caller -> Cmd \cup {None}] /\ conn \in Nat
      /\ pending \in [Seqno -> Cmd \cup {None}] /\ Conn \subseteq Nat
  BY ClientAssumption DEF TypeInv, Conn
<1>2. \A t, u \in Caller : cur'[t] # None /\ t # u => cur'[t] # cur'[u]
  BY <1>1 DEF NothingTaken, CommandsInv
<1>3. \A s \in Seqno : pending'[s] # None => ledger'[pending'[s]] \notin {"new", "batched"}
  BY <1>1 DEF NothingTaken, Settled, CommandsInv
<1>4. \A r \in drive' : r.conn <= conn' /\ (r.cmd # None => ledger'[r.cmd] # "new")
  <2> SUFFICES ASSUME NEW r \in drive', r \in drive PROVE r.conn <= conn' /\ (r.cmd # None => ledger'[r.cmd] # "new")
    BY DEF NothingTaken
  <2>1. r.conn \in Nat /\ r.cmd \in Cmd \cup {None} /\ r.conn <= conn /\ (r.cmd # None => ledger[r.cmd] # "new")
    BY <1>1 DEF CommandsInv
  <2> QED BY <1>1, <2>1 DEF NothingTaken, Settled
<1> QED BY <1>2, <1>3, <1>4 DEF CommandsInv, CallerOk

(* The same when one caller moves.                                          *)
LEMMA CommandsKeptBy ==
  ASSUME TypeInv, CommandsInv, NothingTaken, conn' \in Nat, NEW t \in Caller, CallerOk(t)',
         \A u \in Caller : u # t => pc'[u] = pc[u] /\ after'[u] = after[u] /\ cur'[u] = cur[u]
  PROVE  CommandsInv'
<1>1. ASSUME NEW u \in Caller, u # t PROVE CallerOk(u)'
  <2>1. pc'[u] = pc[u] /\ after'[u] = after[u] /\ cur'[u] = cur[u] /\ cur[u] \in Cmd \cup {None}
    BY <1>1 DEF TypeInv
  <2>2. CallerOk(u)
    BY DEF CommandsInv, CallerOk
  <2> QED BY <2>1, <2>2 DEF CallerOk, NothingTaken, Settled
<1> QED BY <1>1, CommandsKept

(* An error report settles nothing.                                         *)
LEMMA ReportSettles ==
  ASSUME TypeInv, CommandsInv,
         \/ ledger' = ledger
         \/ pending[0] # None /\ ledger' = [ledger EXCEPT ![pending[0]] = "failed"]
  PROVE  Settled
<1>1. pending[0] # None => pending[0] \in Cmd /\ ledger[pending[0]] \notin {"new", "batched"}
  BY ConstantFacts DEF TypeInv, CommandsInv
<1> QED BY <1>1 DEF Settled, TypeInv

LEMMA CommandsStep ==
  ASSUME TypeInv, TypeInv', CommandsInv, [Next]_vars
  PROVE  CommandsInv'
<1> USE DEF netVars, socketVars, tableVars, semVars, opVars, callerVars, listenerVars, Goto, LGoto, Idle,
            ReportLabel, OpLabel, CloseLabel
<1>0. /\ pc \in [Caller -> Label] /\ cur \in [Caller -> Cmd \cup {None}]
      /\ drive \subseteq [conn : Conn, seq : Seqno, cmd : Cmd \cup {None}]
      /\ ledger \in [Cmd -> State] /\ after \in [Caller -> Return]
      /\ pending \in [Seqno -> Cmd \cup {None}] /\ lseq \in [Conn -> Seqno]
      /\ None \notin Cmd /\ conn \in Nat /\ conn' \in Nat /\ nextSeq \in Nat
      /\ Issuers \cup Drainers \cup Openers \cup Closers \subseteq Caller
  BY ClientAssumption, ConstantFacts DEF TypeInv, Caller
<1>k. ASSUME NothingTaken, UNCHANGED <<pc, cur, after>> PROVE CommandsInv'
  <2>1. \A u \in Caller : cur[u] \in Cmd \cup {None} /\ CallerOk(u)
    BY <1>0 DEF CommandsInv, CallerOk
  <2>2. \A u \in Caller : CallerOk(u)'
    BY <1>k, <2>1 DEF CallerOk, NothingTaken, Settled, callerVars
  <2> QED BY <1>k, <1>0, <2>2, CommandsKept
<1>1. ASSUME NEW t \in Issuers, IssueRefused(t)
      PROVE  CommandsInv'
  <2>1. "idle" \in Return /\ Report(t, "idle")
    BY <1>1 DEF IssueRefused, Connecting, Return
  <2>2. Settled
    BY <1>0, <2>1, ReportFacts, ReportSettles
  <2>3. NothingTaken
    BY <1>1, <1>0, <2>2 DEF IssueRefused, NothingTaken
  <2>4. CallerOk(t)'
    BY <1>1, <1>0, <2>1, <2>2, ReportFacts DEF IssueRefused, Connecting, CommandsInv, CallerOk, Settled
  <2>5. \A u \in Caller : u # t => pc'[u] = pc[u] /\ after'[u] = after[u] /\ cur'[u] = cur[u]
    BY <1>1, <1>0, <2>1, ReportFacts DEF IssueRefused
  <2> QED BY <1>0, <2>3, <2>4, <2>5, CommandsKeptBy
<1>2. ASSUME NEW t \in Caller, Refused(t)
      PROVE  CommandsInv'
  <2>1. Connecting(t) \in Return /\ Report(t, Connecting(t))
    BY <1>2 DEF Refused, Connecting, Return
  <2>2. Settled
    BY <1>0, <2>1, ReportFacts, ReportSettles
  <2>3. NothingTaken
    BY <1>2, <1>0, <2>2 DEF Refused, NothingTaken
  <2>4. CallerOk(t)'
    BY <1>2, <1>0, <2>1, <2>2, ReportFacts DEF Refused, Connecting, CommandsInv, CallerOk, Settled
  <2>5. \A u \in Caller : u # t => pc'[u] = pc[u] /\ after'[u] = after[u] /\ cur'[u] = cur[u]
    BY <1>2, <1>0, <2>1, ReportFacts DEF Refused
  <2> QED BY <1>0, <2>3, <2>4, <2>5, CommandsKeptBy
<1>3. ASSUME NEW t \in Caller, SignedOn(t)
      PROVE  CommandsInv'
  <2>1. "renumber" \in Return /\ Report(t, "renumber")
    BY <1>3 DEF SignedOn, Connecting, Return
  <2>2. Settled
    BY <1>0, <2>1, ReportFacts, ReportSettles
  <2>3. NothingTaken
    BY <1>3, <1>0, <2>2 DEF SignedOn, NothingTaken
  <2>4. CallerOk(t)'
    BY <1>3, <1>0, <2>1, <2>2, ReportFacts DEF SignedOn, Connecting, CommandsInv, CallerOk, Settled
  <2>5. \A u \in Caller : u # t => pc'[u] = pc[u] /\ after'[u] = after[u] /\ cur'[u] = cur[u]
    BY <1>3, <1>0, <2>1, ReportFacts DEF SignedOn
  <2> QED BY <1>0, <2>3, <2>4, <2>5, CommandsKeptBy
<1>4. ASSUME NEW t \in Caller, SignOnRefused(t)
      PROVE  CommandsInv'
  <2>1. Connecting(t) \in Return /\ Report(t, Connecting(t))
    BY <1>4 DEF SignOnRefused, Connecting, Return
  <2>2. Settled
    BY <1>0, <2>1, ReportFacts, ReportSettles
  <2>3. NothingTaken
    BY <1>4, <1>0, <2>2 DEF SignOnRefused, NothingTaken
  <2>4. CallerOk(t)'
    BY <1>4, <1>0, <2>1, <2>2, ReportFacts DEF SignOnRefused, Connecting, CommandsInv, CallerOk, Settled
  <2>5. \A u \in Caller : u # t => pc'[u] = pc[u] /\ after'[u] = after[u] /\ cur'[u] = cur[u]
    BY <1>4, <1>0, <2>1, ReportFacts DEF SignOnRefused
  <2> QED BY <1>0, <2>3, <2>4, <2>5, CommandsKeptBy
<1>5. ASSUME NEW t \in Caller, SendError(t)
      PROVE  CommandsInv'
  <2>1. "idle" \in Return /\ Report(t, "idle")
    BY <1>5 DEF SendError, Connecting, Return
  <2>2. Settled
    BY <1>0, <2>1, ReportFacts, ReportSettles
  <2>3. NothingTaken
    BY <1>5, <1>0, <2>2 DEF SendError, NothingTaken, SendReturns
  <2>4. CallerOk(t)'
    BY <1>5, <1>0, <2>1, <2>2, ReportFacts DEF SendError, Connecting, CommandsInv, CallerOk, Settled, SendReturns
  <2>5. \A u \in Caller : u # t => pc'[u] = pc[u] /\ after'[u] = after[u] /\ cur'[u] = cur[u]
    BY <1>5, <1>0, <2>1, ReportFacts DEF SendError, SendReturns
  <2> QED BY <1>0, <2>3, <2>4, <2>5, CommandsKeptBy
<1>6. ASSUME NEW t \in Caller, LeaveReconnect(t)
      PROVE  CommandsInv'
  <2>1. CASE connected
    <3>1. NothingTaken /\ CallerOk(t)'
      BY <1>6, <1>0, <2>1 DEF LeaveReconnect, NothingTaken, Settled, CommandsInv, CallerOk
    <3>2. \A u \in Caller : u # t => pc'[u] = pc[u] /\ after'[u] = after[u] /\ cur'[u] = cur[u]
      BY <1>6, <1>0, <2>1 DEF LeaveReconnect
    <3> QED BY <1>0, <3>1, <3>2, CommandsKeptBy
  <2>2. CASE ~connected
    <3>1. Report(t, "register")
      BY <1>6, <2>2 DEF LeaveReconnect
    <3>2. Settled
      BY <3>1, ReportFacts, ReportSettles DEF Return
    <3>3. NothingTaken
      BY <1>6, <1>0, <3>2 DEF LeaveReconnect, NothingTaken
    <3>4. CallerOk(t)'
      BY <1>6, <1>0, <3>1, <3>2, ReportFacts DEF LeaveReconnect, CommandsInv, CallerOk, Settled, Return
    <3>5. \A u \in Caller : u # t => pc'[u] = pc[u] /\ after'[u] = after[u] /\ cur'[u] = cur[u]
      BY <1>6, <1>0, <3>1, ReportFacts DEF LeaveReconnect, Return
    <3> QED BY <1>0, <3>3, <3>4, <3>5, CommandsKeptBy
  <2> QED BY <2>1, <2>2
<1>7. ASSUME NEW t \in Caller, ReportRaises(t)
      PROVE  CommandsInv'
  <2>1. CASE Abandon(t) /\ UNCHANGED ledger
    <3>1. NothingTaken /\ CallerOk(t)'
      BY <1>7, <1>0, <2>1, AbandonFacts DEF ReportRaises, NothingTaken, Settled, CallerOk
    <3>2. \A u \in Caller : u # t => pc'[u] = pc[u] /\ after'[u] = after[u] /\ cur'[u] = cur[u]
      BY <1>7, <1>0, <2>1, AbandonFacts DEF ReportRaises
    <3> QED BY <1>0, <3>1, <3>2, CommandsKeptBy
  <2>2. CASE after[t] = "renumber" /\ Report(t, Connecting(t)) /\ UNCHANGED <<opVars, joined>>
    <3>1. Connecting(t) \in Return
      BY DEF Connecting, Return
    <3>2. Settled
      BY <2>2, <3>1, ReportFacts, ReportSettles
    <3>3. NothingTaken
      BY <1>7, <1>0, <2>2, <3>2 DEF ReportRaises, NothingTaken
    <3>4. CallerOk(t)'
      BY <1>7, <1>0, <2>2, <3>1, <3>2, ReportFacts DEF ReportRaises, Connecting, CommandsInv, CallerOk, Settled
    <3>5. \A u \in Caller : u # t => pc'[u] = pc[u] /\ after'[u] = after[u] /\ cur'[u] = cur[u]
      BY <1>0, <2>2, <3>1, ReportFacts
    <3> QED BY <1>0, <3>3, <3>4, <3>5, CommandsKeptBy
  <2> QED BY <1>7, <2>1, <2>2 DEF ReportRaises
<1>8. ASSUME NEW t \in Issuers, Issue(t)
      PROVE  CommandsInv'
  <2>1. PICK c \in Cmd : /\ cur' = [cur EXCEPT ![t] = c]
                         /\ ledger[c] = "new" /\ \A u \in Caller : cur[u] # c
    BY <1>8, <1>0, BeginFacts DEF Issue
  <2>2. /\ UNCHANGED <<after, ledger, pending, drive, conn>> /\ pc' = [pc EXCEPT ![t] = "acquire"]
        /\ pc[t] = "idle"
    BY <1>8 DEF Issue, Begin
  <2> QED BY <1>0, <2>1, <2>2 DEF CommandsInv
<1>9. ASSUME NEW t \in Issuers, IssueBatched(t)
      PROVE  CommandsInv'
  <2>1. PICK c \in Cmd : /\ cur' = [cur EXCEPT ![t] = c]
                         /\ ledger[c] = "new" /\ \A u \in Caller : cur[u] # c
    BY <1>9, <1>0, BeginFacts DEF IssueBatched
  <2>2. /\ UNCHANGED <<after, pending, drive, conn>> /\ pc' = [pc EXCEPT ![t] = "reconnect"]
        /\ pc[t] = "idle" /\ ledger' = [ledger EXCEPT ![c] = "batched"]
    BY <1>9, <1>0, <2>1 DEF IssueBatched, Begin
  <2>3. \A d \in Cmd : d # c => ledger'[d] = ledger[d]
    BY <1>0, <2>2
  <2>4. \A u \in Caller : u # t => pc'[u] = pc[u] /\ cur'[u] = cur[u] /\ cur[u] # c /\ CallerOk(u)
    BY <1>0, <2>1, <2>2 DEF CommandsInv, CallerOk
  <2>5. \A u \in Caller : CallerOk(u)'
    BY <1>0, <2>1, <2>2, <2>3, <2>4 DEF CallerOk
  <2>6. \A s \in Seqno : pending[s] # None => ledger'[pending[s]] \notin {"new", "batched"}
    BY <1>0, <2>1, <2>3 DEF CommandsInv
  <2>7. \A r \in drive : r.conn <= conn /\ (r.cmd # None => ledger'[r.cmd] # "new")
    BY <1>0, <2>2, <2>3 DEF CommandsInv
  <2>8. \A u, v \in Caller : cur'[u] # None /\ u # v => cur'[u] # cur'[v]
    BY <1>0, <2>1 DEF CommandsInv
  <2> QED BY <2>2, <2>5, <2>6, <2>7, <2>8 DEF CommandsInv, CallerOk
<1>10. ASSUME NEW t \in Caller, AcquireTake(t)
      PROVE  CommandsInv'
  <2>1. /\ UNCHANGED <<after, pending, drive, conn, cur>> /\ pc' = [pc EXCEPT ![t] = "reconnect"]
        /\ pc[t] = "acquire" /\ ledger' = [ledger EXCEPT ![cur[t]] = "open"]
    BY <1>10 DEF AcquireTake
  <2>2. cur[t] \in Cmd /\ ledger[cur[t]] = "new"
    BY <1>0, <2>1 DEF CommandsInv
  <2>3. \A d \in Cmd : d # cur[t] => ledger'[d] = ledger[d]
    BY <1>0, <2>1
  <2>4. \A u \in Caller : u # t => pc'[u] = pc[u] /\ cur[u] # cur[t] /\ CallerOk(u)
    BY <1>0, <2>1, <2>2 DEF CommandsInv, CallerOk
  <2>5. \A u \in Caller : CallerOk(u)'
    BY <1>0, <2>1, <2>2, <2>3, <2>4 DEF CallerOk
  <2>6. \A s \in Seqno : pending[s] # None => ledger'[pending[s]] \notin {"new", "batched"}
    BY <1>0, <2>1, <2>2, <2>3 DEF CommandsInv
  <2>7. \A r \in drive : r.conn <= conn /\ (r.cmd # None => ledger'[r.cmd] # "new")
    BY <1>0, <2>1, <2>2, <2>3 DEF CommandsInv
  <2> QED BY <2>1, <2>5, <2>6, <2>7 DEF CommandsInv, CallerOk
<1>11. ASSUME NEW t \in Caller, Register(t)
      PROVE  CommandsInv'
  <2>1. /\ UNCHANGED <<after, ledger, drive, conn, cur>> /\ pc' = [pc EXCEPT ![t] = "send"]
        /\ pc[t] = "register"
        /\ pending' = IF Batched(cur[t]) THEN pending ELSE [pending EXCEPT ![nextSeq] = cur[t]]
    BY <1>11 DEF Register
  <2>2. cur[t] \in Cmd /\ ledger[cur[t]] # "new"
    BY <1>0, <2>1 DEF CommandsInv
  <2>3. \A s \in Seqno : pending'[s] # None => ledger[pending'[s]] \notin {"new", "batched"}
    BY <1>0, <2>1, <2>2 DEF CommandsInv, Batched
  <2> QED BY <1>0, <2>1, <2>2, <2>3 DEF CommandsInv
<1>12. ASSUME NEW t \in Caller, Send(t)
      PROVE  CommandsInv'
  <2>1. /\ UNCHANGED <<after, ledger, conn, pending>> /\ pc' = [pc EXCEPT ![t] = "idle"]
        /\ pc[t] = "send" /\ cur' = [cur EXCEPT ![t] = None]
        /\ \A r \in drive' : r \in drive \/ r = [conn |-> conn, seq |-> curSeq[t], cmd |-> cur[t]]
    BY <1>12 DEF Send, SendReturns
  <2>2. cur[t] \in Cmd /\ ledger[cur[t]] # "new"
    BY <1>0, <2>1 DEF CommandsInv
  <2>3. \A r \in drive' : r.conn <= conn /\ (r.cmd # None => ledger[r.cmd] # "new")
    BY <1>0, <2>1, <2>2 DEF CommandsInv
  <2>4. \A u \in Caller : CallerOk(u)'
    BY <1>0, <2>1 DEF CommandsInv, CallerOk
  <2> QED BY <1>0, <2>1, <2>3, <2>4 DEF CommandsInv, CallerOk
<1>13. ASSUME NEW t \in Caller, Established(t)
      PROVE  CommandsInv'
  <2>1. conn' = conn + 1 /\ drive' = drive \cup {SignOn(conn')} /\ pc' = [pc EXCEPT ![t] = "sign_on"]
        /\ UNCHANGED <<cur, after, pending, ledger>> /\ pc[t] = "connect"
    BY <1>13 DEF Established
  <2>2. NothingTaken
    BY <1>0, <2>1 DEF NothingTaken, Settled, SignOn
  <2>3. CallerOk(t)'
    BY <1>0, <2>1 DEF CommandsInv, CallerOk
  <2> QED BY <1>0, <2>1, <2>2, <2>3, CommandsKeptBy
<1>14. ASSUME NEW t \in Caller, StartListener(t)
      PROVE  CommandsInv'
  <2>1. UNCHANGED <<ledger, pending, drive, conn>> /\ pc[t] = "start"
    BY <1>14 DEF StartListener
  <2>2. \/ pc' = [pc EXCEPT ![t] = "idle"] /\ cur' = [cur EXCEPT ![t] = None] /\ after' = after
        \/ pc' = [pc EXCEPT ![t] = Connecting(t)] /\ UNCHANGED <<cur, after>>
    BY <1>14, AbandonFacts DEF StartListener
  <2>3. NothingTaken /\ CallerOk(t)'
    BY <1>0, <2>1, <2>2 DEF NothingTaken, Settled, CommandsInv, CallerOk, Connecting
  <2> QED BY <1>0, <2>1, <2>2, <2>3, CommandsKeptBy
<1>15. ASSUME NEW t \in Caller, SignOnFails(t)
      PROVE  CommandsInv'
  <2>1. NothingTaken /\ CallerOk(t)'
    BY <1>15, <1>0 DEF SignOnFails, NothingTaken, Settled, CommandsInv, CallerOk, Abandon
  <2>2. \A u \in Caller : u # t => pc'[u] = pc[u] /\ after'[u] = after[u] /\ cur'[u] = cur[u]
    BY <1>15, <1>0 DEF SignOnFails, Abandon
  <2> QED BY <1>0, <2>1, <2>2, CommandsKeptBy
<1>16. ASSUME NEW t \in Caller, ReportDeletes(t)
      PROVE  CommandsInv'
  <2>1. UNCHANGED <<ledger, drive, conn>> /\ pc[t] = "callback" /\ \A s \in Seqno : pending'[s] \in {None, pending[s]}
    BY <1>16, <1>0 DEF ReportDeletes
  <2>2. \/ pc' = [pc EXCEPT ![t] = "idle"] /\ cur' = [cur EXCEPT ![t] = None] /\ after' = after
        \/ pc' = [pc EXCEPT ![t] = "release"] /\ UNCHANGED <<cur, after>>
    BY <1>16, AbandonFacts DEF ReportDeletes
  <2>3. NothingTaken /\ CallerOk(t)'
    BY <1>0, <2>1, <2>2 DEF NothingTaken, Settled, CommandsInv, CallerOk
  <2> QED BY <1>0, <2>1, <2>2, <2>3, CommandsKeptBy
<1>17. ASSUME NEW t \in Caller, ReportReleases(t)
      PROVE  CommandsInv'
  <2>1. UNCHANGED <<ledger, pending, drive, conn, cur, after>> /\ pc[t] = "release"
        /\ pc' = [pc EXCEPT ![t] = after[t]] /\ after[t] \in Return
    BY <1>17 DEF ReportReleases, TypeInv
  <2>2. NothingTaken /\ CallerOk(t)'
    BY <1>0, <2>1 DEF NothingTaken, Settled, CommandsInv, CallerOk, Return
  <2> QED BY <1>0, <2>1, <2>2, CommandsKeptBy
<1>18. ASSUME NEW t \in Openers, Connect(t)
      PROVE  CommandsInv'
  <2>1. NothingTaken /\ CallerOk(t)'
    BY <1>18, <1>0 DEF Connect, NothingTaken, Settled, CommandsInv, CallerOk
  <2>2. \A u \in Caller : u # t => pc'[u] = pc[u] /\ after'[u] = after[u] /\ cur'[u] = cur[u]
    BY <1>18, <1>0 DEF Connect
  <2> QED BY <1>0, <2>1, <2>2, CommandsKeptBy
<1>19. ASSUME NEW t \in Drainers, WaitQCall(t)
      PROVE  CommandsInv'
  <2>1. NothingTaken /\ CallerOk(t)'
    BY <1>19, <1>0 DEF WaitQCall, NothingTaken, Settled, CommandsInv, CallerOk
  <2>2. \A u \in Caller : u # t => pc'[u] = pc[u] /\ after'[u] = after[u] /\ cur'[u] = cur[u]
    BY <1>19, <1>0 DEF WaitQCall
  <2> QED BY <1>0, <2>1, <2>2, CommandsKeptBy
<1>20. ASSUME NEW t \in Closers, Close(t)
      PROVE  CommandsInv'
  <2>1. NothingTaken /\ CallerOk(t)'
    BY <1>20, <1>0 DEF Close, NothingTaken, Settled, CommandsInv, CallerOk
  <2>2. \A u \in Caller : u # t => pc'[u] = pc[u] /\ after'[u] = after[u] /\ cur'[u] = cur[u]
    BY <1>20, <1>0 DEF Close
  <2> QED BY <1>0, <2>1, <2>2, CommandsKeptBy
<1>21. ASSUME NEW t \in Caller, NewSocket(t)
      PROVE  CommandsInv'
  <2>1. NothingTaken /\ CallerOk(t)'
    BY <1>21, <1>0 DEF NewSocket, NothingTaken, Settled, CommandsInv, CallerOk
  <2>2. \A u \in Caller : u # t => pc'[u] = pc[u] /\ after'[u] = after[u] /\ cur'[u] = cur[u]
    BY <1>21, <1>0 DEF NewSocket
  <2> QED BY <1>0, <2>1, <2>2, CommandsKeptBy
<1>22. ASSUME NEW t \in Caller, Renumber(t)
      PROVE  CommandsInv'
  <2>1. NothingTaken /\ CallerOk(t)'
    BY <1>22, <1>0 DEF Renumber, NothingTaken, Settled, CommandsInv, CallerOk
  <2>2. \A u \in Caller : u # t => pc'[u] = pc[u] /\ after'[u] = after[u] /\ cur'[u] = cur[u]
    BY <1>22, <1>0 DEF Renumber
  <2> QED BY <1>0, <2>1, <2>2, CommandsKeptBy
<1>23. ASSUME NEW t \in Caller, NewThread(t)
      PROVE  CommandsInv'
  <2>1. NothingTaken /\ CallerOk(t)'
    BY <1>23, <1>0 DEF NewThread, NothingTaken, Settled, CommandsInv, CallerOk
  <2>2. \A u \in Caller : u # t => pc'[u] = pc[u] /\ after'[u] = after[u] /\ cur'[u] = cur[u]
    BY <1>23, <1>0 DEF NewThread
  <2> QED BY <1>0, <2>1, <2>2, CommandsKeptBy
<1>24. ASSUME NEW t \in Caller, SetConnected(t)
      PROVE  CommandsInv'
  <2>1. NothingTaken /\ CallerOk(t)'
    BY <1>24, <1>0 DEF SetConnected, NothingTaken, Settled, CommandsInv, CallerOk
  <2>2. \A u \in Caller : u # t => pc'[u] = pc[u] /\ after'[u] = after[u] /\ cur'[u] = cur[u]
    BY <1>24, <1>0 DEF SetConnected
  <2> QED BY <1>0, <2>1, <2>2, CommandsKeptBy
<1>25. ASSUME NEW t \in Caller, Reconnect(t)
      PROVE  CommandsInv'
  <2>1. NothingTaken /\ CallerOk(t)'
    BY <1>25, <1>0 DEF Reconnect, NothingTaken, Settled, CommandsInv, CallerOk
  <2>2. \A u \in Caller : u # t => pc'[u] = pc[u] /\ after'[u] = after[u] /\ cur'[u] = cur[u]
    BY <1>25, <1>0 DEF Reconnect
  <2> QED BY <1>0, <2>1, <2>2, CommandsKeptBy
<1>26. ASSUME NEW t \in Caller, Shutdown(t)
      PROVE  CommandsInv'
  <2>1. NothingTaken /\ CallerOk(t)'
    BY <1>26, <1>0 DEF Shutdown, NothingTaken, Settled, CommandsInv, CallerOk
  <2>2. \A u \in Caller : u # t => pc'[u] = pc[u] /\ after'[u] = after[u] /\ cur'[u] = cur[u]
    BY <1>26, <1>0 DEF Shutdown
  <2> QED BY <1>0, <2>1, <2>2, CommandsKeptBy
<1>27. ASSUME NEW t \in Caller, Wipe(t)
      PROVE  CommandsInv'
  <2>1. NothingTaken /\ CallerOk(t)'
    BY <1>27, <1>0 DEF Wipe, NothingTaken, Settled, CommandsInv, CallerOk
  <2>2. \A u \in Caller : u # t => pc'[u] = pc[u] /\ after'[u] = after[u] /\ cur'[u] = cur[u]
    BY <1>27, <1>0 DEF Wipe
  <2> QED BY <1>0, <2>1, <2>2, CommandsKeptBy
<1>28. ASSUME NEW t \in Caller, Clear(t)
      PROVE  CommandsInv'
  <2>1. NothingTaken /\ CallerOk(t)'
    BY <1>28, <1>0 DEF Clear, NothingTaken, Settled, CommandsInv, CallerOk
  <2>2. \A u \in Caller : u # t => pc'[u] = pc[u] /\ after'[u] = after[u] /\ cur'[u] = cur[u]
    BY <1>28, <1>0 DEF Clear
  <2> QED BY <1>0, <2>1, <2>2, CommandsKeptBy
<1>29. ASSUME NEW t \in Caller, Join(t)
      PROVE  CommandsInv'
  <2>1. NothingTaken /\ CallerOk(t)'
    BY <1>29, <1>0 DEF Join, NothingTaken, Settled, CommandsInv, CallerOk
  <2>2. \A u \in Caller : u # t => pc'[u] = pc[u] /\ after'[u] = after[u] /\ cur'[u] = cur[u]
    BY <1>29, <1>0 DEF Join
  <2> QED BY <1>0, <2>1, <2>2, CommandsKeptBy
<1>30. ASSUME NEW t \in Caller, Forget(t)
      PROVE  CommandsInv'
  <2>1. NothingTaken /\ CallerOk(t)'
    BY <1>30, <1>0 DEF Forget, NothingTaken, Settled, CommandsInv, CallerOk
  <2>2. \A u \in Caller : u # t => pc'[u] = pc[u] /\ after'[u] = after[u] /\ cur'[u] = cur[u]
    BY <1>30, <1>0 DEF Forget
  <2> QED BY <1>0, <2>1, <2>2, CommandsKeptBy
<1>31. ASSUME NEW t \in Caller, WaitQTrue(t)
      PROVE  CommandsInv'
  <2>1. NothingTaken /\ CallerOk(t)'
    BY <1>31, <1>0 DEF WaitQTrue, NothingTaken, Settled, CommandsInv, CallerOk
  <2>2. \A u \in Caller : u # t => pc'[u] = pc[u] /\ after'[u] = after[u] /\ cur'[u] = cur[u]
    BY <1>31, <1>0 DEF WaitQTrue
  <2> QED BY <1>0, <2>1, <2>2, CommandsKeptBy
<1>32. ASSUME NEW t \in Caller, AcquireSleep(t) \/ WaitQSleep(t)
      PROVE  CommandsInv'
  BY <1>32, <1>0, <1>k DEF AcquireSleep, WaitQSleep, NothingTaken, Settled
<1>33. ASSUME NEW l \in Conn,
                ListenTest(l) \/ CallbackReturns(l) \/ SlotReleased(l) \/ RecvSSLError(l)
               \/ ScanDisturbed(l)
      PROVE  CommandsInv'
  BY <1>33, <1>0, <1>k DEF ListenTest, CallbackReturns, SlotReleased, RecvSSLError, ScanDisturbed, NothingTaken, Settled
<1>34. ASSUME NEW l \in Conn, RecvError(l) \/ CallbackRaises(l) \/ RecvTimeout(l)
      PROVE  CommandsInv'
  <2>1. \/ \E label \in {"loop", "dead"} : LReport(l, label)
        \/ ledger' = ledger
    BY <1>34 DEF RecvError, CallbackRaises, RecvTimeout
  <2>2. Settled
    BY <2>1, LReportFacts, ReportSettles
  <2> QED BY <1>34, <1>0, <1>k, <2>2 DEF RecvError, CallbackRaises, RecvTimeout, NothingTaken
<1>35. ASSUME NEW l \in Conn, NEW r \in drive, Receive(l, r)
      PROVE  CommandsInv'
  <2>1. drive' \subseteq drive /\ r.seq \in Seqno /\ UNCHANGED <<pc, cur, after, pending, conn>>
        /\ \/ ledger' = ledger
           \/ /\ pending[r.seq] # None
              /\ \E new \in {"failed", "done"} : ledger' = [ledger EXCEPT ![pending[r.seq]] = new]
    BY <1>35, <1>0 DEF Receive
  <2>2. pending[r.seq] # None => pending[r.seq] \in Cmd /\ ledger[pending[r.seq]] \notin {"new", "batched"}
    BY <1>0, <2>1 DEF CommandsInv
  <2>3. Settled
    BY <1>0, <2>1, <2>2 DEF Settled
  <2> QED BY <1>0, <1>k, <2>1, <2>3 DEF NothingTaken
<1>36. ASSUME NEW l \in Conn, NEW r \in drive, BadAnswer(l, r)
      PROVE  CommandsInv'
  <2>1. drive' \subseteq drive /\ UNCHANGED <<pc, cur, after, pending, conn>> /\ LReport(l, "loop")
    BY <1>36 DEF BadAnswer
  <2>2. Settled
    BY <2>1, LReportFacts, ReportSettles
  <2> QED BY <1>0, <1>k, <2>1, <2>2 DEF NothingTaken
<1>37. ASSUME NEW c \in up, ConnectionDrops(c)
      PROVE  CommandsInv'
  BY <1>37, <1>0, <1>k DEF ConnectionDrops, NothingTaken, Settled
<1>38. CASE UNCHANGED vars
  BY <1>38, <1>0, <1>k DEF vars, NothingTaken, Settled
<1> QED
  BY <1>1, <1>2, <1>3, <1>4, <1>5, <1>6, <1>7, <1>8, <1>9, <1>10, <1>11, <1>12, <1>13, <1>14,
     <1>15, <1>16, <1>17, <1>18, <1>19, <1>20, <1>21, <1>22, <1>23, <1>24, <1>25, <1>26, <1>27,
     <1>28, <1>29, <1>30, <1>31, <1>32, <1>33, <1>34, <1>35, <1>36, <1>37, <1>38
     DEF Next, CallerStep, ConnectStep, CommandStep, CloseStep, ListenerStep, ListenerFault, Caller

-----------------------------------------------------------------------------
(* One application thread.  The only listener alive is the one that close() *)
(* would join, and while the client is not connected there is none, except  *)
(* inside close().                                                          *)
Ending == {"shutdown", "wipe", "clear", "join"}
Connects(t) == pc[t] \in ConnectLabel \/ (pc[t] \in ReportLabel /\ after[t] = "renumber")

ConnectionInv ==
  /\ \A l \in Conn : Alive(l) => l = handle
  /\ ~connected /\ (\A t \in Caller : pc[t] \notin Ending) => \A l \in Conn : ~Alive(l)
  /\ \A t \in Caller :
       /\ Connects(t) \/ pc[t] \in CloseLabel => ~connected
       /\ pc[t] \in {"set", "start"} => handle \in Conn /\ lpc[handle] = "unborn"
       /\ pc[t] = "start" => connected
       /\ pc[t] = "join" => joined[t] = handle

(* Without auto reconnect a command is under way only while connected, the  *)
(* numbers in use lie below the next one, and a closed client has forgotten *)
(* its commands and their slots.                                            *)
TableInv ==
  /\ autoReconnect = 0 =>
       /\ \A t \in Caller : cur[t] # None => connected /\ pc[t] \in OpLabel
       /\ \A s \in Seqno : pending[s] # None => s < nextSeq
       /\ ~connected /\ (\A t \in Caller : pc[t] \notin {"shutdown", "wipe", "clear"})
            => outstanding = 0 /\ \A s \in Seqno : pending[s] = None
  /\ \A t \in Caller :
       /\ pc[t] \in {"clear", "join"} => \A s \in Seqno : pending[s] = None
       /\ pc[t] = "join" => outstanding = 0

(* A listener step that starts no thread.                                   *)
LEMMA ConnectionKept ==
  ASSUME ConnectionInv, UNCHANGED <<connected, pc, after, joined, handle>>,
         TypeInv,
         \A l \in Conn : lpc'[l] = lpc[l] \/ (lpc[l] # "unborn" /\ lpc'[l] # "unborn" /\ (Alive(l)' => Alive(l)))
  PROVE  ConnectionInv'
<1>1. \A l \in Conn : (Alive(l)' => Alive(l)) /\ (lpc[l] = "unborn" => lpc'[l] = "unborn")
  BY DEF Alive
<1> QED BY <1>1 DEF ConnectionInv, Connects, TypeInv

LEMMA ConnectionStep ==
  ASSUME Alone, TypeInv, CommandsInv, ConnectionInv, [Next]_vars
  PROVE  ConnectionInv'
<1> USE DEF netVars, socketVars, tableVars, semVars, opVars, callerVars, listenerVars, Goto, LGoto, Idle,
            Connects, Ending, ReportLabel, ConnectLabel, OpLabel, CloseLabel
<1>0. /\ pc \in [Caller -> Label] /\ cur \in [Caller -> Cmd \cup {None}] /\ after \in [Caller -> Return]
      /\ lpc \in [Conn -> {"unborn", "loop", "recv", "callback", "release", "dead"}]
      /\ joined \in [Caller -> Conn \cup {None}] /\ handle \in Conn \cup {None} /\ None \notin Conn
      /\ lnext \in [Conn -> {"loop", "dead"}]
      /\ Issuers \cup Drainers \cup Openers \cup Closers \subseteq Caller
  BY ConstantFacts DEF TypeInv, Caller
<1>a. \A t, u \in Caller : t = u
  BY DEF Alone
<1>1. ASSUME NEW t \in Openers, Connect(t)
      PROVE  ConnectionInv'
  BY <1>1, <1>0, <1>a DEF Connect, ConnectionInv, Alive
<1>2. ASSUME NEW t \in Issuers, IssueRefused(t)
      PROVE  ConnectionInv'
  BY <1>2, <1>0, <1>a DEF IssueRefused, Report, ConnectionInv, Alive
<1>3. ASSUME NEW t \in Issuers, Issue(t)
      PROVE  ConnectionInv'
  BY <1>3, <1>0, <1>a DEF Issue, Begin, ConnectionInv, Alive
<1>4. ASSUME NEW t \in Issuers, IssueBatched(t)
      PROVE  ConnectionInv'
  BY <1>4, <1>0, <1>a DEF IssueBatched, Begin, ConnectionInv, Alive
<1>5. ASSUME NEW t \in Drainers, WaitQCall(t)
      PROVE  ConnectionInv'
  BY <1>5, <1>0, <1>a DEF WaitQCall, ConnectionInv, Alive
<1>6. ASSUME NEW t \in Closers, Close(t)
      PROVE  ConnectionInv'
  BY <1>6, <1>0, <1>a DEF Close, ConnectionInv, Alive
<1>7. ASSUME NEW t \in Caller, NewSocket(t)
      PROVE  ConnectionInv'
  BY <1>7, <1>0, <1>a DEF NewSocket, ConnectionInv, Alive
<1>8. ASSUME NEW t \in Caller, Established(t)
      PROVE  ConnectionInv'
  BY <1>8, <1>0, <1>a DEF Established, ConnectionInv, Alive
<1>9. ASSUME NEW t \in Caller, Refused(t)
      PROVE  ConnectionInv'
  BY <1>9, <1>0, <1>a DEF Refused, Report, Connecting, ConnectionInv, Alive
<1>10. ASSUME NEW t \in Caller, SignedOn(t)
      PROVE  ConnectionInv'
  BY <1>10, <1>0, <1>a DEF SignedOn, Report, ConnectionInv, Alive
<1>11. ASSUME NEW t \in Caller, SignOnRefused(t)
      PROVE  ConnectionInv'
  BY <1>11, <1>0, <1>a DEF SignOnRefused, Report, Connecting, ConnectionInv, Alive
<1>12. ASSUME NEW t \in Caller, SignOnFails(t)
      PROVE  ConnectionInv'
  BY <1>12, <1>0, <1>a DEF SignOnFails, Abandon, ConnectionInv, Alive
<1>13. ASSUME NEW t \in Caller, Renumber(t)
      PROVE  ConnectionInv'
  BY <1>13, <1>0, <1>a DEF Renumber, ConnectionInv, Alive
<1>14. ASSUME NEW t \in Caller, NewThread(t)
      PROVE  ConnectionInv'
  BY <1>14, <1>0, <1>a DEF NewThread, ConnectionInv, Alive
<1>15. ASSUME NEW t \in Caller, SetConnected(t)
      PROVE  ConnectionInv'
  BY <1>15, <1>0, <1>a DEF SetConnected, ConnectionInv, Alive
<1>16. ASSUME NEW t \in Caller, StartListener(t)
      PROVE  ConnectionInv'
  BY <1>16, <1>0, <1>a DEF StartListener, Abandon, Connecting, ConnectionInv, Alive
<1>17. ASSUME NEW t \in Caller, AcquireSleep(t)
      PROVE  ConnectionInv'
  BY <1>17, <1>0, <1>a DEF AcquireSleep, ConnectionInv, Alive
<1>18. ASSUME NEW t \in Caller, AcquireTake(t)
      PROVE  ConnectionInv'
  BY <1>18, <1>0, <1>a DEF AcquireTake, ConnectionInv, Alive
<1>19. ASSUME NEW t \in Caller, Reconnect(t)
      PROVE  ConnectionInv'
  BY <1>19, <1>0, <1>a DEF Reconnect, ConnectionInv, Alive
<1>20. ASSUME NEW t \in Caller, LeaveReconnect(t)
      PROVE  ConnectionInv'
  BY <1>20, <1>0, <1>a DEF LeaveReconnect, Report, ConnectionInv, Alive
<1>21. ASSUME NEW t \in Caller, Register(t)
      PROVE  ConnectionInv'
  BY <1>21, <1>0, <1>a DEF Register, ConnectionInv, Alive
<1>22. ASSUME NEW t \in Caller, Send(t)
      PROVE  ConnectionInv'
  BY <1>22, <1>0, <1>a DEF Send, SendReturns, ConnectionInv, Alive
<1>23. ASSUME NEW t \in Caller, SendError(t)
      PROVE  ConnectionInv'
  BY <1>23, <1>0, <1>a DEF SendError, Report, SendReturns, ConnectionInv, Alive
<1>24. ASSUME NEW t \in Caller, Shutdown(t)
      PROVE  ConnectionInv'
  BY <1>24, <1>0, <1>a DEF Shutdown, ConnectionInv, Alive
<1>25. ASSUME NEW t \in Caller, Wipe(t)
      PROVE  ConnectionInv'
  BY <1>25, <1>0, <1>a DEF Wipe, ConnectionInv, Alive
<1>26. ASSUME NEW t \in Caller, Clear(t)
      PROVE  ConnectionInv'
  BY <1>26, <1>0, <1>a DEF Clear, ConnectionInv, Alive
<1>27. ASSUME NEW t \in Caller, Join(t)
      PROVE  ConnectionInv'
  BY <1>27, <1>0, <1>a DEF Join, ConnectionInv, Alive
<1>28. ASSUME NEW t \in Caller, Forget(t)
      PROVE  ConnectionInv'
  BY <1>28, <1>0, <1>a DEF Forget, ConnectionInv, Alive
<1>29. ASSUME NEW t \in Caller, WaitQSleep(t)
      PROVE  ConnectionInv'
  BY <1>29, <1>0, <1>a DEF WaitQSleep, ConnectionInv, Alive
<1>30. ASSUME NEW t \in Caller, WaitQTrue(t)
      PROVE  ConnectionInv'
  BY <1>30, <1>0, <1>a DEF WaitQTrue, ConnectionInv, Alive
<1>31. ASSUME NEW t \in Caller, ReportDeletes(t)
      PROVE  ConnectionInv'
  BY <1>31, <1>0, <1>a DEF ReportDeletes, Abandon, ConnectionInv, Alive
<1>32. ASSUME NEW t \in Caller, ReportReleases(t)
      PROVE  ConnectionInv'
  BY <1>32, <1>0, <1>a DEF ReportReleases, Return, ConnectionInv, Alive
<1>33. ASSUME NEW t \in Caller, ReportRaises(t)
      PROVE  ConnectionInv'
  BY <1>33, <1>0, <1>a DEF ReportRaises, Abandon, Report, Connecting, ConnectionInv, Alive
<1>34. ASSUME NEW l \in Conn, ListenTest(l)
      PROVE  ConnectionInv'
  <2>1. UNCHANGED <<connected, pc, after, joined, handle>>
    BY <1>34 DEF ListenTest
  <2>2. \A k \in Conn : lpc'[k] = lpc[k] \/ (lpc[k] # "unborn" /\ lpc'[k] # "unborn" /\ (Alive(k)' => Alive(k)))
    BY <1>34, <1>0 DEF ListenTest, Alive
  <2> QED BY <2>1, <2>2, ConnectionKept
<1>35. ASSUME NEW l \in Conn, CallbackReturns(l)
      PROVE  ConnectionInv'
  <2>1. UNCHANGED <<connected, pc, after, joined, handle>>
    BY <1>35 DEF CallbackReturns
  <2>2. \A k \in Conn : lpc'[k] = lpc[k] \/ (lpc[k] # "unborn" /\ lpc'[k] # "unborn" /\ (Alive(k)' => Alive(k)))
    BY <1>35, <1>0 DEF CallbackReturns, Alive
  <2> QED BY <2>1, <2>2, ConnectionKept
<1>36. ASSUME NEW l \in Conn, SlotReleased(l)
      PROVE  ConnectionInv'
  <2>1. UNCHANGED <<connected, pc, after, joined, handle>>
    BY <1>36 DEF SlotReleased
  <2>2. \A k \in Conn : lpc'[k] = lpc[k] \/ (lpc[k] # "unborn" /\ lpc'[k] # "unborn" /\ (Alive(k)' => Alive(k)))
    BY <1>36, <1>0 DEF SlotReleased, Alive
  <2> QED BY <2>1, <2>2, ConnectionKept
<1>37. ASSUME NEW l \in Conn, RecvError(l)
      PROVE  ConnectionInv'
  <2>1. UNCHANGED <<connected, pc, after, joined, handle>>
    BY <1>37 DEF RecvError
  <2>2. \A k \in Conn : lpc'[k] = lpc[k] \/ (lpc[k] # "unborn" /\ lpc'[k] # "unborn" /\ (Alive(k)' => Alive(k)))
    BY <1>37, <1>0 DEF RecvError, LReport, Alive
  <2> QED BY <2>1, <2>2, ConnectionKept
<1>38. ASSUME NEW l \in Conn, CallbackRaises(l)
      PROVE  ConnectionInv'
  <2>1. UNCHANGED <<connected, pc, after, joined, handle>>
    BY <1>38 DEF CallbackRaises
  <2>2. \A k \in Conn : lpc'[k] = lpc[k] \/ (lpc[k] # "unborn" /\ lpc'[k] # "unborn" /\ (Alive(k)' => Alive(k)))
    BY <1>38, <1>0 DEF CallbackRaises, LReport, Alive
  <2> QED BY <2>1, <2>2, ConnectionKept
<1>39. ASSUME NEW l \in Conn, RecvSSLError(l)
      PROVE  ConnectionInv'
  <2>1. UNCHANGED <<connected, pc, after, joined, handle>>
    BY <1>39 DEF RecvSSLError
  <2>2. \A k \in Conn : lpc'[k] = lpc[k] \/ (lpc[k] # "unborn" /\ lpc'[k] # "unborn" /\ (Alive(k)' => Alive(k)))
    BY <1>39, <1>0 DEF RecvSSLError, Alive
  <2> QED BY <2>1, <2>2, ConnectionKept
<1>40. ASSUME NEW l \in Conn, RecvTimeout(l)
      PROVE  ConnectionInv'
  <2>1. UNCHANGED <<connected, pc, after, joined, handle>>
    BY <1>40 DEF RecvTimeout
  <2>2. \A k \in Conn : lpc'[k] = lpc[k] \/ (lpc[k] # "unborn" /\ lpc'[k] # "unborn" /\ (Alive(k)' => Alive(k)))
    BY <1>40, <1>0 DEF RecvTimeout, LReport, Alive
  <2> QED BY <2>1, <2>2, ConnectionKept
<1>41. ASSUME NEW l \in Conn, ScanDisturbed(l)
      PROVE  ConnectionInv'
  <2>1. UNCHANGED <<connected, pc, after, joined, handle>>
    BY <1>41 DEF ScanDisturbed
  <2>2. \A k \in Conn : lpc'[k] = lpc[k] \/ (lpc[k] # "unborn" /\ lpc'[k] # "unborn" /\ (Alive(k)' => Alive(k)))
    BY <1>41, <1>0 DEF ScanDisturbed, Alive
  <2> QED BY <2>1, <2>2, ConnectionKept
<1>42. ASSUME NEW l \in Conn, NEW r \in drive, Receive(l, r)
      PROVE  ConnectionInv'
  <2>1. UNCHANGED <<connected, pc, after, joined, handle>>
    BY <1>42 DEF Receive
  <2>2. \A k \in Conn : lpc'[k] = lpc[k] \/ (lpc[k] # "unborn" /\ lpc'[k] # "unborn" /\ (Alive(k)' => Alive(k)))
    BY <1>42, <1>0 DEF Receive, Alive
  <2> QED BY <2>1, <2>2, ConnectionKept
<1>43. ASSUME NEW l \in Conn, NEW r \in drive, BadAnswer(l, r)
      PROVE  ConnectionInv'
  <2>1. UNCHANGED <<connected, pc, after, joined, handle>>
    BY <1>43 DEF BadAnswer
  <2>2. \A k \in Conn : lpc'[k] = lpc[k] \/ (lpc[k] # "unborn" /\ lpc'[k] # "unborn" /\ (Alive(k)' => Alive(k)))
    BY <1>43, <1>0 DEF BadAnswer, LReport, Alive
  <2> QED BY <2>1, <2>2, ConnectionKept
<1>44. ASSUME NEW c \in up, ConnectionDrops(c)
      PROVE  ConnectionInv'
  BY <1>44, ConnectionKept DEF ConnectionDrops
<1>45. CASE UNCHANGED vars
  BY <1>45, ConnectionKept DEF vars
<1> QED
  BY <1>1, <1>2, <1>3, <1>4, <1>5, <1>6, <1>7, <1>8, <1>9, <1>10, <1>11, <1>12, <1>13, <1>14,
     <1>15, <1>16, <1>17, <1>18, <1>19, <1>20, <1>21, <1>22, <1>23, <1>24, <1>25, <1>26, <1>27,
     <1>28, <1>29, <1>30, <1>31, <1>32, <1>33, <1>34, <1>35, <1>36, <1>37, <1>38, <1>39, <1>40,
     <1>41, <1>42, <1>43, <1>44, <1>45
     DEF Next, CallerStep, ConnectStep, CommandStep, CloseStep, ListenerStep, ListenerFault, Caller

LEMMA TableStep ==
  ASSUME Alone, TypeInv, CommandsInv, ConnectionInv, TableInv, [Next]_vars
  PROVE  TableInv'
<1> USE DEF netVars, socketVars, tableVars, semVars, opVars, callerVars, listenerVars, Goto, LGoto, Idle,
            Connects, ReportLabel, ConnectLabel, OpLabel, CloseLabel
<1>0. /\ pc \in [Caller -> Label] /\ cur \in [Caller -> Cmd \cup {None}] /\ after \in [Caller -> Return]
      /\ pending \in [Seqno -> Cmd \cup {None}] /\ nextSeq \in Nat /\ Seqno \subseteq Nat /\ 0 \in Seqno
      /\ lseq \in [Conn -> Seqno] /\ outstanding \in Nat /\ autoReconnect \in Nat
      /\ tries \in [Caller -> Nat]
      /\ Issuers \cup Drainers \cup Openers \cup Closers \subseteq Caller
  BY ConstantFacts, ClientAssumption DEF TypeInv, Caller
<1>a. \A t, u \in Caller : t = u
  BY DEF Alone
<1>r. Release => (outstanding = 0 => outstanding' = 0)
  BY <1>0, ReleaseFacts DEF TypeInv
<1>1. ASSUME NEW t \in Openers, Connect(t)
      PROVE  TableInv'
  BY <1>1, <1>0, <1>a, <1>r DEF Connect, TableInv, CommandsInv, ConnectionInv
<1>2. ASSUME NEW t \in Issuers, IssueRefused(t)
      PROVE  TableInv'
  BY <1>2, <1>0, <1>a, <1>r DEF IssueRefused, Report, TableInv, CommandsInv, ConnectionInv
<1>3. ASSUME NEW t \in Issuers, Issue(t)
      PROVE  TableInv'
  BY <1>3, <1>0, <1>a, <1>r DEF Issue, Begin, TableInv, CommandsInv, ConnectionInv
<1>4. ASSUME NEW t \in Issuers, IssueBatched(t)
      PROVE  TableInv'
  BY <1>4, <1>0, <1>a, <1>r DEF IssueBatched, Begin, TableInv, CommandsInv, ConnectionInv
<1>5. ASSUME NEW t \in Drainers, WaitQCall(t)
      PROVE  TableInv'
  BY <1>5, <1>0, <1>a, <1>r DEF WaitQCall, TableInv, CommandsInv, ConnectionInv
<1>6. ASSUME NEW t \in Closers, Close(t)
      PROVE  TableInv'
  BY <1>6, <1>0, <1>a, <1>r DEF Close, TableInv, CommandsInv, ConnectionInv
<1>7. ASSUME NEW t \in Caller, NewSocket(t)
      PROVE  TableInv'
  BY <1>7, <1>0, <1>a, <1>r DEF NewSocket, TableInv, CommandsInv, ConnectionInv
<1>8. ASSUME NEW t \in Caller, Established(t)
      PROVE  TableInv'
  BY <1>8, <1>0, <1>a, <1>r DEF Established, TableInv, CommandsInv, ConnectionInv
<1>9. ASSUME NEW t \in Caller, Refused(t)
      PROVE  TableInv'
  BY <1>9, <1>0, <1>a, <1>r DEF Refused, Report, Connecting, TableInv, CommandsInv, ConnectionInv
<1>10. ASSUME NEW t \in Caller, SignedOn(t)
      PROVE  TableInv'
  BY <1>10, <1>0, <1>a, <1>r DEF SignedOn, Report, TableInv, CommandsInv, ConnectionInv
<1>11. ASSUME NEW t \in Caller, SignOnRefused(t)
      PROVE  TableInv'
  BY <1>11, <1>0, <1>a, <1>r DEF SignOnRefused, Report, Connecting, TableInv, CommandsInv, ConnectionInv
<1>12. ASSUME NEW t \in Caller, SignOnFails(t)
      PROVE  TableInv'
  BY <1>12, <1>0, <1>a, <1>r DEF SignOnFails, Abandon, TableInv, CommandsInv, ConnectionInv
<1>13. ASSUME NEW t \in Caller, Renumber(t)
      PROVE  TableInv'
  BY <1>13, <1>0, <1>a, <1>r DEF Renumber, TableInv, CommandsInv, ConnectionInv
<1>14. ASSUME NEW t \in Caller, NewThread(t)
      PROVE  TableInv'
  BY <1>14, <1>0, <1>a, <1>r DEF NewThread, TableInv, CommandsInv, ConnectionInv
<1>15. ASSUME NEW t \in Caller, SetConnected(t)
      PROVE  TableInv'
  BY <1>15, <1>0, <1>a, <1>r DEF SetConnected, TableInv, CommandsInv, ConnectionInv
<1>16. ASSUME NEW t \in Caller, StartListener(t)
      PROVE  TableInv'
  BY <1>16, <1>0, <1>a, <1>r DEF StartListener, Abandon, Connecting, TableInv, CommandsInv, ConnectionInv
<1>17. ASSUME NEW t \in Caller, AcquireSleep(t)
      PROVE  TableInv'
  BY <1>17, <1>0, <1>a, <1>r DEF AcquireSleep, TableInv, CommandsInv, ConnectionInv
<1>18. ASSUME NEW t \in Caller, Reconnect(t)
      PROVE  TableInv'
  BY <1>18, <1>0, <1>a, <1>r DEF Reconnect, TableInv, CommandsInv, ConnectionInv
<1>19. ASSUME NEW t \in Caller, LeaveReconnect(t)
      PROVE  TableInv'
  BY <1>19, <1>0, <1>a, <1>r DEF LeaveReconnect, Report, TableInv, CommandsInv, ConnectionInv
<1>20. ASSUME NEW t \in Caller, Register(t)
      PROVE  TableInv'
  BY <1>20, <1>0, <1>a, <1>r DEF Register, TableInv, CommandsInv, ConnectionInv
<1>21. ASSUME NEW t \in Caller, Send(t)
      PROVE  TableInv'
  BY <1>21, <1>0, <1>a, <1>r DEF Send, SendReturns, TableInv, CommandsInv, ConnectionInv
<1>22. ASSUME NEW t \in Caller, SendError(t)
      PROVE  TableInv'
  BY <1>22, <1>0, <1>a, <1>r DEF SendError, Report, SendReturns, TableInv, CommandsInv, ConnectionInv
<1>23. ASSUME NEW t \in Caller, Shutdown(t)
      PROVE  TableInv'
  BY <1>23, <1>0, <1>a, <1>r DEF Shutdown, TableInv, CommandsInv, ConnectionInv
<1>24. ASSUME NEW t \in Caller, Wipe(t)
      PROVE  TableInv'
  BY <1>24, <1>0, <1>a, <1>r DEF Wipe, TableInv, CommandsInv, ConnectionInv
<1>25. ASSUME NEW t \in Caller, Clear(t)
      PROVE  TableInv'
  BY <1>25, <1>0, <1>a, <1>r DEF Clear, TableInv, CommandsInv, ConnectionInv
<1>26. ASSUME NEW t \in Caller, Join(t)
      PROVE  TableInv'
  BY <1>26, <1>0, <1>a, <1>r DEF Join, TableInv, CommandsInv, ConnectionInv
<1>27. ASSUME NEW t \in Caller, Forget(t)
      PROVE  TableInv'
  BY <1>27, <1>0, <1>a, <1>r DEF Forget, TableInv, CommandsInv, ConnectionInv
<1>28. ASSUME NEW t \in Caller, WaitQSleep(t)
      PROVE  TableInv'
  BY <1>28, <1>0, <1>a, <1>r DEF WaitQSleep, TableInv, CommandsInv, ConnectionInv
<1>29. ASSUME NEW t \in Caller, WaitQTrue(t)
      PROVE  TableInv'
  BY <1>29, <1>0, <1>a, <1>r DEF WaitQTrue, TableInv, CommandsInv, ConnectionInv
<1>30. ASSUME NEW t \in Caller, ReportDeletes(t)
      PROVE  TableInv'
  BY <1>30, <1>0, <1>a, <1>r DEF ReportDeletes, Abandon, TableInv, CommandsInv, ConnectionInv
<1>31. ASSUME NEW t \in Caller, ReportReleases(t)
      PROVE  TableInv'
  BY <1>31, <1>0, <1>a, <1>r DEF ReportReleases, Return, TableInv, CommandsInv, ConnectionInv
<1>32. ASSUME NEW t \in Caller, ReportRaises(t)
      PROVE  TableInv'
  BY <1>32, <1>0, <1>a, <1>r DEF ReportRaises, Abandon, Report, Connecting, TableInv, CommandsInv, ConnectionInv
<1>33. ASSUME NEW t \in Caller, AcquireTake(t)
      PROVE  TableInv'
  BY <1>33, <1>0, <1>a DEF AcquireTake, TableInv, CommandsInv
<1>34. ASSUME NEW l \in Conn, ListenTest(l)
      PROVE  TableInv'
  BY <1>34, <1>0, <1>r DEF ListenTest, TableInv
<1>35. ASSUME NEW l \in Conn, CallbackReturns(l)
      PROVE  TableInv'
  BY <1>35, <1>0, <1>r DEF CallbackReturns, TableInv
<1>36. ASSUME NEW l \in Conn, SlotReleased(l)
      PROVE  TableInv'
  BY <1>36, <1>0, <1>r DEF SlotReleased, TableInv
<1>37. ASSUME NEW l \in Conn, RecvError(l)
      PROVE  TableInv'
  BY <1>37, <1>0, <1>r DEF RecvError, TableInv
<1>38. ASSUME NEW l \in Conn, CallbackRaises(l)
      PROVE  TableInv'
  BY <1>38, <1>0, <1>r DEF CallbackRaises, TableInv
<1>39. ASSUME NEW l \in Conn, RecvSSLError(l)
      PROVE  TableInv'
  BY <1>39, <1>0, <1>r DEF RecvSSLError, TableInv
<1>40. ASSUME NEW l \in Conn, RecvTimeout(l)
      PROVE  TableInv'
  BY <1>40, <1>0, <1>r DEF RecvTimeout, TableInv
<1>41. ASSUME NEW l \in Conn, ScanDisturbed(l)
      PROVE  TableInv'
  BY <1>41, <1>0, <1>r DEF ScanDisturbed, TableInv
<1>42. ASSUME NEW l \in Conn, NEW r \in drive, Receive(l, r)
      PROVE  TableInv'
  BY <1>42, <1>0, <1>r DEF Receive, TableInv
<1>43. ASSUME NEW l \in Conn, NEW r \in drive, BadAnswer(l, r)
      PROVE  TableInv'
  BY <1>43, <1>0, <1>r DEF BadAnswer, TableInv
<1>44. ASSUME NEW c \in up, ConnectionDrops(c)
      PROVE  TableInv'
  BY <1>44 DEF ConnectionDrops, TableInv
<1>45. CASE UNCHANGED vars
  BY <1>45 DEF vars, TableInv
<1> QED
  BY <1>1, <1>2, <1>3, <1>4, <1>5, <1>6, <1>7, <1>8, <1>9, <1>10, <1>11, <1>12, <1>13, <1>14,
     <1>15, <1>16, <1>17, <1>18, <1>19, <1>20, <1>21, <1>22, <1>23, <1>24, <1>25, <1>26, <1>27,
     <1>28, <1>29, <1>30, <1>31, <1>32, <1>33, <1>34, <1>35, <1>36, <1>37, <1>38, <1>39, <1>40,
     <1>41, <1>42, <1>43, <1>44, <1>45
     DEF Next, CallerStep, ConnectStep, CommandStep, CloseStep, ListenerStep, ListenerFault, Caller

(* The live listener receives from the newest connection, which stays open  *)
(* as long as the client is connected or about to be.                       *)
Opened(t) == pc[t] \in {"sign_on", "renumber", "thread", "set"} \/ (pc[t] \in ReportLabel /\ after[t] = "renumber")

LinkInv ==
  /\ connected \/ (\E t \in Caller : Opened(t)) => sock = "open"
  /\ \A l \in Conn : lpc[l] = "recv" => lconn[l] = conn

(* NoForeignAnswer, for a command whose number is drawn and for one that    *)
(* was sent on the newest connection; before the numbers start again that   *)
(* one has no command at all.                                               *)
Numbered(c, s) == s < nextSeq /\ OwnEntry(c, s)
Fresh(t) == pc[t] \in {"sign_on", "renumber"} \/ (pc[t] \in ReportLabel /\ after[t] = "renumber")

AnswersInv ==
  /\ \A t \in Caller : pc[t] = "send" => Numbered(cur[t], curSeq[t])
  /\ \A r \in drive : r.conn = conn /\ r.cmd # None => Numbered(r.cmd, r.seq)
  /\ \A t \in Caller : Fresh(t) => \A r \in drive : r.conn = conn => r.cmd = None

LEMMA AnswersKept ==
  ASSUME TypeInv, TypeInv', CommandsInv, AnswersInv,
         UNCHANGED <<conn, nextSeq, autoReconnect>>, drive' \subseteq drive,
         \A c \in Cmd : ledger[c] # "new" => (ledger'[c] = "batched" <=> ledger[c] = "batched"),
         \A s \in Seqno : pending'[s] \in {None, pending[s]},
         \A t \in Caller : /\ pc'[t] = "send" => pc[t] = "send" /\ cur'[t] = cur[t] /\ curSeq'[t] = curSeq[t]
                           /\ Fresh(t)' => Fresh(t)
  PROVE  AnswersInv'
<1>0. /\ cur \in [Caller -> Cmd \cup {None}] /\ curSeq \in [Caller -> Seqno] /\ None \notin Cmd
      /\ drive \subseteq [conn : Conn, seq : Seqno, cmd : Cmd \cup {None}]
  BY ConstantFacts DEF TypeInv
<1>1. ASSUME NEW c \in Cmd, NEW s \in Seqno, ledger[c] # "new", Numbered(c, s) PROVE Numbered(c, s)'
  BY <1>1 DEF Numbered, OwnEntry, Batched
<1>2. ASSUME NEW t \in Caller, pc'[t] = "send" PROVE Numbered(cur[t], curSeq[t])'
  <2>1. pc[t] = "send" /\ cur'[t] = cur[t] /\ curSeq'[t] = curSeq[t]
    BY <1>2
  <2>2. cur[t] \in Cmd /\ ledger[cur[t]] # "new" /\ curSeq[t] \in Seqno
    BY <1>0, <2>1 DEF CommandsInv, OpLabel
  <2>3. PICK c \in Cmd, s \in Seqno : c = cur[t] /\ s = curSeq[t]
    BY <2>2
  <2>4. Numbered(c, s)
    BY <2>1, <2>3 DEF AnswersInv
  <2>5. Numbered(c, s)'
    BY <1>1, <2>2, <2>3, <2>4
  <2> QED BY <2>1, <2>3, <2>5 DEF Numbered, OwnEntry, Batched
<1>4. \A r \in drive' : r.conn = conn /\ r.cmd # None => Numbered(r.cmd, r.seq)'
  BY <1>0, <1>1 DEF AnswersInv, CommandsInv
<1>5. \A t \in Caller : Fresh(t)' => \A r \in drive' : r.conn = conn => r.cmd = None
  BY DEF AnswersInv
<1> QED BY <1>2, <1>4, <1>5 DEF AnswersInv

LEMMA LinkStep ==
  ASSUME Alone, TypeInv, ConnectionInv, LinkInv, [Next]_vars
  PROVE  LinkInv'
<1> USE DEF netVars, socketVars, tableVars, semVars, opVars, callerVars, listenerVars, Goto, LGoto, Idle,
            Connects, Ending, ReportLabel, ConnectLabel, OpLabel, CloseLabel
<1>0. /\ pc \in [Caller -> Label] /\ after \in [Caller -> Return]
      /\ lpc \in [Conn -> {"unborn", "loop", "recv", "callback", "release", "dead"}]
      /\ lconn \in [Conn -> Conn \cup {None}] /\ lnext \in [Conn -> {"loop", "dead"}] /\ handle \in Conn \cup {None}
      /\ Issuers \cup Drainers \cup Openers \cup Closers \subseteq Caller
  BY DEF TypeInv, Caller
<1>a. \A t, u \in Caller : t = u
  BY DEF Alone
<1>1. ASSUME NEW t \in Openers, Connect(t)
      PROVE  LinkInv'
  BY <1>1, <1>0, <1>a DEF Connect, LinkInv, Opened, ConnectionInv, Alive
<1>2. ASSUME NEW t \in Issuers, IssueRefused(t)
      PROVE  LinkInv'
  BY <1>2, <1>0, <1>a DEF IssueRefused, Report, LinkInv, Opened, ConnectionInv, Alive
<1>3. ASSUME NEW t \in Issuers, Issue(t)
      PROVE  LinkInv'
  BY <1>3, <1>0, <1>a DEF Issue, Begin, LinkInv, Opened, ConnectionInv, Alive
<1>4. ASSUME NEW t \in Issuers, IssueBatched(t)
      PROVE  LinkInv'
  BY <1>4, <1>0, <1>a DEF IssueBatched, Begin, LinkInv, Opened, ConnectionInv, Alive
<1>5. ASSUME NEW t \in Drainers, WaitQCall(t)
      PROVE  LinkInv'
  BY <1>5, <1>0, <1>a DEF WaitQCall, LinkInv, Opened, ConnectionInv, Alive
<1>6. ASSUME NEW t \in Closers, Close(t)
      PROVE  LinkInv'
  BY <1>6, <1>0, <1>a DEF Close, LinkInv, Opened, ConnectionInv, Alive
<1>7. ASSUME NEW t \in Caller, NewSocket(t)
      PROVE  LinkInv'
  BY <1>7, <1>0, <1>a DEF NewSocket, LinkInv, Opened, ConnectionInv, Alive
<1>8. ASSUME NEW t \in Caller, Established(t)
      PROVE  LinkInv'
  BY <1>8, <1>0, <1>a DEF Established, LinkInv, Opened, ConnectionInv, Alive
<1>9. ASSUME NEW t \in Caller, Refused(t)
      PROVE  LinkInv'
  BY <1>9, <1>0, <1>a DEF Refused, Report, Connecting, LinkInv, Opened, ConnectionInv, Alive
<1>10. ASSUME NEW t \in Caller, SignedOn(t)
      PROVE  LinkInv'
  BY <1>10, <1>0, <1>a DEF SignedOn, Report, LinkInv, Opened, ConnectionInv, Alive
<1>11. ASSUME NEW t \in Caller, SignOnRefused(t)
      PROVE  LinkInv'
  BY <1>11, <1>0, <1>a DEF SignOnRefused, Report, Connecting, LinkInv, Opened, ConnectionInv, Alive
<1>12. ASSUME NEW t \in Caller, SignOnFails(t)
      PROVE  LinkInv'
  BY <1>12, <1>0, <1>a DEF SignOnFails, Abandon, LinkInv, Opened, ConnectionInv, Alive
<1>13. ASSUME NEW t \in Caller, Renumber(t)
      PROVE  LinkInv'
  BY <1>13, <1>0, <1>a DEF Renumber, LinkInv, Opened, ConnectionInv, Alive
<1>14. ASSUME NEW t \in Caller, NewThread(t)
      PROVE  LinkInv'
  BY <1>14, <1>0, <1>a DEF NewThread, LinkInv, Opened, ConnectionInv, Alive
<1>15. ASSUME NEW t \in Caller, SetConnected(t)
      PROVE  LinkInv'
  BY <1>15, <1>0, <1>a DEF SetConnected, LinkInv, Opened, ConnectionInv, Alive
<1>16. ASSUME NEW t \in Caller, StartListener(t)
      PROVE  LinkInv'
  BY <1>16, <1>0, <1>a DEF StartListener, Abandon, Connecting, LinkInv, Opened, ConnectionInv, Alive
<1>17. ASSUME NEW t \in Caller, AcquireSleep(t)
      PROVE  LinkInv'
  BY <1>17, <1>0, <1>a DEF AcquireSleep, LinkInv, Opened, ConnectionInv, Alive
<1>18. ASSUME NEW t \in Caller, AcquireTake(t)
      PROVE  LinkInv'
  BY <1>18, <1>0, <1>a DEF AcquireTake, LinkInv, Opened, ConnectionInv, Alive
<1>19. ASSUME NEW t \in Caller, Reconnect(t)
      PROVE  LinkInv'
  BY <1>19, <1>0, <1>a DEF Reconnect, LinkInv, Opened, ConnectionInv, Alive
<1>20. ASSUME NEW t \in Caller, LeaveReconnect(t)
      PROVE  LinkInv'
  BY <1>20, <1>0, <1>a DEF LeaveReconnect, Report, LinkInv, Opened, ConnectionInv, Alive
<1>21. ASSUME NEW t \in Caller, Register(t)
      PROVE  LinkInv'
  BY <1>21, <1>0, <1>a DEF Register, LinkInv, Opened, ConnectionInv, Alive
<1>22. ASSUME NEW t \in Caller, Send(t)
      PROVE  LinkInv'
  BY <1>22, <1>0, <1>a DEF Send, SendReturns, LinkInv, Opened, ConnectionInv, Alive
<1>23. ASSUME NEW t \in Caller, SendError(t)
      PROVE  LinkInv'
  BY <1>23, <1>0, <1>a DEF SendError, Report, SendReturns, LinkInv, Opened, ConnectionInv, Alive
<1>24. ASSUME NEW t \in Caller, Shutdown(t)
      PROVE  LinkInv'
  BY <1>24, <1>0, <1>a DEF Shutdown, LinkInv, Opened, ConnectionInv, Alive
<1>25. ASSUME NEW t \in Caller, Wipe(t)
      PROVE  LinkInv'
  BY <1>25, <1>0, <1>a DEF Wipe, LinkInv, Opened, ConnectionInv, Alive
<1>26. ASSUME NEW t \in Caller, Clear(t)
      PROVE  LinkInv'
  BY <1>26, <1>0, <1>a DEF Clear, LinkInv, Opened, ConnectionInv, Alive
<1>27. ASSUME NEW t \in Caller, Join(t)
      PROVE  LinkInv'
  BY <1>27, <1>0, <1>a DEF Join, LinkInv, Opened, ConnectionInv, Alive
<1>28. ASSUME NEW t \in Caller, Forget(t)
      PROVE  LinkInv'
  BY <1>28, <1>0, <1>a DEF Forget, LinkInv, Opened, ConnectionInv, Alive
<1>29. ASSUME NEW t \in Caller, WaitQSleep(t)
      PROVE  LinkInv'
  BY <1>29, <1>0, <1>a DEF WaitQSleep, LinkInv, Opened, ConnectionInv, Alive
<1>30. ASSUME NEW t \in Caller, WaitQTrue(t)
      PROVE  LinkInv'
  BY <1>30, <1>0, <1>a DEF WaitQTrue, LinkInv, Opened, ConnectionInv, Alive
<1>31. ASSUME NEW t \in Caller, ReportDeletes(t)
      PROVE  LinkInv'
  BY <1>31, <1>0, <1>a DEF ReportDeletes, Abandon, LinkInv, Opened, ConnectionInv, Alive
<1>32. ASSUME NEW t \in Caller, ReportReleases(t)
      PROVE  LinkInv'
  BY <1>32, <1>0, <1>a DEF ReportReleases, Return, LinkInv, Opened, ConnectionInv, Alive
<1>33. ASSUME NEW t \in Caller, ReportRaises(t)
      PROVE  LinkInv'
  BY <1>33, <1>0, <1>a DEF ReportRaises, Abandon, Report, Connecting, LinkInv, Opened, ConnectionInv, Alive
<1>34. ASSUME NEW l \in Conn, ListenTest(l)
      PROVE  LinkInv'
  BY <1>34, <1>0 DEF ListenTest, LinkInv, Opened
<1>35. ASSUME NEW l \in Conn, CallbackReturns(l)
      PROVE  LinkInv'
  BY <1>35, <1>0 DEF CallbackReturns, LinkInv, Opened
<1>36. ASSUME NEW l \in Conn, SlotReleased(l)
      PROVE  LinkInv'
  BY <1>36, <1>0 DEF SlotReleased, LinkInv, Opened
<1>37. ASSUME NEW l \in Conn, RecvError(l)
      PROVE  LinkInv'
  BY <1>37, <1>0 DEF RecvError, LReport, LinkInv, Opened
<1>38. ASSUME NEW l \in Conn, CallbackRaises(l)
      PROVE  LinkInv'
  BY <1>38, <1>0 DEF CallbackRaises, LReport, LinkInv, Opened
<1>39. ASSUME NEW l \in Conn, RecvSSLError(l)
      PROVE  LinkInv'
  BY <1>39, <1>0 DEF RecvSSLError, LinkInv, Opened
<1>40. ASSUME NEW l \in Conn, RecvTimeout(l)
      PROVE  LinkInv'
  BY <1>40, <1>0 DEF RecvTimeout, LReport, LinkInv, Opened
<1>41. ASSUME NEW l \in Conn, ScanDisturbed(l)
      PROVE  LinkInv'
  BY <1>41, <1>0 DEF ScanDisturbed, LinkInv, Opened
<1>42. ASSUME NEW l \in Conn, NEW r \in drive, Receive(l, r)
      PROVE  LinkInv'
  BY <1>42, <1>0 DEF Receive, LinkInv, Opened
<1>43. ASSUME NEW l \in Conn, NEW r \in drive, BadAnswer(l, r)
      PROVE  LinkInv'
  BY <1>43, <1>0 DEF BadAnswer, LReport, LinkInv, Opened
<1>44. ASSUME NEW c \in up, ConnectionDrops(c)
      PROVE  LinkInv'
  BY <1>44 DEF ConnectionDrops, LinkInv, Opened
<1>45. CASE UNCHANGED vars
  BY <1>45 DEF vars, LinkInv, Opened
<1> QED
  BY <1>1, <1>2, <1>3, <1>4, <1>5, <1>6, <1>7, <1>8, <1>9, <1>10, <1>11, <1>12, <1>13, <1>14,
     <1>15, <1>16, <1>17, <1>18, <1>19, <1>20, <1>21, <1>22, <1>23, <1>24, <1>25, <1>26, <1>27,
     <1>28, <1>29, <1>30, <1>31, <1>32, <1>33, <1>34, <1>35, <1>36, <1>37, <1>38, <1>39, <1>40,
     <1>41, <1>42, <1>43, <1>44, <1>45
     DEF Next, CallerStep, ConnectStep, CommandStep, CloseStep, ListenerStep, ListenerFault, Caller

LEMMA AnswersStep ==
  ASSUME Alone, TypeInv, TypeInv', CommandsInv, TableInv, AnswersInv, [Next]_vars
  PROVE  AnswersInv'
<1> USE DEF netVars, socketVars, tableVars, semVars, opVars, callerVars, listenerVars, Goto, LGoto, Idle,
            ReportLabel
<1>0. /\ pc \in [Caller -> Label] /\ cur \in [Caller -> Cmd \cup {None}] /\ after \in [Caller -> Return]
      /\ drive \subseteq [conn : Conn, seq : Seqno, cmd : Cmd \cup {None}]
      /\ ledger \in [Cmd -> State] /\ curSeq \in [Caller -> Seqno]
      /\ pending \in [Seqno -> Cmd \cup {None}] /\ lseq \in [Conn -> Seqno]
      /\ None \notin Cmd /\ nextSeq \in Nat /\ Seqno \subseteq Nat /\ 0 \in Seqno /\ conn \in Nat
      /\ Issuers \cup Drainers \cup Openers \cup Closers \subseteq Caller
  BY ClientAssumption, ConstantFacts DEF TypeInv, Caller
<1>a. \A t, u \in Caller : t = u
  BY DEF Alone
<1>f. \A s \in Seqno : pending[s] # None => pending[s] \in Cmd /\ ledger[pending[s]] \notin {"new", "batched"}
  BY <1>0 DEF CommandsInv
<1> DEFINE SameBatch == \A c \in Cmd : ledger[c] # "new" => (ledger'[c] = "batched" <=> ledger[c] = "batched")
<1>s. (\E s \in Seqno : pending[s] # None /\ \E new \in {"failed", "done"} : ledger' = [ledger EXCEPT ![pending[s]] = new])
         \/ ledger' = ledger => SameBatch
  BY <1>0, <1>f
<1> HIDE DEF SameBatch
<1>k. ASSUME UNCHANGED <<conn, nextSeq, autoReconnect>>, drive' \subseteq drive, SameBatch,
             \A s \in Seqno : pending'[s] \in {None, pending[s]},
             \A t \in Caller : /\ pc'[t] = "send" => pc[t] = "send" /\ cur'[t] = cur[t] /\ curSeq'[t] = curSeq[t]
                               /\ Fresh(t)' => Fresh(t)
      PROVE  AnswersInv'
  BY <1>k, AnswersKept DEF SameBatch
<1>1. ASSUME NEW t \in Openers, Connect(t)
      PROVE  AnswersInv'
  <2>1. SameBatch
    BY <1>1, <1>0, <1>s DEF Connect
  <2>2. \A u \in Caller : /\ pc'[u] = "send" => pc[u] = "send" /\ cur'[u] = cur[u] /\ curSeq'[u] = curSeq[u]
                          /\ Fresh(u)' => Fresh(u)
    BY <1>1, <1>0 DEF Connect, Fresh
  <2> QED BY <1>1, <1>0, <1>k, <2>1, <2>2 DEF Connect
<1>2. ASSUME NEW t \in Issuers, IssueRefused(t)
      PROVE  AnswersInv'
  <2>1. SameBatch
    BY <1>2, <1>0, <1>s DEF IssueRefused, Report
  <2>2. \A u \in Caller : /\ pc'[u] = "send" => pc[u] = "send" /\ cur'[u] = cur[u] /\ curSeq'[u] = curSeq[u]
                          /\ Fresh(u)' => Fresh(u)
    BY <1>2, <1>0 DEF IssueRefused, Report, Fresh
  <2> QED BY <1>2, <1>0, <1>k, <2>1, <2>2 DEF IssueRefused, Report
<1>3. ASSUME NEW t \in Issuers, Issue(t)
      PROVE  AnswersInv'
  <2>1. SameBatch
    BY <1>3, <1>0, <1>s DEF Issue, Begin
  <2>2. \A u \in Caller : /\ pc'[u] = "send" => pc[u] = "send" /\ cur'[u] = cur[u] /\ curSeq'[u] = curSeq[u]
                          /\ Fresh(u)' => Fresh(u)
    BY <1>3, <1>0 DEF Issue, Begin, Fresh
  <2> QED BY <1>3, <1>0, <1>k, <2>1, <2>2 DEF Issue, Begin
<1>4. ASSUME NEW t \in Drainers, WaitQCall(t)
      PROVE  AnswersInv'
  <2>1. SameBatch
    BY <1>4, <1>0, <1>s DEF WaitQCall
  <2>2. \A u \in Caller : /\ pc'[u] = "send" => pc[u] = "send" /\ cur'[u] = cur[u] /\ curSeq'[u] = curSeq[u]
                          /\ Fresh(u)' => Fresh(u)
    BY <1>4, <1>0 DEF WaitQCall, Fresh
  <2> QED BY <1>4, <1>0, <1>k, <2>1, <2>2 DEF WaitQCall
<1>5. ASSUME NEW t \in Closers, Close(t)
      PROVE  AnswersInv'
  <2>1. SameBatch
    BY <1>5, <1>0, <1>s DEF Close
  <2>2. \A u \in Caller : /\ pc'[u] = "send" => pc[u] = "send" /\ cur'[u] = cur[u] /\ curSeq'[u] = curSeq[u]
                          /\ Fresh(u)' => Fresh(u)
    BY <1>5, <1>0 DEF Close, Fresh
  <2> QED BY <1>5, <1>0, <1>k, <2>1, <2>2 DEF Close
<1>6. ASSUME NEW t \in Caller, NewSocket(t)
      PROVE  AnswersInv'
  <2>1. SameBatch
    BY <1>6, <1>0, <1>s DEF NewSocket
  <2>2. \A u \in Caller : /\ pc'[u] = "send" => pc[u] = "send" /\ cur'[u] = cur[u] /\ curSeq'[u] = curSeq[u]
                          /\ Fresh(u)' => Fresh(u)
    BY <1>6, <1>0 DEF NewSocket, Fresh
  <2> QED BY <1>6, <1>0, <1>k, <2>1, <2>2 DEF NewSocket
<1>7. ASSUME NEW t \in Caller, Refused(t)
      PROVE  AnswersInv'
  <2>1. SameBatch
    BY <1>7, <1>0, <1>s DEF Refused, Report, Connecting
  <2>2. \A u \in Caller : /\ pc'[u] = "send" => pc[u] = "send" /\ cur'[u] = cur[u] /\ curSeq'[u] = curSeq[u]
                          /\ Fresh(u)' => Fresh(u)
    BY <1>7, <1>0 DEF Refused, Report, Connecting, Fresh
  <2> QED BY <1>7, <1>0, <1>k, <2>1, <2>2 DEF Refused, Report, Connecting
<1>8. ASSUME NEW t \in Caller, SignedOn(t)
      PROVE  AnswersInv'
  <2>1. SameBatch
    BY <1>8, <1>0, <1>s DEF SignedOn, Report
  <2>2. \A u \in Caller : /\ pc'[u] = "send" => pc[u] = "send" /\ cur'[u] = cur[u] /\ curSeq'[u] = curSeq[u]
                          /\ Fresh(u)' => Fresh(u)
    BY <1>8, <1>0 DEF SignedOn, Report, Fresh
  <2> QED BY <1>8, <1>0, <1>k, <2>1, <2>2 DEF SignedOn, Report
<1>9. ASSUME NEW t \in Caller, SignOnRefused(t)
      PROVE  AnswersInv'
  <2>1. SameBatch
    BY <1>9, <1>0, <1>s DEF SignOnRefused, Report, Connecting
  <2>2. \A u \in Caller : /\ pc'[u] = "send" => pc[u] = "send" /\ cur'[u] = cur[u] /\ curSeq'[u] = curSeq[u]
                          /\ Fresh(u)' => Fresh(u)
    BY <1>9, <1>0 DEF SignOnRefused, Report, Connecting, Fresh
  <2> QED BY <1>9, <1>0, <1>k, <2>1, <2>2 DEF SignOnRefused, Report, Connecting
<1>10. ASSUME NEW t \in Caller, SignOnFails(t)
      PROVE  AnswersInv'
  <2>1. SameBatch
    BY <1>10, <1>0, <1>s DEF SignOnFails, Abandon
  <2>2. \A u \in Caller : /\ pc'[u] = "send" => pc[u] = "send" /\ cur'[u] = cur[u] /\ curSeq'[u] = curSeq[u]
                          /\ Fresh(u)' => Fresh(u)
    BY <1>10, <1>0 DEF SignOnFails, Abandon, Fresh
  <2> QED BY <1>10, <1>0, <1>k, <2>1, <2>2 DEF SignOnFails, Abandon
<1>11. ASSUME NEW t \in Caller, NewThread(t)
      PROVE  AnswersInv'
  <2>1. SameBatch
    BY <1>11, <1>0, <1>s DEF NewThread
  <2>2. \A u \in Caller : /\ pc'[u] = "send" => pc[u] = "send" /\ cur'[u] = cur[u] /\ curSeq'[u] = curSeq[u]
                          /\ Fresh(u)' => Fresh(u)
    BY <1>11, <1>0 DEF NewThread, Fresh
  <2> QED BY <1>11, <1>0, <1>k, <2>1, <2>2 DEF NewThread
<1>12. ASSUME NEW t \in Caller, SetConnected(t)
      PROVE  AnswersInv'
  <2>1. SameBatch
    BY <1>12, <1>0, <1>s DEF SetConnected
  <2>2. \A u \in Caller : /\ pc'[u] = "send" => pc[u] = "send" /\ cur'[u] = cur[u] /\ curSeq'[u] = curSeq[u]
                          /\ Fresh(u)' => Fresh(u)
    BY <1>12, <1>0 DEF SetConnected, Fresh
  <2> QED BY <1>12, <1>0, <1>k, <2>1, <2>2 DEF SetConnected
<1>13. ASSUME NEW t \in Caller, StartListener(t)
      PROVE  AnswersInv'
  <2>1. SameBatch
    BY <1>13, <1>0, <1>s DEF StartListener, Abandon, Connecting
  <2>2. \A u \in Caller : /\ pc'[u] = "send" => pc[u] = "send" /\ cur'[u] = cur[u] /\ curSeq'[u] = curSeq[u]
                          /\ Fresh(u)' => Fresh(u)
    BY <1>13, <1>0 DEF StartListener, Abandon, Connecting, Fresh
  <2> QED BY <1>13, <1>0, <1>k, <2>1, <2>2 DEF StartListener, Abandon, Connecting
<1>14. ASSUME NEW t \in Caller, AcquireSleep(t)
      PROVE  AnswersInv'
  <2>1. SameBatch
    BY <1>14, <1>0, <1>s DEF AcquireSleep
  <2>2. \A u \in Caller : /\ pc'[u] = "send" => pc[u] = "send" /\ cur'[u] = cur[u] /\ curSeq'[u] = curSeq[u]
                          /\ Fresh(u)' => Fresh(u)
    BY <1>14, <1>0 DEF AcquireSleep, Fresh
  <2> QED BY <1>14, <1>0, <1>k, <2>1, <2>2 DEF AcquireSleep
<1>15. ASSUME NEW t \in Caller, Reconnect(t)
      PROVE  AnswersInv'
  <2>1. SameBatch
    BY <1>15, <1>0, <1>s DEF Reconnect
  <2>2. \A u \in Caller : /\ pc'[u] = "send" => pc[u] = "send" /\ cur'[u] = cur[u] /\ curSeq'[u] = curSeq[u]
                          /\ Fresh(u)' => Fresh(u)
    BY <1>15, <1>0 DEF Reconnect, Fresh
  <2> QED BY <1>15, <1>0, <1>k, <2>1, <2>2 DEF Reconnect
<1>16. ASSUME NEW t \in Caller, LeaveReconnect(t)
      PROVE  AnswersInv'
  <2>1. SameBatch
    BY <1>16, <1>0, <1>s DEF LeaveReconnect, Report
  <2>2. \A u \in Caller : /\ pc'[u] = "send" => pc[u] = "send" /\ cur'[u] = cur[u] /\ curSeq'[u] = curSeq[u]
                          /\ Fresh(u)' => Fresh(u)
    BY <1>16, <1>0 DEF LeaveReconnect, Report, Fresh
  <2> QED BY <1>16, <1>0, <1>k, <2>1, <2>2 DEF LeaveReconnect, Report
<1>17. ASSUME NEW t \in Caller, SendError(t)
      PROVE  AnswersInv'
  <2>1. SameBatch
    BY <1>17, <1>0, <1>s DEF SendError, Report, SendReturns
  <2>2. \A u \in Caller : /\ pc'[u] = "send" => pc[u] = "send" /\ cur'[u] = cur[u] /\ curSeq'[u] = curSeq[u]
                          /\ Fresh(u)' => Fresh(u)
    BY <1>17, <1>0 DEF SendError, Report, SendReturns, Fresh
  <2> QED BY <1>17, <1>0, <1>k, <2>1, <2>2 DEF SendError, Report, SendReturns
<1>18. ASSUME NEW t \in Caller, Shutdown(t)
      PROVE  AnswersInv'
  <2>1. SameBatch
    BY <1>18, <1>0, <1>s DEF Shutdown
  <2>2. \A u \in Caller : /\ pc'[u] = "send" => pc[u] = "send" /\ cur'[u] = cur[u] /\ curSeq'[u] = curSeq[u]
                          /\ Fresh(u)' => Fresh(u)
    BY <1>18, <1>0 DEF Shutdown, Fresh
  <2> QED BY <1>18, <1>0, <1>k, <2>1, <2>2 DEF Shutdown, On
<1>19. ASSUME NEW t \in Caller, Wipe(t)
      PROVE  AnswersInv'
  <2>1. SameBatch
    BY <1>19, <1>0, <1>s DEF Wipe
  <2>2. \A u \in Caller : /\ pc'[u] = "send" => pc[u] = "send" /\ cur'[u] = cur[u] /\ curSeq'[u] = curSeq[u]
                          /\ Fresh(u)' => Fresh(u)
    BY <1>19, <1>0 DEF Wipe, Fresh
  <2> QED BY <1>19, <1>0, <1>k, <2>1, <2>2 DEF Wipe
<1>20. ASSUME NEW t \in Caller, Clear(t)
      PROVE  AnswersInv'
  <2>1. SameBatch
    BY <1>20, <1>0, <1>s DEF Clear
  <2>2. \A u \in Caller : /\ pc'[u] = "send" => pc[u] = "send" /\ cur'[u] = cur[u] /\ curSeq'[u] = curSeq[u]
                          /\ Fresh(u)' => Fresh(u)
    BY <1>20, <1>0 DEF Clear, Fresh
  <2> QED BY <1>20, <1>0, <1>k, <2>1, <2>2 DEF Clear
<1>21. ASSUME NEW t \in Caller, Join(t)
      PROVE  AnswersInv'
  <2>1. SameBatch
    BY <1>21, <1>0, <1>s DEF Join
  <2>2. \A u \in Caller : /\ pc'[u] = "send" => pc[u] = "send" /\ cur'[u] = cur[u] /\ curSeq'[u] = curSeq[u]
                          /\ Fresh(u)' => Fresh(u)
    BY <1>21, <1>0 DEF Join, Fresh
  <2> QED BY <1>21, <1>0, <1>k, <2>1, <2>2 DEF Join
<1>22. ASSUME NEW t \in Caller, Forget(t)
      PROVE  AnswersInv'
  <2>1. SameBatch
    BY <1>22, <1>0, <1>s DEF Forget
  <2>2. \A u \in Caller : /\ pc'[u] = "send" => pc[u] = "send" /\ cur'[u] = cur[u] /\ curSeq'[u] = curSeq[u]
                          /\ Fresh(u)' => Fresh(u)
    BY <1>22, <1>0 DEF Forget, Fresh
  <2> QED BY <1>22, <1>0, <1>k, <2>1, <2>2 DEF Forget
<1>23. ASSUME NEW t \in Caller, WaitQSleep(t)
      PROVE  AnswersInv'
  <2>1. SameBatch
    BY <1>23, <1>0, <1>s DEF WaitQSleep
  <2>2. \A u \in Caller : /\ pc'[u] = "send" => pc[u] = "send" /\ cur'[u] = cur[u] /\ curSeq'[u] = curSeq[u]
                          /\ Fresh(u)' => Fresh(u)
    BY <1>23, <1>0 DEF WaitQSleep, Fresh
  <2> QED BY <1>23, <1>0, <1>k, <2>1, <2>2 DEF WaitQSleep
<1>24. ASSUME NEW t \in Caller, WaitQTrue(t)
      PROVE  AnswersInv'
  <2>1. SameBatch
    BY <1>24, <1>0, <1>s DEF WaitQTrue
  <2>2. \A u \in Caller : /\ pc'[u] = "send" => pc[u] = "send" /\ cur'[u] = cur[u] /\ curSeq'[u] = curSeq[u]
                          /\ Fresh(u)' => Fresh(u)
    BY <1>24, <1>0 DEF WaitQTrue, Fresh
  <2> QED BY <1>24, <1>0, <1>k, <2>1, <2>2 DEF WaitQTrue
<1>25. ASSUME NEW t \in Caller, ReportDeletes(t)
      PROVE  AnswersInv'
  <2>1. SameBatch
    BY <1>25, <1>0, <1>s DEF ReportDeletes, Abandon
  <2>2. \A u \in Caller : /\ pc'[u] = "send" => pc[u] = "send" /\ cur'[u] = cur[u] /\ curSeq'[u] = curSeq[u]
                          /\ Fresh(u)' => Fresh(u)
    BY <1>25, <1>0 DEF ReportDeletes, Abandon, Fresh
  <2> QED BY <1>25, <1>0, <1>k, <2>1, <2>2 DEF ReportDeletes, Abandon
<1>26. ASSUME NEW t \in Caller, ReportReleases(t)
      PROVE  AnswersInv'
  <2>1. SameBatch
    BY <1>26, <1>0, <1>s DEF ReportReleases, Return
  <2>2. \A u \in Caller : /\ pc'[u] = "send" => pc[u] = "send" /\ cur'[u] = cur[u] /\ curSeq'[u] = curSeq[u]
                          /\ Fresh(u)' => Fresh(u)
    BY <1>26, <1>0 DEF ReportReleases, Return, Fresh
  <2> QED BY <1>26, <1>0, <1>k, <2>1, <2>2 DEF ReportReleases, Return
<1>27. ASSUME NEW t \in Caller, ReportRaises(t)
      PROVE  AnswersInv'
  <2>1. SameBatch
    BY <1>27, <1>0, <1>s DEF ReportRaises, Abandon, Report, Connecting
  <2>2. \A u \in Caller : /\ pc'[u] = "send" => pc[u] = "send" /\ cur'[u] = cur[u] /\ curSeq'[u] = curSeq[u]
                          /\ Fresh(u)' => Fresh(u)
    BY <1>27, <1>0 DEF ReportRaises, Abandon, Report, Connecting, Fresh
  <2> QED BY <1>27, <1>0, <1>k, <2>1, <2>2 DEF ReportRaises, Abandon, Report, Connecting
<1>28. ASSUME NEW l \in Conn, ListenTest(l)
      PROVE  AnswersInv'
  <2>1. SameBatch
    BY <1>28, <1>0, <1>s DEF ListenTest
  <2>2. \A u \in Caller : /\ pc'[u] = "send" => pc[u] = "send" /\ cur'[u] = cur[u] /\ curSeq'[u] = curSeq[u]
                          /\ Fresh(u)' => Fresh(u)
    BY <1>28, <1>0 DEF ListenTest, Fresh
  <2> QED BY <1>28, <1>0, <1>k, <2>1, <2>2 DEF ListenTest
<1>29. ASSUME NEW l \in Conn, CallbackReturns(l)
      PROVE  AnswersInv'
  <2>1. SameBatch
    BY <1>29, <1>0, <1>s DEF CallbackReturns
  <2>2. \A u \in Caller : /\ pc'[u] = "send" => pc[u] = "send" /\ cur'[u] = cur[u] /\ curSeq'[u] = curSeq[u]
                          /\ Fresh(u)' => Fresh(u)
    BY <1>29, <1>0 DEF CallbackReturns, Fresh
  <2> QED BY <1>29, <1>0, <1>k, <2>1, <2>2 DEF CallbackReturns
<1>30. ASSUME NEW l \in Conn, SlotReleased(l)
      PROVE  AnswersInv'
  <2>1. SameBatch
    BY <1>30, <1>0, <1>s DEF SlotReleased
  <2>2. \A u \in Caller : /\ pc'[u] = "send" => pc[u] = "send" /\ cur'[u] = cur[u] /\ curSeq'[u] = curSeq[u]
                          /\ Fresh(u)' => Fresh(u)
    BY <1>30, <1>0 DEF SlotReleased, Fresh
  <2> QED BY <1>30, <1>0, <1>k, <2>1, <2>2 DEF SlotReleased
<1>31. ASSUME NEW l \in Conn, RecvError(l)
      PROVE  AnswersInv'
  <2>1. SameBatch
    BY <1>31, <1>0, <1>s DEF RecvError, LReport
  <2>2. \A u \in Caller : /\ pc'[u] = "send" => pc[u] = "send" /\ cur'[u] = cur[u] /\ curSeq'[u] = curSeq[u]
                          /\ Fresh(u)' => Fresh(u)
    BY <1>31, <1>0 DEF RecvError, LReport, Fresh
  <2> QED BY <1>31, <1>0, <1>k, <2>1, <2>2 DEF RecvError, LReport
<1>32. ASSUME NEW l \in Conn, CallbackRaises(l)
      PROVE  AnswersInv'
  <2>1. SameBatch
    BY <1>32, <1>0, <1>s DEF CallbackRaises, LReport
  <2>2. \A u \in Caller : /\ pc'[u] = "send" => pc[u] = "send" /\ cur'[u] = cur[u] /\ curSeq'[u] = curSeq[u]
                          /\ Fresh(u)' => Fresh(u)
    BY <1>32, <1>0 DEF CallbackRaises, LReport, Fresh
  <2> QED BY <1>32, <1>0, <1>k, <2>1, <2>2 DEF CallbackRaises, LReport
<1>33. ASSUME NEW l \in Conn, RecvSSLError(l)
      PROVE  AnswersInv'
  <2>1. SameBatch
    BY <1>33, <1>0, <1>s DEF RecvSSLError
  <2>2. \A u \in Caller : /\ pc'[u] = "send" => pc[u] = "send" /\ cur'[u] = cur[u] /\ curSeq'[u] = curSeq[u]
                          /\ Fresh(u)' => Fresh(u)
    BY <1>33, <1>0 DEF RecvSSLError, Fresh
  <2> QED BY <1>33, <1>0, <1>k, <2>1, <2>2 DEF RecvSSLError
<1>34. ASSUME NEW l \in Conn, RecvTimeout(l)
      PROVE  AnswersInv'
  <2>1. SameBatch
    BY <1>34, <1>0, <1>s DEF RecvTimeout, LReport
  <2>2. \A u \in Caller : /\ pc'[u] = "send" => pc[u] = "send" /\ cur'[u] = cur[u] /\ curSeq'[u] = curSeq[u]
                          /\ Fresh(u)' => Fresh(u)
    BY <1>34, <1>0 DEF RecvTimeout, LReport, Fresh
  <2> QED BY <1>34, <1>0, <1>k, <2>1, <2>2 DEF RecvTimeout, LReport
<1>35. ASSUME NEW l \in Conn, ScanDisturbed(l)
      PROVE  AnswersInv'
  <2>1. SameBatch
    BY <1>35, <1>0, <1>s DEF ScanDisturbed
  <2>2. \A u \in Caller : /\ pc'[u] = "send" => pc[u] = "send" /\ cur'[u] = cur[u] /\ curSeq'[u] = curSeq[u]
                          /\ Fresh(u)' => Fresh(u)
    BY <1>35, <1>0 DEF ScanDisturbed, Fresh
  <2> QED BY <1>35, <1>0, <1>k, <2>1, <2>2 DEF ScanDisturbed
<1>36. ASSUME NEW l \in Conn, NEW r \in drive, BadAnswer(l, r)
      PROVE  AnswersInv'
  <2>1. SameBatch
    BY <1>36, <1>0, <1>s DEF BadAnswer, LReport
  <2>2. \A u \in Caller : /\ pc'[u] = "send" => pc[u] = "send" /\ cur'[u] = cur[u] /\ curSeq'[u] = curSeq[u]
                          /\ Fresh(u)' => Fresh(u)
    BY <1>36, <1>0 DEF BadAnswer, LReport, Fresh
  <2> QED BY <1>36, <1>0, <1>k, <2>1, <2>2 DEF BadAnswer, LReport
<1>37. ASSUME NEW c \in up, ConnectionDrops(c)
      PROVE  AnswersInv'
  <2>1. SameBatch
    BY <1>37, <1>0, <1>s DEF ConnectionDrops
  <2>2. \A u \in Caller : /\ pc'[u] = "send" => pc[u] = "send" /\ cur'[u] = cur[u] /\ curSeq'[u] = curSeq[u]
                          /\ Fresh(u)' => Fresh(u)
    BY <1>37, <1>0 DEF ConnectionDrops, Fresh
  <2> QED BY <1>37, <1>0, <1>k, <2>1, <2>2 DEF ConnectionDrops
<1>38. CASE UNCHANGED vars
  <2>1. SameBatch
    BY <1>38, <1>s DEF vars
  <2> QED BY <1>38, <1>k, <2>1 DEF vars, Fresh
<1>39. ASSUME NEW t \in Issuers, IssueBatched(t)
      PROVE  AnswersInv'
  <2>1. PICK c \in Cmd : cur' = [cur EXCEPT ![t] = c] /\ ledger[c] = "new"
    BY <1>39, <1>0, BeginFacts DEF IssueBatched
  <2>2. ledger' = [ledger EXCEPT ![c] = "batched"]
    BY <1>39, <1>0, <2>1 DEF IssueBatched
  <2>3. SameBatch
    BY <1>0, <2>1, <2>2 DEF SameBatch
  <2>4. \A u \in Caller : /\ pc'[u] = "send" => pc[u] = "send" /\ cur'[u] = cur[u] /\ curSeq'[u] = curSeq[u]
                          /\ Fresh(u)' => Fresh(u)
    BY <1>39, <1>0 DEF IssueBatched, Begin, Fresh
  <2> QED BY <1>39, <1>0, <1>k, <2>3, <2>4 DEF IssueBatched, Begin
<1>40. ASSUME NEW t \in Caller, AcquireTake(t)
      PROVE  AnswersInv'
  <2>1. ledger' = [ledger EXCEPT ![cur[t]] = "open"] /\ cur[t] \in Cmd /\ ledger[cur[t]] = "new"
    BY <1>40, <1>0 DEF AcquireTake, CommandsInv, OpLabel
  <2>2. SameBatch
    BY <1>0, <2>1 DEF SameBatch
  <2>3. \A u \in Caller : /\ pc'[u] = "send" => pc[u] = "send" /\ cur'[u] = cur[u] /\ curSeq'[u] = curSeq[u]
                          /\ Fresh(u)' => Fresh(u)
    BY <1>40, <1>0 DEF AcquireTake, Fresh
  <2> QED BY <1>40, <1>0, <1>k, <2>2, <2>3 DEF AcquireTake
<1>41. ASSUME NEW l \in Conn, NEW r \in drive, Receive(l, r)
      PROVE  AnswersInv'
  <2>1. SameBatch
    <3>1. r.seq \in Seqno
      BY <1>0
    <3> QED BY <1>41, <1>s, <3>1 DEF Receive
  <2> QED BY <1>41, <1>0, <1>k, <2>1 DEF Receive, Fresh
<1>42. ASSUME NEW t \in Caller, Established(t)
      PROVE  AnswersInv'
  <2>1. /\ conn' = conn + 1 /\ drive' = drive \cup {SignOn(conn + 1)} /\ pc' = [pc EXCEPT ![t] = "sign_on"]
        /\ UNCHANGED <<cur, curSeq, pending, nextSeq, ledger, after, autoReconnect>>
    BY <1>42 DEF Established
  <2>2. \A r \in drive' : r.conn = conn' => r.cmd = None
    BY <1>0, <2>1 DEF SignOn, CommandsInv
  <2>3. \A u \in Caller : pc'[u] # "send"
    BY <1>0, <1>a, <2>1
  <2> QED BY <2>2, <2>3 DEF AnswersInv
<1>43. ASSUME NEW t \in Caller, Renumber(t)
      PROVE  AnswersInv'
  <2>1. UNCHANGED <<drive, conn>> /\ Fresh(t) /\ pc' = [pc EXCEPT ![t] = "thread"]
    BY <1>43 DEF Renumber, Fresh
  <2>2. \A r \in drive' : r.conn = conn' => r.cmd = None
    BY <2>1 DEF AnswersInv
  <2>3. \A u \in Caller : pc'[u] # "send"
    BY <1>0, <1>a, <2>1
  <2> QED BY <2>2, <2>3 DEF AnswersInv
<1>44. ASSUME NEW t \in Caller, Register(t)
      PROVE  AnswersInv'
  <2>1. /\ UNCHANGED <<drive, conn, ledger, cur, after, autoReconnect>> /\ pc' = [pc EXCEPT ![t] = "send"]
        /\ nextSeq \in Seqno /\ nextSeq' = nextSeq + 1 /\ curSeq' = [curSeq EXCEPT ![t] = nextSeq]
        /\ pending' = IF Batched(cur[t]) THEN pending ELSE [pending EXCEPT ![nextSeq] = cur[t]]
    BY <1>44 DEF Register
  <2>2. \A r \in drive : r.conn = conn /\ r.cmd # None => Numbered(r.cmd, r.seq)'
    <3>1. \A c, s : s \in Seqno /\ Numbered(c, s) => Numbered(c, s)'
      BY <1>0, <2>1 DEF Numbered, OwnEntry, Batched
    <3> QED BY <1>0, <3>1 DEF AnswersInv
  <2>3. curSeq'[t] = nextSeq /\ curSeq'[t] < nextSeq' /\ autoReconnect \in Nat
        /\ \/ Batched(cur[t]) /\ pending'[nextSeq] = pending[nextSeq]
           \/ ~Batched(cur[t]) /\ pending'[nextSeq] = cur[t]
    BY <1>0, <2>1, ClientAssumption DEF TypeInv
  <2>4. autoReconnect = 0 => pending[nextSeq] = None
    BY <1>0, <2>1 DEF TableInv
  <2>5. Numbered(cur[t], curSeq[t])'
    BY <2>1, <2>3, <2>4 DEF Numbered, OwnEntry, Batched
  <2>6. \A u \in Caller : u = t /\ ~Fresh(u)'
    BY <1>0, <1>a, <2>1 DEF Fresh
  <2> QED BY <2>1, <2>2, <2>5, <2>6 DEF AnswersInv
<1>45. ASSUME NEW t \in Caller, Send(t)
      PROVE  AnswersInv'
  <2>1. /\ UNCHANGED <<conn, ledger, pending, nextSeq, after, autoReconnect>> /\ pc' = [pc EXCEPT ![t] = "idle"]
        /\ pc[t] = "send"
        /\ \A r \in drive' : r \in drive \/ r = [conn |-> conn, seq |-> curSeq[t], cmd |-> cur[t]]
    BY <1>45 DEF Send, SendReturns
  <2>2. \A c, s : Numbered(c, s)' <=> Numbered(c, s)
    BY <2>1 DEF Numbered, OwnEntry, Batched
  <2>3. \A r \in drive' : r.conn = conn /\ r.cmd # None => Numbered(r.cmd, r.seq)'
    BY <2>1, <2>2 DEF AnswersInv
  <2>4. \A u \in Caller : pc'[u] = "idle"
    BY <1>0, <1>a, <2>1
  <2> QED BY <2>1, <2>3, <2>4 DEF AnswersInv, Fresh, ReportLabel
<1> QED
  BY <1>1, <1>2, <1>3, <1>4, <1>5, <1>6, <1>7, <1>8, <1>9, <1>10, <1>11, <1>12, <1>13, <1>14,
     <1>15, <1>16, <1>17, <1>18, <1>19, <1>20, <1>21, <1>22, <1>23, <1>24, <1>25, <1>26, <1>27,
     <1>28, <1>29, <1>30, <1>31, <1>32, <1>33, <1>34, <1>35, <1>36, <1>37, <1>38, <1>39, <1>40,
     <1>41, <1>42, <1>43, <1>44, <1>45
     DEF Next, CallerStep, ConnectStep, CommandStep, CloseStep, ListenerStep, ListenerFault, Caller

-----------------------------------------------------------------------------
(* The slots and the table, counted.                                        *)
CReleasing == {t \in Caller : pc[t] = "release"}
LReleasing == {l \in Conn : lpc[l] = "release"}

LEMMA CountedFinite ==
  /\ IsFiniteSet(Pending) /\ Cardinality(Pending) \in Nat
  /\ IsFiniteSet(Holding) /\ Cardinality(Holding) \in Nat
  /\ IsFiniteSet(CReleasing) /\ Cardinality(CReleasing) \in Nat
  /\ IsFiniteSet(LReleasing) /\ Cardinality(LReleasing) \in Nat
<1>1. IsFiniteSet(Seqno) /\ IsFiniteSet(Caller) /\ IsFiniteSet(Conn)
  BY FS_Interval, ClientAssumption DEF Seqno, Caller, Conn
<1>2. /\ Pending \subseteq Seqno /\ Holding \subseteq Caller /\ CReleasing \subseteq Caller
      /\ LReleasing \subseteq Conn
  BY DEF Pending, Holding, CReleasing, LReleasing
<1>3. IsFiniteSet(Pending) /\ IsFiniteSet(Holding) /\ IsFiniteSet(CReleasing) /\ IsFiniteSet(LReleasing)
  BY <1>1, <1>2, FS_Subset
<1> QED BY <1>3, FS_CardinalityType

LEMMA CountedIs ==
  Counted = Cardinality(Pending) + Cardinality(Holding) + (Cardinality(CReleasing) + Cardinality(LReleasing))
BY DEF Counted, Releasing, CReleasing, LReleasing

LEMMA CountedFinitePrime ==
  /\ IsFiniteSet(Pending') /\ Cardinality(Pending') \in Nat
  /\ IsFiniteSet(Holding') /\ Cardinality(Holding') \in Nat
  /\ IsFiniteSet(CReleasing') /\ Cardinality(CReleasing') \in Nat
  /\ IsFiniteSet(LReleasing') /\ Cardinality(LReleasing') \in Nat
  /\ Counted' = Cardinality(Pending') + Cardinality(Holding')
                  + (Cardinality(CReleasing') + Cardinality(LReleasing'))
<1>1. IsFiniteSet(Seqno) /\ IsFiniteSet(Caller) /\ IsFiniteSet(Conn)
  BY FS_Interval, ClientAssumption DEF Seqno, Caller, Conn
<1>2. /\ Pending' \subseteq Seqno /\ Holding' \subseteq Caller /\ CReleasing' \subseteq Caller
      /\ LReleasing' \subseteq Conn
  BY DEF Pending, Holding, CReleasing, LReleasing
<1>3. IsFiniteSet(Pending') /\ IsFiniteSet(Holding') /\ IsFiniteSet(CReleasing') /\ IsFiniteSet(LReleasing')
  BY <1>1, <1>2, FS_Subset
<1>4. Counted' = Cardinality(Pending') + Cardinality(Holding')
                  + (Cardinality(CReleasing') + Cardinality(LReleasing'))
  BY DEF Counted, Releasing, CReleasing, LReleasing
<1> QED BY <1>3, <1>4, FS_CardinalityType

LEMMA GoneFrom ==
  ASSUME NEW S, NEW x \in S, IsFiniteSet(S)
  PROVE  Cardinality(S \ {x}) = Cardinality(S) - 1 /\ Cardinality(S) > 0
BY FS_RemoveElement, FS_EmptySet, FS_CardinalityType

LEMMA AddedTo ==
  ASSUME NEW S, NEW x, x \notin S, IsFiniteSet(S)
  PROVE  Cardinality(S \cup {x}) = Cardinality(S) + 1
BY FS_AddElement

(* A step that touches neither.                                             *)
LEMMA SlotsKept ==
  ASSUME TypeInv, SlotsMatchPending, UNCHANGED <<autoReconnect, outstanding>>, Closing => Closing',
         Pending' = Pending, CReleasing' = CReleasing, LReleasing' = LReleasing,
         Holding' \subseteq Holding, autoReconnect = 0 => Holding' = Holding
  PROVE  SlotsMatchPending'
<1>1. Cardinality(Holding') <= Cardinality(Holding)
  BY CountedFinite, FS_Subset
<1>2. autoReconnect = 0 => Cardinality(Holding') = Cardinality(Holding)
  OBVIOUS
<1>3. Counted' <= Counted /\ (autoReconnect = 0 => Counted' = Counted) /\ Counted \in Nat /\ Counted' \in Nat
  BY <1>1, <1>2, CountedFinite, CountedFinitePrime, CountedIs
<1> QED BY <1>3 DEF SlotsMatchPending, TypeInv

(* A callback returns: the entry goes, the slot is still to be released.    *)
LEMMA SlotsDeleted ==
  ASSUME TypeInv, SlotsMatchPending, UNCHANGED <<autoReconnect, outstanding>>, Closing => Closing',
         NEW s \in Pending, Pending' = Pending \ {s}, Holding' = Holding,
         \/ CReleasing' = CReleasing /\ \E l : l \notin LReleasing /\ LReleasing' = LReleasing \cup {l}
         \/ LReleasing' = LReleasing /\ \E t : t \notin CReleasing /\ CReleasing' = CReleasing \cup {t}
  PROVE  SlotsMatchPending'
<1>1. Cardinality(Pending') = Cardinality(Pending) - 1
  BY CountedFinite, GoneFrom
<1>2. \/ CReleasing' = CReleasing /\ Cardinality(LReleasing') = Cardinality(LReleasing) + 1
      \/ LReleasing' = LReleasing /\ Cardinality(CReleasing') = Cardinality(CReleasing) + 1
  BY CountedFinite, AddedTo
<1>3. Counted' = Counted /\ Counted \in Nat
  BY <1>1, <1>2, CountedFinite, CountedFinitePrime, CountedIs
<1> QED BY <1>3 DEF SlotsMatchPending

(* A slot is released.                                                      *)
LEMMA SlotsReleased ==
  ASSUME TypeInv, SlotsMatchPending, UNCHANGED autoReconnect, Closing => Closing', Release,
         Pending' = Pending, Holding' = Holding,
         \/ CReleasing' = CReleasing /\ \E l \in LReleasing : LReleasing' = LReleasing \ {l}
         \/ LReleasing' = LReleasing /\ \E t \in CReleasing : CReleasing' = CReleasing \ {t}
  PROVE  SlotsMatchPending'
<1>1. \/ /\ CReleasing' = CReleasing /\ Cardinality(LReleasing') = Cardinality(LReleasing) - 1
         /\ Cardinality(LReleasing) > 0
      \/ /\ LReleasing' = LReleasing /\ Cardinality(CReleasing') = Cardinality(CReleasing) - 1
         /\ Cardinality(CReleasing) > 0
  BY CountedFinite, GoneFrom
<1>2. Counted' = Counted - 1 /\ Counted \in Nat /\ Counted > 0
  BY <1>1, CountedFinite, CountedFinitePrime, CountedIs
<1>3. /\ outstanding' \in Nat
      /\ outstanding > 0 => outstanding' = outstanding - 1
  BY ReleaseFacts DEF TypeInv
<1> QED BY <1>2, <1>3 DEF SlotsMatchPending, TypeInv

(* No caller starts or ends holding a slot for a command to be registered.  *)
LEMMA HoldingKept ==
  ASSUME TypeInv, CommandsInv,
         \A c \in Cmd : ledger[c] # "new" => (ledger'[c] = "batched" <=> ledger[c] = "batched"),
         \A u \in Caller :
           \/ cur'[u] = cur[u] /\ (pc'[u] \in {"acquire", "send"} <=> pc[u] \in {"acquire", "send"})
           \/ u \notin Holding /\ (cur'[u] = None \/ pc'[u] \in {"acquire", "send"})
  PROVE  Holding' = Holding
<1>1. ASSUME NEW u \in Caller PROVE u \in Holding' <=> u \in Holding
  <2>1. cur[u] \in Cmd \cup {None} /\ (cur[u] # None /\ pc[u] # "acquire" => ledger[cur[u]] # "new")
    BY DEF TypeInv, CommandsInv
  <2> QED BY <2>1 DEF Holding, Batched
<1>2. Holding \subseteq Caller /\ Holding' \subseteq Caller
  BY DEF Holding
<1> QED BY <1>1, <1>2

LEMMA SlotsStep ==
  ASSUME Alone, TypeInv, CommandsInv, ConnectionInv, TableInv, SlotsMatchPending, [Next]_vars
  PROVE  SlotsMatchPending'
<1> USE DEF netVars, socketVars, tableVars, semVars, opVars, callerVars, listenerVars, Goto, LGoto, Idle,
            ReportLabel, OpLabel
<1>0. /\ pc \in [Caller -> Label] /\ cur \in [Caller -> Cmd \cup {None}] /\ after \in [Caller -> Return]
      /\ ledger \in [Cmd -> State] /\ pending \in [Seqno -> Cmd \cup {None}] /\ lseq \in [Conn -> Seqno]
      /\ lpc \in [Conn -> {"unborn", "loop", "recv", "callback", "release", "dead"}]
      /\ lnext \in [Conn -> {"loop", "dead"}] /\ outstanding \in Nat /\ autoReconnect \in Nat
      /\ None \notin Cmd /\ None \notin Conn /\ nextSeq \in Nat /\ Seqno \subseteq Nat /\ 0 \in Seqno
      /\ handle \in Conn \cup {None} /\ tries \in [Caller -> Nat] /\ joined \in [Caller -> Conn \cup {None}]
      /\ Issuers \cup Drainers \cup Openers \cup Closers \subseteq Caller
  BY ClientAssumption, ConstantFacts DEF TypeInv, Caller
<1>a. \A t, u \in Caller : t = u
  BY DEF Alone
<1>f. \A s \in Seqno : pending[s] # None => pending[s] \in Cmd /\ ledger[pending[s]] \notin {"new", "batched"}
  BY <1>0 DEF CommandsInv
<1> DEFINE SameBatch == \A c \in Cmd : ledger[c] # "new" => (ledger'[c] = "batched" <=> ledger[c] = "batched")
           SameHolding == \A u \in Caller :
             \/ cur'[u] = cur[u] /\ (pc'[u] \in {"acquire", "send"} <=> pc[u] \in {"acquire", "send"})
             \/ u \notin Holding /\ (cur'[u] = None \/ pc'[u] \in {"acquire", "send"})
           Same == /\ UNCHANGED <<autoReconnect, outstanding>> /\ (Closing => Closing')
                   /\ Pending' = Pending /\ CReleasing' = CReleasing /\ LReleasing' = LReleasing
<1>s. (\E s \in Seqno : pending[s] # None /\ \E new \in {"failed", "done"} : ledger' = [ledger EXCEPT ![pending[s]] = new])
         \/ ledger' = ledger => SameBatch
  BY <1>0, <1>f
<1>h. SameBatch /\ SameHolding => Holding' = Holding
  BY HoldingKept
<1>k. ASSUME SameBatch, SameHolding, Same PROVE SlotsMatchPending'
  BY <1>k, <1>h, SlotsKept
<1> HIDE DEF SameBatch
<1>1. ASSUME NEW t \in Openers, Connect(t)
      PROVE  SlotsMatchPending'
  <2>1. SameBatch
    BY <1>1, <1>0, <1>s DEF Connect
  <2>2. SameHolding
    BY <1>1, <1>0 DEF Connect, Holding
  <2>3. Same
    BY <1>1, <1>0, <1>a DEF Connect, Same, Closing, Pending, CReleasing, LReleasing
  <2> QED BY <1>k, <2>1, <2>2, <2>3
<1>2. ASSUME NEW t \in Issuers, IssueRefused(t)
      PROVE  SlotsMatchPending'
  <2>1. SameBatch
    BY <1>2, <1>0, <1>s DEF IssueRefused, Report
  <2>2. SameHolding
    BY <1>2, <1>0 DEF IssueRefused, Report, Holding
  <2>3. Same
    BY <1>2, <1>0, <1>a DEF IssueRefused, Report, Same, Closing, Pending, CReleasing, LReleasing
  <2> QED BY <1>k, <2>1, <2>2, <2>3
<1>3. ASSUME NEW t \in Drainers, WaitQCall(t)
      PROVE  SlotsMatchPending'
  <2>1. SameBatch
    BY <1>3, <1>0, <1>s DEF WaitQCall
  <2>2. SameHolding
    BY <1>3, <1>0 DEF WaitQCall, Holding
  <2>3. Same
    BY <1>3, <1>0, <1>a DEF WaitQCall, Same, Closing, Pending, CReleasing, LReleasing
  <2> QED BY <1>k, <2>1, <2>2, <2>3
<1>4. ASSUME NEW t \in Closers, Close(t)
      PROVE  SlotsMatchPending'
  <2>1. SameBatch
    BY <1>4, <1>0, <1>s DEF Close
  <2>2. SameHolding
    BY <1>4, <1>0 DEF Close, Holding
  <2>3. Same
    BY <1>4, <1>0, <1>a DEF Close, Same, Closing, Pending, CReleasing, LReleasing
  <2> QED BY <1>k, <2>1, <2>2, <2>3
<1>5. ASSUME NEW t \in Caller, NewSocket(t)
      PROVE  SlotsMatchPending'
  <2>1. SameBatch
    BY <1>5, <1>0, <1>s DEF NewSocket
  <2>2. SameHolding
    BY <1>5, <1>0 DEF NewSocket, Holding
  <2>3. Same
    BY <1>5, <1>0, <1>a DEF NewSocket, Same, Closing, Pending, CReleasing, LReleasing
  <2> QED BY <1>k, <2>1, <2>2, <2>3
<1>6. ASSUME NEW t \in Caller, Established(t)
      PROVE  SlotsMatchPending'
  <2>1. SameBatch
    BY <1>6, <1>0, <1>s DEF Established
  <2>2. SameHolding
    BY <1>6, <1>0 DEF Established, Holding
  <2>3. Same
    BY <1>6, <1>0, <1>a DEF Established, Same, Closing, Pending, CReleasing, LReleasing
  <2> QED BY <1>k, <2>1, <2>2, <2>3
<1>7. ASSUME NEW t \in Caller, Refused(t)
      PROVE  SlotsMatchPending'
  <2>1. SameBatch
    BY <1>7, <1>0, <1>s DEF Refused, Report, Connecting
  <2>2. SameHolding
    BY <1>7, <1>0 DEF Refused, Report, Connecting, Holding
  <2>3. Same
    BY <1>7, <1>0, <1>a DEF Refused, Report, Connecting, Same, Closing, Pending, CReleasing, LReleasing
  <2> QED BY <1>k, <2>1, <2>2, <2>3
<1>8. ASSUME NEW t \in Caller, SignedOn(t)
      PROVE  SlotsMatchPending'
  <2>1. SameBatch
    BY <1>8, <1>0, <1>s DEF SignedOn, Report
  <2>2. SameHolding
    BY <1>8, <1>0 DEF SignedOn, Report, Holding
  <2>3. Same
    BY <1>8, <1>0, <1>a DEF SignedOn, Report, Same, Closing, Pending, CReleasing, LReleasing
  <2> QED BY <1>k, <2>1, <2>2, <2>3
<1>9. ASSUME NEW t \in Caller, SignOnRefused(t)
      PROVE  SlotsMatchPending'
  <2>1. SameBatch
    BY <1>9, <1>0, <1>s DEF SignOnRefused, Report, Connecting
  <2>2. SameHolding
    BY <1>9, <1>0 DEF SignOnRefused, Report, Connecting, Holding
  <2>3. Same
    BY <1>9, <1>0, <1>a DEF SignOnRefused, Report, Connecting, Same, Closing, Pending, CReleasing, LReleasing
  <2> QED BY <1>k, <2>1, <2>2, <2>3
<1>10. ASSUME NEW t \in Caller, Renumber(t)
      PROVE  SlotsMatchPending'
  <2>1. SameBatch
    BY <1>10, <1>0, <1>s DEF Renumber
  <2>2. SameHolding
    BY <1>10, <1>0 DEF Renumber, Holding
  <2>3. Same
    BY <1>10, <1>0, <1>a DEF Renumber, Same, Closing, Pending, CReleasing, LReleasing
  <2> QED BY <1>k, <2>1, <2>2, <2>3
<1>11. ASSUME NEW t \in Caller, NewThread(t)
      PROVE  SlotsMatchPending'
  <2>1. SameBatch
    BY <1>11, <1>0, <1>s DEF NewThread
  <2>2. SameHolding
    BY <1>11, <1>0 DEF NewThread, Holding
  <2>3. Same
    BY <1>11, <1>0, <1>a DEF NewThread, Same, Closing, Pending, CReleasing, LReleasing
  <2> QED BY <1>k, <2>1, <2>2, <2>3
<1>12. ASSUME NEW t \in Caller, SetConnected(t)
      PROVE  SlotsMatchPending'
  <2>1. SameBatch
    BY <1>12, <1>0, <1>s DEF SetConnected
  <2>2. SameHolding
    BY <1>12, <1>0 DEF SetConnected, Holding
  <2>3. Same
    BY <1>12, <1>0, <1>a DEF SetConnected, Same, Closing, Pending, CReleasing, LReleasing
  <2> QED BY <1>k, <2>1, <2>2, <2>3
<1>13. ASSUME NEW t \in Caller, AcquireSleep(t)
      PROVE  SlotsMatchPending'
  <2>1. SameBatch
    BY <1>13, <1>0, <1>s DEF AcquireSleep
  <2>2. SameHolding
    BY <1>13, <1>0 DEF AcquireSleep, Holding
  <2>3. Same
    BY <1>13, <1>0, <1>a DEF AcquireSleep, Same, Closing, Pending, CReleasing, LReleasing
  <2> QED BY <1>k, <2>1, <2>2, <2>3
<1>14. ASSUME NEW t \in Caller, Reconnect(t)
      PROVE  SlotsMatchPending'
  <2>1. SameBatch
    BY <1>14, <1>0, <1>s DEF Reconnect
  <2>2. SameHolding
    BY <1>14, <1>0 DEF Reconnect, Holding
  <2>3. Same
    BY <1>14, <1>0, <1>a DEF Reconnect, Same, Closing, Pending, CReleasing, LReleasing
  <2> QED BY <1>k, <2>1, <2>2, <2>3
<1>15. ASSUME NEW t \in Caller, LeaveReconnect(t)
      PROVE  SlotsMatchPending'
  <2>1. SameBatch
    BY <1>15, <1>0, <1>s DEF LeaveReconnect, Report
  <2>2. SameHolding
    BY <1>15, <1>0 DEF LeaveReconnect, Report, Holding
  <2>3. Same
    BY <1>15, <1>0, <1>a DEF LeaveReconnect, Report, Same, Closing, Pending, CReleasing, LReleasing
  <2> QED BY <1>k, <2>1, <2>2, <2>3
<1>16. ASSUME NEW t \in Caller, Send(t)
      PROVE  SlotsMatchPending'
  <2>1. SameBatch
    BY <1>16, <1>0, <1>s DEF Send, SendReturns
  <2>2. SameHolding
    BY <1>16, <1>0 DEF Send, SendReturns, Holding
  <2>3. Same
    BY <1>16, <1>0, <1>a DEF Send, SendReturns, Same, Closing, Pending, CReleasing, LReleasing
  <2> QED BY <1>k, <2>1, <2>2, <2>3
<1>17. ASSUME NEW t \in Caller, SendError(t)
      PROVE  SlotsMatchPending'
  <2>1. SameBatch
    BY <1>17, <1>0, <1>s DEF SendError, Report, SendReturns
  <2>2. SameHolding
    BY <1>17, <1>0 DEF SendError, Report, SendReturns, Holding
  <2>3. Same
    BY <1>17, <1>0, <1>a DEF SendError, Report, SendReturns, Same, Closing, Pending, CReleasing, LReleasing
  <2> QED BY <1>k, <2>1, <2>2, <2>3
<1>18. ASSUME NEW t \in Caller, Shutdown(t)
      PROVE  SlotsMatchPending'
  <2>1. SameBatch
    BY <1>18, <1>0, <1>s DEF Shutdown
  <2>2. SameHolding
    BY <1>18, <1>0 DEF Shutdown, Holding
  <2>3. Same
    BY <1>18, <1>0, <1>a DEF Shutdown, Same, Closing, Pending, CReleasing, LReleasing
  <2> QED BY <1>k, <2>1, <2>2, <2>3
<1>19. ASSUME NEW t \in Caller, Forget(t)
      PROVE  SlotsMatchPending'
  <2>1. SameBatch
    BY <1>19, <1>0, <1>s DEF Forget
  <2>2. SameHolding
    BY <1>19, <1>0 DEF Forget, Holding
  <2>3. Same
    BY <1>19, <1>0, <1>a DEF Forget, Same, Closing, Pending, CReleasing, LReleasing
  <2> QED BY <1>k, <2>1, <2>2, <2>3
<1>20. ASSUME NEW t \in Caller, WaitQSleep(t)
      PROVE  SlotsMatchPending'
  <2>1. SameBatch
    BY <1>20, <1>0, <1>s DEF WaitQSleep
  <2>2. SameHolding
    BY <1>20, <1>0 DEF WaitQSleep, Holding
  <2>3. Same
    BY <1>20, <1>0, <1>a DEF WaitQSleep, Same, Closing, Pending, CReleasing, LReleasing
  <2> QED BY <1>k, <2>1, <2>2, <2>3
<1>21. ASSUME NEW t \in Caller, WaitQTrue(t)
      PROVE  SlotsMatchPending'
  <2>1. SameBatch
    BY <1>21, <1>0, <1>s DEF WaitQTrue
  <2>2. SameHolding
    BY <1>21, <1>0 DEF WaitQTrue, Holding
  <2>3. Same
    BY <1>21, <1>0, <1>a DEF WaitQTrue, Same, Closing, Pending, CReleasing, LReleasing
  <2> QED BY <1>k, <2>1, <2>2, <2>3
<1>22. ASSUME NEW l \in Conn, ListenTest(l)
      PROVE  SlotsMatchPending'
  <2>1. SameBatch
    BY <1>22, <1>0, <1>s DEF ListenTest
  <2>2. SameHolding
    BY <1>22, <1>0 DEF ListenTest, Holding
  <2>3. Same
    BY <1>22, <1>0, <1>a DEF ListenTest, Same, Closing, Pending, CReleasing, LReleasing
  <2> QED BY <1>k, <2>1, <2>2, <2>3
<1>23. ASSUME NEW l \in Conn, RecvError(l)
      PROVE  SlotsMatchPending'
  <2>1. SameBatch
    BY <1>23, <1>0, <1>s DEF RecvError, LReport
  <2>2. SameHolding
    BY <1>23, <1>0 DEF RecvError, LReport, Holding
  <2>3. Same
    BY <1>23, <1>0, <1>a DEF RecvError, LReport, Same, Closing, Pending, CReleasing, LReleasing
  <2> QED BY <1>k, <2>1, <2>2, <2>3
<1>24. ASSUME NEW l \in Conn, CallbackRaises(l)
      PROVE  SlotsMatchPending'
  <2>1. SameBatch
    BY <1>24, <1>0, <1>s DEF CallbackRaises, LReport
  <2>2. SameHolding
    BY <1>24, <1>0 DEF CallbackRaises, LReport, Holding
  <2>3. Same
    BY <1>24, <1>0, <1>a DEF CallbackRaises, LReport, Same, Closing, Pending, CReleasing, LReleasing
  <2> QED BY <1>k, <2>1, <2>2, <2>3
<1>25. ASSUME NEW l \in Conn, RecvSSLError(l)
      PROVE  SlotsMatchPending'
  <2>1. SameBatch
    BY <1>25, <1>0, <1>s DEF RecvSSLError
  <2>2. SameHolding
    BY <1>25, <1>0 DEF RecvSSLError, Holding
  <2>3. Same
    BY <1>25, <1>0, <1>a DEF RecvSSLError, Same, Closing, Pending, CReleasing, LReleasing
  <2> QED BY <1>k, <2>1, <2>2, <2>3
<1>26. ASSUME NEW l \in Conn, RecvTimeout(l)
      PROVE  SlotsMatchPending'
  <2>1. SameBatch
    BY <1>26, <1>0, <1>s DEF RecvTimeout, LReport
  <2>2. SameHolding
    BY <1>26, <1>0 DEF RecvTimeout, LReport, Holding
  <2>3. Same
    BY <1>26, <1>0, <1>a DEF RecvTimeout, LReport, Same, Closing, Pending, CReleasing, LReleasing
  <2> QED BY <1>k, <2>1, <2>2, <2>3
<1>27. ASSUME NEW l \in Conn, ScanDisturbed(l)
      PROVE  SlotsMatchPending'
  <2>1. SameBatch
    BY <1>27, <1>0, <1>s DEF ScanDisturbed
  <2>2. SameHolding
    BY <1>27, <1>0 DEF ScanDisturbed, Holding
  <2>3. Same
    BY <1>27, <1>0, <1>a DEF ScanDisturbed, Same, Closing, Pending, CReleasing, LReleasing
  <2> QED BY <1>k, <2>1, <2>2, <2>3
<1>28. ASSUME NEW l \in Conn, NEW r \in drive, BadAnswer(l, r)
      PROVE  SlotsMatchPending'
  <2>1. SameBatch
    BY <1>28, <1>0, <1>s DEF BadAnswer, LReport
  <2>2. SameHolding
    BY <1>28, <1>0 DEF BadAnswer, LReport, Holding
  <2>3. Same
    BY <1>28, <1>0, <1>a DEF BadAnswer, LReport, Same, Closing, Pending, CReleasing, LReleasing
  <2> QED BY <1>k, <2>1, <2>2, <2>3
<1>29. ASSUME NEW c \in up, ConnectionDrops(c)
      PROVE  SlotsMatchPending'
  <2>1. SameBatch
    BY <1>29, <1>0, <1>s DEF ConnectionDrops
  <2>2. SameHolding
    BY <1>29, <1>0 DEF ConnectionDrops, Holding
  <2>3. Same
    BY <1>29, <1>0, <1>a DEF ConnectionDrops, Same, Closing, Pending, CReleasing, LReleasing
  <2> QED BY <1>k, <2>1, <2>2, <2>3
<1>30. CASE UNCHANGED vars
  <2>1. SameBatch /\ SameHolding
    BY <1>30, <1>s DEF vars
  <2>2. Same
    BY <1>30 DEF vars, Same, Closing, Pending, CReleasing, LReleasing
  <2> QED BY <1>k, <2>1, <2>2
<1>31. ASSUME NEW t \in Caller, Wipe(t) \/ Clear(t)
      PROVE  SlotsMatchPending'
  BY <1>31, <1>0 DEF Wipe, Clear, SlotsMatchPending, Closing
<1>32. ASSUME NEW t \in Caller, SignOnFails(t)
      PROVE  SlotsMatchPending'
  <2>1. SameBatch
    BY <1>32, <1>0, <1>s DEF SignOnFails, Abandon
  <2>2. Same
    BY <1>32, <1>0, <1>a DEF SignOnFails, Abandon, Same, Closing, Pending, CReleasing, LReleasing
  <2>3. autoReconnect = 0 => cur[t] = None
    BY <1>32, <1>0 DEF SignOnFails, TableInv
  <2>4. autoReconnect = 0 => SameHolding
    BY <1>32, <1>0, <2>3 DEF SignOnFails, Abandon
  <2>5. Holding' \subseteq Holding
    BY <1>32, <1>0 DEF SignOnFails, Abandon, Holding, Batched
  <2> QED BY <1>h, <2>1, <2>2, <2>4, <2>5, SlotsKept DEF Same
<1>33. ASSUME NEW t \in Caller, StartListener(t)
      PROVE  SlotsMatchPending'
  <2>1. SameBatch
    BY <1>33, <1>0, <1>s DEF StartListener, Abandon, Connecting
  <2>2. Same
    BY <1>33, <1>0, <1>a DEF StartListener, Abandon, Connecting, ConnectionInv, Same, Closing, Pending, CReleasing, LReleasing
  <2>3. autoReconnect = 0 => cur[t] = None
    BY <1>33, <1>0 DEF StartListener, TableInv
  <2>4. autoReconnect = 0 => SameHolding
    BY <1>33, <1>0, <2>3 DEF StartListener, Abandon, Connecting
  <2>5. Holding' \subseteq Holding
    BY <1>33, <1>0 DEF StartListener, Abandon, Connecting, Holding, Batched
  <2> QED BY <1>h, <2>1, <2>2, <2>4, <2>5, SlotsKept DEF Same
<1>34. ASSUME NEW t \in Issuers, Issue(t)
      PROVE  SlotsMatchPending'
  <2>1. SameBatch
    BY <1>34, <1>0, <1>s DEF Issue, Begin
  <2>2. SameHolding
    BY <1>34, <1>0 DEF Issue, Begin, Holding, CommandsInv, CloseLabel
  <2>3. Same
    BY <1>34, <1>0, <1>a DEF Issue, Begin, Same, Closing, Pending, CReleasing, LReleasing
  <2> QED BY <1>k, <2>1, <2>2, <2>3
<1>35. ASSUME NEW t \in Caller, ReportRaises(t)
      PROVE  SlotsMatchPending'
  <2>1. SameBatch
    BY <1>35, <1>0, <1>s DEF ReportRaises, Report, Abandon, Connecting
  <2>2. Same
    BY <1>35, <1>0, <1>a DEF ReportRaises, Report, Abandon, Connecting, Same, Closing, Pending, CReleasing, LReleasing
  <2>3. autoReconnect = 0 => cur[t] = None
    BY <1>35, <1>0 DEF ReportRaises, TableInv
  <2>4. autoReconnect = 0 => SameHolding
    BY <1>35, <1>0, <2>3 DEF ReportRaises, Report, Abandon, Connecting
  <2>5. Holding' \subseteq Holding
    <3>1. CASE Abandon(t) /\ UNCHANGED ledger
      BY <1>0, <3>1 DEF Abandon, Holding, Batched
    <3>2. CASE after[t] = "renumber" /\ Report(t, Connecting(t)) /\ UNCHANGED <<opVars, joined>>
      <4>1. SameHolding
        BY <1>35, <1>0, <3>2 DEF ReportRaises, Report, Connecting
      <4> QED BY <1>h, <2>1, <4>1
    <3> QED BY <1>35, <3>1, <3>2 DEF ReportRaises
  <2> QED BY <1>h, <2>1, <2>2, <2>4, <2>5, SlotsKept DEF Same
<1>36. ASSUME NEW t \in Caller, ReportDeletes(t)
      PROVE  SlotsMatchPending'
  <2>1. CASE pending[0] # None
    <3>1. /\ pending' = [pending EXCEPT ![0] = None] /\ pc' = [pc EXCEPT ![t] = "release"] /\ pc[t] = "callback"
          /\ UNCHANGED <<autoReconnect, outstanding, cur, ledger, lpc>>
      BY <1>36, <2>1 DEF ReportDeletes
    <3>2. Pending' = Pending \ {0} /\ 0 \in Pending
      BY <1>0, <2>1, <3>1 DEF Pending
    <3>3. t \notin CReleasing /\ CReleasing' = CReleasing \cup {t} /\ LReleasing' = LReleasing
      BY <1>0, <3>1 DEF CReleasing, LReleasing
    <3>4. Holding' = Holding
      BY <1>0, <3>1 DEF Holding, Batched
    <3>5. Closing => Closing'
      BY <1>0, <1>a, <3>1 DEF Closing
    <3> QED BY <3>1, <3>2, <3>3, <3>4, <3>5, SlotsDeleted
  <2>2. CASE pending[0] = None
    <3>1. SameBatch
      BY <1>36, <1>s DEF ReportDeletes
    <3>2. Same
      BY <1>36, <1>0, <1>a, <2>2 DEF ReportDeletes, Abandon, Same, Closing, Pending, CReleasing, LReleasing
    <3>3. autoReconnect = 0 => cur[t] = None
      BY <1>36, <1>0 DEF ReportDeletes, TableInv
    <3>4. autoReconnect = 0 => SameHolding
      BY <1>36, <1>0, <2>2, <3>3 DEF ReportDeletes, Abandon
    <3>5. Holding' \subseteq Holding
      BY <1>36, <1>0, <2>2 DEF ReportDeletes, Abandon, Holding, Batched
    <3> QED BY <1>h, <3>1, <3>2, <3>4, <3>5, SlotsKept DEF Same
  <2> QED BY <2>1, <2>2
<1>37. ASSUME NEW t \in Caller, ReportReleases(t)
      PROVE  SlotsMatchPending'
  <2>1. /\ pc[t] = "release" /\ pc' = [pc EXCEPT ![t] = after[t]] /\ after[t] \in Return /\ Release
        /\ UNCHANGED <<autoReconnect, pending, cur, ledger, lpc>>
    BY <1>37, <1>0 DEF ReportReleases
  <2>2. t \in CReleasing /\ CReleasing' = CReleasing \ {t} /\ LReleasing' = LReleasing /\ Pending' = Pending
    BY <1>0, <2>1 DEF CReleasing, LReleasing, Pending, Return
  <2>3. Holding' = Holding
    BY <1>0, <2>1 DEF Holding, Batched, Return
  <2>4. Closing => Closing'
    BY <1>0, <1>a, <2>1 DEF Closing
  <2> QED BY <2>1, <2>2, <2>3, <2>4, SlotsReleased
<1>38. ASSUME NEW l \in Conn, CallbackReturns(l)
      PROVE  SlotsMatchPending'
  <2>1. CASE pending[lseq[l]] # None
    <3>1. /\ pending' = [pending EXCEPT ![lseq[l]] = None] /\ lpc' = [lpc EXCEPT ![l] = "release"] /\ lpc[l] = "callback"
          /\ UNCHANGED <<autoReconnect, outstanding, cur, ledger, pc>>
      BY <1>38, <2>1 DEF CallbackReturns
    <3>2. Pending' = Pending \ {lseq[l]} /\ lseq[l] \in Pending
      BY <1>0, <2>1, <3>1 DEF Pending
    <3>3. l \notin LReleasing /\ LReleasing' = LReleasing \cup {l} /\ CReleasing' = CReleasing
      BY <1>0, <3>1 DEF CReleasing, LReleasing
    <3>4. Holding' = Holding /\ (Closing => Closing')
      BY <3>1 DEF Holding, Batched, Closing
    <3> QED BY <3>1, <3>2, <3>3, <3>4, SlotsDeleted
  <2>2. CASE pending[lseq[l]] = None
    <3>1. SameBatch /\ SameHolding
      BY <1>38, <1>s DEF CallbackReturns
    <3>2. Same
      BY <1>38, <1>0, <2>2 DEF CallbackReturns, Same, Closing, Pending, CReleasing, LReleasing
    <3> QED BY <1>k, <3>1, <3>2
  <2> QED BY <2>1, <2>2
<1>39. ASSUME NEW l \in Conn, SlotReleased(l)
      PROVE  SlotsMatchPending'
  <2>1. /\ lpc[l] = "release" /\ lpc' = [lpc EXCEPT ![l] = lnext[l]] /\ lnext[l] \in {"loop", "dead"} /\ Release
        /\ UNCHANGED <<autoReconnect, pending, cur, ledger, pc>>
    BY <1>39, <1>0 DEF SlotReleased
  <2>2. l \in LReleasing /\ LReleasing' = LReleasing \ {l} /\ CReleasing' = CReleasing /\ Pending' = Pending
    BY <1>0, <2>1 DEF CReleasing, LReleasing, Pending
  <2>3. Holding' = Holding /\ (Closing => Closing')
    BY <2>1 DEF Holding, Batched, Closing
  <2> QED BY <2>1, <2>2, <2>3, SlotsReleased
<1>40. ASSUME NEW l \in Conn, NEW r \in drive, Receive(l, r)
      PROVE  SlotsMatchPending'
  <2>1. SameBatch
    <3>1. r.seq \in Seqno
      BY DEF TypeInv
    <3> QED BY <1>40, <1>s, <3>1 DEF Receive
  <2>2. SameHolding
    BY <1>40 DEF Receive
  <2>3. Same
    BY <1>40, <1>0 DEF Receive, Same, Closing, Pending, CReleasing, LReleasing
  <2> QED BY <1>k, <2>1, <2>2, <2>3
<1>41. ASSUME NEW t \in Issuers, IssueBatched(t)
      PROVE  SlotsMatchPending'
  <2>1. PICK c \in Cmd : cur' = [cur EXCEPT ![t] = c] /\ ledger[c] = "new"
    BY <1>41, <1>0, BeginFacts DEF IssueBatched
  <2>2. ledger' = [ledger EXCEPT ![c] = "batched"] /\ pc' = [pc EXCEPT ![t] = "reconnect"] /\ pc[t] = "idle"
    BY <1>41, <1>0, <2>1 DEF IssueBatched, Begin
  <2>3. cur[t] = None /\ Batched(c)'
    BY <1>0, <2>1, <2>2 DEF CommandsInv, CloseLabel, Batched
  <2>4. Holding' = {} /\ Holding = {}
    BY <1>0, <1>a, <2>1, <2>2, <2>3 DEF Holding, Batched
  <2>5. Same
    BY <1>41, <1>0, <1>a, <2>2 DEF IssueBatched, Begin, Same, Closing, Pending, CReleasing, LReleasing
  <2> QED BY <2>4, <2>5, SlotsKept DEF Same
<1>42. ASSUME NEW t \in Caller, AcquireTake(t)
      PROVE  SlotsMatchPending'
  <2>1. /\ ledger' = [ledger EXCEPT ![cur[t]] = "open"] /\ pc' = [pc EXCEPT ![t] = "reconnect"]
        /\ pc[t] = "acquire" /\ outstanding' = outstanding + 1
        /\ UNCHANGED <<autoReconnect, pending, cur, lpc>>
    BY <1>42 DEF AcquireTake
  <2>2. cur[t] \in Cmd
    BY <1>0, <2>1 DEF CommandsInv, OpLabel
  <2>3. Holding = {} /\ Holding' = {t}
    BY <1>0, <1>a, <2>1, <2>2 DEF Holding, Batched
  <2>4. Pending' = Pending /\ CReleasing' = CReleasing /\ LReleasing' = LReleasing /\ ~Closing
    BY <1>0, <1>a, <2>1 DEF Pending, CReleasing, LReleasing, Closing
  <2>5. Cardinality(Holding) = 0 /\ Cardinality(Holding') = 1
    BY <2>3, FS_EmptySet, FS_Singleton
  <2>6. Counted' = Counted + 1 /\ Counted \in Nat
    BY <2>4, <2>5, CountedFinite, CountedFinitePrime, CountedIs
  <2> QED BY <1>0, <2>1, <2>4, <2>6 DEF SlotsMatchPending
<1>43. ASSUME NEW t \in Caller, Register(t)
      PROVE  SlotsMatchPending'
  <2>1. /\ pc[t] = "register" /\ pc' = [pc EXCEPT ![t] = "send"] /\ nextSeq \in Seqno
        /\ UNCHANGED <<autoReconnect, outstanding, cur, ledger, lpc>>
        /\ pending' = IF Batched(cur[t]) THEN pending ELSE [pending EXCEPT ![nextSeq] = cur[t]]
    BY <1>43 DEF Register
  <2>2. cur[t] \in Cmd /\ CReleasing' = CReleasing /\ LReleasing' = LReleasing /\ ~Closing
    BY <1>0, <1>a, <2>1 DEF CommandsInv, OpLabel, CReleasing, LReleasing, Closing
  <2>3. CASE Batched(cur[t])
    <3>1. Holding' = {} /\ Holding = {} /\ Pending' = Pending
      BY <1>0, <1>a, <2>1, <2>3 DEF Holding, Batched, Pending
    <3> QED BY <2>1, <2>2, <3>1, SlotsKept
  <2>4. CASE ~Batched(cur[t])
    <3>1. Holding = {t} /\ Holding' = {} /\ Pending' = Pending \cup {nextSeq}
      BY <1>0, <1>a, <2>1, <2>2, <2>4 DEF Holding, Batched, Pending
    <3>2. Cardinality(Holding) = 1 /\ Cardinality(Holding') = 0
      BY <3>1, FS_EmptySet, FS_Singleton
    <3>3. autoReconnect = 0 => nextSeq \notin Pending
      BY <1>0 DEF TableInv, Pending
    <3>4. CASE nextSeq \notin Pending
      <4>1. Cardinality(Pending') = Cardinality(Pending) + 1
        BY <3>1, <3>4, CountedFinite, AddedTo
      <4>2. Counted' = Counted /\ Counted \in Nat
        BY <2>2, <3>2, <4>1, CountedFinite, CountedFinitePrime, CountedIs
      <4> QED BY <2>1, <2>2, <4>2 DEF SlotsMatchPending
    <3>5. CASE nextSeq \in Pending
      <4>1. Pending' = Pending
        BY <3>1, <3>5
      <4>2. Counted' = Counted - 1 /\ Counted \in Nat
        BY <2>2, <3>2, <4>1, CountedFinite, CountedFinitePrime, CountedIs
      <4> QED BY <1>0, <2>1, <2>2, <3>3, <3>5, <4>2 DEF SlotsMatchPending
    <3> QED BY <3>4, <3>5
  <2> QED BY <2>3, <2>4
<1>44. ASSUME NEW t \in Caller, Join(t)
      PROVE  SlotsMatchPending'
  <2>1. /\ pc[t] = "join" /\ UNCHANGED <<outstanding, pending, cur, lpc, autoReconnect, connected>>
        /\ \E label \in {"idle", "forget"} : pc' = [pc EXCEPT ![t] = label]
    BY <1>44 DEF Join
  <2>2. cur[t] = None /\ outstanding = 0 /\ \A s \in Seqno : pending[s] = None
    BY <1>0, <2>1 DEF CommandsInv, CloseLabel, TableInv
  <2>3. \A l \in Conn : ~Alive(l)
    BY <1>44, <1>0 DEF Join, ConnectionInv
  <2>4. Pending' = {} /\ Holding' = {}
    BY <1>0, <1>a, <2>1, <2>2 DEF Pending, Holding
  <2>5. CReleasing' = {} /\ LReleasing' = {}
    BY <1>0, <1>a, <2>1, <2>3 DEF CReleasing, LReleasing, Alive
  <2>6. Counted' = 0
    BY <2>4, <2>5, FS_EmptySet, CountedFinitePrime
  <2> QED BY <2>1, <2>2, <2>6 DEF SlotsMatchPending
<1> QED
  BY <1>1, <1>2, <1>3, <1>4, <1>5, <1>6, <1>7, <1>8, <1>9, <1>10, <1>11, <1>12, <1>13, <1>14,
     <1>15, <1>16, <1>17, <1>18, <1>19, <1>20, <1>21, <1>22, <1>23, <1>24, <1>25, <1>26, <1>27,
     <1>28, <1>29, <1>30, <1>31, <1>32, <1>33, <1>34, <1>35, <1>36, <1>37, <1>38, <1>39, <1>40,
     <1>41, <1>42, <1>43, <1>44
     DEF Next, CallerStep, ConnectStep, CommandStep, CloseStep, ListenerStep, ListenerFault, Caller

-----------------------------------------------------------------------------
LEMMA BaseInductive == Spec => [](TypeInv /\ CommandsInv)
<1>1. Init => TypeInv
  BY TypeInit
<1>2. Init => CommandsInv
  BY DEF Init, CommandsInv, CloseLabel, ReportLabel, OpLabel
<1>3. TypeInv /\ CommandsInv /\ [Next]_vars => TypeInv' /\ CommandsInv'
  BY TypeStep, CommandsStep
<1> QED BY <1>1, <1>2, <1>3, PTL DEF Spec

(* The types, for any threads whatever.                                     *)
THEOREM Typing == Spec => []TypeInv
BY BaseInductive, PTL

AloneInv == ConnectionInv /\ TableInv /\ LinkInv /\ AnswersInv /\ SlotsMatchPending

LEMMA AloneInductive ==
  ASSUME Alone
  PROVE  Spec => [](TypeInv /\ CommandsInv /\ AloneInv)
<1>1. Init => AloneInv
  <2> SUFFICES ASSUME Init PROVE AloneInv
    OBVIOUS
  <2>1. ConnectionInv
    BY DEF Init, ConnectionInv, Alive, Connects, ConnectLabel, ReportLabel, CloseLabel
  <2>2. TableInv
    BY DEF Init, TableInv
  <2>3. LinkInv /\ AnswersInv
    BY DEF Init, LinkInv, Opened, AnswersInv, Fresh, ReportLabel
  <2>4. Pending = {} /\ Holding = {} /\ CReleasing = {} /\ LReleasing = {}
    BY DEF Init, Pending, Holding, CReleasing, LReleasing
  <2>5. Counted = 0
    BY <2>4, CountedIs, FS_EmptySet
  <2> QED BY <2>1, <2>2, <2>3, <2>5 DEF Init, AloneInv, SlotsMatchPending
<1>2. TypeInv /\ CommandsInv /\ AloneInv /\ [Next]_vars => TypeInv' /\ CommandsInv' /\ AloneInv'
  BY TypeStep, CommandsStep, ConnectionStep, TableStep, LinkStep, AnswersStep,
     SlotsStep DEF AloneInv
<1>3. Init => TypeInv /\ CommandsInv
  BY TypeInit DEF Init, CommandsInv, CloseLabel, ReportLabel, OpLabel
<1> QED BY <1>1, <1>2, <1>3, PTL DEF Spec

(* Whatever errors are reported, every slot belongs to a command in         *)
(* _pending, to one about to be registered, or to a callback that has just  *)
(* returned; the statements of close() between which this does not hold are *)
(* those that SlotsMatchPending excepts.                                    *)
THEOREM SlotsAlwaysMatch ==
  ASSUME Alone
  PROVE  Spec => []SlotsMatchPending
<1>1. AloneInv => SlotsMatchPending
  BY DEF AloneInv
<1> QED BY <1>1, AloneInductive, PTL

(* Only connect() starts the sequence numbers again.                        *)
LEMMA RenumberOnly ==
  ASSUME TypeInv, [Next]_vars, nextSeq' < nextSeq
  PROVE  \E t \in Caller : Renumber(t)
<1> DEFINE Goal == \E t \in Caller : Renumber(t)
<1> USE DEF tableVars, SendReturns
<1>0. ~(nextSeq' = nextSeq) /\ ~(nextSeq' = nextSeq + 1)
  BY DEF TypeInv
<1> HIDE DEF Goal
<1>1. ASSUME NEW t \in Caller, Renumber(t)
      PROVE  Goal
  BY <1>1 DEF Goal
<1>2. ASSUME NEW t \in Caller, Register(t)
      PROVE  Goal
  BY <1>2, <1>0 DEF Register
<1>3. ASSUME NEW t \in Caller,
                Connect(t) \/ IssueRefused(t) \/ Issue(t) \/ IssueBatched(t) \/ WaitQCall(t)
               \/ Close(t) \/ NewSocket(t) \/ Established(t) \/ Refused(t) \/ SignedOn(t)
               \/ SignOnRefused(t) \/ SignOnFails(t) \/ NewThread(t) \/ SetConnected(t)
               \/ StartListener(t) \/ AcquireSleep(t) \/ AcquireTake(t) \/ Reconnect(t)
               \/ LeaveReconnect(t) \/ Send(t) \/ SendError(t) \/ Shutdown(t) \/ Wipe(t)
               \/ Clear(t) \/ Join(t) \/ Forget(t) \/ WaitQSleep(t) \/ WaitQTrue(t)
               \/ ReportDeletes(t) \/ ReportReleases(t) \/ ReportRaises(t)
      PROVE  Goal
  BY <1>3, <1>0 DEF AcquireSleep, AcquireTake, Begin, Clear, Close, Connect, Established,
     Forget, Issue, IssueBatched, IssueRefused, Join, LeaveReconnect, NewSocket, NewThread,
     Reconnect, Refused, ReportDeletes, ReportRaises, ReportReleases, Send, SendError,
     SetConnected, Shutdown, SignOnFails, SignOnRefused, SignedOn, StartListener, WaitQCall,
     WaitQSleep, WaitQTrue, Wipe
<1>4. ASSUME NEW l \in Conn,
                ListenTest(l) \/ CallbackReturns(l) \/ SlotReleased(l) \/ RecvError(l)
               \/ CallbackRaises(l) \/ RecvSSLError(l) \/ RecvTimeout(l) \/ ScanDisturbed(l)
      PROVE  Goal
  BY <1>4, <1>0 DEF ListenTest, CallbackReturns, SlotReleased, RecvError, CallbackRaises,
     RecvSSLError, RecvTimeout, ScanDisturbed
<1>5. ASSUME NEW l \in Conn, NEW r \in drive, Receive(l, r) \/ BadAnswer(l, r)
      PROVE  Goal
  BY <1>5, <1>0 DEF Receive, BadAnswer
<1>6. ASSUME NEW c \in up, ConnectionDrops(c)
      PROVE  Goal
  BY <1>6, <1>0 DEF ConnectionDrops
<1>7. CASE UNCHANGED vars
  BY <1>7, <1>0 DEF vars
<1> QED
  BY <1>1, <1>2, <1>3, <1>4, <1>5, <1>6, <1>7
     DEF Goal, Next, CallerStep, ConnectStep, CommandStep, CloseStep, ListenerStep,
     ListenerFault, Caller

(* connect() after close() starts with an empty table and all slots free.   *)
LEMMA RenumberClean ==
  ASSUME Alone, TypeInv, CommandsInv, AloneInv, NEW t \in Caller, Renumber(t), autoReconnect = 0
  PROVE  Pending' = {} /\ outstanding' = 0
<1>1. pc[t] = "renumber" /\ UNCHANGED <<pending, outstanding>>
  BY DEF Renumber, semVars
<1>2. ~connected /\ \A u \in Caller : pc[u] = "renumber"
  BY <1>1 DEF Alone, AloneInv, ConnectionInv, Connects, ConnectLabel
<1>3. outstanding = 0 /\ \A s \in Seqno : pending[s] = None
  BY <1>2 DEF AloneInv, TableInv
<1> QED BY <1>1, <1>3 DEF Pending

THEOREM ConnectsClean ==
  ASSUME Alone
  PROVE  Spec => CleanConnect
<1>1. TypeInv /\ CommandsInv /\ AloneInv /\ [Next]_vars
        => [nextSeq' < nextSeq /\ autoReconnect = 0 => Pending' = {} /\ outstanding' = 0]_vars
  BY RenumberOnly, RenumberClean
<1> QED BY <1>1, AloneInductive, PTL DEF Spec, CleanConnect

(* An answer never finds another command's callback.                        *)
THEOREM AnswersFindTheirCommand ==
  ASSUME Alone
  PROVE  Spec => []NoForeignAnswer
<1>1. AloneInv => NoForeignAnswer
  BY DEF AloneInv, AnswersInv, LinkInv, NoForeignAnswer, Receivable, Numbered
<1> QED BY <1>1, AloneInductive, PTL

(* At most one listener thread is alive.                                    *)
THEOREM OneListenerAlive ==
  ASSUME Alone
  PROVE  Spec => []OneListener
<1>1. AloneInv => OneListener
  <2> SUFFICES ASSUME AloneInv PROVE OneListener
    OBVIOUS
  <2>1. {l \in Conn : Alive(l)} \subseteq {handle}
    BY DEF AloneInv, ConnectionInv
  <2>2. IsFiniteSet({handle}) /\ Cardinality({handle}) = 1
    BY FS_Singleton
  <2>3. Cardinality({l \in Conn : Alive(l)}) <= Cardinality({handle})
    BY <2>1, <2>2, FS_Subset
  <2> QED BY <2>2, <2>3 DEF OneListener
<1> QED BY <1>1, AloneInductive, PTL

-----------------------------------------------------------------------------
(* The client implements the command ledger on a sound connection: no       *)
(* fault, nobody who closes it, no auto reconnect, and any number of        *)
(* threads, one of which opens it.                                          *)
Sound ==
  /\ Faults = {} /\ Closers = {} /\ AutoReconnects \subseteq {0}
  /\ \A t, u \in Openers : t = u

(* Once connected, always connected; until then there is nothing anywhere   *)
(* but the unsolicited status, which the opener takes.                      *)
OpeningInv ==
  /\ \A t \in Caller :
       /\ pc[t] \notin ReportLabel \cup CloseLabel
       /\ pc[t] \in ConnectLabel => ~connected /\ t \in Openers
       /\ pc[t] = "start" => connected /\ cur[t] = None
       /\ pc[t] = "connect" => sock = "new"
       /\ pc[t] \in {"sign_on", "renumber", "thread", "set"} => Linked
       /\ pc[t] = "sign_on" => SignOn(conn) \in drive
  /\ connected => Linked
  /\ \A l \in Conn : Alive(l) => connected /\ (lpc[l] = "recv" => lconn[l] = conn)
  /\ ~connected => /\ outstanding = 0 /\ \A s \in Seqno : pending[s] = None
                   /\ \A t \in Caller : cur[t] = None
                   /\ \A r \in drive : r.cmd = None
  /\ \A r \in drive : /\ r.conn = conn
                      /\ r.cmd = None => r = SignOn(conn) /\ \E t \in Caller : pc[t] = "sign_on"

(* Every number in the drive or at a sender is its command's own, entries   *)
(* are of different commands, and a callback is called once.                *)
OwnNumber(c, s) ==
  s < nextSeq /\ IF Batched(c) THEN pending[s] = None ELSE pending[s] = c /\ ledger[c] = "open"

OwnersInv ==
  /\ \A s \in Seqno : pending[s] # None => s < nextSeq
  /\ \A s, u \in Seqno : pending[s] # None /\ pending[s] = pending[u] => s = u
  /\ \A r \in drive : r.cmd # None => OwnNumber(r.cmd, r.seq) /\ \A t \in Caller : cur[t] # r.cmd
  /\ \A t \in Caller :
       /\ pc[t] = "send" => OwnNumber(cur[t], curSeq[t])
       /\ pc[t] \in {"reconnect", "register"} =>
            ledger[cur[t]] \in {"open", "batched"} /\ \A s \in Seqno : pending[s] # cur[t]
  /\ \A l \in Conn : lpc[l] = "callback" =>
       lseq[l] < nextSeq /\ (pending[lseq[l]] # None => ledger[pending[lseq[l]]] = "done")

(* A slot belongs to an open command, to an answered one that is still in   *)
(* _pending, or to one just deleted.                                        *)
Open == {c \in Cmd : ledger[c] = "open"}
Answered == {s \in Seqno : pending[s] # None /\ ledger[pending[s]] = "done"}
LedgerSlots == outstanding = Cardinality(Open) + Cardinality(Answered) + Cardinality(LReleasing)

SoundBase == TypeInv /\ CommandsInv /\ OpeningInv

(* What cannot happen on a sound connection.                                *)
LEMMA Infeasible ==
  ASSUME Sound, SoundBase
  PROVE  /\ autoReconnect = 0 /\ Closers = {} /\ Faults = {}
         /\ \A t \in Caller :
              ~ ( \/ Refused(t) \/ SignOnRefused(t) \/ SignOnFails(t) \/ Reconnect(t) \/ SendError(t)
                  \/ Shutdown(t) \/ Wipe(t) \/ Clear(t) \/ Join(t) \/ Forget(t)
                  \/ ReportDeletes(t) \/ ReportReleases(t) \/ ReportRaises(t))
         /\ \A l \in Conn :
              /\ ~ ( \/ RecvError(l) \/ CallbackRaises(l) \/ RecvSSLError(l) \/ RecvTimeout(l)
                     \/ ScanDisturbed(l))
              /\ \A r \in drive : ~BadAnswer(l, r)
         /\ \A c \in up : ~ConnectionDrops(c)
<1>1. autoReconnect = 0 /\ Closers = {} /\ Faults = {}
  BY DEF Sound, SoundBase, TypeInv
<1>2. \A t \in Caller : tries[t] \in Nat /\ (cur[t] # None => Linked)
  BY DEF SoundBase, TypeInv, OpeningInv
<1>3. ASSUME NEW t \in Caller
      PROVE  ~(Refused(t) \/ SignOnRefused(t) \/ SignOnFails(t) \/ Reconnect(t) \/ SendError(t))
  <2>1. ~Refused(t) /\ ~SignOnRefused(t)
    BY <1>1 DEF Refused, SignOnRefused, SoundBase, OpeningInv
  <2>2. ~SignOnFails(t)
    <3>1. pc[t] = "sign_on" => Linked /\ SignOn(conn) \in On(conn)
      BY DEF SoundBase, OpeningInv, On, SignOn
    <3> QED BY <1>1, <3>1 DEF SignOnFails
  <2>3. ~Reconnect(t) /\ ~SendError(t)
    BY <1>1, <1>2 DEF Reconnect, SendError, SoundBase, CommandsInv, OpLabel
  <2> QED BY <2>1, <2>2, <2>3
<1>4. ASSUME NEW t \in Caller
      PROVE  ~ ( \/ Shutdown(t) \/ Wipe(t) \/ Clear(t) \/ Join(t) \/ Forget(t)
                 \/ ReportDeletes(t) \/ ReportReleases(t) \/ ReportRaises(t))
  <2>1. pc[t] \notin {"shutdown", "wipe", "clear", "join", "forget", "callback", "release"}
    BY DEF SoundBase, OpeningInv, CloseLabel, ReportLabel
  <2> QED BY <1>1, <2>1 DEF Shutdown, Wipe, Clear, Join, Forget, ReportDeletes, ReportReleases,
     ReportRaises
<1>5. ASSUME NEW l \in Conn
      PROVE  ~RecvError(l)
  BY DEF RecvError, SoundBase, OpeningInv, Alive, Linked
<1> QED
  BY <1>1, <1>3, <1>4, <1>5 DEF CallbackRaises, RecvSSLError, RecvTimeout, ScanDisturbed,
     BadAnswer,
     ConnectionDrops

LEMMA OpeningStep ==
  ASSUME Sound, SoundBase, [Next]_vars
  PROVE  OpeningInv'
<1> USE DEF netVars, socketVars, tableVars, semVars, opVars, callerVars, listenerVars, Goto, LGoto, Idle,
            ReportLabel, ConnectLabel, OpLabel, CloseLabel
<1>0. /\ pc \in [Caller -> Label] /\ cur \in [Caller -> Cmd \cup {None}]
      /\ lpc \in [Conn -> {"unborn", "loop", "recv", "callback", "release", "dead"}]
      /\ lconn \in [Conn -> Conn \cup {None}] /\ lnext \in [Conn -> {"loop", "dead"}] /\ lseq \in [Conn -> Seqno]
      /\ drive \subseteq [conn : Conn, seq : Seqno, cmd : Cmd \cup {None}] /\ conn \in Nat
      /\ pending \in [Seqno -> Cmd \cup {None}] /\ 0 \in Seqno /\ None \notin Cmd
      /\ Issuers \cup Drainers \cup Openers \subseteq Caller
      /\ autoReconnect = 0 /\ OpeningInv /\ CommandsInv
  BY ClientAssumption, ConstantFacts, Infeasible DEF SoundBase, TypeInv, Caller
<1>o. \A t, u \in Openers : t = u
  BY DEF Sound
<1>1. ASSUME NEW t \in Caller,
                Refused(t) \/ SignOnRefused(t) \/ SignOnFails(t) \/ Reconnect(t)
               \/ SendError(t) \/ Shutdown(t) \/ Wipe(t) \/ Clear(t) \/ Join(t) \/ Forget(t)
               \/ ReportDeletes(t) \/ ReportReleases(t) \/ ReportRaises(t)
      PROVE  OpeningInv'
  BY <1>1, Infeasible
<1>2. ASSUME NEW l \in Conn,
                RecvError(l) \/ CallbackRaises(l) \/ RecvSSLError(l) \/ RecvTimeout(l)
               \/ ScanDisturbed(l)
      PROVE  OpeningInv'
  BY <1>2, Infeasible
<1>3. ASSUME NEW l \in Conn, NEW r \in drive, BadAnswer(l, r)
      PROVE  OpeningInv'
  BY <1>3, Infeasible
<1>4. ASSUME NEW c \in up, ConnectionDrops(c)
      PROVE  OpeningInv'
  BY <1>4, Infeasible
<1>5. ASSUME NEW t \in Closers, Close(t)
      PROVE  OpeningInv'
  BY <1>5, Infeasible
<1>6. ASSUME NEW t \in Openers, Connect(t)
      PROVE  OpeningInv'
  BY <1>6, <1>0 DEF Connect, OpeningInv, Linked, Alive, SignOn, CommandsInv
<1>7. ASSUME NEW t \in Issuers, IssueRefused(t)
      PROVE  OpeningInv'
  BY <1>7, <1>0 DEF IssueRefused, Report, OpeningInv, Linked, Alive, SignOn, CommandsInv
<1>8. ASSUME NEW t \in Issuers, Issue(t)
      PROVE  OpeningInv'
  BY <1>8, <1>0 DEF Issue, Begin, OpeningInv, Linked, Alive, SignOn
<1>9. ASSUME NEW t \in Issuers, IssueBatched(t)
      PROVE  OpeningInv'
  BY <1>9, <1>0 DEF IssueBatched, Begin, OpeningInv, Linked, Alive, SignOn
<1>10. ASSUME NEW t \in Drainers, WaitQCall(t)
      PROVE  OpeningInv'
  BY <1>10, <1>0 DEF WaitQCall, OpeningInv, Linked, Alive, SignOn
<1>11. ASSUME NEW t \in Caller, NewSocket(t)
      PROVE  OpeningInv'
  BY <1>11, <1>0, <1>o DEF NewSocket, OpeningInv, Linked, Alive, SignOn
<1>12. ASSUME NEW t \in Caller, Established(t)
      PROVE  OpeningInv'
  <2>1. /\ pc[t] = "connect" /\ pc' = [pc EXCEPT ![t] = "sign_on"] /\ sock' = "open" /\ conn' = conn + 1
        /\ up' = up \cup {conn'} /\ drive' = drive \cup {SignOn(conn')}
        /\ UNCHANGED <<connected, cur, outstanding, pending, lpc, lconn>>
    BY <1>12 DEF Established
  <2>2. ~connected /\ t \in Openers /\ \A u \in Caller : u # t => pc[u] \notin ConnectLabel
    BY <1>0, <1>o, <2>1 DEF OpeningInv
  <2>3. drive = {}
    BY <1>0, <2>1, <2>2 DEF OpeningInv
  <2> QED BY <1>0, <2>1, <2>2, <2>3 DEF OpeningInv, Linked, Alive, SignOn
<1>13. ASSUME NEW t \in Caller, SignedOn(t)
      PROVE  OpeningInv'
  <2>1. pc[t] = "sign_on" /\ t \in Openers /\ ~connected /\ Linked /\ SignOn(conn) \in drive /\ pending[0] = None
    BY <1>13, <1>0 DEF SignedOn, OpeningInv
  <2>2. /\ pc' = [pc EXCEPT ![t] = "renumber"] /\ drive' = drive \ {SignOn(conn)}
        /\ UNCHANGED <<connected, sock, conn, up, cur, outstanding, pending, lpc, lconn>>
    BY <1>13, <2>1 DEF SignedOn, Report, Arrived
  <2>3. \A u \in Caller : u # t => pc[u] \notin ConnectLabel
    BY <1>0, <1>o, <2>1 DEF OpeningInv
  <2>4. \A r \in drive' : r.cmd # None /\ r \in drive
    BY <1>0, <2>2 DEF OpeningInv
  <2> QED BY <1>0, <2>1, <2>2, <2>3, <2>4 DEF OpeningInv, Linked, Alive
<1>14. ASSUME NEW t \in Caller, Renumber(t)
      PROVE  OpeningInv'
  BY <1>14, <1>0 DEF Renumber, OpeningInv, Linked, Alive, SignOn
<1>15. ASSUME NEW t \in Caller, NewThread(t)
      PROVE  OpeningInv'
  BY <1>15, <1>0 DEF NewThread, OpeningInv, Linked, Alive, SignOn
<1>16. ASSUME NEW t \in Caller, SetConnected(t)
      PROVE  OpeningInv'
  BY <1>16, <1>0, <1>o DEF SetConnected, OpeningInv, Linked, Alive, SignOn
<1>17. ASSUME NEW t \in Caller, StartListener(t)
      PROVE  OpeningInv'
  <2>1. /\ pc[t] = "start" /\ connected /\ cur[t] = None /\ pc' = [pc EXCEPT ![t] = "idle"]
        /\ UNCHANGED <<connected, sock, conn, up, drive, outstanding, pending, lconn>>
        /\ \A u \in Caller : cur'[u] \in {cur[u], None}
    BY <1>17, <1>0 DEF StartListener, Abandon, Connecting, OpeningInv
  <2>2. \A l \in Conn : lpc'[l] \in {lpc[l], "loop"}
    BY <1>17, <1>0 DEF StartListener
  <2> QED BY <1>0, <2>1, <2>2 DEF OpeningInv, Linked, Alive, SignOn
<1>18. ASSUME NEW t \in Caller, AcquireSleep(t) \/ WaitQSleep(t) \/ WaitQTrue(t)
      PROVE  OpeningInv'
  BY <1>18, <1>0 DEF AcquireSleep, WaitQSleep, WaitQTrue, OpeningInv, Linked, Alive, SignOn
<1>19. ASSUME NEW t \in Caller, AcquireTake(t)
      PROVE  OpeningInv'
  BY <1>19, <1>0 DEF AcquireTake, OpeningInv, Linked, Alive, SignOn, CommandsInv
<1>20. ASSUME NEW t \in Caller, LeaveReconnect(t)
      PROVE  OpeningInv'
  BY <1>20, <1>0 DEF LeaveReconnect, Report, OpeningInv, Linked, Alive, SignOn, CommandsInv
<1>21. ASSUME NEW t \in Caller, Register(t)
      PROVE  OpeningInv'
  BY <1>21, <1>0 DEF Register, OpeningInv, Linked, Alive, SignOn, CommandsInv
<1>22. ASSUME NEW t \in Caller, Send(t)
      PROVE  OpeningInv'
  <2>1. /\ pc[t] = "send" /\ pc' = [pc EXCEPT ![t] = "idle"] /\ cur' = [cur EXCEPT ![t] = None]
        /\ UNCHANGED <<connected, sock, conn, up, outstanding, pending, lpc, lconn>>
        /\ \A r \in drive' : r \in drive \/ r = [conn |-> conn, seq |-> curSeq[t], cmd |-> cur[t]]
        /\ drive \subseteq drive'
    BY <1>22 DEF Send, SendReturns
  <2>2. cur[t] # None /\ connected
    BY <1>0, <2>1 DEF CommandsInv, OpeningInv
  <2> QED BY <1>0, <2>1, <2>2 DEF OpeningInv, Linked, Alive, SignOn
<1>23. ASSUME NEW l \in Conn, ListenTest(l)
      PROVE  OpeningInv'
  BY <1>23, <1>0 DEF ListenTest, OpeningInv, Linked, Alive, SignOn
<1>24. ASSUME NEW l \in Conn, CallbackReturns(l)
      PROVE  OpeningInv'
  BY <1>24, <1>0 DEF CallbackReturns, OpeningInv, Linked, Alive, SignOn
<1>25. ASSUME NEW l \in Conn, SlotReleased(l)
      PROVE  OpeningInv'
  BY <1>25, <1>0 DEF SlotReleased, OpeningInv, Linked, Alive, SignOn
<1>26. ASSUME NEW l \in Conn, NEW r \in drive, Receive(l, r)
      PROVE  OpeningInv'
  <2>1. /\ lpc[l] = "recv" /\ drive' \subseteq drive /\ drive' = drive \ {r}
        /\ UNCHANGED <<connected, sock, conn, up, outstanding, pending, pc, cur, lconn>>
        /\ \A k \in Conn : lpc'[k] = lpc[k] \/ (k = l /\ lpc'[k] \in {"loop", "callback"})
    BY <1>26, <1>0 DEF Receive
  <2>2. connected
    BY <2>1, <1>0 DEF OpeningInv, Alive
  <2>3. \A u \in Caller : pc[u] \notin ConnectLabel
    BY <2>2, <1>0 DEF OpeningInv
  <2> QED BY <1>0, <2>1, <2>2, <2>3 DEF OpeningInv, Linked, Alive, SignOn
<1>27. CASE UNCHANGED vars
  BY <1>27, <1>0 DEF vars, OpeningInv, Linked, Alive, SignOn
<1> QED
  BY <1>1, <1>2, <1>3, <1>4, <1>5, <1>6, <1>7, <1>8, <1>9, <1>10, <1>11, <1>12, <1>13, <1>14,
     <1>15, <1>16, <1>17, <1>18, <1>19, <1>20, <1>21, <1>22, <1>23, <1>24, <1>25, <1>26, <1>27
     DEF Next, CallerStep, ConnectStep, CommandStep, CloseStep, ListenerStep, ListenerFault,
     Caller

(* A step that neither takes, numbers, sends nor answers a command.         *)
Still ==
  /\ UNCHANGED <<ledger, pending, nextSeq>>
  /\ \A r \in drive' : r \in drive \/ r.cmd = None
  /\ \A t \in Caller :
       /\ cur'[t] \in {cur[t], None}
       /\ pc'[t] = "send" => pc[t] = "send" /\ cur'[t] = cur[t] /\ curSeq'[t] = curSeq[t]
       /\ pc'[t] \in {"reconnect", "register"} => pc[t] \in {"reconnect", "register"} /\ cur'[t] = cur[t]
  /\ \A l \in Conn : lpc'[l] = "callback" => lpc[l] = "callback" /\ lseq'[l] = lseq[l]

LEMMA OwnersStill ==
  ASSUME OwnersInv, Still
  PROVE  OwnersInv'
<1>1. \A c, s : OwnNumber(c, s)' <=> OwnNumber(c, s)
  BY DEF Still, OwnNumber, Batched
<1>2. \A r \in drive' : r.cmd # None => OwnNumber(r.cmd, r.seq)' /\ \A t \in Caller : cur'[t] # r.cmd
  BY <1>1 DEF Still, OwnersInv
<1>3. ASSUME NEW t \in Caller, pc'[t] = "send" PROVE OwnNumber(cur[t], curSeq[t])'
  <2>1. OwnNumber(cur[t], curSeq[t]) /\ cur'[t] = cur[t] /\ curSeq'[t] = curSeq[t]
    BY <1>3 DEF Still, OwnersInv
  <2> QED BY <2>1 DEF OwnNumber, Batched, Still
<1>4. \A t \in Caller : pc'[t] \in {"reconnect", "register"} =>
        ledger'[cur'[t]] \in {"open", "batched"} /\ \A s \in Seqno : pending'[s] # cur'[t]
  BY DEF Still, OwnersInv
<1>5. \A l \in Conn : lpc'[l] = "callback" =>
        lseq'[l] < nextSeq' /\ (pending'[lseq'[l]] # None => ledger'[pending'[lseq'[l]]] = "done")
  BY DEF Still, OwnersInv
<1> QED BY <1>2, <1>3, <1>4, <1>5 DEF Still, OwnersInv

LEMMA LedgerFinite ==
  /\ IsFiniteSet(Open) /\ Cardinality(Open) \in Nat /\ IsFiniteSet(Answered) /\ Cardinality(Answered) \in Nat
  /\ IsFiniteSet(Open') /\ Cardinality(Open') \in Nat /\ IsFiniteSet(Answered') /\ Cardinality(Answered') \in Nat
<1>1. IsFiniteSet(Seqno) /\ IsFiniteSet(Cmd)
  BY FS_Interval, ClientAssumption DEF Seqno, Cmd
<1>2. Open \subseteq Cmd /\ Answered \subseteq Seqno /\ Open' \subseteq Cmd /\ Answered' \subseteq Seqno
  BY DEF Open, Answered
<1>3. IsFiniteSet(Open) /\ IsFiniteSet(Answered) /\ IsFiniteSet(Open') /\ IsFiniteSet(Answered')
  BY <1>1, <1>2, FS_Subset
<1> QED BY <1>3, FS_CardinalityType

(* What can happen on a sound connection, to commands and to slots.         *)
Unmoved == Still /\ UNCHANGED outstanding /\ LReleasing' = LReleasing

LEMMA SoundCases ==
  ASSUME Sound, SoundBase, [Next]_vars
  PROVE  \/ Unmoved
         \/ \E t \in Caller : \/ t \in Issuers /\ (Issue(t) \/ IssueBatched(t))
                             \/ AcquireTake(t) \/ Renumber(t) \/ Register(t) \/ Send(t)
         \/ \E l \in Conn : \/ \E r \in drive : Receive(l, r)
                            \/ CallbackReturns(l) \/ SlotReleased(l)
<1> DEFINE Goal == \/ Unmoved
                   \/ \E t \in Caller : \/ t \in Issuers /\ (Issue(t) \/ IssueBatched(t))
                                       \/ AcquireTake(t) \/ Renumber(t) \/ Register(t) \/ Send(t)
                   \/ \E l \in Conn : \/ \E r \in drive : Receive(l, r)
                                      \/ CallbackReturns(l) \/ SlotReleased(l)
<1> USE DEF netVars, socketVars, tableVars, semVars, opVars, callerVars, listenerVars, Goto, LGoto, Idle,
            ReportLabel, ConnectLabel, OpLabel, CloseLabel
<1>0. /\ pc \in [Caller -> Label] /\ cur \in [Caller -> Cmd \cup {None}] /\ curSeq \in [Caller -> Seqno]
      /\ lpc \in [Conn -> {"unborn", "loop", "recv", "callback", "release", "dead"}]
      /\ lseq \in [Conn -> Seqno] /\ lnext \in [Conn -> {"loop", "dead"}]
      /\ handle \in Conn \cup {None} /\ None \notin Conn
      /\ drive \subseteq [conn : Conn, seq : Seqno, cmd : Cmd \cup {None}]
      /\ pending \in [Seqno -> Cmd \cup {None}] /\ 0 \in Seqno /\ None \notin Cmd
      /\ Issuers \cup Drainers \cup Openers \subseteq Caller
      /\ autoReconnect = 0 /\ OpeningInv /\ CommandsInv
  BY ConstantFacts, Infeasible DEF SoundBase, TypeInv, Caller
<1> HIDE DEF Goal
<1>1. ASSUME NEW t \in Caller,
                Refused(t) \/ SignOnRefused(t) \/ SignOnFails(t) \/ Reconnect(t)
               \/ SendError(t) \/ Shutdown(t) \/ Wipe(t) \/ Clear(t) \/ Join(t) \/ Forget(t)
               \/ ReportDeletes(t) \/ ReportReleases(t) \/ ReportRaises(t)
      PROVE  Goal
  BY <1>1, Infeasible
<1>2. ASSUME NEW l \in Conn,
                RecvError(l) \/ CallbackRaises(l) \/ RecvSSLError(l) \/ RecvTimeout(l)
               \/ ScanDisturbed(l)
      PROVE  Goal
  BY <1>2, Infeasible
<1>3. ASSUME NEW l \in Conn, NEW r \in drive, BadAnswer(l, r)
      PROVE  Goal
  BY <1>3, Infeasible
<1>4. ASSUME NEW c \in up, ConnectionDrops(c)
      PROVE  Goal
  BY <1>4, Infeasible
<1>5. ASSUME NEW t \in Closers, Close(t)
      PROVE  Goal
  BY <1>5, Infeasible
<1>6. ASSUME NEW t \in Openers, Connect(t)
      PROVE  Goal
  BY <1>6, <1>0 DEF Connect, Still, Unmoved, LReleasing, Goal
<1>7. ASSUME NEW t \in Issuers, IssueRefused(t)
      PROVE  Goal
  <2>1. pending[0] = None
    BY <1>7, <1>0 DEF IssueRefused, OpeningInv
  <2> QED BY <1>7, <1>0, <2>1 DEF IssueRefused, Report, Still, Unmoved, LReleasing, Goal
<1>8. ASSUME NEW t \in Issuers, Issue(t) \/ IssueBatched(t)
      PROVE  Goal
  BY <1>8, <1>0 DEF Goal
<1>9. ASSUME NEW t \in Caller, AcquireTake(t) \/ Renumber(t) \/ Register(t) \/ Send(t)
      PROVE  Goal
  BY <1>9 DEF Goal
<1>10. ASSUME NEW l \in Conn, NEW r \in drive, Receive(l, r)
      PROVE  Goal
  BY <1>10 DEF Goal
<1>11. ASSUME NEW l \in Conn, CallbackReturns(l) \/ SlotReleased(l)
      PROVE  Goal
  BY <1>11 DEF Goal
<1>12. ASSUME NEW t \in Drainers, WaitQCall(t)
      PROVE  Goal
  BY <1>12, <1>0 DEF WaitQCall, Still, Unmoved, LReleasing, Goal
<1>13. ASSUME NEW t \in Caller, NewSocket(t)
      PROVE  Goal
  BY <1>13, <1>0 DEF NewSocket, Still, Unmoved, LReleasing, Goal
<1>14. ASSUME NEW t \in Caller, Established(t)
      PROVE  Goal
  BY <1>14, <1>0 DEF Established, Still, Unmoved, LReleasing, Goal, SignOn
<1>15. ASSUME NEW t \in Caller, SignedOn(t)
      PROVE  Goal
  <2>1. pending[0] = None
    BY <1>15, <1>0 DEF SignedOn, OpeningInv
  <2> QED BY <1>15, <1>0, <2>1 DEF SignedOn, Report, Still, Unmoved, LReleasing, Goal
<1>16. ASSUME NEW t \in Caller, NewThread(t)
      PROVE  Goal
  BY <1>16, <1>0 DEF NewThread, Still, Unmoved, LReleasing, Goal
<1>17. ASSUME NEW t \in Caller, SetConnected(t)
      PROVE  Goal
  BY <1>17, <1>0 DEF SetConnected, Still, Unmoved, LReleasing, Goal
<1>18. ASSUME NEW t \in Caller, StartListener(t)
      PROVE  Goal
  <2>1. /\ pc[t] = "start" /\ pc' = [pc EXCEPT ![t] = "idle"]
        /\ UNCHANGED <<ledger, pending, nextSeq, outstanding, drive, lseq, curSeq>>
        /\ \A u \in Caller : cur'[u] \in {cur[u], None} /\ (u # t => cur'[u] = cur[u])
    BY <1>18, <1>0 DEF StartListener, Abandon, Connecting, OpeningInv
  <2>2. \A l \in Conn : lpc'[l] = lpc[l] \/ (lpc[l] = "unborn" /\ lpc'[l] = "loop")
    BY <1>18, <1>0 DEF StartListener
  <2> QED BY <1>0, <2>1, <2>2 DEF Still, Unmoved, LReleasing, Goal
<1>19. ASSUME NEW t \in Caller, AcquireSleep(t) \/ WaitQSleep(t) \/ WaitQTrue(t)
      PROVE  Goal
  BY <1>19, <1>0 DEF AcquireSleep, WaitQSleep, WaitQTrue, Still, Unmoved, LReleasing, Goal
<1>20. ASSUME NEW t \in Caller, LeaveReconnect(t)
      PROVE  Goal
  <2>1. connected
    BY <1>20, <1>0 DEF LeaveReconnect, CommandsInv, OpeningInv
  <2> QED BY <1>20, <1>0, <2>1 DEF LeaveReconnect, Still, Unmoved, LReleasing, Goal
<1>21. ASSUME NEW l \in Conn, ListenTest(l)
      PROVE  Goal
  BY <1>21, <1>0 DEF ListenTest, Still, Unmoved, LReleasing, Goal
<1>22. CASE UNCHANGED vars
  BY <1>22 DEF vars, Still, Unmoved, LReleasing, Goal
<1> QED
  BY <1>1, <1>2, <1>3, <1>4, <1>5, <1>6, <1>7, <1>8, <1>9, <1>10, <1>11, <1>12, <1>13, <1>14,
     <1>15, <1>16, <1>17, <1>18, <1>19, <1>20, <1>21, <1>22
     DEF Goal, Next, CallerStep, ConnectStep, CommandStep, CloseStep, ListenerStep,
     ListenerFault, Caller

LEMMA OwnersStep ==
  ASSUME Sound, SoundBase, OwnersInv, [Next]_vars
  PROVE  OwnersInv'
<1> USE DEF netVars, socketVars, tableVars, semVars, opVars, callerVars, listenerVars, Goto, LGoto, Idle
<1>0. /\ pc \in [Caller -> Label] /\ cur \in [Caller -> Cmd \cup {None}] /\ curSeq \in [Caller -> Seqno]
      /\ lpc \in [Conn -> {"unborn", "loop", "recv", "callback", "release", "dead"}]
      /\ lseq \in [Conn -> Seqno] /\ lnext \in [Conn -> {"loop", "dead"}]
      /\ drive \subseteq [conn : Conn, seq : Seqno, cmd : Cmd \cup {None}]
      /\ pending \in [Seqno -> Cmd \cup {None}] /\ ledger \in [Cmd -> State]
      /\ None \notin Cmd /\ nextSeq \in Nat /\ Seqno \subseteq Nat
      /\ OpeningInv /\ CommandsInv
  BY ConstantFacts DEF SoundBase, TypeInv
<1>n. nextSeq \in Nat /\ \A s \in Seqno : s \in Nat
  BY <1>0
<1>a. \A k \in Conn : lseq[k] \in Seqno /\ pending[lseq[k]] \in Cmd \cup {None}
  BY <1>0
<1>b. \A k \in Conn : lpc[k] = "callback" =>
        lseq[k] < nextSeq /\ (pending[lseq[k]] # None => ledger[pending[lseq[k]]] = "done")
  BY DEF OwnersInv
<1>c. \A r \in drive : r.cmd # None => r.cmd \in Cmd /\ \A t \in Caller : cur[t] # r.cmd
  BY <1>0 DEF OwnersInv
<1>1. ASSUME Unmoved PROVE OwnersInv'
  BY <1>1, OwnersStill DEF Unmoved
<1>2. ASSUME NEW t \in Issuers, Issue(t) \/ IssueBatched(t)
      PROVE  OwnersInv'
  <2>1. t \in Caller /\ Begin(t)
    BY <1>2 DEF Issue, IssueBatched, Caller
  <2>2. PICK c \in Cmd : /\ cur' = [cur EXCEPT ![t] = c]
                         /\ ledger[c] = "new" /\ \A u \in Caller : cur[u] # c
    BY <2>1, BeginFacts DEF SoundBase
  <2>3. /\ UNCHANGED <<pending, nextSeq, drive, curSeq, lpc, lseq>>
        /\ \/ pc' = [pc EXCEPT ![t] = "acquire"] /\ ledger' = ledger
           \/ pc' = [pc EXCEPT ![t] = "reconnect"] /\ ledger' = [ledger EXCEPT ![c] = "batched"]
    BY <1>0, <1>2, <2>1, <2>2 DEF Issue, IssueBatched, Begin
  <2>4. \A d \in Cmd : d # c => ledger'[d] = ledger[d]
    BY <1>0, <2>3
  <2>5. \A s \in Seqno : pending[s] # c /\ (pending[s] # None => pending[s] \in Cmd)
    BY <1>0, <2>2 DEF CommandsInv
  <2>6. \A d, s : d \in Cmd /\ d # c /\ OwnNumber(d, s) => OwnNumber(d, s)'
    BY <2>3, <2>4 DEF OwnNumber, Batched
  <2>7. \A r \in drive' : r.cmd # None => OwnNumber(r.cmd, r.seq)' /\ \A u \in Caller : cur'[u] # r.cmd
    <3> SUFFICES ASSUME NEW r \in drive, r.cmd # None
                 PROVE  OwnNumber(r.cmd, r.seq)' /\ \A u \in Caller : cur'[u] # r.cmd
      BY <2>3
    <3>1. r.cmd \in Cmd /\ r.cmd # c
      BY <1>0, <2>2 DEF CommandsInv
    <3> QED BY <1>0, <2>2, <2>6, <3>1 DEF OwnersInv
  <2>8. ASSUME NEW u \in Caller, u # t
        PROVE  /\ pc'[u] = "send" => OwnNumber(cur[u], curSeq[u])'
               /\ pc'[u] \in {"reconnect", "register"} =>
                    ledger'[cur'[u]] \in {"open", "batched"} /\ \A s \in Seqno : pending'[s] # cur'[u]
    <3>1. pc'[u] = pc[u] /\ cur'[u] = cur[u] /\ cur[u] # c
      BY <1>0, <2>2, <2>3, <2>8
    <3>2. pc[u] \in {"send", "reconnect", "register"} => cur[u] \in Cmd
      BY <1>0 DEF CommandsInv, OpLabel
    <3>3. pc[u] = "send" => OwnNumber(cur[u], curSeq[u])'
      <4>1. ASSUME pc[u] = "send" PROVE OwnNumber(cur[u], curSeq[u]) /\ ledger'[cur[u]] = ledger[cur[u]]
        BY <2>4, <3>1, <3>2, <4>1 DEF OwnersInv
      <4> QED BY <2>3, <3>1, <4>1 DEF OwnNumber, Batched
    <3>4. pc[u] \in {"reconnect", "register"} =>
            ledger'[cur'[u]] \in {"open", "batched"} /\ \A s \in Seqno : pending'[s] # cur'[u]
      BY <2>3, <2>4, <3>1, <3>2 DEF OwnersInv
    <3> QED BY <3>1, <3>3, <3>4
  <2>9. /\ pc'[t] # "send"
        /\ pc'[t] \in {"reconnect", "register"} =>
             ledger'[cur'[t]] \in {"open", "batched"} /\ \A s \in Seqno : pending'[s] # cur'[t]
    BY <1>0, <2>1, <2>2, <2>3, <2>5
  <2>10. \A l \in Conn : lpc'[l] = "callback" =>
           lseq'[l] < nextSeq' /\ (pending'[lseq'[l]] # None => ledger'[pending'[lseq'[l]]] = "done")
    BY <1>0, <2>3, <2>4, <2>5 DEF OwnersInv
  <2> QED BY <2>3, <2>7, <2>8, <2>9, <2>10 DEF OwnersInv
<1>3. ASSUME NEW t \in Caller, AcquireTake(t)
      PROVE  OwnersInv'
  <2>1. /\ UNCHANGED <<pending, nextSeq, drive, cur, curSeq, lpc, lseq>> /\ pc[t] = "acquire"
        /\ pc' = [pc EXCEPT ![t] = "reconnect"] /\ ledger' = [ledger EXCEPT ![cur[t]] = "open"]
    BY <1>3 DEF AcquireTake
  <2>2. PICK c \in Cmd : c = cur[t]
    BY <1>0, <2>1 DEF CommandsInv, OpLabel
  <2>3. ledger[c] = "new" /\ \A u \in Caller : u # t => cur[u] # c
    BY <1>0, <2>1, <2>2 DEF CommandsInv
  <2>4. \A d \in Cmd : d # c => ledger'[d] = ledger[d]
    BY <1>0, <2>1, <2>2
  <2>5. \A s \in Seqno : pending[s] # c /\ (pending[s] # None => pending[s] \in Cmd)
    BY <1>0, <2>3 DEF CommandsInv
  <2>6. \A d, s : d \in Cmd /\ d # c /\ OwnNumber(d, s) => OwnNumber(d, s)'
    BY <2>1, <2>4 DEF OwnNumber, Batched
  <2>7. \A r \in drive' : r.cmd # None => OwnNumber(r.cmd, r.seq)' /\ \A u \in Caller : cur'[u] # r.cmd
    <3> SUFFICES ASSUME NEW r \in drive, r.cmd # None
                 PROVE  OwnNumber(r.cmd, r.seq)' /\ \A u \in Caller : cur'[u] # r.cmd
      BY <2>1
    <3>1. r.cmd \in Cmd /\ r.cmd # c
      BY <1>0, <2>3 DEF CommandsInv
    <3> QED BY <2>1, <2>6, <3>1 DEF OwnersInv
  <2>8. ASSUME NEW u \in Caller, u # t
        PROVE  /\ pc'[u] = "send" => OwnNumber(cur[u], curSeq[u])'
               /\ pc'[u] \in {"reconnect", "register"} =>
                    ledger'[cur'[u]] \in {"open", "batched"} /\ \A s \in Seqno : pending'[s] # cur'[u]
    <3>1. pc'[u] = pc[u] /\ cur'[u] = cur[u] /\ cur[u] # c
      BY <1>0, <2>1, <2>3, <2>8
    <3>2. pc[u] \in {"send", "reconnect", "register"} => cur[u] \in Cmd
      BY <1>0 DEF CommandsInv, OpLabel
    <3>3. pc[u] = "send" => OwnNumber(cur[u], curSeq[u])'
      <4>1. ASSUME pc[u] = "send" PROVE OwnNumber(cur[u], curSeq[u]) /\ ledger'[cur[u]] = ledger[cur[u]]
        BY <2>4, <3>1, <3>2, <4>1 DEF OwnersInv
      <4> QED BY <2>1, <3>1, <4>1 DEF OwnNumber, Batched
    <3>4. pc[u] \in {"reconnect", "register"} =>
            ledger'[cur'[u]] \in {"open", "batched"} /\ \A s \in Seqno : pending'[s] # cur'[u]
      BY <2>1, <2>4, <3>1, <3>2 DEF OwnersInv
    <3> QED BY <3>1, <3>3, <3>4
  <2>9. pc'[t] = "reconnect" /\ ledger'[cur'[t]] = "open" /\ \A s \in Seqno : pending'[s] # cur'[t]
    BY <1>0, <2>1, <2>2, <2>5
  <2>10. \A l \in Conn : lpc'[l] = "callback" =>
           lseq'[l] < nextSeq' /\ (pending'[lseq'[l]] # None => ledger'[pending'[lseq'[l]]] = "done")
    <3> SUFFICES ASSUME NEW l \in Conn, lpc[l] = "callback"
                 PROVE  lseq[l] < nextSeq /\ (pending[lseq[l]] # None => ledger'[pending[lseq[l]]] = "done")
      BY <2>1
    <3>1. pending[lseq[l]] # None => pending[lseq[l]] \in Cmd /\ pending[lseq[l]] # c
      BY <1>a, <2>5
    <3> QED BY <1>b, <2>4, <3>1
  <2> QED BY <2>1, <2>7, <2>8, <2>9, <2>10 DEF OwnersInv
<1>4. ASSUME NEW t \in Caller, Renumber(t)
      PROVE  OwnersInv'
  <2>1. UNCHANGED <<pending, drive, cur, lpc>> /\ pc' = [pc EXCEPT ![t] = "thread"] /\ pc[t] = "renumber"
    BY <1>4 DEF Renumber
  <2>2. ~connected
    BY <1>0, <2>1 DEF OpeningInv, ConnectLabel
  <2>3. /\ \A s \in Seqno : pending[s] = None
        /\ \A u \in Caller : cur[u] = None
        /\ \A r \in drive : r.cmd = None
        /\ \A l \in Conn : lpc[l] # "callback"
    BY <1>0, <2>2 DEF OpeningInv, Alive
  <2>4. \A u \in Caller : pc'[u] \notin {"send", "reconnect", "register"}
    BY <1>0, <2>1, <2>3 DEF CommandsInv, OpLabel
  <2> QED BY <2>1, <2>3, <2>4 DEF OwnersInv
<1>5. ASSUME NEW t \in Caller, Register(t)
      PROVE  OwnersInv'
  <2>1. /\ UNCHANGED <<drive, cur, ledger, lpc, lseq>> /\ pc[t] = "register"
        /\ pc' = [pc EXCEPT ![t] = "send"] /\ nextSeq \in Seqno /\ nextSeq' = nextSeq + 1
        /\ curSeq' = [curSeq EXCEPT ![t] = nextSeq]
        /\ pending' = IF Batched(cur[t]) THEN pending ELSE [pending EXCEPT ![nextSeq] = cur[t]]
    BY <1>5 DEF Register
  <2>2. PICK c \in Cmd : c = cur[t]
    BY <1>0, <2>1 DEF CommandsInv, OpLabel
  <2>3. ledger[c] \in {"open", "batched"} /\ \A s \in Seqno : pending[s] # c
    BY <2>1, <2>2 DEF OwnersInv
  <2>4. pending[nextSeq] = None
    BY <1>0, <2>1 DEF OwnersInv
  <2>5. /\ pending'[nextSeq] = IF ledger[c] = "batched" THEN None ELSE c
        /\ \A s \in Seqno : s # nextSeq => pending'[s] = pending[s]
    BY <1>0, <2>1, <2>2, <2>4 DEF Batched
  <2>6. \A d, s : s \in Seqno /\ OwnNumber(d, s) => OwnNumber(d, s)'
    BY <1>0, <2>1, <2>5 DEF OwnNumber, Batched
  <2>7. \A r \in drive' : r.cmd # None => OwnNumber(r.cmd, r.seq)' /\ \A u \in Caller : cur'[u] # r.cmd
    BY <1>0, <2>1, <2>6 DEF OwnersInv
  <2>8. ASSUME NEW u \in Caller, u # t
        PROVE  /\ pc'[u] = "send" => OwnNumber(cur[u], curSeq[u])'
               /\ pc'[u] \in {"reconnect", "register"} =>
                    ledger'[cur'[u]] \in {"open", "batched"} /\ \A s \in Seqno : pending'[s] # cur'[u]
    <3>1. pc'[u] = pc[u] /\ cur'[u] = cur[u] /\ curSeq'[u] = curSeq[u] /\ curSeq[u] \in Seqno
      BY <1>0, <2>1, <2>8
    <3>2. ASSUME pc[u] = "send" PROVE OwnNumber(cur[u], curSeq[u])'
      <4>1. OwnNumber(cur[u], curSeq[u]) /\ curSeq[u] < nextSeq
        BY <3>2 DEF OwnersInv, OwnNumber
      <4>2. curSeq[u] \in Nat /\ nextSeq' = nextSeq + 1 /\ ledger' = ledger
        BY <1>n, <2>1, <3>1
      <4>3. curSeq[u] < nextSeq' /\ pending'[curSeq[u]] = pending[curSeq[u]]
        BY <1>n, <2>5, <3>1, <4>1, <4>2
      <4> QED BY <3>1, <4>1, <4>2, <4>3 DEF OwnNumber, Batched
    <3>3. pc[u] \in {"reconnect", "register"} => cur[u] # c /\ cur[u] # None
      BY <1>0, <2>2, <2>8 DEF CommandsInv, OpLabel
    <3>4. pc[u] \in {"reconnect", "register"} =>
            ledger'[cur'[u]] \in {"open", "batched"} /\ \A s \in Seqno : pending'[s] # cur'[u]
      BY <2>1, <2>5, <3>1, <3>3 DEF OwnersInv
    <3> QED BY <3>1, <3>2, <3>4
  <2>9. pc'[t] = "send" /\ OwnNumber(cur[t], curSeq[t])'
    <3>1. pc'[t] = "send" /\ cur'[t] = c /\ curSeq'[t] = nextSeq /\ ledger' = ledger /\ nextSeq < nextSeq'
      BY <1>0, <2>1, <2>2
    <3> QED BY <2>3, <2>5, <3>1 DEF OwnNumber, Batched
  <2>10. \A s, u \in Seqno : pending'[s] # None /\ pending'[s] = pending'[u] => s = u
    BY <2>1, <2>3, <2>5 DEF OwnersInv
  <2>11. \A s \in Seqno : pending'[s] # None => s < nextSeq'
    BY <1>0, <2>1, <2>5 DEF OwnersInv
  <2>12. \A l \in Conn : lpc'[l] = "callback" =>
           lseq'[l] < nextSeq' /\ (pending'[lseq'[l]] # None => ledger'[pending'[lseq'[l]]] = "done")
    <3> SUFFICES ASSUME NEW l \in Conn, lpc[l] = "callback"
                 PROVE  lseq[l] < nextSeq' /\ (pending'[lseq[l]] # None => ledger[pending'[lseq[l]]] = "done")
      BY <2>1
    <3>0. lseq[l] \in Nat /\ lseq[l] < nextSeq
      BY <1>n, <1>a, <1>b
    <3>1. lseq[l] \in Nat /\ lseq[l] < nextSeq /\ lseq[l] # nextSeq
      BY <1>n, <3>0
    <3>2. pending'[lseq[l]] = pending[lseq[l]]
      BY <1>a, <2>5, <3>1
    <3>3. lseq[l] < nextSeq'
      BY <1>0, <2>1, <3>1
    <3> QED BY <1>b, <3>2, <3>3
  <2> QED BY <2>7, <2>8, <2>9, <2>10, <2>11, <2>12 DEF OwnersInv
<1>6. ASSUME NEW t \in Caller, Send(t)
      PROVE  OwnersInv'
  <2>1. /\ UNCHANGED <<ledger, pending, nextSeq, curSeq, lpc, lseq>> /\ pc[t] = "send"
        /\ pc' = [pc EXCEPT ![t] = "idle"] /\ cur' = [cur EXCEPT ![t] = None]
        /\ \A r \in drive' : r \in drive \/ r = [conn |-> conn, seq |-> curSeq[t], cmd |-> cur[t]]
    BY <1>6 DEF Send, SendReturns
  <2>2. OwnNumber(cur[t], curSeq[t]) /\ \A u \in Caller : u # t => cur[u] # cur[t]
    BY <1>0, <2>1 DEF OwnersInv, CommandsInv, OpLabel
  <2>3. \A c, s : OwnNumber(c, s)' <=> OwnNumber(c, s)
    BY <2>1 DEF OwnNumber, Batched
  <2>4. \A r \in drive' : r.cmd # None => OwnNumber(r.cmd, r.seq)
    BY <2>1, <2>2 DEF OwnersInv
  <2>5. \A r \in drive' : r.cmd # None => \A u \in Caller : cur'[u] # r.cmd
    BY <1>0, <2>1, <2>2 DEF OwnersInv
  <2>6. ASSUME NEW u \in Caller, pc'[u] = "send" PROVE OwnNumber(cur[u], curSeq[u])'
    <3>1. u # t /\ pc[u] = "send" /\ cur'[u] = cur[u] /\ curSeq'[u] = curSeq[u]
      BY <1>0, <2>1, <2>6
    <3>2. OwnNumber(cur[u], curSeq[u])
      BY <3>1 DEF OwnersInv
    <3> QED BY <2>1, <3>1, <3>2 DEF OwnNumber, Batched
  <2>7. \A u \in Caller : pc'[u] \in {"reconnect", "register"} =>
          ledger'[cur'[u]] \in {"open", "batched"} /\ \A s \in Seqno : pending'[s] # cur'[u]
    BY <1>0, <2>1 DEF OwnersInv
  <2>8. \A r \in drive' : r.cmd # None => OwnNumber(r.cmd, r.seq)'
    BY <2>3, <2>4
  <2> QED BY <2>1, <2>5, <2>6, <2>7, <2>8 DEF OwnersInv
<1>7. ASSUME NEW l \in Conn, NEW r \in drive, Receive(l, r)
      PROVE  OwnersInv'
  <2>1. /\ UNCHANGED <<pending, nextSeq, pc, cur, curSeq>> /\ lpc[l] = "recv" /\ r.seq \in Seqno
        /\ drive' = drive \ {r} /\ \A k \in Conn : k # l => lpc'[k] = lpc[k] /\ lseq'[k] = lseq[k]
    BY <1>0, <1>7 DEF Receive
  <2>2. r.cmd # None
    <3>1. connected
      BY <1>0, <2>1 DEF OpeningInv, Alive
    <3>2. \A u \in Caller : pc[u] # "sign_on"
      BY <1>0, <3>1 DEF OpeningInv, ConnectLabel
    <3> QED BY <1>0, <3>2 DEF OpeningInv
  <2>3. CASE pending[r.seq] = None
    <3>1. ledger' = ledger /\ lpc'[l] = "loop"
      BY <1>0, <1>7, <2>3 DEF Receive
    <3>2. Still
      BY <2>1, <3>1 DEF Still
    <3> QED BY <3>2, OwnersStill
  <2>4. CASE pending[r.seq] # None
    <3>1. PICK c \in Cmd : c = r.cmd /\ c = pending[r.seq] /\ ledger[c] = "open" /\ r.seq < nextSeq
      BY <1>0, <2>1, <2>2, <2>4 DEF OwnersInv, OwnNumber
    <3>2. ledger' = [ledger EXCEPT ![c] = "done"] /\ lpc'[l] = "callback" /\ lseq'[l] = r.seq
      BY <1>0, <1>7, <2>2, <2>4, <3>1 DEF Receive
    <3>3. ledger'[c] = "done" /\ \A d \in Cmd : d # c => ledger'[d] = ledger[d]
      BY <1>0, <3>2
    <3>4. \A d, s : d \in Cmd /\ d # c /\ OwnNumber(d, s) => OwnNumber(d, s)'
      BY <2>1, <3>3 DEF OwnNumber, Batched
    <3>5. ASSUME NEW q \in drive', q.cmd # None
          PROVE  OwnNumber(q.cmd, q.seq)' /\ \A u \in Caller : cur'[u] # q.cmd
      <4>1. q \in drive /\ q # r
        BY <2>1, <3>5
      <4>2. q.cmd # c
        <5> SUFFICES ASSUME q.cmd = c PROVE FALSE
          OBVIOUS
        <5>1. pending[q.seq] = c
          BY <3>1, <4>1, <3>5 DEF OwnersInv, OwnNumber, Batched
        <5>2. q.seq = r.seq /\ q.conn = r.conn
          BY <1>0, <2>1, <3>1, <4>1, <5>1 DEF OwnersInv, OpeningInv
        <5>3. /\ q \in [conn : Conn, seq : Seqno, cmd : Cmd \cup {None}]
              /\ r \in [conn : Conn, seq : Seqno, cmd : Cmd \cup {None}]
          BY <1>0, <4>1
        <5>4. q = r
          <6>1. /\ q = [conn |-> q.conn, seq |-> q.seq, cmd |-> q.cmd]
                /\ r = [conn |-> r.conn, seq |-> r.seq, cmd |-> r.cmd]
            BY <5>3
          <6>2. q.cmd = r.cmd
            BY <3>1
          <6> QED BY <5>2, <6>1, <6>2
        <5> QED BY <4>1, <5>4
      <4> QED BY <1>0, <2>1, <3>4, <3>5, <4>1, <4>2 DEF OwnersInv
    <3>6. ASSUME NEW u \in Caller
          PROVE  /\ pc[u] = "send" => OwnNumber(cur[u], curSeq[u])'
                 /\ pc[u] \in {"reconnect", "register"} => ledger'[cur[u]] \in {"open", "batched"}
      <4>1. cur[u] # c /\ (pc[u] \in {"send", "reconnect", "register"} => cur[u] \in Cmd)
        <5>1. cur[u] # c
          BY <1>c, <2>2, <3>1
        <5>2. pc[u] \in {"send", "reconnect", "register"} => cur[u] \in Cmd
          BY <1>0 DEF CommandsInv, OpLabel
        <5> QED BY <5>1, <5>2
      <4>2. ASSUME pc[u] = "send" PROVE OwnNumber(cur[u], curSeq[u])'
        <5>1. OwnNumber(cur[u], curSeq[u]) /\ ledger'[cur[u]] = ledger[cur[u]]
          BY <3>3, <4>1, <4>2 DEF OwnersInv
        <5> QED BY <2>1, <5>1 DEF OwnNumber, Batched
      <4>3. pc[u] \in {"reconnect", "register"} => ledger'[cur[u]] \in {"open", "batched"}
        BY <3>3, <4>1 DEF OwnersInv
      <4> QED BY <4>2, <4>3
    <3>7. \A k \in Conn : lpc'[k] = "callback" =>
            lseq'[k] < nextSeq' /\ (pending'[lseq'[k]] # None => ledger'[pending'[lseq'[k]]] = "done")
      <4>1. ASSUME NEW k \in Conn, k # l, lpc'[k] = "callback"
            PROVE  lseq'[k] < nextSeq' /\ (pending'[lseq'[k]] # None => ledger'[pending'[lseq'[k]]] = "done")
        <5>1. lpc[k] = "callback" /\ lseq'[k] = lseq[k] /\ lseq[k] \in Seqno
          BY <1>0, <2>1, <4>1
        <5>2. pending[lseq[k]] # None => pending[lseq[k]] \in Cmd /\ ledger[pending[lseq[k]]] = "done"
          BY <1>a, <1>b, <5>1
        <5>3. pending[lseq[k]] # None => ledger'[pending[lseq[k]]] = "done"
          BY <3>3, <5>2
        <5> QED BY <1>b, <2>1, <5>1, <5>3
      <4> QED BY <2>1, <3>1, <3>2, <3>3, <4>1
    <3> QED BY <2>1, <3>5, <3>6, <3>7 DEF OwnersInv
  <2> QED BY <2>3, <2>4
<1>8. ASSUME NEW l \in Conn, CallbackReturns(l)
      PROVE  OwnersInv'
  <2>1. /\ UNCHANGED <<ledger, nextSeq, pc, cur, curSeq, drive, lseq>> /\ lpc[l] = "callback"
        /\ pending' = [pending EXCEPT ![lseq[l]] = None] /\ lseq[l] \in Seqno
        /\ \A k \in Conn : lpc'[k] = "callback" => lpc[k] = "callback"
    BY <1>0, <1>8 DEF CallbackReturns
  <2>2. pending[lseq[l]] # None => ledger[pending[lseq[l]]] = "done"
    BY <2>1 DEF OwnersInv
  <2>3. \A s \in Seqno : pending'[s] = IF s = lseq[l] THEN None ELSE pending[s]
    BY <1>0, <2>1
  <2>4. ASSUME NEW c, NEW s \in Seqno, c # None, OwnNumber(c, s) PROVE OwnNumber(c, s)'
    <3>1. pending'[s] = pending[s]
      BY <2>2, <2>3, <2>4 DEF OwnNumber, Batched
    <3> QED BY <2>1, <2>4, <3>1 DEF OwnNumber, Batched
  <2>5. \A r \in drive' : r.cmd # None => OwnNumber(r.cmd, r.seq)' /\ \A t \in Caller : cur'[t] # r.cmd
    BY <1>0, <2>1, <2>4 DEF OwnersInv
  <2>6. ASSUME NEW t \in Caller, pc[t] = "send" PROVE OwnNumber(cur[t], curSeq[t])'
    <3>1. OwnNumber(cur[t], curSeq[t]) /\ cur[t] # None /\ curSeq[t] \in Seqno
      BY <1>0, <2>6 DEF OwnersInv, CommandsInv, OpLabel
    <3>2. pending'[curSeq[t]] = pending[curSeq[t]]
      BY <2>2, <2>3, <3>1 DEF OwnNumber, Batched
    <3> QED BY <2>1, <3>1, <3>2 DEF OwnNumber, Batched
  <2>7. \A t \in Caller : pc[t] \in {"reconnect", "register"} =>
          ledger[cur[t]] \in {"open", "batched"} /\ \A s \in Seqno : pending'[s] # cur[t]
    BY <1>0, <2>3 DEF OwnersInv, CommandsInv, OpLabel
  <2>8. \A k \in Conn : lpc'[k] = "callback" =>
          lseq'[k] < nextSeq' /\ (pending'[lseq'[k]] # None => ledger'[pending'[lseq'[k]]] = "done")
    BY <1>0, <2>1, <2>3 DEF OwnersInv
  <2>9. /\ \A s \in Seqno : pending'[s] # None => s < nextSeq'
        /\ \A s, u \in Seqno : pending'[s] # None /\ pending'[s] = pending'[u] => s = u
    BY <2>1, <2>3 DEF OwnersInv
  <2> QED BY <2>1, <2>5, <2>6, <2>7, <2>8, <2>9 DEF OwnersInv
<1>9. ASSUME NEW l \in Conn, SlotReleased(l)
      PROVE  OwnersInv'
  <2>1. Still
    BY <1>0, <1>9 DEF SlotReleased, Still
  <2> QED BY <2>1, OwnersStill
<1> QED BY <1>1, <1>2, <1>3, <1>4, <1>5, <1>6, <1>7, <1>8, <1>9, SoundCases

(* An answer completes the open command that _pending names.                *)
LEMMA ReceiveFacts ==
  ASSUME SoundBase, OwnersInv, NEW l \in Conn, NEW r \in drive, Receive(l, r), pending[r.seq] # None
  PROVE  /\ r.seq \in Seqno /\ pending[r.seq] \in Cmd /\ ledger[pending[r.seq]] = "open"
         /\ ledger' = [ledger EXCEPT ![pending[r.seq]] = "done"]
         /\ lpc[l] = "recv" /\ lpc' = [lpc EXCEPT ![l] = "callback"] /\ UNCHANGED <<pending, outstanding>>
<1>0. /\ pending \in [Seqno -> Cmd \cup {None}]
      /\ drive \subseteq [conn : Conn, seq : Seqno, cmd : Cmd \cup {None}]
      /\ OpeningInv
  BY DEF SoundBase, TypeInv
<1>1. lpc[l] = "recv" /\ r.seq \in Seqno
  BY <1>0 DEF Receive
<1>2. r.cmd # None
  <2>1. connected
    BY <1>0, <1>1 DEF OpeningInv, Alive
  <2>2. \A u \in Caller : pc[u] # "sign_on"
    BY <1>0, <2>1 DEF OpeningInv, ConnectLabel
  <2> QED BY <1>0, <2>2 DEF OpeningInv
<1>3. OwnNumber(r.cmd, r.seq)
  BY <1>2 DEF OwnersInv
<1>4. pending[r.seq] \in Cmd /\ pending[r.seq] = r.cmd /\ ledger[pending[r.seq]] = "open"
  BY <1>0, <1>1, <1>3 DEF OwnNumber
<1>5. /\ ledger' = [ledger EXCEPT ![pending[r.seq]] = "done"]
      /\ lpc' = [lpc EXCEPT ![l] = "callback"] /\ UNCHANGED <<pending, outstanding>>
  BY <1>2 DEF Receive, LGoto, tableVars, semVars
<1> QED BY <1>1, <1>4, <1>5

LEMMA LedgerSlotsKept ==
  ASSUME LedgerSlots, outstanding' = outstanding, Open' = Open, Answered' = Answered, LReleasing' = LReleasing
  PROVE  LedgerSlots'
BY DEF LedgerSlots

LEMMA LedgerSlotsStep ==
  ASSUME Sound, SoundBase, OwnersInv, LedgerSlots, [Next]_vars
  PROVE  LedgerSlots'
<1> USE DEF netVars, socketVars, tableVars, semVars, opVars, callerVars, listenerVars, Goto, LGoto, Idle
<1>0. /\ pc \in [Caller -> Label] /\ cur \in [Caller -> Cmd \cup {None}]
      /\ lpc \in [Conn -> {"unborn", "loop", "recv", "callback", "release", "dead"}]
      /\ lseq \in [Conn -> Seqno] /\ lnext \in [Conn -> {"loop", "dead"}]
      /\ pending \in [Seqno -> Cmd \cup {None}] /\ ledger \in [Cmd -> State]
      /\ None \notin Cmd /\ outstanding \in Nat /\ nextSeq \in Nat /\ waiters \in Seq(Caller)
      /\ CommandsInv
  BY ConstantFacts DEF SoundBase, TypeInv
<1>f. /\ IsFiniteSet(Open) /\ IsFiniteSet(Answered) /\ IsFiniteSet(LReleasing)
      /\ Cardinality(Open) \in Nat /\ Cardinality(Answered) \in Nat /\ Cardinality(LReleasing) \in Nat
  BY LedgerFinite, CountedFinite
<1>1. ASSUME Unmoved PROVE LedgerSlots'
  BY <1>1, LedgerSlotsKept DEF Unmoved, Still, Open, Answered
<1>2. ASSUME NEW t \in Issuers, Issue(t) \/ IssueBatched(t)
      PROVE  LedgerSlots'
  <2>1. t \in Caller /\ Begin(t)
    BY <1>2 DEF Issue, IssueBatched, Caller
  <2>2. PICK c \in Cmd : cur' = [cur EXCEPT ![t] = c] /\ ledger[c] = "new"
    BY <2>1, BeginFacts DEF SoundBase
  <2>3. /\ UNCHANGED <<pending, outstanding, lpc>>
        /\ \/ ledger' = ledger
           \/ ledger' = [ledger EXCEPT ![c] = "batched"]
    BY <1>0, <1>2, <2>1, <2>2 DEF Issue, IssueBatched, Begin
  <2>4. /\ ledger'[c] \in {"new", "batched"}
        /\ \A d \in Cmd : d # c => ledger'[d] = ledger[d]
    BY <1>0, <2>2, <2>3
  <2>5. Open' = Open
    BY <2>2, <2>4 DEF Open
  <2>6. \A s \in Seqno : pending[s] # None => pending[s] \in Cmd /\ pending[s] # c
    BY <1>0, <2>2 DEF CommandsInv
  <2>7. Answered' = Answered
    BY <2>3, <2>4, <2>6 DEF Answered
  <2> QED BY <2>3, <2>5, <2>7, LedgerSlotsKept DEF LReleasing
<1>3. ASSUME NEW t \in Caller, AcquireTake(t)
      PROVE  LedgerSlots'
  <2>1. /\ UNCHANGED <<pending, lpc>> /\ pc[t] = "acquire" /\ outstanding' = outstanding + 1
        /\ ledger' = [ledger EXCEPT ![cur[t]] = "open"]
    BY <1>3 DEF AcquireTake
  <2>2. PICK c \in Cmd : c = cur[t] /\ ledger[c] = "new"
    BY <1>0, <2>1 DEF CommandsInv, OpLabel
  <2>3. ledger'[c] = "open" /\ \A d \in Cmd : d # c => ledger'[d] = ledger[d]
    BY <1>0, <2>1, <2>2
  <2>4. Open' = Open \cup {c} /\ c \notin Open
    BY <2>2, <2>3 DEF Open
  <2>5. \A s \in Seqno : pending[s] # None => pending[s] \in Cmd /\ pending[s] # c
    BY <1>0, <2>2 DEF CommandsInv
  <2>6. Answered' = Answered /\ LReleasing' = LReleasing
    BY <2>1, <2>3, <2>5 DEF Answered, LReleasing
  <2>7. Cardinality(Open') = Cardinality(Open) + 1
    BY <1>f, <2>4, AddedTo
  <2> QED BY <1>0, <1>f, <2>1, <2>6, <2>7 DEF LedgerSlots
<1>4. ASSUME NEW t \in Caller, Renumber(t) \/ Send(t)
      PROVE  LedgerSlots'
  <2>1. UNCHANGED <<pending, lpc, outstanding, ledger>>
    BY <1>4 DEF Renumber, Send, SendReturns
  <2> QED BY <2>1, LedgerSlotsKept DEF Open, Answered, LReleasing
<1>5. ASSUME NEW t \in Caller, Register(t)
      PROVE  LedgerSlots'
  <2>1. /\ UNCHANGED <<ledger, lpc, outstanding>> /\ pc[t] = "register" /\ nextSeq \in Seqno
        /\ pending' = IF Batched(cur[t]) THEN pending ELSE [pending EXCEPT ![nextSeq] = cur[t]]
    BY <1>5 DEF Register
  <2>2. PICK c \in Cmd : c = cur[t] /\ ledger[c] \in {"open", "batched"}
    BY <1>0, <2>1 DEF CommandsInv, OwnersInv, OpLabel
  <2>3. pending[nextSeq] = None
    BY <1>0, <2>1 DEF OwnersInv
  <2>4. /\ pending'[nextSeq] = None \/ (pending'[nextSeq] = c /\ ledger[c] = "open")
        /\ \A s \in Seqno : s # nextSeq => pending'[s] = pending[s]
    BY <1>0, <2>1, <2>2, <2>3 DEF Batched
  <2>5. \A s \in Seqno : (pending'[s] # None /\ ledger'[pending'[s]] = "done")
                           <=> (pending[s] # None /\ ledger[pending[s]] = "done")
    BY <2>1, <2>3, <2>4
  <2>6. Answered' = Answered
    BY <2>5 DEF Answered
  <2> QED BY <2>1, <2>6, LedgerSlotsKept DEF Open, LReleasing
<1>6. ASSUME NEW l \in Conn, NEW r \in drive, Receive(l, r)
      PROVE  LedgerSlots'
  <2>1. CASE pending[r.seq] = None
    <3>1. UNCHANGED <<ledger, pending, outstanding>> /\ lpc[l] = "recv" /\ lpc' = [lpc EXCEPT ![l] = "loop"]
      BY <1>6, <2>1 DEF Receive
    <3>2. \A k \in Conn : lpc'[k] = "release" <=> lpc[k] = "release"
      BY <1>0, <3>1
    <3>3. LReleasing' = LReleasing
      BY <3>2 DEF LReleasing
    <3> QED BY <3>1, <3>3, LedgerSlotsKept DEF Open, Answered
  <2>2. CASE pending[r.seq] # None
    <3>1. PICK c \in Cmd :
            /\ c = pending[r.seq] /\ r.seq \in Seqno /\ ledger[c] = "open"
            /\ ledger' = [ledger EXCEPT ![c] = "done"]
            /\ lpc[l] = "recv" /\ lpc' = [lpc EXCEPT ![l] = "callback"] /\ UNCHANGED <<pending, outstanding>>
      BY <1>6, <2>2, ReceiveFacts
    <3>2. ledger'[c] = "done" /\ \A d \in Cmd : d # c => ledger'[d] = ledger[d]
      BY <1>0, <3>1
    <3>3. Open' = Open \ {c} /\ c \in Open
      BY <3>1, <3>2 DEF Open
    <3>4. \A s \in Seqno : pending[s] # None /\ s # r.seq => pending[s] \in Cmd /\ pending[s] # c
      BY <1>0, <3>1 DEF OwnersInv
    <3>5. Answered' = Answered \cup {r.seq} /\ r.seq \notin Answered
      BY <1>0, <3>1, <3>2, <3>4 DEF Answered
    <3>6. \A k \in Conn : lpc'[k] = "release" <=> lpc[k] = "release"
      BY <1>0, <3>1
    <3>7. LReleasing' = LReleasing
      BY <3>6 DEF LReleasing
    <3>8. /\ Cardinality(Open') = Cardinality(Open) - 1
          /\ Cardinality(Answered') = Cardinality(Answered) + 1
      BY <1>f, <3>3, <3>5, GoneFrom, AddedTo
    <3> QED BY <1>0, <1>f, <3>1, <3>7, <3>8 DEF LedgerSlots
  <2> QED BY <2>1, <2>2
<1>7. ASSUME NEW l \in Conn, CallbackReturns(l)
      PROVE  LedgerSlots'
  <2>1. /\ UNCHANGED <<ledger, outstanding>> /\ lpc[l] = "callback" /\ lseq[l] \in Seqno
        /\ pending' = [pending EXCEPT ![lseq[l]] = None]
        /\ lpc' = [lpc EXCEPT ![l] = IF pending[lseq[l]] # None THEN "release" ELSE "dead"]
    BY <1>0, <1>7 DEF CallbackReturns
  <2>2. Open' = Open
    BY <2>1 DEF Open
  <2>3. Answered' = Answered \ {lseq[l]}
    BY <1>0, <2>1 DEF Answered
  <2>4. CASE pending[lseq[l]] = None
    <3>1. lseq[l] \notin Answered
      BY <2>4 DEF Answered
    <3>2. LReleasing' = LReleasing
      BY <1>0, <2>1, <2>4 DEF LReleasing
    <3> QED BY <2>1, <2>2, <2>3, <3>1, <3>2, LedgerSlotsKept
  <2>5. CASE pending[lseq[l]] # None
    <3>1. lseq[l] \in Answered
      BY <2>1, <2>5 DEF Answered, OwnersInv
    <3>2. LReleasing' = LReleasing \cup {l} /\ l \notin LReleasing
      BY <1>0, <2>1, <2>5 DEF LReleasing
    <3>3. /\ Cardinality(Answered') = Cardinality(Answered) - 1
          /\ Cardinality(LReleasing') = Cardinality(LReleasing) + 1
      BY <1>f, <2>3, <3>1, <3>2, GoneFrom, AddedTo
    <3> QED BY <1>0, <1>f, <2>1, <2>2, <3>3 DEF LedgerSlots
  <2> QED BY <2>4, <2>5
<1>8. ASSUME NEW l \in Conn, SlotReleased(l)
      PROVE  LedgerSlots'
  <2>1. /\ UNCHANGED <<ledger, pending>> /\ lpc[l] = "release" /\ lpc' = [lpc EXCEPT ![l] = lnext[l]] /\ Release
    BY <1>8 DEF SlotReleased
  <2>2. LReleasing' = LReleasing \ {l} /\ l \in LReleasing
    BY <1>0, <2>1 DEF LReleasing
  <2>3. Cardinality(LReleasing') = Cardinality(LReleasing) - 1 /\ Cardinality(LReleasing) > 0
    BY <1>f, <2>2, GoneFrom
  <2>4. outstanding > 0
    BY <1>0, <1>f, <2>3 DEF LedgerSlots
  <2>5. outstanding' = outstanding - 1
    BY <1>0, <2>1, <2>4, ReleaseFacts
  <2>6. Open' = Open /\ Answered' = Answered
    BY <2>1 DEF Open, Answered
  <2> QED BY <1>0, <1>f, <2>3, <2>5, <2>6 DEF LedgerSlots
<1> QED BY <1>1, <1>2, <1>3, <1>4, <1>5, <1>6, <1>7, <1>8, SoundCases

LEMMA SoundInductive ==
  ASSUME Sound
  PROVE  Spec => [](SoundBase /\ OwnersInv /\ LedgerSlots)
<1>1. Init => OpeningInv
  BY DEF Init, OpeningInv, Alive, ReportLabel, CloseLabel, ConnectLabel
<1>2. Init => OwnersInv
  BY DEF Init, OwnersInv
<1>3. Init => LedgerSlots
  <2> SUFFICES ASSUME Init PROVE LedgerSlots
    OBVIOUS
  <2>1. Open = {} /\ Answered = {} /\ LReleasing = {}
    BY DEF Init, Open, Answered, LReleasing
  <2> QED BY <2>1, FS_EmptySet DEF Init, LedgerSlots
<1>4. SoundBase /\ [Next]_vars => OpeningInv'
  BY OpeningStep
<1>5. SoundBase /\ OwnersInv /\ [Next]_vars => OwnersInv'
  BY OwnersStep
<1>6. SoundBase /\ OwnersInv /\ LedgerSlots /\ [Next]_vars => LedgerSlots'
  BY LedgerSlotsStep
<1>7. SoundBase <=> TypeInv /\ CommandsInv /\ OpeningInv
  BY DEF SoundBase
<1> QED
  BY <1>1, <1>2, <1>3, <1>4, <1>5, <1>6, <1>7, BaseInductive, PTL DEF Spec

(* Every accepted command is answered at most once, after it was accepted,  *)
(* and never more than Depth of them are open: the safety of LedgerSpec.    *)
THEOREM ImplementsLedger ==
  ASSUME Sound
  PROVE  Spec => Ledger!Init /\ [][Ledger!Next]_(Ledger!ledgerVars)
<1> DEFINE done == {c \in Cmd : ledger[c] = "done"}
<1>1. Init => Ledger!Init
  BY DEF Init, Ledger!Init
<1>2. SoundBase /\ OwnersInv /\ LedgerSlots /\ [Next]_vars => [Ledger!Next]_(Ledger!ledgerVars)
  <2> SUFFICES ASSUME SoundBase, OwnersInv, LedgerSlots, [Next]_vars
               PROVE  Ledger!Next \/ UNCHANGED <<Open, done>>
    BY DEF Ledger!ledgerVars, Open
  <2>0. /\ ledger \in [Cmd -> State] /\ pending \in [Seqno -> Cmd \cup {None}]
        /\ cur \in [Caller -> Cmd \cup {None}] /\ None \notin Cmd /\ outstanding \in Nat /\ Depth \in Nat
        /\ CommandsInv
    BY ConstantFacts, ClientAssumption DEF SoundBase, TypeInv
  <2>1. ASSUME ledger' = ledger
        PROVE  UNCHANGED <<Open, done>>
    BY <2>1 DEF Open
  <2>2. ASSUME NEW t \in Issuers, Issue(t) \/ IssueBatched(t)
        PROVE  UNCHANGED <<Open, done>>
    <3>1. t \in Caller /\ Begin(t)
      BY <2>2 DEF Issue, IssueBatched, Caller
    <3>2. PICK c \in Cmd : cur' = [cur EXCEPT ![t] = c] /\ ledger[c] = "new"
      BY <3>1, BeginFacts DEF SoundBase
    <3>3. ledger' = ledger \/ ledger' = [ledger EXCEPT ![c] = "batched"]
      BY <2>0, <2>2, <3>1, <3>2 DEF Issue, IssueBatched
    <3> QED BY <2>0, <3>2, <3>3 DEF Open
  <2>3. ASSUME NEW t \in Caller, AcquireTake(t)
        PROVE  \E c \in Cmd : Ledger!Accept(c)
    <3>1. /\ pc[t] = "acquire" /\ outstanding < Depth
          /\ ledger' = [ledger EXCEPT ![cur[t]] = "open"]
      BY <2>3 DEF AcquireTake
    <3>2. PICK c \in Cmd : c = cur[t] /\ ledger[c] = "new"
      BY <2>0, <3>1 DEF CommandsInv, OpLabel
    <3>4. Open' = Open \cup {c} /\ done' = done /\ c \notin Open \cup done
      BY <2>0, <3>1, <3>2 DEF Open
    <3>5. Cardinality(Open) < Depth
      BY <2>0, <3>1, LedgerFinite, CountedFinite DEF LedgerSlots
    <3>6. Ledger!Cardinality(Open) = Cardinality(Open)
      BY Zenon DEF Ledger!Cardinality, Cardinality
    <3>7. Ledger!Cardinality(Open) < Depth
      BY <3>5, <3>6
    <3> QED BY <3>4, <3>7 DEF Ledger!Accept, Open
  <2>4. ASSUME NEW t \in Caller, Renumber(t) \/ Register(t) \/ Send(t)
        PROVE  ledger' = ledger
    BY <2>4 DEF Renumber, Register, Send
  <2>5. ASSUME NEW l \in Conn, NEW r \in drive, Receive(l, r)
        PROVE  ledger' = ledger \/ \E c \in Cmd : Ledger!Answer(c)
    <3>1. CASE pending[r.seq] = None
      BY <2>5, <3>1 DEF Receive
    <3>2. CASE pending[r.seq] # None
      <4>1. PICK c \in Cmd : ledger[c] = "open" /\ ledger' = [ledger EXCEPT ![c] = "done"]
        BY <2>5, <3>2, ReceiveFacts
      <4>2. c \in Open /\ Open' = Open \ {c} /\ done' = done \cup {c}
        BY <2>0, <4>1 DEF Open
      <4> QED BY <4>2 DEF Ledger!Answer, Open
    <3> QED BY <3>1, <3>2
  <2>6. ASSUME NEW l \in Conn, CallbackReturns(l) \/ SlotReleased(l)
        PROVE  ledger' = ledger
    BY <2>6 DEF CallbackReturns, SlotReleased
  <2>7. Unmoved => ledger' = ledger
    BY DEF Unmoved, Still
  <2> HIDE DEF done
  <2>8. Ledger!Next <=> \E c \in Cmd : Ledger!Accept(c) \/ Ledger!Answer(c)
    BY DEF Ledger!Next
  <2>9. CASE \E t \in Caller : \/ t \in Issuers /\ (Issue(t) \/ IssueBatched(t))
                               \/ AcquireTake(t) \/ Renumber(t) \/ Register(t) \/ Send(t)
    BY <2>1, <2>2, <2>3, <2>4, <2>8, <2>9
  <2>10. CASE \E l \in Conn : \/ \E r \in drive : Receive(l, r)
                              \/ CallbackReturns(l) \/ SlotReleased(l)
    BY <2>1, <2>5, <2>6, <2>8, <2>10
  <2> QED BY <2>1, <2>7, <2>9, <2>10, SoundCases
<1> QED BY <1>1, <1>2, SoundInductive, PTL DEF Spec

=============================================================================
