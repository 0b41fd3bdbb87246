----------------------------- MODULE ProxyServer -----------------------------
(***************************************************************************)
(* kinetic/proxy_server.py and its clients (s3dexp/kinetic/proxy_client.py,*)
(* used by the filters and by perf.py): a loop on a ROUTER socket forwards *)
(* each GET to one kv_client and sends one ready reply per turn; the       *)
(* listener thread of the kv_client moves a request, found by its key,     *)
(* from pending_requests to ready_requests, and then releases its slot.    *)
(***************************************************************************)
EXTENDS Integers, Sequences, FiniteSets, SequencesExt

CONSTANTS
  ProxyClient,   \* processes with a KineticProxyClient
  Key,
  Asks,          \* the keys that each of them may ask for, as pairs
  QueueDepth     \* queue_depth of the kv_client (16)

ASSUME ProxyAssumption ==
  /\ Asks \subseteq ProxyClient \X Key
  /\ QueueDepth \in Nat \ {0}

Get == "GET"
GetSmart == "GETSMART"
Ping == "PING"
NoKey == "no key"
Request == [from : ProxyClient, op : {Get, GetSmart}, key : Key]
Body == [op : {Get, GetSmart, Ping}, key : Key \cup {NoKey}]
None == [op |-> "none", key |-> NoKey]

VARIABLES
  asked,         \* per client: what it waits for, None when it waits for nothing
  mail,          \* per client: the reply at its REQ socket
  inbox,         \* the messages at the ROUTER socket
  server,        \* main(): "poll", "issue" (inside kvclient.get), "reply", or
                 \* "dead" after an exception
  request,       \* the message it is working on
  pendingRequests, readyRequests, \* the two dictionaries: sets of requests,
                 \* at most one per key
  held,          \* what the listener has popped and not yet inserted, a set
  atDrive,       \* the keys of the commands whose answers are to come, oldest first
  outstanding,   \* taken slots of the kv_client
  listener,      \* its listener thread: "recv", "insert", "release" or "dead"
  upset          \* history: a key was asked for while in use, or the kv_client
                 \* reported an error of its own

clientVars == <<asked, mail>>
tableVars == <<pendingRequests, readyRequests, held>>
driveVars == <<atDrive, outstanding, listener>>
vars == <<clientVars, inbox, server, request, tableVars, driveVars, upset>>

Nobody == [from |-> "nobody", op |-> "none", key |-> NoKey]
InUse(k) == \E t \in pendingRequests \cup held \cup readyRequests : t.key = k
Store(table, t) == {u \in table : u.key # t.key} \cup {t}

Init ==
  /\ asked = [c \in ProxyClient |-> None] /\ mail = [c \in ProxyClient |-> None]
  /\ inbox = <<>> /\ server = "poll" /\ request = Nobody
  /\ pendingRequests = {} /\ readyRequests = {} /\ held = {}
  /\ atDrive = <<>> /\ outstanding = 0 /\ listener = "recv"
  /\ upset = FALSE

-----------------------------------------------------------------------------
(* KineticProxyClient: a REQ socket has one request under way.              *)
Ask(c, body) ==
  /\ asked[c] = None
  /\ asked' = [asked EXCEPT ![c] = body]
  /\ inbox' = Append(inbox, [from |-> c, op |-> body.op, key |-> body.key])
  /\ UNCHANGED <<mail, server, request, tableVars, driveVars, upset>>

TakeReply(c) ==
  /\ mail[c] # None
  /\ asked' = [asked EXCEPT ![c] = None]
  /\ mail' = [mail EXCEPT ![c] = None]
  /\ UNCHANGED <<inbox, server, request, tableVars, driveVars, upset>>

-----------------------------------------------------------------------------
(* main() *)
PollNothing ==
  /\ server = "poll" /\ inbox = <<>>
  /\ server' = "reply"
  /\ UNCHANGED <<clientVars, inbox, request, tableVars, driveVars, upset>>

PollPing ==
  /\ server = "poll" /\ inbox # <<>> /\ Head(inbox).op = Ping
  /\ inbox' = Tail(inbox)
  /\ mail' = [mail EXCEPT ![Head(inbox).from] = [op |-> Ping, key |-> NoKey]]
  /\ server' = "reply"
  /\ UNCHANGED <<asked, request, tableVars, driveVars, upset>>

\* mutant: only a GETSMART is recorded
PollGetRecordsSmart ==
  /\ server = "poll" /\ inbox # <<>> /\ Head(inbox).op # Ping
  /\ inbox' = Tail(inbox)
  /\ request' = Head(inbox)
  /\ upset' = (upset \/ InUse(Head(inbox).key))
  /\ pendingRequests' = IF Head(inbox).op = GetSmart THEN Store(pendingRequests, Head(inbox))
                                                   ELSE pendingRequests
  /\ server' = "issue"
  /\ UNCHANGED <<clientVars, readyRequests, held, driveVars>>

PollGet ==
  /\ server = "poll" /\ inbox # <<>> /\ Head(inbox).op # Ping
  /\ inbox' = Tail(inbox)
  /\ request' = Head(inbox)
  /\ upset' = (upset \/ InUse(Head(inbox).key))
  /\ pendingRequests' = Store(pendingRequests, Head(inbox))
  /\ server' = "issue"
  /\ UNCHANGED <<clientVars, readyRequests, held, driveVars>>

(* kvclient.get blocks the loop while queue_depth commands are outstanding. *)
Issue ==
  /\ server = "issue" /\ outstanding < QueueDepth
  /\ outstanding' = outstanding + 1
  /\ atDrive' = Append(atDrive, request.key)
  /\ request' = Nobody
  /\ server' = "reply"
  /\ UNCHANGED <<clientVars, inbox, tableVars, listener, upset>>

\* mutant: the reply is sent and not popped
ReplyAgain(t) ==
  /\ server = "reply" /\ t \in readyRequests
  /\ mail' = [mail EXCEPT ![t.from] = [op |-> t.op, key |-> t.key]]
  /\ server' = "poll"
  /\ UNCHANGED <<asked, inbox, request, tableVars, driveVars, upset>>

(* A send error is reported to the callback on the loop's own thread, where *)
(* pop() of the missing key raises out of main(); the slot stays taken.     *)
IssueFails ==
  /\ server = "issue" /\ outstanding < QueueDepth
  /\ outstanding' = outstanding + 1
  /\ server' = "dead"
  /\ upset' = TRUE
  /\ UNCHANGED <<clientVars, inbox, request, tableVars, atDrive, listener>>

(* popitem(); the reply to a GET carries the value, that to a GETSMART only  *)
(* its size.                                                                *)
Reply(t) ==
  /\ server = "reply" /\ t \in readyRequests
  /\ readyRequests' = readyRequests \ {t}
  /\ mail' = [mail EXCEPT ![t.from] = [op |-> t.op, key |-> t.key]]
  /\ server' = "poll"
  /\ UNCHANGED <<asked, inbox, request, pendingRequests, held, driveVars, upset>>

ReplyTo(c) == \E t \in readyRequests : t.from = c /\ Reply(t)

ReplyNothing ==
  /\ server = "reply" /\ readyRequests = {}
  /\ server' = "poll"
  /\ UNCHANGED <<clientVars, inbox, request, tableVars, driveVars, upset>>

-----------------------------------------------------------------------------
\* mutant: the answer is taken to be for the oldest request
CallbackInOrder(i) ==
  LET found == {t \in pendingRequests : t.key = atDrive[1]} IN
  /\ listener = "recv" /\ i \in DOMAIN atDrive
  /\ atDrive' = RemoveAt(atDrive, i)
  /\ pendingRequests' = pendingRequests \ found
  /\ held' = {[t EXCEPT !.key = atDrive[i]] : t \in found}
  /\ listener' = IF found = {} THEN "dead" ELSE "insert"
  /\ UNCHANGED <<clientVars, inbox, server, request, readyRequests, outstanding, upset>>

(* data_callbak on the listener thread.  pop() of a key that is not there   *)
(* raises KeyError, which ends the thread before the slot is released.      *)
Callback(i) ==
  LET found == {t \in pendingRequests : t.key = atDrive[i]} IN
  /\ listener = "recv" /\ i \in DOMAIN atDrive
  /\ atDrive' = RemoveAt(atDrive, i)
  /\ pendingRequests' = pendingRequests \ found
  /\ held' = found
  /\ listener' = IF found = {} THEN "dead" ELSE "insert"
  /\ UNCHANGED <<clientVars, inbox, server, request, readyRequests, outstanding, upset>>

CallbackStores ==
  /\ listener = "insert"
  /\ \E t \in held : readyRequests' = Store(readyRequests, t)
  /\ held' = {}
  /\ listener' = "release"
  /\ UNCHANGED <<clientVars, inbox, server, request, pendingRequests, atDrive, outstanding, upset>>

\* mutant: the slot of an answered command is not released
ReleaseForgotten ==
  /\ listener = "release"
  /\ listener' = "recv"
  /\ UNCHANGED <<clientVars, inbox, server, request, tableVars, atDrive, outstanding, upset>>

(* The kv_client, back from the callback; the loop may have sent the reply  *)
(* and be waiting for the slot by now.                                      *)
Release ==
  /\ listener = "release"
  /\ outstanding' = outstanding - 1
  /\ listener' = "recv"
  /\ UNCHANGED <<clientVars, inbox, server, request, tableVars, atDrive, upset>>

(* An error that the kv_client reports itself names no key.                 *)
ErrorReport ==
  /\ listener = "recv"
  /\ listener' = "dead"
  /\ upset' = TRUE
  /\ UNCHANGED <<clientVars, inbox, server, request, tableVars, atDrive, outstanding>>

-----------------------------------------------------------------------------
Asking(c) ==
  \/ \E op \in {Get, GetSmart}, k \in Key : <<c, k>> \in Asks /\ Ask(c, [op |-> op, key |-> k])
  \/ Ask(c, [op |-> Ping, key |-> NoKey])

Listener == CallbackStores \/ Release
Server == PollNothing \/ PollPing \/ PollGet \/ Issue \/ ReplyNothing

Next ==
  \/ \E c \in ProxyClient : Asking(c) \/ TakeReply(c) \/ ReplyTo(c)
  \/ Server
  \/ \E i \in DOMAIN atDrive : Callback(i)
  \/ Listener
  \/ IssueFails
  \/ ErrorReport

(* The loop and the listener run, the drive does not put off its oldest     *)
(* command forever for others, and popitem() goes round the dictionary.     *)
Spec == /\ Init /\ [][Next]_vars
        /\ WF_vars(Server)
        /\ \A c \in ProxyClient : SF_vars(ReplyTo(c))
        /\ SF_vars(Callback(1)) /\ WF_vars(Listener)

-----------------------------------------------------------------------------
(* Whatever else goes wrong, collisions included, a client is only ever     *)
(* sent the reply to what it is waiting for.                                *)
RepliesWanted == \A c \in ProxyClient : mail[c] # None => mail[c] = asked[c]

(* While the assumption of proxy_server.py:56 ("no collision") holds, every *)
(* key the drive is still to answer is recorded for exactly one client, so  *)
(* the callback finds it and the listener survives.                         *)
CallbackFinds ==
  ~upset =>
    /\ listener # "dead"
    /\ \A i \in DOMAIN atDrive : Cardinality({t \in pendingRequests : t.key = atDrive[i]}) = 1
    /\ \A i, j \in DOMAIN atDrive : atDrive[i] = atDrive[j] => i = j

(* And no request is forgotten: a waiting client is in exactly one place.   *)
Places(c) ==
  LET n(b) == IF b THEN 1 ELSE 0 IN
  n(\E i \in DOMAIN inbox : inbox[i].from = c) + n(\E t \in pendingRequests : t.from = c)
    + n(\E t \in held : t.from = c) + n(\E t \in readyRequests : t.from = c) + n(mail[c] # None)
OnePlaceEach == ~upset => \A c \in ProxyClient : Places(c) = IF asked[c] = None THEN 0 ELSE 1

(* And it is served, although the loop blocks inside get() while the slots  *)
(* are taken, and is woken by a slot that the listener releases only after  *)
(* it has handed the request over.                                          *)
ClientsServed == [](~upset) => \A c \in ProxyClient : (asked[c] # None) ~> (mail[c] # None)
==============================================================================
