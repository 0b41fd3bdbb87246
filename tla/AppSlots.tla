------------------------------- MODULE AppSlots -------------------------------
(***************************************************************************)
(* kinetic/app.py: the web application that reads keys from the drive.     *)
(* Flask threads take a slot of shared memory, queue (key, slot) and spin  *)
(* on the slot's len; processes, each with a kv_client of its own, forward *)
(* the requests, and their listener threads fill the slots.                *)
(***************************************************************************)
EXTENDS Integers, Sequences, FiniteSets, SequencesExt

CONSTANTS
  Reader,      \* flask threads in get() or getsmart()
  Proc,        \* the processes of serve_requests
  Slot, Key,
  Asks,        \* the keys that each thread may be asked for, as pairs
  MaxInFlight, \* bound: requests queued or at the drive
  MaxReported, \* bound: errors that the kv_clients report themselves
  Frail        \* bound: the processes whose listener may die

NoKey == "no key"

ASSUME AppAssumption ==
  /\ NoKey \notin Slot
  /\ IsFiniteSet(Proc) /\ Asks \subseteq Reader \X Key
  /\ MaxInFlight \in Nat \ {0} /\ MaxReported \in Nat

(* SM_Slot.len is -1, 0 or the length of the payload, here any positive one. *)
Unset == -1
Unsuccessful == 0
Filled == 1

VARIABLES
  reported,    \* how often a kv_client has reported an error of its own
  available,   \* sm_available_idx
  len, payload,\* sm_slots: len.value, and the key whose value payload holds
  requests,    \* the queue of [key, slot]
  rpc, rkey, rslot, reply,  \* per flask thread: where it is, what it was
               \* asked for, its slot, the key whose value it answers
  pending,     \* per process: the commands at the drive, oldest first; slot is
               \* NoKey when the client has given one up
  fresh,       \* per process: whether no command has been issued yet
  delegate,    \* per process: the slot of callback_delegate
  writing,     \* per process: the request whose payload the listener has
               \* copied and whose len it has not set
  listener     \* per process: its listener thread is "up", or "dead", or dead
               \* with the connection "cut"

readerVars == <<rpc, rkey, rslot, reply>>
procVars == <<pending, fresh, delegate, writing, listener>>
vars == <<reported, available, len, payload, requests, readerVars, procVars>>

Nothing == [key |-> NoKey, slot |-> NoKey]
Request == [key : Key, slot : Slot]

Init ==
  /\ reported = 0
  /\ available = Slot
  /\ len = [s \in Slot |-> Unset] /\ payload = [s \in Slot |-> NoKey]
  /\ requests = <<>>
  /\ rpc = [r \in Reader |-> "idle"]
  /\ rkey = [r \in Reader |-> NoKey] /\ rslot = [r \in Reader |-> NoKey]
  /\ reply = [r \in Reader |-> NoKey]
  /\ pending = [p \in Proc |-> <<>>] /\ fresh = [p \in Proc |-> TRUE]
  /\ delegate = [p \in Proc |-> NoKey] /\ writing = [p \in Proc |-> Nothing]
  /\ listener = [p \in Proc |-> "up"]

-----------------------------------------------------------------------------
(* get() and getsmart() *)
Goto(r, label) == rpc' = [rpc EXCEPT ![r] = label]

InFlight == Len(requests) + MapThenSumSet(LAMBDA p : Len(pending[p]), Proc)

\* mutant: the slot stays in sm_available_idx
TakeSlotShared(r, k) ==
  /\ rpc[r] = "idle" /\ InFlight < MaxInFlight
  /\ \E s \in available :
       /\ rslot' = [rslot EXCEPT ![r] = s]
       /\ requests' = Append(requests, [key |-> k, slot |-> s])
  /\ rkey' = [rkey EXCEPT ![r] = k]
  /\ Goto(r, "poll")
  /\ UNCHANGED <<reported, available, len, payload, reply, procVars>>

(* pop() and put(); nobody else knows the slot in between.  pop() on the    *)
(* empty set raises KeyError: status 500, and no state changes.             *)
TakeSlot(r, k) ==
  /\ rpc[r] = "idle" /\ InFlight < MaxInFlight
  /\ \E s \in available :
       /\ available' = available \ {s}
       /\ rslot' = [rslot EXCEPT ![r] = s]
       /\ requests' = Append(requests, [key |-> k, slot |-> s])
  /\ rkey' = [rkey EXCEPT ![r] = k]
  /\ Goto(r, "poll")
  /\ UNCHANGED <<reported, len, payload, reply, procVars>>

(* The loop on len ends; what it says decides whether payload is copied.    *)
ReadSlot(r) ==
  /\ rpc[r] = "poll" /\ len[rslot[r]] # Unset
  /\ reply' = [reply EXCEPT ![r] =
                 IF len[rslot[r]] = Unsuccessful THEN NoKey ELSE payload[rslot[r]]]
  /\ Goto(r, "reset")
  /\ UNCHANGED <<reported, available, len, payload, requests, rkey, rslot, procVars>>

\* mutant: the slot is given back as the answer left it
ResetNothing(r) ==
  /\ rpc[r] = "reset"
  /\ Goto(r, "add")
  /\ UNCHANGED <<reported, available, len, payload, requests, rkey, rslot, reply, procVars>>

\* mutant: the index of the slot is forgotten too early
ResetForgetsSlot(r) ==
  /\ rpc[r] = "reset"
  /\ len' = [len EXCEPT ![rslot[r]] = Unset]
  /\ rslot' = [rslot EXCEPT ![r] = NoKey]
  /\ Goto(r, "add")
  /\ UNCHANGED <<reported, available, payload, requests, rkey, reply, procVars>>

(* The finally clause: the len, then the set. *)
ResetLen(r) ==
  /\ rpc[r] = "reset"
  /\ len' = [len EXCEPT ![rslot[r]] = Unset]
  /\ Goto(r, "add")
  /\ UNCHANGED <<reported, available, payload, requests, rkey, rslot, reply, procVars>>

GiveSlot(r) ==
  /\ rpc[r] = "add"
  /\ available' = available \cup {rslot[r]}
  /\ rslot' = [rslot EXCEPT ![r] = NoKey]
  /\ rkey' = [rkey EXCEPT ![r] = NoKey] /\ reply' = [reply EXCEPT ![r] = NoKey]
  /\ Goto(r, "idle")
  /\ UNCHANGED <<reported, len, payload, requests, procVars>>

-----------------------------------------------------------------------------
\* mutant: the command is issued before its delegate is set
ServeWithOldDelegate(p) ==
  /\ requests # <<>>
  /\ requests' = Tail(requests)
  /\ delegate' = [delegate EXCEPT ![p] = Head(requests).slot]
  /\ pending' = [pending EXCEPT ![p] =
                   Append(@, [key |-> Head(requests).key,
                              slot |-> IF fresh[p] THEN Head(requests).slot ELSE delegate[p],
                              first |-> fresh[p]])]
  /\ fresh' = [fresh EXCEPT ![p] = FALSE]
  /\ UNCHANGED <<reported, available, len, payload, readerVars, writing, listener>>

(* serve_requests: set the delegate for this slot and issue the command, to *)
(* which _update_header ties the delegate.                                  *)
Serve(p) ==
  /\ requests # <<>>
  /\ requests' = Tail(requests)
  /\ delegate' = [delegate EXCEPT ![p] = Head(requests).slot]
  /\ pending' = [pending EXCEPT ![p] =
                   Append(@, [key |-> Head(requests).key, slot |-> Head(requests).slot, first |-> fresh[p]])]
  /\ fresh' = [fresh EXCEPT ![p] = FALSE]
  /\ UNCHANGED <<reported, available, len, payload, readerVars, writing, listener>>

(* Whose slot an answer goes to; an answer to a command that has expired    *)
(* goes to the delegate of the latest one.                                  *)
Target(p, c) == IF c.slot = NoKey THEN delegate[p] ELSE c.slot

(* data_callback on a value: payload first ...                              *)
WritePayload(p, i) ==
  /\ listener[p] = "up" /\ writing[p] = Nothing /\ i \in DOMAIN pending[p]
  /\ LET c == pending[p][i] IN
     /\ payload' = [payload EXCEPT ![Target(p, c)] = c.key]
     /\ writing' = [writing EXCEPT ![p] = [key |-> c.key, slot |-> Target(p, c)]]
  /\ pending' = [pending EXCEPT ![p] = RemoveAt(@, i)]
  /\ UNCHANGED <<reported, available, len, requests, readerVars, fresh, delegate, listener>>

(* ... then the length, which the requester polls.                          *)
WriteLen(p) ==
  /\ writing[p] # Nothing
  /\ len' = [len EXCEPT ![writing[p].slot] = Filled]
  /\ writing' = [writing EXCEPT ![p] = Nothing]
  /\ UNCHANGED <<reported, available, payload, requests, readerVars, pending, fresh, delegate, listener>>

\* mutant: an error status is only logged
IgnoreError(p, i) ==
  /\ listener[p] = "up" /\ writing[p] = Nothing /\ i \in DOMAIN pending[p]
  /\ pending' = [pending EXCEPT ![p] = RemoveAt(@, i)]
  /\ UNCHANGED <<reported, available, len, payload, requests, readerVars, fresh, delegate, writing, listener>>

(* data_callback on an error status, or on an empty value                   *)
WriteError(p, i) ==
  /\ listener[p] = "up" /\ writing[p] = Nothing /\ i \in DOMAIN pending[p]
  /\ len' = [len EXCEPT ![Target(p, pending[p][i])] = Unsuccessful]
  /\ pending' = [pending EXCEPT ![p] = RemoveAt(@, i)]
  /\ UNCHANGED <<reported, available, payload, requests, readerVars, fresh, delegate, writing, listener>>

(* An error that the kv_client reports itself carries sequence number 0: it *)
(* answers the first command ever issued (the drive still holds it), or     *)
(* goes to the delegate of the latest one, if there is one.                 *)
Report(p) ==
  /\ reported < MaxReported /\ reported' = reported + 1
  /\ listener[p] = "up" /\ writing[p] = Nothing
  /\ LET first == {i \in DOMAIN pending[p] : pending[p][i].first} IN
     \/ \E i \in first :
          /\ len' = [len EXCEPT ![pending[p][i].slot] = Unsuccessful]
          /\ pending' = [pending EXCEPT ![p][i] = [key |-> @.key, slot |-> NoKey, first |-> FALSE]]
     \/ /\ first = {}
        /\ len' = IF delegate[p] = NoKey THEN len ELSE [len EXCEPT ![delegate[p]] = Unsuccessful]
        /\ UNCHANGED pending
  /\ UNCHANGED <<available, payload, requests, readerVars, fresh, delegate, writing>>

Awaited(p) == \E i \in DOMAIN pending[p] : pending[p][i].slot # NoKey

(* A command is overdue: EXPIRED. *)
Expire(p) == Report(p) /\ Awaited(p) /\ UNCHANGED listener

(* The connection breaks: INTERNAL_ERROR, and the end of the listener.      *)
ConnectionLost(p) == p \in Frail /\ Report(p) /\ listener' = [listener EXCEPT ![p] = "cut"]

(* The next command registers itself while the listener scans _pending for  *)
(* overdue ones: RuntimeError, which ends the listener.                     *)
ScanDisturbed(p) ==
  /\ p \in Frail /\ listener[p] = "up" /\ writing[p] = Nothing
  /\ Awaited(p) /\ requests # <<>>
  /\ listener' = [listener EXCEPT ![p] = "dead"]
  /\ UNCHANGED <<reported, available, len, payload, requests, readerVars, pending, fresh, delegate, writing>>

(* On a broken connection a send may be lost without an error, as in Serve, *)
(* or fail: NOT_ATTEMPTED, to the delegate that was set for this request.   *)
SendFails(p) ==
  /\ listener[p] = "cut" /\ requests # <<>>
  /\ requests' = Tail(requests)
  /\ delegate' = [delegate EXCEPT ![p] = Head(requests).slot]
  /\ len' = [len EXCEPT ![Head(requests).slot] = Unsuccessful]
  /\ fresh' = [fresh EXCEPT ![p] = FALSE]
  /\ UNCHANGED <<reported, available, payload, readerVars, pending, writing, listener>>

-----------------------------------------------------------------------------
ReaderStep(r) == ReadSlot(r) \/ ResetLen(r) \/ GiveSlot(r)

Answer(p, i) == WritePayload(p, i) \/ WriteError(p, i)

Next ==
  \/ \E r \in Reader : ReaderStep(r) \/ \E k \in Key : <<r, k>> \in Asks /\ TakeSlot(r, k)
  \/ \E p \in Proc : \/ Serve(p) \/ WriteLen(p) \/ SendFails(p)
                     \/ Expire(p) \/ ConnectionLost(p) \/ ScanDisturbed(p)
                     \/ \E i \in DOMAIN pending[p] : Answer(p, i)

(* Threads run, and the drive does not put off its oldest command forever.  *)
Spec == /\ Init /\ [][Next]_vars
        /\ \A r \in Reader : WF_vars(ReaderStep(r))
        /\ \A p \in Proc : WF_vars(Serve(p)) /\ WF_vars(WriteLen(p)) /\ SF_vars(Answer(p, 1))

-----------------------------------------------------------------------------
TypeOK ==
  /\ reported \in 0 .. MaxReported
  /\ available \subseteq Slot
  /\ len \in [Slot -> {Unset, Unsuccessful, Filled}]
  /\ payload \in [Slot -> Key \cup {NoKey}]
  /\ requests \in Seq(Request)
  /\ rpc \in [Reader -> {"idle", "poll", "reset", "add"}]
  /\ rkey \in [Reader -> Key \cup {NoKey}]
  /\ rslot \in [Reader -> Slot \cup {NoKey}]
  /\ reply \in [Reader -> Key \cup {NoKey}]
  /\ pending \in [Proc -> Seq([key : Key, slot : Slot \cup {NoKey}, first : BOOLEAN])]
  /\ fresh \in [Proc -> BOOLEAN]
  /\ delegate \in [Proc -> Slot \cup {NoKey}]
  /\ writing \in [Proc -> Request \cup {Nothing}]
  /\ listener \in [Proc -> {"up", "dead", "cut"}]

(* The bytes that get() returns are those of the key in its own URL: the    *)
(* order of the writes to a slot and of its release keeps each answer with  *)
(* its request, over processes that share nothing but the slots.            *)
RepliesMatch == reported = 0 => \A r \in Reader : reply[r] \in {NoKey, rkey[r]}

(* A slot that can be taken is unset and no answer for it is under way      *)
(* (app.py:29, "len=-1 is unset"), so nobody reads the previous answer.     *)
FreeSlotsUnset ==
  reported = 0 => \A s \in available :
    /\ len[s] = Unset
    /\ \A i \in DOMAIN requests : requests[i].slot # s
    /\ \A p \in Proc : /\ writing[p].slot # s
                       /\ \A i \in DOMAIN pending[p] : pending[p][i].slot # s

(* No slot is lost or shared: each is available or in one request's hands,  *)
(* also when commands expire and listeners die.                             *)
SlotsOwnedOnce ==
  \A s \in Slot :
    IF s \in available
    THEN \A r \in Reader : rslot[r] # s
    ELSE \E r \in Reader : rslot[r] = s /\ \A q \in Reader \ {r} : rslot[q] # s

(* A request that has a slot is answered, also when commands expire, as     *)
(* long as every process has its listener: without it the busy loop on the  *)
(* slot's len never ends.                                                   *)
RequestsReturn ==
  \A r \in Reader : (rpc[r] # "idle") ~> (rpc[r] = "idle" \/ \E p \in Proc : listener[p] # "up")
==============================================================================
