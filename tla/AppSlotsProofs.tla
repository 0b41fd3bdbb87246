---------------------------- MODULE AppSlotsProofs ----------------------------
(***************************************************************************)
(* For any number of flask threads, processes, slots and keys.  However    *)
(* often commands expire and listeners die, no slot of shared memory is    *)
(* lost or shared: the argument needs nothing of the processes, which      *)
(* never touch sm_available_idx, and follows the requests' own life cycle. *)
(* As long as no client has reported an error of its own, every request    *)
(* also reads the payload of its own key, and a slot given back has its    *)
(* len reset: each slot handed out has one request on its way to a         *)
(* process, one command at the drive, or one answer, and all of them are   *)
(* about the slot's own key.                                               *)
(***************************************************************************)
EXTENDS AppSlots, SequenceTheorems, TLAPS

Busy == {"poll", "reset", "add"}

(* A thread has a slot exactly while it is inside get() or getsmart().      *)
Held ==
  /\ available \subseteq Slot
  /\ rpc \in [Reader -> {"idle"} \cup Busy]
  /\ rslot \in [Reader -> Slot \cup {NoKey}]
  /\ \A r \in Reader : rpc[r] = "idle" <=> rslot[r] = NoKey

(* The slots handed out and those available partition the slots.            *)
Partition ==
  /\ \A r \in Reader : rslot[r] \notin available
  /\ \A r, q \in Reader : rslot[r] = rslot[q] /\ rslot[r] # NoKey => r = q
  /\ \A s \in Slot \ available : \E r \in Reader : rslot[r] = s

SlotInv == Held /\ Partition

-----------------------------------------------------------------------------
LEMMA SlotInvInit == Init => SlotInv
  BY AppAssumption DEF Init, SlotInv, Held, Partition, Busy

(* pop() of one slot.                                                       *)
LEMMA TakeSlotKeeps ==
  ASSUME SlotInv, NEW r \in Reader, NEW k \in Key, TakeSlot(r, k)
  PROVE  SlotInv'
<1>1. PICK s \in available : /\ available' = available \ {s}
                             /\ rslot' = [rslot EXCEPT ![r] = s]
  BY DEF TakeSlot
<1>2. /\ rpc' = [rpc EXCEPT ![r] = "poll"] /\ rpc[r] = "idle"
      /\ s \in Slot /\ s # NoKey
  BY AppAssumption DEF TakeSlot, Goto, SlotInv, Held
<1>3. Held'
  BY <1>1, <1>2 DEF SlotInv, Held, Busy
<1>4. Partition'
  <2>1. \A q \in Reader : q # r => rslot'[q] = rslot[q]
    BY <1>1 DEF SlotInv, Held
  <2>2. rslot'[r] = s /\ rslot[r] = NoKey
    BY <1>1, <1>2 DEF SlotInv, Held
  <2>3. \A q \in Reader : rslot'[q] \notin available'
    BY <1>1, <2>1, <2>2 DEF SlotInv, Partition
  <2>4. \A p, q \in Reader : rslot'[p] = rslot'[q] /\ rslot'[p] # NoKey => p = q
    BY <1>1, <2>1, <2>2 DEF SlotInv, Partition
  <2>5. \A u \in Slot \ available' : \E q \in Reader : rslot'[q] = u
    <3> SUFFICES ASSUME NEW u \in Slot, u \notin available'
                 PROVE  \E q \in Reader : rslot'[q] = u
      OBVIOUS
    <3>1. CASE u = s
      BY <3>1, <2>2
    <3>2. CASE u # s
      <4>1. PICK q \in Reader : rslot[q] = u
        BY <3>2, <1>1 DEF SlotInv, Partition
      <4>2. q # r
        BY <4>1, <2>2, AppAssumption
      <4>3. QED
        BY <4>1, <4>2, <2>1
    <3>3. QED
      BY <3>1, <3>2
  <2>6. QED
    BY <2>3, <2>4, <2>5 DEF Partition
<1>5. QED
  BY <1>3, <1>4 DEF SlotInv

(* The last line of the finally clause: the slot goes back.                 *)
LEMMA GiveSlotKeeps ==
  ASSUME SlotInv, NEW r \in Reader, GiveSlot(r)
  PROVE  SlotInv'
<1>1. /\ available' = available \cup {rslot[r]}
      /\ rslot' = [rslot EXCEPT ![r] = NoKey]
      /\ rpc' = [rpc EXCEPT ![r] = "idle"]
      /\ rpc[r] = "add"
  BY DEF GiveSlot, Goto
<1>2. rslot[r] \in Slot
  BY <1>1 DEF SlotInv, Held
<1>3. Held'
  BY <1>1, <1>2 DEF SlotInv, Held, Busy
<1>4. Partition'
  <2>1. \A q \in Reader : q # r => rslot'[q] = rslot[q]
    BY <1>1 DEF SlotInv, Held
  <2>2. rslot'[r] = NoKey /\ NoKey \notin available'
    BY <1>1, <1>2, AppAssumption DEF SlotInv, Held
  <2>3. \A q \in Reader : rslot'[q] \notin available'
    <3> SUFFICES ASSUME NEW q \in Reader, q # r
                 PROVE  rslot[q] \notin available \cup {rslot[r]}
      BY <1>1, <2>1, <2>2
    <3>1. rslot[q] \notin available /\ rslot[q] # rslot[r]
      BY <1>2, AppAssumption DEF SlotInv, Partition
    <3>2. QED
      BY <3>1
  <2>4. \A p, q \in Reader : rslot'[p] = rslot'[q] /\ rslot'[p] # NoKey => p = q
    BY <2>1, <2>2 DEF SlotInv, Partition
  <2>5. \A u \in Slot \ available' : \E q \in Reader : rslot'[q] = u
    <3> SUFFICES ASSUME NEW u \in Slot, u \notin available'
                 PROVE  \E q \in Reader : rslot'[q] = u
      OBVIOUS
    <3>1. PICK q \in Reader : rslot[q] = u
      BY <1>1 DEF SlotInv, Partition
    <3>2. q # r
      BY <3>1, <1>1
    <3>3. QED
      BY <3>1, <3>2, <2>1
  <2>6. QED
    BY <2>3, <2>4, <2>5 DEF Partition
<1>5. QED
  BY <1>3, <1>4 DEF SlotInv

(* The steps in between move the thread and leave the slots where they are. *)
LEMMA ReadAndResetKeep ==
  ASSUME SlotInv, NEW r \in Reader, ReadSlot(r) \/ ResetLen(r)
  PROVE  SlotInv'
<1>1. /\ UNCHANGED <<available, rslot>>
      /\ rpc[r] # "idle"
      /\ \E label \in Busy : rpc' = [rpc EXCEPT ![r] = label]
  BY DEF ReadSlot, ResetLen, Goto, Busy
<1>2. Held'
  BY <1>1 DEF SlotInv, Held, Busy
<1>3. Partition'
  BY <1>1 DEF SlotInv, Partition
<1>4. QED
  BY <1>2, <1>3 DEF SlotInv

(* What the processes and their listeners do leaves the threads alone.      *)
LEMMA ProcessesKeep ==
  ASSUME SlotInv, UNCHANGED <<available, rpc, rslot>>
  PROVE  SlotInv'
  BY DEF SlotInv, Held, Partition

LEMMA SlotInvNext == SlotInv /\ [Next]_vars => SlotInv'
<1> SUFFICES ASSUME SlotInv, [Next]_vars
             PROVE  SlotInv'
  OBVIOUS
<1>1. ASSUME NEW r \in Reader, ReaderStep(r)
      PROVE  SlotInv'
  BY <1>1, ReadAndResetKeep, GiveSlotKeeps DEF ReaderStep
<1>2. ASSUME NEW r \in Reader, NEW k \in Key, TakeSlot(r, k)
      PROVE  SlotInv'
  BY <1>2, TakeSlotKeeps
<1>3. ASSUME NEW p \in Proc,
             \/ Serve(p) \/ WriteLen(p) \/ SendFails(p)
             \/ Expire(p) \/ ConnectionLost(p) \/ ScanDisturbed(p)
      PROVE  SlotInv'
  BY <1>3, ProcessesKeep
     DEF Serve, WriteLen, SendFails, Expire, ConnectionLost, Report, ScanDisturbed, readerVars
<1>4. ASSUME NEW p \in Proc, NEW i \in DOMAIN pending[p], Answer(p, i)
      PROVE  SlotInv'
  BY <1>4, ProcessesKeep DEF Answer, WritePayload, WriteError, readerVars
<1>5. CASE UNCHANGED vars
  BY <1>5, ProcessesKeep DEF vars, readerVars
<1>6. QED
  BY <1>1, <1>2, <1>3, <1>4, <1>5 DEF Next

(* Each slot is at any time available or in the hands of exactly one        *)
(* request (app.py:106, "grab an availabe slot atomically", and the finally  *)
(* clauses of get and getsmart).                                            *)
THEOREM SlotsAreOwnedOnce == Spec => []SlotsOwnedOnce
<1>1. SlotInv => SlotsOwnedOnce
  BY AppAssumption DEF SlotInv, Held, Partition, SlotsOwnedOnce
<1>2. QED
  BY <1>1, SlotInvInit, SlotInvNext, PTL DEF Spec

-----------------------------------------------------------------------------
(* A process knows a slot to fall back on once it has issued a command, and *)
(* the command it issued first is never one that its client has given up.   *)
Fallback ==
  \A p \in Proc : /\ pending[p] # <<>> => delegate[p] \in Slot
                  /\ \A i \in DOMAIN pending[p] : pending[p][i].first => pending[p][i].slot \in Slot

(* A lost connection has been reported.                                     *)
CutReported == \A p \in Proc : listener[p] = "cut" => reported > 0

AppTypes == TypeOK /\ Fallback /\ CutReported /\ SlotInv

(* What the answers for the slots owe to their requests, as long as no      *)
(* client has reported an error of its own.  An answer for slot s with the  *)
(* value of k is due:                                                       *)
Awaits(k, s) ==
  /\ s \in Slot /\ len[s] = Unset
  /\ \E r \in Reader : rpc[r] = "poll" /\ rkey[r] = k /\ rslot[r] = s

(* ... whatever is under way was asked for, by a thread that still polls,   *)
Wanted ==
  /\ \A i \in DOMAIN requests : Awaits(requests[i].key, requests[i].slot)
  /\ \A p \in Proc : \A i \in DOMAIN pending[p] : Awaits(pending[p][i].key, pending[p][i].slot)
  /\ \A p \in Proc : writing[p] # Nothing =>
       Awaits(writing[p].key, writing[p].slot) /\ payload[writing[p].slot] = writing[p].key

Names(q, s) == \E i \in DOMAIN q : q[i].slot = s
Distinct(q) == \A i, j \in DOMAIN q : q[i].slot = q[j].slot => i = j

(* ... and no slot has two answers under way: queued, at a drive or being   *)
(* written,                                                                 *)
OneAnswer ==
  /\ Distinct(requests)
  /\ \A p \in Proc : Distinct(pending[p])
  /\ \A s \in Slot, p \in Proc : Names(requests, s) => ~Names(pending[p], s) /\ writing[p].slot # s
  /\ \A s \in Slot, p, q \in Proc : Names(pending[p], s) => writing[q].slot # s
  /\ \A s \in Slot, p, q \in Proc : Names(pending[p], s) /\ Names(pending[q], s) => p = q
  /\ \A s \in Slot, p, q \in Proc : writing[p].slot = s /\ writing[q].slot = s => p = q

(* ... each thread finds its own value in the slot it was given,            *)
ReadersRight ==
  \A r \in Reader :
    /\ rpc[r] \in {"idle", "poll"} => reply[r] = NoKey
    /\ reply[r] \in {NoKey, rkey[r]}
    /\ rpc[r] = "poll" /\ len[rslot[r]] = Filled => payload[rslot[r]] = rkey[r]
    /\ rpc[r] = "add" => len[rslot[r]] = Unset

(* ... and leaves it unset.                                                 *)
FreeUnset == \A s \in available : len[s] = Unset

-----------------------------------------------------------------------------
(* Sequences of requests: what is left when one is taken out or added.      *)
LEMMA RemoveAtFacts ==
  ASSUME NEW S, NEW s \in Seq(S), NEW i \in DOMAIN s
  PROVE  /\ RemoveAt(s, i) \in Seq(S)
         /\ \A j \in DOMAIN RemoveAt(s, i) :
              /\ (IF j < i THEN j ELSE j + 1) \in DOMAIN s \ {i}
              /\ RemoveAt(s, i)[j] = s[IF j < i THEN j ELSE j + 1]
<1> DEFINE a == SubSeq(s, 1, i - 1)
           b == SubSeq(s, i + 1, Len(s))
<1>1. i \in 1 .. Len(s) /\ Len(s) \in Nat
  OBVIOUS
<1>2. a \in Seq(S) /\ Len(a) = i - 1 /\ \A j \in 1 .. i - 1 : a[j] = s[j]
  BY <1>1
<1>3. b \in Seq(S) /\ Len(b) = Len(s) - i /\ \A j \in 1 .. Len(s) - i : b[j] = s[i + j]
  BY <1>1
<1> HIDE DEF a, b
<1>4. a \o b \in Seq(S) /\ DOMAIN (a \o b) = 1 .. Len(s) - 1
  BY <1>1, <1>2, <1>3
<1>5. ASSUME NEW j \in 1 .. Len(s) - 1
      PROVE  (a \o b)[j] = s[IF j < i THEN j ELSE j + 1]
  <2>1. CASE j < i
    BY <1>1, <1>2, <1>3, <1>5, <2>1
  <2>2. CASE ~(j < i)
    <3>1. j - (i - 1) \in 1 .. Len(s) - i /\ i + (j - (i - 1)) = j + 1
      BY <1>1, <1>5, <2>2
    <3>2. (a \o b)[j] = b[j - (i - 1)]
      <4>1. j \in 1 .. Len(a) + Len(b) /\ ~(j <= Len(a)) /\ Len(a) = i - 1
        BY <1>1, <1>2, <1>3, <1>5, <2>2
      <4> QED BY <1>2, <1>3, <4>1, ConcatProperties
    <3> QED BY <1>3, <2>2, <3>1, <3>2
  <2> QED BY <2>1, <2>2
<1>6. \A j \in 1 .. Len(s) - 1 : (IF j < i THEN j ELSE j + 1) \in DOMAIN s \ {i}
  BY <1>1
<1>7. RemoveAt(s, i) = a \o b
  BY DEF RemoveAt, a, b
<1> QED BY <1>4, <1>5, <1>6, <1>7

(* An answer leaves the table: the others stay, and its slot is in it no    *)
(* more.                                                                    *)
LEMMA WithoutOne ==
  ASSUME NEW S, NEW s \in Seq(S), NEW i \in DOMAIN s, Distinct(s)
  PROVE  /\ \A j \in DOMAIN RemoveAt(s, i) : \E l \in DOMAIN s : RemoveAt(s, i)[j] = s[l]
         /\ Distinct(RemoveAt(s, i))
         /\ ~Names(RemoveAt(s, i), s[i].slot)
         /\ \A u : Names(RemoveAt(s, i), u) => Names(s, u)
<1> DEFINE skip(j) == IF j < i THEN j ELSE j + 1
           t == RemoveAt(s, i)
<1>1. t \in Seq(S) /\ \A j \in DOMAIN t : skip(j) \in DOMAIN s \ {i} /\ t[j] = s[skip(j)]
  BY RemoveAtFacts
<1>2. DOMAIN t \subseteq Int /\ i \in Int
  BY <1>1
<1>3. \A j, l \in DOMAIN t : skip(j) = skip(l) => j = l
  BY <1>2
<1> HIDE DEF skip, t
<1>4. Distinct(t)
  BY <1>1, <1>3 DEF Distinct
<1>5. ~Names(t, s[i].slot)
  BY <1>1 DEF Distinct, Names
<1>6. \A u : Names(t, u) => Names(s, u)
  BY <1>1 DEF Names
<1> QED BY <1>1, <1>4, <1>5, <1>6 DEF t

LEMMA WithoutFirst ==
  ASSUME NEW S, NEW s \in Seq(S), s # <<>>, Distinct(s)
  PROVE  /\ Head(s) = s[1] /\ 1 \in DOMAIN s
         /\ \A j \in DOMAIN Tail(s) : \E l \in DOMAIN s : Tail(s)[j] = s[l]
         /\ Distinct(Tail(s))
         /\ ~Names(Tail(s), Head(s).slot)
         /\ \A u : Names(Tail(s), u) => Names(s, u)
<1> DEFINE t == Tail(s)
<1>1. Head(s) = s[1] /\ 1 \in DOMAIN s
  OBVIOUS
<1>2. /\ t \in Seq(S) /\ DOMAIN t \subseteq Int
      /\ \A j \in DOMAIN t : j + 1 \in DOMAIN s /\ j + 1 # 1 /\ t[j] = s[j + 1]
  OBVIOUS
<1> HIDE DEF t
<1>3. \A j, l \in DOMAIN t : j + 1 = l + 1 => j = l
  BY <1>2
<1>4. Distinct(t)
  BY <1>2, <1>3 DEF Distinct
<1>5. ~Names(t, Head(s).slot)
  BY <1>1, <1>2 DEF Distinct, Names
<1>6. \A u : Names(t, u) => Names(s, u)
  BY <1>2 DEF Names
<1> QED BY <1>1, <1>2, <1>4, <1>5, <1>6 DEF t

LEMMA WithOneMore ==
  ASSUME NEW S, NEW s \in Seq(S), NEW e \in S, Distinct(s), ~Names(s, e.slot)
  PROVE  /\ \A j \in DOMAIN Append(s, e) : Append(s, e)[j] = e \/ \E l \in DOMAIN s : Append(s, e)[j] = s[l]
         /\ Distinct(Append(s, e))
         /\ \A u : Names(Append(s, e), u) => u = e.slot \/ Names(s, u)
<1> DEFINE t == Append(s, e)
           n == Len(s) + 1
<1>1. t[n] = e /\ \A j \in DOMAIN t : j = n \/ (j \in DOMAIN s /\ t[j] = s[j])
  OBVIOUS
<1> HIDE DEF t, n
<1>2. Distinct(t)
  BY <1>1 DEF Distinct, Names
<1>3. \A u : Names(t, u) => u = e.slot \/ Names(s, u)
  BY <1>1 DEF Names
<1> QED BY <1>1, <1>2, <1>3 DEF t

-----------------------------------------------------------------------------
(* Types.                                                                   *)
Command == [key : Key, slot : Slot \cup {NoKey}, first : BOOLEAN]

LEMMA AppTypesInit == Init => AppTypes
<1> SUFFICES ASSUME Init PROVE AppTypes
  OBVIOUS
<1>1. TypeOK
  BY AppAssumption DEF Init, TypeOK, Unset, Unsuccessful, Filled
<1>2. Fallback /\ CutReported
  BY DEF Init, Fallback, CutReported
<1> QED BY <1>1, <1>2, SlotInvInit DEF AppTypes

LEMMA ReaderTypes ==
  ASSUME AppTypes, NEW r \in Reader, ReaderStep(r)
  PROVE  TypeOK' /\ Fallback'
<1>1. UNCHANGED <<reported, payload, requests, procVars>>
  BY DEF ReaderStep, ReadSlot, ResetLen, GiveSlot
<1>2. TypeOK /\ Fallback /\ (rpc[r] # "idle" => rslot[r] \in Slot)
  BY DEF AppTypes, SlotInv, Held
<1>3. Fallback'
  BY <1>1, <1>2 DEF Fallback, procVars
<1>4. CASE ReadSlot(r)
  <2>1. /\ UNCHANGED <<available, len, rkey, rslot>>
        /\ rpc' = [rpc EXCEPT ![r] = "reset"]
        /\ \E k \in Key \cup {NoKey} : reply' = [reply EXCEPT ![r] = k]
    BY <1>2, <1>4 DEF ReadSlot, Goto, TypeOK
  <2>2. TypeOK'
    BY <1>1, <1>2, <2>1 DEF TypeOK, procVars
  <2> QED BY <1>3, <2>2
<1>5. CASE ResetLen(r)
  <2>1. /\ UNCHANGED <<available, reply, rkey, rslot>>
        /\ rpc' = [rpc EXCEPT ![r] = "add"]
        /\ len' = [len EXCEPT ![rslot[r]] = Unset]
    BY <1>2, <1>5 DEF ResetLen, Goto
  <2>2. TypeOK'
    BY <1>1, <1>2, <2>1 DEF TypeOK, procVars
  <2> QED BY <1>3, <2>2
<1>6. CASE GiveSlot(r)
  <2>1. /\ rslot[r] \in Slot
        /\ available' = available \cup {rslot[r]}
        /\ rslot' = [rslot EXCEPT ![r] = NoKey]
        /\ rkey' = [rkey EXCEPT ![r] = NoKey] /\ reply' = [reply EXCEPT ![r] = NoKey]
        /\ rpc' = [rpc EXCEPT ![r] = "idle"] /\ len' = len
    BY <1>2, <1>6 DEF GiveSlot, Goto
  <2>2. TypeOK'
    BY <1>1, <1>2, <2>1 DEF TypeOK, procVars
  <2> QED BY <1>3, <2>2
<1> QED BY <1>4, <1>5, <1>6 DEF ReaderStep

LEMMA TakeSlotTypes ==
  ASSUME AppTypes, NEW r \in Reader, NEW k \in Key, TakeSlot(r, k)
  PROVE  TypeOK' /\ Fallback'
<1>1. PICK s \in available : /\ available' = available \ {s}
                             /\ rslot' = [rslot EXCEPT ![r] = s]
                             /\ requests' = Append(requests, [key |-> k, slot |-> s])
  BY DEF TakeSlot
<1>2. /\ rkey' = [rkey EXCEPT ![r] = k] /\ rpc' = [rpc EXCEPT ![r] = "poll"]
      /\ UNCHANGED <<reported, len, payload, reply, procVars>>
  BY DEF TakeSlot, Goto
<1>3. TypeOK /\ Fallback
  BY DEF AppTypes
<1>4. requests \in Seq(Request) /\ [key |-> k, slot |-> s] \in Request
  BY <1>3 DEF TypeOK, Request
<1>5. requests' \in Seq(Request)
  BY <1>1, <1>4
<1>6. TypeOK'
  BY <1>1, <1>2, <1>3, <1>5 DEF TypeOK, procVars
<1> QED BY <1>2, <1>3, <1>6 DEF Fallback, procVars

LEMMA ServeTypes ==
  ASSUME AppTypes, NEW p \in Proc, Serve(p)
  PROVE  TypeOK' /\ Fallback'
<1> DEFINE h == Head(requests)
           c == [key |-> h.key, slot |-> h.slot, first |-> fresh[p]]
<1>1. /\ requests # <<>> /\ requests' = Tail(requests)
      /\ delegate' = [delegate EXCEPT ![p] = h.slot]
      /\ pending' = [pending EXCEPT ![p] = Append(@, c)]
      /\ fresh' = [fresh EXCEPT ![p] = FALSE]
      /\ UNCHANGED <<reported, available, len, payload, readerVars, writing, listener>>
  BY DEF Serve
<1>2. TypeOK /\ Fallback
  BY DEF AppTypes
<1>3. h \in Request /\ requests' \in Seq(Request)
  BY <1>1, <1>2 DEF TypeOK
<1>4. c \in Command /\ h.slot \in Slot
  BY <1>2, <1>3 DEF Command, Request, TypeOK
<1>5. pending \in [Proc -> Seq(Command)]
  BY <1>2 DEF TypeOK, Command
<1> HIDE DEF c, h
<1>6. pending' \in [Proc -> Seq(Command)]
  BY <1>1, <1>4, <1>5
<1>7. TypeOK'
  BY <1>1, <1>2, <1>3, <1>4, <1>6 DEF TypeOK, Command, readerVars
<1>8. ASSUME NEW q \in Proc
      PROVE  /\ pending'[q] # <<>> => delegate'[q] \in Slot
             /\ \A i \in DOMAIN pending'[q] : pending'[q][i].first => pending'[q][i].slot \in Slot
  <2>1. CASE q = p
    <3>1. delegate'[p] \in Slot
      BY <1>1, <1>2, <1>4 DEF TypeOK
    <3>2. pending'[p] = Append(pending[p], c) /\ pending[p] \in Seq(Command)
      BY <1>1, <1>5
    <3>3. \A i \in DOMAIN pending'[p] : pending'[p][i] = c \/ (i \in DOMAIN pending[p] /\ pending'[p][i] = pending[p][i])
      BY <3>2, <1>4
    <3>4. c.slot \in Slot
      BY <1>4 DEF c
    <3> QED BY <2>1, <3>1, <3>3, <3>4, <1>2 DEF Fallback
  <2>2. CASE q # p
    BY <2>2, <1>1, <1>2, <1>5 DEF Fallback, TypeOK
  <2> QED BY <2>1, <2>2
<1> QED BY <1>7, <1>8 DEF Fallback

(* A command is answered; where the answer goes is a slot.                  *)
LEMMA AnswerTypes ==
  ASSUME AppTypes, NEW p \in Proc, NEW i \in DOMAIN pending[p], Answer(p, i)
  PROVE  TypeOK' /\ Fallback'
<1> DEFINE c == pending[p][i]
<1>1. /\ pending' = [pending EXCEPT ![p] = RemoveAt(pending[p], i)]
      /\ UNCHANGED <<reported, available, requests, readerVars, fresh, delegate, listener>>
  BY DEF Answer, WritePayload, WriteError
<1>2. TypeOK /\ Fallback /\ pending \in [Proc -> Seq(Command)]
  BY DEF AppTypes, TypeOK, Command
<1>3. c \in Command /\ pending[p] # <<>> /\ pending[p] \in Seq(Command)
  BY <1>2
<1>4. Target(p, c) \in Slot /\ c.key \in Key
  BY <1>2, <1>3 DEF Target, Fallback, Command
<1>5. RemoveAt(pending[p], i) \in Seq(Command)
  BY <1>3, RemoveAtFacts
<1>6. pending' \in [Proc -> Seq(Command)]
  BY <1>1, <1>2, <1>5
<1>7. Fallback'
  <2>1. ASSUME NEW q \in Proc
        PROVE  /\ pending'[q] # <<>> => delegate[q] \in Slot
               /\ \A j \in DOMAIN pending'[q] : pending'[q][j].first => pending'[q][j].slot \in Slot
    <3>1. CASE q = p
      <4>1. pending'[p] = RemoveAt(pending[p], i)
        BY <1>1, <1>2
      <4>2. \A j \in DOMAIN RemoveAt(pending[p], i) : \E l \in DOMAIN pending[p] : RemoveAt(pending[p], i)[j] = pending[p][l]
        BY <1>3, RemoveAtFacts
      <4> QED BY <3>1, <4>1, <4>2, <1>2, <1>3 DEF Fallback
    <3>2. CASE q # p
      BY <3>2, <1>1, <1>2 DEF Fallback
    <3> QED BY <3>1, <3>2
  <2> QED BY <1>1, <2>1 DEF Fallback
<1>8. CASE WritePayload(p, i)
  <2>1. /\ payload' = [payload EXCEPT ![Target(p, c)] = c.key]
        /\ writing' = [writing EXCEPT ![p] = [key |-> c.key, slot |-> Target(p, c)]]
        /\ len' = len
    BY <1>8 DEF WritePayload
  <2>2. [key |-> c.key, slot |-> Target(p, c)] \in Request
    BY <1>4 DEF Request
  <2> HIDE DEF c
  <2>3. payload' \in [Slot -> Key \cup {NoKey}] /\ writing' \in [Proc -> Request \cup {Nothing}]
    BY <2>1, <2>2, <1>2, <1>4 DEF TypeOK
  <2>4. TypeOK'
    BY <2>1, <2>3, <1>1, <1>2, <1>6 DEF TypeOK, Command, readerVars
  <2> QED BY <1>7, <2>4
<1>9. CASE WriteError(p, i)
  <2>1. /\ len' = [len EXCEPT ![Target(p, c)] = Unsuccessful]
        /\ UNCHANGED <<payload, writing>>
    BY <1>9 DEF WriteError
  <2>2. TypeOK'
    BY <2>1, <1>1, <1>2, <1>6 DEF TypeOK, Command, readerVars
  <2> QED BY <1>7, <2>2
<1> QED BY <1>8, <1>9 DEF Answer

LEMMA WriteLenTypes ==
  ASSUME AppTypes, NEW p \in Proc, WriteLen(p)
  PROVE  TypeOK' /\ Fallback'
<1>1. /\ len' = [len EXCEPT ![writing[p].slot] = Filled]
      /\ writing' = [writing EXCEPT ![p] = Nothing]
      /\ UNCHANGED <<reported, available, payload, requests, readerVars, pending, fresh, delegate, listener>>
  BY DEF WriteLen
<1>2. TypeOK /\ Fallback
  BY DEF AppTypes
<1>3. TypeOK'
  BY <1>1, <1>2 DEF TypeOK, readerVars
<1> QED BY <1>1, <1>2, <1>3 DEF Fallback

(* An error report: the command issued first loses its slot, or nothing     *)
(* changes but a len.                                                       *)
LEMMA ReportTypes ==
  ASSUME AppTypes, NEW p \in Proc, Expire(p) \/ ConnectionLost(p)
  PROVE  TypeOK' /\ Fallback'
<1>1. /\ reported < MaxReported /\ reported' = reported + 1
      /\ UNCHANGED <<available, payload, requests, readerVars, fresh, delegate, writing>>
      /\ len' = len \/ \E s : len' = [len EXCEPT ![s] = Unsuccessful]
      /\ listener' = listener \/ listener' = [listener EXCEPT ![p] = "cut"]
      /\ \/ pending' = pending
         \/ \E i \in DOMAIN pending[p] :
              pending' = [pending EXCEPT ![p][i] = [key |-> @.key, slot |-> NoKey, first |-> FALSE]]
  BY DEF Expire, ConnectionLost, Report
<1>2. TypeOK /\ Fallback /\ pending \in [Proc -> Seq(Command)]
  BY DEF AppTypes, TypeOK, Command
<1>3. reported' \in 0 .. MaxReported /\ reported' > 0
  BY <1>1, <1>2, AppAssumption DEF TypeOK
<1>4. len' \in [Slot -> {Unset, Unsuccessful, Filled}]
  BY <1>1, <1>2 DEF TypeOK
<1>5. ASSUME NEW i \in DOMAIN pending[p],
             pending' = [pending EXCEPT ![p][i] = [key |-> @.key, slot |-> NoKey, first |-> FALSE]]
      PROVE  pending' \in [Proc -> Seq(Command)] /\ Fallback'
  <2> DEFINE e == [key |-> pending[p][i].key, slot |-> NoKey, first |-> FALSE]
  <2>1. pending[p] \in Seq(Command) /\ pending[p] # <<>> /\ pending[p][i] \in Command
    BY <1>2
  <2>2. e \in Command /\ e.first = FALSE
    BY <2>1 DEF Command
  <2>3. pending' = [pending EXCEPT ![p] = [pending[p] EXCEPT ![i] = e]]
    BY <1>5
  <2> HIDE DEF e
  <2>4. [pending[p] EXCEPT ![i] = e] \in Seq(Command)
    BY <2>1, <2>2
  <2>5. pending' \in [Proc -> Seq(Command)]
    BY <2>3, <2>4, <1>2
  <2>6. ASSUME NEW q \in Proc
        PROVE  /\ pending'[q] # <<>> => delegate[q] \in Slot
               /\ \A j \in DOMAIN pending'[q] : pending'[q][j].first => pending'[q][j].slot \in Slot
    <3>1. CASE q = p
      <4>1. pending'[p] = [pending[p] EXCEPT ![i] = e]
        BY <2>3, <1>2
      <4>2. \A j \in DOMAIN pending'[p] : j \in DOMAIN pending[p] /\ pending'[p][j] = IF j = i THEN e ELSE pending[p][j]
        BY <4>1, <2>1
      <4> QED BY <3>1, <4>2, <1>2, <2>1, <2>2 DEF Fallback
    <3>2. CASE q # p
      BY <3>2, <2>3, <1>2 DEF Fallback
    <3> QED BY <3>1, <3>2
  <2> QED BY <1>1, <2>5, <2>6 DEF Fallback
<1>6. pending' \in [Proc -> Seq(Command)] /\ Fallback'
  BY <1>1, <1>2, <1>5 DEF Fallback
<1>7. TypeOK'
  BY <1>1, <1>2, <1>3, <1>4, <1>6 DEF TypeOK, Command, readerVars
<1> QED BY <1>6, <1>7

(* The listener's end, and a request that is not sent.                      *)
LEMMA DeafTypes ==
  ASSUME AppTypes, NEW p \in Proc, ScanDisturbed(p) \/ SendFails(p)
  PROVE  TypeOK' /\ Fallback'
<1>1. TypeOK /\ Fallback
  BY DEF AppTypes
<1>2. CASE ScanDisturbed(p)
  <2>1. /\ listener' = [listener EXCEPT ![p] = "dead"]
        /\ UNCHANGED <<reported, available, len, payload, requests, readerVars, pending, fresh, delegate, writing>>
    BY <1>2 DEF ScanDisturbed
  <2> QED BY <1>1, <2>1 DEF TypeOK, Fallback, readerVars
<1>3. CASE SendFails(p)
  <2> DEFINE h == Head(requests)
  <2>1. /\ requests # <<>> /\ requests' = Tail(requests)
        /\ delegate' = [delegate EXCEPT ![p] = h.slot]
        /\ len' = [len EXCEPT ![h.slot] = Unsuccessful]
        /\ fresh' = [fresh EXCEPT ![p] = FALSE]
        /\ UNCHANGED <<reported, available, payload, readerVars, pending, writing, listener>>
    BY <1>3 DEF SendFails
  <2>2. requests' \in Seq(Request) /\ h.slot \in Slot
    <3>1. h \in Request /\ requests' \in Seq(Request)
      BY <1>1, <2>1 DEF TypeOK
    <3> QED BY <3>1 DEF Request
  <2> HIDE DEF h
  <2>3. TypeOK'
    BY <1>1, <2>1, <2>2 DEF TypeOK, readerVars
  <2>4. Fallback'
    BY <1>1, <2>1, <2>2 DEF TypeOK, Fallback
  <2> QED BY <2>3, <2>4
<1> QED BY <1>2, <1>3

LEMMA CutNext ==
  ASSUME AppTypes, [Next]_vars
  PROVE  CutReported'
<1>1. /\ reported \in Nat /\ listener \in [Proc -> {"up", "dead", "cut"}]
      /\ \A p \in Proc : listener[p] = "cut" => reported > 0
  BY AppAssumption DEF AppTypes, TypeOK, CutReported
<1>2. ASSUME NEW p \in Proc, Expire(p) \/ ConnectionLost(p) PROVE CutReported'
  BY <1>1, <1>2 DEF Expire, ConnectionLost, Report, CutReported
<1>3. ASSUME NEW p \in Proc, ScanDisturbed(p) PROVE CutReported'
  BY <1>1, <1>3 DEF ScanDisturbed, CutReported
<1>4. ASSUME UNCHANGED <<reported, listener>> PROVE CutReported'
  BY <1>1, <1>4 DEF CutReported
<1>5. ASSUME NEW r \in Reader, ReaderStep(r) \/ \E k \in Key : TakeSlot(r, k) PROVE CutReported'
  BY <1>4, <1>5 DEF ReaderStep, ReadSlot, ResetLen, GiveSlot, TakeSlot, procVars
<1>6. ASSUME NEW p \in Proc,
             \/ Serve(p) \/ WriteLen(p) \/ SendFails(p)
             \/ \E i \in DOMAIN pending[p] : Answer(p, i)
      PROVE  CutReported'
  BY <1>4, <1>6 DEF Serve, WriteLen, SendFails, Answer, WritePayload, WriteError
<1> QED BY <1>2, <1>3, <1>4, <1>5, <1>6 DEF Next, vars, procVars

LEMMA AppTypesNext == AppTypes /\ [Next]_vars => AppTypes'
<1> SUFFICES ASSUME AppTypes, [Next]_vars PROVE TypeOK' /\ Fallback'
  BY SlotInvNext, CutNext DEF AppTypes
<1>1. CASE UNCHANGED vars
  BY <1>1 DEF AppTypes, TypeOK, Fallback, vars, readerVars, procVars
<1> QED
  BY <1>1, ReaderTypes, TakeSlotTypes, ServeTypes, AnswerTypes, WriteLenTypes, ReportTypes, DeafTypes DEF Next

LEMMA AppTypesInvariant == Spec => []AppTypes
  BY AppTypesInit, AppTypesNext, PTL DEF Spec

(* Whatever a process does, expired commands included, it writes to slots   *)
(* of the web application's pool, and every value is of its type.           *)
THEOREM TypesKept == Spec => []TypeOK
<1>1. AppTypes => TypeOK
  BY DEF AppTypes
<1> QED BY <1>1, AppTypesInvariant, PTL

-----------------------------------------------------------------------------
(* Answers.                                                                 *)
Right == Wanted /\ OneAnswer /\ ReadersRight /\ FreeUnset

LEMMA RightInit == Init => Right
<1> SUFFICES ASSUME Init PROVE Right
  OBVIOUS
<1>1. /\ requests = <<>> /\ \A p \in Proc : pending[p] = <<>> /\ writing[p] = Nothing
      /\ \A r \in Reader : rpc[r] = "idle" /\ reply[r] = NoKey
      /\ \A s \in Slot : len[s] = Unset
      /\ available = Slot
  BY DEF Init
<1>2. Wanted
  BY <1>1 DEF Wanted
<1>3. OneAnswer
  BY <1>1, AppAssumption DEF OneAnswer, Distinct, Names, Nothing
<1>4. ReadersRight
  BY <1>1 DEF ReadersRight
<1> QED BY <1>1, <1>2, <1>3, <1>4 DEF Right, FreeUnset

(* A thread's own steps never take the request of another one's away.       *)
LEMMA ReaderRight ==
  ASSUME AppTypes, Right, NEW r \in Reader, ReaderStep(r)
  PROVE  Right'
<1>1. /\ UNCHANGED <<reported, payload, requests, pending, writing>>
      /\ \E label \in {"reset", "add", "idle"} : rpc' = [rpc EXCEPT ![r] = label]
      /\ rpc[r] = "poll" => len[rslot[r]] # Unset
      /\ rpc[r] # "idle"
      /\ len' = len \/ len' = [len EXCEPT ![rslot[r]] = Unset]
      /\ rkey' = rkey \/ rkey' = [rkey EXCEPT ![r] = NoKey]
      /\ rslot' = rslot \/ rslot' = [rslot EXCEPT ![r] = NoKey]
  BY DEF ReaderStep, ReadSlot, ResetLen, GiveSlot, Goto, procVars
<1>2. /\ rpc \in [Reader -> {"idle", "poll", "reset", "add"}]
      /\ rkey \in [Reader -> Key \cup {NoKey}]
      /\ rslot \in [Reader -> Slot \cup {NoKey}]
      /\ reply \in [Reader -> Key \cup {NoKey}]
      /\ len \in [Slot -> {Unset, Unsuccessful, Filled}]
  BY DEF AppTypes, TypeOK
<1>3. \A q \in Reader : rpc[q] # "idle" => rslot[q] \in Slot /\ rslot[q] # NoKey
  BY AppAssumption DEF AppTypes, SlotInv, Held
<1>4. \A q \in Reader : q # r /\ rpc[q] # "idle" => rslot[q] # rslot[r]
  BY <1>3 DEF AppTypes, SlotInv, Partition
<1>5. \A q \in Reader \ {r} : rpc'[q] = rpc[q] /\ rkey'[q] = rkey[q] /\ rslot'[q] = rslot[q]
  BY <1>1, <1>2
<1>6. \A s \in Slot : s # rslot[r] => len'[s] = len[s]
  BY <1>1, <1>2
<1>7. ASSUME NEW k, NEW s, Awaits(k, s)
      PROVE  Awaits(k, s)'
  <2>1. PICK q \in Reader : rpc[q] = "poll" /\ rkey[q] = k /\ rslot[q] = s
    BY <1>7 DEF Awaits
  <2>2. q # r /\ s \in Slot /\ len[s] = Unset
    BY <1>1, <1>7, <2>1 DEF Awaits
  <2>3. len'[s] = len[s]
    BY <1>4, <1>6, <2>1, <2>2
  <2> QED BY <1>5, <2>1, <2>2, <2>3 DEF Awaits
<1>8. Wanted'
  BY <1>1, <1>7 DEF Right, Wanted
<1>9. OneAnswer'
  BY <1>1 DEF Right, OneAnswer
<1>10. \A q \in Reader \ {r} : reply'[q] = reply[q]
  BY <1>2 DEF ReaderStep, ReadSlot, ResetLen, GiveSlot
<1>11. ASSUME NEW q \in Reader \ {r}
       PROVE  /\ rpc'[q] \in {"idle", "poll"} => reply'[q] = NoKey
              /\ reply'[q] \in {NoKey, rkey'[q]}
              /\ rpc'[q] = "poll" /\ len'[rslot'[q]] = Filled => payload'[rslot'[q]] = rkey'[q]
              /\ rpc'[q] = "add" => len'[rslot'[q]] = Unset
  <2>1. rpc[q] # "idle" => len'[rslot[q]] = len[rslot[q]]
    BY <1>3, <1>4, <1>6
  <2> QED BY <1>1, <1>5, <1>10, <2>1 DEF Right, ReadersRight
<1>12. CASE ReadSlot(r)
  <2>1. /\ rpc[r] = "poll" /\ len[rslot[r]] # Unset
        /\ UNCHANGED <<available, len, payload, rkey, rslot>>
        /\ rpc' = [rpc EXCEPT ![r] = "reset"]
        /\ reply' = [reply EXCEPT ![r] =
                 IF len[rslot[r]] = Unsuccessful THEN NoKey ELSE payload[rslot[r]]]
    BY <1>12 DEF ReadSlot, Goto
  <2>2. len[rslot[r]] \in {Unset, Unsuccessful, Filled}
    BY <1>2, <1>3, <2>1
  <2>3. len[rslot[r]] # Unsuccessful => payload[rslot[r]] = rkey[r]
    BY <2>1, <2>2 DEF Right, ReadersRight
  <2>4. reply'[r] \in {NoKey, rkey'[r]} /\ rpc'[r] = "reset"
    BY <1>2, <2>1, <2>3
  <2>5. ReadersRight'
    BY <1>11, <2>4 DEF ReadersRight
  <2> QED BY <1>8, <1>9, <2>1, <2>5 DEF Right, FreeUnset
<1>13. CASE ResetLen(r)
  <2>1. /\ rpc[r] = "reset"
        /\ UNCHANGED <<available, rkey, rslot, reply>>
        /\ rpc' = [rpc EXCEPT ![r] = "add"]
        /\ len' = [len EXCEPT ![rslot[r]] = Unset]
    BY <1>13 DEF ResetLen, Goto
  <2>2. rpc'[r] = "add" /\ len'[rslot[r]] = Unset
    BY <1>2, <1>3, <2>1
  <2>3. ReadersRight'
    BY <1>11, <2>1, <2>2 DEF Right, ReadersRight
  <2>4. FreeUnset'
    BY <1>2, <2>1 DEF Right, FreeUnset, AppTypes, TypeOK
  <2> QED BY <1>8, <1>9, <2>3, <2>4 DEF Right
<1>14. CASE GiveSlot(r)
  <2>1. /\ rpc[r] = "add" /\ len' = len
        /\ available' = available \cup {rslot[r]}
        /\ rpc' = [rpc EXCEPT ![r] = "idle"]
        /\ reply' = [reply EXCEPT ![r] = NoKey]
    BY <1>14 DEF GiveSlot, Goto
  <2>2. rpc'[r] = "idle" /\ reply'[r] = NoKey
    BY <1>2, <2>1
  <2>3. ReadersRight'
    BY <1>11, <2>2 DEF ReadersRight
  <2>4. FreeUnset'
    BY <2>1 DEF Right, FreeUnset, ReadersRight
  <2> QED BY <1>8, <1>9, <2>3, <2>4 DEF Right
<1> QED BY <1>12, <1>13, <1>14 DEF ReaderStep

(* A slot that is available is nobody's, so no answer for it is under way.  *)
LEMMA NoneUnderWay ==
  ASSUME AppTypes, Right, NEW s \in available
  PROVE  /\ s \in Slot /\ len[s] = Unset
         /\ ~Names(requests, s)
         /\ \A p \in Proc : ~Names(pending[p], s) /\ writing[p].slot # s
<1>1. s \in Slot /\ len[s] = Unset /\ \A q \in Reader : rslot[q] # s
  BY DEF AppTypes, TypeOK, SlotInv, Partition, Right, FreeUnset
<1>2. \A k : ~Awaits(k, s)
  BY <1>1 DEF Awaits
<1>3. ~Names(requests, s) /\ \A p \in Proc : ~Names(pending[p], s)
  BY <1>2 DEF Right, Wanted, Names
<1>4. ASSUME NEW p \in Proc PROVE writing[p].slot # s
  <2>1. Nothing.slot # s
    BY <1>1, AppAssumption DEF Nothing
  <2> QED BY <1>2, <2>1 DEF Right, Wanted
<1> QED BY <1>1, <1>3, <1>4

LEMMA TakeSlotRight ==
  ASSUME AppTypes, Right, NEW r \in Reader, NEW k \in Key, TakeSlot(r, k)
  PROVE  Right'
<1>1. PICK s \in available : /\ available' = available \ {s}
                             /\ rslot' = [rslot EXCEPT ![r] = s]
                             /\ requests' = Append(requests, [key |-> k, slot |-> s])
  BY DEF TakeSlot
<1> DEFINE e == [key |-> k, slot |-> s]
<1>2. /\ rpc[r] = "idle"
      /\ rkey' = [rkey EXCEPT ![r] = k] /\ rpc' = [rpc EXCEPT ![r] = "poll"]
      /\ UNCHANGED <<len, payload, reply, pending, writing>>
  BY DEF TakeSlot, Goto, procVars
<1>3. /\ rpc \in [Reader -> {"idle", "poll", "reset", "add"}]
      /\ rkey \in [Reader -> Key \cup {NoKey}]
      /\ rslot \in [Reader -> Slot \cup {NoKey}]
      /\ requests \in Seq(Request)
  BY DEF AppTypes, TypeOK
<1>4. /\ s \in Slot /\ len[s] = Unset
      /\ ~Names(requests, s)
      /\ \A p \in Proc : ~Names(pending[p], s) /\ writing[p].slot # s
  BY NoneUnderWay
<1>5. /\ rpc'[r] = "poll" /\ rkey'[r] = k /\ rslot'[r] = s
      /\ \A q \in Reader \ {r} : rpc'[q] = rpc[q] /\ rkey'[q] = rkey[q] /\ rslot'[q] = rslot[q]
  BY <1>1, <1>2, <1>3
<1>6. ASSUME NEW j, NEW u, Awaits(j, u)
      PROVE  Awaits(j, u)'
  <2>1. PICK q \in Reader : rpc[q] = "poll" /\ rkey[q] = j /\ rslot[q] = u
    BY <1>6 DEF Awaits
  <2> QED BY <1>2, <1>5, <1>6, <2>1 DEF Awaits
<1>7. Awaits(k, s)'
  BY <1>2, <1>4, <1>5 DEF Awaits
<1>8. e \in Request /\ e.slot = s /\ e.key = k
  BY <1>4 DEF Request
<1> HIDE DEF e
<1>9. /\ \A j \in DOMAIN requests' : requests'[j] = e \/ \E l \in DOMAIN requests : requests'[j] = requests[l]
      /\ Distinct(requests')
      /\ \A u : Names(requests', u) => u = s \/ Names(requests, u)
  <2>1. requests' = Append(requests, e)
    BY <1>1 DEF e
  <2>2. Distinct(requests)
    BY DEF Right, OneAnswer
  <2> QED BY <1>3, <1>4, <1>8, <2>1, <2>2, WithOneMore
<1>10. Wanted'
  <2>1. ASSUME NEW j \in DOMAIN requests'
        PROVE  /\ requests'[j].slot \in Slot /\ len'[requests'[j].slot] = Unset
               /\ \E q \in Reader : /\ rpc'[q] = "poll" /\ rkey'[q] = requests'[j].key
                                   /\ rslot'[q] = requests'[j].slot
    <3>1. CASE requests'[j] = e
      BY <3>1, <1>2, <1>4, <1>5, <1>8
    <3>2. CASE \E l \in DOMAIN requests : requests'[j] = requests[l]
      <4>1. PICK l \in DOMAIN requests : requests'[j] = requests[l]
        BY <3>2
      <4>2. Awaits(requests[l].key, requests[l].slot)
        BY DEF Right, Wanted
      <4>3. PICK x, u : x = requests[l].key /\ u = requests[l].slot /\ Awaits(x, u)
        BY <4>2
      <4>4. Awaits(x, u)'
        BY <1>6, <4>3
      <4> QED BY <4>1, <4>3, <4>4 DEF Awaits
    <3> QED BY <1>9, <3>1, <3>2
  <2>2. \A p \in Proc : \A j \in DOMAIN pending[p] : Awaits(pending[p][j].key, pending[p][j].slot)'
    BY <1>2, <1>6 DEF Right, Wanted
  <2>3. \A p \in Proc : writing[p] # Nothing =>
          Awaits(writing[p].key, writing[p].slot)' /\ payload[writing[p].slot] = writing[p].key
    BY <1>2, <1>6 DEF Right, Wanted
  <2>4. (\A j \in DOMAIN requests : Awaits(requests[j].key, requests[j].slot))'
    BY <2>1 DEF Awaits
  <2> QED BY <1>2, <2>2, <2>3, <2>4 DEF Wanted
<1>11. OneAnswer'
  BY <1>2, <1>4, <1>9 DEF Right, OneAnswer
<1>12. ReadersRight'
  <2>1. \A q \in Reader \ {r} : rpc[q] # "idle" => rslot'[q] = rslot[q]
    BY <1>5
  <2>2. reply'[r] = NoKey /\ len'[rslot'[r]] # Filled /\ rpc'[r] # "add"
    BY <1>2, <1>4, <1>5 DEF Right, ReadersRight, Unset, Filled
  <2>3. ASSUME NEW q \in Reader \ {r}
        PROVE  /\ rpc'[q] \in {"idle", "poll"} => reply'[q] = NoKey
               /\ reply'[q] \in {NoKey, rkey'[q]}
               /\ rpc'[q] = "poll" /\ len'[rslot'[q]] = Filled => payload'[rslot'[q]] = rkey'[q]
               /\ rpc'[q] = "add" => len'[rslot'[q]] = Unset
    BY <1>2, <1>5 DEF Right, ReadersRight
  <2> QED BY <2>2, <2>3 DEF ReadersRight
<1>13. FreeUnset'
  BY <1>1, <1>2 DEF Right, FreeUnset
<1> QED BY <1>10, <1>11, <1>12, <1>13 DEF Right

(* The threads do not move: what they wait for is still wanted as long as   *)
(* its slot is not answered.                                                *)
LEMMA AwaitsStays ==
  ASSUME UNCHANGED readerVars, NEW k, NEW s, Awaits(k, s), len'[s] = len[s]
  PROVE  Awaits(k, s)'
BY DEF Awaits, readerVars

(* No slot is polled by two threads.                                        *)
LEMMA OnePoller ==
  ASSUME AppTypes, NEW k, NEW s, Awaits(k, s), NEW r \in Reader, rslot[r] = s
  PROVE  s \in Slot /\ len[s] = Unset /\ rpc[r] = "poll" /\ rkey[r] = k
<1>1. PICK q \in Reader : rpc[q] = "poll" /\ rkey[q] = k /\ rslot[q] = s
  BY DEF Awaits
<1>2. s \in Slot /\ s # NoKey /\ len[s] = Unset
  BY AppAssumption DEF Awaits
<1>3. q = r
  BY <1>1, <1>2 DEF AppTypes, SlotInv, Partition
<1> QED BY <1>1, <1>2, <1>3

LEMMA ServeRight ==
  ASSUME AppTypes, Right, NEW p \in Proc, Serve(p)
  PROVE  Right'
<1> DEFINE h == Head(requests)
           c == [key |-> h.key, slot |-> h.slot, first |-> fresh[p]]
<1>1. /\ requests # <<>> /\ requests' = Tail(requests)
      /\ pending' = [pending EXCEPT ![p] = Append(@, c)]
      /\ UNCHANGED <<available, len, payload, readerVars, writing, listener>>
  BY DEF Serve
<1>2. /\ requests \in Seq(Request) /\ pending \in [Proc -> Seq(Command)]
      /\ fresh \in [Proc -> BOOLEAN]
  BY DEF AppTypes, TypeOK, Command
<1>3. /\ h = requests[1] /\ 1 \in DOMAIN requests
      /\ \A j \in DOMAIN requests' : \E l \in DOMAIN requests : requests'[j] = requests[l]
      /\ Distinct(requests')
      /\ ~Names(requests', h.slot)
      /\ \A u : Names(requests', u) => Names(requests, u)
  <2>1. Distinct(requests)
    BY DEF Right, OneAnswer
  <2> QED BY <1>1, <1>2, <2>1, WithoutFirst
<1>4. h \in Request /\ h.slot \in Slot /\ Names(requests, h.slot) /\ Awaits(h.key, h.slot)
  <2>1. h \in Request /\ h.slot \in Slot
    <3>1. requests[1] \in Request
      BY <1>2, <1>3
    <3> QED BY <1>3, <3>1 DEF Request
  <2>2. Awaits(requests[1].key, requests[1].slot)
    BY <1>3 DEF Right, Wanted
  <2>3. Names(requests, requests[1].slot)
    BY <1>3 DEF Names
  <2> QED BY <1>3, <2>1, <2>2, <2>3
<1>5. c \in Command /\ c.slot = h.slot /\ c.key = h.key
  BY <1>2, <1>4 DEF Command, Request
<1> HIDE DEF c, h
<1>6. \A q \in Proc : ~Names(pending[q], h.slot) /\ writing[q].slot # h.slot
  BY <1>4 DEF Right, OneAnswer
<1>7. /\ pending'[p] = Append(pending[p], c) /\ \A q \in Proc \ {p} : pending'[q] = pending[q]
      /\ \A j \in DOMAIN pending'[p] : pending'[p][j] = c \/ \E l \in DOMAIN pending[p] : pending'[p][j] = pending[p][l]
      /\ Distinct(pending'[p])
      /\ \A u : Names(pending'[p], u) => u = h.slot \/ Names(pending[p], u)
  <2>1. pending'[p] = Append(pending[p], c) /\ \A q \in Proc \ {p} : pending'[q] = pending[q]
    BY <1>1, <1>2
  <2>2. Distinct(pending[p]) /\ pending[p] \in Seq(Command) /\ ~Names(pending[p], c.slot)
    BY <1>2, <1>5, <1>6 DEF Right, OneAnswer
  <2> QED BY <1>5, <2>1, <2>2, WithOneMore
<1>8. \A k, s : Awaits(k, s) => Awaits(k, s)'
  BY <1>1, AwaitsStays
<1>9. Wanted'
  <2>1. \A j \in DOMAIN requests' : Awaits(requests'[j].key, requests'[j].slot)
    BY <1>3 DEF Right, Wanted
  <2>2. ASSUME NEW q \in Proc, NEW j \in DOMAIN pending'[q]
        PROVE  Awaits(pending'[q][j].key, pending'[q][j].slot)
    <3>1. CASE q = p
      BY <3>1, <1>4, <1>5, <1>7 DEF Right, Wanted
    <3>2. CASE q # p
      BY <3>2, <1>7 DEF Right, Wanted
    <3> QED BY <3>1, <3>2
  <2>3. \A q \in Proc : writing'[q] # Nothing =>
          Awaits(writing'[q].key, writing'[q].slot) /\ payload'[writing'[q].slot] = writing'[q].key
    BY <1>1 DEF Right, Wanted
  <2> QED BY <1>1, <2>1, <2>2, <2>3 DEF Wanted, Awaits, readerVars
<1>10. OneAnswer'
  <2>1. \A q \in Proc : Distinct(pending'[q])
    BY <1>7 DEF Right, OneAnswer
  <2>2. \A u : \A q \in Proc : Names(pending'[q], u) => (q = p /\ u = h.slot) \/ Names(pending[q], u)
    BY <1>7
  <2>3. \A s \in Slot, q \in Proc : Names(requests', s) => ~Names(pending'[q], s) /\ writing[q].slot # s
    BY <1>3, <2>2 DEF Right, OneAnswer
  <2>4. \A s \in Slot, a, b \in Proc : Names(pending'[a], s) => writing[b].slot # s
    BY <1>6, <2>2 DEF Right, OneAnswer
  <2>5. \A s \in Slot, a, b \in Proc : Names(pending'[a], s) /\ Names(pending'[b], s) => a = b
    BY <1>6, <2>2 DEF Right, OneAnswer
  <2> QED BY <1>1, <1>3, <2>1, <2>3, <2>4, <2>5 DEF Right, OneAnswer
<1>11. ReadersRight' /\ FreeUnset'
  BY <1>1 DEF Right, ReadersRight, FreeUnset, readerVars
<1> QED BY <1>9, <1>10, <1>11 DEF Right

(* An answer whose command is still the client's: it goes to the slot that  *)
(* the command was issued for, and to no other request's.                   *)
LEMMA AnswerRight ==
  ASSUME AppTypes, Right, NEW p \in Proc, NEW i \in DOMAIN pending[p], Answer(p, i)
  PROVE  Right'
<1> DEFINE c == pending[p][i]
<1>1. /\ writing[p] = Nothing
      /\ pending' = [pending EXCEPT ![p] = RemoveAt(pending[p], i)]
      /\ UNCHANGED <<available, requests, readerVars>>
  BY DEF Answer, WritePayload, WriteError
<1>2. /\ pending \in [Proc -> Seq(Command)] /\ pending[p] \in Seq(Command)
      /\ len \in [Slot -> {Unset, Unsuccessful, Filled}]
      /\ payload \in [Slot -> Key \cup {NoKey}]
      /\ writing \in [Proc -> Request \cup {Nothing}]
      /\ rslot \in [Reader -> Slot \cup {NoKey}]
  BY DEF AppTypes, TypeOK, Command
<1>3. Awaits(c.key, c.slot) /\ c.slot \in Slot /\ c.slot # NoKey /\ Names(pending[p], c.slot)
  BY AppAssumption DEF Right, Wanted, Awaits, Names
<1>4. Target(p, c) = c.slot
  BY <1>3 DEF Target
<1>5. /\ pending'[p] = RemoveAt(pending[p], i) /\ \A q \in Proc \ {p} : pending'[q] = pending[q]
      /\ \A j \in DOMAIN pending'[p] : \E l \in DOMAIN pending[p] : pending'[p][j] = pending[p][l]
      /\ Distinct(pending'[p])
      /\ ~Names(pending'[p], c.slot)
      /\ \A u : Names(pending'[p], u) => Names(pending[p], u)
  <2>1. pending'[p] = RemoveAt(pending[p], i) /\ \A q \in Proc \ {p} : pending'[q] = pending[q]
    BY <1>1, <1>2
  <2>2. Distinct(pending[p])
    BY DEF Right, OneAnswer
  <2> QED BY <1>2, <2>1, <2>2, WithoutOne
<1>6. \A u : \A q \in Proc : Names(pending'[q], u) => Names(pending[q], u)
  BY <1>5
<1>7. /\ ~Names(requests, c.slot)
      /\ \A q \in Proc : ~Names(pending'[q], c.slot) /\ writing[q].slot # c.slot
  BY <1>3, <1>5 DEF Right, OneAnswer
<1>8. \A q \in Proc : Distinct(pending'[q])
  BY <1>5 DEF Right, OneAnswer
<1>9. /\ \A q \in Proc : \A j \in DOMAIN pending'[q] : Awaits(pending'[q][j].key, pending'[q][j].slot)
      /\ \A j \in DOMAIN requests : Awaits(requests[j].key, requests[j].slot)
  BY <1>5 DEF Right, Wanted
<1>10. \A r \in Reader : rslot[r] = c.slot => rpc[r] = "poll" /\ rkey[r] = c.key /\ len[c.slot] = Unset
  BY <1>3, OnePoller
<1>11. CASE WritePayload(p, i)
  <2> DEFINE w == [key |-> c.key, slot |-> c.slot]
  <2>1. /\ payload' = [payload EXCEPT ![c.slot] = c.key]
        /\ writing' = [writing EXCEPT ![p] = w]
        /\ len' = len
    BY <1>4, <1>11 DEF WritePayload
  <2>2. writing'[p] = w /\ \A q \in Proc \ {p} : writing'[q] = writing[q]
    BY <1>2, <2>1
  <2>3. payload'[c.slot] = c.key /\ \A s : s # c.slot => payload'[s] = payload[s]
    BY <1>2, <1>3, <2>1
  <2>4. \A q \in Proc : writing'[q] # Nothing =>
          Awaits(writing'[q].key, writing'[q].slot) /\ payload'[writing'[q].slot] = writing'[q].key
    <3> SUFFICES ASSUME NEW q \in Proc, writing'[q] # Nothing
                 PROVE  Awaits(writing'[q].key, writing'[q].slot) /\ payload'[writing'[q].slot] = writing'[q].key
      OBVIOUS
    <3>1. CASE q = p
      BY <1>3, <2>2, <2>3, <3>1
    <3>2. CASE q # p
      BY <1>7, <2>2, <2>3, <3>2 DEF Right, Wanted
    <3> QED BY <3>1, <3>2
  <2>5. Wanted'
    BY <1>1, <1>9, <2>1, <2>4 DEF Wanted, Awaits, readerVars
  <2>6. w.slot = c.slot
    OBVIOUS
  <2> HIDE DEF w
  <2>7. OneAnswer'
    <3>1. \A s \in Slot, q \in Proc : Names(requests, s) => ~Names(pending'[q], s) /\ writing'[q].slot # s
      BY <1>6, <1>7, <2>2, <2>6 DEF Right, OneAnswer
    <3>2. \A s \in Slot, a, b \in Proc : Names(pending'[a], s) => writing'[b].slot # s
      BY <1>6, <1>7, <2>2, <2>6 DEF Right, OneAnswer
    <3>3. \A s \in Slot, a, b \in Proc : Names(pending'[a], s) /\ Names(pending'[b], s) => a = b
      BY <1>6 DEF Right, OneAnswer
    <3>4. \A s \in Slot, a, b \in Proc : writing'[a].slot = s /\ writing'[b].slot = s => a = b
      BY <1>7, <2>2, <2>6 DEF Right, OneAnswer
    <3>5. Distinct(requests)
      BY DEF Right, OneAnswer
    <3> QED BY <1>1, <1>8, <3>1, <3>2, <3>3, <3>4, <3>5 DEF OneAnswer
  <2>8. ReadersRight'
    <3>1. \A r \in Reader : rpc[r] = "poll" /\ len[rslot[r]] = Filled => payload'[rslot[r]] = rkey[r]
      BY <1>10, <2>3 DEF Right, ReadersRight
    <3> QED BY <1>1, <2>1, <3>1 DEF Right, ReadersRight, readerVars
  <2>9. FreeUnset'
    BY <1>1, <2>1 DEF Right, FreeUnset
  <2> QED BY <2>5, <2>7, <2>8, <2>9 DEF Right
<1>12. CASE WriteError(p, i)
  <2>1. /\ len' = [len EXCEPT ![c.slot] = Unsuccessful]
        /\ UNCHANGED <<payload, writing>>
    BY <1>4, <1>12 DEF WriteError
  <2>2. len'[c.slot] = Unsuccessful /\ \A s : s # c.slot => len'[s] = len[s]
    BY <1>2, <1>3, <2>1
  <2>3. Wanted'
    <3>1. \A q \in Proc : \A j \in DOMAIN pending'[q] : pending'[q][j].slot # c.slot
      BY <1>7 DEF Names
    <3>2. \A j \in DOMAIN requests : requests[j].slot # c.slot
      BY <1>7 DEF Names
    <3>3. \A q \in Proc : writing[q].slot # c.slot
      BY <1>7
    <3>4. \A q \in Proc : writing[q] # Nothing =>
            Awaits(writing[q].key, writing[q].slot) /\ payload[writing[q].slot] = writing[q].key
      BY DEF Right, Wanted
    <3> QED BY <1>1, <1>9, <2>1, <2>2, <3>1, <3>2, <3>3, <3>4 DEF Wanted, Awaits, readerVars
  <2>4. OneAnswer'
    <3>1. \A s \in Slot, q \in Proc : Names(requests, s) => ~Names(pending'[q], s) /\ writing[q].slot # s
      BY <1>6 DEF Right, OneAnswer
    <3>2. \A s \in Slot, a, b \in Proc : Names(pending'[a], s) => writing[b].slot # s
      BY <1>6 DEF Right, OneAnswer
    <3>3. \A s \in Slot, a, b \in Proc : Names(pending'[a], s) /\ Names(pending'[b], s) => a = b
      BY <1>6 DEF Right, OneAnswer
    <3> QED BY <1>1, <1>8, <2>1, <3>1, <3>2, <3>3 DEF Right, OneAnswer
  <2>5. ReadersRight'
    <3>1. \A r \in Reader : rpc[r] = "poll" /\ len'[rslot[r]] = Filled => payload[rslot[r]] = rkey[r]
      BY <2>2 DEF Right, ReadersRight, Filled, Unsuccessful
    <3>2. \A r \in Reader : rpc[r] = "add" => len'[rslot[r]] = Unset
      BY <1>10, <2>2 DEF Right, ReadersRight
    <3> QED BY <1>1, <2>1, <3>1, <3>2 DEF Right, ReadersRight, readerVars
  <2>6. FreeUnset'
    <3>1. c.slot \notin available
      BY <1>3, NoneUnderWay
    <3> QED BY <1>1, <2>2, <3>1 DEF Right, FreeUnset
  <2> QED BY <2>3, <2>4, <2>5, <2>6 DEF Right
<1> QED BY <1>11, <1>12 DEF Answer

LEMMA WriteLenRight ==
  ASSUME AppTypes, Right, NEW p \in Proc, WriteLen(p)
  PROVE  Right'
<1> DEFINE s == writing[p].slot
<1>1. /\ writing[p] # Nothing
      /\ len' = [len EXCEPT ![s] = Filled]
      /\ writing' = [writing EXCEPT ![p] = Nothing]
      /\ UNCHANGED <<available, payload, requests, readerVars, pending>>
  BY DEF WriteLen
<1>2. /\ len \in [Slot -> {Unset, Unsuccessful, Filled}]
      /\ writing \in [Proc -> Request \cup {Nothing}]
  BY DEF AppTypes, TypeOK
<1>3. Awaits(writing[p].key, s) /\ s \in Slot /\ payload[s] = writing[p].key
  BY <1>1 DEF Right, Wanted, Awaits
<1>4. /\ ~Names(requests, s)
      /\ \A q \in Proc : ~Names(pending[q], s) /\ (q # p => writing[q].slot # s)
  BY <1>3 DEF Right, OneAnswer
<1>5. \A r \in Reader : rslot[r] = s => rpc[r] = "poll" /\ rkey[r] = writing[p].key
  BY <1>3, OnePoller
<1>6. s \notin available
  BY NoneUnderWay
<1>7. writing'[p] = Nothing /\ \A q \in Proc \ {p} : writing'[q] = writing[q]
  BY <1>1, <1>2
<1>8. len'[s] = Filled /\ \A u : u # s => len'[u] = len[u]
  BY <1>1, <1>2, <1>3
<1> HIDE DEF s
<1>9. Wanted'
  <2>1. \A q \in Proc : \A j \in DOMAIN pending[q] :
          pending[q][j].slot # s /\ Awaits(pending[q][j].key, pending[q][j].slot)
    BY <1>4 DEF Names, Right, Wanted
  <2>2. \A j \in DOMAIN requests : requests[j].slot # s /\ Awaits(requests[j].key, requests[j].slot)
    BY <1>4 DEF Names, Right, Wanted
  <2>3. \A q \in Proc : writing'[q] # Nothing =>
          /\ writing'[q].slot # s /\ Awaits(writing'[q].key, writing'[q].slot)
          /\ payload[writing'[q].slot] = writing'[q].key
    BY <1>4, <1>7 DEF Right, Wanted
  <2> QED BY <1>1, <1>8, <2>1, <2>2, <2>3 DEF Wanted, Awaits, readerVars
<1>10. OneAnswer'
  <2>1. \A u \in Slot : \A q \in Proc : writing'[q].slot = u => q # p /\ writing[q].slot = u
    BY <1>7, AppAssumption DEF Nothing
  <2> QED BY <1>1, <2>1 DEF Right, OneAnswer
<1>11. ReadersRight'
  <2>1. \A r \in Reader : rpc[r] = "poll" /\ len'[rslot[r]] = Filled => payload[rslot[r]] = rkey[r]
    BY <1>3, <1>5, <1>8 DEF Right, ReadersRight
  <2>2. \A r \in Reader : rpc[r] = "add" => len'[rslot[r]] = Unset
    BY <1>5, <1>8 DEF Right, ReadersRight
  <2> QED BY <1>1, <2>1, <2>2 DEF Right, ReadersRight, readerVars
<1>12. FreeUnset'
  BY <1>1, <1>6, <1>8 DEF Right, FreeUnset
<1> QED BY <1>9, <1>10, <1>11, <1>12 DEF Right

AnswersInv == AppTypes /\ (reported = 0 => Right)

LEMMA AnswersInvNext == AnswersInv /\ [Next]_vars => AnswersInv'
<1> SUFFICES ASSUME AnswersInv, [Next]_vars, reported' = 0 PROVE Right'
  BY AppTypesNext DEF AnswersInv
<1>1. ASSUME NEW p \in Proc, Expire(p) \/ ConnectionLost(p) PROVE FALSE
  BY <1>1, AppAssumption DEF Expire, ConnectionLost, Report, AnswersInv, AppTypes, TypeOK
<1>2. reported = 0
  <2>1. ASSUME NEW r \in Reader, ReaderStep(r) PROVE reported' = reported
    BY <2>1 DEF ReaderStep, ReadSlot, ResetLen, GiveSlot
  <2>2. ASSUME NEW r \in Reader, NEW k, TakeSlot(r, k) PROVE reported' = reported
    BY <2>2 DEF TakeSlot
  <2>3. ASSUME NEW p \in Proc,
               \/ Serve(p) \/ WriteLen(p) \/ SendFails(p) \/ ScanDisturbed(p)
               \/ \E i \in DOMAIN pending[p] : Answer(p, i)
        PROVE  reported' = reported
    BY <2>3 DEF Serve, WriteLen, SendFails, ScanDisturbed, Answer, WritePayload, WriteError
  <2> QED BY <1>1, <2>1, <2>2, <2>3 DEF Next, vars
<1>3. AppTypes /\ Right
  BY <1>2 DEF AnswersInv
<1>4. CASE UNCHANGED vars
  BY <1>3, <1>4 DEF Right, Wanted, Awaits, OneAnswer, ReadersRight, FreeUnset, vars, readerVars, procVars
<1>5. ASSUME NEW p \in Proc, ScanDisturbed(p) PROVE Right'
  <2>1. UNCHANGED <<available, len, payload, requests, readerVars, pending, writing>>
    BY <1>5 DEF ScanDisturbed
  <2> QED BY <1>3, <2>1 DEF Right, Wanted, Awaits, OneAnswer, ReadersRight, FreeUnset, readerVars
<1>6. ASSUME NEW p \in Proc, SendFails(p) PROVE FALSE
  BY <1>2, <1>3, <1>6 DEF SendFails, AppTypes, CutReported
<1> QED
  BY <1>1, <1>3, <1>4, <1>5, <1>6, ReaderRight, TakeSlotRight, ServeRight, AnswerRight, WriteLenRight DEF Next

LEMMA AnswersInvariant == Spec => []AnswersInv
<1>1. Init => AnswersInv
  BY AppTypesInit, RightInit DEF AnswersInv
<1> QED BY <1>1, AnswersInvNext, PTL DEF Spec

(* As long as no client has reported an error of its own, get() returns the value of the key in its  *)
(* own URL (app.py:106-130), for any number of threads, processes and slots *)
(* and any order of answers.                                                *)
THEOREM RepliesAreOwn == Spec => []RepliesMatch
<1>1. AnswersInv => RepliesMatch
  BY DEF AnswersInv, Right, ReadersRight, RepliesMatch
<1> QED BY <1>1, AnswersInvariant, PTL

(* ... and a slot that can be taken is unset, with no answer for it still   *)
(* under way (app.py:29).                                                   *)
THEOREM FreeSlotsAreUnset == Spec => []FreeSlotsUnset
<1>1. AnswersInv => FreeSlotsUnset
  BY NoneUnderWay DEF AnswersInv, FreeSlotsUnset, Names
<1> QED BY <1>1, AnswersInvariant, PTL
==============================================================================
