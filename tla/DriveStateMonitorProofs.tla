----------------------- MODULE DriveStateMonitorProofs -----------------------
(***************************************************************************)
(* For any number of reporters, any limit, recovery count and window, and  *)
(* however often the listeners fail: no listener is recovered too often,   *)
(* the entries kept for the drive are the newest ones, and what a sender   *)
(* was told is stored, or about to be.  The three parts need nothing of    *)
(* each other: the time cards depend on what the managers write on them,   *)
(* the entries on the lock, and what was told on the order of the attempts *)
(* in the backlog.                                                         *)
(***************************************************************************)
EXTENDS DriveStateMonitor, TLAPS

-----------------------------------------------------------------------------
(* The time cards.                                                         *)

(* Stamps do not decrease, none is later than T, and every start is more   *)
(* than the window before the one that the manager compared it with, except *)
(* for the comparison with the last start, which is still to come.         *)
Ordered(c) == \A i \in 1 .. Len(c) - 1 : c[i] <= c[i + 1]
Past(c, T) == \A i \in 1 .. Len(c) : c[i] <= T
Spaced(c) ==
  \A i \in 1 .. Len(c) - RecoveryCount : c[i + RecoveryCount - 1] - c[i] > Window

CardInv ==
  /\ now \in Nat
  /\ card \in [Worker -> Seq(Nat)]
  /\ \A w \in Worker : Ordered(card[w]) /\ Past(card[w], now) /\ Spaced(card[w])

LEMMA CardInvInit == Init => CardInv
  BY MonitorAssumption DEF Init, CardInv, Ordered, Past, Spaced

LEMMA AppendFacts ==
  ASSUME NEW S, NEW c \in Seq(S), NEW t \in S
  PROVE  /\ Append(c, t) \in Seq(S) /\ Len(Append(c, t)) = Len(c) + 1 /\ Len(c) \in Nat
         /\ \A i \in 1 .. Len(c) : Append(c, t)[i] = c[i] /\ c[i] \in S
         /\ Append(c, t)[Len(c) + 1] = t
  OBVIOUS

(* A start is stamped after the manager found the last RecoveryCount starts *)
(* far enough apart.                                                        *)
LEMMA StampKeeps ==
  ASSUME NEW c \in Seq(Nat), NEW t \in Nat, Ordered(c), Past(c, t), Spaced(c),
         Len(c) >= RecoveryCount => c[Len(c)] - c[Len(c) - RecoveryCount + 1] > Window
  PROVE  /\ Append(c, t) \in Seq(Nat)
         /\ Ordered(Append(c, t)) /\ Past(Append(c, t), t) /\ Spaced(Append(c, t))
<1> DEFINE d == Append(c, t)
           n == Len(c)
<1>1. /\ n \in Nat /\ d \in Seq(Nat) /\ Len(d) = n + 1 /\ d[n + 1] = t
      /\ \A i \in 1 .. n : d[i] = c[i] /\ c[i] \in Nat
  BY AppendFacts
<1> HIDE DEF d
<1>2. Past(d, t)
  <2> SUFFICES ASSUME NEW i \in 1 .. n + 1 PROVE d[i] <= t
    BY <1>1 DEF Past
  <2>1. CASE i = n + 1
    BY <2>1, <1>1
  <2>2. CASE i \in 1 .. n
    BY <2>2, <1>1 DEF Past
  <2> QED
    BY <2>1, <2>2, <1>1
<1>3. Ordered(d)
  <2> SUFFICES ASSUME NEW i \in 1 .. n PROVE d[i] <= d[i + 1]
    BY <1>1 DEF Ordered
  <2>1. CASE i = n
    BY <2>1, <1>1 DEF Past
  <2>2. CASE i # n
    <3>1. i \in 1 .. n - 1 /\ i + 1 \in 1 .. n
      BY <2>2, <1>1
    <3> QED
      BY <3>1, <1>1 DEF Ordered
  <2> QED
    BY <2>1, <2>2
<1>4. Spaced(d)
  <2> SUFFICES ASSUME NEW i \in 1 .. n + 1 - RecoveryCount
               PROVE  d[i + RecoveryCount - 1] - d[i] > Window
    BY <1>1, MonitorAssumption DEF Spaced
  <2>1. i \in 1 .. n /\ i + RecoveryCount - 1 \in 1 .. n
    BY <1>1, MonitorAssumption
  <2>2. c[i + RecoveryCount - 1] - c[i] > Window
    <3>1. CASE i = n + 1 - RecoveryCount
      <4>1. n >= RecoveryCount /\ n - RecoveryCount + 1 = i /\ i + RecoveryCount - 1 = n
        BY <3>1, <1>1, MonitorAssumption
      <4> QED
        BY <4>1
    <3>2. CASE i # n + 1 - RecoveryCount
      <4>1. i \in 1 .. n - RecoveryCount
        <5> HIDE DEF n
        <5> QED
          BY <3>2, <1>1, MonitorAssumption
      <4> QED
        BY <4>1 DEF Spaced
    <3> QED
      BY <3>1, <3>2
  <2> QED
    BY <2>1, <2>2, <1>1
<1> QED
  BY <1>1, <1>2, <1>3, <1>4 DEF d

LEMMA HireKeepsCardInv ==
  ASSUME CardInv, NEW w \in Worker, Hire(w)
  PROVE  CardInv'
<1>1. PICK t \in now .. MaxTime : now' = t /\ card' = [card EXCEPT ![w] = Append(@, t)]
  BY DEF Hire, Stamp
<1> DEFINE c == card[w]
<1>2. /\ t \in Nat /\ t >= now /\ now \in Nat /\ c \in Seq(Nat) /\ Len(c) \in Nat
      /\ \A v \in Worker : card[v] \in Seq(Nat)
  BY <1>1, MonitorAssumption DEF CardInv
<1>3. ASSUME NEW e \in Seq(Nat), Past(e, now) PROVE Past(e, t)
  <2> SUFFICES ASSUME NEW i \in 1 .. Len(e) PROVE e[i] <= t
    BY DEF Past
  <2>1. e[i] \in Nat /\ e[i] <= now
    BY <1>3 DEF Past
  <2> QED
    BY <2>1, <1>2
<1>4. Len(c) >= RecoveryCount => c[Len(c)] - c[Len(c) - RecoveryCount + 1] > Window
  <2> SUFFICES ASSUME Len(c) >= RecoveryCount
               PROVE  c[Len(c)] - c[Len(c) - RecoveryCount + 1] > Window
    OBVIOUS
  <2>1. ~(c[Len(c)] - c[Len(c) - RecoveryCount + 1] <= Window)
    BY DEF Hire, Exceeded
  <2>2. /\ Len(c) \in 1 .. Len(c) /\ Len(c) - RecoveryCount + 1 \in 1 .. Len(c)
    BY <1>2, MonitorAssumption
  <2>3. c[Len(c)] \in Nat /\ c[Len(c) - RecoveryCount + 1] \in Nat
    BY <1>2, <2>2
  <2> QED
    BY <2>1, <2>3, MonitorAssumption
<1>5. /\ Append(c, t) \in Seq(Nat)
      /\ Ordered(Append(c, t)) /\ Past(Append(c, t), t) /\ Spaced(Append(c, t))
  BY <1>2, <1>3, <1>4, StampKeeps DEF CardInv
<1>6. \A v \in Worker : card'[v] = IF v = w THEN Append(c, t) ELSE card[v]
  BY <1>1 DEF CardInv
<1>7. card' \in [Worker -> Seq(Nat)]
  BY <1>1, <1>5 DEF CardInv
<1>8. ASSUME NEW v \in Worker
      PROVE  Ordered(card'[v]) /\ Past(card'[v], t) /\ Spaced(card'[v])
  <2>1. CASE v = w
    BY <2>1, <1>5, <1>6
  <2>2. CASE v # w
    BY <2>2, <1>2, <1>3, <1>6 DEF CardInv
  <2> QED
    BY <2>1, <2>2
<1> QED
  BY <1>1, <1>2, <1>7, <1>8 DEF CardInv

(* Nobody but a manager writes on a time card.                             *)
LEMMA CardInvNext == CardInv /\ [Next]_vars => CardInv'
<1> SUFFICES ASSUME CardInv, [Next]_vars PROVE CardInv'
  OBVIOUS
<1>1. CASE \E w \in Worker : Hire(w)
  BY <1>1, HireKeepsCardInv
<1>2. CASE UNCHANGED <<card, now>>
  BY <1>2 DEF CardInv
<1>3. ASSUME NEW r \in Reporter, Report(r) PROVE UNCHANGED <<card, now>>
  BY <1>3 DEF Report, Connect, NoAnswer, GiveUp, workVars
<1>4. Listen \/ SocketError \/ MulticastFails \/ Wipe => UNCHANGED <<card, now>>
  BY DEF Listen, Bind, Accept, SendAck, SocketError, MulticastFails, Wipe, workVars
<1>5. ASSUME NEW m \in Status, Store(m) PROVE UNCHANGED <<card, now>>
  BY <1>5 DEF Store, StoreTrim, StoreAppend, workVars
<1>6. ASSUME NEW w \in Worker, Resign(w) PROVE UNCHANGED <<card, now>>
  BY <1>6 DEF Resign, workVars
<1>7. MainThread => UNCHANGED <<card, now>>
  BY DEF MainThread, AcceptQuery, QueryArrives, LastQueryArrives, Exit, Killed, Gone, workVars
<1>8. UNCHANGED vars => UNCHANGED <<card, now>>
  BY DEF vars, workVars
<1> QED
  BY <1>1, <1>2, <1>3, <1>4, <1>5, <1>6, <1>7, <1>8 DEF Next, Manage

LEMMA SpacedBounds ==
  ASSUME NEW c \in Seq(Nat), Ordered(c), Spaced(c), NEW i \in 1 .. Len(c) - RecoveryCount
  PROVE  c[i + RecoveryCount] - c[i] > Window
<1> DEFINE j == i + RecoveryCount - 1
           n == Len(c)
<1>1. n \in Nat
  OBVIOUS
<1>2. i \in 1 .. n /\ j \in 1 .. n /\ j + 1 \in 1 .. n /\ j \in 1 .. n - 1
  BY <1>1, MonitorAssumption
<1>3. j + 1 = i + RecoveryCount
  BY MonitorAssumption
<1>4. c[i] \in Nat /\ c[j] \in Nat /\ c[j + 1] \in Nat
  BY <1>2
<1>5. c[j] - c[i] > Window
  BY DEF Spaced
<1>6. c[j] <= c[j + 1]
  BY <1>2 DEF Ordered
<1> HIDE DEF j
<1>7. c[j + 1] - c[i] > Window
  <2>1. \A x, y, z, w \in Nat : y - x > w /\ y <= z => z - x > w
    OBVIOUS
  <2>2. Window \in Nat
    BY MonitorAssumption
  <2> QED BY <1>4, <1>5, <1>6, <2>1, <2>2
<1> QED
  BY <1>3, <1>7

LEMMA CardInvBounds == CardInv => RecoveryBounded
  BY SpacedBounds DEF CardInv, RecoveryBounded

(* DriveStateMonitor.py:18: on no time card do a start and the             *)
(* WORKER_RECOVERY_COUNT recoveries that follow it lie within the window.  *)
THEOREM RecoveryIsBounded == Spec => []RecoveryBounded
<1>1. Spec => []CardInv
  BY CardInvInit, CardInvNext, PTL DEF Spec
<1> QED
  BY <1>1, CardInvBounds, PTL

-----------------------------------------------------------------------------
(* The entries of the drive.                                               *)

Suffix(d, s) ==
  /\ Len(d) <= Len(s)
  /\ \A i \in 1 .. Len(d) : d[i] = s[Len(s) - Len(d) + i]

(* While a thread holds the lock it has made room for its entry, and only   *)
(* then may the list be one short.                                         *)
StoreInv ==
  /\ data \in Seq(Status) /\ stored \in Seq(Status)
  /\ Suffix(data, stored)
  /\ Len(data) <= Limit /\ (storing # {} => Len(data) <= Limit - 1)
  /\ Len(data) >= IF Len(stored) < Limit THEN Len(stored) ELSE Limit - 1

LEMMA SuffixIsSubSeq ==
  ASSUME NEW S, NEW d \in Seq(S), NEW s \in Seq(S), Suffix(d, s)
  PROVE  d = SubSeq(s, Len(s) - Len(d) + 1, Len(s))
<1> DEFINE k == Len(s) - Len(d)
           e == SubSeq(s, k + 1, Len(s))
<1>1. Len(d) \in Nat /\ Len(s) \in Nat /\ k \in Nat /\ k + Len(d) = Len(s)
  BY DEF Suffix
<1>2. \A i \in k + 1 .. Len(s) : s[i] \in S
  BY <1>1
<1>3. e \in Seq(S) /\ Len(e) = Len(d)
  BY <1>1, <1>2
<1>4. ASSUME NEW i \in 1 .. Len(d) PROVE e[i] = d[i]
  BY <1>1 DEF Suffix
<1> HIDE DEF e
<1>5. e = d
  BY <1>3, <1>4
<1> QED
  BY <1>5 DEF e

LEMMA SuffixAppend ==
  ASSUME NEW S, NEW d \in Seq(S), NEW s \in Seq(S), NEW m \in S, Suffix(d, s)
  PROVE  Suffix(Append(d, m), Append(s, m))
<1> DEFINE n == Len(d)
           k == Len(s)
           e == Append(d, m)
           u == Append(s, m)
<1>1. /\ n \in Nat /\ Len(e) = n + 1 /\ e[n + 1] = m
      /\ \A i \in 1 .. n : e[i] = d[i]
  BY AppendFacts
<1>2. /\ k \in Nat /\ Len(u) = k + 1 /\ u[k + 1] = m
      /\ \A i \in 1 .. k : u[i] = s[i]
  BY AppendFacts
<1>3. n <= k /\ \A i \in 1 .. n : d[i] = s[k - n + i]
  BY DEF Suffix
<1> HIDE DEF n, k, e, u
<1>4. ASSUME NEW i \in 1 .. n + 1 PROVE e[i] = u[(k + 1) - (n + 1) + i]
  <2>1. CASE i = n + 1
    <3>1. (k + 1) - (n + 1) + i = k + 1
      BY <2>1, <1>1, <1>2
    <3> QED
      BY <3>1, <2>1, <1>1, <1>2
  <2>2. CASE i \in 1 .. n
    <3>1. (k + 1) - (n + 1) + i = k - n + i /\ k - n + i \in 1 .. k
      BY <2>2, <1>1, <1>2, <1>3
    <3> QED
      BY <3>1, <2>2, <1>1, <1>2, <1>3
  <2> QED
    BY <2>1, <2>2, <1>1
<1>5. Suffix(e, u)
  BY <1>1, <1>2, <1>3, <1>4 DEF Suffix
<1> QED
  BY <1>5 DEF e, u

LEMMA SuffixNewest ==
  ASSUME NEW S, NEW d \in Seq(S), NEW s \in Seq(S), Suffix(d, s), NEW k \in Nat, k < Len(d)
  PROVE  LET e == SubSeq(d, Len(d) - k + 1, Len(d))
         IN e \in Seq(S) /\ Len(e) = k /\ Suffix(e, s)
<1> DEFINE n == Len(d)
           e == SubSeq(d, n - k + 1, n)
<1>1. n \in Nat /\ Len(s) \in Nat /\ n <= Len(s)
  BY DEF Suffix
<1>2. e \in Seq(S) /\ Len(e) = k
  BY <1>1
<1>3. ASSUME NEW i \in 1 .. k PROVE e[i] = s[Len(s) - k + i]
  <2>1. e[i] = d[n - k + i]
    BY <1>1
  <2>2. n - k + i \in 1 .. n
    BY <1>1
  <2>3. Len(s) - n + (n - k + i) = Len(s) - k + i
    BY <1>1
  <2> QED
    BY <2>1, <2>2, <2>3 DEF Suffix
<1> HIDE DEF e
<1>4. Suffix(e, s)
  BY <1>1, <1>2, <1>3 DEF Suffix
<1> QED
  BY <1>2, <1>4 DEF e

LEMMA StoreInvInit == Init => StoreInv
  BY MonitorAssumption DEF Init, StoreInv, Suffix

LEMMA TrimKeepsStoreInv ==
  ASSUME StoreInv, NEW m \in Status, StoreTrim(m)
  PROVE  StoreInv'
<1>1. /\ data' = Newest(Limit - 1) /\ stored' = stored /\ storing' = {m}
      /\ Limit - 1 \in Nat /\ Len(data) \in Nat /\ Len(stored) \in Nat
  BY MonitorAssumption DEF StoreTrim, StoreInv
<1>2. CASE Len(data) <= Limit - 1
  BY <1>1, <1>2 DEF StoreInv, Newest
<1>3. CASE Len(data) > Limit - 1
  <2>1. data' = SubSeq(data, Len(data) - (Limit - 1) + 1, Len(data))
    BY <1>1, <1>3 DEF Newest
  <2>2. data' \in Seq(Status) /\ Len(data') = Limit - 1 /\ Suffix(data', stored)
    BY <2>1, <1>1, <1>3, SuffixNewest DEF StoreInv
  <2>3. Len(stored) >= Limit
    BY <1>1, <1>3, MonitorAssumption DEF StoreInv, Suffix
  <2> QED
    BY <2>2, <2>3, <1>1, MonitorAssumption DEF StoreInv, Suffix
<1> QED
  BY <1>1, <1>2, <1>3, MonitorAssumption

LEMMA AppendKeepsStoreInv ==
  ASSUME StoreInv, NEW m \in Status, StoreAppend(m)
  PROVE  StoreInv'
<1>1. /\ data' = Append(data, m) /\ stored' = Append(stored, m) /\ storing' = {}
      /\ Len(data) <= Limit - 1
  BY DEF StoreAppend, StoreInv
<1>2. /\ data' \in Seq(Status) /\ Len(data') = Len(data) + 1 /\ Len(data) \in Nat
      /\ stored' \in Seq(Status) /\ Len(stored') = Len(stored) + 1 /\ Len(stored) \in Nat
  BY <1>1 DEF StoreInv
<1>3. Suffix(data, stored)'
  BY <1>1, SuffixAppend DEF StoreInv
<1>4. Len(data') >= IF Len(stored') < Limit THEN Len(stored') ELSE Limit - 1
  BY <1>1, <1>2, MonitorAssumption DEF StoreInv
<1> QED
  BY <1>1, <1>2, <1>3, <1>4, MonitorAssumption DEF StoreInv

(* Only the storing threads and a wipe touch the entries.                  *)
LEMMA StoreInvNext == StoreInv /\ [Next]_vars => StoreInv'
<1> SUFFICES ASSUME StoreInv, [Next]_vars PROVE StoreInv'
  OBVIOUS
<1>1. CASE \E m \in Status : Store(m)
  BY <1>1, TrimKeepsStoreInv, AppendKeepsStoreInv DEF Store
<1>2. CASE Wipe
  BY <1>2, MonitorAssumption DEF Wipe, StoreInv, Suffix
<1>3. CASE UNCHANGED <<data, stored, storing>>
  BY <1>3 DEF StoreInv, Suffix
<1>4. ASSUME NEW r \in Reporter, Report(r) PROVE UNCHANGED <<data, stored, storing>>
  BY <1>4 DEF Report, Connect, NoAnswer, GiveUp, storeVars
<1>5. Listen \/ SocketError \/ MulticastFails => UNCHANGED <<data, stored, storing>>
  BY DEF Listen, Bind, Accept, SendAck, SocketError, MulticastFails, storeVars
<1>6. ASSUME NEW w \in Worker, Manage(w) PROVE UNCHANGED <<data, stored, storing>>
  BY <1>6 DEF Manage, Hire, Resign, storeVars
<1>7. MainThread => UNCHANGED <<data, stored, storing>>
  BY DEF MainThread, AcceptQuery, QueryArrives, LastQueryArrives, Exit, Killed, Gone, storeVars
<1>8. UNCHANGED vars => UNCHANGED <<data, stored, storing>>
  BY DEF vars, storeVars
<1> QED
  BY <1>1, <1>2, <1>3, <1>4, <1>5, <1>6, <1>7, <1>8 DEF Next

LEMMA StoreInvHistory == StoreInv => StatusHistory
  BY SuffixIsSubSeq DEF StoreInv, StatusHistory

(* StatusListener.py:113: whatever the storing threads are at, a query sees *)
(* the newest entries, at most one fewer than the limit allows.            *)
THEOREM HistoryIsKept == Spec => []StatusHistory
<1>1. Spec => []StoreInv
  BY StoreInvInit, StoreInvNext, PTL DEF Spec
<1> QED
  BY <1>1, StoreInvHistory, PTL

-----------------------------------------------------------------------------
(* What the senders were told.                                             *)

(* A connection, the status on it, and how many connections were made for a *)
(* status so far.                                                           *)
Connection == Reporter \X (1 .. MaxStatus) \X (1 .. Attempts)
Carried(k) == <<k[1], k[2]>>
Tried(m) == IF m[2] < rep[m[1]].number THEN Attempts
            ELSE IF m[2] = rep[m[1]].number THEN rep[m[1]].tries ELSE 0

DeliveryTypes ==
  /\ open \in BOOLEAN
  /\ rep \in [Reporter -> [number : 1 .. MaxStatus + 1, tries : 0 .. Attempts, waiting : BOOLEAN]]
  /\ backlog \in Seq(Connection)
  /\ threads \in [Status -> Nat] /\ copies \in [Status -> Nat] /\ storing \subseteq Status
  /\ task \in [Worker -> {"dead", "recv", "bind", "accept", "ack"}]

(* The connections in the backlog are in the order of their attempts, and   *)
(* what is held of a status came over earlier ones: the number of attempts  *)
(* bounds what can be held.  A status about to be acknowledged is held.     *)
DeliveryInv ==
  /\ DeliveryTypes
  /\ \A m \in Status : Held(m) <= Tried(m)
  /\ \A m \in told : m \in Status /\ Held(m) > 0
  /\ \A i \in DOMAIN backlog :
       /\ Held(Carried(backlog[i])) < backlog[i][3]
       /\ backlog[i][3] <= Tried(Carried(backlog[i]))
  /\ \A i, j \in DOMAIN backlog :
       i < j /\ Carried(backlog[i]) = Carried(backlog[j]) => backlog[i][3] < backlog[j][3]
  /\ task["ScriptStatus"] = "ack" => serving \in Connection /\ Held(Carried(serving)) > 0

LEMMA DeliveryInit == Init => DeliveryInv
<1> SUFFICES ASSUME Init PROVE DeliveryInv
  OBVIOUS
<1>1. DeliveryTypes
  <2>1. rep \in [Reporter -> [number : 1 .. MaxStatus + 1, tries : 0 .. Attempts, waiting : BOOLEAN]]
    BY MonitorAssumption DEF Init
  <2>2. backlog \in Seq(Connection)
    BY DEF Init
  <2>3. threads \in [Status -> Nat] /\ copies \in [Status -> Nat] /\ storing \subseteq Status
    BY DEF Init
  <2>4. task \in [Worker -> {"dead", "recv", "bind", "accept", "ack"}]
    BY DEF Init
  <2> QED BY <2>1, <2>2, <2>3, <2>4 DEF Init, DeliveryTypes
<1>2. ASSUME NEW m \in Status
      PROVE  Held(m) <= Tried(m)
  <2>1. Held(m) = 0
    BY DEF Init, Held
  <2>2. m[1] \in Reporter /\ m[2] \in Nat /\ rep[m[1]].number = 1 /\ rep[m[1]].tries = 0
    BY MonitorAssumption DEF Status, Init
  <2>3. Tried(m) \in Nat
    BY <2>2, MonitorAssumption DEF Tried
  <2> QED BY <2>1, <2>3
<1>3. told = {} /\ backlog = <<>> /\ task["ScriptStatus"] = "dead" /\ DOMAIN backlog = {}
  BY DEF Init, Worker
<1> QED BY <1>1, <1>2, <1>3 DEF DeliveryInv

LEMMA DeliveryTypesNext ==
  ASSUME DeliveryInv, [Next]_vars
  PROVE  DeliveryTypes'
<1> USE DEF DeliveryTypes, repVars, storeVars, workVars, Do, At
<1>0. DeliveryTypes /\ "ScriptStatus" \in Worker /\ "Multicast" \in Worker
  BY DEF DeliveryInv, Worker
<1>1. ASSUME NEW r \in Reporter, Connect(r) PROVE DeliveryTypes'
  <2>1. /\ rep' = [rep EXCEPT ![r].tries = rep[r].tries + 1, ![r].waiting = open]
        /\ rep[r].tries + 1 \in 0 .. Attempts /\ rep[r].number \in 1 .. MaxStatus
        /\ rep[r].tries + 1 \in 1 .. Attempts
    BY <1>0, <1>1, MonitorAssumption DEF Connect, Sending
  <2>2. rep' \in [Reporter -> [number : 1 .. MaxStatus + 1, tries : 0 .. Attempts, waiting : BOOLEAN]]
    BY <1>0, <2>1
  <2>3. Current(r)' \in Connection
    BY <1>0, <2>1 DEF Current, Connection
  <2>4. backlog' \in Seq(Connection)
    BY <1>0, <1>1, <2>3 DEF Connect
  <2> QED BY <1>0, <1>1, <2>2, <2>4 DEF Connect
<1>2. ASSUME NEW r \in Reporter, NoAnswer(r) PROVE DeliveryTypes'
  <2>1. rep' \in [Reporter -> [number : 1 .. MaxStatus + 1, tries : 0 .. Attempts, waiting : BOOLEAN]]
    BY <1>0, <1>2 DEF NoAnswer
  <2> QED BY <1>0, <1>2, <2>1 DEF NoAnswer
<1>3. ASSUME NEW r \in Reporter, GiveUp(r) PROVE DeliveryTypes'
  <2>1. NextStatus(r) \in [number : 1 .. MaxStatus + 1, tries : 0 .. Attempts, waiting : BOOLEAN]
    BY <1>0, <1>3, MonitorAssumption DEF GiveUp, Sending, NextStatus
  <2> QED BY <1>0, <1>3, <2>1 DEF GiveUp
<1>4. CASE Bind
  BY <1>0, <1>4 DEF Bind
<1>5. CASE Accept
  <2>1. Head(backlog) \in Connection /\ Tail(backlog) \in Seq(Connection)
    BY <1>0, <1>5 DEF Accept
  <2>2. \/ UNCHANGED <<threads, task>>
        \/ /\ threads' = [threads EXCEPT ![Carried(Head(backlog))] = @ + 1]
           /\ task' = [task EXCEPT !["ScriptStatus"] = "ack"]
    BY <1>5 DEF Accept, Carried
  <2>3. threads' \in [Status -> Nat]
    <3>1. Carried(Head(backlog)) \in Status
      BY <2>1 DEF Connection, Carried, Status
    <3>2. CASE threads' = threads
      BY <1>0, <3>2
    <3>3. CASE threads' = [threads EXCEPT ![Carried(Head(backlog))] = @ + 1]
      <4>1. threads[Carried(Head(backlog))] + 1 \in Nat
        BY <1>0, <3>1
      <4> QED BY <1>0, <3>3, <4>1
    <3> QED BY <2>2, <3>2, <3>3
  <2>4. task' \in [Worker -> {"dead", "recv", "bind", "accept", "ack"}]
    BY <1>0, <2>2
  <2> QED BY <1>0, <1>5, <2>1, <2>3, <2>4 DEF Accept
<1>6. CASE SendAck
  <2>1. serving \in Connection
    BY <1>6 DEF SendAck, DeliveryInv
  <2>2. CASE rep[serving[1]].waiting /\ Current(serving[1]) = serving
    <3>1. serving[1] \in Reporter /\ rep[serving[1]].number \in 1 .. MaxStatus
      BY <2>1, <2>2 DEF Connection, Current
    <3>2. NextStatus(serving[1]) \in [number : 1 .. MaxStatus + 1, tries : 0 .. Attempts, waiting : BOOLEAN]
      BY <3>1, MonitorAssumption DEF NextStatus
    <3> QED BY <1>0, <1>6, <2>2, <3>1, <3>2 DEF SendAck
  <2>3. CASE ~(rep[serving[1]].waiting /\ Current(serving[1]) = serving)
    BY <1>0, <1>6, <2>3 DEF SendAck
  <2> QED BY <2>2, <2>3
<1>7. CASE SocketError
  BY <1>0, <1>7 DEF SocketError
<1>8. CASE MulticastFails
  BY <1>0, <1>8 DEF MulticastFails
<1>9. CASE Wipe
  BY <1>0, <1>9 DEF Wipe
<1>10. ASSUME NEW m \in Status, StoreTrim(m) PROVE DeliveryTypes'
  <2>1. threads[m] - 1 \in Nat /\ threads' = [threads EXCEPT ![m] = threads[m] - 1]
    BY <1>0, <1>10 DEF StoreTrim
  <2>2. threads' \in [Status -> Nat]
    BY <1>0, <2>1
  <2> QED BY <1>0, <1>10, <2>2 DEF StoreTrim
<1>11. ASSUME NEW m \in Status, StoreAppend(m) PROVE DeliveryTypes'
  <2>1. copies' \in [Status -> Nat]
    BY <1>0, <1>11 DEF StoreAppend
  <2> QED BY <1>0, <1>11, <2>1 DEF StoreAppend
<1>12. ASSUME NEW w \in Worker, Hire(w) PROVE DeliveryTypes'
  BY <1>0, <1>12 DEF Hire
<1>13. ASSUME NEW w \in Worker, Resign(w) PROVE DeliveryTypes'
  BY <1>0, <1>13 DEF Resign
<1>14. CASE MainThread
  <2>1. /\ backlog' = backlog \/ backlog' = <<>>
        /\ open' = open \/ open' = FALSE
        /\ UNCHANGED <<repVars, serving, storeVars, workVars>>
    BY <1>14 DEF MainThread, AcceptQuery, QueryArrives, LastQueryArrives, Exit, Killed, Gone
  <2>2. backlog' \in Seq(Connection)
    <3>1. CASE backlog' = backlog
      BY <1>0, <3>1
    <3>2. CASE backlog' = <<>>
      BY <3>2
    <3> QED BY <2>1, <3>1, <3>2
  <2>3. open' \in BOOLEAN
    BY <1>0, <2>1
  <2> QED BY <1>0, <2>1, <2>2, <2>3 DEF repVars, storeVars, workVars
<1>15. CASE UNCHANGED vars
  BY <1>0, <1>15 DEF vars
<1> QED
  BY <1>1, <1>2, <1>3, <1>4, <1>5, <1>6, <1>7, <1>8, <1>9, <1>10, <1>11, <1>12, <1>13, <1>14, <1>15
     DEF Next, Report, Listen, Store, Manage

LEMMA DeliveryNumbers ==
  ASSUME DeliveryTypes, NEW m \in Status
  PROVE  Held(m) \in Nat /\ Tried(m) \in Nat /\ Tried(m) <= Attempts
<1>1. threads[m] \in Nat /\ copies[m] \in Nat
  BY DEF DeliveryTypes
<1>2. m[1] \in Reporter /\ rep[m[1]].tries \in 0 .. Attempts
  BY DEF DeliveryTypes, Status
<1> QED BY <1>1, <1>2, MonitorAssumption DEF Held, Tried

LEMMA DeliveryNumbersAfter ==
  ASSUME DeliveryTypes', NEW m \in Status
  PROVE  Held(m)' \in Nat /\ Tried(m)' \in Nat
<1>1. threads'[m] \in Nat /\ copies'[m] \in Nat
  BY DEF DeliveryTypes
<1>2. m[1] \in Reporter /\ rep'[m[1]].tries \in 0 .. Attempts
  BY DEF DeliveryTypes, Status
<1> QED BY <1>1, <1>2, MonitorAssumption DEF Held, Tried

LEMMA BacklogEntries ==
  ASSUME DeliveryTypes, NEW i \in DOMAIN backlog
  PROVE  /\ backlog[i] \in Connection /\ Carried(backlog[i]) \in Status
         /\ backlog[i][3] \in 1 .. Attempts
<1>1. backlog[i] \in Connection
  BY DEF DeliveryTypes
<1> QED BY <1>1 DEF Connection, Carried, Status

(* A step that stores nothing new and takes at most connections out of the  *)
(* backlog, whose senders may have made further attempts.                   *)
LEMMA DeliveryKept ==
  ASSUME DeliveryInv, DeliveryTypes',
         \A m \in Status : Held(m)' = Held(m) /\ Tried(m)' >= Tried(m),
         \A m \in told' : m \in told \/ (m \in Status /\ Held(m) > 0),
         backlog' = backlog \/ backlog' = <<>>,
         task'["ScriptStatus"] = "ack" => task["ScriptStatus"] = "ack" /\ serving' = serving
  PROVE  DeliveryInv'
<1>0. DeliveryTypes
  BY DEF DeliveryInv
<1>1. ASSUME NEW m \in Status PROVE Held(m)' <= Tried(m)'
  <2>1. Held(m) <= Tried(m) /\ Held(m)' = Held(m) /\ Tried(m)' >= Tried(m)
    BY DEF DeliveryInv
  <2>2. Held(m) \in Nat /\ Tried(m) \in Nat /\ Held(m)' \in Nat /\ Tried(m)' \in Nat
    BY <1>0, DeliveryNumbers, DeliveryNumbersAfter
  <2> QED BY <2>1, <2>2
<1>2. ASSUME NEW m \in told' PROVE m \in Status /\ Held(m)' > 0
  BY <1>2 DEF DeliveryInv
<1>3. ASSUME NEW i \in DOMAIN backlog'
      PROVE  /\ Held(Carried(backlog[i]))' < backlog'[i][3]
             /\ backlog'[i][3] <= Tried(Carried(backlog[i]))'
  <2>1. backlog' = backlog /\ i \in DOMAIN backlog
    BY <1>3
  <2>2. PICK k : k = backlog[i]
    OBVIOUS
  <2>3. Carried(k) \in Status /\ k[3] \in Nat
    BY <1>0, <2>1, <2>2, BacklogEntries
  <2>4. PICK m \in Status : m = Carried(k)
    BY <2>3
  <2>5. Held(m) < k[3] /\ k[3] <= Tried(m)
    BY <2>1, <2>2, <2>4 DEF DeliveryInv
  <2>6. Held(m)' = Held(m) /\ Tried(m)' >= Tried(m)
    BY <2>4
  <2>7. Held(m) \in Nat /\ Tried(m) \in Nat /\ Held(m)' \in Nat /\ Tried(m)' \in Nat
    BY <1>0, DeliveryNumbers, DeliveryNumbersAfter
  <2>8. Held(m)' < k[3] /\ k[3] <= Tried(m)'
    BY <2>3, <2>5, <2>6, <2>7
  <2>9. Carried(backlog'[i]) = m /\ backlog'[i] = k
    BY <2>1, <2>2, <2>4
  <2> QED BY <2>8, <2>9 DEF Held, Tried, Carried
<1>4. ASSUME NEW i \in DOMAIN backlog', NEW j \in DOMAIN backlog',
             i < j, Carried(backlog'[i]) = Carried(backlog'[j])
      PROVE  backlog'[i][3] < backlog'[j][3]
  <2>1. backlog' = backlog
    BY <1>4
  <2> QED BY <1>4, <2>1 DEF DeliveryInv
<1>5. ASSUME task'["ScriptStatus"] = "ack"
      PROVE  serving' \in Connection /\ Held(Carried(serving))' > 0
  <2>1. serving' = serving /\ serving \in Connection /\ Held(Carried(serving)) > 0
    BY <1>5 DEF DeliveryInv
  <2>2. Carried(serving) \in Status
    BY <2>1 DEF Connection, Carried, Status
  <2>3. PICK m \in Status : m = Carried(serving)
    BY <2>2
  <2>4. Held(m)' > 0 /\ Carried(serving') = m
    BY <2>1, <2>3
  <2> QED BY <2>1, <2>4 DEF Held, Carried
<1> QED BY <1>1, <1>2, <1>3, <1>4, <1>5 DEF DeliveryInv

(* The reporters only ever go on: to a further attempt, or a further status. *)
LEMMA TriedGrows ==
  ASSUME DeliveryTypes, DeliveryTypes',
         \A r \in Reporter : \/ rep'[r].number > rep[r].number
                             \/ rep'[r].number = rep[r].number /\ rep'[r].tries >= rep[r].tries
  PROVE  \A m \in Status : Tried(m)' >= Tried(m)
<1> SUFFICES ASSUME NEW m \in Status PROVE Tried(m)' >= Tried(m)
  OBVIOUS
<1>1. m[1] \in Reporter /\ m[2] \in Nat
  BY DEF Status
<1>2. /\ rep[m[1]].tries \in 0 .. Attempts /\ rep[m[1]].number \in Nat
      /\ rep'[m[1]].tries \in 0 .. Attempts /\ rep'[m[1]].number \in Nat
  BY <1>1 DEF DeliveryTypes
<1> QED BY <1>1, <1>2, MonitorAssumption DEF Tried

(* A storing thread takes its status from the threads to the lock, and from *)
(* there to the entries.                                                    *)
LEMMA HeldIsKept ==
  ASSUME DeliveryTypes, NEW k \in Status, Store(k)
  PROVE  \A m \in Status : Held(m)' = Held(m)
<1> SUFFICES ASSUME NEW m \in Status PROVE Held(m)' = Held(m)
  OBVIOUS
<1>1. threads[m] \in Nat /\ copies[m] \in Nat /\ threads[k] \in Nat /\ copies[k] \in Nat
  BY DEF DeliveryTypes
<1>2. CASE StoreTrim(k)
  <2>1. threads'[m] = (IF m = k THEN threads[k] - 1 ELSE threads[m]) /\ copies' = copies
    BY <1>2 DEF StoreTrim, DeliveryTypes
  <2>2. storing = {} /\ storing' = {k}
    BY <1>2 DEF StoreTrim
  <2>3. (m \notin storing) /\ (m \in storing' <=> m = k)
    BY <2>2
  <2> QED BY <1>1, <2>1, <2>3 DEF Held
<1>3. CASE StoreAppend(k)
  <2>1. copies'[m] = (IF m = k THEN copies[k] + 1 ELSE copies[m]) /\ threads' = threads
    BY <1>3 DEF StoreAppend, DeliveryTypes
  <2>2. storing = {k} /\ storing' = {}
    BY <1>3 DEF StoreAppend
  <2>3. (m \notin storing') /\ (m \in storing <=> m = k)
    BY <2>2
  <2> QED BY <1>1, <2>1, <2>3 DEF Held
<1> QED BY <1>2, <1>3 DEF Store

(* A further attempt comes after all the ones made for the same status.     *)
LEMMA DeliveryConnect ==
  ASSUME DeliveryInv, DeliveryTypes', NEW r \in Reporter, Connect(r)
  PROVE  DeliveryInv'
<1>0. DeliveryTypes /\ r \in DOMAIN rep
  BY DEF DeliveryInv, DeliveryTypes
<1>1. /\ UNCHANGED <<threads, copies, storing, told, task, serving>>
      /\ rep[r].number \in 1 .. MaxStatus /\ rep[r].tries \in 0 .. Attempts - 1
      /\ rep'[r].number = rep[r].number /\ rep'[r].tries = rep[r].tries + 1
      /\ \A q \in Reporter : q # r => rep'[q] = rep[q]
  BY <1>0, MonitorAssumption DEF Connect, Sending, storeVars, workVars, DeliveryTypes
<1>2. \A m \in Status : Held(m)' = Held(m) /\ Tried(m)' >= Tried(m)
  <2>1. \A q \in Reporter : rep'[q].number = rep[q].number /\ rep'[q].tries >= rep[q].tries
    <3> SUFFICES ASSUME NEW q \in Reporter
                 PROVE  rep'[q].number = rep[q].number /\ rep'[q].tries >= rep[q].tries
      OBVIOUS
    <3>1. rep[q].tries \in Nat
      BY <1>0 DEF DeliveryTypes
    <3> QED BY <1>1, <3>1
  <2> QED BY <1>0, <1>1, <2>1, TriedGrows DEF Held
<1>3. CASE ~open
  <2>1. backlog' = backlog
    BY <1>3 DEF Connect
  <2>2. \A m \in told' : m \in told \/ (m \in Status /\ Held(m) > 0)
    BY <1>1
  <2>3. task'["ScriptStatus"] = "ack" => task["ScriptStatus"] = "ack" /\ serving' = serving
    BY <1>1
  <2> QED BY <1>2, <2>1, <2>2, <2>3, DeliveryKept
<1>4. CASE open
  <2> DEFINE n == Len(backlog)
  <2>a. <<r, rep[r].number>> \in Status
    BY <1>1 DEF Status
  <2>b. PICK o \in Status : o = <<r, rep[r].number>>
    BY <2>a
  <2>c. PICK k : k = <<r, rep[r].number, rep[r].tries + 1>>
    OBVIOUS
  <2>d. Current(r)' = k
    BY <1>1, <2>c DEF Current
  <2>1. /\ backlog' = Append(backlog, k) /\ k[3] = rep[r].tries + 1 /\ Carried(k) = o
        /\ Tried(o) = rep[r].tries /\ Tried(o)' = rep[r].tries + 1
    <3>1. backlog' = Append(backlog, k)
      BY <1>4, <2>d DEF Connect
    <3>2. k[3] = rep[r].tries + 1 /\ Carried(k) = o /\ o[1] = r /\ o[2] = rep[r].number
      BY <2>b, <2>c DEF Carried
    <3> QED BY <1>1, <3>1, <3>2 DEF Tried
  <2>2. /\ n \in Nat /\ DOMAIN backlog' = 1 .. n + 1 /\ DOMAIN backlog = 1 .. n
        /\ backlog'[n + 1] = k /\ \A i \in 1 .. n : backlog'[i] = backlog[i]
    BY <1>0, <2>1 DEF DeliveryTypes
  <2> HIDE DEF n
  <2>3. ASSUME NEW m \in Status PROVE Held(m)' <= Tried(m)'
    BY <1>0, <1>2, DeliveryNumbers, DeliveryNumbersAfter DEF DeliveryInv
  <2>4. ASSUME NEW i \in DOMAIN backlog', NEW m \in Status, Carried(backlog'[i]) = m
        PROVE  Held(m)' < backlog'[i][3] /\ backlog'[i][3] <= Tried(m)'
    <3>1. CASE i = n + 1
      <4>1. m = o /\ backlog'[i][3] = rep[r].tries + 1
        BY <2>1, <2>2, <2>4, <3>1
      <4>2. Held(o) <= Tried(o) /\ Held(o)' = Held(o) /\ Held(o) \in Nat
        BY <1>0, <1>2, <2>1, DeliveryNumbers DEF DeliveryInv
      <4> QED BY <1>1, <2>1, <4>1, <4>2
    <3>2. CASE i # n + 1
      <4>1. i \in DOMAIN backlog /\ backlog'[i] = backlog[i]
        BY <2>2, <3>2
      <4>2. /\ Held(m) < backlog[i][3] /\ backlog[i][3] <= Tried(m)
            /\ backlog[i][3] \in Nat
        BY <1>0, <2>4, <4>1, BacklogEntries DEF DeliveryInv
      <4>3. Held(m)' = Held(m) /\ Tried(m)' >= Tried(m) /\ Tried(m) \in Nat /\ Tried(m)' \in Nat
        BY <1>0, <1>2, DeliveryNumbers, DeliveryNumbersAfter
      <4> QED BY <4>1, <4>2, <4>3
    <3> QED BY <3>1, <3>2
  <2>5. ASSUME NEW i \in DOMAIN backlog', NEW j \in DOMAIN backlog',
               i < j, Carried(backlog'[i]) = Carried(backlog'[j])
        PROVE  backlog'[i][3] < backlog'[j][3]
    <3>1. i \in 1 .. n /\ backlog'[i] = backlog[i]
      BY <2>2, <2>5
    <3>2. CASE j = n + 1
      <4>1. backlog[i][3] <= Tried(Carried(backlog[i])) /\ backlog[i][3] \in Nat
        BY <1>0, <2>2, <3>1, BacklogEntries DEF DeliveryInv
      <4>2. Carried(backlog[i]) = o /\ backlog'[j][3] = rep[r].tries + 1
        BY <2>1, <2>2, <2>5, <3>1, <3>2
      <4> QED BY <1>1, <2>1, <3>1, <4>1, <4>2
    <3>3. CASE j # n + 1
      <4>1. j \in 1 .. n /\ backlog'[j] = backlog[j]
        BY <2>2, <3>3
      <4> QED BY <2>2, <2>5, <3>1, <4>1 DEF DeliveryInv
    <3> QED BY <3>2, <3>3
  <2>6. ASSUME NEW i \in DOMAIN backlog'
        PROVE  /\ Held(Carried(backlog[i]))' < backlog'[i][3]
               /\ backlog'[i][3] <= Tried(Carried(backlog[i]))'
    <3>0. backlog'[i] \in Connection
      BY <2>6 DEF DeliveryTypes
    <3>1. Carried(backlog'[i]) \in Status
      BY <3>0 DEF Connection, Carried, Status
    <3>2. PICK m \in Status : Carried(backlog'[i]) = m
      BY <3>1
    <3>3. Held(m)' < backlog'[i][3] /\ backlog'[i][3] <= Tried(m)'
      BY <2>4, <3>2
    <3> QED BY <3>2, <3>3 DEF Held, Tried, Carried
  <2>7. \A m \in told' : m \in Status /\ Held(m)' > 0
    BY <1>1, <1>2 DEF DeliveryInv
  <2>8. task'["ScriptStatus"] = "ack" => serving' \in Connection /\ Held(Carried(serving))' > 0
    BY <1>1 DEF DeliveryInv, Held
  <2> QED BY <2>3, <2>5, <2>6, <2>7, <2>8 DEF DeliveryInv
<1> QED BY <1>3, <1>4

(* A message that is stored is older than the ones of the same status that  *)
(* are still in the backlog: what is held stays below their attempts.       *)
LEMMA DeliveryAccept ==
  ASSUME DeliveryInv, DeliveryTypes', Accept
  PROVE  DeliveryInv'
<1>0. DeliveryTypes
  BY DEF DeliveryInv
<1>1. /\ UNCHANGED <<rep, told, storing, copies>> /\ task["ScriptStatus"] = "accept"
      /\ backlog # <<>> /\ backlog' = Tail(backlog)
  BY DEF Accept, At, repVars
<1> DEFINE n == Len(backlog)
<1>2. /\ n \in Nat \ {0} /\ DOMAIN backlog = 1 .. n /\ 1 \in DOMAIN backlog
      /\ DOMAIN backlog' = 1 .. n - 1
      /\ \A i \in DOMAIN backlog' : i + 1 \in DOMAIN backlog /\ backlog'[i] = backlog[i + 1]
  BY <1>0, <1>1 DEF DeliveryTypes
<1> HIDE DEF n
<1>3. /\ Head(backlog) = backlog[1] /\ backlog[1] \in Connection
      /\ Carried(backlog[1]) \in Status /\ backlog[1][3] \in 1 .. Attempts
  <2>1. Head(backlog) = backlog[1]
    BY <1>0, <1>1 DEF DeliveryTypes
  <2> QED BY <1>0, <1>2, <2>1, BacklogEntries
<1>4. PICK o \in Status : o = Carried(backlog[1])
  BY <1>3
<1>5. \/ UNCHANGED <<serving, threads, task>>
      \/ /\ serving' = backlog[1] /\ threads' = [threads EXCEPT ![o] = threads[o] + 1]
         /\ task'["ScriptStatus"] = "ack"
  <2>1. "ScriptStatus" \in DOMAIN task
    BY <1>0 DEF DeliveryTypes, Worker
  <2> QED BY <1>3, <1>4, <2>1 DEF Accept, Do, Carried
<1>6. PICK more \in {0, 1} :
        /\ Held(o)' = Held(o) + more
        /\ \A m \in Status : m # o => Held(m)' = Held(m)
        /\ task'["ScriptStatus"] = "ack" => more = 1 /\ serving' = backlog[1]
  <2>1. o \in DOMAIN threads /\ threads[o] \in Nat /\ copies[o] \in Nat
    BY <1>0, <1>4 DEF DeliveryTypes
  <2>2. CASE UNCHANGED <<serving, threads, task>>
    <3>1. \A m \in Status : Held(m)' = Held(m)
      BY <1>1, <2>2 DEF Held
    <3>2. Held(o) \in Nat
      BY <1>0, DeliveryNumbers
    <3>3. Held(o)' = Held(o) + 0 /\ task'["ScriptStatus"] # "ack"
      BY <1>1, <2>2, <3>1, <3>2
    <3> QED BY <3>1, <3>3
  <2>3. CASE /\ serving' = backlog[1] /\ threads' = [threads EXCEPT ![o] = threads[o] + 1]
             /\ task'["ScriptStatus"] = "ack"
    <3>1. threads'[o] = threads[o] + 1 /\ \A m \in Status : m # o => threads'[m] = threads[m]
      BY <2>1, <2>3, <1>0 DEF DeliveryTypes
    <3>2. Held(o)' = Held(o) + 1
      BY <1>1, <2>1, <3>1 DEF Held
    <3>3. \A m \in Status : m # o => Held(m)' = Held(m)
      BY <1>1, <3>1 DEF Held
    <3> QED BY <2>3, <3>2, <3>3
  <2> QED BY <1>5, <2>2, <2>3
<1>7. Held(o) < backlog[1][3] /\ backlog[1][3] <= Tried(o)
  BY <1>2, <1>4 DEF DeliveryInv
<1>8. \A m \in Status : /\ Held(m) \in Nat /\ Tried(m) \in Nat /\ Held(m)' \in Nat
                        /\ Tried(m)' = Tried(m)
  BY <1>0, <1>1, DeliveryNumbers, DeliveryNumbersAfter DEF Tried
<1>9. ASSUME NEW m \in Status PROVE Held(m)' <= Tried(m)'
  <2>1. Held(m) <= Tried(m)
    BY DEF DeliveryInv
  <2>2. CASE m = o
    BY <1>3, <1>6, <1>7, <1>8, <2>2
  <2>3. CASE m # o
    BY <1>6, <1>8, <2>1, <2>3
  <2> QED BY <2>2, <2>3
<1>10. ASSUME NEW m \in told' PROVE m \in Status /\ Held(m)' > 0
  <2>1. m \in Status /\ Held(m) > 0
    BY <1>1, <1>10 DEF DeliveryInv
  <2>2. CASE m = o
    BY <1>6, <1>8, <2>1, <2>2
  <2>3. CASE m # o
    BY <1>6, <2>1, <2>3
  <2> QED BY <2>2, <2>3
<1>11. ASSUME NEW i \in DOMAIN backlog'
       PROVE  /\ Held(Carried(backlog[i]))' < backlog'[i][3]
              /\ backlog'[i][3] <= Tried(Carried(backlog[i]))'
  <2>1. /\ i \in Nat \ {0} /\ i + 1 \in DOMAIN backlog /\ backlog'[i] = backlog[i + 1]
        /\ 1 < i + 1
    BY <1>2, <1>11
  <2>2. Carried(backlog[i + 1]) \in Status /\ backlog[i + 1][3] \in Nat
    BY <1>0, <2>1, BacklogEntries
  <2>3. PICK m \in Status : m = Carried(backlog[i + 1])
    BY <2>2
  <2>4. Held(m) < backlog[i + 1][3] /\ backlog[i + 1][3] <= Tried(m)
    BY <2>1, <2>3 DEF DeliveryInv
  <2>5. Held(m)' < backlog[i + 1][3]
    <3>1. CASE m = o
      <4>1. backlog[1][3] < backlog[i + 1][3]
        BY <1>2, <1>4, <2>1, <2>3, <3>1 DEF DeliveryInv
      <4> QED BY <1>3, <1>6, <1>7, <1>8, <2>2, <3>1, <4>1
    <3>2. CASE m # o
      BY <1>6, <2>4, <3>2
    <3> QED BY <3>1, <3>2
  <2>6. backlog[i + 1][3] <= Tried(m)' /\ Carried(backlog'[i]) = m
    BY <1>8, <2>1, <2>3, <2>4
  <2> QED BY <2>1, <2>5, <2>6 DEF Held, Tried, Carried
<1>12. ASSUME NEW i \in DOMAIN backlog', NEW j \in DOMAIN backlog',
              i < j, Carried(backlog'[i]) = Carried(backlog'[j])
       PROVE  backlog'[i][3] < backlog'[j][3]
  <2>1. /\ i + 1 \in DOMAIN backlog /\ backlog'[i] = backlog[i + 1]
        /\ j + 1 \in DOMAIN backlog /\ backlog'[j] = backlog[j + 1]
        /\ i + 1 < j + 1
    BY <1>2, <1>12
  <2> QED BY <1>12, <2>1 DEF DeliveryInv
<1>13. ASSUME task'["ScriptStatus"] = "ack"
       PROVE  serving' \in Connection /\ Held(Carried(serving))' > 0
  <2>1. serving' = backlog[1] /\ Held(o)' > 0 /\ Carried(serving') = o
    BY <1>4, <1>6, <1>8, <1>13
  <2> QED BY <1>3, <2>1 DEF Held, Carried
<1> QED BY <1>9, <1>10, <1>11, <1>12, <1>13 DEF DeliveryInv

(* The sender that still waits on the connection goes on to its next        *)
(* status; what it was told of is held.                                     *)
LEMMA DeliverySendAck ==
  ASSUME DeliveryInv, DeliveryTypes', SendAck
  PROVE  DeliveryInv'
<1>0. DeliveryTypes /\ "ScriptStatus" \in DOMAIN task
  BY DEF DeliveryInv, DeliveryTypes, Worker
<1>1. /\ UNCHANGED <<backlog, threads, storing, copies>>
      /\ task["ScriptStatus"] = "ack" /\ task'["ScriptStatus"] = "accept"
  BY <1>0 DEF SendAck, At, Do, storeVars
<1>2. /\ serving \in Connection /\ Held(Carried(serving)) > 0
      /\ serving[1] \in Reporter /\ Carried(serving) \in Status
      /\ Carried(serving) = <<serving[1], serving[2]>>
  BY <1>1 DEF DeliveryInv, Connection, Carried, Status
<1>3. \A r \in Reporter : \/ rep'[r].number > rep[r].number
                          \/ rep'[r].number = rep[r].number /\ rep'[r].tries >= rep[r].tries
  <2> SUFFICES ASSUME NEW r \in Reporter
               PROVE  \/ rep'[r].number > rep[r].number
                      \/ rep'[r].number = rep[r].number /\ rep'[r].tries >= rep[r].tries
    OBVIOUS
  <2>1. rep[r].number \in Nat /\ rep[r].tries \in Nat
    BY <1>0 DEF DeliveryTypes
  <2>2. rep' = rep \/ rep' = [rep EXCEPT ![serving[1]] = NextStatus(serving[1])]
    BY DEF SendAck, repVars
  <2>3. rep'[r] = rep[r] \/ rep'[r].number = rep[r].number + 1
    <3>1. NextStatus(serving[1]).number = rep[serving[1]].number + 1
      BY DEF NextStatus
    <3>2. rep'[r] = rep[r] \/ (r = serving[1] /\ rep'[r] = NextStatus(serving[1]))
      BY <1>0, <1>2, <2>2 DEF DeliveryTypes
    <3> QED BY <3>1, <3>2
  <2> QED BY <2>1, <2>3
<1>4. \A m \in Status : Held(m)' = Held(m) /\ Tried(m)' >= Tried(m)
  BY <1>0, <1>1, <1>3, TriedGrows DEF Held
<1>5. \A m \in told' : m \in told \/ (m \in Status /\ Held(m) > 0)
  <2>1. told' = told \/ told' = told \cup {Carried(serving)}
    BY <1>2 DEF SendAck, repVars
  <2> QED BY <1>2, <2>1
<1>6. backlog' = backlog
  BY <1>1
<1>7. task'["ScriptStatus"] = "ack" => task["ScriptStatus"] = "ack" /\ serving' = serving
  BY <1>1
<1> QED BY <1>4, <1>5, <1>6, <1>7, DeliveryKept

LEMMA DeliveryNext ==
  ASSUME DeliveryInv, [Next]_vars
  PROVE  DeliveryInv'
<1>0. DeliveryTypes /\ DeliveryTypes' /\ "ScriptStatus" \in DOMAIN task
  BY DeliveryTypesNext DEF DeliveryInv, DeliveryTypes, Worker
(* What is left to show of a step that does not tell a sender anything.     *)
<1>1. ASSUME \A m \in Status : Held(m)' = Held(m) /\ Tried(m)' >= Tried(m),
             told' = told, backlog' = backlog \/ backlog' = <<>>,
             task'["ScriptStatus"] = "ack" => task["ScriptStatus"] = "ack" /\ serving' = serving
      PROVE  DeliveryInv'
  <2>1. \A m \in told' : m \in told \/ (m \in Status /\ Held(m) > 0)
    BY <1>1
  <2> QED BY <1>0, <1>1, <2>1, DeliveryKept
<1>2. ASSUME UNCHANGED <<rep, told, threads, storing, copies>>,
             backlog' = backlog \/ backlog' = <<>>,
             task'["ScriptStatus"] = "ack" => task["ScriptStatus"] = "ack" /\ serving' = serving
      PROVE  DeliveryInv'
  <2>1. \A m \in Status : Held(m)' = Held(m) /\ Tried(m)' = Tried(m) /\ Tried(m) \in Nat
    BY <1>0, <1>2, DeliveryNumbers DEF Held, Tried
  <2>2. \A m \in Status : Held(m)' = Held(m) /\ Tried(m)' >= Tried(m)
    BY <2>1
  <2> QED BY <1>1, <1>2, <2>2
<1>3. ASSUME NEW r \in Reporter, NoAnswer(r) \/ GiveUp(r) PROVE DeliveryInv'
  <2>1. /\ UNCHANGED <<told, backlog, serving, threads, storing, copies, task>>
        /\ rep' = [rep EXCEPT ![r].waiting = FALSE] \/ rep' = [rep EXCEPT ![r] = NextStatus(r)]
    BY <1>3 DEF NoAnswer, GiveUp, storeVars, workVars
  <2>2. \A q \in Reporter : \/ rep'[q].number > rep[q].number
                            \/ rep'[q].number = rep[q].number /\ rep'[q].tries >= rep[q].tries
    <3> SUFFICES ASSUME NEW q \in Reporter
                 PROVE  \/ rep'[q].number > rep[q].number
                        \/ rep'[q].number = rep[q].number /\ rep'[q].tries >= rep[q].tries
      OBVIOUS
    <3>1. rep[q].number \in Nat /\ rep[q].tries \in Nat
      BY <1>0 DEF DeliveryTypes
    <3>2. CASE q = r
      <4>1. NextStatus(r).number = rep[r].number + 1 /\ r \in DOMAIN rep
        BY <1>0 DEF NextStatus, DeliveryTypes
      <4>2. CASE rep' = [rep EXCEPT ![r] = NextStatus(r)]
        BY <3>1, <3>2, <4>1, <4>2
      <4>3. CASE rep' = [rep EXCEPT ![r].waiting = FALSE]
        <5>1. rep'[r] = [rep[r] EXCEPT !.waiting = FALSE]
          BY <4>1, <4>3
        <5>2. rep'[r].number = rep[r].number /\ rep'[r].tries = rep[r].tries
          BY <1>0, <5>1 DEF DeliveryTypes
        <5> QED BY <3>1, <3>2, <5>2
      <4> QED BY <2>1, <4>2, <4>3
    <3>3. CASE q # r
      <4>1. rep'[q] = rep[q]
        BY <1>0, <2>1, <3>3 DEF DeliveryTypes
      <4> QED BY <3>1, <4>1
    <3> QED BY <3>2, <3>3
  <2>3. \A m \in Status : Held(m)' = Held(m) /\ Tried(m)' >= Tried(m)
    BY <1>0, <2>1, <2>2, TriedGrows DEF Held
  <2> QED BY <1>1, <2>1, <2>3
<1>4. ASSUME NEW r \in Reporter, Report(r) PROVE DeliveryInv'
  BY <1>0, <1>3, <1>4, DeliveryConnect DEF Report
<1>5. CASE Listen
  <2>1. CASE Bind
    <3>1. task'["ScriptStatus"] # "ack"
      BY <1>0, <2>1 DEF Bind, Do
    <3> QED BY <1>2, <2>1, <3>1 DEF Bind, repVars, storeVars
  <2> QED BY <1>0, <1>5, <2>1, DeliveryAccept, DeliverySendAck DEF Listen
<1>6. CASE SocketError
  <2>1. task'["ScriptStatus"] # "ack"
    BY <1>0, <1>6 DEF SocketError, Do
  <2> QED BY <1>2, <1>6, <2>1 DEF SocketError, repVars, storeVars
<1>7. CASE MulticastFails
  <2>1. task'["ScriptStatus"] = task["ScriptStatus"]
    BY <1>0, <1>7 DEF MulticastFails
  <2> QED BY <1>2, <1>7, <2>1 DEF MulticastFails, repVars, storeVars
<1>8. CASE Wipe
  BY <1>2, <1>8 DEF Wipe, repVars, workVars
<1>9. ASSUME NEW m \in Status, Store(m) PROVE DeliveryInv'
  <2>1. UNCHANGED <<rep, told, backlog, serving, task>>
    BY <1>9 DEF Store, StoreTrim, StoreAppend, repVars, workVars
  <2>2. \A k \in Status : Held(k)' = Held(k) /\ Tried(k)' = Tried(k) /\ Tried(k) \in Nat
    BY <1>0, <1>9, <2>1, HeldIsKept, DeliveryNumbers DEF Tried
  <2>3. \A k \in Status : Held(k)' = Held(k) /\ Tried(k)' >= Tried(k)
    BY <2>2
  <2> QED BY <1>1, <2>1, <2>3
<1>10. ASSUME NEW w \in Worker, Manage(w) PROVE DeliveryInv'
  <2>1. task' = task \/ (w \in DOMAIN task
                         /\ \E a \in {"recv", "bind"} : task' = [task EXCEPT ![w] = a])
    BY <1>0, <1>10 DEF Manage, Hire, Resign, workVars, DeliveryTypes
  <2>2. task'["ScriptStatus"] = "ack" => task["ScriptStatus"] = "ack"
    BY <1>0, <2>1
  <2> QED BY <1>2, <1>10, <2>2 DEF Manage, Hire, Resign, repVars, storeVars
<1>11. CASE MainThread
  BY <1>2, <1>11 DEF MainThread, AcceptQuery, QueryArrives, LastQueryArrives, Exit, Killed,
                       Gone, repVars, storeVars, workVars
<1>12. CASE UNCHANGED vars
  BY <1>2, <1>12 DEF vars, repVars, storeVars, workVars
<1> QED
  BY <1>4, <1>5, <1>6, <1>7, <1>8, <1>9, <1>10, <1>11, <1>12 DEF Next

(* StatusListener.py:57, "create the thread to process the message" before  *)
(* "send acknowledgement": whatever is lost, retried or restarted, a status *)
(* whose sender was told so is held, and none is stored more often than it  *)
(* was sent.                                                                *)
THEOREM ToldAreStored == Spec => []ToldIsStored
<1>1. Spec => []DeliveryInv
  BY DeliveryInit, DeliveryNext, PTL DEF Spec
<1>2. ASSUME DeliveryInv PROVE ToldIsStored
  <2> SUFFICES ASSUME NEW m \in Status
               PROVE  Held(m) <= Attempts /\ (m \in told => Held(m) > 0)
    BY DEF ToldIsStored
  <2>1. Held(m) \in Nat /\ Tried(m) \in Nat /\ Tried(m) <= Attempts
    BY <1>2, DeliveryNumbers DEF DeliveryInv
  <2>2. Held(m) <= Tried(m) /\ (m \in told => Held(m) > 0)
    BY <1>2 DEF DeliveryInv
  <2> QED BY <2>1, <2>2, MonitorAssumption
<1> QED BY <1>1, <1>2, PTL
=============================================================================
