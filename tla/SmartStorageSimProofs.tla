------------------------ MODULE SmartStorageSimProofs ------------------------
(***************************************************************************)
(* For any number of clients, resources of any capacity and any run_ahead: *)
(* the hack of run_server, which sets the simulated clock back for a late  *)
(* request, neither overlaps the requests that were in time nor answers    *)
(* anybody early; and a client that decodes each video once, in order,     *)
(* never ends the server by its frames.                                    *)
(*                                                                         *)
(* A step of the simulation is at the earliest time at which anything is   *)
(* scheduled.  So whoever waits for a resource is there before its holders *)
(* leave, and when all that is left on the schedule lies before what has   *)
(* been simulated, only late requests are granted anything.                *)
(***************************************************************************)
EXTENDS SmartStorageSim, FiniteSetTheorems, FunctionTheorems, TLAPS

Operation == {DecodeOnly, DecodeFace, DecodeVideo}
Time == Nat \cup {Never}
Need == [op : Operation \cup {"none"}, file : Image \cup Video \cup {NoPath}, frame : Nat, ts : Nat]
Interval == [res : Resource, who : SimClient, from : Nat, to : Nat, late : BOOLEAN]

ClientTypes ==
  /\ ask \in [SimClient -> Need]
  /\ \A c \in SimClient : ask[c].op \in {DecodeOnly, DecodeFace} => ask[c].file \in Image
  /\ place \in [SimClient -> {"idle", "socket", "simulation", "answered"}]
  /\ completion \in [SimClient -> Time]
  /\ clock \in Nat

ProcessTypes ==
  /\ stage \in [SimClient -> Nat] /\ due \in [SimClient -> Time]
  /\ work \in [SimClient -> Nat]
  /\ users \in [Resource -> SUBSET SimClient] /\ queue \in [Resource -> Seq(SimClient)]
  /\ frame \in Nat /\ fired \in Nat
  /\ held \subseteq Interval

Types == ClientTypes /\ ProcessTypes

(* Where a request is in the simulation: scheduled, or queued for the       *)
(* resource of its stage; once it has reached a resource it is scheduled    *)
(* only as one that holds it.                                               *)
Inside(c) == place[c] = "simulation"
Queued(c, r) == \E i \in DOMAIN queue[r] : queue[r][i] = c

PlacesInv ==
  /\ \A c \in SimClient : Inside(c) => ask[c].op \in Operation /\ stage[c] <= Len(Route(ask[c].op))
  /\ \A c \in SimClient : place[c] \in {"idle", "socket"} => stage[c] = 0 /\ completion[c] = Never
  /\ \A c \in SimClient : place[c] = "socket" => ask[c].op \in Operation
  /\ \A c \in SimClient : due[c] # Never => Inside(c) /\ (stage[c] > 0 => c \in users[Here(c)])
  /\ \A c \in SimClient, r \in Resource : c \in users[r] =>
       Inside(c) /\ stage[c] > 0 /\ Here(c) = r /\ due[c] # Never
  /\ \A c \in SimClient, r \in Resource : Queued(c, r) =>
       Inside(c) /\ stage[c] > 0 /\ Here(c) = r /\ due[c] = Never
  /\ \A r \in Resource : \A i, j \in DOMAIN queue[r] : queue[r][i] = queue[r][j] => i = j

(* A queue forms only at a resource that is full.                           *)
RoomInv ==
  \A r \in Resource : /\ Cardinality(users[r]) <= Capacity[r]
                      /\ queue[r] # <<>> => Cardinality(users[r]) = Capacity[r]

BaseInv == Types /\ PlacesInv /\ RoomInv

(* Requests in time stay in time: neither they nor those they queue behind  *)
(* are scheduled before what has been simulated.                            *)
OrderInv ==
  /\ \A c \in SimClient : c \notin late /\ due[c] # Never => due[c] >= fired
  /\ \A r \in Resource : \A c \in SimClient, u \in users[r] : Queued(c, r) /\ c \notin late => due[u] >= fired

(* An interval that reaches beyond what has been simulated belongs to a     *)
(* holder of the resource.                                                  *)
Covering(r, t) == {h \in held : h.res = r /\ ~h.late /\ h.from <= t /\ t < h.to}

HoldInv ==
  /\ \A h \in held : ~h.late /\ h.to > fired => h.who \in users[h.res] /\ due[h.who] = h.to
  /\ \A g, h \in held : ~g.late /\ ~h.late /\ g.to > fired /\ h.to > fired /\ g.who = h.who => g = h
  /\ \A r \in Resource, t \in Nat : Cardinality(Covering(r, t)) <= Capacity[r]

(* Among the intervals H, those of the first n stages of c's request q, one *)
(* after the other, between its time stamp and upto.                        *)
Charge(H, c, q, i, upto) == {h \in H : /\ h.who = c /\ h.res = Route(q.op)[i]
                                       /\ h.from >= q.ts /\ h.to <= upto}
Charged(H, c, q, n, upto) ==
  /\ upto >= q.ts
  /\ \A i \in 1 .. n : \E h \in Charge(H, c, q, i, upto) :
       i < n => \E g \in Charge(H, c, q, i + 1, upto) : g.from >= h.to

ChargeInv ==
  /\ \A c \in SimClient : Inside(c) /\ stage[c] = 0 => due[c] # Never /\ due[c] >= ask[c].ts
  /\ \A r \in Resource : \A c \in users[r] : Charged(held, c, ask[c], stage[c], due[c])
  /\ \A r \in Resource : \A c \in SimClient, u \in users[r] :
       Queued(c, r) => Charged(held, c, ask[c], stage[c] - 1, due[u])
  /\ \A c \in SimClient : completion[c] # Never =>
       place[c] = "answered" /\ Charged(held, c, ask[c], stage[c], completion[c])

-----------------------------------------------------------------------------
(* Resources and routes.                                                    *)
LEMMA RouteFacts ==
  ASSUME NEW op \in Operation
  PROVE  /\ Len(Route(op)) \in 1 .. 3
         /\ \A i \in 1 .. Len(Route(op)) : Route(op)[i] \in Resource
         /\ \A i \in 1 .. Len(Route(op)) : i + 1 <= Len(Route(op)) => Route(op)[i] # Route(op)[i + 1]
         /\ \A i \in 1 .. Len(Route(op)) : Route(op)[i] = "video_decoder" => op = DecodeVideo /\ i = 1
         /\ op = DecodeVideo => Route(op)[1] = "video_decoder" /\ Len(Route(op)) = 2 /\ Route(op)[2] = "bus"
BY DEF Operation, Route, Resource, DecodeOnly, DecodeFace, DecodeVideo

LEMMA UsersFinite ==
  ASSUME Types, NEW r \in Resource
  PROVE  IsFiniteSet(users[r]) /\ Cardinality(users[r]) \in Nat
BY SimAssumption, FS_Subset, FS_CardinalityType DEF Types, ProcessTypes

(* What the resources look like once c has left the one it held.            *)
LEMMA LeftFacts ==
  ASSUME BaseInv, NEW c \in SimClient, due[c] # Never,
         NEW lu, NEW lq, lu = Left(c).users, lq = Left(c).queue
  PROVE  /\ lu \in [Resource -> SUBSET SimClient] /\ lq \in [Resource -> Seq(SimClient)]
         /\ \A r \in Resource :
              \/ /\ c \in users[r] /\ queue[r] # <<>>
                 /\ lu[r] = (users[r] \ {c}) \cup {Head(queue[r])} /\ lq[r] = Tail(queue[r])
              \/ c \in users[r] /\ queue[r] = <<>> /\ lu[r] = users[r] \ {c} /\ lq[r] = queue[r]
              \/ c \notin users[r] /\ lu[r] = users[r] /\ lq[r] = queue[r]
<1>1. /\ users \in [Resource -> SUBSET SimClient] /\ queue \in [Resource -> Seq(SimClient)]
      /\ stage[c] \in Nat
  BY DEF BaseInv, Types, ProcessTypes
<1>2. CASE stage[c] = 0
  <2>1. lu = users /\ lq = queue
    BY <1>2 DEF Left
  <2>2. \A r \in Resource : c \notin users[r]
    BY <1>2 DEF BaseInv, PlacesInv
  <2> QED BY <1>1, <2>1, <2>2
<1>3. CASE stage[c] # 0
  <2> DEFINE r == Here(c)
  <2>1. r \in Resource /\ c \in users[r] /\ \A s \in Resource : c \in users[s] => s = r
    <3>1. Inside(c) /\ stage[c] > 0 /\ c \in users[Here(c)] /\ ask[c].op \in Operation
          /\ stage[c] <= Len(Route(ask[c].op))
      BY <1>1, <1>3 DEF BaseInv, PlacesInv
    <3>2. Here(c) \in Resource
      BY <1>1, <3>1, RouteFacts DEF Here
    <3> QED BY <3>1, <3>2 DEF BaseInv, PlacesInv
  <2>2. Left(c) = Free(users, queue, c, r)
    BY <1>3 DEF Left
  <2> HIDE DEF r
  <2>3. CASE queue[r] = <<>>
    <3>1. lu = [users EXCEPT ![r] = users[r] \ {c}] /\ lq = queue
      BY <2>2, <2>3 DEF Free
    <3> QED BY <1>1, <2>1, <2>3, <3>1
  <2>4. CASE queue[r] # <<>>
    <3>1. /\ lu = [users EXCEPT ![r] = (users[r] \ {c}) \cup {Head(queue[r])}]
          /\ lq = [queue EXCEPT ![r] = Tail(queue[r])]
      BY <2>2, <2>4 DEF Free
    <3>2. Head(queue[r]) \in SimClient /\ Tail(queue[r]) \in Seq(SimClient)
      BY <1>1, <2>1, <2>4
    <3>3. lu \in [Resource -> SUBSET SimClient]
      <4>1. PICK set : set = (users[r] \ {c}) \cup {Head(queue[r])} /\ set \in SUBSET SimClient
        <5>1. users[r] \subseteq SimClient
          BY <1>1, <2>1
        <5> QED BY <3>2, <5>1
      <4>2. lu = [users EXCEPT ![r] = set]
        BY <3>1, <4>1
      <4> QED BY <1>1, <4>1, <4>2
    <3>4. lq \in [Resource -> Seq(SimClient)]
      <4>1. PICK tail : tail = Tail(queue[r]) /\ tail \in Seq(SimClient)
        BY <3>2
      <4>2. lq = [queue EXCEPT ![r] = tail]
        BY <3>1, <4>1
      <4> QED BY <1>1, <4>1, <4>2
    <3>5. /\ lu[r] = (users[r] \ {c}) \cup {Head(queue[r])} /\ lq[r] = Tail(queue[r])
          /\ \A s \in Resource : s # r => lu[s] = users[s] /\ lq[s] = queue[s]
      BY <1>1, <2>1, <3>1
    <3> QED BY <2>1, <2>4, <3>3, <3>4, <3>5
  <2> QED BY <2>3, <2>4
<1> QED BY <1>2, <1>3

(* A step of the simulation: at the earliest time scheduled, c leaves what  *)
(* it holds and claims s, if that is a resource; G tells who is granted     *)
(* what, for how long w tells.                                              *)
Shift(c, s, G, w) ==
  /\ due[c] # Never /\ \A d \in SimClient : due[d] # Never => due[c] <= due[d]
  /\ users' \in [Resource -> SUBSET SimClient] /\ queue' \in [Resource -> Seq(SimClient)]
  /\ \A r \in Resource :
       /\ users'[r] = (users[r] \ {c}) \cup G[r]
       /\ \A d \in G[r] : d \in SimClient /\ d \notin users[r]
       /\ r # s => \/ /\ c \in users[r] /\ queue[r] # <<>>
                      /\ G[r] = {Head(queue[r])} /\ queue'[r] = Tail(queue[r])
                   \/ /\ c \notin users[r] \/ queue[r] = <<>>
                      /\ G[r] = {} /\ queue'[r] = queue[r]
       /\ r = s => \/ /\ c \notin users[r] /\ Cardinality(users[r]) < Capacity[r]
                      /\ G[r] = {c} /\ queue'[r] = queue[r]
                   \/ /\ c \notin users[r] /\ ~(Cardinality(users[r]) < Capacity[r])
                      /\ G[r] = {} /\ queue'[r] = Append(queue[r], c)
  /\ w \in [SimClient -> Nat]
  /\ due' = [d \in SimClient |-> IF \E r \in Resource : d \in G[r] THEN due[c] + w[d]
                                 ELSE IF d = c THEN Never ELSE due[d]]
  /\ held' = held \cup
       UNION {{[res |-> r, who |-> d, from |-> due[c], to |-> due[c] + w[d], late |-> d \in late] : d \in G[r]}
              : r \in Resource}
  /\ fired' = (IF due[c] > fired THEN due[c] ELSE fired)
  /\ late' = late

(* c goes on to its next resource, or its route is at its end.              *)
Onward(c) ==
  /\ stage[c] < Len(Route(ask[c].op))
  /\ stage' = [stage EXCEPT ![c] = @ + 1]
  /\ UNCHANGED <<ask, place, completion>>

Homeward(c) ==
  /\ place' = [place EXCEPT ![c] = "answered"]
  /\ completion' = [completion EXCEPT ![c] = due[c]]
  /\ UNCHANGED <<ask, stage>>

Nowhere == "nowhere"

LEMMA ScheduledFacts ==
  ASSUME BaseInv, NEW c \in SimClient, due[c] # Never
  PROVE  /\ Inside(c) /\ due[c] \in Nat /\ stage[c] \in Nat /\ ask[c].op \in Operation
         /\ stage[c] <= Len(Route(ask[c].op))
         /\ stage[c] < Len(Route(ask[c].op)) => There(c) \in Resource /\ c \notin users[There(c)]
         /\ \A r \in Resource : c \in users[r] => Here(c) = r
<1>1. Inside(c) /\ due[c] \in Nat /\ stage[c] \in Nat
  BY DEF BaseInv, Types, ProcessTypes, Time, PlacesInv
<1>2. ask[c].op \in Operation /\ stage[c] <= Len(Route(ask[c].op))
  BY <1>1 DEF BaseInv, PlacesInv
<1>3. \A r \in Resource : c \in users[r] => Here(c) = r /\ stage[c] > 0
  BY DEF BaseInv, PlacesInv
<1>4. ASSUME stage[c] < Len(Route(ask[c].op))
      PROVE  There(c) \in Resource /\ c \notin users[There(c)]
  <2>1. There(c) \in Resource /\ (stage[c] > 0 => Here(c) # There(c))
    <3> DEFINE route == Route(ask[c].op)
               n == stage[c]
    <3>1. /\ Len(route) \in Nat
          /\ \A i \in 1 .. Len(route) : route[i] \in Resource
          /\ \A i \in 1 .. Len(route) : i + 1 <= Len(route) => route[i] # route[i + 1]
      BY <1>2, RouteFacts
    <3>2. n \in Nat /\ n < Len(route)
      BY <1>1, <1>4
    <3>3. Here(c) = route[n] /\ There(c) = route[n + 1]
      BY DEF Here, There
    <3> HIDE DEF route, n
    <3>4. route[n + 1] \in Resource /\ (n > 0 => route[n] # route[n + 1])
      BY <3>1, <3>2
    <3> QED BY <3>3, <3>4 DEF n
  <2> QED BY <1>3, <2>1
<1> QED BY <1>1, <1>2, <1>3, <1>4

(* The head of a queue holds nothing yet.                                   *)
LEMMA HeadFacts ==
  ASSUME BaseInv, NEW r \in Resource, queue[r] # <<>>
  PROVE  /\ Head(queue[r]) \in SimClient /\ Queued(Head(queue[r]), r)
         /\ Head(queue[r]) \notin users[r]
<1>1. queue[r] \in Seq(SimClient)
  BY DEF BaseInv, Types, ProcessTypes
<1>2. Head(queue[r]) = queue[r][1] /\ 1 \in DOMAIN queue[r] /\ queue[r][1] \in SimClient
  BY <1>1
<1>3. Queued(Head(queue[r]), r)
  BY <1>2 DEF Queued
<1> QED BY <1>2, <1>3 DEF BaseInv, PlacesInv

LEMMA AdvanceShifts ==
  ASSUME BaseInv, NEW c \in SimClient, Advance(c) \/ EnterVideo(c)
  PROVE  \E G, w : Shift(c, There(c), G, w) /\ Onward(c) /\ work' = w
<1>1. /\ due[c] # Never /\ \A d \in SimClient : due[d] # Never => due[c] <= due[d]
      /\ ~Done(c)
  BY DEF Advance, EnterVideo, Fires
<1>2. /\ Inside(c) /\ due[c] \in Nat /\ stage[c] \in Nat /\ ask[c].op \in Operation
      /\ stage[c] < Len(Route(ask[c].op))
      /\ There(c) \in Resource /\ c \notin users[There(c)]
  BY <1>1, ScheduledFacts, RouteFacts DEF Done
<1> DEFINE s == There(c)
           lu == Left(c).users
           lq == Left(c).queue
           G == [r \in Resource |-> Granted(r, users')]
<1>3. Onward(c)
  <2>1. CASE Advance(c)
    BY <1>2, <2>1 DEF Advance, Onward, clientVars
  <2>2. CASE EnterVideo(c)
    <3>1. stage[c] = 0
      BY <1>2, <2>2, RouteFacts DEF EnterVideo, There
    <3> QED BY <1>2, <2>2, <3>1 DEF EnterVideo, Onward, clientVars
  <2> QED BY <2>1, <2>2
<1>4. users' = Claim(lu, lq, c, s).users /\ queue' = Claim(lu, lq, c, s).queue
  <2>1. CASE Advance(c)
    BY <2>1 DEF Advance
  <2>2. CASE EnterVideo(c)
    <3>1. stage[c] = 0 /\ There(c) = "video_decoder"
      BY <1>2, <2>2, RouteFacts DEF EnterVideo, There
    <3>2. lu = users /\ lq = queue
      BY <3>1 DEF Left
    <3> QED BY <2>2, <3>1, <3>2 DEF EnterVideo
  <2> QED BY <2>1, <2>2
<1>5. work' \in [SimClient -> Nat]
  <2>1. work \in [SimClient -> Nat] /\ ask[c].frame \in Nat /\ frame \in Nat
    BY DEF BaseInv, Types, ClientTypes, ProcessTypes, Need
  <2>2. CASE Advance(c)
    <3>1. work' = [work EXCEPT ![c] = IF There(c) = "bus" /\ ask[c].op = DecodeVideo THEN FrameSend
                                      ELSE lut[There(c)][ask[c].file]]
      BY <2>2 DEF Advance
    <3>2. There(c) # "video_decoder"
      BY <2>2 DEF Advance
    <3>3. ASSUME ask[c].op # DecodeVideo
          PROVE  lut[There(c)][ask[c].file] \in Nat
      <4>1. ask[c].file \in Image
        BY <1>2, <3>3 DEF BaseInv, Types, ClientTypes, Operation
      <4>2. There(c) \in {"decoder", "face_detector", "bus"}
        BY <1>2, <3>2 DEF Resource
      <4> QED BY <4>1, <4>2, SimAssumption
    <3>4. ask[c].op = DecodeVideo => There(c) = "bus"
      BY <1>2, <3>2, RouteFacts DEF There
    <3>5. FrameSend \in Nat
      BY SimAssumption
    <3>6. (IF There(c) = "bus" /\ ask[c].op = DecodeVideo THEN FrameSend
           ELSE lut[There(c)][ask[c].file]) \in Nat
      BY <3>3, <3>4, <3>5
    <3> QED BY <2>1, <3>1, <3>6
  <2>3. CASE EnterVideo(c)
    <3>1. work' = [work EXCEPT ![c] = ask[c].frame - StartFrame(c)] /\ ask[c].frame >= StartFrame(c)
      BY <2>3 DEF EnterVideo
    <3>2. StartFrame(c) \in Nat
      BY <2>1 DEF StartFrame
    <3>3. ask[c].frame - StartFrame(c) \in Nat
      BY <2>1, <3>1, <3>2
    <3> QED BY <2>1, <3>1, <3>3
  <2> QED BY <2>2, <2>3
<1>6. /\ lu \in [Resource -> SUBSET SimClient] /\ lq \in [Resource -> Seq(SimClient)]
      /\ \A r \in Resource :
           \/ /\ c \in users[r] /\ queue[r] # <<>>
              /\ lu[r] = (users[r] \ {c}) \cup {Head(queue[r])} /\ lq[r] = Tail(queue[r])
           \/ c \in users[r] /\ queue[r] = <<>> /\ lu[r] = users[r] \ {c} /\ lq[r] = queue[r]
           \/ c \notin users[r] /\ lu[r] = users[r] /\ lq[r] = queue[r]
  BY <1>1, LeftFacts
<1>7. s \in Resource
  BY <1>2
<1> HIDE DEF lu, lq, s
<1>8. /\ users' \in [Resource -> SUBSET SimClient] /\ queue' \in [Resource -> Seq(SimClient)]
      /\ \A r \in Resource : r # s => users'[r] = lu[r] /\ queue'[r] = lq[r]
      /\ \/ Cardinality(lu[s]) < Capacity[s] /\ users'[s] = lu[s] \cup {c} /\ queue'[s] = lq[s]
         \/ ~(Cardinality(lu[s]) < Capacity[s]) /\ users'[s] = lu[s] /\ queue'[s] = Append(lq[s], c)
  <2>1. CASE Cardinality(lu[s]) < Capacity[s]
    <3>1. users' = [lu EXCEPT ![s] = lu[s] \cup {c}] /\ queue' = lq
      BY <1>4, <2>1 DEF Claim
    <3> QED BY <1>6, <1>7, <2>1, <3>1
  <2>2. CASE ~(Cardinality(lu[s]) < Capacity[s])
    <3>1. PICK longer : longer = Append(lq[s], c)
      OBVIOUS
    <3>2. users' = lu /\ queue' = [lq EXCEPT ![s] = longer]
      BY <1>4, <2>2, <3>1 DEF Claim
    <3>3. longer \in Seq(SimClient)
      BY <1>6, <1>7, <3>1
    <3>4. queue' \in [Resource -> Seq(SimClient)]
      BY <1>6, <3>2, <3>3
    <3> QED BY <1>6, <1>7, <2>2, <3>1, <3>2, <3>4
  <2> QED BY <2>1, <2>2
<1>9. c \notin users[s] /\ lu[s] = users[s] /\ lq[s] = queue[s]
  BY <1>2, <1>6, <1>7 DEF s
<1>10. ASSUME NEW r \in Resource
       PROVE  /\ users'[r] = (users[r] \ {c}) \cup G[r]
              /\ \A d \in G[r] : d \in SimClient /\ d \notin users[r]
              /\ r # s => \/ /\ c \in users[r] /\ queue[r] # <<>>
                             /\ G[r] = {Head(queue[r])} /\ queue'[r] = Tail(queue[r])
                          \/ /\ c \notin users[r] \/ queue[r] = <<>>
                             /\ G[r] = {} /\ queue'[r] = queue[r]
              /\ r = s => \/ /\ c \notin users[r] /\ Cardinality(users[r]) < Capacity[r]
                             /\ G[r] = {c} /\ queue'[r] = queue[r]
                          \/ /\ c \notin users[r] /\ ~(Cardinality(users[r]) < Capacity[r])
                             /\ G[r] = {} /\ queue'[r] = Append(queue[r], c)
  <2>1. G[r] = users'[r] \ users[r]
    BY DEF Granted
  <2>2. users'[r] \subseteq SimClient
    BY <1>8
  <2>3. CASE r = s
    BY <1>8, <1>9, <2>1, <2>2, <2>3
  <2>4. CASE r # s
    <3>1. users'[r] = lu[r] /\ queue'[r] = lq[r]
      BY <1>8, <2>4
    <3>2. queue[r] # <<>> => Head(queue[r]) \notin users[r]
      BY HeadFacts
    <3> QED BY <1>6, <2>1, <2>2, <2>4, <3>1, <3>2
  <2> QED BY <2>3, <2>4
<1>11. /\ due' = [d \in SimClient |-> IF \E r \in Resource : d \in G[r] THEN due[c] + work'[d]
                                      ELSE IF d = c THEN Never ELSE due[d]]
       /\ held' = held \cup
            UNION {{[res |-> r, who |-> d, from |-> due[c], to |-> due[c] + work'[d], late |-> d \in late] : d \in G[r]}
                   : r \in Resource}
  <2>1. \A r \in Resource : G[r] = Granted(r, users')
    OBVIOUS
  <2>2. Hold(due[c], c, users', work')
    BY DEF Advance, EnterVideo
  <2> QED BY <2>1, <2>2 DEF Hold
<1>12. fired' = (IF due[c] > fired THEN due[c] ELSE fired) /\ late' = late
  BY DEF Advance, EnterVideo
<1> HIDE DEF G
<1>13. Shift(c, s, G, work')
  BY <1>1, <1>5, <1>8, <1>10, <1>11, <1>12 DEF Shift
<1> QED BY <1>3, <1>13 DEF s

LEMMA CompleteShifts ==
  ASSUME BaseInv, NEW c \in SimClient, Complete(c)
  PROVE  \E G, w : Shift(c, Nowhere, G, w) /\ Homeward(c) /\ stage[c] = Len(Route(ask[c].op))
<1>1. /\ due[c] # Never /\ \A d \in SimClient : due[d] # Never => due[c] <= due[d]
      /\ stage[c] = Len(Route(ask[c].op))
  BY DEF Complete, Fires, Done
<1> DEFINE lu == Left(c).users
           lq == Left(c).queue
           G == [r \in Resource |-> Granted(r, users')]
<1>2. users' = lu /\ queue' = lq
  BY DEF Complete
<1>3. /\ lu \in [Resource -> SUBSET SimClient] /\ lq \in [Resource -> Seq(SimClient)]
      /\ \A r \in Resource :
           \/ /\ c \in users[r] /\ queue[r] # <<>>
              /\ lu[r] = (users[r] \ {c}) \cup {Head(queue[r])} /\ lq[r] = Tail(queue[r])
           \/ c \in users[r] /\ queue[r] = <<>> /\ lu[r] = users[r] \ {c} /\ lq[r] = queue[r]
           \/ c \notin users[r] /\ lu[r] = users[r] /\ lq[r] = queue[r]
  BY <1>1, LeftFacts
<1> HIDE DEF lu, lq
<1>4. ASSUME NEW r \in Resource
      PROVE  /\ users'[r] = (users[r] \ {c}) \cup G[r]
             /\ \A d \in G[r] : d \in SimClient /\ d \notin users[r]
             /\ r # Nowhere
             /\ \/ /\ c \in users[r] /\ queue[r] # <<>>
                   /\ G[r] = {Head(queue[r])} /\ queue'[r] = Tail(queue[r])
                \/ /\ c \notin users[r] \/ queue[r] = <<>>
                   /\ G[r] = {} /\ queue'[r] = queue[r]
  <2>1. G[r] = users'[r] \ users[r]
    BY DEF Granted
  <2>2. users'[r] \subseteq SimClient /\ r # Nowhere
    BY <1>2, <1>3 DEF Resource, Nowhere
  <2>3. queue[r] # <<>> => Head(queue[r]) \notin users[r]
    BY HeadFacts
  <2> QED BY <1>2, <1>3, <2>1, <2>2, <2>3
<1>5. /\ due' = [d \in SimClient |-> IF \E r \in Resource : d \in G[r] THEN due[c] + work[d]
                                     ELSE IF d = c THEN Never ELSE due[d]]
      /\ held' = held \cup
           UNION {{[res |-> r, who |-> d, from |-> due[c], to |-> due[c] + work[d], late |-> d \in late] : d \in G[r]}
                  : r \in Resource}
  <2>1. \A r \in Resource : G[r] = Granted(r, users')
    OBVIOUS
  <2>2. Hold(due[c], c, users', work)
    BY DEF Complete
  <2> QED BY <2>1, <2>2 DEF Hold
<1>6. fired' = (IF due[c] > fired THEN due[c] ELSE fired) /\ late' = late
  BY DEF Complete
<1>7. work \in [SimClient -> Nat]
  BY DEF BaseInv, Types, ProcessTypes
<1>8. Homeward(c)
  BY DEF Complete, Homeward
<1> HIDE DEF G
<1>9. Shift(c, Nowhere, G, work)
  BY <1>1, <1>2, <1>3, <1>4, <1>5, <1>6, <1>7 DEF Shift
<1> QED BY <1>1, <1>8, <1>9

-----------------------------------------------------------------------------
(* What a step of the simulation grants, and to whom.                       *)
Granting(c, s, G) ==
  /\ \A r \in Resource : \A d \in G[r] : d # c =>
       /\ r # s /\ c \in users[r] /\ queue[r] # <<>> /\ d = Head(queue[r])
       /\ Queued(d, r) /\ due[d] = Never /\ Here(d) = r
  /\ \A r \in Resource : c \in G[r] => r = s
  /\ \A r, t \in Resource : \A d \in G[r] : d \in G[t] => r = t
  /\ \A r \in Resource : \A d \in SimClient : Queued(d, r)' =>
       (Queued(d, r) /\ d # c /\ d \notin G[r]) \/ (d = c /\ r = s /\ c \notin G[r])
  /\ \A r \in Resource : \A i, j \in DOMAIN queue'[r] : queue'[r][i] = queue'[r][j] => i = j

LEMMA GrantFacts ==
  ASSUME BaseInv, NEW c \in SimClient, NEW s, NEW G, NEW w, Shift(c, s, G, w)
  PROVE  Granting(c, s, G)
<1>0. /\ PlacesInv /\ queue \in [Resource -> Seq(SimClient)] /\ due[c] # Never
      /\ queue' \in [Resource -> Seq(SimClient)]
  BY DEF BaseInv, Types, ProcessTypes, Shift
<1>1. ASSUME NEW r \in Resource, NEW d \in G[r], r # s
      PROVE  /\ c \in users[r] /\ queue[r] # <<>> /\ d = Head(queue[r])
             /\ Queued(d, r) /\ due[d] = Never /\ Here(d) = r /\ d # c
  <2>1. c \in users[r] /\ queue[r] # <<>> /\ d = Head(queue[r]) /\ d \in SimClient
    BY <1>1 DEF Shift
  <2>2. Queued(d, r)
    BY <2>1, HeadFacts
  <2>3. due[d] = Never /\ Here(d) = r
    BY <1>0, <2>1, <2>2 DEF PlacesInv
  <2> QED BY <1>0, <2>1, <2>2, <2>3
<1>2. ASSUME NEW r \in Resource, NEW d \in G[r], r = s
      PROVE  d = c
  BY <1>2 DEF Shift
<1>3. \A r \in Resource : \A d \in G[r] : d # c =>
        /\ r # s /\ c \in users[r] /\ queue[r] # <<>> /\ d = Head(queue[r])
        /\ Queued(d, r) /\ due[d] = Never /\ Here(d) = r
  BY <1>1, <1>2
<1>4. \A r \in Resource : c \in G[r] => r = s
  BY <1>1
<1>5. \A r, t \in Resource : \A d \in G[r] : d \in G[t] => r = t
  BY <1>1, <1>2
<1>6. ASSUME NEW r \in Resource
      PROVE  /\ \A d \in SimClient : (\E i \in DOMAIN queue'[r] : queue'[r][i] = d) =>
                  (Queued(d, r) /\ d # c /\ d \notin G[r]) \/ (d = c /\ r = s /\ c \notin G[r])
             /\ \A i, j \in DOMAIN queue'[r] : queue'[r][i] = queue'[r][j] => i = j
  <2>1. /\ \A d \in SimClient : Queued(d, r) => d # c
        /\ \A i, j \in DOMAIN queue[r] : queue[r][i] = queue[r][j] => i = j
        /\ queue[r] \in Seq(SimClient)
    BY <1>0 DEF PlacesInv
  <2>2. CASE queue'[r] = queue[r]
    <3>1. \A d \in SimClient : Queued(d, r) => d \notin G[r]
      <4>1. CASE r = s
        BY <1>2, <2>1, <4>1
      <4>2. CASE r # s
        <5>1. G[r] = {} \/ (queue[r] # <<>> /\ queue'[r] = Tail(queue[r]))
          BY <4>2 DEF Shift
        <5>2. queue[r] # <<>> => Tail(queue[r]) # queue[r]
          <6> DEFINE q == queue[r]
          <6>1. q # <<>> => Len(Tail(q)) = Len(q) - 1 /\ Len(q) \in Nat
            BY <2>1
          <6>2. PICK n : n = Len(Tail(q))
            OBVIOUS
          <6>3. q # <<>> => n = Len(q) - 1 /\ Len(q) \in Nat
            BY <6>1, <6>2
          <6> HIDE DEF q
          <6>4. Tail(q) = q => n = Len(q)
            BY <6>2, Zenon
          <6>5. q # <<>> => Tail(q) # q
            BY <6>3, <6>4
          <6> QED BY <6>5 DEF q
        <5> QED BY <2>2, <5>1, <5>2
      <4> QED BY <4>1, <4>2
    <3> QED BY <2>1, <2>2, <3>1 DEF Queued
  <2>3. CASE queue[r] # <<>> /\ G[r] = {Head(queue[r])} /\ queue'[r] = Tail(queue[r])
    <3>1. /\ DOMAIN queue'[r] \subseteq Int /\ 1 \in DOMAIN queue[r] /\ Head(queue[r]) = queue[r][1]
          /\ \A i \in DOMAIN queue'[r] : i + 1 \in DOMAIN queue[r] /\ i + 1 # 1 /\ queue'[r][i] = queue[r][i + 1]
      BY <2>1, <2>3
    <3>2. \A i, j \in DOMAIN queue'[r] : i + 1 = j + 1 => i = j
      BY <3>1
    <3>3. \A i, j \in DOMAIN queue'[r] : queue'[r][i] = queue'[r][j] => i = j
      BY <2>1, <3>1, <3>2
    <3>4. \A i \in DOMAIN queue'[r] : queue'[r][i] # Head(queue[r])
      BY <2>1, <3>1
    <3> QED BY <2>1, <2>3, <3>1, <3>3, <3>4 DEF Queued
  <2>4. CASE r = s /\ G[r] = {} /\ queue'[r] = Append(queue[r], c)
    <3> DEFINE n == Len(queue[r]) + 1
    <3>1. /\ queue'[r][n] = c
          /\ \A i \in DOMAIN queue'[r] : i = n \/ (i \in DOMAIN queue[r] /\ queue'[r][i] = queue[r][i])
      BY <2>1, <2>4
    <3> HIDE DEF n
    <3>2. \A i \in DOMAIN queue[r] : queue[r][i] # c
      BY <2>1 DEF Queued
    <3>3. \A i, j \in DOMAIN queue'[r] : queue'[r][i] = queue'[r][j] => i = j
      BY <2>1, <3>1, <3>2
    <3> QED BY <2>1, <2>4, <3>1, <3>3 DEF Queued
  <2> QED BY <2>2, <2>3, <2>4 DEF Shift
<1>7. \A r \in Resource : \A d \in SimClient : Queued(d, r)' =>
        (Queued(d, r) /\ d # c /\ d \notin G[r]) \/ (d = c /\ r = s /\ c \notin G[r])
  BY <1>6 DEF Queued
<1> QED BY <1>3, <1>4, <1>5, <1>6, <1>7 DEF Granting

(* When everybody is scheduled from then on.                                *)
LEMMA DueFacts ==
  ASSUME BaseInv, NEW c \in SimClient, NEW s, NEW G, NEW w, Shift(c, s, G, w)
  PROVE  /\ due[c] \in Nat
         /\ \A r \in Resource : \A d \in G[r] : due'[d] = due[c] + w[d] /\ w[d] \in Nat /\ due'[d] \in Nat
         /\ (\A r \in Resource : c \notin G[r]) => due'[c] = Never
         /\ \A d \in SimClient : d # c /\ (\A r \in Resource : d \notin G[r]) => due'[d] = due[d]
         /\ \A r \in Resource : \A d \in users[r] : d # c => due'[d] = due[d] /\ d \in users'[r] /\ due[d] >= due[c]
         /\ \A r \in Resource : \A d \in SimClient : Queued(d, r) /\ d \notin G[r] => due'[d] = Never
<1>1. due[c] \in Nat /\ \A r \in Resource : \A d \in G[r] : d \in SimClient
  BY DEF Shift, BaseInv, Types, ProcessTypes, Time
<1>2. \A r \in Resource : \A d \in G[r] : due'[d] = due[c] + w[d] /\ w[d] \in Nat
  BY <1>1 DEF Shift
<1>3. Granting(c, s, G)
  BY GrantFacts
<1>4. \A d \in SimClient : d # c /\ (\A r \in Resource : d \notin G[r]) => due'[d] = due[d]
  BY DEF Shift
<1>5. (\A r \in Resource : c \notin G[r]) => due'[c] = Never
  BY DEF Shift
<1>6. ASSUME NEW r \in Resource, NEW d \in users[r], d # c
      PROVE  due'[d] = due[d] /\ d \in users'[r] /\ due[d] >= due[c]
  <2>1. d \in SimClient /\ due[d] # Never
    BY DEF BaseInv, Types, ProcessTypes, PlacesInv
  <2>2. \A t \in Resource : d \notin G[t]
    BY <1>3, <1>6, <2>1 DEF Granting
  <2>3. due[d] \in Nat
    BY <2>1 DEF BaseInv, Types, ProcessTypes, Time
  <2> QED BY <1>1, <1>4, <1>6, <2>1, <2>2, <2>3 DEF Shift
<1>7. ASSUME NEW r \in Resource, NEW d \in SimClient, Queued(d, r), d \notin G[r]
      PROVE  due'[d] = Never
  <2>1. due[d] = Never /\ Here(d) = r /\ d # c
    BY <1>7 DEF BaseInv, PlacesInv, Shift
  <2>2. \A t \in Resource : d \notin G[t]
    BY <1>3, <1>7, <2>1 DEF Granting
  <2> QED BY <1>4, <2>1, <2>2
<1> QED BY <1>1, <1>2, <1>4, <1>5, <1>6, <1>7

LEMMA ShiftRoom ==
  ASSUME BaseInv, NEW c \in SimClient, NEW s, NEW G, NEW w, Shift(c, s, G, w)
  PROVE  RoomInv'
<1> SUFFICES ASSUME NEW r \in Resource
             PROVE  /\ Cardinality(users'[r]) <= Capacity[r]
                    /\ queue'[r] # <<>> => Cardinality(users'[r]) = Capacity[r]
  BY DEF RoomInv
<1>1. /\ IsFiniteSet(users[r]) /\ Cardinality(users[r]) \in Nat /\ Capacity[r] \in Nat \ {0}
      /\ Cardinality(users[r]) <= Capacity[r]
      /\ queue[r] # <<>> => Cardinality(users[r]) = Capacity[r]
  BY UsersFinite, SimAssumption DEF BaseInv, RoomInv
<1>2. users'[r] = (users[r] \ {c}) \cup G[r]
  BY DEF Shift
<1>3. CASE r = s
  <2>1. CASE c \notin users[r] /\ Cardinality(users[r]) < Capacity[r] /\ G[r] = {c} /\ queue'[r] = queue[r]
    <3>1. users'[r] = users[r] \cup {c}
      BY <1>2, <2>1
    <3>2. Cardinality(users'[r]) = Cardinality(users[r]) + 1
      BY <1>1, <2>1, <3>1, FS_AddElement
    <3> QED BY <1>1, <2>1, <3>2
  <2>2. CASE c \notin users[r] /\ ~(Cardinality(users[r]) < Capacity[r]) /\ G[r] = {}
    <3>1. users'[r] = users[r]
      BY <1>2, <2>2
    <3> QED BY <1>1, <2>2, <3>1
  <2> QED BY <1>3, <2>1, <2>2 DEF Shift
<1>4. CASE r # s
  <2>1. CASE c \in users[r] /\ queue[r] # <<>> /\ G[r] = {Head(queue[r])}
    <3> DEFINE h == Head(queue[r])
               rest == users[r] \ {c}
    <3>1. h \notin users[r]
      BY <2>1, HeadFacts
    <3>2. IsFiniteSet(rest) /\ Cardinality(rest) = Cardinality(users[r]) - 1
      BY <1>1, <2>1, FS_RemoveElement
    <3>3. h \notin rest /\ users'[r] = rest \cup {h}
      BY <1>2, <2>1, <3>1
    <3> HIDE DEF h, rest
    <3>4. Cardinality(users'[r]) = Cardinality(rest) + 1
      BY <3>2, <3>3, FS_AddElement
    <3> QED BY <1>1, <2>1, <3>2, <3>4
  <2>2. CASE c \notin users[r] /\ G[r] = {} /\ queue'[r] = queue[r]
    <3>1. users'[r] = users[r]
      BY <1>2, <2>2
    <3> QED BY <1>1, <2>2, <3>1
  <2>3. CASE c \in users[r] /\ queue[r] = <<>> /\ G[r] = {} /\ queue'[r] = queue[r]
    <3>1. users'[r] = users[r] \ {c}
      BY <1>2, <2>3
    <3>2. Cardinality(users'[r]) = Cardinality(users[r]) - 1
      BY <1>1, <2>3, <3>1, FS_RemoveElement
    <3> QED BY <1>1, <2>3, <3>2
  <2> QED BY <1>4, <2>1, <2>2, <2>3 DEF Shift
<1> QED BY <1>3, <1>4

(* c is where it asked to be, or has left the simulation.                   *)
Moved(c, s) ==
  \/ s = There(c) /\ Onward(c)
  \/ s = Nowhere /\ Homeward(c) /\ stage[c] = Len(Route(ask[c].op))

LEMMA MovedFacts ==
  ASSUME BaseInv, NEW c \in SimClient, NEW s, due[c] # Never, Moved(c, s)
  PROVE  /\ ask' = ask /\ \A d \in SimClient : d # c => stage'[d] = stage[d] /\ place'[d] = place[d]
                                                       /\ completion'[d] = completion[d]
         /\ s \in Resource => /\ s = There(c) /\ stage'[c] = stage[c] + 1 /\ place'[c] = "simulation"
                              /\ completion'[c] = completion[c]
                              /\ stage'[c] <= Len(Route(ask[c].op)) /\ Route(ask[c].op)[stage'[c]] = s
         /\ s \notin Resource => /\ stage'[c] = stage[c] /\ place'[c] = "answered" /\ completion'[c] = due[c]
                                 /\ stage[c] = Len(Route(ask[c].op))
         /\ stage' \in [SimClient -> Nat] /\ completion' \in [SimClient -> Time]
         /\ place' \in [SimClient -> {"idle", "socket", "simulation", "answered"}]
<1>1. /\ stage \in [SimClient -> Nat] /\ completion \in [SimClient -> Time]
      /\ place \in [SimClient -> {"idle", "socket", "simulation", "answered"}]
      /\ due \in [SimClient -> Time]
  BY DEF BaseInv, Types, ClientTypes, ProcessTypes
<1>2. /\ Inside(c) /\ stage[c] \in Nat /\ ask[c].op \in Operation
      /\ stage[c] < Len(Route(ask[c].op)) => There(c) \in Resource
      /\ Len(Route(ask[c].op)) \in 1 .. 3
  BY ScheduledFacts, RouteFacts
<1>3. Nowhere \notin Resource
  BY DEF Nowhere, Resource
<1>4. CASE s = There(c) /\ Onward(c)
  <2>1. s \in Resource /\ stage' = [stage EXCEPT ![c] = @ + 1] /\ UNCHANGED <<ask, place, completion>>
        /\ stage[c] < Len(Route(ask[c].op))
    BY <1>2, <1>4 DEF Onward
  <2>2. stage'[c] = stage[c] + 1 /\ \A d \in SimClient : d # c => stage'[d] = stage[d]
    BY <1>1, <2>1
  <2>3. stage' \in [SimClient -> Nat]
    BY <1>1, <2>1
  <2>4. Route(ask[c].op)[stage'[c]] = s /\ stage'[c] <= Len(Route(ask[c].op))
    BY <1>2, <1>4, <2>1, <2>2 DEF There
  <2> QED BY <1>1, <1>2, <1>4, <2>1, <2>2, <2>3, <2>4 DEF Inside
<1>5. CASE s = Nowhere /\ Homeward(c) /\ stage[c] = Len(Route(ask[c].op))
  BY <1>1, <1>3, <1>5 DEF Homeward
<1> QED BY <1>4, <1>5 DEF Moved

LEMMA ShiftPlaces ==
  ASSUME BaseInv, NEW c \in SimClient, NEW s, NEW G, NEW w, Shift(c, s, G, w), Moved(c, s)
  PROVE  PlacesInv'
<1>0. PlacesInv /\ due[c] # Never /\ users \in [Resource -> SUBSET SimClient]
  BY DEF BaseInv, Shift, Types, ProcessTypes
<1>1. Granting(c, s, G)
  BY GrantFacts
<1>2. /\ due[c] \in Nat
      /\ \A r \in Resource : \A d \in G[r] : due'[d] = due[c] + w[d] /\ w[d] \in Nat /\ due'[d] \in Nat
      /\ (\A r \in Resource : c \notin G[r]) => due'[c] = Never
      /\ \A d \in SimClient : d # c /\ (\A r \in Resource : d \notin G[r]) => due'[d] = due[d]
      /\ \A r \in Resource : \A d \in users[r] : d # c => due'[d] = due[d] /\ d \in users'[r]
      /\ \A r \in Resource : \A d \in SimClient : Queued(d, r) /\ d \notin G[r] => due'[d] = Never
  BY DueFacts
<1>3. /\ ask' = ask /\ \A d \in SimClient : d # c => stage'[d] = stage[d] /\ place'[d] = place[d]
                                                    /\ completion'[d] = completion[d]
      /\ s \in Resource => /\ s = There(c) /\ stage'[c] = stage[c] + 1 /\ place'[c] = "simulation"
                           /\ completion'[c] = completion[c]
                           /\ stage'[c] <= Len(Route(ask[c].op)) /\ Route(ask[c].op)[stage'[c]] = s
      /\ s \notin Resource => stage'[c] = stage[c] /\ place'[c] = "answered"
  BY <1>0, MovedFacts
<1>4. Inside(c) /\ stage[c] \in Nat /\ ask[c].op \in Operation
  BY <1>0, ScheduledFacts
<1>5. \A r \in Resource : users'[r] = (users[r] \ {c}) \cup G[r] /\ \A d \in G[r] : d \in SimClient
  BY DEF Shift
<1>6. \A d \in SimClient : d # c => /\ Inside(d)' <=> Inside(d)
                                    /\ Here(d)' = Here(d)
  BY <1>3 DEF Inside, Here
<1>7. s \in Resource => Inside(c)' /\ Here(c)' = s /\ stage'[c] > 0
  BY <1>3, <1>4 DEF Inside, Here
<1>8. \A r \in Resource : \A d \in G[r] : Inside(d)' /\ Here(d)' = r /\ stage'[d] > 0
  <2> SUFFICES ASSUME NEW r \in Resource, NEW d \in G[r]
               PROVE  Inside(d)' /\ Here(d)' = r /\ stage'[d] > 0
    OBVIOUS
  <2>1. CASE d = c
    BY <1>1, <1>7, <2>1 DEF Granting
  <2>2. CASE d # c
    <3>1. d \in SimClient /\ Queued(d, r) /\ Here(d) = r
      BY <1>1, <1>5, <2>2 DEF Granting
    <3> QED BY <1>0, <1>3, <1>6, <2>2, <3>1 DEF PlacesInv
  <2> QED BY <2>1, <2>2
<1>9. \A d \in SimClient : Inside(d)' => ask'[d].op \in Operation /\ stage'[d] <= Len(Route(ask'[d].op))
  <2> SUFFICES ASSUME NEW d \in SimClient, Inside(d)'
               PROVE  ask'[d].op \in Operation /\ stage'[d] <= Len(Route(ask'[d].op))
    OBVIOUS
  <2>1. CASE d = c
    BY <1>3, <1>4, <2>1 DEF Inside
  <2>2. CASE d # c
    BY <1>0, <1>3, <1>6, <2>2 DEF PlacesInv
  <2> QED BY <2>1, <2>2
<1>10. \A d \in SimClient : place'[d] \in {"idle", "socket"} => stage'[d] = 0 /\ completion'[d] = Never
  BY <1>0, <1>3 DEF PlacesInv
<1>11. \A d \in SimClient : place'[d] = "socket" => ask'[d].op \in Operation
  BY <1>0, <1>3 DEF PlacesInv
<1>12. \A d \in SimClient : due'[d] # Never => Inside(d)' /\ (stage'[d] > 0 => d \in users'[Here(d)'])
  <2> SUFFICES ASSUME NEW d \in SimClient, due'[d] # Never
               PROVE  Inside(d)' /\ (stage'[d] > 0 => d \in users'[Here(d)'])
    OBVIOUS
  <2>1. CASE \E r \in Resource : d \in G[r]
    BY <1>5, <1>8, <2>1
  <2>2. CASE \A r \in Resource : d \notin G[r]
    <3>1. d # c /\ due[d] # Never
      BY <1>2, <2>2
    <3>2. Inside(d) /\ (stage[d] > 0 => d \in users[Here(d)])
      BY <1>0, <3>1 DEF PlacesInv
    <3>3. stage[d] > 0 => Here(d) \in Resource
      <4>1. stage[d] \in Nat /\ stage[d] <= Len(Route(ask[d].op)) /\ ask[d].op \in Operation
        BY <3>1, ScheduledFacts
      <4> QED BY <4>1, RouteFacts DEF Here
    <3> QED BY <1>2, <1>3, <1>6, <3>1, <3>2, <3>3
  <2> QED BY <2>1, <2>2
<1>13. \A d \in SimClient, r \in Resource : d \in users'[r] =>
         Inside(d)' /\ stage'[d] > 0 /\ Here(d)' = r /\ due'[d] # Never
  <2> SUFFICES ASSUME NEW d \in SimClient, NEW r \in Resource, d \in users'[r]
               PROVE  Inside(d)' /\ stage'[d] > 0 /\ Here(d)' = r /\ due'[d] # Never
    OBVIOUS
  <2>1. CASE d \in G[r]
    <3>1. due'[d] # Never
      BY <1>2, <2>1 DEF Never
    <3> QED BY <1>8, <2>1, <3>1
  <2>2. CASE d \notin G[r]
    <3>1. d \in users[r] /\ d # c
      BY <1>5, <2>2
    <3> QED BY <1>0, <1>2, <1>3, <1>6, <3>1 DEF PlacesInv
  <2> QED BY <2>1, <2>2
<1>14. \A d \in SimClient, r \in Resource : Queued(d, r)' =>
         Inside(d)' /\ stage'[d] > 0 /\ Here(d)' = r /\ due'[d] = Never
  <2> SUFFICES ASSUME NEW d \in SimClient, NEW r \in Resource, Queued(d, r)'
               PROVE  Inside(d)' /\ stage'[d] > 0 /\ Here(d)' = r /\ due'[d] = Never
    OBVIOUS
  <2>1. CASE Queued(d, r) /\ d # c /\ d \notin G[r]
    <3>1. Inside(d) /\ stage[d] > 0 /\ Here(d) = r
      BY <1>0, <2>1 DEF PlacesInv
    <3> QED BY <1>2, <1>3, <1>6, <2>1, <3>1
  <2>2. CASE d = c /\ r = s /\ c \notin G[r]
    <3>1. \A t \in Resource : c \notin G[t]
      BY <1>1, <2>2 DEF Granting
    <3> QED BY <1>2, <1>7, <2>2, <3>1
  <2> QED BY <1>1, <2>1, <2>2 DEF Granting
<1>15. \A r \in Resource : \A i, j \in DOMAIN queue'[r] : queue'[r][i] = queue'[r][j] => i = j
  BY <1>1 DEF Granting
<1> QED BY <1>9, <1>10, <1>11, <1>12, <1>13, <1>14, <1>15 DEF PlacesInv

LEMMA ShiftTypes ==
  ASSUME BaseInv, NEW c \in SimClient, NEW s, NEW G, NEW w, Shift(c, s, G, w), Moved(c, s),
         work' \in [SimClient -> Nat], frame' \in Nat, clock' = clock
  PROVE  Types'
<1>1. due[c] \in Nat /\ due[c] # Never
  <2>1. due[c] \in Nat
    BY DueFacts
  <2> QED BY <2>1 DEF Never
<1>2. Types
  BY DEF BaseInv
<1>3. ClientTypes'
  BY <1>1, <1>2, MovedFacts DEF Types, ClientTypes
<1>4. due' \in [SimClient -> Time]
  <2>1. \A d \in SimClient : due[d] \in Time /\ w[d] \in Nat
    BY <1>2 DEF Shift, Types, ProcessTypes
  <2>2. \A d \in SimClient : due[c] + w[d] \in Time /\ Never \in Time
    BY <1>1, <2>1 DEF Time
  <2>3. \A d \in SimClient : (IF \E r \in Resource : d \in G[r] THEN due[c] + w[d]
                               ELSE IF d = c THEN Never ELSE due[d]) \in Time
    BY <2>1, <2>2
  <2>4. due' = [d \in SimClient |-> IF \E r \in Resource : d \in G[r] THEN due[c] + w[d]
                                    ELSE IF d = c THEN Never ELSE due[d]]
    BY DEF Shift
  <2> QED BY <2>3, <2>4
<1>5. held' \subseteq Interval
  <2>1. ASSUME NEW r \in Resource, NEW d \in G[r]
        PROVE  [res |-> r, who |-> d, from |-> due[c], to |-> due[c] + w[d], late |-> d \in late] \in Interval
    <3>1. d \in SimClient /\ due[c] + w[d] \in Nat
      BY <1>1 DEF Shift
    <3> QED BY <1>1, <3>1 DEF Interval
  <2>2. held' = held \cup
          UNION {{[res |-> r, who |-> d, from |-> due[c], to |-> due[c] + w[d], late |-> d \in late] : d \in G[r]}
                 : r \in Resource}
    BY DEF Shift
  <2> QED BY <1>2, <2>1, <2>2 DEF Types, ProcessTypes
<1>6. fired' \in Nat
  BY <1>1, <1>2 DEF Shift, Types, ProcessTypes
<1>7. stage' \in [SimClient -> Nat]
  BY <1>1, MovedFacts
<1>8. ProcessTypes'
  BY <1>4, <1>5, <1>6, <1>7 DEF ProcessTypes, Shift
<1> QED BY <1>3, <1>8 DEF Types

LEMMA ShiftBase ==
  ASSUME BaseInv, NEW c \in SimClient, NEW s, NEW G, NEW w, Shift(c, s, G, w), Moved(c, s),
         work' \in [SimClient -> Nat], frame' \in Nat, clock' = clock
  PROVE  BaseInv'
BY ShiftTypes, ShiftPlaces, ShiftRoom DEF BaseInv


-----------------------------------------------------------------------------
(* A step outside the simulation moves one client, which is not in it: it   *)
(* asks, takes its answer, or its request enters.                           *)
Aside(c) ==
  /\ ~Inside(c)
  /\ UNCHANGED <<users, queue, held, fired>>
  /\ \A d \in SimClient : d # c =>
       /\ ask'[d] = ask[d] /\ stage'[d] = stage[d] /\ place'[d] = place[d]
       /\ due'[d] = due[d] /\ completion'[d] = completion[d]
       /\ d \in late' <=> d \in late
  /\ stage'[c] = 0 /\ completion'[c] = Never
  /\ \/ /\ place'[c] \in {"idle", "socket"} /\ due'[c] = Never
        /\ place'[c] = "socket" => ask'[c].op \in Operation
     \/ /\ place'[c] = "simulation" /\ ask'[c] = ask[c] /\ ask[c].op \in Operation
        /\ due'[c] = ask[c].ts /\ ask[c].ts \in Nat
        /\ c \notin late' => ask[c].ts >= fired

Quiet == UNCHANGED <<ask, place, completion, stage, due, users, queue, held, fired, late>>

(* Whoever is not in the simulation holds nothing and waits for nothing.    *)
LEMMA OutsideFacts ==
  ASSUME BaseInv, NEW c \in SimClient, ~Inside(c)
  PROVE  /\ due[c] = Never
         /\ \A r \in Resource : c \notin users[r] /\ ~Queued(c, r)
BY DEF BaseInv, PlacesInv

LEMMA AskStep ==
  ASSUME BaseInv, NEW c \in SimClient,
         AskImage(c) \/ (c \in Streamers /\ AskFrame(c)) \/ TakeResponse(c)
  PROVE  Types' /\ Aside(c)
<1>1. Types /\ PlacesInv
  BY DEF BaseInv
<1>2. ASSUME NEW request \in Need, Send(c, request), request.op \in Operation,
             request.op \in {DecodeOnly, DecodeFace} => request.file \in Image
      PROVE  Types' /\ Aside(c)
  <2>1. place[c] = "idle"
    BY <1>2 DEF Send
  <2>2. /\ ask' = [ask EXCEPT ![c] = request] /\ place' = [place EXCEPT ![c] = "socket"]
        /\ UNCHANGED <<clock, completion, users, queue, held, frame, stage, due, work, fired, late>>
    BY <1>2 DEF Send, resourceVars, decoderVars, processVars
  <2>3. ClientTypes'
    BY <1>1, <1>2, <2>2 DEF Types, ClientTypes
  <2>4. ProcessTypes'
    BY <1>1, <2>2 DEF Types, ProcessTypes
  <2>5. stage[c] = 0 /\ completion[c] = Never /\ due[c] = Never /\ ~Inside(c)
    BY <1>1, <2>1, OutsideFacts DEF PlacesInv, Inside
  <2>6. ask'[c] = request /\ place'[c] = "socket"
    BY <1>1, <2>2 DEF Types, ClientTypes
  <2>7. \A d \in SimClient : d # c => ask'[d] = ask[d] /\ place'[d] = place[d]
    BY <1>1, <2>2 DEF Types, ClientTypes
  <2> QED BY <1>2, <2>2, <2>3, <2>4, <2>5, <2>6, <2>7 DEF Types, Aside
<1>3. clock \in Nat
  BY <1>1 DEF Types, ClientTypes
<1>4. CASE AskImage(c)
  <2>1. PICK op \in {DecodeOnly, DecodeFace}, image \in Image :
          Send(c, [op |-> op, file |-> image, frame |-> 0, ts |-> clock])
    BY <1>4 DEF AskImage
  <2>2. [op |-> op, file |-> image, frame |-> 0, ts |-> clock] \in Need
    BY <1>3 DEF Need, Operation
  <2> QED BY <1>2, <2>1, <2>2 DEF Operation
<1>5. CASE c \in Streamers /\ AskFrame(c)
  <2>1. PICK v \in Video, f \in 0 .. MaxFrame :
          Send(c, [op |-> DecodeVideo, file |-> v, frame |-> f, ts |-> clock])
    BY <1>5 DEF AskFrame
  <2>2. [op |-> DecodeVideo, file |-> v, frame |-> f, ts |-> clock] \in Need
    BY <1>3, SimAssumption DEF Need, Operation
  <2>3. DecodeVideo \notin {DecodeOnly, DecodeFace}
    BY DEF DecodeVideo, DecodeOnly, DecodeFace
  <2> QED BY <1>2, <2>1, <2>2, <2>3 DEF Operation
<1>6. CASE TakeResponse(c)
  <2>1. place[c] = "answered"
    BY <1>6 DEF TakeResponse
  <2>2. /\ ask' = [ask EXCEPT ![c] = NoRequest] /\ place' = [place EXCEPT ![c] = "idle"]
        /\ completion' = [completion EXCEPT ![c] = Never] /\ stage' = [stage EXCEPT ![c] = 0]
        /\ late' = late \ {c}
        /\ UNCHANGED <<clock, users, queue, held, frame, due, work, fired>>
    BY <1>6 DEF TakeResponse, resourceVars, decoderVars
  <2>3. /\ NoRequest \in Need /\ Never \in Time
        /\ NoRequest.op \notin {DecodeOnly, DecodeFace}
    BY DEF NoRequest, Need, Time, DecodeOnly, DecodeFace
  <2>4. ClientTypes'
    BY <1>1, <2>2, <2>3 DEF Types, ClientTypes
  <2>5. ProcessTypes'
    BY <1>1, <2>2 DEF Types, ProcessTypes
  <2>6. due[c] = Never /\ ~Inside(c)
    BY <2>1, OutsideFacts DEF Inside
  <2>7. /\ place'[c] = "idle" /\ completion'[c] = Never /\ stage'[c] = 0
        /\ \A d \in SimClient : d # c => /\ ask'[d] = ask[d] /\ place'[d] = place[d]
                                         /\ completion'[d] = completion[d] /\ stage'[d] = stage[d]
                                         /\ d \in late' <=> d \in late
    BY <1>1, <2>2 DEF Types, ClientTypes, ProcessTypes
  <2> QED BY <2>2, <2>4, <2>5, <2>6, <2>7 DEF Types, Aside
<1> QED BY <1>4, <1>5, <1>6

LEMMA TurnStep ==
  ASSUME BaseInv, Turn
  PROVE  Types' /\ ((\E c \in SimClient : Aside(c)) \/ Quiet)
<1>1. Types /\ PlacesInv
  BY DEF BaseInv
<1>2. UNCHANGED <<clock, ask, completion, users, queue, held, frame, work, fired>>
  BY DEF Turn, resourceVars, decoderVars
<1>3. CASE \E c \in SimClient : SchedRequest(c)
  <2>1. PICK c \in SimClient : SchedRequest(c)
    BY <1>3
  <2>2. /\ place[c] = "socket"
        /\ place' = [place EXCEPT ![c] = "simulation"] /\ stage' = [stage EXCEPT ![c] = 0]
        /\ due' = [due EXCEPT ![c] = ask[c].ts]
        /\ late' = IF ask[c].ts < fired THEN late \cup {c} ELSE late
    BY <2>1 DEF SchedRequest
  <2>3. ask[c].ts \in Nat /\ fired \in Nat /\ ask[c].ts \in Time
    BY <1>1 DEF Types, ClientTypes, ProcessTypes, Need, Time
  <2>4. ~Inside(c) /\ ask[c].op \in Operation /\ completion[c] = Never
    BY <1>1, <2>2 DEF PlacesInv, Inside
  <2>5. ClientTypes'
    BY <1>1, <1>2, <2>2 DEF Types, ClientTypes
  <2>6. ProcessTypes'
    BY <1>1, <1>2, <2>2, <2>3 DEF Types, ProcessTypes
  <2>7. /\ place'[c] = "simulation" /\ stage'[c] = 0 /\ due'[c] = ask[c].ts
        /\ \A d \in SimClient : d # c => /\ place'[d] = place[d] /\ stage'[d] = stage[d]
                                         /\ due'[d] = due[d] /\ (d \in late' <=> d \in late)
        /\ c \notin late' => ask[c].ts >= fired
    <3>1. place'[c] = "simulation" /\ \A d \in SimClient : d # c => place'[d] = place[d]
      BY <1>1, <2>2 DEF Types, ClientTypes
    <3>2. /\ stage'[c] = 0 /\ due'[c] = ask[c].ts
          /\ \A d \in SimClient : d # c => stage'[d] = stage[d] /\ due'[d] = due[d]
      BY <1>1, <2>2 DEF Types, ProcessTypes
    <3>3. \A d \in SimClient : d # c => (d \in late' <=> d \in late)
      BY <2>2
    <3>4. c \notin late' => ask[c].ts >= fired
      BY <2>2, <2>3
    <3> QED BY <3>1, <3>2, <3>3, <3>4
  <2>8. Aside(c)
    BY <1>2, <2>3, <2>4, <2>7 DEF Aside
  <2> QED BY <2>5, <2>6, <2>8 DEF Types
<1>4. CASE UNCHANGED <<place, stage, due, late>>
  <2>1. Quiet
    BY <1>2, <1>4 DEF Quiet
  <2>2. Types'
    BY <1>1, <1>2, <1>4 DEF Types, ClientTypes, ProcessTypes
  <2> QED BY <2>1, <2>2
<1> QED BY <1>3, <1>4 DEF Turn

LEMMA QuietStep ==
  ASSUME BaseInv,
         \/ RunStarts \/ RunEnds \/ Tick \/ UNCHANGED vars
         \/ \E c \in SimClient : LookupFails(c) \/ VideoAssertion(c)
  PROVE  Types' /\ Quiet
<1>1. Types
  BY DEF BaseInv
<1>2. CASE RunStarts \/ RunEnds \/ UNCHANGED vars \/ \E c \in SimClient : LookupFails(c)
  <2>1. UNCHANGED <<clock, clientVars, resourceVars, decoderVars, processVars>>
    BY <1>2 DEF RunStarts, RunEnds, LookupFails, vars
  <2> QED BY <1>1, <2>1 DEF clientVars, resourceVars, decoderVars, processVars, Types, ClientTypes, ProcessTypes, Quiet
<1>3. CASE Tick
  <2>1. clock' = clock + 1 /\ UNCHANGED <<clientVars, resourceVars, decoderVars, processVars>>
    BY <1>3 DEF Tick
  <2> QED BY <1>1, <2>1 DEF clientVars, resourceVars, decoderVars, processVars, Types, ClientTypes, ProcessTypes, Quiet
<1>4. ASSUME NEW c \in SimClient, VideoAssertion(c)
      PROVE  Types' /\ Quiet
  <2>1. frame' = StartFrame(c) /\ UNCHANGED <<clock, clientVars, resourceVars, processVars>>
    BY <1>4 DEF VideoAssertion
  <2>2. frame' \in Nat
    BY <1>1, <2>1 DEF StartFrame, Types, ProcessTypes
  <2> QED BY <1>1, <2>1, <2>2 DEF clientVars, resourceVars, processVars, Types, ClientTypes, ProcessTypes, Quiet
<1> QED BY <1>2, <1>3, <1>4

(* Every step is of one of the three kinds.                                 *)
LEMMA StepKinds ==
  ASSUME BaseInv, [Next]_vars
  PROVE  \/ \E c \in SimClient : \E s, G, w : Shift(c, s, G, w) /\ Moved(c, s) /\ BaseInv'
         \/ Types' /\ \E c \in SimClient : Aside(c)
         \/ Types' /\ Quiet
<1>1. ASSUME NEW c \in SimClient, Advance(c) \/ EnterVideo(c)
      PROVE  \E s, G, w : Shift(c, s, G, w) /\ Moved(c, s) /\ BaseInv'
  <2>1. PICK G, w : Shift(c, There(c), G, w) /\ Onward(c) /\ work' = w
    BY <1>1, AdvanceShifts
  <2>2. frame \in Nat /\ ask[c].frame \in Nat
    BY DEF BaseInv, Types, ClientTypes, ProcessTypes, Need
  <2>3. frame' \in Nat
    <3>1. CASE Advance(c)
      BY <2>2, <3>1 DEF Advance, FrameAfter
    <3>2. CASE EnterVideo(c)
      BY <2>2, <3>2 DEF EnterVideo, StartFrame
    <3> QED BY <1>1, <3>1, <3>2
  <2>4. work' \in [SimClient -> Nat] /\ clock' = clock
    BY <1>1, <2>1 DEF Shift, Advance, EnterVideo
  <2>5. PICK s : s = There(c)
    OBVIOUS
  <2>6. Shift(c, s, G, w) /\ Moved(c, s)
    BY <2>1, <2>5 DEF Moved
  <2>7. BaseInv'
    BY <2>3, <2>4, <2>6, ShiftBase
  <2> QED BY <2>6, <2>7
<1>2. ASSUME NEW c \in SimClient, Complete(c)
      PROVE  \E s, G, w : Shift(c, s, G, w) /\ Moved(c, s) /\ BaseInv'
  <2>1. PICK G, w : Shift(c, Nowhere, G, w) /\ Homeward(c) /\ stage[c] = Len(Route(ask[c].op))
    BY <1>2, CompleteShifts
  <2>2. work' \in [SimClient -> Nat] /\ clock' = clock /\ frame' \in Nat
    BY <1>2 DEF Complete, decoderVars, BaseInv, Types, ProcessTypes
  <2>3. Moved(c, Nowhere)
    BY <2>1 DEF Moved
  <2>4. BaseInv'
    BY <2>1, <2>2, <2>3, ShiftBase
  <2> QED BY <2>1, <2>3, <2>4
<1>3. Streamers \subseteq SimClient
  BY SimAssumption
<1> QED BY <1>1, <1>2, <1>3, AskStep, TurnStep, QuietStep DEF Next, Server

LEMMA AsideBase ==
  ASSUME BaseInv, NEW c \in SimClient, Aside(c), Types'
  PROVE  BaseInv'
<1>1. PlacesInv /\ RoomInv
  BY DEF BaseInv
<1>2. due[c] = Never /\ \A r \in Resource : c \notin users[r] /\ ~Queued(c, r)
  BY OutsideFacts DEF Aside
<1>3. UNCHANGED <<users, queue>>
  BY DEF Aside
<1>4. \A d \in SimClient : d # c =>
        /\ ask'[d] = ask[d] /\ stage'[d] = stage[d] /\ place'[d] = place[d]
        /\ due'[d] = due[d] /\ completion'[d] = completion[d]
  BY DEF Aside
<1>5. \A d \in SimClient : d # c => (Inside(d)' <=> Inside(d)) /\ Here(d)' = Here(d)
  BY <1>4 DEF Inside, Here
<1>6. \A d \in SimClient, r \in Resource : Queued(d, r)' <=> Queued(d, r)
  BY <1>3 DEF Queued
<1>7. /\ place'[c] = "simulation" => ask'[c].op \in Operation
      /\ place'[c] = "socket" => ask'[c].op \in Operation
      /\ stage'[c] = 0 /\ completion'[c] = Never
      /\ due'[c] # Never => place'[c] = "simulation"
  BY DEF Aside
<1>8. PlacesInv'
  <2>1. \A d \in SimClient : Inside(d)' => ask'[d].op \in Operation /\ stage'[d] <= Len(Route(ask'[d].op))
    <3>1. place'[c] = "simulation" => 0 <= Len(Route(ask'[c].op))
      BY <1>7, RouteFacts
    <3> QED BY <1>1, <1>4, <1>5, <1>7, <3>1 DEF PlacesInv, Inside
  <2>2. \A d \in SimClient : place'[d] \in {"idle", "socket"} => stage'[d] = 0 /\ completion'[d] = Never
    BY <1>1, <1>4, <1>7 DEF PlacesInv, Aside
  <2>3. \A d \in SimClient : place'[d] = "socket" => ask'[d].op \in Operation
    BY <1>1, <1>4, <1>7 DEF PlacesInv
  <2>4. \A d \in SimClient : due'[d] # Never => Inside(d)' /\ (stage'[d] > 0 => d \in users'[Here(d)'])
    <3>1. \A d \in SimClient : d # c /\ due'[d] # Never => Inside(d)' /\ (stage'[d] > 0 => d \in users'[Here(d)'])
      BY <1>1, <1>3, <1>4, <1>5 DEF PlacesInv
    <3>2. due'[c] # Never => Inside(c)' /\ ~(stage'[c] > 0)
      BY <1>7 DEF Inside, Aside
    <3> QED BY <3>1, <3>2
  <2>5. \A d \in SimClient, r \in Resource : d \in users'[r] =>
          Inside(d)' /\ stage'[d] > 0 /\ Here(d)' = r /\ due'[d] # Never
    BY <1>1, <1>2, <1>3, <1>4, <1>5 DEF PlacesInv
  <2>6. \A d \in SimClient, r \in Resource : Queued(d, r)' =>
          Inside(d)' /\ stage'[d] > 0 /\ Here(d)' = r /\ due'[d] = Never
    BY <1>1, <1>2, <1>4, <1>5, <1>6 DEF PlacesInv
  <2>7. \A r \in Resource : \A i, j \in DOMAIN queue'[r] : queue'[r][i] = queue'[r][j] => i = j
    BY <1>1, <1>3 DEF PlacesInv
  <2> QED BY <2>1, <2>2, <2>3, <2>4, <2>5, <2>6, <2>7 DEF PlacesInv
<1>9. RoomInv'
  BY <1>1, <1>3 DEF RoomInv
<1> QED BY <1>8, <1>9 DEF BaseInv

LEMMA QuietBase ==
  ASSUME BaseInv, Quiet, Types'
  PROVE  BaseInv'
BY DEF BaseInv, Quiet, PlacesInv, RoomInv, Inside, Queued, Here

LEMMA BaseStep ==
  ASSUME BaseInv, [Next]_vars
  PROVE  BaseInv'
BY StepKinds, AsideBase, QuietBase

LEMMA BaseInit == Init => BaseInv
<1> SUFFICES ASSUME Init PROVE BaseInv
  OBVIOUS
<1>1. Types
  <2>1. NoRequest \in Need /\ Never \in Time /\ NoRequest.op \notin {DecodeOnly, DecodeFace}
    BY DEF NoRequest, Need, Time, DecodeOnly, DecodeFace
  <2>2. ClientTypes
    BY <2>1 DEF Init, ClientTypes
  <2>3. ProcessTypes
    BY <2>1 DEF Init, ProcessTypes
  <2> QED BY <2>2, <2>3 DEF Types
<1>2. PlacesInv
  BY DEF Init, PlacesInv, Inside, Queued
<1>3. RoomInv
  <2>1. \A r \in Resource : users[r] = {} /\ queue[r] = <<>> /\ Capacity[r] \in Nat
    BY SimAssumption DEF Init
  <2>2. \A r \in Resource : Cardinality(users[r]) = 0
    BY <2>1, FS_EmptySet
  <2> QED BY <2>1, <2>2 DEF RoomInv
<1> QED BY <1>1, <1>2, <1>3 DEF BaseInv

LEMMA BaseHolds == Spec => []BaseInv
<1>1. BaseInv /\ [Next]_vars => BaseInv'
  BY BaseStep
<1> QED BY BaseInit, <1>1, PTL DEF Spec

-----------------------------------------------------------------------------
(* Order, and what is held.                                                 *)
LEMMA FiredFacts ==
  ASSUME BaseInv, NEW c \in SimClient, NEW s, NEW G, NEW w, Shift(c, s, G, w)
  PROVE  /\ due[c] \in Nat /\ fired \in Nat /\ fired' \in Nat
         /\ fired' >= fired /\ fired' >= due[c]
         /\ due[c] >= fired => fired' = due[c]
         /\ late' = late
<1>1. due[c] \in Nat
  BY DueFacts
<1>2. fired \in Nat
  BY DEF BaseInv, Types, ProcessTypes
<1> QED BY <1>1, <1>2 DEF Shift

(* A request in time is granted a resource only at a time not simulated     *)
(* before.                                                                  *)
LEMMA TimelyGrants ==
  ASSUME BaseInv, OrderInv, NEW c \in SimClient, NEW s, NEW G, NEW w, Shift(c, s, G, w),
         NEW r \in Resource, NEW d \in G[r], d \notin late
  PROVE  due[c] >= fired /\ fired' = due[c]
<1>1. Granting(c, s, G) /\ d \in SimClient /\ due[c] # Never
  BY GrantFacts DEF Shift
<1>2. due[c] >= fired
  <2>1. CASE d = c
    BY <1>1, <2>1 DEF OrderInv
  <2>2. CASE d # c
    BY <1>1, <2>2 DEF OrderInv, Granting
  <2> QED BY <2>1, <2>2
<1> QED BY <1>2, FiredFacts

LEMMA ShiftOrder ==
  ASSUME BaseInv, OrderInv, NEW c \in SimClient, NEW s, NEW G, NEW w, Shift(c, s, G, w)
  PROVE  OrderInv'
<1>1. Granting(c, s, G)
  BY GrantFacts
<1>2. /\ due[c] \in Nat /\ fired \in Nat /\ fired' \in Nat
      /\ fired' >= fired /\ fired' >= due[c]
      /\ due[c] >= fired => fired' = due[c]
      /\ late' = late
      /\ fired' = (IF due[c] > fired THEN due[c] ELSE fired)
  <2>1. fired' = (IF due[c] > fired THEN due[c] ELSE fired)
    BY DEF Shift
  <2> QED BY <2>1, FiredFacts
<1>3. /\ \A r \in Resource : \A d \in G[r] : due'[d] = due[c] + w[d] /\ w[d] \in Nat
      /\ (\A r \in Resource : c \notin G[r]) => due'[c] = Never
      /\ \A d \in SimClient : d # c /\ (\A r \in Resource : d \notin G[r]) => due'[d] = due[d]
      /\ \A r \in Resource : \A d \in users[r] : d # c => due'[d] = due[d] /\ due[d] >= due[c]
  BY DueFacts
<1>4. due[c] # Never /\ \A d \in SimClient : due[d] # Never => due[c] <= due[d]
  BY DEF Shift
<1>5. \A r \in Resource : \A d \in G[r] : d \notin late => fired' = due[c]
  BY TimelyGrants
<1>6. ASSUME NEW d \in SimClient, d \notin late', due'[d] # Never
      PROVE  due'[d] >= fired'
  <2>1. CASE \E r \in Resource : d \in G[r]
    BY <1>2, <1>3, <1>5, <1>6, <2>1
  <2>2. CASE \A r \in Resource : d \notin G[r]
    <3>1. d # c /\ due'[d] = due[d]
      BY <1>3, <1>6, <2>2
    <3>2. due[d] \in Nat
      BY <1>6, <3>1 DEF BaseInv, Types, ProcessTypes, Time
    <3>3. due[d] >= fired /\ due[d] >= due[c]
      BY <1>2, <1>4, <1>6, <3>1, <3>2 DEF OrderInv
    <3> QED BY <1>2, <3>1, <3>2, <3>3
  <2> QED BY <2>1, <2>2
<1>7. ASSUME NEW r \in Resource, NEW d \in SimClient, NEW u \in users'[r], Queued(d, r)', d \notin late'
      PROVE  due'[u] >= fired'
  <2>1. users'[r] = (users[r] \ {c}) \cup G[r]
    BY DEF Shift
  <2>2. \A v \in users[r] : v \in SimClient /\ due[v] \in Nat
    BY DEF BaseInv, Types, ProcessTypes, PlacesInv, Time
  <2>3. CASE Queued(d, r) /\ d # c /\ d \notin G[r]
    <3>1. \A v \in users[r] : due[v] >= fired
      BY <1>2, <1>7, <2>3 DEF OrderInv
    <3>2. CASE u \in users[r] \ {c}
      BY <1>2, <1>3, <2>2, <3>1, <3>2
    <3>3. CASE u \in G[r]
      <4>1. c \in users[r]
        <5>1. CASE u = c
          <6>1. r = s
            BY <1>1, <3>3, <5>1 DEF Granting
          <6>2. Cardinality(users[r]) < Capacity[r]
            BY <3>3, <6>1 DEF Shift
          <6>3. queue[r] # <<>>
            BY <2>3 DEF Queued
          <6>4. Capacity[r] \in Nat
            BY SimAssumption
          <6> QED BY <6>2, <6>3, <6>4 DEF BaseInv, RoomInv
        <5>2. CASE u # c
          BY <1>1, <3>3, <5>2 DEF Granting
        <5> QED BY <5>1, <5>2
      <4>2. fired' = due[c]
        BY <1>2, <3>1, <4>1
      <4> QED BY <1>2, <1>3, <3>3, <4>2
    <3> QED BY <2>1, <3>2, <3>3
  <2>4. CASE d = c /\ r = s /\ c \notin G[r]
    <3>1. due[c] >= fired
      BY <1>2, <1>4, <1>7, <2>4 DEF OrderInv
    <3>2. G[r] = {}
      BY <2>4 DEF Shift
    <3>3. u \in users[r] /\ u # c
      BY <2>1, <3>2
    <3> QED BY <1>2, <1>3, <2>2, <3>1, <3>3
  <2> QED BY <1>1, <1>7, <2>3, <2>4 DEF Granting
<1> QED BY <1>6, <1>7 DEF OrderInv

LEMMA AsideOrder ==
  ASSUME BaseInv, OrderInv, NEW c \in SimClient, Aside(c)
  PROVE  OrderInv'
<1>1. \A r \in Resource : c \notin users[r] /\ ~Queued(c, r)
  BY OutsideFacts DEF Aside
<1>2. UNCHANGED <<users, queue, fired>>
  BY DEF Aside
<1>3. \A d \in SimClient, r \in Resource : Queued(d, r)' <=> Queued(d, r)
  BY <1>2 DEF Queued
<1>4. \A d \in SimClient : d # c => due'[d] = due[d] /\ (d \in late' <=> d \in late)
  BY DEF Aside
<1>5. c \notin late' /\ due'[c] # Never => due'[c] >= fired
  BY DEF Aside
<1>6. \A d \in SimClient : d \notin late' /\ due'[d] # Never => due'[d] >= fired'
  BY <1>2, <1>4, <1>5 DEF OrderInv
<1>7. ASSUME NEW r \in Resource, NEW d \in SimClient, NEW u \in users'[r], Queued(d, r)', d \notin late'
      PROVE  due'[u] >= fired'
  <2>1. u \in users[r] /\ u \in SimClient /\ u # c /\ d # c /\ Queued(d, r)
    BY <1>1, <1>2, <1>3, <1>7 DEF BaseInv, Types, ProcessTypes
  <2> QED BY <1>2, <1>4, <1>7, <2>1 DEF OrderInv
<1> QED BY <1>6, <1>7 DEF OrderInv

LEMMA QuietOrder ==
  ASSUME OrderInv, Quiet
  PROVE  OrderInv'
BY DEF OrderInv, Quiet, Queued

(* A new interval begins when the step takes place, for what was just       *)
(* granted.                                                                 *)
LEMMA NewIntervals ==
  ASSUME NEW c \in SimClient, NEW s, NEW G, NEW w, Shift(c, s, G, w), NEW h \in held', h \notin held
  PROVE  /\ h.res \in Resource /\ h.who \in G[h.res]
         /\ h.from = due[c] /\ h.to = due[c] + w[h.who] /\ (h.late => h.who \in late) /\ (~h.late => h.who \notin late)
         /\ \A g \in held' : g \notin held /\ g.res = h.res /\ g.who = h.who => g = h
<1>1. held' = held \cup
        UNION {{[res |-> r, who |-> d, from |-> due[c], to |-> due[c] + w[d], late |-> d \in late] : d \in G[r]}
               : r \in Resource}
  BY DEF Shift
<1>2. PICK r \in Resource : \E d \in G[r] :
        h = [res |-> r, who |-> d, from |-> due[c], to |-> due[c] + w[d], late |-> d \in late]
  BY <1>1
<1>3. PICK d, k : /\ d \in G[r] /\ k = (d \in late)
                  /\ h = [res |-> r, who |-> d, from |-> due[c], to |-> due[c] + w[d], late |-> k]
  BY <1>2
<1>4. h.res = r /\ h.who = d /\ h.from = due[c] /\ h.to = due[c] + w[d] /\ h.late = k
  BY <1>3
<1>5. ASSUME NEW g \in held', g \notin held, g.res = h.res, g.who = h.who
      PROVE  g = h
  <2>1. PICK q \in Resource : \E e \in G[q] :
          g = [res |-> q, who |-> e, from |-> due[c], to |-> due[c] + w[e], late |-> e \in late]
    BY <1>1, <1>5
  <2>2. PICK e, b : /\ e \in G[q] /\ b = (e \in late)
                    /\ g = [res |-> q, who |-> e, from |-> due[c], to |-> due[c] + w[e], late |-> b]
    BY <2>1
  <2>3. q = r /\ e = d
    BY <1>4, <1>5, <2>2
  <2> QED BY <1>3, <2>2, <2>3
<1> QED BY <1>3, <1>4, <1>5

LEMMA ShiftHold ==
  ASSUME BaseInv, OrderInv, HoldInv, BaseInv', NEW c \in SimClient, NEW s, NEW G, NEW w, Shift(c, s, G, w)
  PROVE  HoldInv'
<1>1. Granting(c, s, G)
  BY GrantFacts
<1>2. /\ due[c] \in Nat /\ fired \in Nat /\ fired' \in Nat
      /\ fired' >= fired /\ fired' >= due[c]
  BY FiredFacts
<1>3. /\ \A r \in Resource : \A d \in G[r] : due'[d] = due[c] + w[d] /\ w[d] \in Nat /\ d \in users'[r]
      /\ \A r \in Resource : \A d \in users[r] : d # c => due'[d] = due[d] /\ d \in users'[r]
  <2>1. \A r \in Resource : \A d \in G[r] : d \in users'[r]
    BY DEF Shift
  <2> QED BY <2>1, DueFacts
<1>4. held \subseteq Interval /\ held' \subseteq Interval
  BY DEF BaseInv, Types, ProcessTypes
<1>5. \A h \in held' : h \notin held =>
        /\ h.res \in Resource /\ h.who \in G[h.res]
        /\ h.from = due[c] /\ h.to = due[c] + w[h.who] /\ (~h.late => h.who \notin late)
        /\ \A g \in held' : g \notin held /\ g.res = h.res /\ g.who = h.who => g = h
  BY NewIntervals
<1>6. \A h \in held : h \in held'
  BY DEF Shift
<1>7. ASSUME NEW h \in held, ~h.late, h.to > fired'
      PROVE  h.who \in users[h.res] /\ due[h.who] = h.to /\ h.who # c /\ h.to > fired
  <2>1. h.to \in Nat
    BY <1>4 DEF Interval
  <2>2. h.to > fired
    BY <1>2, <1>7, <2>1
  <2>3. h.who \in users[h.res] /\ due[h.who] = h.to
    BY <1>7, <2>2 DEF HoldInv
  <2>4. h.who # c
    BY <1>2, <1>7, <2>1, <2>3
  <2> QED BY <2>2, <2>3, <2>4
<1>8. ASSUME NEW h \in held', ~h.late, h.to > fired'
      PROVE  h.who \in users'[h.res] /\ due'[h.who] = h.to
  <2>1. CASE h \in held
    BY <1>3, <1>4, <1>7, <1>8, <2>1 DEF Interval
  <2>2. CASE h \notin held
    <3>1. h.to = due[c] + w[h.who]
      BY <1>5, <2>2
    <3> QED BY <1>3, <1>5, <2>2, <3>1
  <2> QED BY <2>1, <2>2
<1>9. ASSUME NEW g \in held, NEW h \in held', h \notin held, ~g.late, g.to > fired'
      PROVE  g.who # h.who
  <2>1. g.who \in users[g.res] /\ g.who # c /\ g.res \in Resource
    BY <1>4, <1>7, <1>9 DEF Interval
  <2>2. due[g.who] # Never
    BY <2>1 DEF BaseInv, PlacesInv, Types, ProcessTypes
  <2>3. h.who \in G[h.res] /\ h.res \in Resource
    BY <1>5, <1>9
  <2> QED BY <1>1, <2>1, <2>2, <2>3 DEF Granting
<1>10. ASSUME NEW g \in held', NEW h \in held', ~g.late, ~h.late, g.to > fired', h.to > fired', g.who = h.who
       PROVE  g = h
  <2>1. CASE g \in held /\ h \in held
    BY <1>7, <1>10, <2>1 DEF HoldInv
  <2>2. CASE g \notin held /\ h \notin held
    <3>1. g.res = h.res
      BY <1>1, <1>5, <1>10, <2>2 DEF Granting
    <3> QED BY <1>5, <1>10, <2>2, <3>1
  <2> QED BY <1>9, <1>10, <2>1, <2>2
<1>11. ASSUME NEW r \in Resource, NEW t \in Nat
       PROVE  Cardinality(Covering(r, t)') <= Capacity[r]
  <2>1. CASE t < fired'
    <3>1. ASSUME NEW h \in held', h \notin held, ~h.late
          PROVE  ~(h.from <= t)
      <4>1. h.from = due[c] /\ h.who \notin late /\ h.who \in G[h.res] /\ h.res \in Resource
        BY <1>5, <3>1
      <4>2. fired' = due[c]
        BY <4>1, TimelyGrants
      <4> QED BY <1>2, <2>1, <4>1, <4>2
    <3>2. Covering(r, t)' = Covering(r, t)
      BY <1>6, <3>1 DEF Covering
    <3> QED BY <3>2 DEF HoldInv
  <2>2. CASE t >= fired'
    <3> DEFINE C == Covering(r, t)'
               f == [h \in C |-> h.who]
    <3>1. ASSUME NEW h \in C
          PROVE  h \in held' /\ h.res = r /\ ~h.late /\ h.to > fired'
      <4>1. h \in held' /\ h.res = r /\ ~h.late /\ t < h.to
        BY <3>1 DEF Covering
      <4>2. h.to \in Nat
        BY <1>4, <4>1 DEF Interval
      <4> QED BY <1>2, <2>2, <4>1, <4>2
    <3>2. \A h \in C : h.who \in users'[r]
      BY <1>8, <3>1
    <3>3. \A g, h \in C : g.who = h.who => g = h
      BY <1>10, <3>1
    <3> HIDE DEF C
    <3>4. f \in Injection(C, users'[r])
      BY <3>2, <3>3 DEF Injection, IsInjective
    <3>5. IsFiniteSet(users'[r]) /\ Cardinality(users'[r]) \in Nat /\ Cardinality(users'[r]) <= Capacity[r]
      <4>1. users'[r] \subseteq SimClient
        BY DEF BaseInv, Types, ProcessTypes
      <4>2. IsFiniteSet(users'[r])
        BY <4>1, SimAssumption, FS_Subset
      <4> QED BY <4>2, FS_CardinalityType DEF BaseInv, RoomInv
    <3> HIDE DEF f
    <3>6. IsFiniteSet(C) /\ Cardinality(C) <= Cardinality(users'[r])
      BY <3>4, <3>5, FS_Injection
    <3>7. Cardinality(C) \in Nat /\ Capacity[r] \in Nat
      BY <3>6, FS_CardinalityType, SimAssumption
    <3>8. Cardinality(C) <= Capacity[r]
      BY <3>5, <3>6, <3>7
    <3> QED BY <3>8 DEF C
  <2> QED BY <1>2, <2>1, <2>2
<1>12. \A r \in Resource, t \in Nat : Cardinality(Covering(r, t)') <= Capacity[r]
  BY <1>11
<1> QED BY <1>8, <1>10, <1>12 DEF HoldInv, Covering

LEMMA AsideHold ==
  ASSUME BaseInv, HoldInv, NEW c \in SimClient, Aside(c)
  PROVE  HoldInv'
<1>1. \A r \in Resource : c \notin users[r]
  BY OutsideFacts DEF Aside
<1>2. UNCHANGED <<users, held, fired>>
  BY DEF Aside
<1>3. \A h \in held : h.res \in Resource /\ h.who \in SimClient
  BY DEF BaseInv, Types, ProcessTypes, Interval
<1>4. \A d \in SimClient : d # c => due'[d] = due[d]
  BY DEF Aside
<1>5. \A h \in held' : ~h.late /\ h.to > fired' => h.who \in users'[h.res] /\ due'[h.who] = h.to
  BY <1>1, <1>2, <1>3, <1>4 DEF HoldInv
<1>6. \A g, h \in held' : ~g.late /\ ~h.late /\ g.to > fired' /\ h.to > fired' /\ g.who = h.who => g = h
  BY <1>2 DEF HoldInv
<1>7. \A r \in Resource, t \in Nat : Cardinality(Covering(r, t)') <= Capacity[r]
  BY <1>2 DEF HoldInv, Covering
<1> QED BY <1>5, <1>6, <1>7 DEF HoldInv, Covering

LEMMA QuietHold ==
  ASSUME HoldInv, Quiet
  PROVE  HoldInv'
BY DEF HoldInv, Quiet, Covering

TimingInv == BaseInv /\ OrderInv /\ HoldInv

LEMMA TimingInit == Init => TimingInv
<1> SUFFICES ASSUME Init PROVE TimingInv
  OBVIOUS
<1>1. OrderInv
  BY DEF Init, OrderInv
<1>2. HoldInv
  <2>1. \A r \in Resource, t \in Nat : Covering(r, t) = {}
    BY DEF Init, Covering
  <2>2. \A r \in Resource, t \in Nat : Cardinality(Covering(r, t)) = 0 /\ Capacity[r] \in Nat
    BY <2>1, FS_EmptySet, SimAssumption
  <2>3. \A r \in Resource, t \in Nat : Cardinality(Covering(r, t)) <= Capacity[r]
    BY <2>2
  <2> QED BY <2>3 DEF Init, HoldInv
<1> QED BY <1>1, <1>2, BaseInit DEF TimingInv

LEMMA TimingStep ==
  ASSUME TimingInv, [Next]_vars
  PROVE  TimingInv'
<1>1. BaseInv /\ OrderInv /\ HoldInv /\ BaseInv'
  BY BaseStep DEF TimingInv
<1>2. OrderInv'
  BY <1>1, StepKinds, ShiftOrder, AsideOrder, QuietOrder
<1>3. HoldInv'
  BY <1>1, StepKinds, ShiftHold, AsideHold, QuietHold
<1> QED BY <1>1, <1>2, <1>3 DEF TimingInv

(* At no simulated time do the requests that were in time hold more of a    *)
(* resource than there is, however often the clock was set back for others  *)
(* (storage.py:92).                                                         *)
THEOREM CapacityIsKept == Spec => []CapacityKept
<1>1. TimingInv /\ [Next]_vars => TimingInv'
  BY TimingStep
<1>2. TimingInv => CapacityKept
  <2> SUFFICES ASSUME TimingInv, NEW r \in Resource, NEW t \in {h.from : h \in held}
               PROVE  Cardinality(Covering(r, t)) <= Capacity[r]
    BY DEF CapacityKept, Covering
  <2>1. t \in Nat
    BY DEF TimingInv, BaseInv, Types, ProcessTypes, Interval
  <2> QED BY <2>1 DEF TimingInv, HoldInv
<1> QED BY TimingInit, <1>1, <1>2, PTL DEF Spec

-----------------------------------------------------------------------------
(* What a request is charged.                                               *)
LEMMA ChargedGrows ==
  ASSUME NEW H \in SUBSET Interval, NEW K, H \subseteq K, NEW d, NEW q, q.ts \in Nat,
         NEW n \in Nat, NEW upto \in Nat, NEW later \in Nat, upto <= later, Charged(H, d, q, n, upto)
  PROVE  Charged(K, d, q, n, later)
<1>1. \A j \in Nat : Charge(H, d, q, j, upto) \subseteq Charge(K, d, q, j, later)
  <2> SUFFICES ASSUME NEW j \in Nat, NEW h \in Charge(H, d, q, j, upto)
               PROVE  h \in Charge(K, d, q, j, later)
    OBVIOUS
  <2>1. h \in K /\ h.who = d /\ h.res = Route(q.op)[j] /\ h.from >= q.ts /\ h.to <= upto /\ h.to \in Nat
    BY DEF Charge, Interval
  <2>2. h.to <= later
    BY <2>1
  <2> QED BY <2>1, <2>2 DEF Charge
<1>2. ASSUME NEW i \in 1 .. n
      PROVE  \E h \in Charge(K, d, q, i, later) : i < n => \E g \in Charge(K, d, q, i + 1, later) : g.from >= h.to
  <2>1. PICK h \in Charge(H, d, q, i, upto) : i < n => \E g \in Charge(H, d, q, i + 1, upto) : g.from >= h.to
    BY DEF Charged
  <2> QED BY <1>1, <2>1
<1>3. later >= q.ts
  BY DEF Charged
<1> QED BY <1>2, <1>3 DEF Charged

(* Served at its next stage from then on.                                   *)
LEMMA ChargedOnce ==
  ASSUME NEW H \in SUBSET Interval, NEW K, H \subseteq K, NEW d, NEW q, q.ts \in Nat,
         NEW n \in Nat, NEW upto \in Nat, NEW later \in Nat, upto <= later, Charged(H, d, q, n, upto),
         NEW h \in K, h.who = d, h.res = Route(q.op)[n + 1], h.from = upto, h.to = later
  PROVE  Charged(K, d, q, n + 1, later)
<1>1. upto >= q.ts /\ later >= q.ts
  BY DEF Charged
<1>2. h \in Charge(K, d, q, n + 1, later)
  BY <1>1 DEF Charge
<1>3. Charged(K, d, q, n, later)
  BY ChargedGrows
<1>4. ASSUME NEW i \in 1 .. n + 1
      PROVE  \E k \in Charge(K, d, q, i, later) : i < n + 1 => \E g \in Charge(K, d, q, i + 1, later) : g.from >= k.to
  <2>1. CASE i = n + 1
    BY <1>2, <2>1
  <2>2. CASE i \in 1 .. n /\ i < n
    BY <1>3, <2>2 DEF Charged
  <2>3. CASE i \in 1 .. n /\ i = n
    <3>1. PICK k \in Charge(H, d, q, i, upto) : TRUE
      BY <2>3 DEF Charged
    <3>2. /\ k \in K /\ k.who = d /\ k.res = Route(q.op)[i] /\ k.from >= q.ts /\ k.to <= upto /\ k.to \in Nat
      BY <3>1 DEF Charge, Interval
    <3>3. k.to <= later /\ h.from >= k.to
      BY <3>2
    <3>4. k \in Charge(K, d, q, i, later)
      BY <3>2, <3>3 DEF Charge
    <3> QED BY <1>2, <2>3, <3>3, <3>4
  <2> QED BY <2>1, <2>2, <2>3
<1> QED BY <1>1, <1>4 DEF Charged

LEMMA ShiftCharge ==
  ASSUME BaseInv, ChargeInv, NEW c \in SimClient, NEW s, NEW G, NEW w, Shift(c, s, G, w), Moved(c, s)
  PROVE  ChargeInv'
<1>1. Granting(c, s, G)
  BY GrantFacts
<1>2. /\ due[c] \in Nat
      /\ \A r \in Resource : \A d \in G[r] : due'[d] = due[c] + w[d] /\ w[d] \in Nat /\ due'[d] \in Nat
      /\ \A d \in SimClient : d # c /\ (\A r \in Resource : d \notin G[r]) => due'[d] = due[d]
      /\ \A r \in Resource : \A d \in users[r] : d # c => due'[d] = due[d] /\ due[d] >= due[c]
  BY DueFacts
<1>3. due[c] # Never /\ users \in [Resource -> SUBSET SimClient] /\ users' \in [Resource -> SUBSET SimClient]
  BY DEF Shift, BaseInv, Types, ProcessTypes
<1>4. /\ ask' = ask /\ \A d \in SimClient : d # c => stage'[d] = stage[d] /\ place'[d] = place[d]
                                                    /\ completion'[d] = completion[d]
      /\ s \in Resource => /\ s = There(c) /\ stage'[c] = stage[c] + 1 /\ place'[c] = "simulation"
                           /\ completion'[c] = completion[c]
                           /\ Route(ask[c].op)[stage'[c]] = s
      /\ s \notin Resource => /\ stage'[c] = stage[c] /\ place'[c] = "answered" /\ completion'[c] = due[c]
                              /\ stage[c] = Len(Route(ask[c].op))
  BY <1>3, MovedFacts
<1>5. held \subseteq held' /\ held \subseteq Interval
  BY DEF Shift, BaseInv, Types, ProcessTypes
<1>6. \A d \in SimClient : ask'[d] = ask[d] /\ ask[d].ts \in Nat /\ stage[d] \in Nat
  BY <1>4 DEF BaseInv, Types, ClientTypes, ProcessTypes, Need
<1>7. \A r \in Resource : \A d \in users[r] : d \in SimClient /\ due[d] \in Nat
  BY DEF BaseInv, Types, ProcessTypes, PlacesInv, Time
<1>8. Inside(c) /\ ask[c].op \in Operation /\ Len(Route(ask[c].op)) \in 1 .. 3
  BY <1>3, ScheduledFacts, RouteFacts
<1>9. Charged(held, c, ask[c], stage[c], due[c])
  <2>1. CASE stage[c] = 0
    BY <1>8, <2>1 DEF ChargeInv, Charged
  <2>2. CASE stage[c] # 0
    <3>1. stage[c] > 0 /\ c \in users[Here(c)]
      BY <1>3, <1>6, <2>2 DEF BaseInv, PlacesInv
    <3>2. Here(c) \in Resource
      BY <1>3, <1>6, <1>8, <3>1, ScheduledFacts, RouteFacts DEF Here
    <3> QED BY <3>1, <3>2 DEF ChargeInv
  <2> QED BY <2>1, <2>2
<1>10. \A r \in Resource : \A d \in G[r] : d \in SimClient /\ \E h \in held' :
         h.res = r /\ h.who = d /\ h.from = due[c] /\ h.to = due[c] + w[d]
  <2> SUFFICES ASSUME NEW r \in Resource, NEW d \in G[r]
               PROVE  d \in SimClient /\ \E h \in held' :
                        h.res = r /\ h.who = d /\ h.from = due[c] /\ h.to = due[c] + w[d]
    OBVIOUS
  <2>1. held' = held \cup
          UNION {{[res |-> q, who |-> e, from |-> due[c], to |-> due[c] + w[e], late |-> e \in late] : e \in G[q]}
                 : q \in Resource}
    BY DEF Shift
  <2>2. [res |-> r, who |-> d, from |-> due[c], to |-> due[c] + w[d], late |-> d \in late] \in held'
    BY <2>1
  <2>3. d \in SimClient
    BY DEF Shift
  <2>4. PICK k : k = (d \in late)
    OBVIOUS
  <2>5. [res |-> r, who |-> d, from |-> due[c], to |-> due[c] + w[d], late |-> k] \in held'
    BY <2>2, <2>4
  <2> QED BY <2>3, <2>5
<1>11. \A d \in SimClient : Inside(d)' /\ stage'[d] = 0 => due'[d] # Never /\ due'[d] >= ask'[d].ts
  <2> SUFFICES ASSUME NEW d \in SimClient, Inside(d)', stage'[d] = 0
               PROVE  due'[d] # Never /\ due'[d] >= ask'[d].ts
    OBVIOUS
  <2>1. d # c
    BY <1>4, <1>6, <1>8 DEF Inside
  <2>2. Inside(d) /\ stage[d] = 0
    BY <1>4, <2>1 DEF Inside
  <2>3. \A r \in Resource : ~Queued(d, r)
    BY <2>2 DEF BaseInv, PlacesInv
  <2>4. \A r \in Resource : d \notin G[r]
    BY <1>1, <2>1, <2>3 DEF Granting
  <2>5. due'[d] = due[d]
    BY <1>2, <2>1, <2>4
  <2> QED BY <1>4, <2>2, <2>5 DEF ChargeInv
<1>12. ASSUME NEW r \in Resource, NEW d \in G[r], d # c
       PROVE  /\ c \in users[r] /\ d \in SimClient /\ stage[d] - 1 \in Nat /\ r = Route(ask[d].op)[stage[d]]
              /\ Charged(held, d, ask[d], stage[d] - 1, due[c])
  <2>1. c \in users[r] /\ Queued(d, r) /\ d \in SimClient /\ Here(d) = r
    BY <1>1, <1>10, <1>12 DEF Granting
  <2>2. stage[d] > 0
    BY <2>1 DEF BaseInv, PlacesInv
  <2> QED BY <1>6, <2>1, <2>2 DEF ChargeInv, Here
<1>13. \A r \in Resource : \A d \in users'[r] : Charged(held', d, ask'[d], stage'[d], due'[d])
  <2> SUFFICES ASSUME NEW r \in Resource, NEW d \in users'[r]
               PROVE  Charged(held', d, ask'[d], stage'[d], due'[d])
    OBVIOUS
  <2>1. users'[r] = (users[r] \ {c}) \cup G[r]
    BY DEF Shift
  <2>2. CASE d \in users[r] /\ d # c
    <3>1. Charged(held, d, ask[d], stage[d], due[d])
      BY <2>2 DEF ChargeInv
    <3>2. stage'[d] = stage[d] /\ due'[d] = due[d] /\ due[d] <= due[d]
      BY <1>2, <1>4, <1>7, <2>2
    <3> QED BY <1>5, <1>6, <1>7, <2>2, <3>1, <3>2, ChargedGrows
  <2>3. CASE d \in G[r] /\ d # c
    <3>1. PICK h \in held' : h.res = r /\ h.who = d /\ h.from = due[c] /\ h.to = due[c] + w[d]
      BY <1>10, <2>3
    <3>2. due[c] <= due'[d] /\ due'[d] \in Nat /\ h.to = due'[d]
      BY <1>2, <2>3, <3>1
    <3>3. PICK n \in Nat : n = stage[d] - 1
      BY <1>12, <2>3
    <3>4. n + 1 = stage[d] /\ stage'[d] = stage[d]
      BY <1>4, <1>6, <1>10, <2>3, <3>3
    <3>5. Charged(held', d, ask'[d], n + 1, due'[d])
      BY <1>2, <1>5, <1>6, <1>12, <2>3, <3>1, <3>2, <3>3, <3>4, ChargedOnce
    <3> QED BY <3>4, <3>5
  <2>4. CASE d \in G[r] /\ d = c
    <3>1. PICK h \in held' : h.res = r /\ h.who = c /\ h.from = due[c] /\ h.to = due[c] + w[c]
      BY <1>10, <2>4
    <3>2. due[c] <= due'[c] /\ due'[c] \in Nat /\ h.to = due'[c]
      BY <1>2, <2>4, <3>1
    <3>3. r = s
      BY <1>1, <2>4 DEF Granting
    <3>4. stage'[c] = stage[c] + 1 /\ Route(ask[c].op)[stage[c] + 1] = r
      BY <1>4, <3>3
    <3>5. Charged(held', c, ask'[c], stage[c] + 1, due'[c])
      BY <1>2, <1>5, <1>6, <1>9, <3>1, <3>2, <3>4, ChargedOnce
    <3> QED BY <2>4, <3>4, <3>5
  <2> QED BY <2>1, <2>2, <2>3, <2>4
<1>14. \A r \in Resource : \A d \in SimClient, u \in users'[r] : Queued(d, r)' => Charged(held', d, ask'[d], stage'[d] - 1, due'[u])
  <2> SUFFICES ASSUME NEW r \in Resource, NEW d \in SimClient, NEW u \in users'[r], Queued(d, r)'
               PROVE  Charged(held', d, ask'[d], stage'[d] - 1, due'[u])
    OBVIOUS
  <2>1. users'[r] = (users[r] \ {c}) \cup G[r]
    BY DEF Shift
  <2>2. CASE Queued(d, r) /\ d # c /\ d \notin G[r]
    <3>1. stage[d] > 0
      BY <2>2 DEF BaseInv, PlacesInv
    <3>2. PICK n \in Nat : n = stage[d] - 1
      BY <1>6, <3>1
    <3>3. stage'[d] - 1 = n
      BY <1>4, <2>2, <3>2
    <3>4. CASE u \in users[r] /\ u # c
      <4>1. Charged(held, d, ask[d], n, due[u]) /\ due'[u] = due[u] /\ due[u] \in Nat /\ due[u] <= due[u]
        BY <1>2, <1>7, <2>2, <3>2, <3>4 DEF ChargeInv
      <4> QED BY <1>5, <1>6, <3>3, <4>1, ChargedGrows
    <3>5. CASE u \in G[r]
      <4>1. c \in users[r]
        <5>1. CASE u = c
          <6>1. r = s
            BY <1>1, <3>5, <5>1 DEF Granting
          <6>2. Cardinality(users[r]) < Capacity[r]
            BY <3>5, <6>1 DEF Shift
          <6>3. queue[r] # <<>>
            BY <2>2 DEF Queued
          <6>4. Capacity[r] \in Nat
            BY SimAssumption
          <6> QED BY <6>2, <6>3, <6>4 DEF BaseInv, RoomInv
        <5>2. CASE u # c
          BY <1>12, <3>5, <5>2
        <5> QED BY <5>1, <5>2
      <4>2. Charged(held, d, ask[d], n, due[c]) /\ due[c] <= due'[u] /\ due'[u] \in Nat
        BY <1>2, <2>2, <3>2, <3>5, <4>1 DEF ChargeInv
      <4> QED BY <1>2, <1>5, <1>6, <3>3, <4>2, ChargedGrows
    <3> QED BY <2>1, <3>4, <3>5
  <2>3. CASE d = c /\ r = s /\ c \notin G[r]
    <3>1. G[r] = {}
      BY <2>3 DEF Shift
    <3>2. u \in users[r] /\ u # c
      BY <2>1, <3>1
    <3>3. due'[u] = due[u] /\ due[u] \in Nat /\ due[c] <= due[u]
      BY <1>2, <1>7, <3>2
    <3>4. stage'[c] - 1 = stage[c]
      BY <1>4, <1>6, <2>3
    <3>5. Charged(held', c, ask'[c], stage[c], due'[u])
      BY <1>2, <1>5, <1>6, <1>9, <3>3, ChargedGrows
    <3> QED BY <2>3, <3>4, <3>5
  <2> QED BY <1>1, <2>2, <2>3 DEF Granting
<1>15. \A d \in SimClient : completion'[d] # Never =>
         place'[d] = "answered" /\ Charged(held', d, ask'[d], stage'[d], completion'[d])
  <2> SUFFICES ASSUME NEW d \in SimClient, completion'[d] # Never
               PROVE  place'[d] = "answered" /\ Charged(held', d, ask'[d], stage'[d], completion'[d])
    OBVIOUS
  <2>1. CASE d # c
    <3>1. completion[d] # Never /\ completion[d] \in Nat /\ completion'[d] = completion[d]
      BY <1>4, <2>1 DEF BaseInv, Types, ClientTypes, Time
    <3>2. place[d] = "answered" /\ Charged(held, d, ask[d], stage[d], completion[d]) /\ completion[d] <= completion[d]
      BY <3>1 DEF ChargeInv
    <3>3. Charged(held', d, ask'[d], stage[d], completion[d])
      BY <1>5, <1>6, <3>1, <3>2, ChargedGrows
    <3>4. stage'[d] = stage[d] /\ place'[d] = place[d]
      BY <1>4, <2>1
    <3> QED BY <3>1, <3>2, <3>3, <3>4
  <2>2. CASE d = c
    <3>1. completion[c] = Never
      BY <1>8 DEF ChargeInv, Inside
    <3>2. place'[c] = "answered" /\ completion'[c] = due[c] /\ stage'[c] = stage[c]
      BY <1>4, <2>2, <3>1
    <3>3. due[c] <= due[c]
      BY <1>2
    <3>4. Charged(held', c, ask'[c], stage[c], due[c])
      BY <1>2, <1>5, <1>6, <1>9, <3>3, ChargedGrows
    <3> QED BY <2>2, <3>2, <3>4
  <2> QED BY <2>1, <2>2
<1> QED BY <1>11, <1>13, <1>14, <1>15 DEF ChargeInv

LEMMA AsideCharge ==
  ASSUME BaseInv, ChargeInv, NEW c \in SimClient, Aside(c)
  PROVE  ChargeInv'
<1>1. \A r \in Resource : c \notin users[r] /\ ~Queued(c, r)
  BY OutsideFacts DEF Aside
<1>2. UNCHANGED <<users, queue, held>>
  BY DEF Aside
<1>3. \A d \in SimClient : d # c =>
        /\ ask'[d] = ask[d] /\ stage'[d] = stage[d] /\ place'[d] = place[d]
        /\ due'[d] = due[d] /\ completion'[d] = completion[d]
  BY DEF Aside
<1>4. \A d \in SimClient, r \in Resource : Queued(d, r)' <=> Queued(d, r)
  BY <1>2 DEF Queued
<1>5. \A r \in Resource : \A d \in users[r] : d \in SimClient /\ d # c
  BY <1>1 DEF BaseInv, Types, ProcessTypes
<1>6. \A d \in SimClient : Inside(d)' /\ stage'[d] = 0 => due'[d] # Never /\ due'[d] >= ask'[d].ts
  <2>1. Inside(c)' => due'[c] # Never /\ due'[c] >= ask'[c].ts
    <3>1. Inside(c)' => ask'[c] = ask[c] /\ due'[c] = ask[c].ts /\ ask[c].ts \in Nat
      BY DEF Aside, Inside
    <3> QED BY <3>1 DEF Never
  <2> QED BY <1>3, <2>1 DEF ChargeInv, Inside
<1>7. \A r \in Resource : \A d \in users'[r] : Charged(held', d, ask'[d], stage'[d], due'[d])
  BY <1>2, <1>3, <1>5 DEF ChargeInv
<1>8. \A r \in Resource : \A d \in SimClient, u \in users'[r] :
        Queued(d, r)' => Charged(held', d, ask'[d], stage'[d] - 1, due'[u])
  <2> SUFFICES ASSUME NEW r \in Resource, NEW d \in SimClient, NEW u \in users'[r], Queued(d, r)'
               PROVE  Charged(held', d, ask'[d], stage'[d] - 1, due'[u])
    OBVIOUS
  <2>1. Queued(d, r) /\ d # c /\ u \in users[r] /\ u \in SimClient /\ u # c
    BY <1>1, <1>2, <1>4, <1>5
  <2>2. Charged(held, d, ask[d], stage[d] - 1, due[u])
    BY <2>1 DEF ChargeInv
  <2> QED BY <1>2, <1>3, <2>1, <2>2
<1>9. \A d \in SimClient : completion'[d] # Never =>
        place'[d] = "answered" /\ Charged(held', d, ask'[d], stage'[d], completion'[d])
  <2>1. completion'[c] = Never
    BY DEF Aside
  <2> QED BY <1>2, <1>3, <2>1 DEF ChargeInv
<1> QED BY <1>6, <1>7, <1>8, <1>9 DEF ChargeInv

LEMMA QuietCharge ==
  ASSUME ChargeInv, Quiet
  PROVE  ChargeInv'
BY DEF ChargeInv, Quiet, Inside, Queued

(* No request is answered before it has been served by every resource of    *)
(* its route, one after the other, from its own time stamp on: setting the  *)
(* clock back does not make it lose a charge (serve_request, storage.py:61).*)
THEOREM TimeIsCharged == Spec => []TimeCharged
<1> DEFINE Inv == BaseInv /\ ChargeInv
<1>1. Init => Inv
  <2> SUFFICES ASSUME Init PROVE ChargeInv
    BY BaseInit
  <2> QED BY DEF Init, ChargeInv, Inside
<1>2. Inv /\ [Next]_vars => Inv'
  <2> SUFFICES ASSUME BaseInv, ChargeInv, [Next]_vars PROVE Inv'
    OBVIOUS
  <2>1. BaseInv'
    BY BaseStep
  <2>2. ChargeInv'
    BY StepKinds, ShiftCharge, AsideCharge, QuietCharge
  <2> QED BY <2>1, <2>2
<1>3. Inv => TimeCharged
  <2> SUFFICES ASSUME ChargeInv, NEW c \in SimClient, completion[c] # Never, NEW i \in 1 .. stage[c]
               PROVE  \E h \in {k \in held : k.who = c /\ k.from >= ask[c].ts /\ k.to <= completion[c]} :
                        /\ h.res = Route(ask[c].op)[i]
                        /\ i < stage[c] =>
                             \E g \in {k \in held : k.who = c /\ k.from >= ask[c].ts /\ k.to <= completion[c]} :
                               g.res = Route(ask[c].op)[i + 1] /\ g.from >= h.to
    BY DEF TimeCharged
  <2>1. Charged(held, c, ask[c], stage[c], completion[c])
    BY DEF ChargeInv
  <2>2. PICK h \in Charge(held, c, ask[c], i, completion[c]) :
          i < stage[c] => \E g \in Charge(held, c, ask[c], i + 1, completion[c]) : g.from >= h.to
    BY <2>1 DEF Charged
  <2> QED BY <2>2 DEF Charge
<1> QED BY <1>1, <1>2, <1>3, PTL DEF Spec

-----------------------------------------------------------------------------
(* The video decoder.  As long as nothing was started again it stands at a  *)
(* frame of the video its one client asked for last, no later than the one  *)
(* asked for.                                                               *)
Coming(c) == place[c] \in {"socket", "simulation"} /\ ask[c].op = DecodeVideo /\ stage[c] = 0
Started(c) == position[c].path # NoPath

FrameInv ==
  /\ position \in [Streamers -> [path : Video \cup {NoPath}, frame : Nat]]
  /\ ~rewound =>
       /\ server # "dead"
       /\ \A c, d \in Streamers : Started(c) /\ Started(d) => c = d
       /\ path # NoPath => \E c \in Streamers : Started(c)
       /\ \A c \in SimClient : ask[c].op = DecodeVideo =>
            c \in Streamers /\ Started(c) /\ ask[c].file = position[c].path /\ ask[c].frame = position[c].frame
       /\ \A c \in Streamers : Started(c) =>
            /\ path = position[c].path => frame <= position[c].frame
            /\ Coming(c) \/ path = position[c].path

LEMMA FrameInit == Init => FrameInv
<1> SUFFICES ASSUME Init PROVE FrameInv
  OBVIOUS
<1>1. position = [c \in Streamers |-> [path |-> NoPath, frame |-> 0]]
  BY DEF Init
<1>2. \A c \in Streamers : ~Started(c)
  BY <1>1 DEF Started
<1>3. \A c \in SimClient : ask[c].op # DecodeVideo
  BY DEF Init, NoRequest, DecodeVideo
<1>4. server # "dead" /\ path = NoPath /\ ~rewound
  BY DEF Init
<1> QED BY <1>1, <1>2, <1>3, <1>4 DEF FrameInv

(* A step of one client: what it asks for, and where that is on its way,    *)
(* may change; the others and the decoder stay.                             *)
LEMMA FrameClient ==
  ASSUME FrameInv, NEW c \in SimClient,
         UNCHANGED <<position, rewound, path, frame>>, server # "dead" => server' # "dead",
         \A d \in SimClient : d # c => ask'[d] = ask[d] /\ place'[d] = place[d] /\ stage'[d] = stage[d],
         ask'[c] = ask[c] \/ ask'[c].op # DecodeVideo,
         Coming(c) => Coming(c)'
  PROVE  FrameInv'
<1>1. \A d \in SimClient : Coming(d) => Coming(d)'
  BY DEF Coming
<1>2. \A d \in Streamers : d \in SimClient /\ (Started(d)' <=> Started(d))
  BY SimAssumption DEF Started
<1>3. \A d \in SimClient : ask'[d].op = DecodeVideo => ask'[d] = ask[d]
  OBVIOUS
<1>4. position' \in [Streamers -> [path : Video \cup {NoPath}, frame : Nat]]
  BY DEF FrameInv
<1>5. ASSUME ~rewound'
      PROVE  /\ server' # "dead"
             /\ \A d, e \in Streamers : Started(d)' /\ Started(e)' => d = e
             /\ path' # NoPath => \E d \in Streamers : Started(d)'
             /\ \A d \in SimClient : ask'[d].op = DecodeVideo =>
                  d \in Streamers /\ Started(d)' /\ ask'[d].file = position'[d].path /\ ask'[d].frame = position'[d].frame
             /\ \A d \in Streamers : Started(d)' =>
                  /\ path' = position'[d].path => frame' <= position'[d].frame
                  /\ Coming(d)' \/ path' = position'[d].path
  <2>1. ~rewound
    BY <1>5
  <2>2. server' # "dead" /\ (path' # NoPath => \E d \in Streamers : Started(d)')
        /\ \A d, e \in Streamers : Started(d)' /\ Started(e)' => d = e
    BY <1>2, <2>1 DEF FrameInv
  <2>3. \A d \in SimClient : ask'[d].op = DecodeVideo =>
          d \in Streamers /\ Started(d)' /\ ask'[d].file = position'[d].path /\ ask'[d].frame = position'[d].frame
    BY <1>2, <1>3, <2>1 DEF FrameInv
  <2>4. \A d \in Streamers : Started(d)' =>
          /\ path' = position'[d].path => frame' <= position'[d].frame
          /\ Coming(d)' \/ path' = position'[d].path
    BY <1>1, <1>2, <2>1 DEF FrameInv
  <2> QED BY <2>2, <2>3, <2>4
<1> QED BY <1>4, <1>5 DEF FrameInv

(* A step of the decoder to a video and a frame of it that its client has   *)
(* asked for.                                                               *)
LEMMA FrameDecoder ==
  ASSUME FrameInv, BaseInv, NEW c \in SimClient, UNCHANGED <<position, rewound, ask>>, server' = server,
         ask[c].op = DecodeVideo, path' = ask[c].file, ~rewound => frame' <= ask[c].frame
  PROVE  FrameInv'
<1>1. \A d \in Streamers : Started(d)' <=> Started(d)
  BY DEF Started
<1>2. position' \in [Streamers -> [path : Video \cup {NoPath}, frame : Nat]]
  BY DEF FrameInv
<1>3. ASSUME ~rewound'
      PROVE  /\ server' # "dead"
             /\ \A d, e \in Streamers : Started(d)' /\ Started(e)' => d = e
             /\ path' # NoPath => \E d \in Streamers : Started(d)'
             /\ \A d \in SimClient : ask'[d].op = DecodeVideo =>
                  d \in Streamers /\ Started(d)' /\ ask'[d].file = position'[d].path /\ ask'[d].frame = position'[d].frame
             /\ \A d \in Streamers : Started(d)' =>
                  /\ path' = position'[d].path => frame' <= position'[d].frame
                  /\ Coming(d)' \/ path' = position'[d].path
  <2>1. /\ ~rewound /\ server # "dead"
        /\ c \in Streamers /\ Started(c) /\ ask[c].file = position[c].path /\ ask[c].frame = position[c].frame
        /\ \A d \in Streamers : Started(d) => d = c
    BY <1>3 DEF FrameInv
  <2>2. \A d \in SimClient : ask'[d].op = DecodeVideo =>
          d \in Streamers /\ Started(d)' /\ ask'[d].file = position'[d].path /\ ask'[d].frame = position'[d].frame
    BY <1>1, <2>1 DEF FrameInv
  <2> QED BY <1>1, <2>1, <2>2
<1> QED BY <1>2, <1>3 DEF FrameInv

LEMMA FrameAsk ==
  ASSUME FrameInv, BaseInv, NEW c \in Streamers, AskFrame(c)
  PROVE  FrameInv'
<1>1. PICK v \in Video, f \in 0 .. MaxFrame :
        /\ f \in {0, IF v = position[c].path THEN position[c].frame + Every ELSE 0}
        /\ Send(c, [op |-> DecodeVideo, file |-> v, frame |-> f, ts |-> clock])
        /\ position' = [position EXCEPT ![c] = [path |-> v, frame |-> f]]
        /\ rewound' = (\/ rewound
                       \/ v = position[c].path /\ f <= position[c].frame
                       \/ \E d \in Streamers \ {c} : position[d].path # NoPath)
  BY DEF AskFrame
<1>2. /\ c \in SimClient /\ f \in Nat /\ v # NoPath
      /\ ask \in [SimClient -> Need] /\ place \in [SimClient -> {"idle", "socket", "simulation", "answered"}]
  BY SimAssumption DEF BaseInv, Types, ClientTypes
<1>3. PICK request : request = [op |-> DecodeVideo, file |-> v, frame |-> f, ts |-> clock]
  OBVIOUS
<1>4. /\ place[c] = "idle" /\ ask' = [ask EXCEPT ![c] = request] /\ place' = [place EXCEPT ![c] = "socket"]
      /\ UNCHANGED <<server, path, frame, stage>>
  BY <1>1, <1>3 DEF Send, decoderVars, processVars
<1>5. /\ ask'[c] = request /\ place'[c] = "socket"
      /\ \A d \in SimClient : d # c => ask'[d] = ask[d]
  BY <1>2, <1>4
<1>6. request.op = DecodeVideo /\ request.file = v /\ request.frame = f
  BY <1>3
<1>7. stage[c] = 0 /\ ~Coming(c)
  BY <1>2, <1>4 DEF BaseInv, PlacesInv, Coming
<1>8. /\ position' \in [Streamers -> [path : Video \cup {NoPath}, frame : Nat]]
      /\ position'[c].path = v /\ position'[c].frame = f
      /\ \A d \in Streamers : d # c => position'[d] = position[d]
  BY <1>1, <1>2 DEF FrameInv
<1>9. ASSUME ~rewound'
      PROVE  /\ server' # "dead"
             /\ \A d, e \in Streamers : Started(d)' /\ Started(e)' => d = e
             /\ path' # NoPath => \E d \in Streamers : Started(d)'
             /\ \A d \in SimClient : ask'[d].op = DecodeVideo =>
                  d \in Streamers /\ Started(d)' /\ ask'[d].file = position'[d].path /\ ask'[d].frame = position'[d].frame
             /\ \A d \in Streamers : Started(d)' =>
                  /\ path' = position'[d].path => frame' <= position'[d].frame
                  /\ Coming(d)' \/ path' = position'[d].path
  <2>1. /\ ~rewound /\ ~(v = position[c].path /\ f <= position[c].frame)
        /\ \A d \in Streamers : d # c => ~Started(d) /\ ~Started(d)'
    BY <1>1, <1>8, <1>9 DEF Started
  <2>2. Started(c)' /\ Coming(c)'
    BY <1>2, <1>4, <1>5, <1>6, <1>7, <1>8 DEF Started, Coming
  <2>3. server' # "dead"
    BY <1>4, <2>1 DEF FrameInv
  <2>4. \A d \in SimClient : ask'[d].op = DecodeVideo =>
          d \in Streamers /\ Started(d)' /\ ask'[d].file = position'[d].path /\ ask'[d].frame = position'[d].frame
    <3>1. \A d \in SimClient : d # c => ask'[d].op # DecodeVideo
      BY <1>5, <2>1 DEF FrameInv
    <3> QED BY <1>5, <1>6, <1>8, <2>2, <3>1
  <2>5. path = v => frame <= f
    <3>1. CASE Started(c)
      <4>1. path = position[c].path /\ frame <= position[c].frame
        BY <1>7, <2>1, <3>1 DEF FrameInv
      <4>2. position[c].frame \in Nat /\ frame \in Nat
        BY DEF FrameInv, BaseInv, Types, ProcessTypes
      <4> QED BY <1>2, <2>1, <4>1, <4>2
    <3>2. CASE ~Started(c)
      BY <1>2, <2>1, <3>2 DEF FrameInv
    <3> QED BY <3>1, <3>2
  <2> QED BY <1>4, <1>8, <2>1, <2>2, <2>3, <2>4, <2>5
<1> QED BY <1>8, <1>9 DEF FrameInv

LEMMA FrameStep ==
  ASSUME FrameInv, BaseInv, [Next]_vars
  PROVE  FrameInv'
<1>1. /\ ask \in [SimClient -> Need] /\ stage \in [SimClient -> Nat] /\ frame \in Nat
      /\ place \in [SimClient -> {"idle", "socket", "simulation", "answered"}]
  BY DEF BaseInv, Types, ClientTypes, ProcessTypes
<1>2. \A d \in SimClient : ask[d].frame \in Nat
  BY <1>1 DEF Need
<1>3. ASSUME NEW c \in SimClient, AskImage(c)
      PROVE  FrameInv'
  <2>1. PICK op \in {DecodeOnly, DecodeFace}, image \in Image :
          Send(c, [op |-> op, file |-> image, frame |-> 0, ts |-> clock])
    BY <1>3 DEF AskImage
  <2>2. PICK request : request = [op |-> op, file |-> image, frame |-> 0, ts |-> clock]
    OBVIOUS
  <2>3. /\ place[c] = "idle" /\ ask' = [ask EXCEPT ![c] = request] /\ place' = [place EXCEPT ![c] = "socket"]
        /\ UNCHANGED <<server, path, frame, stage, position, rewound>>
    BY <1>3, <2>1, <2>2 DEF Send, AskImage, decoderVars, processVars
  <2>4. request.op # DecodeVideo
    BY <2>2 DEF DecodeOnly, DecodeFace, DecodeVideo
  <2>5. ~Coming(c) /\ ask'[c].op # DecodeVideo
    BY <1>1, <2>3, <2>4 DEF Coming
  <2>6. \A d \in SimClient : d # c => ask'[d] = ask[d] /\ place'[d] = place[d] /\ stage'[d] = stage[d]
    BY <1>1, <2>3
  <2> QED BY <2>3, <2>5, <2>6, FrameClient
<1>4. ASSUME NEW c \in SimClient, TakeResponse(c)
      PROVE  FrameInv'
  <2>1. /\ place[c] = "answered" /\ ask' = [ask EXCEPT ![c] = NoRequest] /\ place' = [place EXCEPT ![c] = "idle"]
        /\ stage' = [stage EXCEPT ![c] = 0]
        /\ UNCHANGED <<server, path, frame, position, rewound>>
    BY <1>4 DEF TakeResponse, decoderVars
  <2>2. ~Coming(c) /\ ask'[c].op # DecodeVideo
    BY <1>1, <2>1 DEF Coming, NoRequest, DecodeVideo
  <2>3. \A d \in SimClient : d # c => ask'[d] = ask[d] /\ place'[d] = place[d] /\ stage'[d] = stage[d]
    BY <1>1, <2>1
  <2> QED BY <2>1, <2>2, <2>3, FrameClient
<1>5. ASSUME NEW c \in SimClient, SchedRequest(c), Turn
      PROVE  FrameInv'
  <2>1. /\ place[c] = "socket" /\ place' = [place EXCEPT ![c] = "simulation"]
        /\ stage' = [stage EXCEPT ![c] = 0]
    BY <1>5 DEF SchedRequest
  <2>2. UNCHANGED <<ask, path, frame, position, rewound>> /\ server' = "start"
    BY <1>5 DEF Turn, decoderVars
  <2>3. Coming(c) => Coming(c)'
    BY <1>1, <2>1, <2>2 DEF Coming
  <2>4. \A d \in SimClient : d # c => ask'[d] = ask[d] /\ place'[d] = place[d] /\ stage'[d] = stage[d]
    BY <1>1, <2>1, <2>2
  <2> QED BY <2>2, <2>3, <2>4, FrameClient
<1>6. ASSUME NEW c \in SimClient, EnterVideo(c) \/ VideoAssertion(c)
      PROVE  FrameInv'
  <2>1. due[c] # Never /\ ~Done(c) /\ There(c) = "video_decoder"
    BY <1>6 DEF EnterVideo, VideoAssertion, Fires
  <2>2. ask[c].op = DecodeVideo
    <3>1. stage[c] < Len(Route(ask[c].op)) /\ stage[c] \in Nat /\ ask[c].op \in Operation
      BY <2>1, ScheduledFacts, RouteFacts DEF Done
    <3>2. stage[c] + 1 \in 1 .. Len(Route(ask[c].op))
      BY <3>1, RouteFacts
    <3> QED BY <2>1, <3>1, <3>2, RouteFacts DEF There
  <2>3. /\ path' = ask[c].file /\ frame' = StartFrame(c) /\ UNCHANGED <<position, rewound, ask>>
    BY <1>6 DEF EnterVideo, VideoAssertion, clientVars
  <2>4. ~rewound => StartFrame(c) <= ask[c].frame
    <3> SUFFICES ASSUME ~rewound PROVE StartFrame(c) <= ask[c].frame
      OBVIOUS
    <3>1. c \in Streamers /\ Started(c) /\ ask[c].file = position[c].path /\ ask[c].frame = position[c].frame
      BY <2>2 DEF FrameInv
    <3>2. path = ask[c].file => frame <= ask[c].frame
      BY <3>1 DEF FrameInv
    <3> QED BY <1>2, <3>2 DEF StartFrame
  <2>5. CASE EnterVideo(c)
    <3>1. server' = server
      BY <2>5 DEF EnterVideo
    <3> QED BY <2>2, <2>3, <2>4, <3>1, FrameDecoder
  <2>6. CASE VideoAssertion(c)
    <3>1. rewound
      <4>1. ask[c].frame < StartFrame(c) /\ StartFrame(c) \in Nat
        BY <1>1, <2>6 DEF VideoAssertion, StartFrame
      <4> QED BY <1>2, <2>4, <4>1
    <3> QED BY <2>3, <3>1 DEF FrameInv
  <2> QED BY <1>6, <2>5, <2>6
<1>7. ASSUME NEW c \in SimClient, Advance(c)
      PROVE  FrameInv'
  <2>1. /\ due[c] # Never /\ ~Done(c) /\ There(c) # "video_decoder"
        /\ UNCHANGED <<server, path, ask, place, position, rewound>>
        /\ stage' = [stage EXCEPT ![c] = @ + 1] /\ frame' = FrameAfter(c)
    BY <1>7 DEF Advance, Fires, clientVars
  <2>2. stage[c] \in Nat /\ stage[c] < Len(Route(ask[c].op)) /\ ask[c].op \in Operation
    BY <2>1, ScheduledFacts, RouteFacts DEF Done
  <2>3. ~Coming(c)
    BY <2>1, <2>2, RouteFacts DEF Coming, There
  <2>4. \A d \in SimClient : d # c => stage'[d] = stage[d]
    BY <1>1, <2>1
  <2>5. CASE Served(c)
    <3>1. ask[c].op = DecodeVideo
      <4>1. stage[c] \in 1 .. Len(Route(ask[c].op)) /\ Route(ask[c].op)[stage[c]] = "video_decoder"
        BY <2>2, <2>5, RouteFacts DEF Served, Here
      <4> QED BY <2>2, <4>1, RouteFacts
    <3>2. frame' = ask[c].frame
      BY <2>1, <2>5 DEF FrameAfter
    <3>3. CASE rewound
      BY <2>1, <3>3 DEF FrameInv
    <3>4. CASE ~rewound
      <4>1. c \in Streamers /\ Started(c) /\ ask[c].file = position[c].path
        BY <3>1, <3>4 DEF FrameInv
      <4>2. path = ask[c].file
        BY <2>3, <3>4, <4>1 DEF FrameInv
      <4>3. path' = ask[c].file /\ frame' <= ask[c].frame
        BY <1>2, <2>1, <3>2, <4>2
      <4> QED BY <2>1, <3>1, <4>3, FrameDecoder
    <3> QED BY <3>3, <3>4
  <2>6. CASE ~Served(c)
    <3>1. frame' = frame
      BY <2>1, <2>6 DEF FrameAfter
    <3> QED BY <2>1, <2>3, <2>4, <3>1, FrameClient
  <2> QED BY <2>5, <2>6
<1>8. ASSUME NEW c \in SimClient, Complete(c)
      PROVE  FrameInv'
  <2>1. /\ due[c] # Never /\ Done(c)
        /\ UNCHANGED <<server, path, frame, ask, position, rewound, stage>>
        /\ place' = [place EXCEPT ![c] = "answered"]
    BY <1>8 DEF Complete, Fires, decoderVars
  <2>2. stage[c] \in Nat /\ ask[c].op \in Operation /\ stage[c] # 0
    BY <2>1, ScheduledFacts, RouteFacts DEF Done
  <2>3. ~Coming(c)
    BY <2>2 DEF Coming
  <2>4. \A d \in SimClient : d # c => place'[d] = place[d]
    BY <1>1, <2>1
  <2> QED BY <2>1, <2>3, <2>4, FrameClient
<1>9. ASSUME UNCHANGED <<ask, place, stage, path, frame, position, rewound>>,
             server # "dead" => server' # "dead"
      PROVE  FrameInv'
  <2>1. CASE SimClient = {}
    <3>1. Streamers = {}
      BY <2>1, SimAssumption
    <3> QED BY <1>9, <2>1, <3>1 DEF FrameInv
  <2>2. CASE SimClient # {}
    <3>1. PICK c \in SimClient : TRUE
      BY <2>2
    <3>2. Coming(c) => Coming(c)'
      BY <1>9 DEF Coming
    <3> QED BY <1>9, <3>1, <3>2, FrameClient
  <2> QED BY <2>1, <2>2
<1>10. CASE Turn
  <2>1. CASE \E c \in SimClient : SchedRequest(c)
    BY <1>5, <1>10, <2>1
  <2>2. CASE UNCHANGED <<place, stage, due, late>>
    <3>1. UNCHANGED <<ask, path, frame, position, rewound>> /\ server' = "start"
      BY <1>10 DEF Turn, decoderVars
    <3> QED BY <1>9, <2>2, <3>1
  <2> QED BY <1>10, <2>1, <2>2 DEF Turn
<1>11. CASE RunStarts \/ RunEnds \/ \E c \in SimClient : LookupFails(c)
  BY <1>9, <1>11 DEF RunStarts, RunEnds, LookupFails, clientVars, decoderVars, processVars
<1>12. CASE Tick
  BY <1>9, <1>12 DEF Tick, clientVars, decoderVars, processVars
<1>13. CASE UNCHANGED vars
  BY <1>9, <1>13 DEF vars, clientVars, decoderVars, processVars
<1> QED BY <1>3, <1>4, <1>6, <1>7, <1>8, <1>10, <1>11, <1>12, <1>13, FrameAsk DEF Next, Server

(* A single client that goes through each of its videos once, in order,     *)
(* never meets the assertion of decoder.py:82 that would end the server,    *)
(* whatever requests for images come between.                               *)
THEOREM FramesOnlyIncrease == Spec => []FramesIncrease
<1>1. Init => FrameInv /\ BaseInv
  BY FrameInit, BaseInit
<1>2. FrameInv /\ BaseInv /\ [Next]_vars => (FrameInv /\ BaseInv)'
  BY FrameStep, BaseStep
<1>3. FrameInv /\ BaseInv => FramesIncrease
  BY DEF FrameInv, FramesIncrease
<1> QED BY <1>1, <1>2, <1>3, PTL DEF Spec
==============================================================================
