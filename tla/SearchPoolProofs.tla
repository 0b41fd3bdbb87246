--------------------------- MODULE SearchPoolProofs ---------------------------
(***************************************************************************)
(* For any number of workers and paths, whatever filters raise and         *)
(* whichever workers fail to start: the count that run_search waits for is *)
(* exact, and what it waits for is the end of the search.                  *)
(***************************************************************************)
EXTENDS SearchPool, FiniteSetTheorems, WellFoundedInduction, TLAPS

InLoop == {"filter", "task_done", "stop"}
AtEnd == {"stop", "merge", "write"}
Entry == Item \cup {Sentinel}

(* The workers that hold a task, and the ones that took their sentinel.     *)
Hands == {w \in Worker : Busy(w)}
Stopped == {w \in Worker : wpc[w] \in AtEnd \/ Merged(w)}

(* How many sentinels are in the queue.                                     *)
Ends == Cardinality(Worker) - toStop - Cardinality(Stopped)

Types ==
  /\ main \in {"items", "sentinels", "join_queue", "join_workers", "done"}
  /\ toPush \subseteq Item /\ toStop \in Nat /\ dud \subseteq Worker
  /\ q \in Seq(Entry) /\ unfinished \in Int
  /\ wpc \in [Worker -> {"start", "get", "exit"} \cup InLoop \cup AtEnd]
  /\ src \in [Worker -> Entry]
  /\ searched \subseteq Item \ Failing

Stages ==
  /\ main = "items" => toStop = Cardinality(Worker)
  /\ main # "items" => toPush = {}
  /\ main \in {"join_queue", "join_workers", "done"} => toStop = 0
  /\ main \in {"join_workers", "done"} => unfinished = 0

(* The sentinels are the last entries of the queue; a worker that could not *)
(* start never takes one.                                                   *)
SentinelsLast ==
  /\ Ends \in 0 .. Len(q)
  /\ \A i \in DOMAIN q : q[i] = Sentinel <=> i > Len(q) - Ends
  /\ \A w \in dud : wpc[w] \in {"start", "exit"}

(* A path is still to come, in the queue, with a worker, or searched.       *)
Queued(i) == \E j \in DOMAIN q : q[j] = i
InFilter(i) == \E w \in Worker : wpc[w] = "filter" /\ src[w] = i
NoneForgotten == \A i \in Item \ Failing : i \in toPush \/ Queued(i) \/ InFilter(i) \/ i \in searched
ItemsFiltered == \A w \in Worker : wpc[w] = "filter" => src[w] \in Item

(* UnfinishedExact, of the same set.                                        *)
InHand == unfinished = Len(q) + Cardinality(Hands)

SearchInv ==
  /\ Types /\ Stages /\ SentinelsLast /\ NoneForgotten /\ ItemsFiltered
  /\ InHand

-----------------------------------------------------------------------------
LEMMA WorkerSets ==
  ASSUME NEW A \in SUBSET Worker
  PROVE  /\ IsFiniteSet(A) /\ Cardinality(A) \in Nat /\ Cardinality(Worker) \in Nat
         /\ Cardinality(A) <= Cardinality(Worker)
         /\ Cardinality(A) = Cardinality(Worker) => A = Worker
         /\ Cardinality(A) = 0 <=> A = {}
BY SearchAssumption, FS_Subset, FS_CardinalityType, FS_EmptySet

(* What a worker's step does to the two sets.                               *)
LEMMA WorkerMoves ==
  ASSUME Types, NEW w \in Worker, NEW a, WGoto(w, a), dud' = dud
  PROVE  /\ wpc'[w] = a /\ \A v \in Worker : v # w => wpc'[v] = wpc[v]
         /\ Hands' = (IF a \in InLoop THEN Hands \cup {w} ELSE Hands \ {w})
         /\ Stopped' = (IF a \in AtEnd \/ (a = "exit" /\ w \notin dud)
                        THEN Stopped \cup {w} ELSE Stopped \ {w})
<1>1. wpc'[w] = a /\ \A v \in Worker : v # w => wpc'[v] = wpc[v]
  BY DEF Types, WGoto
<1>2. Hands' = (IF a \in InLoop THEN Hands \cup {w} ELSE Hands \ {w})
  BY <1>1 DEF Hands, Busy, InLoop
<1>3. Stopped' = (IF a \in AtEnd \/ (a = "exit" /\ w \notin dud)
                  THEN Stopped \cup {w} ELSE Stopped \ {w})
  BY <1>1 DEF Stopped, Merged
<1> QED BY <1>1, <1>2, <1>3

LEMMA SearchInit == Init => SearchInv
<1> SUFFICES ASSUME Init PROVE SearchInv
  OBVIOUS
<1>1. /\ wpc = [w \in Worker |-> "start"] /\ src = [w \in Worker |-> Sentinel]
      /\ q = <<>> /\ unfinished = 0 /\ main = "items" /\ toPush = Item
      /\ toStop = Cardinality(Worker) /\ searched = {} /\ dud \subseteq Worker
  BY SearchAssumption DEF Init
<1>2. Hands = {} /\ Stopped = {} /\ Cardinality({}) = 0 /\ Cardinality(Worker) \in Nat
  BY <1>1, WorkerSets, FS_EmptySet DEF Hands, Stopped, Busy, Merged, AtEnd
<1>3. Types
  <2>1. q \in Seq(Entry)
    BY <1>1
  <2> QED BY <1>1, <1>2, <2>1 DEF Types, Entry
<1>4. Ends = 0 /\ Len(q) = 0 /\ DOMAIN q = {}
  BY <1>1, <1>2 DEF Ends
<1>5. InHand
  BY <1>1, <1>2, <1>4 DEF InHand
<1>6. SentinelsLast
  BY <1>1, <1>4 DEF SentinelsLast
<1> QED BY <1>1, <1>3, <1>5, <1>6 DEF SearchInv, Stages, NoneForgotten, ItemsFiltered

-----------------------------------------------------------------------------
(* An entry is put at the end of the queue.                                 *)
LEMMA PutAppends ==
  ASSUME SearchInv, NEW x \in Entry, Put(x)
  PROVE  /\ q' \in Seq(Entry) /\ Len(q') = Len(q) + 1 /\ Len(q) \in Nat
         /\ DOMAIN q = 1 .. Len(q) /\ DOMAIN q' = 1 .. Len(q) + 1
         /\ q'[Len(q) + 1] = x /\ \A i \in 1 .. Len(q) : q'[i] = q[i]
         /\ unfinished' = unfinished + 1
BY DEF Put, SearchInv, Types

(* What depends on the program counters alone does not change with the rest. *)
LEMMA SetsKept ==
  ASSUME UNCHANGED <<wpc, dud>>
  PROVE  Hands' = Hands /\ Stopped' = Stopped
BY DEF Hands, Stopped, Busy, Merged

LEMMA SearchPutItem ==
  ASSUME SearchInv, PutItem
  PROVE  SearchInv'
<1>1. PICK x \in toPush : Put(x) /\ toPush' = toPush \ {x}
  BY DEF PutItem
<1>2. /\ UNCHANGED <<dud, main, toStop, wpc, src, searched>> /\ main = "items" /\ x # Sentinel
      /\ x \in Entry
  BY <1>1, SearchAssumption DEF PutItem, workerVars, SearchInv, Types, Entry
<1>3. /\ q' \in Seq(Entry) /\ Len(q') = Len(q) + 1 /\ Len(q) \in Nat
      /\ DOMAIN q = 1 .. Len(q) /\ DOMAIN q' = 1 .. Len(q) + 1
      /\ q'[Len(q) + 1] = x /\ \A i \in 1 .. Len(q) : q'[i] = q[i]
      /\ unfinished' = unfinished + 1
  BY <1>1, <1>2, PutAppends
<1>4. Hands' = Hands /\ Stopped' = Stopped /\ Cardinality(Stopped) \in Nat /\ Cardinality(Hands) \in Nat
      /\ Cardinality(Worker) \in Nat
  BY <1>2, SetsKept, WorkerSets DEF Hands, Stopped
<1>5. Types'
  BY <1>1, <1>2, <1>3 DEF SearchInv, Types
<1>6. Stages'
  BY <1>2 DEF SearchInv, Stages
<1>7. Ends' = 0 /\ Ends = 0
  BY <1>2, <1>4 DEF Ends, SearchInv, Stages, SentinelsLast
<1>8. SentinelsLast'
  <2>1. \A i \in DOMAIN q' : ~(q'[i] = Sentinel) /\ ~(i > Len(q') - 0)
    BY <1>2, <1>3, <1>7 DEF SearchInv, SentinelsLast
  <2> QED BY <1>2, <1>3, <1>7, <2>1 DEF SearchInv, SentinelsLast
<1>9. NoneForgotten'
  <2> SUFFICES ASSUME NEW i \in Item \ Failing
               PROVE  i \in toPush' \/ Queued(i)' \/ InFilter(i)' \/ i \in searched'
    BY DEF NoneForgotten
  <2>1. Queued(i) \/ i = x => Queued(i)'
    BY <1>3 DEF Queued
  <2>2. InFilter(i) => InFilter(i)'
    BY <1>2 DEF InFilter
  <2> QED BY <1>1, <1>2, <2>1, <2>2 DEF SearchInv, NoneForgotten
<1>10. ItemsFiltered'
  BY <1>2 DEF SearchInv, ItemsFiltered
<1>11. InHand'
  BY <1>3, <1>4 DEF SearchInv, Types, InHand
<1> QED BY <1>5, <1>6, <1>8, <1>9, <1>10, <1>11 DEF SearchInv

LEMMA SearchPutSentinel ==
  ASSUME SearchInv, PutSentinel
  PROVE  SearchInv'
<1>1. /\ Put(Sentinel) /\ toStop > 0 /\ toStop' = toStop - 1 /\ main = "sentinels"
      /\ UNCHANGED <<dud, main, toPush, wpc, src, searched>> /\ Sentinel \in Entry
  BY DEF PutSentinel, workerVars, Entry
<1>2. /\ q' \in Seq(Entry) /\ Len(q') = Len(q) + 1 /\ Len(q) \in Nat
      /\ DOMAIN q = 1 .. Len(q) /\ DOMAIN q' = 1 .. Len(q) + 1
      /\ q'[Len(q) + 1] = Sentinel /\ \A i \in 1 .. Len(q) : q'[i] = q[i]
      /\ unfinished' = unfinished + 1
  BY <1>1, PutAppends
<1>3. Hands' = Hands /\ Stopped' = Stopped /\ Cardinality(Stopped) \in Nat /\ Cardinality(Hands) \in Nat
      /\ Cardinality(Worker) \in Nat
  BY <1>1, SetsKept, WorkerSets DEF Hands, Stopped
<1>4. Types'
  <2>1. toStop' \in Nat /\ unfinished' \in Int
    BY <1>1, <1>2 DEF SearchInv, Types
  <2> QED BY <1>1, <1>2, <2>1 DEF SearchInv, Types
<1>5. Stages'
  BY <1>1 DEF SearchInv, Stages
<1>6. Ends' = Ends + 1 /\ Ends \in 0 .. Len(q)
  BY <1>1, <1>3 DEF Ends, SearchInv, Types, SentinelsLast
<1>7. SentinelsLast'
  <2>1. ASSUME NEW i \in DOMAIN q' PROVE q'[i] = Sentinel <=> i > Len(q') - Ends'
    <3>1. CASE i = Len(q) + 1
      BY <1>2, <1>6, <3>1
    <3>2. CASE i # Len(q) + 1
      <4>1. i \in DOMAIN q /\ q'[i] = q[i]
        BY <1>2, <3>2
      <4>2. q[i] = Sentinel <=> i > Len(q) - Ends
        BY <4>1 DEF SearchInv, SentinelsLast
      <4>3. Len(q') - Ends' = Len(q) - Ends
        BY <1>2, <1>6
      <4> QED BY <4>1, <4>2, <4>3
    <3> QED BY <3>1, <3>2
  <2>2. Ends' \in 0 .. Len(q')
    BY <1>2, <1>6
  <2> QED BY <1>1, <2>1, <2>2 DEF SearchInv, SentinelsLast
<1>8. NoneForgotten'
  <2> SUFFICES ASSUME NEW i \in Item \ Failing
               PROVE  i \in toPush' \/ Queued(i)' \/ InFilter(i)' \/ i \in searched'
    BY DEF NoneForgotten
  <2>1. Queued(i) => Queued(i)'
    BY <1>2 DEF Queued
  <2>2. InFilter(i) => InFilter(i)'
    BY <1>1 DEF InFilter
  <2> QED BY <1>1, <2>1, <2>2 DEF SearchInv, NoneForgotten
<1>9. ItemsFiltered'
  BY <1>1 DEF SearchInv, ItemsFiltered
<1>10. InHand'
  BY <1>2, <1>3 DEF SearchInv, Types, InHand
<1> QED BY <1>4, <1>5, <1>7, <1>8, <1>9, <1>10 DEF SearchInv

-----------------------------------------------------------------------------
(* The steps of a worker that do not touch the queue, the count or the      *)
(* paths: the worker neither holds a task nor takes a sentinel by them.     *)
LEMMA WorkerInside ==
  ASSUME SearchInv, NEW w \in Worker, NEW a \in {"get", "exit", "merge", "write"} \cup InLoop,
         WGoto(w, a), UNCHANGED <<dud, main, toPush, toStop, q, unfinished, src>>,
         Hands' = Hands, Stopped' = Stopped,
         searched' \subseteq Item \ Failing, searched \subseteq searched',
         wpc[w] = "filter" => src[w] \in Failing \cup searched', a # "filter",
         w \in dud => a = "exit"
  PROVE  SearchInv'
<1>1. wpc' = [wpc EXCEPT ![w] = a] /\ wpc'[w] = a /\ \A v \in Worker : v # w => wpc'[v] = wpc[v]
  BY WorkerMoves DEF SearchInv, WGoto
<1>2. Types'
  BY <1>1 DEF SearchInv, Types, AtEnd
<1>3. Stages'
  BY DEF SearchInv, Stages
<1>4. Ends' = Ends
  BY DEF Ends
<1>5. SentinelsLast'
  <2>1. \A v \in dud' : wpc'[v] \in {"start", "exit"}
    BY <1>1 DEF SearchInv, SentinelsLast, Types
  <2> QED BY <1>4, <2>1 DEF SearchInv, SentinelsLast
<1>6. NoneForgotten'
  <2> SUFFICES ASSUME NEW i \in Item \ Failing
               PROVE  i \in toPush' \/ Queued(i)' \/ InFilter(i)' \/ i \in searched'
    BY DEF NoneForgotten
  <2>1. Queued(i)' <=> Queued(i)
    BY DEF Queued
  <2>2. InFilter(i) => InFilter(i)' \/ i \in searched'
    BY <1>1 DEF InFilter
  <2> QED BY <2>1, <2>2 DEF SearchInv, NoneForgotten
<1>7. ItemsFiltered'
  BY <1>1 DEF SearchInv, ItemsFiltered
<1>8. InHand'
  BY DEF SearchInv, InHand
<1> QED BY <1>2, <1>3, <1>5, <1>6, <1>7, <1>8 DEF SearchInv

LEMMA SearchStart ==
  ASSUME SearchInv, NEW w \in Worker, Start(w)
  PROVE  SearchInv'
<1> DEFINE a == IF w \in dud THEN "exit" ELSE "get"
<1>1. /\ wpc[w] = "start" /\ WGoto(w, a)
      /\ UNCHANGED <<dud, main, toPush, toStop, q, unfinished, src, searched>>
  BY DEF Start, mainVars, queueVars
<1>2. w \notin Hands /\ w \notin Stopped
  BY <1>1 DEF Hands, Stopped, Busy, Merged, AtEnd
<1>3. a \notin InLoop /\ a \notin AtEnd /\ ~(a = "exit" /\ w \notin dud)
  BY DEF InLoop, AtEnd
<1>4. Hands' = Hands /\ Stopped' = Stopped
  BY <1>1, <1>2, <1>3, WorkerMoves DEF SearchInv
<1>5. a \in {"get", "exit", "merge", "write"} \cup InLoop /\ a # "filter" /\ (w \in dud => a = "exit")
  OBVIOUS
<1>6. searched' \subseteq Item \ Failing /\ searched \subseteq searched'
      /\ (wpc[w] = "filter" => src[w] \in Failing \cup searched')
  BY <1>1 DEF SearchInv, Types
<1> HIDE DEF a
<1> QED BY <1>1, <1>4, <1>5, <1>6, WorkerInside

LEMMA SearchFilter ==
  ASSUME SearchInv, NEW w \in Worker, Filter(w)
  PROVE  SearchInv'
<1>1. /\ wpc[w] = "filter" /\ WGoto(w, "task_done")
      /\ UNCHANGED <<dud, main, toPush, toStop, q, unfinished, src>>
      /\ searched' = (IF src[w] \in Failing THEN searched ELSE searched \cup {src[w]})
  BY DEF Filter, mainVars, queueVars
<1>2. w \in Hands /\ w \notin Stopped
  BY <1>1 DEF Hands, Stopped, Busy, Merged, AtEnd
<1>3. "task_done" \in InLoop /\ "task_done" \notin AtEnd
  BY DEF InLoop, AtEnd
<1>4. Hands' = Hands /\ Stopped' = Stopped
  BY <1>1, <1>2, <1>3, WorkerMoves DEF SearchInv
<1>5. src[w] \in Item /\ w \notin dud
  BY <1>1 DEF SearchInv, ItemsFiltered, SentinelsLast
<1>6. searched' \subseteq Item \ Failing /\ searched \subseteq searched'
      /\ src[w] \in Failing \cup searched'
  BY <1>1, <1>5 DEF SearchInv, Types
<1>7. "task_done" \in {"get", "exit", "merge", "write"} \cup InLoop
  BY <1>3
<1> QED BY <1>1, <1>4, <1>5, <1>6, <1>7, WorkerInside

LEMMA SearchMerge ==
  ASSUME SearchInv, NEW w \in Worker, ReadStats(w) \/ WriteStats(w)
  PROVE  SearchInv'
<1>1. PICK a \in {"write", "exit"} :
        /\ wpc[w] \in {"merge", "write"} /\ WGoto(w, a)
        /\ UNCHANGED <<dud, main, toPush, toStop, q, unfinished, src, searched>>
  BY DEF ReadStats, WriteStats, mainVars, queueVars
<1>2. w \notin Hands /\ w \in Stopped /\ w \notin dud
  BY <1>1 DEF Hands, Stopped, Busy, Merged, AtEnd, SearchInv, SentinelsLast
<1>3. a \notin InLoop /\ (a \in AtEnd \/ a = "exit")
  BY DEF InLoop, AtEnd
<1>4. Hands' = Hands /\ Stopped' = Stopped
  BY <1>1, <1>2, <1>3, WorkerMoves DEF SearchInv
<1>5. searched' \subseteq Item \ Failing /\ searched \subseteq searched'
      /\ (wpc[w] = "filter" => src[w] \in Failing \cup searched')
  BY <1>1 DEF SearchInv, Types
<1> QED BY <1>1, <1>2, <1>4, <1>5, WorkerInside

-----------------------------------------------------------------------------
(* The head of the queue goes into the hands of a worker; a sentinel stops  *)
(* it.                                                                      *)
LEMMA SearchGet ==
  ASSUME SearchInv, NEW w \in Worker, Get(w)
  PROVE  SearchInv'
<1> DEFINE a == IF Head(q) = Sentinel THEN "stop" ELSE "filter"
           L == Len(q)
<1>1. /\ wpc[w] = "get" /\ q # <<>> /\ q' = Tail(q) /\ WGoto(w, a)
      /\ src' = [src EXCEPT ![w] = Head(q)]
      /\ UNCHANGED <<dud, main, toPush, toStop, unfinished, searched>>
  BY DEF Get, mainVars
<1>2. /\ L \in Nat \ {0} /\ DOMAIN q = 1 .. L /\ 1 \in DOMAIN q /\ Len(q') = L - 1 /\ q' \in Seq(Entry)
      /\ DOMAIN q' = 1 .. L - 1 /\ \A i \in 1 .. L - 1 : q'[i] = q[i + 1] /\ i + 1 \in DOMAIN q
  BY <1>1 DEF SearchInv, Types
<1>3. Head(q) = q[1] /\ q[1] \in Entry
  BY <1>1, <1>2 DEF SearchInv, Types
<1>4. w \notin Hands /\ w \notin Stopped /\ w \notin dud
  BY <1>1 DEF Hands, Stopped, Busy, Merged, AtEnd, SearchInv, SentinelsLast
<1>5. /\ a \in InLoop /\ (a \in AtEnd <=> q[1] = Sentinel) /\ a # "exit" /\ a \notin {"start", "exit"}
      /\ (a = "filter" <=> q[1] # Sentinel)
  BY <1>3 DEF InLoop, AtEnd
<1>6. /\ Hands' = Hands \cup {w}
      /\ Stopped' = (IF q[1] = Sentinel THEN Stopped \cup {w} ELSE Stopped)
      /\ wpc' = [wpc EXCEPT ![w] = a]
      /\ wpc'[w] = a /\ \A v \in Worker : v # w => wpc'[v] = wpc[v]
  <2>1. wpc' = [wpc EXCEPT ![w] = a] /\ dud' = dud /\ Types
    BY <1>1 DEF WGoto, SearchInv
  <2> HIDE DEF a
  <2>2. /\ Hands' = (IF a \in InLoop THEN Hands \cup {w} ELSE Hands \ {w})
        /\ Stopped' = (IF a \in AtEnd \/ (a = "exit" /\ w \notin dud)
                       THEN Stopped \cup {w} ELSE Stopped \ {w})
        /\ wpc'[w] = a /\ \A v \in Worker : v # w => wpc'[v] = wpc[v]
    BY <1>1, <2>1, WorkerMoves
  <2> QED BY <1>1, <1>4, <1>5, <2>1, <2>2
<1> HIDE DEF a, L
<1>7. /\ Cardinality(Hands') = Cardinality(Hands) + 1 /\ Cardinality(Hands) \in Nat
      /\ Cardinality(Stopped') = Cardinality(Stopped) + (IF q[1] = Sentinel THEN 1 ELSE 0)
      /\ Cardinality(Stopped) \in Nat /\ Cardinality(Worker) \in Nat
  <2>1. Hands \in SUBSET Worker /\ Stopped \in SUBSET Worker
    BY DEF Hands, Stopped
  <2>2. /\ IsFiniteSet(Hands) /\ Cardinality(Hands) \in Nat /\ IsFiniteSet(Stopped)
        /\ Cardinality(Stopped) \in Nat /\ Cardinality(Worker) \in Nat
    BY <2>1, WorkerSets
  <2>3. Cardinality(Hands \cup {w}) = Cardinality(Hands) + 1
    BY <1>4, <2>2, FS_AddElement
  <2>4. Cardinality(Stopped \cup {w}) = Cardinality(Stopped) + 1
    BY <1>4, <2>2, FS_AddElement
  <2> QED BY <1>6, <2>2, <2>3, <2>4
<1>8. Types'
  <2>1. src' \in [Worker -> Entry]
    BY <1>1, <1>3 DEF SearchInv, Types
  <2>2. wpc' \in [Worker -> {"start", "get", "exit"} \cup InLoop \cup AtEnd]
    BY <1>5, <1>6 DEF SearchInv, Types
  <2> QED BY <1>1, <1>2, <2>1, <2>2 DEF SearchInv, Types
<1>9. Stages'
  BY <1>1 DEF SearchInv, Stages
<1>10. SentinelsLast'
  <2>1. Ends' = Ends - (IF q[1] = Sentinel THEN 1 ELSE 0) /\ Ends \in 0 .. L
    BY <1>1, <1>7 DEF Ends, L, SearchInv, SentinelsLast, Types
  <2>2. q[1] = Sentinel <=> 1 > L - Ends
    BY <1>2 DEF SearchInv, SentinelsLast, L
  <2>3. Ends' \in 0 .. Len(q') /\ Len(q') - Ends' = (IF q[1] = Sentinel THEN 0 ELSE L - Ends - 1)
    BY <1>2, <2>1, <2>2
  <2>4. ASSUME NEW i \in DOMAIN q' PROVE q'[i] = Sentinel <=> i > Len(q') - Ends'
    <3>1. q'[i] = q[i + 1] /\ i + 1 \in DOMAIN q /\ i \in Nat \ {0}
      BY <1>2
    <3>2. q[i + 1] = Sentinel <=> i + 1 > L - Ends
      BY <3>1 DEF SearchInv, SentinelsLast, L
    <3> QED BY <1>2, <2>1, <2>2, <2>3, <3>1, <3>2
  <2>5. \A v \in dud' : wpc'[v] \in {"start", "exit"}
    BY <1>1, <1>4, <1>6 DEF SearchInv, SentinelsLast, Types
  <2> QED BY <2>3, <2>4, <2>5 DEF SentinelsLast
<1>11. NoneForgotten'
  <2> SUFFICES ASSUME NEW i \in Item \ Failing
               PROVE  i \in toPush' \/ Queued(i)' \/ InFilter(i)' \/ i \in searched'
    BY DEF NoneForgotten
  <2>1. ASSUME NEW j \in DOMAIN q, q[j] = i PROVE Queued(i)' \/ InFilter(i)'
    <3>1. CASE j = 1
      <4>1. q[1] # Sentinel /\ src'[w] = i
        BY <1>1, <1>3, <2>1, <3>1, SearchAssumption DEF SearchInv, Types
      <4> QED BY <1>5, <1>6, <4>1 DEF InFilter
    <3>2. CASE j # 1
      <4>1. j - 1 \in DOMAIN q' /\ q'[j - 1] = q[j]
        BY <1>2, <3>2
      <4> QED BY <2>1, <4>1 DEF Queued
    <3> QED BY <3>1, <3>2
  <2>2. ASSUME NEW v \in Worker, wpc[v] = "filter", src[v] = i PROVE InFilter(i)'
    <3>1. v # w /\ wpc'[v] = "filter" /\ src'[v] = i
      BY <1>1, <1>6, <2>2 DEF SearchInv, Types
    <3> QED BY <3>1 DEF InFilter
  <2> QED BY <1>1, <2>1, <2>2 DEF SearchInv, NoneForgotten, Queued, InFilter
<1>12. ItemsFiltered'
  <2> SUFFICES ASSUME NEW v \in Worker, wpc'[v] = "filter" PROVE src'[v] \in Item
    BY DEF ItemsFiltered
  <2>1. CASE v = w
    BY <1>1, <1>3, <1>5, <1>6, <2>1 DEF Entry, SearchInv, Types
  <2>2. CASE v # w
    BY <1>1, <1>6, <2>2 DEF SearchInv, Types, ItemsFiltered
  <2> QED BY <2>1, <2>2
<1>13. InHand'
  BY <1>1, <1>2, <1>7 DEF SearchInv, Types, InHand, L
<1> QED BY <1>8, <1>9, <1>10, <1>11, <1>12, <1>13 DEF SearchInv

(* While a worker holds a task, run_search has not passed q.join().         *)
LEMMA TaskHeld ==
  ASSUME SearchInv, NEW w \in Hands
  PROVE  unfinished > 0 /\ main \notin {"join_workers", "done"}
<1>1. Hands \in SUBSET Worker /\ Hands # {}
  BY DEF Hands
<1>2. Cardinality(Hands) \in Nat \ {0} /\ Len(q) \in Nat
  BY <1>1, WorkerSets DEF SearchInv, Types
<1> QED BY <1>2 DEF SearchInv, InHand, Stages

LEMMA SearchTaskDone ==
  ASSUME SearchInv, NEW w \in Worker, TaskDone(w)
  PROVE  SearchInv'
<1> DEFINE a == IF wpc[w] = "stop" THEN "merge" ELSE "get"
<1>1. /\ wpc[w] \in {"task_done", "stop"} /\ unfinished' = unfinished - 1 /\ WGoto(w, a)
      /\ UNCHANGED <<dud, main, toPush, toStop, q, src, searched>>
  BY DEF TaskDone, mainVars
<1>2. w \in Hands /\ w \notin dud /\ (w \in Stopped <=> wpc[w] = "stop")
  BY <1>1 DEF Hands, Stopped, Busy, Merged, AtEnd, SearchInv, SentinelsLast
<1>3. a \notin InLoop /\ (a \in AtEnd <=> wpc[w] = "stop") /\ a # "exit" /\ a # "filter"
  BY DEF InLoop, AtEnd
<1>4. /\ Hands' = Hands \ {w} /\ Stopped' = Stopped
      /\ wpc' = [wpc EXCEPT ![w] = a]
      /\ wpc'[w] = a /\ \A v \in Worker : v # w => wpc'[v] = wpc[v]
  <2>1. wpc' = [wpc EXCEPT ![w] = a] /\ dud' = dud /\ Types
    BY <1>1 DEF WGoto, SearchInv
  <2> HIDE DEF a
  <2>2. /\ Hands' = (IF a \in InLoop THEN Hands \cup {w} ELSE Hands \ {w})
        /\ Stopped' = (IF a \in AtEnd \/ (a = "exit" /\ w \notin dud)
                       THEN Stopped \cup {w} ELSE Stopped \ {w})
        /\ wpc'[w] = a /\ \A v \in Worker : v # w => wpc'[v] = wpc[v]
    BY <1>1, <2>1, WorkerMoves
  <2> QED BY <1>1, <1>2, <1>3, <2>1, <2>2
<1>5. a \in {"get"} \cup AtEnd
  BY DEF AtEnd
<1> HIDE DEF a
<1>6. Cardinality(Hands') = Cardinality(Hands) - 1 /\ Cardinality(Hands) \in Nat
  <2>1. Hands \in SUBSET Worker
    BY DEF Hands
  <2>2. IsFiniteSet(Hands) /\ Cardinality(Hands) \in Nat
    BY <2>1, WorkerSets
  <2> QED BY <1>2, <1>4, <2>2, FS_RemoveElement
<1>7. Types'
  <2>1. wpc' \in [Worker -> {"start", "get", "exit"} \cup InLoop \cup AtEnd]
    BY <1>4, <1>5 DEF SearchInv, Types
  <2>2. unfinished' \in Int
    BY <1>1 DEF SearchInv, Types
  <2> QED BY <1>1, <2>1, <2>2 DEF SearchInv, Types
<1>8. Stages'
  BY <1>1, <1>2, TaskHeld DEF SearchInv, Stages
<1>9. SentinelsLast'
  <2>1. Ends' = Ends
    BY <1>1, <1>4 DEF Ends
  <2>2. \A v \in dud' : wpc'[v] \in {"start", "exit"}
    BY <1>1, <1>2, <1>4 DEF SearchInv, SentinelsLast, Types
  <2> QED BY <1>1, <2>1, <2>2 DEF SearchInv, SentinelsLast
<1>10. NoneForgotten'
  <2> SUFFICES ASSUME NEW i \in Item \ Failing
               PROVE  i \in toPush' \/ Queued(i)' \/ InFilter(i)' \/ i \in searched'
    BY DEF NoneForgotten
  <2>1. Queued(i)' <=> Queued(i)
    BY <1>1 DEF Queued
  <2>2. InFilter(i) => InFilter(i)'
    BY <1>1, <1>4 DEF InFilter
  <2> QED BY <1>1, <2>1, <2>2 DEF SearchInv, NoneForgotten
<1>11. ItemsFiltered'
  BY <1>1, <1>3, <1>4 DEF SearchInv, ItemsFiltered
<1>12. InHand'
  BY <1>1, <1>6 DEF SearchInv, Types, InHand
<1> QED BY <1>7, <1>8, <1>9, <1>10, <1>11, <1>12 DEF SearchInv

(* The steps of run_search that only go on.                                 *)
LEMMA SearchGoesOn ==
  ASSUME SearchInv, UNCHANGED <<dud, toPush, toStop, q, unfinished, wpc, src, searched>>,
         main' \in {"items", "sentinels", "join_queue", "join_workers", "done"},
         Stages'
  PROVE  SearchInv'
<1>1. Hands' = Hands /\ Stopped' = Stopped
  BY SetsKept
<1>2. Types' /\ ItemsFiltered'
  BY DEF SearchInv, Types, ItemsFiltered
<1>3. SentinelsLast'
  <2>1. Ends' = Ends
    BY <1>1 DEF Ends
  <2> QED BY <2>1 DEF SearchInv, SentinelsLast
<1>4. NoneForgotten'
  BY DEF SearchInv, NoneForgotten, Queued, InFilter
<1>5. InHand'
  BY <1>1 DEF SearchInv, InHand
<1> QED BY <1>2, <1>3, <1>4, <1>5 DEF SearchInv

LEMMA SearchNext ==
  ASSUME SearchInv, [Next]_vars
  PROVE  SearchInv'
<1>1. ASSUME ItemsPut \/ SentinelsPut \/ JoinQueue \/ Report \/ (\E w \in Worker : JoinWorker(w))
      PROVE  SearchInv'
  <2>1. /\ UNCHANGED <<dud, toPush, toStop, q, unfinished, wpc, src, searched>>
        /\ main' \in {"items", "sentinels", "join_queue", "join_workers", "done"}
    BY <1>1 DEF ItemsPut, SentinelsPut, JoinQueue, Report, JoinWorker, queueVars, workerVars,
                SearchInv, Types
  <2>2. Stages'
    BY <1>1, <2>1 DEF ItemsPut, SentinelsPut, JoinQueue, Report, JoinWorker, SearchInv, Stages
  <2> QED BY <2>1, <2>2, SearchGoesOn
<1>2. CASE MainStep
  BY <1>1, <1>2, SearchPutItem, SearchPutSentinel DEF MainStep
<1>3. ASSUME NEW w \in Worker, WorkerStep(w) PROVE SearchInv'
  BY <1>3, SearchStart, SearchGet, SearchFilter, SearchTaskDone, SearchMerge DEF WorkerStep
<1>4. CASE UNCHANGED vars
  <2>1. UNCHANGED <<dud, main, toPush, toStop, q, unfinished, wpc, src, searched>>
    BY <1>4 DEF vars, mainVars, queueVars, workerVars
  <2>2. Stages' /\ main' \in {"items", "sentinels", "join_queue", "join_workers", "done"}
    BY <2>1 DEF SearchInv, Stages, Types
  <2> QED BY <2>1, <2>2, SearchGoesOn
<1> QED
  BY <1>2, <1>3, <1>4 DEF Next

-----------------------------------------------------------------------------
(* search.py:133: task_done() is called once for whatever was got, in the   *)
(* finally, so q.join() may be trusted.                                     *)
THEOREM UnfinishedIsExact == Spec => []UnfinishedExact
<1>1. SearchInv => UnfinishedExact
  BY DEF SearchInv, InHand, UnfinishedExact, Hands
<1> QED BY <1>1, SearchInit, SearchNext, PTL DEF Spec

(* And when it returns, the search is over, and every worker has started.   *)
THEOREM DrainedAtJoin == Spec => []Drained
<1>1. SearchInv => Drained
  <2> SUFFICES ASSUME SearchInv, main \in {"join_workers", "done"}
               PROVE  /\ dud = {} /\ searched = Item \ Failing
                      /\ \A w \in Worker : wpc[w] \in {"merge", "write", "exit"}
    BY DEF Drained
  <2>1. Hands = {}
    BY TaskHeld
  <2>2. toStop = 0 /\ unfinished = 0 /\ toPush = {} /\ Cardinality(Hands) = 0
    BY <2>1, FS_EmptySet DEF SearchInv, Stages
  <2>3. q = <<>> /\ Len(q) = 0 /\ DOMAIN q = {}
    BY <2>2 DEF SearchInv, InHand, Types
  <2>4. Stopped = Worker
    <3>1. Cardinality(Stopped) \in Nat /\ Cardinality(Worker) \in Nat /\ Stopped \in SUBSET Worker
      BY WorkerSets DEF Stopped
    <3>2. Cardinality(Stopped) = Cardinality(Worker)
      BY <2>2, <2>3, <3>1 DEF SearchInv, SentinelsLast, Ends
    <3> QED BY <3>1, <3>2, WorkerSets
  <2>5. ASSUME NEW w \in Worker PROVE wpc[w] \in {"merge", "write", "exit"}
    BY <2>1, <2>4 DEF Stopped, Hands, Busy, Merged, AtEnd
  <2>6. dud = {}
    BY <2>4, <2>5 DEF SearchInv, SentinelsLast, Types, Stopped, Merged, AtEnd
  <2>7. searched = Item \ Failing
    BY <2>2, <2>3, <2>5 DEF SearchInv, Types, NoneForgotten, Queued, InFilter
  <2> QED BY <2>5, <2>6, <2>7
<1> QED BY <1>1, SearchInit, SearchNext, PTL DEF Spec
-----------------------------------------------------------------------------
(* Sums over a finite set, as SumFunction computes them: element by element, *)
(* in the order that CHOOSE gives.  The lemmas are proved without induction *)
(* theorems, from the fact that among sets of finite sets there is a        *)
(* smallest counterexample.                                                 *)

Some(s) == CHOOSE x \in s : TRUE
IsSum(I, f, S) == I = [s \in SUBSET S |-> IF s = {} THEN 0 ELSE f[Some(s)] + I[s \ {Some(s)}]]

LEMMA SmallestSet ==
  ASSUME NEW S, IsFiniteSet(S), NEW T, T \subseteq SUBSET S, T # {}
  PROVE  \E x \in T : \A y \in T : y \subseteq x => y = x
<1>1. IsWellFoundedOn(StrictSubsetOrdering(S), SUBSET S)
  BY FS_StrictSubsetOrderingWellFounded, FS_FiniteSubsetsOfFinite
<1>2. PICK x \in T : \A y \in T : ~(<<y, x>> \in StrictSubsetOrdering(S))
  BY <1>1, WFMin
<1>3. \A y \in T : y \subseteq x => y = x
  BY <1>2 DEF StrictSubsetOrdering
<1> QED BY <1>3

LEMMA SumUnfolds ==
  ASSUME NEW S, NEW f, NEW I, IsSum(I, f, S), NEW C \in SUBSET S
  PROVE  /\ C = {} => I[C] = 0
         /\ C # {} => /\ Some(C) \in C /\ I[C] = f[Some(C)] + I[C \ {Some(C)}]
                      /\ C \ {Some(C)} \in SUBSET S /\ C \ {Some(C)} # C
<1>1. I[C] = IF C = {} THEN 0 ELSE f[Some(C)] + I[C \ {Some(C)}]
  BY DEF IsSum
<1>2. C # {} => Some(C) \in C
  BY DEF Some
<1> QED BY <1>1, <1>2

LEMMA SumUnique ==
  ASSUME NEW S, IsFiniteSet(S), NEW f, NEW A \in SUBSET S, NEW B \in SUBSET S,
         NEW I, NEW J, IsSum(I, f, A), IsSum(J, f, B), NEW D \in SUBSET A, D \in SUBSET B
  PROVE  I[D] = J[D]
<1> DEFINE T == {C \in SUBSET S : C \subseteq A /\ C \subseteq B /\ I[C] # J[C]}
<1> SUFFICES ASSUME T # {} PROVE FALSE
  OBVIOUS
<1>1. PICK C \in T : \A y \in T : y \subseteq C => y = C
  <2> HIDE DEF T
  <2> SUFFICES T \subseteq SUBSET S
    BY SmallestSet
  <2> QED BY DEF T
<1>2. C \in SUBSET A /\ C \in SUBSET B /\ I[C] # J[C]
  OBVIOUS
<1>3. C # {}
  BY <1>2, SumUnfolds
<1>4. PICK E : E = C \ {Some(C)}
  OBVIOUS
<1>5. I[C] = f[Some(C)] + I[E] /\ J[C] = f[Some(C)] + J[E] /\ E # C /\ E \subseteq C
  <2>1. /\ Some(C) \in C /\ I[C] = f[Some(C)] + I[C \ {Some(C)}]
        /\ C \ {Some(C)} # C
    BY <1>2, <1>3, SumUnfolds
  <2>2. J[C] = f[Some(C)] + J[C \ {Some(C)}]
    BY <1>2, <1>3, SumUnfolds
  <2> QED BY <1>4, <2>1, <2>2
<1>6. E \in SUBSET S /\ E \subseteq A /\ E \subseteq B /\ E \notin T
  BY <1>1, <1>2, <1>5
<1> QED BY <1>2, <1>5, <1>6

LEMMA SumExists ==
  ASSUME NEW S, IsFiniteSet(S), NEW f \in [S -> Int]
  PROVE  \E I \in [SUBSET S -> Int] : IsSum(I, f, S)
<1> DEFINE Good(I, A) == I \in [SUBSET A -> Int] /\ IsSum(I, f, A)
           T == {A \in SUBSET S : ~ \E I \in [SUBSET A -> Int] : IsSum(I, f, A)}
<1> SUFFICES ASSUME T # {} PROVE FALSE
  OBVIOUS
<1>1. PICK A \in T : \A y \in T : y \subseteq A => y = A
  <2> HIDE DEF T
  <2> SUFFICES T \subseteq SUBSET S
    BY SmallestSet
  <2> QED BY DEF T
<1>2. A \in SUBSET S /\ ~ \E I \in [SUBSET A -> Int] : IsSum(I, f, A)
  OBVIOUS
<1> DEFINE J == [B \in SUBSET A |-> CHOOSE I \in [SUBSET B -> Int] : IsSum(I, f, B)]
<1>3. ASSUME NEW B \in SUBSET A, B # A
      PROVE  J[B] \in [SUBSET B -> Int] /\ IsSum(J[B], f, B)
  <2>1. B \notin T /\ B \in SUBSET S
    BY <1>1, <1>2, <1>3
  <2> QED BY <2>1
<1> HIDE DEF J
<1> DEFINE v == [B \in SUBSET A |-> IF B = {} THEN 0 ELSE f[Some(B)] + J[B \ {Some(B)}][B \ {Some(B)}]]
<1>4. ASSUME NEW B \in SUBSET A, B # {}
      PROVE  /\ Some(B) \in A /\ f[Some(B)] \in Int
             /\ B \ {Some(B)} \in SUBSET A /\ B \ {Some(B)} # A
             /\ J[B \ {Some(B)}][B \ {Some(B)}] \in Int
  <2>1. Some(B) \in B
    BY <1>4 DEF Some
  <2>2. PICK E : E = B \ {Some(B)}
    OBVIOUS
  <2>3. E \in SUBSET A /\ E # A /\ E \in SUBSET E
    BY <2>1, <2>2
  <2>4. J[E][E] \in Int
    BY <1>3, <2>3
  <2> QED BY <1>2, <2>1, <2>2, <2>3, <2>4
<1>5. v \in [SUBSET A -> Int]
  <2>1. ASSUME NEW B \in SUBSET A
        PROVE  (IF B = {} THEN 0 ELSE f[Some(B)] + J[B \ {Some(B)}][B \ {Some(B)}]) \in Int
    <3>1. CASE B = {}
      BY <3>1
    <3>2. CASE B # {}
      <4>1. f[Some(B)] \in Int /\ J[B \ {Some(B)}][B \ {Some(B)}] \in Int
        BY <1>4, <3>2
      <4> QED BY <3>2, <4>1
    <3> QED BY <3>1, <3>2
  <2> QED BY <2>1
<1>6. ASSUME NEW B \in SUBSET A, B # A
      PROVE  v[B] = J[B][B]
  <2>1. CASE B = {}
    BY <1>3, <1>6, <2>1, SumUnfolds
  <2>2. CASE B # {}
    <3>1. PICK E : E = B \ {Some(B)}
      OBVIOUS
    <3>2. v[B] = f[Some(B)] + J[E][E]
      BY <2>2, <3>1
    <3>3. IsSum(J[B], f, B) /\ E \in SUBSET B /\ B \in SUBSET B /\ E \in SUBSET A /\ E # A /\ E \in SUBSET E
      BY <1>3, <1>6, <3>1
    <3>a. PICK K : K = J[B]
      OBVIOUS
    <3>b. PICK L : L = J[E]
      OBVIOUS
    <3>4. K[B] = f[Some(B)] + K[E]
      <4>1. IsSum(K, f, B)
        BY <3>3, <3>a
      <4>2. K[B] = f[Some(B)] + K[B \ {Some(B)}]
        BY <2>2, <3>3, <4>1, SumUnfolds
      <4> QED BY <3>1, <4>2
    <3>5. IsSum(L, f, E) /\ IsSum(K, f, B)
      <4>1. IsSum(J[E], f, E)
        BY <1>3, <3>3
      <4> QED BY <3>3, <3>a, <3>b, <4>1
    <3>6. B \in SUBSET S /\ E \in SUBSET S
      BY <1>2, <3>3
    <3>7. K[E] = L[E]
      BY <3>3, <3>5, <3>6, SumUnique
    <3> QED BY <3>2, <3>4, <3>7, <3>a, <3>b
  <2> QED BY <2>1, <2>2
<1>7. IsSum(v, f, A)
  <2>1. ASSUME NEW B \in SUBSET A
        PROVE  v[B] = IF B = {} THEN 0 ELSE f[Some(B)] + v[B \ {Some(B)}]
    <3>1. CASE B = {}
      BY <3>1
    <3>2. CASE B # {}
      <4>1. PICK E : E = B \ {Some(B)}
        OBVIOUS
      <4>2. v[B] = f[Some(B)] + J[E][E]
        BY <3>2, <4>1
      <4>3. v[E] = J[E][E]
        BY <1>4, <1>6, <3>2, <4>1
      <4> QED BY <3>2, <4>1, <4>2, <4>3
    <3> QED BY <3>1, <3>2
  <2>2. v = [B \in SUBSET A |-> v[B]]
    OBVIOUS
  <2> HIDE DEF v
  <2> QED BY <2>1, <2>2 DEF IsSum
<1> HIDE DEF v
<1> QED BY <1>2, <1>5, <1>7

LEMMA SumIs ==
  ASSUME NEW S, IsFiniteSet(S), NEW f \in [S -> Int]
  PROVE  \E I \in [SUBSET S -> Int] : IsSum(I, f, S) /\ SumFunction(f) = I[S]
<1>1. PICK I \in [SUBSET S -> Int] : IsSum(I, f, S)
  BY SumExists
<1>2. PICK J : J = CHOOSE K : IsSum(K, f, S)
  OBVIOUS
<1>3. IsSum(J, f, S)
  BY <1>1, <1>2
<1>4. SumFunction(f) = J[S]
  <2>1. SumFunctionOnSet(f, S) = (CHOOSE K : IsSum(K, f, S))[S]
    BY DEF SumFunctionOnSet, FoldFunctionOnSet, MapThenFoldSet, IsSum, Some
  <2>2. SumFunction(f) = SumFunctionOnSet(f, S)
    BY DEF SumFunction
  <2> QED BY <1>2, <2>1, <2>2
<1>5. S \in SUBSET S
  OBVIOUS
<1>6. I[S] = J[S]
  BY <1>1, <1>3, <1>5, SumUnique
<1> QED BY <1>1, <1>4, <1>6

(* A sum follows the change of one of its terms.                            *)
LEMMA SumChange ==
  ASSUME NEW S, IsFiniteSet(S), NEW f \in [S -> Int], NEW g \in [S -> Int], NEW w \in S,
         \A x \in S : x # w => g[x] = f[x]
  PROVE  SumFunction(g) = SumFunction(f) + g[w] - f[w] /\ SumFunction(f) \in Int
<1>1. PICK I \in [SUBSET S -> Int] : IsSum(I, f, S) /\ SumFunction(f) = I[S]
  BY SumIs
<1>2. PICK J \in [SUBSET S -> Int] : IsSum(J, g, S) /\ SumFunction(g) = J[S]
  BY SumIs
<1> DEFINE diff(C) == IF w \in C THEN g[w] - f[w] ELSE 0
           T == {C \in SUBSET S : J[C] # I[C] + diff(C)}
<1>3. T = {}
  <2> SUFFICES ASSUME T # {} PROVE FALSE
    OBVIOUS
  <2>1. PICK C \in T : \A y \in T : y \subseteq C => y = C
    <3> HIDE DEF T
    <3> SUFFICES T \subseteq SUBSET S
      BY SmallestSet
    <3> QED BY DEF T
  <2>2. C \in SUBSET S /\ J[C] # I[C] + diff(C)
    OBVIOUS
  <2>3. C # {}
    <3> SUFFICES ASSUME C = {} PROVE FALSE
      OBVIOUS
    <3>1. I[{}] = 0 /\ J[{}] = 0
      BY <1>1, <1>2 DEF IsSum
    <3>3. diff(C) = 0
      OBVIOUS
    <3> QED BY <2>2, <3>1, <3>3
  <2>4. PICK x : x = Some(C)
    OBVIOUS
  <2>5. PICK E : E = C \ {x}
    OBVIOUS
  <2>6. /\ x \in C /\ x \in S /\ I[C] = f[x] + I[E] /\ J[C] = g[x] + J[E]
        /\ E \in SUBSET S /\ E # C /\ E \subseteq C
    BY <1>1, <1>2, <2>2, <2>3, <2>4, <2>5, SumUnfolds
  <2>7. J[E] = I[E] + diff(E)
    BY <2>1, <2>6
  <2>8. f[x] \in Int /\ g[x] \in Int /\ f[w] \in Int /\ g[w] \in Int /\ I[E] \in Int
    BY <2>6
  <2>9. CASE x = w
    BY <2>2, <2>5, <2>6, <2>7, <2>8, <2>9
  <2>10. CASE x # w
    BY <2>2, <2>5, <2>6, <2>7, <2>8, <2>10
  <2> QED BY <2>9, <2>10
<1>4. J[S] = I[S] + diff(S) /\ I[S] \in Int /\ g[w] \in Int /\ f[w] \in Int
  BY <1>3
<1> QED BY <1>1, <1>2, <1>4

LEMMA SumOfZeros ==
  ASSUME NEW S, IsFiniteSet(S), NEW f \in [S -> Int], \A x \in S : f[x] = 0
  PROVE  SumFunction(f) = 0
<1>1. PICK I \in [SUBSET S -> Int] : IsSum(I, f, S) /\ SumFunction(f) = I[S]
  BY SumIs
<1> DEFINE T == {C \in SUBSET S : I[C] # 0}
<1>2. T = {}
  <2> SUFFICES ASSUME T # {} PROVE FALSE
    OBVIOUS
  <2>1. PICK C \in T : \A y \in T : y \subseteq C => y = C
    <3> HIDE DEF T
    <3> SUFFICES T \subseteq SUBSET S
      BY SmallestSet
    <3> QED BY DEF T
  <2>2. C \in SUBSET S /\ I[C] # 0
    OBVIOUS
  <2>3. C # {}
    BY <1>1, <2>2, SumUnfolds
  <2>4. PICK E : E = C \ {Some(C)}
    OBVIOUS
  <2>5. /\ Some(C) \in S /\ I[C] = f[Some(C)] + I[E]
        /\ E \in SUBSET S /\ E # C /\ E \subseteq C
    <3>1. /\ Some(C) \in C /\ I[C] = f[Some(C)] + I[C \ {Some(C)}]
          /\ C \ {Some(C)} \in SUBSET S /\ C \ {Some(C)} # C
      BY <1>1, <2>2, <2>3, SumUnfolds
    <3> QED BY <2>2, <2>4, <3>1
  <2>6. I[E] = 0
    BY <2>1, <2>5
  <2> QED BY <2>2, <2>5, <2>6
<1> QED BY <1>1, <1>2

-----------------------------------------------------------------------------
(* The counts.                                                              *)

Left(counter) == [w \in Worker |-> IF Merged(w) THEN 0 ELSE counter[w]]
Merges == {w \in Worker : Merged(w)}

CountTypes ==
  /\ count \in [Worker -> Nat] /\ countPassed \in [Worker -> Nat]
  /\ stats \in [num_workers : Nat, num_items : Nat, passed_items : Nat]

(* A path is at one place only: it is searched once.                        *)
OnlyOnce ==
  /\ \A i, j \in DOMAIN q : q[i] = q[j] /\ q[i] # Sentinel => i = j
  /\ \A i \in DOMAIN q : q[i] \notin toPush /\ q[i] \notin searched
  /\ \A i \in DOMAIN q : \A w \in Worker : wpc[w] = "filter" => q[i] # src[w]
  /\ \A w \in Worker : wpc[w] = "filter" => src[w] \notin toPush /\ src[w] \notin searched
  /\ \A v, w \in Worker : wpc[v] = "filter" /\ wpc[w] = "filter" /\ src[v] = src[w] => v = w
  /\ toPush \cap searched = {}

(* The worker that has read the statistics is the only one at them.         *)
LockHeld ==
  /\ \A w \in Worker : w \in lock <=> wpc[w] = "write"
  /\ \A v, w \in Worker : v \in lock /\ w \in lock => v = w
  /\ \A w \in Worker : w \in lock => seen = stats

Tally ==
  /\ Cardinality(searched) = stats.num_items + SumFunction(Left(count))
  /\ Cardinality(searched \cap Accepted) = stats.passed_items + SumFunction(Left(countPassed))
  /\ stats.num_workers = Cardinality(Merges)

CountInv == CountTypes /\ OnlyOnce /\ LockHeld /\ Tally

LEMMA FiniteWorkers == IsFiniteSet(Worker) /\ IsFiniteSet(Item)
BY SearchAssumption

LEMMA CountInit == Init => CountInv
<1> SUFFICES ASSUME Init PROVE CountInv
  OBVIOUS
<1>1. /\ wpc = [w \in Worker |-> "start"] /\ q = <<>> /\ DOMAIN q = {} /\ toPush = Item /\ searched = {}
      /\ count = [w \in Worker |-> 0] /\ countPassed = [w \in Worker |-> 0]
      /\ lock = {} /\ stats = NoStats
  BY DEF Init
<1>2. CountTypes /\ stats.num_items = 0 /\ stats.passed_items = 0 /\ stats.num_workers = 0
  BY <1>1 DEF CountTypes, NoStats
<1>3. OnlyOnce
  BY <1>1 DEF OnlyOnce
<1>4. LockHeld
  BY <1>1 DEF LockHeld
<1>5. SumFunction(Left(count)) = 0 /\ SumFunction(Left(countPassed)) = 0
  <2>1. /\ Left(count) \in [Worker -> Int] /\ \A w \in Worker : Left(count)[w] = 0
        /\ Left(countPassed) \in [Worker -> Int] /\ \A w \in Worker : Left(countPassed)[w] = 0
    BY <1>1 DEF Left
  <2> QED BY <2>1, FiniteWorkers, SumOfZeros
<1>6. Merges = {} /\ searched = {} /\ searched \cap Accepted = {} /\ Cardinality({}) = 0
  BY <1>1, FS_EmptySet DEF Merges, Merged
<1> QED BY <1>2, <1>3, <1>4, <1>5, <1>6 DEF CountInv, Tally

(* A step by which no counter, no path and no merge changes.                *)
LEMMA TallyKept ==
  ASSUME Tally, UNCHANGED <<searched, stats, count, countPassed>>,
         \A w \in Worker : Merged(w)' <=> Merged(w)
  PROVE  Tally'
<1>1. Left(count)' = Left(count) /\ Left(countPassed)' = Left(countPassed) /\ Merges' = Merges
  BY DEF Left, Merges
<1> QED BY <1>1 DEF Tally

LEMMA CountPutItem ==
  ASSUME SearchInv, CountInv, PutItem
  PROVE  CountInv'
<1>1. PICK x \in toPush : Put(x) /\ toPush' = toPush \ {x}
  BY DEF PutItem
<1>2. /\ UNCHANGED <<dud, wpc, src, searched, count, countPassed, lock, seen, stats>>
      /\ x \in Entry /\ x # Sentinel
  BY <1>1, SearchAssumption DEF PutItem, workerVars, statVars, SearchInv, Types, Entry
<1>3. /\ Len(q) \in Nat /\ DOMAIN q = 1 .. Len(q) /\ DOMAIN q' = 1 .. Len(q) + 1
      /\ q'[Len(q) + 1] = x /\ \A i \in 1 .. Len(q) : q'[i] = q[i]
  BY <1>1, <1>2, PutAppends
<1>4. \A i \in DOMAIN q' : (i \in DOMAIN q /\ q'[i] = q[i]) \/ (i = Len(q) + 1 /\ q'[i] = x)
  BY <1>3
<1>5. x \notin searched /\ \A w \in Worker : wpc[w] = "filter" => src[w] # x
  BY DEF CountInv, OnlyOnce
<1>6. \A i \in DOMAIN q : q[i] # x
  BY DEF CountInv, OnlyOnce
<1>7. OnlyOnce'
  <2>1. ASSUME NEW i \in DOMAIN q', NEW j \in DOMAIN q', q'[i] = q'[j], q'[i] # Sentinel
        PROVE  i = j
    BY <1>4, <1>6, <2>1 DEF CountInv, OnlyOnce
  <2>2. \A i \in DOMAIN q' : q'[i] \notin toPush' /\ q'[i] \notin searched'
    BY <1>1, <1>2, <1>4, <1>5 DEF CountInv, OnlyOnce
  <2>3. \A i \in DOMAIN q' : \A w \in Worker : wpc'[w] = "filter" => q'[i] # src'[w]
    BY <1>2, <1>4, <1>5 DEF CountInv, OnlyOnce
  <2> QED BY <1>1, <1>2, <2>1, <2>2, <2>3 DEF CountInv, OnlyOnce
<1>8. CountTypes' /\ LockHeld'
  BY <1>2 DEF CountInv, CountTypes, LockHeld
<1>9. Tally'
  BY <1>2, TallyKept DEF CountInv, Merged
<1> QED BY <1>7, <1>8, <1>9 DEF CountInv

LEMMA CountPutSentinel ==
  ASSUME SearchInv, CountInv, PutSentinel
  PROVE  CountInv'
<1>1. /\ Put(Sentinel) /\ Sentinel \in Entry
      /\ UNCHANGED <<dud, toPush, wpc, src, searched, count, countPassed, lock, seen, stats>>
  BY DEF PutSentinel, workerVars, statVars, Entry
<1>2. /\ Len(q) \in Nat /\ DOMAIN q = 1 .. Len(q) /\ DOMAIN q' = 1 .. Len(q) + 1
      /\ q'[Len(q) + 1] = Sentinel /\ \A i \in 1 .. Len(q) : q'[i] = q[i]
  BY <1>1, PutAppends
<1>3. \A i \in DOMAIN q' : (i \in DOMAIN q /\ q'[i] = q[i]) \/ q'[i] = Sentinel
  BY <1>2
<1>4. Sentinel \notin toPush /\ Sentinel \notin searched
      /\ \A w \in Worker : wpc[w] = "filter" => src[w] # Sentinel
  BY SearchAssumption DEF SearchInv, Types, ItemsFiltered
<1>5. OnlyOnce'
  <2>1. ASSUME NEW i \in DOMAIN q', NEW j \in DOMAIN q', q'[i] = q'[j], q'[i] # Sentinel
        PROVE  i = j
    BY <1>3, <2>1 DEF CountInv, OnlyOnce
  <2>2. \A i \in DOMAIN q' : q'[i] \notin toPush' /\ q'[i] \notin searched'
    BY <1>1, <1>3, <1>4 DEF CountInv, OnlyOnce
  <2>3. \A i \in DOMAIN q' : \A w \in Worker : wpc'[w] = "filter" => q'[i] # src'[w]
    BY <1>1, <1>3, <1>4 DEF CountInv, OnlyOnce
  <2> QED BY <1>1, <2>1, <2>2, <2>3 DEF CountInv, OnlyOnce
<1>6. CountTypes' /\ LockHeld'
  BY <1>1 DEF CountInv, CountTypes, LockHeld
<1>7. Tally'
  BY <1>1, TallyKept DEF CountInv, Merged
<1> QED BY <1>5, <1>6, <1>7 DEF CountInv

LEMMA CountGet ==
  ASSUME SearchInv, CountInv, NEW w \in Worker, Get(w)
  PROVE  CountInv'
<1>1. /\ wpc[w] = "get" /\ q # <<>> /\ q' = Tail(q) /\ src' = [src EXCEPT ![w] = Head(q)]
      /\ UNCHANGED <<dud, toPush, searched, count, countPassed, lock, seen, stats>>
      /\ WGoto(w, IF Head(q) = Sentinel THEN "stop" ELSE "filter")
  BY DEF Get, mainVars, statVars
<1>2. /\ Len(q) \in Nat \ {0} /\ DOMAIN q = 1 .. Len(q) /\ 1 \in DOMAIN q /\ Head(q) = q[1]
      /\ DOMAIN q' = 1 .. Len(q) - 1 /\ \A i \in 1 .. Len(q) - 1 : q'[i] = q[i + 1]
  BY <1>1 DEF SearchInv, Types
<1>3. /\ wpc' = [wpc EXCEPT ![w] = IF q[1] = Sentinel THEN "stop" ELSE "filter"]
      /\ w \in DOMAIN wpc /\ w \in DOMAIN src
  BY <1>1, <1>2 DEF WGoto, SearchInv, Types
<1>4. /\ \A v \in Worker : v # w => wpc'[v] = wpc[v] /\ src'[v] = src[v]
      /\ src'[w] = q[1] /\ (wpc'[w] = "filter" <=> q[1] # Sentinel)
      /\ wpc'[w] # "write" /\ wpc'[w] # "exit"
  BY <1>1, <1>2, <1>3 DEF SearchInv, Types
<1>5. ASSUME NEW i \in DOMAIN q' PROVE i + 1 \in DOMAIN q /\ q'[i] = q[i + 1] /\ i + 1 # 1
  BY <1>2
<1>6. OnlyOnce'
  <2>1. ASSUME NEW i \in DOMAIN q', NEW j \in DOMAIN q', q'[i] = q'[j], q'[i] # Sentinel
        PROVE  i = j
    <3>1. i + 1 = j + 1
      BY <1>5, <2>1 DEF CountInv, OnlyOnce
    <3> QED BY <1>2, <3>1
  <2>2. \A i \in DOMAIN q' : q'[i] \notin toPush' /\ q'[i] \notin searched'
    BY <1>1, <1>5 DEF CountInv, OnlyOnce
  <2>3. ASSUME NEW i \in DOMAIN q', NEW v \in Worker, wpc'[v] = "filter" PROVE q'[i] # src'[v]
    <3>1. CASE v = w
      BY <1>2, <1>4, <1>5, <2>3, <3>1 DEF CountInv, OnlyOnce
    <3>2. CASE v # w
      BY <1>4, <1>5, <2>3, <3>2 DEF CountInv, OnlyOnce
    <3> QED BY <3>1, <3>2
  <2>4. \A v \in Worker : wpc'[v] = "filter" => src'[v] \notin toPush' /\ src'[v] \notin searched'
    BY <1>1, <1>2, <1>4 DEF CountInv, OnlyOnce
  <2>5. ASSUME NEW v \in Worker, wpc'[v] = "filter", v # w, wpc'[w] = "filter" PROVE src'[v] # src'[w]
    BY <1>2, <1>4, <2>5 DEF CountInv, OnlyOnce
  <2>6. \A v, x \in Worker :
          wpc'[v] = "filter" /\ wpc'[x] = "filter" /\ src'[v] = src'[x] => v = x
    BY <1>4, <2>5 DEF CountInv, OnlyOnce
  <2>7. toPush' \cap searched' = {}
    BY <1>1 DEF CountInv, OnlyOnce
  <2> QED BY <2>1, <2>2, <2>3, <2>4, <2>6, <2>7 DEF OnlyOnce
<1>7. LockHeld'
  BY <1>1, <1>4 DEF CountInv, LockHeld
<1>8. \A v \in Worker : Merged(v)' <=> Merged(v)
  BY <1>1, <1>4 DEF Merged
<1>9. Tally' /\ CountTypes'
  BY <1>1, <1>8, TallyKept DEF CountInv, CountTypes
<1> QED BY <1>6, <1>7, <1>9 DEF CountInv

(* A filtered path is counted by the worker that had it.                    *)
LEMMA CountFilter ==
  ASSUME SearchInv, CountInv, NEW w \in Worker, Filter(w)
  PROVE  CountInv'
<1>1. /\ wpc[w] = "filter" /\ wpc' = [wpc EXCEPT ![w] = "task_done"]
      /\ w \in DOMAIN wpc /\ src[w] \in Item
      /\ UNCHANGED <<dud, toPush, q, src, lock, seen, stats>>
  BY DEF Filter, WGoto, mainVars, queueVars, statVars, SearchInv, Types, ItemsFiltered
<1>2. wpc'[w] = "task_done" /\ \A v \in Worker : v # w => wpc'[v] = wpc[v]
  BY <1>1
<1>3. \A v \in Worker : Merged(v)' <=> Merged(v)
  BY <1>1, <1>2 DEF Merged
<1>4. LockHeld'
  BY <1>1, <1>2 DEF CountInv, LockHeld
<1>5. searched' = searched \/ searched' = searched \cup {src[w]}
  BY DEF Filter
<1>6. src[w] \notin toPush /\ src[w] \notin searched /\ \A i \in DOMAIN q : q[i] # src[w]
  BY <1>1 DEF CountInv, OnlyOnce
<1>7. OnlyOnce'
  <2>1. \A i \in DOMAIN q' : q'[i] \notin toPush' /\ q'[i] \notin searched'
    BY <1>1, <1>5, <1>6 DEF CountInv, OnlyOnce
  <2>2. ASSUME NEW v \in Worker, wpc'[v] = "filter"
        PROVE  v # w /\ wpc[v] = "filter" /\ src'[v] = src[v] /\ src[v] # src[w]
    BY <1>1, <1>2, <2>2 DEF CountInv, OnlyOnce
  <2>3. \A v \in Worker : wpc'[v] = "filter" => src'[v] \notin toPush' /\ src'[v] \notin searched'
    BY <1>1, <1>5, <2>2 DEF CountInv, OnlyOnce
  <2>4. \A i, j \in DOMAIN q' : q'[i] = q'[j] /\ q'[i] # Sentinel => i = j
    BY <1>1 DEF CountInv, OnlyOnce
  <2>5. \A i \in DOMAIN q' : \A v \in Worker : wpc'[v] = "filter" => q'[i] # src'[v]
    BY <1>1, <2>2 DEF CountInv, OnlyOnce
  <2>6. \A v, x \in Worker :
          wpc'[v] = "filter" /\ wpc'[x] = "filter" /\ src'[v] = src'[x] => v = x
    BY <2>2 DEF CountInv, OnlyOnce
  <2>7. toPush' \cap searched' = {}
    BY <1>1, <1>5, <1>6 DEF CountInv, OnlyOnce
  <2> QED BY <2>1, <2>3, <2>4, <2>5, <2>6, <2>7 DEF OnlyOnce
<1>8. CASE src[w] \in Failing
  <2>1. UNCHANGED <<count, countPassed, searched>>
    BY <1>8 DEF Filter
  <2>2. CountTypes' /\ Tally'
    BY <1>1, <1>3, <2>1, TallyKept DEF CountInv, CountTypes
  <2> QED BY <1>4, <1>7, <2>2 DEF CountInv
<1>9. CASE src[w] \notin Failing
  <2>1. PICK p \in {0, 1} : p = IF src[w] \in Accepted THEN 1 ELSE 0
    OBVIOUS
  <2>2. /\ count' = [count EXCEPT ![w] = count[w] + 1] /\ searched' = searched \cup {src[w]}
        /\ countPassed' = [countPassed EXCEPT ![w] = countPassed[w] + p]
        /\ count[w] \in Nat /\ countPassed[w] \in Nat /\ w \in DOMAIN count /\ w \in DOMAIN countPassed
    BY <1>9, <2>1 DEF Filter, CountInv, CountTypes
  <2>3. CountTypes'
    <3>1. count[w] + 1 \in Nat /\ countPassed[w] + p \in Nat
      BY <2>2
    <3>2. count' \in [Worker -> Nat] /\ countPassed' \in [Worker -> Nat]
      BY <2>2, <3>1 DEF CountInv, CountTypes
    <3> QED BY <1>1, <3>2 DEF CountInv, CountTypes
  <2>4. /\ Left(count) \in [Worker -> Int] /\ Left(count)' \in [Worker -> Int]
        /\ Left(countPassed) \in [Worker -> Int] /\ Left(countPassed)' \in [Worker -> Int]
    BY <2>3 DEF Left, CountInv, CountTypes
  <2>5. /\ \A v \in Worker : v # w => Left(count)'[v] = Left(count)[v]
        /\ \A v \in Worker : v # w => Left(countPassed)'[v] = Left(countPassed)[v]
    BY <1>3, <2>2 DEF Left, CountInv, CountTypes
  <2>6. /\ Left(count)[w] = count[w] /\ Left(count)'[w] = count[w] + 1
        /\ Left(countPassed)[w] = countPassed[w] /\ Left(countPassed)'[w] = countPassed[w] + p
    BY <1>1, <1>2, <2>2 DEF Left, Merged, CountInv, CountTypes
  <2>7. PICK a \in [Worker -> Int] : a = Left(count)
    BY <2>4
  <2>8. PICK b \in [Worker -> Int] : b = Left(count)'
    BY <2>4
  <2>9. PICK c \in [Worker -> Int] : c = Left(countPassed)
    BY <2>4
  <2>10. PICK d \in [Worker -> Int] : d = Left(countPassed)'
    BY <2>4
  <2>11. SumFunction(b) = SumFunction(a) + b[w] - a[w] /\ SumFunction(a) \in Int
    BY <2>5, <2>7, <2>8, FiniteWorkers, SumChange
  <2>12. SumFunction(d) = SumFunction(c) + d[w] - c[w] /\ SumFunction(c) \in Int
    BY <2>5, <2>9, <2>10, FiniteWorkers, SumChange
  <2>13. /\ Cardinality(searched') = Cardinality(searched) + 1
         /\ Cardinality(searched' \cap Accepted) = Cardinality(searched \cap Accepted) + p
         /\ Cardinality(searched) \in Nat /\ Cardinality(searched \cap Accepted) \in Nat
    <3>1. searched \in SUBSET Item /\ searched \cap Accepted \in SUBSET Item
      BY DEF SearchInv, Types
    <3>2. /\ IsFiniteSet(searched) /\ IsFiniteSet(searched \cap Accepted)
          /\ Cardinality(searched) \in Nat /\ Cardinality(searched \cap Accepted) \in Nat
      BY <3>1, FiniteWorkers, FS_Subset, FS_CardinalityType
    <3>3. Cardinality(searched \cup {src[w]}) = Cardinality(searched) + 1
      BY <1>6, <3>2, FS_AddElement
    <3>4. CASE src[w] \in Accepted
      <4>1. searched' \cap Accepted = (searched \cap Accepted) \cup {src[w]}
        BY <2>2, <3>4
      <4>2. Cardinality((searched \cap Accepted) \cup {src[w]}) = Cardinality(searched \cap Accepted) + 1
        BY <1>6, <3>2, FS_AddElement
      <4> QED BY <2>1, <2>2, <3>2, <3>3, <3>4, <4>1, <4>2
    <3>5. CASE src[w] \notin Accepted
      <4>1. searched' \cap Accepted = searched \cap Accepted
        BY <2>2, <3>5
      <4>2. p = 0
        BY <2>1, <3>5
      <4>3. Cardinality(searched' \cap Accepted) = Cardinality(searched \cap Accepted)
        BY <4>1, Zenon
      <4>4. Cardinality(searched \cap Accepted) = Cardinality(searched \cap Accepted) + p
        BY <3>2, <4>2
      <4>5. Cardinality(searched') = Cardinality(searched) + 1
        BY <2>2, <3>3, Zenon
      <4> QED BY <3>2, <4>3, <4>4, <4>5
    <3> QED BY <3>4, <3>5
  <2>14. Merges' = Merges
    BY <1>3 DEF Merges
  <2>15. /\ b[w] - a[w] = 1 /\ d[w] - c[w] = p
         /\ stats.num_items \in Nat /\ stats.passed_items \in Nat /\ stats' = stats
    BY <1>1, <2>2, <2>6, <2>7, <2>8, <2>9, <2>10 DEF CountInv, CountTypes
  <2>16. /\ Cardinality(searched) = stats.num_items + SumFunction(a)
         /\ Cardinality(searched \cap Accepted) = stats.passed_items + SumFunction(c)
         /\ stats.num_workers = Cardinality(Merges)
    BY <2>7, <2>9 DEF CountInv, Tally
  <2>17. SumFunction(b) = SumFunction(a) + 1 /\ SumFunction(d) = SumFunction(c) + p
    <3>1. a[w] \in Int /\ b[w] \in Int /\ c[w] \in Int /\ d[w] \in Int
      OBVIOUS
    <3> QED BY <2>11, <2>12, <2>15, <3>1
  <2>18. /\ Cardinality(searched') = stats.num_items + SumFunction(b)
         /\ Cardinality(searched' \cap Accepted) = stats.passed_items + SumFunction(d)
    BY <2>11, <2>12, <2>13, <2>15, <2>16, <2>17
  <2>19. Tally'
    BY <2>8, <2>10, <2>14, <2>15, <2>16, <2>18 DEF Tally
  <2> QED BY <1>4, <1>7, <2>3, <2>19 DEF CountInv
<1> QED BY <1>8, <1>9

(* The steps that neither count nor merge, nor take a path.                 *)
LEMMA CountQuiet ==
  ASSUME SearchInv, CountInv,
         UNCHANGED <<toPush, q, src, searched, count, countPassed, stats>>,
         \A w \in Worker : /\ Merged(w)' <=> Merged(w)
                           /\ wpc'[w] = "filter" => wpc[w] = "filter",
         LockHeld'
  PROVE  CountInv'
<1>1. CountTypes'
  BY DEF CountInv, CountTypes
<1>2. OnlyOnce'
  BY DEF CountInv, OnlyOnce
<1>3. Tally'
  BY TallyKept DEF CountInv
<1> QED BY <1>1, <1>2, <1>3 DEF CountInv

LEMMA CountWorkerQuiet ==
  ASSUME SearchInv, CountInv, NEW w \in Worker, Start(w) \/ TaskDone(w) \/ ReadStats(w)
  PROVE  CountInv'
<1>1. PICK a \in {"exit", "get", "merge", "write"} :
        /\ WGoto(w, a) /\ (a = "exit" => w \in dud) /\ wpc[w] # "write" /\ wpc[w] # "exit"
        /\ UNCHANGED <<dud, toPush, q, src, searched, count, countPassed, stats>>
        /\ \/ a # "write" /\ UNCHANGED <<lock, seen>>
           \/ a = "write" /\ lock = {} /\ lock' = {w} /\ seen' = stats
  BY DEF Start, TaskDone, ReadStats, mainVars, queueVars, statVars
<1>2. wpc'[w] = a /\ \A v \in Worker : v # w => wpc'[v] = wpc[v]
  BY <1>1 DEF WGoto, SearchInv, Types
<1>3. \A v \in Worker : /\ Merged(v)' <=> Merged(v)
                        /\ wpc'[v] = "filter" => wpc[v] = "filter"
  BY <1>1, <1>2 DEF Merged
<1>4. LockHeld'
  BY <1>1, <1>2 DEF CountInv, LockHeld
<1> QED BY <1>1, <1>3, <1>4, CountQuiet

(* What the worker counted moves into the statistics, at once.              *)
LEMMA CountWriteStats ==
  ASSUME SearchInv, CountInv, NEW w \in Worker, WriteStats(w)
  PROVE  CountInv'
<1>1. /\ wpc[w] = "write" /\ wpc' = [wpc EXCEPT ![w] = "exit"] /\ w \in DOMAIN wpc
      /\ w \in lock /\ seen = stats /\ w \notin dud
      /\ lock' = lock \ {w}
      /\ UNCHANGED <<dud, toPush, q, src, searched, count, countPassed, seen>>
  BY DEF WriteStats, WGoto, mainVars, queueVars, CountInv, LockHeld, SearchInv, Types, SentinelsLast
<1>2. /\ stats'.num_workers = stats.num_workers + 1
      /\ stats'.num_items = stats.num_items + count[w]
      /\ stats'.passed_items = stats.passed_items + countPassed[w]
      /\ count[w] \in Nat /\ countPassed[w] \in Nat
      /\ stats.num_workers \in Nat /\ stats.num_items \in Nat /\ stats.passed_items \in Nat
  BY <1>1 DEF WriteStats, CountInv, CountTypes
<1>3. CountTypes'
  <2>1. stats' \in [num_workers : Nat, num_items : Nat, passed_items : Nat]
    BY <1>1, <1>2 DEF WriteStats
  <2> QED BY <1>1, <2>1 DEF CountInv, CountTypes
<1>4. wpc'[w] = "exit" /\ \A v \in Worker : v # w => wpc'[v] = wpc[v]
  BY <1>1
<1>5. OnlyOnce'
  BY <1>1, <1>4 DEF CountInv, OnlyOnce
<1>6. LockHeld'
  <2>1. \A v \in Worker : v \notin lock'
    BY <1>1 DEF CountInv, LockHeld
  <2>2. \A v \in Worker : wpc'[v] # "write"
    BY <1>1, <1>4 DEF CountInv, LockHeld
  <2> QED BY <2>1, <2>2 DEF LockHeld
<1>7. Merged(w)' /\ ~Merged(w) /\ \A v \in Worker : v # w => (Merged(v)' <=> Merged(v))
  BY <1>1, <1>4 DEF Merged
<1>8. Merges' = Merges \cup {w} /\ w \notin Merges
  BY <1>7 DEF Merges
<1>9. Cardinality(Merges') = Cardinality(Merges) + 1
  <2>1. Merges \in SUBSET Worker
    BY DEF Merges
  <2>2. IsFiniteSet(Merges)
    BY <2>1, WorkerSets
  <2> QED BY <1>8, <2>2, FS_AddElement
<1>10. /\ Left(count) \in [Worker -> Int] /\ Left(count)' \in [Worker -> Int]
       /\ Left(countPassed) \in [Worker -> Int] /\ Left(countPassed)' \in [Worker -> Int]
  BY <1>3 DEF Left, CountInv, CountTypes
<1>11. /\ \A v \in Worker : v # w => Left(count)'[v] = Left(count)[v]
       /\ \A v \in Worker : v # w => Left(countPassed)'[v] = Left(countPassed)[v]
       /\ Left(count)[w] = count[w] /\ Left(count)'[w] = 0
       /\ Left(countPassed)[w] = countPassed[w] /\ Left(countPassed)'[w] = 0
  BY <1>1, <1>7 DEF Left
<1>12. PICK a \in [Worker -> Int] : a = Left(count)
  BY <1>10
<1>13. PICK b \in [Worker -> Int] : b = Left(count)'
  BY <1>10
<1>14. PICK c \in [Worker -> Int] : c = Left(countPassed)
  BY <1>10
<1>15. PICK d \in [Worker -> Int] : d = Left(countPassed)'
  BY <1>10
<1>16. SumFunction(b) = SumFunction(a) + b[w] - a[w] /\ SumFunction(a) \in Int
  BY <1>11, <1>12, <1>13, FiniteWorkers, SumChange
<1>17. SumFunction(d) = SumFunction(c) + d[w] - c[w] /\ SumFunction(c) \in Int
  BY <1>11, <1>14, <1>15, FiniteWorkers, SumChange
<1>18. a[w] = count[w] /\ b[w] = 0 /\ c[w] = countPassed[w] /\ d[w] = 0
  BY <1>11, <1>12, <1>13, <1>14, <1>15
<1>19. /\ Cardinality(searched) = stats.num_items + SumFunction(a)
       /\ Cardinality(searched \cap Accepted) = stats.passed_items + SumFunction(c)
       /\ stats.num_workers = Cardinality(Merges)
  BY <1>12, <1>14 DEF CountInv, Tally
<1>20. /\ Cardinality(searched') = stats'.num_items + SumFunction(b)
       /\ Cardinality(searched' \cap Accepted) = stats'.passed_items + SumFunction(d)
  <2>1. /\ stats.num_items + SumFunction(a) = stats'.num_items + SumFunction(b)
        /\ stats.passed_items + SumFunction(c) = stats'.passed_items + SumFunction(d)
    BY <1>2, <1>16, <1>17, <1>18
  <2> QED BY <1>1, <1>19, <2>1
<1>21. Tally'
  BY <1>2, <1>9, <1>13, <1>15, <1>19, <1>20 DEF Tally
<1> QED BY <1>3, <1>5, <1>6, <1>21 DEF CountInv

LEMMA CountNext ==
  ASSUME SearchInv, CountInv, [Next]_vars
  PROVE  CountInv'
<1>1. ASSUME UNCHANGED <<dud, toPush, q, src, wpc, searched, count, countPassed, lock, seen, stats>>
      PROVE  CountInv'
  BY <1>1, CountQuiet DEF CountInv, LockHeld, Merged
<1>2. ASSUME ItemsPut \/ SentinelsPut \/ JoinQueue \/ Report \/ (\E w \in Worker : JoinWorker(w))
      PROVE  CountInv'
  BY <1>1, <1>2 DEF ItemsPut, SentinelsPut, JoinQueue, Report, JoinWorker, queueVars, workerVars,
                    statVars
<1>3. CASE MainStep
  BY <1>2, <1>3, CountPutItem, CountPutSentinel DEF MainStep
<1>4. ASSUME NEW w \in Worker, WorkerStep(w) PROVE CountInv'
  BY <1>4, CountWorkerQuiet, CountGet, CountFilter, CountWriteStats DEF WorkerStep
<1>5. CASE UNCHANGED vars
  BY <1>1, <1>5 DEF vars, mainVars, queueVars, workerVars, statVars
<1> QED
  BY <1>3, <1>4, <1>5 DEF Next

(* search.py:138: every worker adds its counts to the shared statistics     *)
(* once, under the lock, so none is lost or doubled.                        *)
THEOREM CountsAreConserved == Spec => []CountsConserved
<1>1. CountInv => CountsConserved
  BY DEF CountInv, Tally, Left, CountsConserved
<1> QED BY <1>1, SearchInit, SearchNext, CountInit, CountNext, PTL DEF Spec

(* And the figures that run() reports are the ones of the whole search, once *)
(* every worker has ended.                                                   *)
THEOREM ReportIsComplete == Spec => []ReportComplete
<1>1. SearchInv /\ CountInv /\ Drained => ReportComplete
  <2> SUFFICES ASSUME SearchInv, CountInv, Drained, main = "done", \A w \in Worker : wpc[w] = "exit"
               PROVE  /\ stats.num_workers = Cardinality(Worker)
                      /\ stats.num_items = Cardinality(Item \ Failing)
                      /\ stats.passed_items = Cardinality(Accepted)
    BY DEF ReportComplete
  <2>1. dud = {} /\ searched = Item \ Failing /\ searched \cap Accepted = Accepted
    BY SearchAssumption DEF Drained
  <2>2. \A w \in Worker : Merged(w)
    BY <2>1 DEF Merged
  <2>3. Merges = Worker
    BY <2>2 DEF Merges
  <2>4. SumFunction(Left(count)) = 0 /\ SumFunction(Left(countPassed)) = 0
    <3>1. /\ Left(count) \in [Worker -> Int] /\ \A w \in Worker : Left(count)[w] = 0
          /\ Left(countPassed) \in [Worker -> Int] /\ \A w \in Worker : Left(countPassed)[w] = 0
      BY <2>2 DEF Left
    <3> QED BY <3>1, FiniteWorkers, SumOfZeros
  <2>5. /\ Cardinality(searched) = stats.num_items + 0
        /\ Cardinality(searched \cap Accepted) = stats.passed_items + 0
        /\ stats.num_workers = Cardinality(Merges)
    BY <2>4 DEF CountInv, Tally
  <2>6. stats.num_items \in Nat /\ stats.passed_items \in Nat
    BY DEF CountInv, CountTypes
  <2> QED BY <2>1, <2>3, <2>5, <2>6
<1> QED BY <1>1, DrainedAtJoin, SearchInit, SearchNext, CountInit, CountNext, PTL DEF Spec
=============================================================================
