------------------------ MODULE QueueSemaphoreProofs ------------------------
(***************************************************************************)
(* Proofs about QueueSemaphore for any number of threads, any depth and    *)
(* any sequence of resizes.                                                *)
(***************************************************************************)
EXTENDS QueueSemaphore, FiniteSetTheorems, TLAPS

(* Entries of a list of sleepers after each operation of the Condition.     *)
LEMMA WaitSeq ==
  ASSUME NEW S, NEW w \in Seq(S), NEW t \in S, ~Asleep(w, t),
         \A i, j \in DOMAIN w : w[i] = w[j] => i = j
  PROVE  /\ Wait(w, t) \in Seq(S)
         /\ Wait(w, t) # <<>>
         /\ \A i \in DOMAIN Wait(w, t) :
               Wait(w, t)[i] = t \/ \E k \in DOMAIN w : Wait(w, t)[i] = w[k]
         /\ \A i, j \in DOMAIN Wait(w, t) : Wait(w, t)[i] = Wait(w, t)[j] => i = j
<1> DEFINE v == Append(w, t)
<1>1. v \in Seq(S) /\ Len(v) = Len(w) + 1 /\ DOMAIN v = 1 .. Len(v) /\ Len(w) \in Nat
  OBVIOUS
<1>2. v[Len(v)] = t /\ \A i \in 1 .. (Len(v) - 1) : v[i] = w[i] /\ i \in DOMAIN w /\ v[i] # t
  BY DEF Asleep
<1> HIDE DEF v
<1>3. \A i \in DOMAIN v : v[i] = t \/ \E k \in DOMAIN w : v[i] = w[k]
  BY <1>1, <1>2
<1>4. ASSUME NEW i \in DOMAIN v, NEW j \in DOMAIN v, v[i] = v[j]
      PROVE  i = j
  BY <1>1, <1>2, <1>4
<1>5. v # <<>>
  BY <1>1
<1> QED BY <1>1, <1>3, <1>4, <1>5 DEF Wait, v

LEMMA NotifySeq ==
  ASSUME NEW S, NEW w \in Seq(S), w # <<>>,
         \A i, j \in DOMAIN w : w[i] = w[j] => i = j
  PROVE  /\ Notify(w) \in Seq(S)
         /\ \A i \in DOMAIN Notify(w) : \E k \in DOMAIN w : k # 1 /\ Notify(w)[i] = w[k]
         /\ \A k \in DOMAIN w : k # 1 => \E i \in DOMAIN Notify(w) : Notify(w)[i] = w[k]
         /\ \A i, j \in DOMAIN Notify(w) : Notify(w)[i] = Notify(w)[j] => i = j
<1> DEFINE v == Tail(w)
<1>1. v \in Seq(S) /\ Len(v) = Len(w) - 1 /\ DOMAIN v = 1 .. Len(v) /\ Len(v) \in Nat
      /\ DOMAIN w = 1 .. Len(w)
  OBVIOUS
<1>2. \A i \in DOMAIN v : v[i] = w[i + 1]
  BY <1>1
<1> HIDE DEF v
<1>3. ASSUME NEW i \in DOMAIN v
      PROVE  i + 1 \in DOMAIN w /\ i + 1 # 1 /\ v[i] = w[i + 1]
  BY <1>1, <1>2
<1>4. ASSUME NEW k \in DOMAIN w, k # 1
      PROVE  k - 1 \in DOMAIN v /\ v[k - 1] = w[k]
  BY <1>1, <1>2, <1>4
<1>5. ASSUME NEW i \in DOMAIN v, NEW j \in DOMAIN v, v[i] = v[j]
      PROVE  i = j
  <2>1. i + 1 = j + 1
    BY <1>3, <1>5
  <2> QED BY <2>1, <1>1
<1> QED BY <1>1, <1>3, <1>4, <1>5 DEF Notify, v

LEMMA LeaveSeq ==
  ASSUME NEW S, NEW w \in Seq(S), NEW t \in S,
         \A i, j \in DOMAIN w : w[i] = w[j] => i = j
  PROVE  /\ LeaveWait(w, t) \in Seq(S)
         /\ \A i \in DOMAIN LeaveWait(w, t) :
               /\ LeaveWait(w, t)[i] # t
               /\ \E k \in DOMAIN w : LeaveWait(w, t)[i] = w[k]
         /\ \A i, j \in DOMAIN LeaveWait(w, t) :
               LeaveWait(w, t)[i] = LeaveWait(w, t)[j] => i = j
<1>1. CASE ~Asleep(w, t)
  BY <1>1 DEF LeaveWait, Asleep
<1>2. CASE Asleep(w, t)
  <2> DEFINE i0 == CHOOSE i \in DOMAIN w : w[i] = t
             v == [j \in 1 .. (Len(w) - 1) |-> IF j < i0 THEN w[j] ELSE w[j + 1]]
  <2>1. i0 \in 1 .. Len(w) /\ w[i0] = t
    BY <1>2 DEF Asleep
  <2>2. LeaveWait(w, t) = v
    BY <1>2 DEF LeaveWait
  <2>3. Len(w) - 1 \in Nat
    BY <2>1
  <2> HIDE DEF i0
  <2>4. \A j \in 1 .. (Len(w) - 1) : v[j] \in S
    BY <2>1, <2>3
  <2>5. v \in Seq(S) /\ DOMAIN v = 1 .. (Len(w) - 1)
    BY <2>3, <2>4
  <2>6. \A j \in DOMAIN v : \E k \in DOMAIN w : k # i0 /\ v[j] = w[k] /\ (k = j \/ k = j + 1)
    BY <2>1, <2>3, <2>5
  <2>7. \A i \in DOMAIN v : v[i] # t /\ \E k \in DOMAIN w : v[i] = w[k]
    BY <2>1, <2>6
  <2>8. ASSUME NEW i \in DOMAIN v, NEW j \in DOMAIN v, v[i] = v[j]
        PROVE  i = j
    BY <2>1, <2>3, <2>5, <2>8
  <2> HIDE DEF v
  <2> QED BY <2>2, <2>5, <2>7, <2>8
<1> QED BY <1>1, <1>2

-----------------------------------------------------------------------------
(* The types are inductive with what they need to know of the Condition:    *)
(* nobody sleeps twice, or outside a blocking call, so that one notify() is *)
(* one wake-up.                                                             *)
SleepersBlocked ==
  /\ \A i, j \in DOMAIN waiters : waiters[i] = waiters[j] => i = j
  /\ \A i \in DOMAIN waiters : pc[waiters[i]] # "idle"

IInv == TypeOK /\ SleepersBlocked

LEMMA InitIInv == Init => IInv
BY SemaphoreAssumption DEF Init, IInv, TypeOK, SleepersBlocked

LEMMA NextIInv == IInv /\ [Next]_vars => IInv'
<1> SUFFICES ASSUME IInv, [Next]_vars PROVE IInv'
  OBVIOUS
<1> USE SemaphoreAssumption DEF IInv
<1>1. ASSUME NEW t \in Issuers, AcquireCall(t) PROVE IInv'
  BY <1>1 DEF AcquireCall, TypeOK, SleepersBlocked, Thread
<1>2. ASSUME NEW t \in Issuers, AcquireSleep(t) PROVE IInv'
  <2>1. t \in Thread
    BY DEF Thread
  <2>2. TypeOK'
    BY <1>2, <2>1, WaitSeq DEF AcquireSleep, TypeOK, SleepersBlocked, Awake
  <2>3. SleepersBlocked'
    <3>1. waiters \in Seq(Thread) /\ ~Asleep(waiters, t)
          /\ (\A i, j \in DOMAIN waiters : waiters[i] = waiters[j] => i = j)
      BY <1>2 DEF AcquireSleep, TypeOK, SleepersBlocked, Awake
    <3>2. waiters' = Wait(waiters, t) /\ pc' = pc /\ pc[t] # "idle"
      BY <1>2 DEF AcquireSleep
    <3>3. \A i \in DOMAIN waiters' : pc'[waiters'[i]] # "idle"
      BY <2>1, <3>1, <3>2, WaitSeq DEF SleepersBlocked
    <3>4. \A i, j \in DOMAIN waiters' : waiters'[i] = waiters'[j] => i = j
      BY <2>1, <3>1, <3>2, WaitSeq
    <3> QED BY <3>3, <3>4 DEF SleepersBlocked
  <2> QED BY <2>2, <2>3
<1>3. ASSUME NEW t \in Issuers, AcquireTake(t) PROVE IInv'
  <2>1. TypeOK'
    BY <1>3 DEF AcquireTake, TypeOK, Thread
  <2>2. SleepersBlocked'
    BY <1>3 DEF AcquireTake, TypeOK, SleepersBlocked, Awake, Asleep, Thread
  <2> QED BY <2>1, <2>2
<1>4. ASSUME NEW t \in Issuers, TryAcquire(t) PROVE IInv'
  BY <1>4 DEF TryAcquire, TypeOK, SleepersBlocked
<1>5. CASE Release
  <2>1. CASE waiters = <<>>
    BY <1>5, <2>1 DEF Release, Notify, TypeOK, SleepersBlocked
  <2>2. CASE waiters # <<>>
    <3>1. TypeOK'
      BY <1>5, <2>2, NotifySeq DEF Release, TypeOK, SleepersBlocked
    <3>2. SleepersBlocked'
      BY <1>5, <2>2, NotifySeq DEF Release, TypeOK, SleepersBlocked
    <3> QED BY <3>1, <3>2
  <2> QED BY <2>1, <2>2
<1>6. CASE Clear
  BY <1>6 DEF Clear, NotifyAll, TypeOK, SleepersBlocked
<1>7. ASSUME NEW d \in Depths, SetDepth(d) PROVE IInv'
  BY <1>7 DEF SetDepth, TypeOK, SleepersBlocked
<1>8. ASSUME NEW t \in Drainers, NEW n \in Goals, WaitQCall(t, n) PROVE IInv'
  BY <1>8 DEF WaitQCall, TypeOK, SleepersBlocked, Thread
<1>9. ASSUME NEW t \in Drainers, WaitQSleep(t) PROVE IInv'
  <2>1. t \in Thread
    BY DEF Thread
  <2>2. TypeOK'
    BY <1>9, <2>1, WaitSeq DEF WaitQSleep, TypeOK, SleepersBlocked, Awake
  <2>3. SleepersBlocked'
    <3>1. waiters \in Seq(Thread) /\ ~Asleep(waiters, t)
          /\ (\A i, j \in DOMAIN waiters : waiters[i] = waiters[j] => i = j)
      BY <1>9 DEF WaitQSleep, TypeOK, SleepersBlocked, Awake
    <3>2. waiters' = Wait(waiters, t) /\ pc' = pc /\ pc[t] # "idle"
      BY <1>9 DEF WaitQSleep
    <3>3. \A i \in DOMAIN waiters' : pc'[waiters'[i]] # "idle"
      BY <2>1, <3>1, <3>2, WaitSeq DEF SleepersBlocked
    <3>4. \A i, j \in DOMAIN waiters' : waiters'[i] = waiters'[j] => i = j
      BY <2>1, <3>1, <3>2, WaitSeq
    <3> QED BY <3>3, <3>4 DEF SleepersBlocked
  <2> QED BY <2>2, <2>3
<1>10. ASSUME NEW t \in Drainers, WaitQTrue(t) PROVE IInv'
  <2>1. TypeOK'
    BY <1>10 DEF WaitQTrue, TypeOK, Thread
  <2>2. SleepersBlocked'
    BY <1>10 DEF WaitQTrue, TypeOK, SleepersBlocked, Awake, Asleep, Thread
  <2> QED BY <2>1, <2>2
<1>11. ASSUME NEW t \in TimedDrainers, WaitQTimeout(t) PROVE IInv'
  <2>1. t \in Thread
    BY DEF Thread
  <2>2. TypeOK'
    BY <1>11, <2>1, LeaveSeq DEF WaitQTimeout, TypeOK, SleepersBlocked
  <2>3. SleepersBlocked'
    BY <1>11, <2>1, LeaveSeq DEF WaitQTimeout, TypeOK, SleepersBlocked
  <2> QED BY <2>2, <2>3
<1>12. CASE UNCHANGED vars
  BY <1>12 DEF vars, TypeOK, SleepersBlocked
<1> QED
  BY <1>1, <1>2, <1>3, <1>4, <1>5, <1>6, <1>7, <1>8, <1>9, <1>10, <1>11, <1>12
     DEF Next, AcquireStep, WaitQStep

(* Types hold in every reachable state, for any threads, depths and goals.  *)
THEOREM SemaphoreTypes == Spec => []TypeOK
<1>1. IInv => TypeOK
  BY DEF IInv
<1> QED BY <1>1, InitIInv, NextIInv, PTL DEF Spec

-----------------------------------------------------------------------------
(* Without wait_q() callers and without resizing, release() never strands a *)
(* thread: the free slots are covered by issuers that are on their way to   *)
(* take them.  The invariant counts, for each release, the thread it woke.  *)
NoDrains == \A t \in Thread : pc[t] # "wait_q"

CountInv == IInv /\ NoDrains /\ NoStrandedIssuer

LEMMA AcquiringFinite == IsFiniteSet(Acquiring) /\ Cardinality(Acquiring) \in Nat
BY FS_Subset, FS_CardinalityType, SemaphoreAssumption DEF Acquiring

LEMMA CountStep ==
  ASSUME Drainers = {}, Depths = {}, CountInv, [Next]_vars
  PROVE  CountInv'
<1> USE SemaphoreAssumption DEF CountInv
<1> Thread = Issuers /\ TimedDrainers = {}
  BY DEF Thread
<1>1. IInv'
  BY NextIInv
<1>2. NoDrains'
  BY DEF Next, AcquireStep, AcquireCall, AcquireSleep, AcquireTake, TryAcquire, Release, Clear,
         vars, NoDrains, IInv, TypeOK
<1>3. depth \in Nat /\ outstanding \in Nat
  BY DEF IInv, TypeOK
<1>4. IsFiniteSet(Acquiring) /\ Cardinality(Acquiring) \in Nat
  BY AcquiringFinite
<1>5. IsFiniteSet(Acquiring)' /\ Cardinality(Acquiring)' \in Nat
  <2>1. Acquiring' \subseteq Issuers
    BY DEF Acquiring
  <2> QED BY <2>1, FS_Subset, FS_CardinalityType
<1>6. NoStrandedIssuer'
  <2>1. ASSUME NEW t \in Issuers, AcquireCall(t) PROVE NoStrandedIssuer'
    <3>1. Acquiring \subseteq Acquiring'
      BY <2>1 DEF AcquireCall, Acquiring, Awake, Asleep, IInv, TypeOK
    <3>2. Cardinality(Acquiring) <= Cardinality(Acquiring')
      BY <1>5, <3>1, FS_Subset
    <3> QED BY <1>3, <1>4, <1>5, <2>1, <3>2 DEF AcquireCall, NoStrandedIssuer
  <2>2. ASSUME NEW t \in Issuers, AcquireSleep(t) PROVE NoStrandedIssuer'
    BY <1>3, <1>5, <2>2 DEF AcquireSleep, NoStrandedIssuer
  <2>3. ASSUME NEW t \in Issuers, AcquireTake(t) PROVE NoStrandedIssuer'
    <3>1. Acquiring' = Acquiring \ {t} /\ t \in Acquiring
      BY <2>3 DEF AcquireTake, Acquiring, Awake, Asleep, IInv, TypeOK
    <3>2. Cardinality(Acquiring') = Cardinality(Acquiring) - 1
      BY <1>4, <3>1, FS_RemoveElement
    <3> QED BY <1>3, <1>4, <2>3, <3>2 DEF AcquireTake, NoStrandedIssuer
  <2>4. ASSUME NEW t \in Issuers, TryAcquire(t) PROVE NoStrandedIssuer'
    <3>1. Acquiring' = Acquiring
      BY <2>4 DEF TryAcquire, Acquiring, Awake, Asleep
    <3> QED BY <1>3, <1>4, <2>4, <3>1 DEF TryAcquire, NoStrandedIssuer
  <2>5. CASE Release
    <3>1. CASE waiters = <<>>
      BY <2>5, <3>1 DEF Release, Notify, NoStrandedIssuer
    <3>2. CASE waiters # <<>>
      <4> DEFINE h == waiters[1]
      <4>1. waiters \in Seq(Issuers) /\ 1 \in DOMAIN waiters /\ h \in Issuers
        BY <3>2 DEF IInv, TypeOK
      <4>2. waiters' = Notify(waiters) /\ pc' = pc
        BY <2>5 DEF Release
      <4>3. Asleep(waiters, h) /\ pc[h] = "acquire"
        BY <4>1 DEF Asleep, IInv, TypeOK, SleepersBlocked, NoDrains
      <4>4. \A t \in Issuers : Asleep(waiters', t) <=> Asleep(waiters, t) /\ t # h
        <5>1. \A i, j \in DOMAIN waiters : waiters[i] = waiters[j] => i = j
          BY DEF IInv, SleepersBlocked
        <5>2. \A i \in DOMAIN Notify(waiters) :
                \E k \in DOMAIN waiters : k # 1 /\ Notify(waiters)[i] = waiters[k]
          BY <3>2, <4>1, <5>1, NotifySeq
        <5>3. \A k \in DOMAIN waiters :
                k # 1 => \E i \in DOMAIN Notify(waiters) : Notify(waiters)[i] = waiters[k]
          BY <3>2, <4>1, <5>1, NotifySeq
        <5> QED BY <4>1, <4>2, <5>1, <5>2, <5>3 DEF Asleep
      <4>5. Acquiring' = Acquiring \cup {h} /\ h \notin Acquiring
        BY <4>1, <4>2, <4>3, <4>4 DEF Acquiring, Awake
      <4>6. Cardinality(Acquiring') = Cardinality(Acquiring) + 1
        BY <1>4, <4>5, FS_AddElement
      <4> QED BY <1>3, <1>4, <2>5, <3>2, <4>6 DEF Release, NoStrandedIssuer
    <3> QED BY <3>1, <3>2
  <2>6. CASE Clear
    BY <2>6 DEF Clear, NotifyAll, NoStrandedIssuer
  <2>7. CASE UNCHANGED vars
    <3>1. Acquiring' = Acquiring
      BY <2>7 DEF vars, Acquiring, Awake, Asleep
    <3> QED BY <2>7, <3>1 DEF vars, NoStrandedIssuer
  <2> QED
    BY <2>1, <2>2, <2>3, <2>4, <2>5, <2>6, <2>7 DEF Next, AcquireStep
<1> QED BY <1>1, <1>2, <1>6

(* No free slot is left unnoticed while issuers sleep on the Condition.     *)
THEOREM IssuersAreNotStranded ==
  ASSUME Drainers = {}, Depths = {}
  PROVE  Spec => []NoStrandedIssuer
<1>1. Init => CountInv
  BY InitIInv DEF Init, CountInv, NoDrains, NoStrandedIssuer
<1>2. CountInv /\ [Next]_vars => CountInv'
  BY CountStep
<1>3. CountInv => NoStrandedIssuer
  BY DEF CountInv
<1> QED BY <1>1, <1>2, <1>3, PTL DEF Spec

-----------------------------------------------------------------------------
(* The semaphore implements the slot pool: acquire() takes a slot only      *)
(* below the current depth, release() gives back one that was taken.        *)
THEOREM ImplementsSlotPool == Spec => PoolSpec
<1> USE SemaphoreAssumption
<1>1. Init => Pool!Init
  BY DEF Init, Pool!Init
<1>2. IInv /\ [Next]_vars => [Pool!Next]_(Pool!poolVars)
  <2> SUFFICES ASSUME IInv, [Next]_vars PROVE Pool!Next \/ UNCHANGED <<outstanding, depth>>
    BY DEF Pool!poolVars
  <2>1. ASSUME NEW t \in Issuers, AcquireTake(t) \/ TryAcquire(t) PROVE Pool!Take
    BY <2>1 DEF AcquireTake, TryAcquire, Pool!Take
  <2>2. CASE Release
    BY <2>2 DEF Release, Pool!Next, Pool!Give
  <2>3. CASE Clear
    BY <2>3 DEF Clear, Pool!Next, Pool!Reset
  <2>4. ASSUME NEW d \in Depths, SetDepth(d) PROVE Pool!Next
    BY <2>4 DEF SetDepth, Pool!Next, Pool!Resize
  <2>5. ASSUME NEW t \in Thread, NEW n \in Goals,
               \/ AcquireCall(t) \/ AcquireSleep(t) \/ WaitQCall(t, n)
               \/ WaitQStep(t) \/ WaitQTimeout(t)
        PROVE  UNCHANGED <<outstanding, depth>>
    BY <2>5 DEF AcquireCall, AcquireSleep, WaitQCall, WaitQStep, WaitQSleep, WaitQTrue,
                WaitQTimeout
  <2> QED
    BY <2>1, <2>2, <2>3, <2>4
       DEF Next, AcquireStep, AcquireCall, AcquireSleep, WaitQCall, WaitQStep, WaitQSleep,
           WaitQTrue, WaitQTimeout, Pool!Next, vars
<1> QED BY <1>1, <1>2, InitIInv, NextIInv, PTL DEF Spec, PoolSpec, Pool!Spec
==============================================================================
