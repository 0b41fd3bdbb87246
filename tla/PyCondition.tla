----------------------------- MODULE PyCondition -----------------------------
(***************************************************************************)
(* threading.Condition of Python 2.7, as kv_client uses it: the list of    *)
(* sleeping threads, oldest first.  wait() appends the caller and releases *)
(* the lock, notify() wakes the oldest sleeper, notifyAll() wakes all of   *)
(* them, and a wait that times out removes its own entry.  Everything that *)
(* happens between two waits is done under the Condition's lock, so it is  *)
(* one step of the modules that use this one.                              *)
(***************************************************************************)
EXTENDS Integers, Sequences

Wait(waiters, t) == Append(waiters, t)

Notify(waiters) == IF waiters = <<>> THEN waiters ELSE Tail(waiters)

NotifyAll(waiters) == <<>>

Asleep(waiters, t) == \E i \in DOMAIN waiters : waiters[i] = t

LeaveWait(waiters, t) ==
  IF Asleep(waiters, t)
  THEN LET i == CHOOSE i \in DOMAIN waiters : waiters[i] = t
       IN [j \in 1 .. (Len(waiters) - 1) |-> IF j < i THEN waiters[j] ELSE waiters[j + 1]]
  ELSE waiters
==============================================================================
