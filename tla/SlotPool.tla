------------------------------ MODULE SlotPool ------------------------------
(***************************************************************************)
(* What Client.Semaphore promises to the client: a pool of limit slots of  *)
(* which used are taken.  A slot is taken only below the limit, given back *)
(* one at a time, and all of them can be given back at once; the limit can *)
(* be changed at any moment.  Who waits, and how, is not its business.     *)
(***************************************************************************)
EXTENDS Integers

CONSTANTS Limits       \* the limits the pool may be given
VARIABLES used, limit

poolVars == <<used, limit>>

Init == /\ used = 0
        /\ limit \in Limits

Take == /\ used < limit
        /\ used' = used + 1
        /\ UNCHANGED limit

Give == /\ used > 0
        /\ used' = used - 1
        /\ UNCHANGED limit

Reset == /\ used' = 0
         /\ UNCHANGED limit

Resize(d) == /\ limit' = d
             /\ UNCHANGED used

Next == \/ Take
        \/ Give
        \/ Reset
        \/ \E d \in Limits : Resize(d)

Spec == Init /\ [][Next]_poolVars
==============================================================================
