---------------------------- MODULE CommandLedger ----------------------------
(***************************************************************************)
(* What a kinetic client promises its user on a sound connection: every    *)
(* accepted command is answered, exactly once, and no more than Depth      *)
(* accepted commands are unanswered at any time.                           *)
(***************************************************************************)
EXTENDS Integers, FiniteSets

CONSTANTS Cmd, Depth
VARIABLES open, done

ledgerVars == <<open, done>>

Init == open = {} /\ done = {}

Accept(c) == /\ c \notin open \cup done
             /\ Cardinality(open) < Depth
             /\ open' = open \cup {c}
             /\ UNCHANGED done

Answer(c) == /\ c \in open
             /\ open' = open \ {c}
             /\ done' = done \cup {c}

Next == \E c \in Cmd : Accept(c) \/ Answer(c)

Spec == /\ Init /\ [][Next]_ledgerVars
        /\ \A c \in Cmd : WF_ledgerVars(Answer(c))
==============================================================================
