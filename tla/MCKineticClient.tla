--------------------------- MODULE MCKineticClient ---------------------------
(* Instances of KineticClient for TLC. *)
EXTENDS KineticClient

CONSTANTS a, b

(* a sound connection, two application threads: both issue, b drains *)
Both == {a, b}
OnlyA == {a}
OnlyB == {b}
Nobody == {}
NoFaults == {}

(* everything that can go wrong, with and without one auto reconnect        *)
EveryFault == AllFaults

(* late answers only *)
Expiry == {"expire"}
==============================================================================
