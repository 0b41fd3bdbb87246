----------------------------- MODULE MCAppSlots -----------------------------
(* An instance of AppSlots for TLC. *)
EXTENDS AppSlots

CONSTANTS r1, r2, p1, p2, s1, s2, k1, k2

Readers == {r1, r2}
Procs == {p1, p2}
OneProc == {p1}
Slots == {s1, s2}
Keys == {k1, k2}
OneKeyEach == {<<r1, k1>>, <<r2, k2>>}
==============================================================================
