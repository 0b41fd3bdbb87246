---------------------------- MODULE MCProxyServer ----------------------------
(* An instance of ProxyServer for TLC. *)
EXTENDS ProxyServer

CONSTANTS c1, c2, c3, k1, k2, k3

Clients == {c1, c2, c3}
Keys == {k1, k2, k3}
(* c2 and c3 may collide on k2 *)
Overlap == {<<c1, k1>>, <<c2, k2>>, <<c3, k2>>, <<c3, k3>>}
==============================================================================
