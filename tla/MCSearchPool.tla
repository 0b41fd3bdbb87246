---------------------------- MODULE MCSearchPool ----------------------------
(* An instance of SearchPool for TLC. *)
EXTENDS SearchPool

CONSTANTS w1, w2, i1, i2, i3, none

TwoWorkers == {w1, w2}
ThreeItems == {i1, i2, i3}
Passing == {i1}
Raising == {i2}
NoneOrOneDud == {{}, {w1}}
==============================================================================
