---------------------------- MODULE MCBatchScript ----------------------------
(* Instances of BatchScript for TLC. *)
EXTENDS BatchScript

CONSTANTS w1, w2

TwoWorkers == {w1, w2}
OneWorker == {w1}
==============================================================================
