-------------------------- MODULE MCSmartStorageSim --------------------------
(* An instance of SmartStorageSim for TLC. *)
EXTENDS SmartStorageSim

CONSTANTS c1, c2, v1, v2, image, unknown

Clients == {c1, c2}
OneStreamer == {c2}
Videos == {v1, v2}
Images == {image, unknown}
Costs == [r \in {"decoder", "face_detector", "bus"} |-> [i \in Images |-> 1]]
Profiles == [r \in {"decoder", "face_detector"} |-> IF r = "decoder" THEN Images ELSE {image}]
OneEach == [r \in Resource |-> 1]
==============================================================================
