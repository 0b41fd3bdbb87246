------------------------- MODULE MCDriveStateMonitor -------------------------
(* Instances of DriveStateMonitor for TLC. *)
EXTENDS DriveStateMonitor

CONSTANT r1

OneReporter == {r1}
==============================================================================
