---------------------------- MODULE MCIoTLifecycle ----------------------------
(* Instances of IoTLifecycle for TLC: the calls of start and stop by name.   *)
EXTENDS IoTLifecycle

CONSTANTS s1, s2, s3, p1, p2

=============================================================================
