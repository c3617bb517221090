---------------------------- MODULE MCDevicePool ----------------------------
(* Instances of DevicePool for TLC: its applications are model values, and *)
(* the first of them uses the name of the mice.                            *)
EXTENDS DevicePool

CONSTANTS a1, a2

MCAppName == [a \in App |-> IF a = a1 THEN "mouse" ELSE "other"]
=============================================================================
