--------------------------- MODULE MCDevicePlugin ---------------------------
(* Instances of DevicePlugin for TLC: its devices are model values. *)
EXTENDS DevicePlugin

CONSTANTS d1, d2, d3
=============================================================================
