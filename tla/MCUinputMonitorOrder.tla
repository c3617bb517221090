------------------------ MODULE MCUinputMonitorOrder ------------------------
(* Instance of UinputMonitorOrder for TLC. *)
EXTENDS UinputMonitorOrder

CONSTANT c1

MCPod == [c \in Container |-> "p1"]
=============================================================================
