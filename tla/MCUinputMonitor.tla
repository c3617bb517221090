-------------------------- MODULE MCUinputMonitor --------------------------
(* Instances of UinputMonitor for TLC. *)
EXTENDS UinputMonitor, TLC

CONSTANTS c1, c2, c3

\* c1 and c3 share a pod.
MCPod == [c \in Container |-> IF c = c2 THEN "p2" ELSE "p1"]

\* Nothing tells sockets apart: sound for the safety properties it is used with.
SocketSymmetry == Permutations(Socket)
=============================================================================
