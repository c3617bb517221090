-------------------------- MODULE DeviceEventFifo --------------------------
(***************************************************************************)
(* What the uinput monitor promises about udev device events: while it is  *)
(* up, they form one queue between the kernel and the dispatcher.  Every   *)
(* event of the kernel joins it, an event leaves it only by being          *)
(* dispatched, the oldest first, and only the death of the monitor drops   *)
(* events: all that are queued, and those that occur until it is up again. *)
(***************************************************************************)
EXTENDS Sequences

CONSTANT Event

VARIABLES
    pending,     \* events not dispatched yet, oldest first
    dispatched,  \* events dispatched, oldest first
    up           \* whether the monitor process is alive

vars == <<pending, dispatched, up>>

Init ==
    /\ pending = <<>>
    /\ dispatched = <<>>
    /\ up = TRUE

\* The kernel announces an event.
Emit ==
    /\ up
    /\ \E e \in Event : pending' = Append(pending, e)
    /\ UNCHANGED <<dispatched, up>>

\* The oldest event is dispatched.
Dispatch ==
    /\ up
    /\ pending # <<>>
    /\ dispatched' = Append(dispatched, Head(pending))
    /\ pending' = Tail(pending)
    /\ UNCHANGED up

\* The monitor process dies with everything it holds.
Die ==
    /\ up
    /\ up' = FALSE
    /\ pending' = <<>>
    /\ UNCHANGED dispatched

Restart ==
    /\ ~up
    /\ up' = TRUE
    /\ UNCHANGED <<pending, dispatched>>

Next == Emit \/ Dispatch \/ Die \/ Restart

Spec == Init /\ [][Next]_vars
=============================================================================
