------------------------- MODULE UinputMonitorOrder -------------------------
(***************************************************************************)
(* The uinput monitor with a record of the device events its loop has      *)
(* dispatched.  The record is no part of the program; with it the monitor  *)
(* can be shown to implement DeviceEventFifo, which says that an event     *)
(* leaves the queue by being dispatched and not otherwise.                 *)
(***************************************************************************)
EXTENDS UinputMonitor

VARIABLE dispatched  \* history: device events dispatched, oldest first

orderVars == <<vars, dispatched>>

OrderInit == Init /\ dispatched = <<>>

OrderNext ==
    /\ Next
    /\ dispatched' = IF DispatchDevice
                     THEN Append(dispatched, Head(group.devices)) ELSE dispatched

OrderSpec == OrderInit /\ [][OrderNext]_orderVars

FairOrderSpec == OrderSpec /\ Fairness

-----------------------------------------------------------------------------
\* The events between the kernel and the dispatcher, oldest first: those of the
\* group, the one the scanner is sending and those it has not read.
OnTheirWay ==
    group.devices \o (IF uevent = None THEN <<>> ELSE <<uevent>>) \o uevents

\* Device events form one queue from udevadm through the scanner and the
\* channel to the group being dispatched: each is dispatched, once and in its
\* turn, whatever triggers arrive in between and replace each other, unless the
\* monitor dies first.
Fifo == INSTANCE DeviceEventFifo WITH
            Event <- DeviceEvent,
            pending <- OnTheirWay,
            up <- mpc # "down"

DeviceEventsInOrder == Fifo!Spec
=============================================================================
