-------------------------- MODULE NumberedDevices ---------------------------
(***************************************************************************)
(* What the device pool promises about event numbers: it makes its devices *)
(* in order, and when one is made finds in one step a number that no other *)
(* device is bound to and whose owner has the device's name.  The devices  *)
(* before it are bound already, so this is the number the kernel gave the  *)
(* device unless an application uses the name.  Applications come and go   *)
(* at any moment and only the end of the process takes anything back, all  *)
(* together.                                                               *)
(***************************************************************************)
EXTENDS Integers

CONSTANTS Event, Index, App, Name, None

VARIABLES
    owner,  \* who has each event number
    bound   \* the number the endpoints of each device are for

vars == <<owner, bound>>

Unbound == [i \in Index |-> None]

Init ==
    /\ owner = [e \in Event |-> None]
    /\ bound = Unbound

\* A device's owner is new, and the device takes the lowest free number.
Attach(o) ==
    /\ \A e \in Event : owner[e] # o
    /\ \E e \in Event :
          /\ owner[e] = None
          /\ \A f \in Event : f < e => owner[f] # None
          /\ owner' = [owner EXCEPT ![e] = o]
    /\ UNCHANGED bound

Close(e) ==
    /\ owner[e] \in App
    /\ owner' = [owner EXCEPT ![e] = None]
    /\ UNCHANGED bound

\* The devices before this one are bound: it is its turn.
Turn(i) == \A j \in Index : bound[j] # None <=> j < i

Make(i) == Turn(i) /\ Attach(i)

\* The endpoints get a number of the device's name that is not in use yet.
Learn(i) ==
    /\ Turn(i)
    /\ \E e \in Event : owner[e] = i
    /\ \E e \in Event :
          /\ owner[e] # None
          /\ Name[owner[e]] = Name[i]
          /\ \A j \in Index : bound[j] # e
          /\ bound' = [bound EXCEPT ![i] = e]
    /\ UNCHANGED owner

End ==
    /\ owner' = [e \in Event |-> IF owner[e] \in Index THEN None ELSE owner[e]]
    /\ bound' = Unbound

Next ==
    \/ \E a \in App : Attach(a)
    \/ \E e \in Event : Close(e)
    \/ \E i \in Index : Make(i) \/ Learn(i)
    \/ End

Spec == Init /\ [][Next]_vars
=============================================================================
