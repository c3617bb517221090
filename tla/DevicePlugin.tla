---------------------------- MODULE DevicePlugin ----------------------------
(***************************************************************************)
(* One device plugin process (pkg/uinput/manager.go, beta_plugin.go) and   *)
(* the kubelet it registers with.  Serve starts a gRPC server on a socket  *)
(* in the kubelet's plugin directory, registers it, and then watches that  *)
(* the socket is still there and that the number of devices is still the   *)
(* number it knows; otherwise it stops the server and begins again.  The   *)
(* kubelet calls ListAndWatch on the server it was told of; the handler    *)
(* sends the known devices once and then sleeps in a loop for ever.        *)
(*                                                                         *)
(* The plugin for control sockets has the same life, with controlMounts    *)
(* for inputDevices and no linked devices.                                 *)
(***************************************************************************)
EXTENDS Naturals, FiniteSets

CONSTANTS
    Device,      \* input devices matching the plugin's pattern, by event name
    Linked,      \* those known by a symlink in /dev/input, not a directory in sysfs
    MaxAppear,   \* bound: times a device appears
    MaxVanish,   \* bound: times a device vanishes
    MaxKubelet,  \* bound: times the kubelet stops
    MaxDeaths,   \* bound: times the process is killed
    MaxHandlers  \* bound: handlers counted

ASSUME PluginAssumption ==
    /\ IsFiniteSet(Device)
    /\ Linked \subseteq Device
    /\ MaxAppear \in Nat
    /\ MaxVanish \in Nat
    /\ MaxKubelet \in Nat
    /\ MaxDeaths \in Nat
    /\ MaxHandlers \in Nat

VARIABLES
    present,       \* devices on the node
    appeared, vanished, kubeletStops, deaths,  \* how often each happened
    pc,            \* the process: start, listen, register, check or dead
    inputDevices,  \* the map of known devices
    serving,       \* the current gRPC server is running
    sock,          \* its socket exists in the plugin directory
    kubelet,       \* up, down or starting
    watch,         \* ListAndWatch of the current server:
                   \* none, registered, called or sent
    advertised,    \* devices the kubelet was sent
    unsent,        \* handlers of earlier servers that have yet to send
    idle           \* handlers of earlier connections that sleep for ever

nodeVars == <<present, appeared, vanished>>
kubeletVars == <<kubelet, kubeletStops, watch, advertised>>
vars == <<nodeVars, kubeletVars, deaths, pc, inputDevices, serving, sock,
          unsent, idle>>

Init ==
    /\ present \in SUBSET Device
    /\ appeared = 0
    /\ vanished = 0
    /\ kubeletStops = 0
    /\ deaths = 0
    /\ pc = "start"
    /\ inputDevices = {}
    /\ serving = FALSE
    /\ sock = FALSE
    /\ kubelet = "up"
    /\ watch = "none"
    /\ advertised = {}
    /\ unsent = 0
    /\ idle = 0

Capped(n) == IF n < MaxHandlers THEN n ELSE MaxHandlers

\* The kubelet loses its connection and forgets the devices; the handler of
\* that connection is not told.
Disconnect ==
    /\ watch' = "none"
    /\ advertised' = {}
    /\ unsent' = Capped(IF watch = "called" THEN unsent + 1 ELSE unsent)
    /\ idle' = Capped(IF watch = "sent" THEN idle + 1 ELSE idle)

\* grpcServer.Stop(): closing the listener unlinks the socket.
StopServer ==
    /\ serving' = FALSE
    /\ sock' = FALSE
    /\ Disconnect

-----------------------------------------------------------------------------
(* The node: devices come and go.                                          *)

Appear(d) ==
    /\ d \notin present
    /\ appeared < MaxAppear
    /\ present' = present \cup {d}
    /\ appeared' = appeared + 1
    /\ UNCHANGED <<vanished, kubeletVars, deaths, pc, inputDevices, serving,
                   sock, unsent, idle>>

Vanish(d) ==
    /\ d \in present
    /\ vanished < MaxVanish
    /\ present' = present \ {d}
    /\ vanished' = vanished + 1
    /\ UNCHANGED <<appeared, kubeletVars, deaths, pc, inputDevices, serving,
                   sock, unsent, idle>>

-----------------------------------------------------------------------------
(* The kubelet.                                                            *)

KubeletStop ==
    /\ kubelet = "up"
    /\ kubeletStops < MaxKubelet
    /\ kubelet' = "down"
    /\ kubeletStops' = kubeletStops + 1
    /\ Disconnect
    /\ UNCHANGED <<nodeVars, deaths, pc, inputDevices, serving, sock>>

\* It removes every socket in the plugin directory, then serves its own.
KubeletStart ==
    /\ kubelet = "down"
    /\ kubelet' = "starting"
    /\ sock' = FALSE
    /\ UNCHANGED <<nodeVars, kubeletStops, watch, advertised, deaths, pc,
                   inputDevices, serving, unsent, idle>>

KubeletReady ==
    /\ kubelet = "starting"
    /\ kubelet' = "up"
    /\ UNCHANGED <<nodeVars, kubeletStops, watch, advertised, deaths, pc,
                   inputDevices, serving, sock, unsent, idle>>

CallListAndWatch ==
    /\ watch = "registered"
    /\ watch' = "called"
    /\ UNCHANGED <<nodeVars, kubelet, kubeletStops, advertised, deaths, pc,
                   inputDevices, serving, sock, unsent, idle>>

-----------------------------------------------------------------------------
(* ListAndWatch.  Health never changes, so a handler sends only once.      *)

SendDevices ==
    /\ watch = "called"
    /\ watch' = "sent"
    /\ advertised' = inputDevices
    /\ UNCHANGED <<nodeVars, kubelet, kubeletStops, deaths, pc, inputDevices,
                   serving, sock, unsent, idle>>

\* Mutant: the handler of the present connection fails too.
SendFailsAnyTime ==
    /\ serving' = FALSE
    /\ sock' = FALSE
    /\ watch' = "none"
    /\ advertised' = {}
    /\ unsent' = unsent - 1
    /\ UNCHANGED <<nodeVars, kubelet, kubeletStops, deaths, pc, inputDevices, idle>>

\* Mutant: the handler stops the server in a way that leaves its socket.
SendFailsLeavingSocket ==
    /\ unsent > 0
    /\ serving' = FALSE
    /\ watch' = "none"
    /\ advertised' = {}
    /\ unsent' = unsent - 1
    /\ UNCHANGED <<nodeVars, kubelet, kubeletStops, deaths, pc, inputDevices,
                   sock, idle>>

\* A handler whose connection is gone stops the server in uim.grpcServer,
\* which by now may be a later one than its own.
SendFails ==
    /\ unsent > 0
    /\ serving' = FALSE
    /\ sock' = FALSE
    /\ watch' = "none"
    /\ advertised' = {}
    /\ unsent' = Capped(IF watch = "called" THEN unsent ELSE unsent - 1)
    /\ idle' = Capped(IF watch = "sent" THEN idle + 1 ELSE idle)
    /\ UNCHANGED <<nodeVars, kubelet, kubeletStops, deaths, pc, inputDevices>>

-----------------------------------------------------------------------------
(* The process: main, Start and Serve.                                     *)

\* A directory that vanishes between the listing and its own ends discoverInputs
\* with an error; what was found before stays in the map, and main and Serve try
\* again.
DiscoverPart ==
    /\ pc = "start"
    /\ vanished < MaxVanish
    /\ vanished' = vanished + 1
    /\ \E d \in present : \E s \in SUBSET (present \ {d}) :
          /\ present' = present \ {d}
          /\ inputDevices' = inputDevices \cup s
    /\ UNCHANGED <<appeared, kubeletVars, deaths, pc, serving, sock, unsent, idle>>

\* discoverInputs only adds to the map.
Start ==
    /\ pc = "start"
    /\ inputDevices' = inputDevices \cup present
    /\ pc' = "listen"
    /\ UNCHANGED <<nodeVars, kubeletVars, deaths, serving, sock, unsent, idle>>

Listen ==
    /\ pc = "listen"
    /\ serving' = TRUE
    /\ sock' = TRUE
    /\ pc' = "register"
    /\ UNCHANGED <<nodeVars, kubeletVars, deaths, inputDevices, unsent, idle>>

\* The kubelet connects back only to a server that answers on the socket.
Register ==
    /\ pc = "register"
    /\ kubelet = "up"
    /\ pc' = "check"
    /\ watch' = IF serving /\ sock THEN "registered" ELSE "none"
    /\ UNCHANGED <<nodeVars, kubelet, kubeletStops, advertised, deaths,
                   inputDevices, serving, sock, unsent, idle>>

\* The end of the process ends its server and its handlers.
Terminate ==
    /\ pc' = "dead"
    /\ serving' = FALSE
    /\ sock' = FALSE
    /\ watch' = "none"
    /\ advertised' = {}
    /\ unsent' = 0
    /\ idle' = 0

\* Mutant: the registration's error is not looked at.
RegisterUnheard ==
    /\ pc = "register"
    /\ kubelet # "up"
    /\ pc' = "check"
    /\ UNCHANGED <<nodeVars, kubeletVars, deaths, inputDevices, serving, sock,
                   unsent, idle>>

RegisterFails ==
    /\ pc = "register"
    /\ kubelet # "up"
    /\ Terminate
    /\ UNCHANGED <<nodeVars, kubelet, kubeletStops, deaths, inputDevices>>

SocketCheck ==
    /\ pc = "check"
    /\ ~sock
    /\ StopServer
    /\ pc' = "listen"
    /\ UNCHANGED <<nodeVars, kubelet, kubeletStops, deaths, inputDevices>>

\* Mutant: one directory too many is counted.
NumInputsAndOne == Cardinality(present \ Linked) + 1

\* discoverNumInputs does not look for the symlinks that discoverInputs follows.
NumInputs == Cardinality(present \ Linked)

\* Mutant: only a smaller number of devices is a change.
HasFewerDevices == NumInputs < Cardinality(inputDevices)

HasAdditionalDevices == NumInputs # Cardinality(inputDevices)

\* Mutant: the map is replaced and the server goes on.
DevCheckInPlace ==
    /\ pc = "check"
    /\ HasAdditionalDevices
    /\ inputDevices' = present
    /\ UNCHANGED <<nodeVars, kubeletVars, deaths, pc, serving, sock, unsent, idle>>

\* The devices are discovered again after the server has stopped.
DevCheck ==
    /\ pc = "check"
    /\ HasAdditionalDevices
    /\ StopServer
    /\ pc' = "start"
    /\ UNCHANGED <<nodeVars, kubelet, kubeletStops, deaths, inputDevices>>

\* Both checks, finding nothing.
CheckNothing ==
    /\ pc = "check"
    /\ sock
    /\ ~HasAdditionalDevices
    /\ UNCHANGED vars

Die ==
    /\ pc # "dead"
    /\ deaths < MaxDeaths
    /\ deaths' = deaths + 1
    /\ Terminate
    /\ UNCHANGED <<nodeVars, kubelet, kubeletStops, inputDevices>>

\* The container is restarted, with an empty map.
Restart ==
    /\ pc = "dead"
    /\ pc' = "start"
    /\ inputDevices' = {}
    /\ UNCHANGED <<nodeVars, kubeletVars, deaths, serving, sock, unsent, idle>>

\* A handler that has yet to send reads the map without the mutex; if discovery
\* writes it at that moment, the runtime may end the process.
MapRace ==
    /\ pc = "start"
    /\ unsent > 0
    /\ present # {}
    /\ Terminate
    /\ UNCHANGED <<nodeVars, kubelet, kubeletStops, deaths, inputDevices>>

-----------------------------------------------------------------------------
Process ==
    \/ Start \/ Listen \/ Register \/ RegisterFails
    \/ SocketCheck \/ DevCheck \/ CheckNothing \/ Restart

Next ==
    \/ \E d \in Device : Appear(d) \/ Vanish(d)
    \/ KubeletStop \/ KubeletStart \/ KubeletReady \/ CallListAndWatch
    \/ SendDevices \/ SendFails
    \/ Process \/ DiscoverPart \/ MapRace \/ Die

Spec == Init /\ [][Next]_vars

\* The process and its handlers run, and the node keeps a kubelet running.  The
\* kubelet connects back and a handler sends at once, while the checks wait for
\* a second or ten: neither is overtaken by a restart every time.
Fairness ==
    /\ WF_vars(Process)
    /\ SF_vars(SendDevices)
    /\ WF_vars(SendFails)
    /\ SF_vars(CallListAndWatch)
    /\ WF_vars(KubeletStart)
    /\ WF_vars(KubeletReady)

FairSpec == Spec /\ Fairness

-----------------------------------------------------------------------------
TypeOK ==
    /\ present \subseteq Device
    /\ appeared \in Nat
    /\ vanished \in Nat
    /\ kubeletStops \in Nat
    /\ deaths \in Nat
    /\ pc \in {"start", "listen", "register", "check", "dead"}
    /\ inputDevices \subseteq Device
    /\ serving \in BOOLEAN
    /\ sock \in BOOLEAN
    /\ kubelet \in {"up", "down", "starting"}
    /\ watch \in {"none", "registered", "called", "sent"}
    /\ advertised \subseteq Device
    /\ unsent \in Nat
    /\ idle \in Nat

\* Allocate finds every device the kubelet can ask for: what was advertised
\* over the present connection stays in the map, across rediscoveries and
\* whatever the handlers of earlier connections do.
AdvertisedAreKnown == advertised \subseteq inputDevices

\* A server that something else than Serve has stopped does not go unnoticed:
\* its socket is gone too, which is what Serve looks for.
StoppedServerIsNoticed == pc = "check" /\ ~serving => ~sock

\* A kubelet that has restarted, or lost the plugin otherwise, does not go
\* unnoticed: while Serve finds its socket, a kubelet that is up has it
\* registered, or is talking to it.
RestartedKubeletIsNoticed ==
    pc = "check" /\ kubelet = "up" /\ sock => watch # "none"

\* As many devices have directories in sysfs as the plugin knows.
CountsAgree == Cardinality(present \ Linked) = Cardinality(inputDevices)

\* A device that the plugin does not know although the counts agree.
Overlooked(d) == d \notin inputDevices /\ CountsAgree

\* A device that appears and stays is advertised to the kubelet again and again,
\* through kubelet restarts, killed processes, late handlers and their races,
\* unless as many known devices are gone as there are unknown ones for ever.
NewDeviceIsAdvertised ==
    \A d \in Device :
        <>[](d \in present) => []<>(d \in advertised) \/ <>[]Overlooked(d)

\* The plugin settles: once the counts agree for ever, it stays registered
\* with all it knows advertised, rather than restart for ever.
PluginSettles ==
    <>[]CountsAgree => <>[](watch = "sent" /\ advertised = inputDevices)

\* "Checking ... if there are new devices found. If so, stop the grpc server
\* and start the whole thing again": devCheck restarts it for new devices.
RestartsForNewDevices ==
    [][pc = "check" /\ pc' = "start" => ~(present \subseteq inputDevices)]_vars
=============================================================================
