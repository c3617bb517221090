------------------------- MODULE DevicePluginProofs -------------------------
(***************************************************************************)
(* Proofs about DevicePlugin, for any devices, any number of kubelet       *)
(* restarts and process deaths, and any counted number of late handlers.   *)
(***************************************************************************)
EXTENDS DevicePlugin, TLAPS

\* A counter with a bound stays a natural number.
LEMMA CappedType == ASSUME NEW n \in Nat PROVE Capped(n) \in Nat
  BY PluginAssumption DEF Capped

\* A dead process has no connection to the kubelet: a restart that empties the
\* map takes nothing from under the kubelet.
DeadIsForgotten == pc = "dead" => watch = "none" /\ advertised = {}

\* Whoever stops the server closes its listener, which unlinks the socket.
SocketIsServed == sock => serving

PluginInv == TypeOK /\ AdvertisedAreKnown /\ DeadIsForgotten /\ SocketIsServed

\* The initial states satisfy PluginInv.
LEMMA InitPluginInv == Init => PluginInv
<1> SUFFICES ASSUME Init PROVE PluginInv
  OBVIOUS
<1>1. serving \in BOOLEAN /\ sock \in BOOLEAN /\ SocketIsServed
  BY Zenon DEF Init, SocketIsServed
<1> QED
  BY <1>1 DEF Init, PluginInv, TypeOK, AdvertisedAreKnown, DeadIsForgotten

\* Losing the connection leaves a well-typed state without advertised devices.
LEMMA DisconnectType ==
    ASSUME TypeOK, Disconnect
    PROVE  /\ watch' = "none"
           /\ advertised' = {}
           /\ unsent' \in Nat
           /\ idle' \in Nat
<1>1. unsent + 1 \in Nat /\ unsent \in Nat /\ idle + 1 \in Nat /\ idle \in Nat
  BY DEF TypeOK
<1> QED
  BY <1>1, CappedType DEF Disconnect

\* Every step preserves PluginInv.
LEMMA NextPluginInv == PluginInv /\ [Next]_vars => PluginInv'
<1> SUFFICES ASSUME PluginInv, [Next]_vars PROVE PluginInv'
  OBVIOUS
<1> USE DEF PluginInv, nodeVars, kubeletVars
<1>0. TypeOK /\ AdvertisedAreKnown /\ DeadIsForgotten /\ SocketIsServed
  OBVIOUS
<1>1. CASE UNCHANGED vars
  BY <1>1 DEF vars, TypeOK, AdvertisedAreKnown, DeadIsForgotten, SocketIsServed
<1>2. ASSUME NEW d \in Device, Appear(d) \/ Vanish(d) PROVE PluginInv'
  BY <1>2 DEF Appear, Vanish, TypeOK, AdvertisedAreKnown, DeadIsForgotten, SocketIsServed
<1>3. CASE KubeletStop
  <2>1. /\ watch' = "none" /\ advertised' = {}
        /\ unsent' \in Nat /\ idle' \in Nat
    BY <1>3, DisconnectType DEF KubeletStop
  <2> QED
    BY <1>3, <2>1 DEF KubeletStop, TypeOK, AdvertisedAreKnown, DeadIsForgotten, SocketIsServed
<1>4. CASE KubeletStart \/ KubeletReady \/ CallListAndWatch
  <2>1. CASE KubeletStart
    <3>1. sock' \in BOOLEAN /\ SocketIsServed'
      BY <2>1, Zenon DEF KubeletStart, SocketIsServed
    <3> QED
      BY <2>1, <3>1 DEF KubeletStart, TypeOK, AdvertisedAreKnown, DeadIsForgotten
  <2>2. CASE KubeletReady \/ CallListAndWatch
    BY <2>2 DEF KubeletReady, CallListAndWatch, TypeOK, AdvertisedAreKnown,
                DeadIsForgotten, SocketIsServed
  <2> QED
    BY <1>4, <2>1, <2>2
<1>5. CASE SendDevices
  BY <1>5 DEF SendDevices, TypeOK, AdvertisedAreKnown, DeadIsForgotten, SocketIsServed
<1>6. CASE SendFails
  <2>1. unsent' \in Nat /\ idle' \in Nat
    <3>1. unsent - 1 \in Nat /\ unsent \in Nat /\ idle + 1 \in Nat /\ idle \in Nat
      BY <1>6 DEF SendFails, TypeOK
    <3> QED
      BY <1>6, <3>1, CappedType DEF SendFails
  <2> QED
    BY <1>6, <2>1 DEF SendFails, TypeOK, AdvertisedAreKnown, DeadIsForgotten, SocketIsServed
<1>7. CASE Start \/ Listen \/ Register
  <2>1. CASE Start
    BY <2>1 DEF Start, TypeOK, AdvertisedAreKnown, DeadIsForgotten, SocketIsServed
  <2>2. CASE Listen
    <3>1. serving' \in BOOLEAN /\ sock' \in BOOLEAN /\ SocketIsServed'
      BY <2>2, Zenon DEF Listen, SocketIsServed
    <3> QED
      BY <2>2, <3>1 DEF Listen, TypeOK, AdvertisedAreKnown, DeadIsForgotten
  <2>3. CASE Register
    <3>1. watch' \in {"none", "registered"}
      BY <2>3, Zenon DEF Register
    <3>2. UNCHANGED <<serving, sock>>
      BY <2>3 DEF Register
    <3> QED
      BY <2>3, <3>1, <3>2 DEF Register, TypeOK, AdvertisedAreKnown, DeadIsForgotten,
                              SocketIsServed
  <2> QED
    BY <1>7, <2>1, <2>2, <2>3
<1>8. CASE RegisterFails \/ MapRace \/ Die
  <2>1. serving' \in BOOLEAN /\ sock' \in BOOLEAN /\ SocketIsServed'
    BY <1>8, Zenon DEF RegisterFails, MapRace, Die, Terminate, SocketIsServed
  <2> QED
    BY <1>8, <2>1 DEF RegisterFails, MapRace, Die, Terminate, TypeOK, AdvertisedAreKnown,
                      DeadIsForgotten
<1>9. CASE SocketCheck \/ DevCheck
  <2>1. /\ watch' = "none" /\ advertised' = {}
        /\ unsent' \in Nat /\ idle' \in Nat
    BY <1>9, DisconnectType DEF SocketCheck, DevCheck, StopServer
  <2> QED
    BY <1>9, <2>1 DEF SocketCheck, DevCheck, StopServer, TypeOK,
                      AdvertisedAreKnown, DeadIsForgotten, SocketIsServed
<1>10. CASE CheckNothing
  BY <1>10, <1>1 DEF CheckNothing
<1>11. CASE Restart
  BY <1>11 DEF Restart, TypeOK, AdvertisedAreKnown, DeadIsForgotten, SocketIsServed
<1>12. CASE DiscoverPart
  BY <1>12 DEF DiscoverPart, TypeOK, AdvertisedAreKnown, DeadIsForgotten, SocketIsServed
<1> QED
  BY <1>1, <1>2, <1>3, <1>4, <1>5, <1>6, <1>7, <1>8, <1>9, <1>10, <1>11, <1>12
     DEF Next, Process

\* PluginInv is an invariant of every behaviour of the plugin.
LEMMA PluginInvariance == Spec => []PluginInv
<1>1. Init => PluginInv
  BY InitPluginInv
<1>2. PluginInv /\ [Next]_vars => PluginInv'
  BY NextPluginInv
<1> QED
  BY <1>1, <1>2, PTL DEF Spec

\* Every variable of the plugin keeps its type.
THEOREM PluginTypeCorrect == Spec => []TypeOK
<1>1. PluginInv => TypeOK
  BY DEF PluginInv
<1> QED
  BY <1>1, PluginInvariance, PTL

\* Whatever the kubelet was told of over the present connection can be
\* allocated: it is in the plugin's map, across restarts and late handlers.
THEOREM AllocationsSucceed == Spec => []AdvertisedAreKnown
<1>1. PluginInv => AdvertisedAreKnown
  BY DEF PluginInv
<1> QED
  BY <1>1, PluginInvariance, PTL

\* Serve notices, by the missing socket, a server that a handler has stopped.
THEOREM StopsAreNoticed == Spec => []StoppedServerIsNoticed
<1>1. PluginInv => StoppedServerIsNoticed
  BY DEF PluginInv, SocketIsServed, StoppedServerIsNoticed, TypeOK
<1> QED
  BY <1>1, PluginInvariance, PTL

-----------------------------------------------------------------------------
(* Noticing a kubelet that has restarted.                                  *)

\* The invariant with the kubelet's start added: as it starts it removes the
\* socket of a plugin that is registered, before it can be up again.
ServedIsConnected ==
    pc = "check" /\ kubelet # "down" /\ sock => watch # "none"

\* Every step preserves ServedIsConnected: whoever takes the connection away
\* also takes the socket or the kubelet, and only Listen makes a socket.
LEMMA NextServedIsConnected ==
    PluginInv /\ ServedIsConnected /\ [Next]_vars => ServedIsConnected'
<1> SUFFICES ASSUME PluginInv, ServedIsConnected, [Next]_vars
             PROVE  ServedIsConnected'
  OBVIOUS
<1> USE DEF nodeVars, kubeletVars
<1>1. CASE UNCHANGED vars
  BY <1>1 DEF vars, ServedIsConnected
<1>2. ASSUME NEW d \in Device, Appear(d) \/ Vanish(d) PROVE ServedIsConnected'
  BY <1>2 DEF Appear, Vanish, ServedIsConnected
<1>3. CASE KubeletStop
  BY <1>3 DEF KubeletStop, ServedIsConnected
<1>4. CASE KubeletStart
  BY <1>4, Zenon DEF KubeletStart, ServedIsConnected
<1>5. CASE KubeletReady \/ CallListAndWatch \/ SendDevices
  BY <1>5 DEF KubeletReady, CallListAndWatch, SendDevices, ServedIsConnected
<1>6. CASE SendFails
  BY <1>6, Zenon DEF SendFails, ServedIsConnected
<1>7. CASE Start \/ Listen \/ Restart
  BY <1>7 DEF Start, Listen, Restart, ServedIsConnected
<1>8. CASE Register
  <2>1. sock' => watch' = "registered"
    BY <1>8, Zenon DEF Register, PluginInv, SocketIsServed
  <2> QED
    BY <2>1 DEF ServedIsConnected
<1>9. CASE RegisterFails \/ MapRace \/ Die
  BY <1>9 DEF RegisterFails, MapRace, Die, Terminate, ServedIsConnected
<1>10. CASE SocketCheck \/ DevCheck
  BY <1>10 DEF SocketCheck, DevCheck, ServedIsConnected
<1>11. CASE CheckNothing
  BY <1>11, <1>1 DEF CheckNothing
<1>12. CASE DiscoverPart
  BY <1>12 DEF DiscoverPart, ServedIsConnected
<1> QED
  BY <1>1, <1>2, <1>3, <1>4, <1>5, <1>6, <1>7, <1>8, <1>9, <1>10, <1>11, <1>12
     DEF Next, Process

\* A kubelet that has restarted, or was cut off by a late handler, is noticed
\* by the missing socket alone: a plugin that finds its socket and an up
\* kubelet is connected, however deaths, races and restarts interleave.
THEOREM RestartsAreNoticed == Spec => []RestartedKubeletIsNoticed
<1>1. Init => ServedIsConnected
  BY DEF Init, ServedIsConnected
<1>2. PluginInv /\ ServedIsConnected /\ [Next]_vars => ServedIsConnected'
  BY NextServedIsConnected
<1>3. ServedIsConnected => RestartedKubeletIsNoticed
  BY DEF ServedIsConnected, RestartedKubeletIsNoticed
<1> QED
  BY <1>1, <1>2, <1>3, PluginInvariance, PTL DEF Spec
=============================================================================
