-------------------------- MODULE DevicePoolProofs --------------------------
(***************************************************************************)
(* Proofs about DevicePool, for any number of devices, event numbers,      *)
(* applications, kills and stops.                                          *)
(***************************************************************************)
EXTENDS DevicePool, TLAPS

\* A process that has not made a device yet is at the first.
StartsOver == pc \in {"start", "dead"} => idx = 1

\* The process makes one device at a time, in order: those on the node are the
\* devices before the present one and, once it was made, the present one, each
\* at one number.  An application's device is on the node only if the
\* application has made it.
MadeInOrder ==
    /\ \A e \in Event : sysfs[e] \in Index =>
          sysfs[e] < idx \/ (sysfs[e] = idx /\ goal = "after")
    /\ \A e, f \in Event : sysfs[e] \in Index /\ sysfs[e] = sysfs[f] => e = f
    /\ goal = "after" => \E e \in Event : sysfs[e] = idx
    /\ \A e \in Event : sysfs[e] \in App => sysfs[e] \in used
    /\ pc \in {"start", "dead"} => goal = "main"
    /\ pc = "create" => goal = "before"
    /\ pc \in {"bind", "wait", "run"} => goal = "after"

\* Nothing runs in a pod that is gone.
GoneIsDead == stop = "gone" => pc = "dead"

\* The registry never forgets a device the pool is done with.
DoneAreKnown == \A i \in Index : Done(i) => ev[i] \in known

\* The number taken for the present device is not that of an earlier one.
TakenIsFresh ==
    pc \in {"bind", "wait"} =>
        /\ ev[idx] \in known
        /\ \A i \in Index : i < idx => ev[i] # ev[idx]
        /\ found[idx] \in Owner

\* Its socket is there when the process waits for the device itself.
WaitsBound == pc = "wait" => sock[ev[idx]] = idx \/ stop # "no"

PoolInv ==
    /\ TypeOK
    /\ StartsOver
    /\ MadeInOrder
    /\ GoneIsDead
    /\ DoneAreKnown
    /\ TakenIsFresh
    /\ WaitsBound
    /\ EndpointsDriveTheirDevices
    /\ ReadyFileIsEarned

\* The first and the last device exist, and mice are devices.
LEMMA Indexes ==
    /\ 1 \in Index
    /\ NumMice + NumJs \in Index
    /\ Mouse \subseteq Index
    /\ \A i \in Index : i # NumMice + NumJs => i + 1 \in Index
    /\ \A f \in Ready : LastOf[f] \in Index
    /\ Index \subseteq Int
<1>1. NumMice \in Nat \ {0} /\ NumJs \in Nat
  BY PoolAssumption
<1> QED
  BY <1>1, SMT DEF Index, Mouse, Ready, LastOf

\* Owners and None are told apart.
LEMMA Owners ==
    /\ None \notin Owner
    /\ App \cap Index = {}
    /\ None \notin Event
<1>1. Event \subseteq Int
  BY PoolAssumption DEF Event
<1>2. App \cap Int = {} /\ None \notin App \cup Int
  BY PoolAssumption
<1> QED
  BY <1>1, <1>2, Indexes, Zenon DEF Owner

\* A listing names event numbers only.
LEMMA ZippedType == \A s \in Zipped : s \subseteq Event
  BY DEF Zipped

\* What a listing names was there.
LEMMA ZippedListed == \A s \in Zipped : \A e \in s : seen[e] # None
  BY DEF Zipped

\* The initial states satisfy PoolInv.
LEMMA InitPoolInv == Init => PoolInv
<1> SUFFICES ASSUME Init PROVE PoolInv
  OBVIOUS
<1>1. TypeOK
  BY Indexes DEF Init, TypeOK, Nothing
<1>2. \A i \in Index : ~Done(i)
  BY Indexes DEF Init, Done, Index
<1>3. MadeInOrder
  BY Owners DEF Init, MadeInOrder, Nothing, Owner
<1> QED
  BY <1>1, <1>2, <1>3 DEF Init, PoolInv, StartsOver, GoneIsDead, DoneAreKnown,
       TakenIsFresh, WaitsBound, EndpointsDriveTheirDevices, ReadyFileIsEarned

\* A device is attached at a number that was free, and nothing else changes.
LEMMA AttachFacts ==
    ASSUME TypeOK, NEW o \in Owner, Attach(o)
    PROVE  /\ sysfs' \in [Event -> Owner \cup {None}]
           /\ \A e \in Event : sysfs[e] # None => sysfs'[e] = sysfs[e]
  BY DEF TypeOK, Attach

\* The end of the process leaves a well-typed state in which nothing is done.
LEMMA PerishFacts ==
    ASSUME TypeOK, Perish
    PROVE  /\ sysfs' \in [Event -> Owner \cup {None}]
           /\ pc' = "dead"
           /\ goal' = "main"
           /\ idx' = 1
           /\ known' \subseteq Event
           /\ seen' \in [Event -> Owner \cup {None}]
           /\ ev' \in [Index -> Event \cup {None}]
           /\ found' \in [Index -> Owner \cup {None}]
  BY DEF TypeOK, Perish, Nothing

\* Discovery names mice.
LEMMA DiscoveredType ==
    ASSUME TypeOK PROVE Discovered \in [Event -> Mouse \cup {None}]
<1>1. \A e \in Event : LinksTo(e) # {} => (CHOOSE m \in LinksTo(e) : TRUE) \in Mouse
  BY DEF LinksTo
<1> QED
  BY <1>1 DEF TypeOK, Discovered

\* Every step keeps the types.
LEMMA TypeStep == TypeOK /\ [Next]_vars => TypeOK'
<1> SUFFICES ASSUME TypeOK, [Next]_vars PROVE TypeOK'
  OBVIOUS
<1> USE Indexes
<1>1. ASSUME NEW a \in App, AppOpen(a) PROVE TypeOK'
  <2>1. sysfs' \in [Event -> Owner \cup {None}]
    BY <1>1, AttachFacts DEF AppOpen, Owner
  <2> QED
    BY <1>1, <2>1 DEF TypeOK, AppOpen, poolVars, fileVars
<1>2. ASSUME NEW e \in Event, AppClose(e) PROVE TypeOK'
  BY <1>2 DEF TypeOK, AppClose, poolVars, fileVars
<1>3. CASE Start
  BY <1>3 DEF TypeOK, Start, Nothing
<1>4. CASE GlobEvents
  BY <1>4 DEF TypeOK, GlobEvents, fileVars
<1>5. CASE Refresh
  <2>1. known' \subseteq Event
    BY <1>5, ZippedType DEF TypeOK, Refresh
  <2> QED
    BY <1>5, <2>1 DEF TypeOK, Refresh, Nothing, fileVars
<1>6. CASE CreateDevice
  <2>1. idx \in Owner
    BY DEF TypeOK, Owner
  <2> QED
    BY <1>6, <2>1, AttachFacts DEF TypeOK, CreateDevice, fileVars
<1>7. CASE TakeNew
  <2>1. known' \subseteq Event /\ ev' \in [Index -> Event \cup {None}]
            /\ found' \in [Index -> Owner \cup {None}]
    BY <1>7, ZippedType DEF TypeOK, TakeNew
  <2> QED
    BY <1>7, <2>1 DEF TypeOK, TakeNew, Nothing, fileVars
<1>8. CASE RaiseDeviceError
  BY <1>8, PerishFacts DEF TypeOK, RaiseDeviceError, Die, fileVars
<1>9. CASE Bind
  BY <1>9 DEF TypeOK, Bind
<1>10. CASE FindDevice
  <2>1. link' \in [Mouse -> Event \cup {None}] /\ flags' \subseteq Ready
    BY <1>10 DEF TypeOK, FindDevice, Finish
  <2>2. idx' \in Index /\ pc' \in {"run", "glob"} /\ goal' \in {"main", "before", "after"}
    BY <1>10 DEF TypeOK, FindDevice, Finish
  <2> QED
    BY <1>10, <2>1, <2>2 DEF TypeOK, FindDevice, Finish
<1>11. CASE Restart
  BY <1>11 DEF TypeOK, Restart, fileVars
<1>12. CASE HookFlags
  BY <1>12 DEF TypeOK, HookFlags, poolVars
<1>13. CASE HookSockets
  BY <1>13 DEF TypeOK, HookSockets, poolVars, Nothing
<1>14. CASE Kill
  BY <1>14, PerishFacts DEF TypeOK, Kill, Nothing, fileVars
<1>15. CASE NewPod
  BY <1>15 DEF TypeOK, NewPod, poolVars, fileVars
<1>16. CASE StartPlugin
  BY <1>16, DiscoveredType DEF TypeOK, StartPlugin, poolVars, fileVars
<1>17. CASE Rediscover
  BY <1>17, DiscoveredType DEF TypeOK, Rediscover, poolVars, fileVars
<1>18. CASE Crash
  BY <1>18, PerishFacts DEF TypeOK, Crash, Die, fileVars
<1>19. CASE StopPod
  BY <1>19 DEF TypeOK, StopPod, poolVars, fileVars
<1>20. CASE UNCHANGED vars
  BY <1>20 DEF TypeOK, vars, poolVars, fileVars
<1> QED
  BY <1>1, <1>2, <1>3, <1>4, <1>5, <1>6, <1>7, <1>8, <1>9, <1>10, <1>11, <1>12,
     <1>13, <1>14, <1>15, <1>16, <1>17, <1>18, <1>19, <1>20
     DEF Next, Pool, Pod, Plugin, WaitLonger, CheckNothing

-----------------------------------------------------------------------------
\* The end of the process takes all of its devices away.
LEMMA PerishMadeInOrder ==
    ASSUME TypeOK, MadeInOrder, Perish, used' = used PROVE MadeInOrder'
<1>1. /\ pc' = "dead" /\ goal' = "main" /\ idx' = 1
      /\ \A e \in Event : sysfs'[e] \notin Index /\ (sysfs'[e] \in App => sysfs'[e] = sysfs[e])
  BY Owners, Indexes DEF Perish, Owner
<1> QED
  BY <1>1 DEF MadeInOrder

\* Every step keeps the order.
LEMMA MadeInOrderStep == TypeOK /\ StartsOver /\ MadeInOrder /\ [Next]_vars => MadeInOrder'
<1> SUFFICES ASSUME TypeOK, StartsOver, MadeInOrder, [Next]_vars PROVE MadeInOrder'
  OBVIOUS
<1>0. TypeOK /\ TypeOK' /\ StartsOver
  BY TypeStep
<1>1. ASSUME NEW a \in App, AppOpen(a) PROVE MadeInOrder'
  <2>1. PICK e \in Event : sysfs' = [sysfs EXCEPT ![e] = a]
    BY <1>1 DEF AppOpen, Attach
  <2>2. \A f \in Event : \/ sysfs'[f] = sysfs[f]
                         \/ sysfs'[f] = a /\ a \in used' /\ a \notin Index
    BY <1>0, <1>1, <2>1, Owners DEF TypeOK, AppOpen
  <2>3. \A f \in Event : sysfs[f] \in Index => sysfs'[f] = sysfs[f]
    BY <1>1, AttachFacts, Owners DEF AppOpen, Owner
  <2>4. idx \in Index /\ UNCHANGED <<idx, goal, pc>> /\ used \subseteq used'
    BY <1>0, <1>1 DEF TypeOK, AppOpen, poolVars
  <2>5. goal' = "after" => \E f \in Event : sysfs'[f] = idx'
    BY <2>3, <2>4 DEF MadeInOrder
  <2>6. \A f \in Event : sysfs'[f] \in Index => sysfs'[f] = sysfs[f]
    BY <2>2
  <2> QED
    BY <2>2, <2>4, <2>5, <2>6 DEF MadeInOrder
<1>2. ASSUME NEW e \in Event, AppClose(e) PROVE MadeInOrder'
  <2>1. \A f \in Event : sysfs'[f] = sysfs[f] \/ sysfs'[f] = None
    BY <1>0, <1>2 DEF TypeOK, AppClose
  <2>2. \A f \in Event : sysfs[f] \in Index => sysfs'[f] = sysfs[f]
    BY <1>0, <1>2, Owners DEF TypeOK, AppClose
  <2>3. idx \in Index /\ None \notin Index \cup App
    BY <1>0, Owners DEF TypeOK, Owner
  <2> QED
    BY <1>2, <2>1, <2>2, <2>3 DEF MadeInOrder, AppClose, poolVars
<1>3. CASE Start \/ GlobEvents \/ Refresh \/ TakeNew \/ Bind \/ Restart
  BY <1>3 DEF MadeInOrder, Start, GlobEvents, Refresh, TakeNew, Bind, Restart
<1>4. CASE CreateDevice
  <2>1. PICK e \in Event : sysfs' = [sysfs EXCEPT ![e] = idx]
    BY <1>4 DEF CreateDevice, Attach
  <2>2. \A f \in Event : sysfs'[f] = sysfs[f] \/ sysfs'[f] = idx
    BY <1>0, <2>1 DEF TypeOK
  <2>3. idx \in Index /\ idx \notin App /\ Index \subseteq Int
    BY <1>0, Owners, Indexes DEF TypeOK
  <2>4. /\ pc' = "glob" /\ goal' = "after" /\ goal = "before"
        /\ UNCHANGED <<idx, used>>
    BY <1>4 DEF CreateDevice, MadeInOrder
  <2>5. \A f \in Event : sysfs[f] # idx
    BY <2>3, <2>4 DEF MadeInOrder
  <2>6. sysfs'[e] = idx /\ \A f \in Event : f # e => sysfs'[f] = sysfs[f]
    BY <1>0, <2>1 DEF TypeOK
  <2>7. \A f, g \in Event : sysfs'[f] \in Index /\ sysfs'[f] = sysfs'[g] => f = g
    BY <2>5, <2>6 DEF MadeInOrder
  <2> QED
    BY <2>2, <2>3, <2>4, <2>6, <2>7 DEF MadeInOrder
<1>5. CASE RaiseDeviceError \/ Crash \/ Kill
  <2>1. Perish /\ used' = used
    BY <1>5 DEF RaiseDeviceError, Crash, Kill, Die
  <2> QED
    BY <1>0, <2>1, PerishMadeInOrder
<1>6. CASE FindDevice
  <2>1. CASE idx = NumMice + NumJs
    BY <1>6, <2>1 DEF MadeInOrder, FindDevice, Finish
  <2>2. CASE idx # NumMice + NumJs
    <3>1. pc' = "glob" /\ goal' = "before" /\ idx' = idx + 1 /\ UNCHANGED <<sysfs, used>>
      BY <1>6, <2>2 DEF FindDevice, Finish
    <3>2. idx \in Int /\ Index \subseteq Int
      BY <1>0, Indexes DEF TypeOK
    <3>3. \A n \in Index : n < idx \/ n = idx => n < idx + 1
      BY <3>2
    <3>4. \A e \in Event : sysfs[e] \in Index => sysfs'[e] < idx'
      BY <3>1, <3>3 DEF MadeInOrder
    <3> QED
      BY <3>1, <3>4 DEF MadeInOrder
  <2> QED
    BY <2>1, <2>2
<1>7. CASE HookFlags \/ HookSockets \/ NewPod \/ StartPlugin \/ Rediscover \/ StopPod
  BY <1>7 DEF MadeInOrder, HookFlags, HookSockets, NewPod, StartPlugin, Rediscover,
       StopPod, poolVars
<1>8. CASE UNCHANGED vars
  BY <1>8 DEF MadeInOrder, vars, poolVars
<1> QED
  BY <1>1, <1>2, <1>3, <1>4, <1>5, <1>6, <1>7, <1>8
     DEF Next, Pool, Pod, Plugin, WaitLonger, CheckNothing

-----------------------------------------------------------------------------
\* What the conjuncts about devices that are done depend on.
Kept == /\ UNCHANGED <<pc, idx, ev, found, sock, link, flags, stop>>
        /\ known \subseteq known'
        /\ \A e \in Event : sysfs[e] \in Index => sysfs'[e] = sysfs[e]

\* A step that keeps these keeps the invariant.
LEMMA KeptStep == ASSUME PoolInv, TypeOK', MadeInOrder', Kept PROVE PoolInv'
<1>1. \A i \in Index : Done(i)' <=> Done(i)
  BY DEF Kept, Done
<1>2. StartsOver' /\ GoneIsDead' /\ DoneAreKnown' /\ TakenIsFresh' /\ WaitsBound'
  BY <1>1 DEF PoolInv, Kept, StartsOver, GoneIsDead, DoneAreKnown, TakenIsFresh,
       WaitsBound
<1>3. EndpointsDriveTheirDevices'
  BY <1>1 DEF PoolInv, Kept, EndpointsDriveTheirDevices, DoneAreKnown, TypeOK
<1>4. ReadyFileIsEarned'
  BY <1>1, Indexes DEF PoolInv, Kept, ReadyFileIsEarned, Done
<1> QED
  BY <1>2, <1>3, <1>4 DEF PoolInv

\* Neither does the end of the process disturb it.
LEMMA PerishStep ==
    ASSUME PoolInv, TypeOK', MadeInOrder', Perish PROVE PoolInv'
<1>1. pc' = "dead" /\ idx' = 1
  BY DEF Perish
<1>2. \A i : ~Done(i)'
  BY <1>1 DEF Done
<1> QED
  BY <1>1, <1>2 DEF PoolInv, StartsOver, GoneIsDead, DoneAreKnown, TakenIsFresh,
       WaitsBound, EndpointsDriveTheirDevices, ReadyFileIsEarned

\* A device that is there is the present one's own if no application's was taken
\* so far: the earlier devices have other numbers.
LEMMA OwnUnlessNamesake ==
    ASSUME PoolInv, pc = "wait", sysfs[ev[idx]] = found[idx],
           \A j \in 1 .. idx : found[j] \notin App
    PROVE  sysfs[ev[idx]] = idx
<1>0. TypeOK /\ MadeInOrder /\ TakenIsFresh /\ EndpointsDriveTheirDevices
  BY DEF PoolInv
<1>1. idx \in Index /\ idx \in 1 .. idx /\ \A i \in Index : i \in Int /\ i >= 1
  BY <1>0, PoolAssumption DEF TypeOK, Index
<1>2. ev[idx] \in Event /\ found[idx] \in Index
  BY <1>0, <1>1 DEF TypeOK, TakenIsFresh, Owner
<1>3. found[idx] < idx \/ found[idx] = idx
  BY <1>0, <1>2 DEF MadeInOrder
<1>4. ASSUME NEW k \in Index, k < idx, found[idx] = k PROVE FALSE
  <2>1. Done(k)
    BY <1>4 DEF Done
  <2>2. \A j \in 1 .. k : found[j] \notin App
    BY <1>1, <1>4
  <2>3. sysfs[ev[k]] = k
    BY <1>0, <2>1, <2>2 DEF EndpointsDriveTheirDevices
  <2>4. ev[k] \in Event
    BY <1>0, <2>1, <2>3 DEF PoolInv, DoneAreKnown, TypeOK
  <2>5. ev[k] = ev[idx]
    BY <1>0, <1>2, <1>4, <2>3, <2>4 DEF MadeInOrder
  <2> QED
    BY <1>0, <1>4, <2>5 DEF TakenIsFresh
<1> QED
  BY <1>2, <1>3, <1>4

\* Every step keeps the invariant.
LEMMA PoolInvStep == PoolInv /\ [Next]_vars => PoolInv'
<1> SUFFICES ASSUME PoolInv, [Next]_vars PROVE PoolInv'
  OBVIOUS
<1> USE DEF PoolInv
<1>0. TypeOK' /\ MadeInOrder'
  BY TypeStep, MadeInOrderStep
<1>a. ASSUME Kept PROVE PoolInv'
  BY <1>0, <1>a, KeptStep
<1>b. ASSUME NEW o \in Owner, Attach(o)
      PROVE  \A e \in Event : sysfs[e] \in Index => sysfs'[e] = sysfs[e]
  BY <1>b, AttachFacts, Owners DEF Owner
<1>1. ASSUME NEW a \in App, AppOpen(a) PROVE PoolInv'
  BY <1>1, <1>a, <1>b DEF AppOpen, Kept, Owner, poolVars, fileVars
<1>2. ASSUME NEW e \in Event, AppClose(e) PROVE PoolInv'
  <2>1. \A f \in Event : sysfs[f] \in Index => sysfs'[f] = sysfs[f]
    BY <1>2, Owners DEF AppClose, TypeOK
  <2> QED
    BY <1>2, <1>a, <2>1 DEF AppClose, Kept, poolVars, fileVars
<1>3. CASE Start
  <2>1. \A i \in Index : ~Done(i)'
    BY <1>3, Indexes DEF Start, StartsOver, Done, Index
  <2>2. ReadyFileIsEarned'
    BY <1>3 DEF Start, ReadyFileIsEarned
  <2>3. GoneIsDead'
    BY <1>3 DEF Start, GoneIsDead
  <2> QED
    BY <1>0, <1>3, <2>1, <2>2, <2>3 DEF Start, StartsOver, DoneAreKnown,
         TakenIsFresh, WaitsBound, EndpointsDriveTheirDevices
<1>4. CASE GlobEvents
  <2>1. \A i : Done(i)' <=> Done(i)
    BY <1>4 DEF GlobEvents, Done
  <2> QED
    BY <1>0, <1>4, <2>1 DEF GlobEvents, StartsOver, GoneIsDead, DoneAreKnown,
         TakenIsFresh, WaitsBound, EndpointsDriveTheirDevices, ReadyFileIsEarned,
         fileVars
<1>5. CASE Refresh
  <2>1. \A i : Done(i)' <=> Done(i)
    BY <1>5 DEF Refresh, Done
  <2>2. known \subseteq known'
    BY <1>5 DEF Refresh
  <2> QED
    BY <1>0, <1>5, <2>1, <2>2 DEF Refresh, StartsOver, GoneIsDead, DoneAreKnown,
         TakenIsFresh, WaitsBound, EndpointsDriveTheirDevices, ReadyFileIsEarned,
         fileVars
<1>6. CASE CreateDevice
  <2>1. \A i : Done(i)' <=> Done(i)
    BY <1>6 DEF CreateDevice, Done
  <2>2. \A e \in Event : sysfs[e] \in Index => sysfs'[e] = sysfs[e]
    BY <1>6, <1>b DEF CreateDevice, TypeOK, Owner
  <2>3. EndpointsDriveTheirDevices'
    BY <1>6, <2>1, <2>2 DEF CreateDevice, EndpointsDriveTheirDevices, TypeOK,
         DoneAreKnown, fileVars
  <2> QED
    BY <1>0, <1>6, <2>1, <2>3 DEF CreateDevice, StartsOver, GoneIsDead, DoneAreKnown,
         TakenIsFresh, WaitsBound, ReadyFileIsEarned, fileVars
<1>7. CASE TakeNew
  <2>1. PICK s \in Zipped, e \in Event :
            /\ s \ known = {e}
            /\ known' = known \cup s
            /\ ev' = [ev EXCEPT ![idx] = e]
            /\ found' = [found EXCEPT ![idx] = seen[e]]
    BY <1>7 DEF TakeNew
  <2>2. \A i : Done(i)' <=> Done(i)
    BY <1>7 DEF TakeNew, Done
  <2>3. \A i \in Index : Done(i) => i # idx /\ ev'[i] = ev[i] /\ found'[i] = found[i]
    BY <1>7, <2>1, Indexes DEF TakeNew, Done, TypeOK
  <2>4. DoneAreKnown'
    BY <2>1, <2>2, <2>3 DEF DoneAreKnown
  <2>5. TakenIsFresh'
    <3>1. ev'[idx] = e /\ e \notin known /\ e \in known'
      BY <2>1 DEF TypeOK
    <3>2. \A i \in Index : i < idx => Done(i)
      BY <1>7 DEF TakeNew, Done
    <3>3. found'[idx] \in Owner
      BY <2>1, ZippedListed DEF TypeOK
    <3> QED
      BY <1>7, <2>3, <3>1, <3>2, <3>3 DEF TakeNew, TakenIsFresh, DoneAreKnown
  <2>6. EndpointsDriveTheirDevices'
    <3>1. \A i \in Index : Done(i) => \A j \in 1 .. i : j \in Index /\ Done(j)
      BY <1>7, Indexes, PoolAssumption DEF TakeNew, Done, Index, TypeOK
    <3> QED
      BY <1>7, <2>2, <2>3, <3>1 DEF TakeNew, EndpointsDriveTheirDevices, fileVars
  <2> QED
    BY <1>0, <1>7, <2>2, <2>4, <2>5, <2>6 DEF TakeNew, StartsOver, GoneIsDead,
         WaitsBound, ReadyFileIsEarned, fileVars
<1>8. CASE RaiseDeviceError
  BY <1>0, <1>8, PerishStep DEF RaiseDeviceError, Die
<1>9. CASE Bind
  <2>1. \A i : Done(i)' <=> Done(i)
    BY <1>9 DEF Bind, Done
  <2>2. sock'[ev[idx]] = idx
    BY <1>9 DEF Bind, TypeOK, TakenIsFresh
  <2>3. \A i \in Index : Done(i) => sock'[ev[i]] = sock[ev[i]]
    BY <1>9, Indexes DEF Bind, TypeOK, TakenIsFresh, Done, DoneAreKnown
  <2>4. EndpointsDriveTheirDevices'
    BY <1>9, <2>1, <2>3 DEF Bind, EndpointsDriveTheirDevices
  <2>5. ReadyFileIsEarned'
    BY <1>9, <2>1 DEF Bind, ReadyFileIsEarned
  <2>6. TakenIsFresh' /\ DoneAreKnown'
    BY <1>9, <2>1 DEF Bind, TakenIsFresh, DoneAreKnown
  <2>7. WaitsBound'
    BY <1>9, <2>2 DEF Bind, WaitsBound
  <2>8. StartsOver' /\ GoneIsDead'
    BY <1>9 DEF Bind, StartsOver, GoneIsDead
  <2> QED
    BY <1>0, <2>4, <2>5, <2>6, <2>7, <2>8
<1>10. CASE FindDevice
  <2>a. idx \in Int /\ \A i \in Index : i \in Int /\ i <= NumMice + NumJs
    BY PoolAssumption, Indexes DEF TypeOK, Index
  <2> DEFINE Moved == \A i \in Index : /\ Done(i)' => Done(i) \/ i = idx
                                       /\ Done(i) => Done(i)'
                                       /\ i <= idx => Done(i)'
  <2>b. ASSUME idx = NumMice + NumJs PROVE Moved
    <3>1. pc' = "run"
      BY <1>10, <2>b DEF FindDevice, Finish
    <3>2. \A i \in Index : Done(i)' /\ (i < idx \/ i = idx)
      BY <2>a, <2>b, <3>1 DEF Done
    <3> QED
      BY <1>10, <3>2 DEF FindDevice, Done
  <2>c. ASSUME idx # NumMice + NumJs PROVE Moved
    <3>1. pc' = "glob" /\ idx' = idx + 1
      BY <1>10, <2>c DEF FindDevice, Finish
    <3> QED
      BY <1>10, <2>a, <3>1 DEF FindDevice, Done
  <2>1. \A i \in Index : Done(i)' => Done(i) \/ i = idx
    BY <2>b, <2>c
  <2>2. \A i \in Index : Done(i) => Done(i)'
    BY <2>b, <2>c
  <2>3. \A i \in Index : i <= idx => Done(i)'
    BY <2>b, <2>c
  <2>4. DoneAreKnown'
    BY <1>10, <2>1 DEF FindDevice, Finish, DoneAreKnown, TakenIsFresh
  <2>5. \A i \in Index : i # idx /\ i \in Mouse => link'[i] = link[i]
    BY <1>10 DEF FindDevice, Finish, TypeOK
  <2>6. idx \in Mouse => link'[idx] = ev[idx]
    BY <1>10 DEF FindDevice, Finish, TypeOK
  <2>7. EndpointsDriveTheirDevices'
    <3> SUFFICES ASSUME NEW i \in Index, Done(i)'
                 PROVE  /\ NameOf[found[i]] = NameOf[i]
                        /\ (\A j \in 1 .. i : found[j] \notin App) => sysfs[ev[i]] = i
                        /\ sock[ev[i]] = i \/ stop # "no"
                        /\ i \in Mouse => link'[i] = ev[i]
      BY <1>10 DEF FindDevice, Finish, EndpointsDriveTheirDevices
    <3>1. CASE i = idx
      <4>1. ASSUME \A j \in 1 .. i : found[j] \notin App PROVE sysfs[ev[i]] = i
        BY <1>10, <3>1, <4>1, OwnUnlessNamesake DEF FindDevice, Recognised
      <4> QED
        BY <1>10, <2>6, <3>1, <4>1 DEF FindDevice, Recognised, WaitsBound
    <3>2. CASE i # idx
      BY <2>1, <2>5, <3>2 DEF EndpointsDriveTheirDevices
    <3> QED
      BY <3>1, <3>2
  <2>8. ReadyFileIsEarned'
    <3> SUFFICES ASSUME NEW f \in flags', NEW i \in 1 .. LastOf[f]
                 PROVE  Done(i)'
      BY DEF ReadyFileIsEarned
    <3>0. f \in Ready /\ i \in Index
      BY <1>0, Indexes, SMT DEF TypeOK, Index
    <3>1. CASE f \in flags
      BY <1>10, <2>2, <3>0, <3>1 DEF FindDevice, ReadyFileIsEarned
    <3>2. CASE LastOf[f] = idx
      BY <2>3, <3>0, <3>2 DEF Index
    <3> QED
      BY <1>10, <3>1, <3>2 DEF FindDevice, Finish
  <2>9. pc' \in {"run", "glob"}
    BY <1>10 DEF FindDevice, Finish
  <2>10. GoneIsDead'
    BY <1>10, <2>9 DEF FindDevice, Finish, GoneIsDead
  <2> QED
    BY <1>0, <2>4, <2>7, <2>8, <2>9, <2>10 DEF StartsOver, TakenIsFresh, WaitsBound
<1>11. CASE Restart
  <2>1. \A i \in Index : ~Done(i)'
    BY <1>11, Indexes DEF Restart, StartsOver, Done, Index
  <2> QED
    BY <1>0, <1>11, <2>1 DEF Restart, StartsOver, GoneIsDead, DoneAreKnown,
         TakenIsFresh, WaitsBound, EndpointsDriveTheirDevices, ReadyFileIsEarned
<1>12. CASE HookFlags
  <2>1. \A i : Done(i)' <=> Done(i)
    BY <1>12 DEF HookFlags, Done, poolVars
  <2> QED
    BY <1>0, <1>12, <2>1 DEF HookFlags, StartsOver, GoneIsDead, DoneAreKnown,
         TakenIsFresh, WaitsBound, EndpointsDriveTheirDevices, ReadyFileIsEarned,
         poolVars
<1>13. CASE HookSockets
  <2>1. \A i : Done(i)' <=> Done(i)
    BY <1>13 DEF HookSockets, Done, poolVars
  <2> QED
    BY <1>0, <1>13, <2>1 DEF HookSockets, StartsOver, GoneIsDead, DoneAreKnown,
         TakenIsFresh, WaitsBound, EndpointsDriveTheirDevices, ReadyFileIsEarned,
         poolVars
<1>14. CASE Kill
  BY <1>0, <1>14, PerishStep DEF Kill
<1>15. CASE NewPod
  <2>1. pc = "dead" /\ pc' = "dead"
    BY <1>15 DEF NewPod, GoneIsDead, poolVars
  <2>2. \A i : ~Done(i)'
    BY <2>1 DEF Done
  <2> QED
    BY <1>0, <1>15, <2>1, <2>2 DEF NewPod, StartsOver, GoneIsDead, DoneAreKnown,
         TakenIsFresh, WaitsBound, EndpointsDriveTheirDevices, ReadyFileIsEarned,
         poolVars
<1>16. CASE StartPlugin
  BY <1>16, <1>a DEF StartPlugin, Kept, poolVars, fileVars
<1>17. CASE Rediscover
  BY <1>17, <1>a DEF Rediscover, Kept, poolVars, fileVars
<1>18. CASE Crash
  BY <1>0, <1>18, PerishStep DEF Crash, Die
<1>19. CASE StopPod
  <2>1. \A i : Done(i)' <=> Done(i)
    BY <1>19 DEF StopPod, Done, poolVars
  <2> QED
    BY <1>0, <1>19, <2>1 DEF StopPod, StartsOver, GoneIsDead, DoneAreKnown,
         TakenIsFresh, WaitsBound, EndpointsDriveTheirDevices, ReadyFileIsEarned,
         poolVars, fileVars
<1>20. CASE UNCHANGED vars
  BY <1>20, <1>a DEF vars, Kept, poolVars, fileVars
<1> QED
  BY <1>1, <1>2, <1>3, <1>4, <1>5, <1>6, <1>7, <1>8, <1>9, <1>10, <1>11, <1>12,
     <1>13, <1>14, <1>15, <1>16, <1>17, <1>18, <1>19, <1>20
     DEF Next, Pool, Pod, Plugin, WaitLonger, CheckNothing

\* PoolInv holds in every reachable state.
LEMMA PoolInvHolds == Spec => []PoolInv
  BY InitPoolInv, PoolInvStep, PTL DEF Spec

\* TypeOK holds for any pool, applications, kills and stops.
THEOREM PoolTypeCorrect == Spec => []TypeOK
<1>1. PoolInv => TypeOK
  BY DEF PoolInv
<1> QED
  BY <1>1, PoolInvHolds, PTL

\* For any applications at any moment, whatever names they use, a device that is
\* done is bound to an input of its name, its own as long as no application's was
\* taken so far.
THEOREM EndpointsCorrect == Spec => []EndpointsDriveTheirDevices
<1>1. PoolInv => EndpointsDriveTheirDevices
  BY DEF PoolInv
<1> QED
  BY <1>1, PoolInvHolds, PTL

\* Beside a process that has cleaned up, ready files are true.
THEOREM ReadyFilesCorrect == Spec => []ReadyFileIsEarned
<1>1. PoolInv => ReadyFileIsEarned
  BY DEF PoolInv
<1> QED
  BY <1>1, PoolInvHolds, PTL
-----------------------------------------------------------------------------
(* NumberedDevices is implemented.                                         *)

\* The devices bound so far are those before the present one.
LEMMA TurnOfPresent ==
    ASSUME PoolInv, pc \notin {"dead", "run"} PROVE Numbered!Turn(idx)
<1>1. \A j \in Index : Done(j) <=> j < idx
  BY DEF Done
<1>2. \A j \in Index : Done(j) => ev[j] \in Event
  BY DEF PoolInv, TypeOK, DoneAreKnown
<1> QED
  BY <1>1, <1>2, Owners DEF Numbered!Turn, BoundNumbers

\* A step that keeps what is done keeps what is bound.
LEMMA BoundKept ==
    ASSUME \A i \in Index : Done(i)' <=> Done(i),
           \A i \in Index : Done(i) => ev'[i] = ev[i]
    PROVE  BoundNumbers' = BoundNumbers
  BY DEF BoundNumbers

\* A process at its end has bound nothing.
LEMMA NothingBound ==
    ASSUME \A i \in Index : ~Done(i)' PROVE BoundNumbers' = Numbered!Unbound
  BY DEF BoundNumbers, Numbered!Unbound

\* The end of the process is the end of all its devices.
LEMMA PerishEnds == Perish => Numbered!End
<1> SUFFICES ASSUME Perish PROVE Numbered!End
  OBVIOUS
<1>1. \A i \in Index : ~Done(i)'
  BY DEF Perish, Done
<1> QED
  BY <1>1, NothingBound DEF Perish, Numbered!End

\* Every step of the pool is a step of NumberedDevices or changes nothing there.
LEMMA NumberedStep ==
    PoolInv /\ [Next]_vars => [Numbered!Next]_(Numbered!vars)
<1> SUFFICES ASSUME PoolInv, [Next]_vars
             PROVE  Numbered!Next \/ UNCHANGED <<sysfs, BoundNumbers>>
  BY DEF Numbered!vars
<1>0. TypeOK /\ StartsOver /\ GoneIsDead /\ DoneAreKnown /\ TakenIsFresh /\ MadeInOrder
  BY DEF PoolInv
<1>a. ASSUME UNCHANGED <<pc, idx, ev>> PROVE BoundNumbers' = BoundNumbers
  <2>1. \A i \in Index : (Done(i)' <=> Done(i)) /\ ev'[i] = ev[i]
    BY <1>a DEF Done
  <2> QED
    BY <2>1, BoundKept
<1>b. ASSUME pc \notin {"dead", "run"}, pc' \notin {"dead", "run"}, idx' = idx,
             \A i \in Index : i < idx => ev'[i] = ev[i]
      PROVE  BoundNumbers' = BoundNumbers
  <2>1. \A i \in Index : (Done(i)' <=> Done(i)) /\ (Done(i) => ev'[i] = ev[i])
    BY <1>b DEF Done
  <2> QED
    BY <2>1, BoundKept
<1>1. ASSUME NEW a \in App, AppOpen(a) PROVE Numbered!Next
  <2>1. UNCHANGED <<pc, idx, ev>> /\ a \notin used /\ Attach(a)
    BY <1>1 DEF AppOpen, poolVars
  <2>2. \A e \in Event : sysfs[e] # a
    BY <1>0, <2>1 DEF MadeInOrder
  <2>3. Numbered!Attach(a)
    BY <1>a, <2>1, <2>2 DEF Attach, Numbered!Attach
  <2> QED
    BY <2>3 DEF Numbered!Next
<1>2. ASSUME NEW e \in Event, AppClose(e) PROVE Numbered!Next
  <2>1. UNCHANGED <<pc, idx, ev>>
    BY <1>2 DEF AppClose, poolVars
  <2>2. Numbered!Close(e)
    BY <1>2, <1>a, <2>1 DEF AppClose, Numbered!Close
  <2> QED
    BY <2>2 DEF Numbered!Next
<1>3. CASE CreateDevice
  <2>1. idx \in Index /\ Attach(idx) /\ pc = "create" /\ pc' = "glob" /\ UNCHANGED <<idx, ev>>
    BY <1>0, <1>3 DEF TypeOK, CreateDevice
  <2>2. \A e \in Event : sysfs[e] # idx
    BY <1>0, <2>1, Indexes DEF MadeInOrder
  <2>3. Numbered!Attach(idx)
    BY <1>b, <2>1, <2>2 DEF Attach, Numbered!Attach
  <2>4. Numbered!Make(idx)
    BY <2>1, <2>3, TurnOfPresent DEF Numbered!Make
  <2> QED
    BY <2>1, <2>4 DEF Numbered!Next
<1>4. CASE FindDevice
  <2>1. /\ idx \in Index /\ ev[idx] \in Event
        /\ sysfs[ev[idx]] # None /\ NameOf[sysfs[ev[idx]]] = NameOf[idx]
    BY <1>0, <1>4, Owners DEF TypeOK, FindDevice, Recognised, TakenIsFresh
  <2>2. pc = "wait" /\ UNCHANGED <<sysfs, ev>>
    BY <1>4 DEF FindDevice, Finish
  <2>3. \A i \in Index : Done(i)' <=> Done(i) \/ i = idx
    <3>0. idx \in Int /\ \A i \in Index : i \in Int /\ i <= NumMice + NumJs
      BY <1>0, PoolAssumption, Indexes DEF TypeOK, Index
    <3>1. CASE idx = NumMice + NumJs
      <4>1. pc' = "run"
        BY <1>4, <3>1 DEF FindDevice, Finish
      <4> QED
        BY <2>2, <3>0, <3>1, <4>1 DEF Done
    <3>2. CASE idx # NumMice + NumJs
      <4>1. pc' = "glob" /\ idx' = idx + 1
        BY <1>4, <3>2 DEF FindDevice, Finish
      <4> QED
        BY <2>2, <3>0, <4>1 DEF Done
    <3> QED
      BY <3>1, <3>2
  <2>4. BoundNumbers' = [BoundNumbers EXCEPT ![idx] = ev[idx]]
    BY <2>1, <2>2, <2>3 DEF BoundNumbers
  <2>5. \A j \in Index : BoundNumbers[j] # ev[idx]
    BY <1>0, <2>1, <2>2, Owners DEF BoundNumbers, Done, TakenIsFresh
  <2>6. \E e \in Event : sysfs[e] = idx
    BY <1>0, <2>2 DEF MadeInOrder
  <2>7. Numbered!Learn(idx)
    BY <2>1, <2>2, <2>4, <2>5, <2>6, TurnOfPresent DEF Numbered!Learn
  <2> QED
    BY <2>1, <2>7 DEF Numbered!Next
<1>5. CASE RaiseDeviceError \/ Crash \/ Kill
  <2>1. Perish
    BY <1>5 DEF RaiseDeviceError, Crash, Kill, Die
  <2> QED
    BY <2>1, PerishEnds DEF Numbered!Next
<1>6. CASE Start \/ GlobEvents \/ Refresh \/ Bind
  <2>1. /\ pc \notin {"dead", "run"} /\ pc' \notin {"dead", "run"}
        /\ UNCHANGED <<sysfs, idx, ev>>
    BY <1>6 DEF Start, GlobEvents, Refresh, Bind
  <2> QED
    BY <1>b, <2>1
<1>7. CASE TakeNew
  <2>1. PICK e \in Event : ev' = [ev EXCEPT ![idx] = e]
    BY <1>7 DEF TakeNew
  <2>2. \A i \in Index : i < idx => ev'[i] = ev[i]
    BY <1>0, <2>1, Indexes DEF TypeOK
  <2>3. pc = "pair" /\ pc' = "bind" /\ UNCHANGED <<sysfs, idx>>
    BY <1>7 DEF TakeNew
  <2> QED
    BY <1>b, <2>2, <2>3
<1>8. CASE Restart
  <2>1. \A i \in Index : ~Done(i) /\ ~Done(i)'
    BY <1>0, <1>8, Indexes DEF Restart, StartsOver, Done, Index
  <2>2. BoundNumbers' = BoundNumbers
    BY <2>1, BoundKept
  <2> QED
    BY <1>8, <2>2 DEF Restart
<1>9. CASE HookFlags \/ HookSockets \/ NewPod \/ StartPlugin \/ Rediscover \/ StopPod
           \/ UNCHANGED vars
  <2>1. UNCHANGED <<sysfs, pc, idx, ev>>
    BY <1>9 DEF HookFlags, HookSockets, NewPod, StartPlugin, Rediscover, StopPod,
         vars, poolVars
  <2> QED
    BY <1>a, <2>1
<1> QED
  BY <1>1, <1>2, <1>3, <1>4, <1>5, <1>6, <1>7, <1>8, <1>9
     DEF Next, Pool, Pod, Plugin, WaitLonger, CheckNothing

\* For any number of devices and applications, whatever names they use, and any
\* interleaving of their opens and closes with listings, kills and restarts, the
\* pool behaves as if it searched, once a device is made, the numbers not bound
\* yet for one with the device's name.
THEOREM NumbersLearned == Spec => NumbersAreLearned
<1>1. Init => Numbered!Init
  <2> SUFFICES ASSUME Init PROVE Numbered!Init
    OBVIOUS
  <2>1. \A i \in Index : ~Done(i)
    BY Indexes DEF Init, Done, Index
  <2> QED
    BY <2>1 DEF Init, Nothing, Numbered!Init, Numbered!Unbound, BoundNumbers
<1>2. PoolInv /\ [Next]_vars => [Numbered!Next]_(Numbered!vars)
  BY NumberedStep
<1> QED
  BY <1>1, <1>2, PoolInvHolds, PTL DEF Spec, NumbersAreLearned, Numbered!Spec
=============================================================================
