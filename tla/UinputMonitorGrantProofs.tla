---------------------- MODULE UinputMonitorGrantProofs ----------------------
(***************************************************************************)
(* Proofs of the invariants of UinputMonitor about access:                 *)
(* GrantsFollowTheSocket, GrantedIsMemorised and PermissionsMatchNodes.    *)
(*                                                                         *)
(* For the first, "was reported on the socket of a container that opened   *)
(* /dev/uinput" is carried along every place a trigger can be: the         *)
(* helper's events, the call, the group, the goroutines; a container never *)
(* changes its socket.  For the second, a goroutine that adds a device uses the    *)
(* number of the device it names.  For the third, the cgroup is as the     *)
(* goroutines between their two steps mean it to be.                       *)
(***************************************************************************)
EXTENDS UinputMonitorProofs

\* The trigger e was reported on the socket of h, and in the mode of h.
ReportedBy(h, e) == ctl[e.container] = ctl[h] /\ e.pod = (h \in PodMode)

\* Whoever is on record in the monitor or about to be shares the socket of a
\* container that has opened /dev/uinput.
OpenersOnly ==
    /\ fd \subseteq everOpened
    /\ \A h \in Helper : fsq[h] # <<>> => h \in everOpened
    /\ \A h \in Helper : trigger[h] # None => h \in everOpened /\ ReportedBy(h, trigger[h])
    /\ group.uinput # None =>
          \E h \in Helper \cap everOpened : ReportedBy(h, group.uinput)

\* A container of a helper opens /dev/uinput only once it mounts a socket.
SocketsMounted ==
    /\ \A h \in Helper : mount[h] = "absent" <=> ctl[h] = None
    /\ \A h \in Helper \cap everOpened : ctl[h] # None

Reached(c) ==
    \E h \in Helper \cap everOpened, g \in Helper :
        ctl[g] = ctl[h] /\ c \in Targets(g, h \in PodMode)

TasksReached == \A t \in Task : tasks[t] > 0 => Reached(t.container)

StateReached ==
    \A c \in Container : cgroup[c] # {} \/ nodes[c] # {} => Reached(c)

GrantInv == SocketsMounted /\ OpenersOnly /\ TasksReached /\ StateReached

-----------------------------------------------------------------------------
(* Lemmas.                                                                 *)

\* The lookup finds no container but those the trigger is meant for.
LEMMA LookupsWithinTargets ==
    ASSUME NEW g \in Helper, NEW pod, NEW cs \in Lookups(g, pod)
    PROVE  cs \subseteq Targets(g, pod)
<1>1. g \in Targets(g, pod)
  BY UinputAssumption DEF Targets
<1> QED
  BY <1>1 DEF Lookups

\* A goroutine that runs after Start ran before or is a new one.
LEMMA StartedTasks ==
    ASSUME NEW new, Start(new), NEW t \in Task, tasks'[t] > 0
    PROVE  tasks[t] > 0 \/ t \in new
  BY DEF Start

\* The record of openers only grows, and a mounted socket stays mounted.
RecordsStay ==
    /\ everOpened \subseteq everOpened'
    /\ \A h \in Helper : ctl[h] # None => ctl'[h] = ctl[h]

\* Every step keeps the records.
LEMMA NextKeepsRecords ==
    TypeOK /\ SocketsMounted /\ [Next]_vars => RecordsStay /\ SocketsMounted'
<1> SUFFICES ASSUME TypeOK, SocketsMounted, [Next]_vars
             PROVE  RecordsStay /\ SocketsMounted'
  OBVIOUS
<1> USE DEF kernelVars, helperVars, channelVars, loopVars, containerVars
<1>1. CASE UNCHANGED <<mount, ctl, everOpened>>
  BY <1>1 DEF RecordsStay, SocketsMounted
<1>2. ASSUME NEW c \in Container, AppOpen(c) PROVE RecordsStay /\ SocketsMounted'
  <2>1. /\ UNCHANGED <<mount, ctl>>
        /\ everOpened' = everOpened \cup {c}
        /\ c \in Helper => mount[c] # "absent"
    BY <1>2 DEF AppOpen
  <2> QED
    BY <2>1 DEF RecordsStay, SocketsMounted
<1>3. ASSUME NEW h \in Helper, StartContainer(h) PROVE RecordsStay /\ SocketsMounted'
  <2>1. PICK s \in listening : ctl' = [ctl EXCEPT ![h] = s]
    BY <1>3 DEF StartContainer
  <2>2. s # None
    BY UinputAssumption DEF TypeOK
  <2>3. mount[h] = "absent" /\ mount' = [mount EXCEPT ![h] = "live"] /\ UNCHANGED everOpened
    BY <1>3 DEF StartContainer
  <2> QED
    BY <2>1, <2>2, <2>3 DEF RecordsStay, SocketsMounted, TypeOK
<1>4. CASE Crash
  <2>1. /\ UNCHANGED <<ctl, everOpened>>
        /\ \A h \in Helper : mount'[h] = "absent" <=> mount[h] = "absent"
    BY <1>4 DEF Crash
  <2> QED
    BY <2>1 DEF RecordsStay, SocketsMounted
<1> QED
  BY <1>1, <1>2, <1>3, <1>4
     DEF Next, Kernel, HelperStep, Loop, TaskStep, vars, AppClose, CreateDevice,
         DestroyDevice, SendTrigger, LoseTrigger, Listen, ScanUevent, EnterLoop,
         ReceiveTrigger, ReceiveDevice, ReceiveNothing, DispatchDevice, NewGroup,
         WriteCgroup, ExecInContainer, Tick, Restart

\* Who has been reached stays reached.
LEMMA ReachedStays ==
    ASSUME SocketsMounted, RecordsStay, NEW c, Reached(c)
    PROVE  Reached(c)'
<1>1. PICK h \in Helper \cap everOpened, g \in Helper :
         ctl[g] = ctl[h] /\ c \in Targets(g, h \in PodMode)
  BY DEF Reached
<1>2. ctl'[h] = ctl[h] /\ ctl'[g] = ctl[g] /\ h \in everOpened'
  BY <1>1 DEF RecordsStay, SocketsMounted
<1> QED
  BY <1>1, <1>2 DEF Reached, Targets

\* A step that does not touch the containers' state keeps GrantInv's part on it.
LEMMA NothingGranted ==
    ASSUME SocketsMounted, RecordsStay, TasksReached, StateReached,
           UNCHANGED <<tasks, cgroup, nodes>>
    PROVE  (TasksReached /\ StateReached)'
<1>1. \A c : Reached(c) => Reached(c)'
  BY ReachedStays
<1> QED
  BY <1>1 DEF TasksReached, StateReached

-----------------------------------------------------------------------------
\* The initial states satisfy GrantInv.
LEMMA InitGrantInv == Init => GrantInv
  BY DEF Init, GrantInv, SocketsMounted, OpenersOnly, TasksReached, StateReached, EmptyGroup

\* A report of h's keeps being one while its container and mode are passed on.
LEMMA SameReport ==
    ASSUME SocketsMounted, RecordsStay, NEW h \in Helper \cap everOpened,
           NEW e, e.container \in Helper, ReportedBy(h, e),
           NEW f, f.container = e.container, f.pod = e.pod
    PROVE  ctl'[f.container] = ctl'[h] /\ f.pod = (h \in PodMode) /\ h \in everOpened'
  BY DEF ReportedBy, RecordsStay, SocketsMounted

\* A step that leaves events and triggers alone, but for their ages, or drops
\* triggers, keeps OpenersOnly.
LEMMA OpenersStay ==
    ASSUME TypeOK, SocketsMounted, RecordsStay, OpenersOnly,
           UNCHANGED <<fd, fsq>>,
           \A h \in Helper : trigger'[h] # None =>
              /\ trigger[h] # None
              /\ trigger'[h].container = trigger[h].container
              /\ trigger'[h].pod = trigger[h].pod,
           group'.uinput # None =>
              /\ group.uinput # None
              /\ group'.uinput.container = group.uinput.container
              /\ group'.uinput.pod = group.uinput.pod
    PROVE  OpenersOnly'
<1>1. fd' \subseteq everOpened' /\ \A h \in Helper : fsq'[h] # <<>> => h \in everOpened'
  BY DEF OpenersOnly, RecordsStay
<1>2. ASSUME NEW h \in Helper, trigger'[h] # None
      PROVE  h \in everOpened' /\ ReportedBy(h, trigger[h])'
  <2>1. h \in Helper \cap everOpened /\ ReportedBy(h, trigger[h])
    BY <1>2 DEF OpenersOnly
  <2>2. trigger[h].container \in Helper
    BY <1>2 DEF TypeOK, Trigger
  <2> QED
    BY <1>2, <2>1, <2>2, SameReport DEF ReportedBy
<1>3. ASSUME group'.uinput # None
      PROVE  \E h \in Helper \cap everOpened' : ReportedBy(h, group.uinput)'
  <2>1. PICK h \in Helper \cap everOpened : ReportedBy(h, group.uinput)
    BY <1>3 DEF OpenersOnly
  <2>2. group.uinput.container \in Helper
    BY <1>3 DEF TypeOK, Trigger
  <2> QED
    BY <1>3, <2>1, <2>2, SameReport DEF ReportedBy
<1> QED
  BY <1>1, <1>2, <1>3 DEF OpenersOnly

\* Every step preserves GrantInv.
LEMMA NextGrantInv == TypeInv /\ GrantInv /\ [Next]_vars => GrantInv'
<1> SUFFICES ASSUME TypeInv, GrantInv, [Next]_vars PROVE GrantInv'
  OBVIOUS
<1> USE DEF kernelVars, helperVars, channelVars, loopVars, containerVars
<1>0. /\ TypeOK /\ SendersWait
      /\ SocketsMounted /\ OpenersOnly /\ TasksReached /\ StateReached
  BY DEF TypeInv, GrantInv
<1>a. RecordsStay /\ SocketsMounted'
  BY <1>0, NextKeepsRecords
<1>b. UNCHANGED <<tasks, cgroup, nodes>> => (TasksReached /\ StateReached)'
  BY <1>0, <1>a, NothingGranted
<1>c. UNCHANGED <<fd, fsq, trigger>> /\ group'.uinput = group.uinput => OpenersOnly'
  BY <1>0, <1>a, OpenersStay
<1>1. ASSUME NEW c \in Container, AppOpen(c) \/ AppClose(c) PROVE GrantInv'
  <2>1. /\ fd' \subseteq everOpened'
        /\ \A h \in Helper : fsq'[h] # <<>> => h \in everOpened'
        /\ everOpened \subseteq everOpened'
        /\ UNCHANGED <<ctl, trigger, group, tasks, cgroup, nodes>>
    BY <1>0, <1>1 DEF AppOpen, AppClose, Notify, OpenersOnly, TypeOK
  <2>2. OpenersOnly'
    BY <1>0, <2>1 DEF OpenersOnly, ReportedBy
  <2> QED
    BY <1>a, <1>b, <2>1, <2>2 DEF GrantInv
<1>2. ASSUME NEW h \in Helper, LoseTrigger(h) PROVE GrantInv'
  <2>1. \A k \in Helper : fsq'[k] # <<>> => fsq[k] # <<>>
    BY <1>0, <1>2 DEF LoseTrigger, TypeOK
  <2>2. UNCHANGED <<fd, everOpened, ctl, trigger, group, tasks, cgroup, nodes>>
    BY <1>2 DEF LoseTrigger
  <2>3. OpenersOnly'
    BY <1>0, <2>1, <2>2 DEF OpenersOnly, ReportedBy
  <2> QED
    BY <1>a, <1>b, <2>2, <2>3 DEF GrantInv
<1>3. ASSUME NEW h \in Helper, SendTrigger(h) PROVE GrantInv'
  <2>1. /\ \A k \in Helper : fsq'[k] # <<>> => fsq[k] # <<>>
        /\ h \in everOpened
    BY <1>0, <1>3 DEF SendTrigger, OpenersOnly, TypeOK
  <2>2. UNCHANGED <<fd, everOpened, ctl, group, tasks, cgroup, nodes>>
    BY <1>3 DEF SendTrigger
  <2>3. /\ \A k \in Helper : k # h => trigger'[k] = trigger[k]
        /\ trigger'[h].pod = (h \in PodMode)
        /\ ctl[trigger'[h].container] = ctl[h]
    <3>1. PICK g \in Mounting(ctl[h]) :
             trigger' = [trigger EXCEPT
                           ![h] = [type |-> Head(fsq[h]), container |-> g,
                                   pod |-> h \in PodMode, age |-> 0]]
      BY <1>3 DEF SendTrigger
    <3>2. trigger'[h].container = g /\ trigger'[h].pod = (h \in PodMode)
      BY <1>0, <3>1 DEF TypeOK
    <3>3. \A k \in Helper : k # h => trigger'[k] = trigger[k]
      BY <1>0, <3>1 DEF TypeOK
    <3> QED
      BY <3>2, <3>3 DEF Mounting
  <2>4. OpenersOnly'
    BY <1>0, <2>1, <2>2, <2>3 DEF OpenersOnly, ReportedBy
  <2> QED
    BY <1>a, <1>b, <2>2, <2>4 DEF GrantInv
<1>4. ASSUME \/ \E c \in Container, d \in Device : CreateDevice(c, d)
             \/ \E d \in Device : DestroyDevice(d)
             \/ \E h \in Helper : StartContainer(h)
             \/ \E s \in Socket : Listen(s)
             \/ ScanUevent \/ EnterLoop \/ Restart \/ UNCHANGED vars
      PROVE GrantInv'
  <2>1. UNCHANGED <<fd, fsq, trigger, group, tasks, cgroup, nodes>>
    BY <1>4 DEF CreateDevice, DestroyDevice, StartContainer, Listen, ScanUevent,
                EnterLoop, Restart, vars
  <2> QED
    BY <1>a, <1>b, <1>c, <2>1 DEF GrantInv
<1>5. CASE ReceiveTrigger
  <2> DEFINE h == Head(sendq)
  <2>1. sendq \in Seq(Sender) /\ sendq # <<>> /\ h # "udev"
    BY <1>0, <1>5 DEF ReceiveTrigger, TypeOK, Sender
  <2>2. h \in Helper /\ h = sendq[1] /\ Len(sendq) \in Nat \ {0}
    BY <2>1, TailElements DEF Sender
  <2>3. trigger[h] # None
    BY <1>0, <2>1, <2>2 DEF SendersWait
  <2>4. /\ group'.uinput = trigger[h]
        /\ \A k \in Helper : trigger'[k] # None => trigger'[k] = trigger[k]
        /\ UNCHANGED <<fd, everOpened, ctl, fsq, tasks, cgroup, nodes>>
    BY <1>0, <1>5 DEF ReceiveTrigger, WindowTest, TypeOK
  <2>5. OpenersOnly'
    BY <1>0, <2>2, <2>3, <2>4 DEF OpenersOnly, ReportedBy
  <2> QED
    BY <1>a, <1>b, <2>4, <2>5 DEF GrantInv
<1>6. CASE ReceiveDevice \/ ReceiveNothing
  <2>1. UNCHANGED <<fd, fsq, trigger, tasks, cgroup, nodes>>
        /\ group'.uinput = group.uinput
    BY <1>0, <1>6 DEF ReceiveDevice, ReceiveNothing, WindowTest, TypeOK
  <2> QED
    BY <1>a, <1>b, <1>c, <2>1 DEF GrantInv
<1>7. CASE DispatchDevice
  <2> DEFINE d == Head(group.devices).path
             g == group.uinput.container
             pod == group.uinput.pod
  <2>1. g \in Helper /\ group.uinput # None
    BY <1>0, <1>7 DEF DispatchDevice, TypeOK, SendersWait, Trigger
  <2>2. PICK h \in Helper \cap everOpened : ctl[g] = ctl[h] /\ pod = (h \in PodMode)
    BY <1>0, <2>1 DEF OpenersOnly, ReportedBy
  <2>3. PICK cs \in Lookups(g, pod) :
           IF group.uinput.type = "Opened" THEN Add(d, cs) ELSE Remove(d, cs)
    BY <1>7 DEF DispatchDevice
  <2>4. \A c \in cs : Reached(c)
    <3>1. cs \subseteq Targets(g, pod)
      BY <2>1, LookupsWithinTargets
    <3> QED
      BY <2>1, <2>2, <3>1 DEF Reached
  <2>5. ASSUME NEW op, NEW num, NEW told, told \subseteq cs, Start(NewTasks(op, told, d, num))
        PROVE  TasksReached'
    <3>1. \A t \in NewTasks(op, told, d, num) : t.container \in cs
      BY <2>5 DEF NewTasks
    <3>2. ASSUME NEW t \in Task, tasks'[t] > 0 PROVE Reached(t.container)
      BY <1>0, <2>4, <2>5, <3>1, <3>2, StartedTasks DEF TasksReached
    <3> QED
      BY <1>0, <1>a, <3>2, ReachedStays DEF TasksReached
  <2>6. TasksReached'
    <3>1. ASSUME Add(d, cs) PROVE TasksReached'
      BY <2>5, <3>1 DEF Add, Informed
    <3>2. ASSUME Remove(d, cs) PROVE TasksReached'
      BY <2>5, <3>2 DEF Remove
    <3> QED
      BY <2>3, <3>1, <3>2
  <2>7. UNCHANGED <<fd, fsq, trigger, cgroup, nodes>> /\ group'.uinput = group.uinput
    BY <1>0, <1>7 DEF DispatchDevice, TypeOK
  <2>8. StateReached'
    BY <1>0, <1>a, <2>7, ReachedStays DEF StateReached
  <2> QED
    BY <1>a, <1>c, <2>6, <2>7, <2>8 DEF GrantInv
<1>8. CASE NewGroup
  <2>1. group'.uinput = None /\ UNCHANGED <<fd, fsq, trigger, tasks, cgroup, nodes>>
    BY <1>8 DEF NewGroup, EmptyGroup
  <2>2. OpenersOnly'
    BY <1>0, <1>a, <2>1, OpenersStay
  <2> QED
    BY <1>a, <1>b, <2>1, <2>2 DEF GrantInv
<1>9. ASSUME NEW t \in Task, WriteCgroup(t) PROVE GrantInv'
  <2> DEFINE u == [t EXCEPT !.pc = "exec"]
  <2>1. OpenersOnly'
    BY <1>c, <1>9 DEF WriteCgroup
  <2>2. u \in Task /\ u.container = t.container /\ t.container \in Container
    BY DEF Task
  <2>3. Reached(t.container) /\ UNCHANGED nodes
    BY <1>0, <1>9 DEF WriteCgroup, TasksReached
  <2>4. \A v \in Task : tasks'[v] > 0 => tasks[v] > 0 \/ v = u
    <3> HIDE DEF u
    <3>1. tasks' = [tasks EXCEPT ![t] = @ - 1, ![u] = @ + 1]
      BY <1>9 DEF WriteCgroup, u
    <3> QED
      BY <1>0, <1>9, <3>1 DEF WriteCgroup, TypeOK
  <2>5. TasksReached'
    BY <1>0, <1>a, <2>2, <2>3, <2>4, ReachedStays DEF TasksReached
  <2>6. \A c \in Container : c # t.container => cgroup'[c] = cgroup[c]
    BY <1>0, <1>9 DEF WriteCgroup, TypeOK
  <2>7. StateReached'
    BY <1>0, <1>a, <2>3, <2>6, ReachedStays DEF StateReached
  <2> QED
    BY <1>a, <2>1, <2>5, <2>7 DEF GrantInv
<1>10. ASSUME NEW t \in Task, ExecInContainer(t) PROVE GrantInv'
  <2>1. OpenersOnly'
    BY <1>c, <1>10 DEF ExecInContainer
  <2>2. Reached(t.container) /\ UNCHANGED cgroup
    BY <1>0, <1>10 DEF ExecInContainer, TasksReached
  <2>3. \A v \in Task : tasks'[v] > 0 => tasks[v] > 0
    BY <1>0, <1>10 DEF ExecInContainer, TypeOK
  <2>4. TasksReached'
    BY <1>0, <1>a, <2>2, <2>3, ReachedStays DEF TasksReached
  <2>5. \A c \in Container : c # t.container => nodes'[c] = nodes[c]
    BY <1>0, <1>10 DEF ExecInContainer, TypeOK
  <2>6. StateReached'
    BY <1>0, <1>a, <2>2, <2>5, ReachedStays DEF StateReached
  <2> QED
    BY <1>a, <2>1, <2>4, <2>6 DEF GrantInv
<1>11. CASE Tick
  <2>1. \A e \in Trigger \cup {None} :
           OlderTrigger(e) # None => /\ e # None
                                     /\ OlderTrigger(e).container = e.container
                                     /\ OlderTrigger(e).pod = e.pod
    BY DEF OlderTrigger, Trigger
  <2>2. \A h \in Helper : trigger'[h] # None =>
           /\ trigger[h] # None
           /\ trigger'[h].container = trigger[h].container
           /\ trigger'[h].pod = trigger[h].pod
    BY <1>0, <1>11, <2>1 DEF Tick, TypeOK
  <2>3. group'.uinput # None =>
           /\ group.uinput # None
           /\ group'.uinput.container = group.uinput.container
           /\ group'.uinput.pod = group.uinput.pod
    BY <1>0, <1>11, <2>1 DEF Tick, TypeOK
  <2>4. UNCHANGED <<fd, fsq, tasks, cgroup, nodes>>
    BY <1>11 DEF Tick
  <2>5. OpenersOnly'
    BY <1>0, <1>a, <2>2, <2>3, <2>4, OpenersStay
  <2> QED
    BY <1>a, <1>b, <2>4, <2>5 DEF GrantInv
<1>12. CASE Crash
  <2>1. /\ \A h \in Helper : trigger'[h] = None
        /\ group'.uinput = None
        /\ UNCHANGED <<fd, fsq, cgroup, nodes>>
    BY <1>0, <1>12 DEF Crash, EmptyGroup
  <2>2. OpenersOnly'
    BY <1>0, <1>a, <2>1, OpenersStay
  <2>3. TasksReached'
    BY <1>12 DEF Crash, TasksReached
  <2>4. StateReached'
    BY <1>0, <1>a, <2>1, ReachedStays DEF StateReached
  <2> QED
    BY <1>a, <2>2, <2>3, <2>4 DEF GrantInv
<1> QED
  BY <1>1, <1>2, <1>3, <1>4, <1>5, <1>6, <1>7, <1>8, <1>9, <1>10, <1>11,
     <1>12 DEF Next, Kernel, HelperStep, Loop, TaskStep

\* Whatever the interleaving, the failing calls and the crashes, the monitor
\* changes only containers reached by the socket of one that opened
\* /dev/uinput: that mount the same socket or, for a pod's helper, share a pod
\* with one that does.
THEOREM GrantsCorrect == Spec => []GrantsFollowTheSocket
<1>1. Init => GrantInv
  BY InitGrantInv
<1>2. TypeInv /\ GrantInv /\ [Next]_vars => GrantInv'
  BY NextGrantInv
<1>3. GrantInv => GrantsFollowTheSocket
  BY DEF GrantInv, TasksReached, StateReached, Reached, GrantsFollowTheSocket
<1> QED
  BY <1>1, <1>2, <1>3, TypeInvariance, PTL DEF Spec

-----------------------------------------------------------------------------
(* What a step of a goroutine does.                                        *)

\* The goroutine after it has written the cgroup.
Written(t) == [t EXCEPT !.pc = "exec"]

\* Writing the cgroup changes one number of one container, and the goroutine
\* goes on to the exec.
LEMMA WriteCgroupFacts ==
    ASSUME TypeOK, NEW t \in Task, WriteCgroup(t)
    PROVE  /\ Written(t) \in Task /\ Written(t).pc = "exec"
           /\ Written(t).container = t.container /\ Written(t).op = t.op
           /\ Written(t).path = t.path /\ Written(t).num = t.num
           /\ tasks'[Written(t)] > 0
           /\ \A v \in Task : tasks'[v] > 0 => tasks[v] > 0 \/ v = Written(t)
           /\ \A v \in Task : v # t /\ tasks[v] > 0 => tasks'[v] > 0
           /\ \A c \in Container : \A d :
                 c # t.container \/ d # t.num => (d \in cgroup'[c] <=> d \in cgroup[c])
           /\ t.num \in cgroup'[t.container] => t.num \in cgroup[t.container] \/ t.op = "add"
           /\ "cgroup" \notin Fault => (t.num \in cgroup'[t.container] <=> t.op = "add")
<1> DEFINE u == Written(t)
<1>1. /\ u \in Task /\ u.pc = "exec" /\ u.container = t.container
      /\ u.op = t.op /\ u.path = t.path /\ u.num = t.num
      /\ t.container \in Container
  BY DEF Task, Written
<1>2. /\ tasks' = [tasks EXCEPT ![t] = @ - 1, ![u] = @ + 1]
      /\ tasks[t] > 0 /\ t # u
      /\ tasks \in [Task -> Nat]
  BY <1>1 DEF WriteCgroup, TypeOK, Written
<1> HIDE DEF u
<1>3. /\ tasks'[u] > 0
      /\ \A v \in Task : tasks'[v] > 0 => tasks[v] > 0 \/ v = u
      /\ \A v \in Task : v # t /\ tasks[v] > 0 => tasks'[v] > 0
  BY <1>1, <1>2
<1> DEFINE k == t.container
           new == IF t.op = "add" THEN cgroup[k] \cup {t.num} ELSE cgroup[k] \ {t.num}
<1>4. cgroup' = [cgroup EXCEPT ![k] = new] \/ ("cgroup" \in Fault /\ cgroup' = cgroup)
  BY DEF WriteCgroup
<1>5. cgroup \in [Container -> SUBSET (Device \cup {NoNumber})]
  BY DEF TypeOK
<1>6. /\ \A d : d # t.num => (d \in new <=> d \in cgroup[k])
      /\ t.num \in new <=> t.op = "add"
  OBVIOUS
<1> HIDE DEF k, new
<1>7. /\ \A c \in Container : c # k => cgroup'[c] = cgroup[c]
      /\ cgroup'[k] = new \/ ("cgroup" \in Fault /\ cgroup'[k] = cgroup[k])
  BY <1>1, <1>4, <1>5 DEF k
<1>8. \A c \in Container : \A d :
         c # k \/ d # t.num => (d \in cgroup'[c] <=> d \in cgroup[c])
  BY <1>6, <1>7
<1>9. /\ t.num \in cgroup'[k] => t.num \in cgroup[k] \/ t.op = "add"
      /\ "cgroup" \notin Fault => (t.num \in cgroup'[k] <=> t.op = "add")
  BY <1>6, <1>7
<1> QED
  BY <1>1, <1>3, <1>8, <1>9 DEF k, u

\* The exec changes one node of one container, and the goroutine ends.
LEMMA ExecFacts ==
    ASSUME TypeOK, NEW t \in Task, ExecInContainer(t)
    PROVE  /\ \A v \in Task : tasks'[v] > 0 => tasks[v] > 0
           /\ \A v \in Task : v # t /\ tasks[v] > 0 => tasks'[v] > 0
           /\ \A c \in Container : \A d :
                 c # t.container \/ d # t.path => (d \in nodes'[c] <=> d \in nodes[c])
           /\ t.path \in nodes'[t.container] => t.path \in nodes[t.container] \/ t.op = "add"
           /\ "exec" \notin Fault => (t.path \in nodes'[t.container] <=> t.op = "add")
<1>1. t.container \in Container
  BY DEF Task
<1>2. tasks' = [tasks EXCEPT ![t] = @ - 1] /\ tasks[t] > 0 /\ tasks \in [Task -> Nat]
  BY DEF ExecInContainer, TypeOK
<1>3. /\ \A v \in Task : tasks'[v] > 0 => tasks[v] > 0
      /\ \A v \in Task : v # t /\ tasks[v] > 0 => tasks'[v] > 0
  BY <1>2
<1> DEFINE k == t.container
           new == IF t.op = "add" THEN nodes[k] \cup {t.path} ELSE nodes[k] \ {t.path}
<1>4. nodes' = [nodes EXCEPT ![k] = new] \/ ("exec" \in Fault /\ nodes' = nodes)
  BY DEF ExecInContainer
<1>5. nodes \in [Container -> SUBSET Device]
  BY DEF TypeOK
<1>6. /\ \A d : d # t.path => (d \in new <=> d \in nodes[k])
      /\ t.path \in new <=> t.op = "add"
  OBVIOUS
<1> HIDE DEF k, new
<1>7. /\ \A c \in Container : c # k => nodes'[c] = nodes[c]
      /\ nodes'[k] = new \/ ("exec" \in Fault /\ nodes'[k] = nodes[k])
  BY <1>1, <1>4, <1>5 DEF k
<1>8. \A c \in Container : \A d :
         c # k \/ d # t.path => (d \in nodes'[c] <=> d \in nodes[c])
  BY <1>6, <1>7
<1>9. /\ t.path \in nodes'[k] => t.path \in nodes[k] \/ t.op = "add"
      /\ "exec" \notin Fault => (t.path \in nodes'[k] <=> t.op = "add")
  BY <1>6, <1>7
<1> QED
  BY <1>3, <1>8, <1>9 DEF k

-----------------------------------------------------------------------------
(* Numbers of the devices granted.                                         *)

\* A goroutine that adds a device uses the number of that device.
AddsUseOwnNumber ==
    \A t \in Task : tasks[t] > 0 /\ t.op = "add" => t.num = t.path

NumberInv == AddsUseOwnNumber /\ GrantedIsMemorised

\* What it takes for GrantedIsMemorised to survive a step: numbers stay in the
\* map, and what is newly granted or about to be is in it.
LEMMA StillMemorised ==
    ASSUME GrantedIsMemorised, AddsUseOwnNumber,
           crashes' = 0 => crashes = 0,
           \A d \in Device : devNumberMap[d] = d => devNumberMap'[d] = d,
           \A d \in Device, c \in Container :
              d \in cgroup'[c] \/ d \in nodes'[c] =>
                 \/ d \in cgroup[c] \/ d \in nodes[c]
                 \/ \E t \in Task : tasks[t] > 0 /\ t.op = "add" /\ t.path = d,
           \A t \in Task : tasks'[t] > 0 /\ t.op = "add" =>
                 \/ t.num = t.path /\ devNumberMap'[t.path] = t.path
                 \/ \E u \in Task : /\ tasks[u] > 0
                                    /\ u.op = "add"
                                    /\ u.path = t.path
                                    /\ u.num = t.num
    PROVE  NumberInv'
<1>1. AddsUseOwnNumber'
  BY DEF AddsUseOwnNumber
<1>2. GrantedIsMemorised'
  BY DEF GrantedIsMemorised
<1> QED
  BY <1>1, <1>2 DEF NumberInv

\* Every step preserves NumberInv.
LEMMA NextNumberInv == TypeInv /\ NumberInv /\ [Next]_vars => NumberInv'
<1> SUFFICES ASSUME TypeInv, NumberInv, [Next]_vars PROVE NumberInv'
  OBVIOUS
<1> USE DEF kernelVars, helperVars, channelVars, loopVars, containerVars
<1>0. TypeOK /\ AddsUseOwnNumber /\ GrantedIsMemorised
  BY DEF TypeInv, NumberInv
<1>1. CASE UNCHANGED <<crashes, devNumberMap, tasks, cgroup, nodes>>
  BY <1>0, <1>1 DEF NumberInv, AddsUseOwnNumber, GrantedIsMemorised
<1>2. CASE DispatchDevice
  <2> DEFINE d == Head(group.devices).path
  <2>0. Head(group.devices) \in DeviceEvent
    BY <1>0, <1>2, TailElements DEF DispatchDevice, TypeOK
  <2>1. d \in Device
    BY <2>0 DEF DeviceEvent
  <2>2. PICK cs \in Lookups(group.uinput.container, group.uinput.pod) :
           IF group.uinput.type = "Opened" THEN Add(d, cs) ELSE Remove(d, cs)
    BY <1>2 DEF DispatchDevice
  <2>3. UNCHANGED <<crashes, cgroup, nodes>>
    BY <1>2 DEF DispatchDevice
  <2>4. ASSUME Add(d, cs) PROVE NumberInv'
    <3>1. PICK told \in Informed(d, cs) :
             /\ devNumberMap' = IF told = {} THEN devNumberMap
                                ELSE [devNumberMap EXCEPT ![d] = d]
             /\ Start(NewTasks("add", told, d, d))
      BY <2>4 DEF Add
    <3>2. \A e \in Device : devNumberMap[e] = e => devNumberMap'[e] = e
      BY <1>0, <2>1, <3>1 DEF TypeOK
    <3>3. \A t \in NewTasks("add", told, d, d) :
             t.num = d /\ t.path = d /\ devNumberMap'[d] = d
      BY <1>0, <2>1, <3>1 DEF NewTasks, TypeOK
    <3>4. \A t \in Task : tasks'[t] > 0 /\ t.op = "add" =>
             \/ t.num = t.path /\ devNumberMap'[t.path] = t.path
             \/ tasks[t] > 0
      BY <3>1, <3>3, StartedTasks
    <3> QED
      BY <1>0, <2>3, <3>2, <3>4, StillMemorised
  <2>5. ASSUME Remove(d, cs) PROVE NumberInv'
    <3>1. /\ UNCHANGED devNumberMap
          /\ Start(NewTasks("remove", cs, d, devNumberMap[d]))
      BY <2>5 DEF Remove
    <3>2. \A t \in NewTasks("remove", cs, d, devNumberMap[d]) : t.op = "remove"
      BY DEF NewTasks
    <3>3. \A t \in Task : tasks'[t] > 0 /\ t.op = "add" => tasks[t] > 0
      BY <3>1, <3>2, StartedTasks
    <3> QED
      BY <1>0, <2>3, <3>1, <3>3, StillMemorised
  <2> QED
    BY <2>2, <2>4, <2>5
<1>3. ASSUME NEW t \in Task, WriteCgroup(t) PROVE NumberInv'
  <2> DEFINE u == Written(t)
  <2>1. /\ u \in Task /\ t.container \in Container
        /\ u.op = t.op /\ u.path = t.path /\ u.num = t.num
    BY DEF Task, Written
  <2>2. UNCHANGED <<crashes, devNumberMap, nodes>> /\ tasks[t] > 0
    BY <1>3 DEF WriteCgroup
  <2>3. \A v \in Task : tasks'[v] > 0 => tasks[v] > 0 \/ v = u
    BY <1>0, <1>3, WriteCgroupFacts
  <2>4. \A d \in Device, c \in Container :
           d \in cgroup'[c] => d \in cgroup[c] \/ (t.op = "add" /\ t.num = d)
    BY <1>0, <1>3, <2>1, WriteCgroupFacts
  <2>5. t.op = "add" => t.num = t.path
    BY <1>0, <2>2 DEF AddsUseOwnNumber
  <2>6. ASSUME NEW v \in Task, tasks'[v] > 0, v.op = "add"
        PROVE  \E w \in Task : /\ tasks[w] > 0
                               /\ w.op = "add"
                               /\ w.path = v.path
                               /\ w.num = v.num
    BY <2>1, <2>2, <2>3, <2>6
  <2>7. ASSUME NEW d \in Device, NEW c \in Container, d \in cgroup'[c] \/ d \in nodes'[c]
        PROVE  \/ d \in cgroup[c] \/ d \in nodes[c]
               \/ \E w \in Task : tasks[w] > 0 /\ w.op = "add" /\ w.path = d
    BY <2>2, <2>4, <2>5, <2>7
  <2> QED
    BY <1>0, <2>2, <2>6, <2>7, StillMemorised
<1>4. ASSUME NEW t \in Task, ExecInContainer(t) PROVE NumberInv'
  <2>1. UNCHANGED <<crashes, devNumberMap, cgroup>> /\ tasks[t] > 0
        /\ t.container \in Container
    BY <1>4 DEF ExecInContainer, Task
  <2>2. \A v \in Task : tasks'[v] > 0 => tasks[v] > 0
    BY <1>0, <1>4, ExecFacts
  <2>3. \A d \in Device, c \in Container :
           d \in nodes'[c] => d \in nodes[c] \/ (t.op = "add" /\ t.path = d)
    BY <1>0, <1>4, <2>1, ExecFacts
  <2>4. ASSUME NEW v \in Task, tasks'[v] > 0, v.op = "add"
        PROVE  \E w \in Task : /\ tasks[w] > 0
                               /\ w.op = "add"
                               /\ w.path = v.path
                               /\ w.num = v.num
    BY <2>2, <2>4
  <2>5. ASSUME NEW d \in Device, NEW c \in Container, d \in cgroup'[c] \/ d \in nodes'[c]
        PROVE  \/ d \in cgroup[c] \/ d \in nodes[c]
               \/ \E w \in Task : tasks[w] > 0 /\ w.op = "add" /\ w.path = d
    BY <2>1, <2>3, <2>5
  <2> QED
    BY <1>0, <2>1, <2>4, <2>5, StillMemorised
<1>5. CASE Crash
  <2>1. crashes' # 0
    BY <1>0, <1>5 DEF Crash, TypeOK
  <2>2. AddsUseOwnNumber'
    BY <1>5 DEF Crash, AddsUseOwnNumber
  <2> QED
    BY <2>1, <2>2 DEF NumberInv, GrantedIsMemorised
<1> QED
  BY <1>1, <1>2, <1>3, <1>4, <1>5
     DEF Next, Kernel, HelperStep, Loop, TaskStep, vars, AppOpen, AppClose,
         CreateDevice, DestroyDevice, StartContainer, SendTrigger, LoseTrigger,
         Listen, ScanUevent, EnterLoop, ReceiveTrigger, ReceiveDevice,
         ReceiveNothing, NewGroup, Tick, Restart

\* NumberInv is an invariant of every behaviour of the monitor.
LEMMA NumberInvariance == Spec => []NumberInv
<1>1. Init => NumberInv
  BY DEF Init, NumberInv, AddsUseOwnNumber, GrantedIsMemorised
<1>2. TypeInv /\ NumberInv /\ [Next]_vars => NumberInv'
  BY NextNumberInv
<1> QED
  BY <1>1, <1>2, TypeInvariance, PTL DEF Spec

\* As long as the monitor lives, the number of every device it has granted, or
\* is about to, can be looked up by the device's path when it is removed.
THEOREM MemoryCorrect == Spec => []GrantedIsMemorised
<1>1. NumberInv => GrantedIsMemorised
  BY DEF NumberInv
<1> QED
  BY <1>1, NumberInvariance, PTL

-----------------------------------------------------------------------------
(* Permissions and nodes.                                                  *)

\* The container and the device a goroutine works on.
Place(t) == <<t.container, t.path>>

Undisturbed == crashes = 0 /\ Fault \cap {"cgroup", "exec"} = {}

\* Every goroutine writes the number of its device or 0:0.
NumbersAreOwn ==
    /\ \A d \in Device : devNumberMap[d] \in {d, NoNumber}
    /\ \A t \in Task : tasks[t] > 0 => t.num \in {t.path, NoNumber}

\* Goroutines of both kinds are at work together only where that is marked.
ClashesAreMarked ==
    \A t, u \in Task :
        tasks[t] > 0 /\ tasks[u] > 0 /\ t.op # u.op /\ Place(t) = Place(u)
        => Place(t) \in overlapped

\* The cgroup is as the goroutines that have written it mean it to be.
WritesAreDone ==
    \A t \in Task :
        tasks[t] > 0 /\ t.pc = "exec" /\ Place(t) \notin overlapped
        => (t.path \in cgroup[t.container] <=> t.op = "add")

\* A goroutine removes 0:0 only where the device is not allowed.
NothingToDeny ==
    \A t \in Task :
        tasks[t] > 0 /\ t.num # t.path /\ Place(t) \notin overlapped
        => t.path \notin cgroup[t.container]

MatchInv ==
    /\ NumbersAreOwn
    /\ Undisturbed => /\ ClashesAreMarked
                      /\ WritesAreDone
                      /\ NothingToDeny
                      /\ PermissionsMatchNodes

\* What Doing says of single goroutines.
LEMMA DoingTasks ==
    ASSUME NEW ts, NEW w
    PROVE  /\ Doing(ts, w) = {} <=> \A t \in Task : ts[t] > 0 => Place(t) # w
           /\ \A t, u \in Task :
                 /\ ts[t] > 0 /\ ts[u] > 0 /\ t.op # u.op
                 /\ Place(t) = w /\ Place(u) = w
                 => Doing(ts, w) = {"add", "remove"}
<1>1. \A t \in Task : t.op \in {"add", "remove"}
  BY DEF Task
<1> QED
  BY <1>1 DEF Doing, Place

\* A step that leaves goroutines, permissions and nodes alone keeps MatchInv.
LEMMA StillMatched ==
    ASSUME MatchInv, UNCHANGED <<crashes, devNumberMap, cgroup, nodes, tasks, overlapped>>
    PROVE  MatchInv'
<1>1. NumbersAreOwn'
  BY DEF MatchInv, NumbersAreOwn
<1>2. \A w : Doing(tasks', w) = Doing(tasks, w)
  BY DEF Doing
<1>3. ASSUME Undisturbed'
      PROVE (ClashesAreMarked /\ WritesAreDone /\ NothingToDeny /\ PermissionsMatchNodes)'
  <2>1. Undisturbed
    BY <1>3 DEF Undisturbed
  <2>2. ClashesAreMarked /\ WritesAreDone /\ NothingToDeny /\ PermissionsMatchNodes
    BY <2>1 DEF MatchInv
  <2>3. (ClashesAreMarked /\ WritesAreDone /\ NothingToDeny)'
    BY <2>2 DEF ClashesAreMarked, WritesAreDone, NothingToDeny
  <2>4. PermissionsMatchNodes'
    BY <1>2, <2>2 DEF PermissionsMatchNodes
  <2> QED
    BY <2>3, <2>4
<1> QED
  BY <1>1, <1>3 DEF MatchInv

\* Starting goroutines: those at work before and unmarked stay so, and the new
\* ones have written nothing yet.
LEMMA DispatchMatches ==
    TypeInv /\ NumberInv /\ MatchInv /\ DispatchDevice => MatchInv'
<1> SUFFICES ASSUME TypeInv, NumberInv, MatchInv, DispatchDevice PROVE MatchInv'
  OBVIOUS
<1> DEFINE d == Head(group.devices).path
<1>0. TypeOK /\ NumbersAreOwn /\ GrantedIsMemorised
  BY DEF TypeInv, NumberInv, MatchInv
<1>1. d \in Device
  <2>1. Head(group.devices) \in DeviceEvent
    BY <1>0, TailElements DEF DispatchDevice, TypeOK
  <2> QED
    BY <2>1 DEF DeviceEvent
<1>2. UNCHANGED <<crashes, cgroup, nodes>> /\ MarkOverlaps
  BY DEF DispatchDevice
<1>3. PICK new \in SUBSET Task :
         /\ \A t \in Task : tasks'[t] > 0 <=> tasks[t] > 0 \/ t \in new
         /\ \A t \in new : /\ t.pc = "cgroup"
                           /\ t.path = d
                           /\ t.num \in {d, NoNumber}
                           /\ t.num # d => devNumberMap[d] = NoNumber
         /\ \A e \in Device : devNumberMap'[e] \in {e, NoNumber}
  <2> SUFFICES \E new \in SUBSET Task :
         /\ \A t \in Task : tasks'[t] > 0 <=> tasks[t] > 0 \/ t \in new
         /\ \A t \in new : /\ t.pc = "cgroup"
                           /\ t.path = d
                           /\ t.num \in {d, NoNumber}
                           /\ t.num # d => devNumberMap[d] = NoNumber
         /\ \A e \in Device : devNumberMap'[e] \in {e, NoNumber}
    OBVIOUS
  <2>1. PICK cs \in Lookups(group.uinput.container, group.uinput.pod) :
           IF group.uinput.type = "Opened" THEN Add(d, cs) ELSE Remove(d, cs)
    BY DEF DispatchDevice
  <2>2. \A op, ks, num : Start(NewTasks(op, ks, d, num)) =>
           \A t \in Task : tasks'[t] > 0 <=>
              tasks[t] > 0 \/ t \in NewTasks(op, ks, d, num) \cap Task
    BY <1>0 DEF Start, TypeOK
  <2>3. \A op, ks, num : \A t \in NewTasks(op, ks, d, num) :
           t.pc = "cgroup" /\ t.path = d /\ t.num = num
    BY DEF NewTasks
  <2>4. CASE Add(d, cs)
    <3>1. PICK told \in Informed(d, cs) :
             /\ devNumberMap' = IF told = {} THEN devNumberMap
                                ELSE [devNumberMap EXCEPT ![d] = d]
             /\ Start(NewTasks("add", told, d, d))
      BY <2>4 DEF Add
    <3> WITNESS NewTasks("add", told, d, d) \cap Task \in SUBSET Task
    <3>2. \A e \in Device : devNumberMap'[e] \in {e, NoNumber}
      BY <1>0, <3>1 DEF NumbersAreOwn, TypeOK
    <3> QED
      BY <2>2, <2>3, <3>1, <3>2
  <2>5. CASE Remove(d, cs)
    <3> DEFINE num == devNumberMap[d]
    <3> WITNESS NewTasks("remove", cs, d, num) \cap Task \in SUBSET Task
    <3>1. num \in {d, NoNumber}
      BY <1>0, <1>1 DEF NumbersAreOwn
    <3>2. \A e \in Device : devNumberMap'[e] \in {e, NoNumber}
      BY <1>0, <2>5 DEF NumbersAreOwn, Remove
    <3>3. Start(NewTasks("remove", cs, d, num))
      BY <2>5 DEF Remove
    <3> QED
      BY <2>2, <2>3, <3>1, <3>2, <3>3
  <2> QED
    BY <2>1, <2>4, <2>5
<1> HIDE DEF d
<1>4. NumbersAreOwn'
  <2>1. ASSUME NEW t \in Task, tasks'[t] > 0 PROVE t.num \in {t.path, NoNumber}
    <3>1. CASE t \in new
      BY <1>3, <3>1
    <3>2. CASE tasks[t] > 0
      BY <1>0, <3>2 DEF NumbersAreOwn
    <3> QED
      BY <1>3, <2>1, <3>1, <3>2
  <2> QED
    BY <1>3, <2>1 DEF NumbersAreOwn
<1>5. ASSUME Undisturbed'
      PROVE (ClashesAreMarked /\ WritesAreDone /\ NothingToDeny /\ PermissionsMatchNodes)'
  <2>1. crashes = 0 /\ Undisturbed
    BY <1>2, <1>5 DEF Undisturbed
  <2>2. ClashesAreMarked /\ WritesAreDone /\ NothingToDeny /\ PermissionsMatchNodes
    BY <2>1 DEF MatchInv
  <2>3. \A t \in Task : Place(t) \in Container \X Device
    BY DEF Place, Task
  <2>4. ClashesAreMarked'
    BY <1>2, <2>3, DoingTasks DEF ClashesAreMarked, MarkOverlaps
  <2>5. \A t \in Task : tasks[t] > 0 /\ Place(t) \notin overlapped' => Place(t) \notin overlapped
    BY <1>2, <2>3, DoingTasks DEF MarkOverlaps
  <2>6. WritesAreDone'
    <3> SUFFICES ASSUME NEW t \in Task, tasks'[t] > 0, t.pc = "exec",
                        Place(t) \notin overlapped'
                 PROVE  t.path \in cgroup'[t.container] <=> t.op = "add"
      BY DEF WritesAreDone
    <3>1. t \notin new
      BY <1>3
    <3>2. tasks[t] > 0 /\ Place(t) \notin overlapped
      BY <1>3, <2>5, <3>1
    <3> QED
      BY <1>2, <2>2, <3>2 DEF WritesAreDone
  <2>7. \A c \in Container : devNumberMap[d] = NoNumber => d \notin cgroup[c]
    BY <1>0, <1>1, <2>1, UinputAssumption DEF GrantedIsMemorised
  <2>8. \A t \in Task : t.container \in Container
    BY DEF Task
  <2>9. NothingToDeny'
    <3> SUFFICES ASSUME NEW t \in Task, tasks'[t] > 0, t.num # t.path,
                        Place(t) \notin overlapped'
                 PROVE  t.path \notin cgroup'[t.container]
      BY DEF NothingToDeny
    <3>1. CASE t \in new
      <4>1. t.path = d /\ devNumberMap[d] = NoNumber
        BY <1>3, <3>1
      <4> QED
        BY <1>2, <2>7, <2>8, <4>1
    <3>2. CASE tasks[t] > 0
      BY <1>2, <2>2, <2>5, <3>2 DEF NothingToDeny
    <3> QED
      BY <1>3, <3>1, <3>2
  <2>10. PermissionsMatchNodes'
    <3> SUFFICES ASSUME NEW c \in Container, NEW e \in Device,
                        <<c, e>> \notin overlapped', Doing(tasks', <<c, e>>) = {}
                 PROVE  e \in cgroup'[c] <=> e \in nodes'[c]
      BY DEF PermissionsMatchNodes
    <3>1. Doing(tasks, <<c, e>>) = {}
      BY <1>3, DoingTasks
    <3>2. <<c, e>> \notin overlapped
      BY <1>2 DEF MarkOverlaps
    <3> QED
      BY <1>2, <2>1, <2>2, <3>1, <3>2 DEF PermissionsMatchNodes, Undisturbed
  <2> QED
    BY <2>4, <2>6, <2>9, <2>10
<1> QED
  BY <1>4, <1>5 DEF MatchInv

\* Writing a cgroup: what the goroutine means is then so, and what others at
\* the same place mean is the same, unless they are marked.
LEMMA WriteMatches ==
    ASSUME TypeInv, NumberInv, MatchInv, NEW t \in Task, WriteCgroup(t)
    PROVE  MatchInv'
<1> DEFINE u == Written(t)
           c == t.container
<1>0. TypeOK /\ NumbersAreOwn /\ AddsUseOwnNumber
  BY DEF TypeInv, NumberInv, MatchInv
<1>1. /\ UNCHANGED <<crashes, devNumberMap, nodes, overlapped>>
      /\ tasks[t] > 0
      /\ c \in Container /\ t.path \in Device /\ t.op \in {"add", "remove"}
  BY DEF WriteCgroup, Task, loopVars
<1>2. /\ u \in Task /\ u.container = c /\ u.op = t.op /\ u.path = t.path /\ u.num = t.num
      /\ tasks'[u] > 0
      /\ \A v \in Task : tasks'[v] > 0 => tasks[v] > 0 \/ v = u
      /\ \A v \in Task : v # t /\ tasks[v] > 0 => tasks'[v] > 0
      /\ "cgroup" \notin Fault => (t.num \in cgroup'[c] <=> t.op = "add")
  BY <1>0, WriteCgroupFacts
<1>3. t.num \in {t.path, NoNumber} /\ (t.op = "add" => t.num = t.path)
  BY <1>0, <1>1 DEF NumbersAreOwn, AddsUseOwnNumber
<1>4. \A k \in Container : \A e \in Device :
         <<k, e>> # Place(t) => (e \in cgroup'[k] <=> e \in cgroup[k])
  <2>1. \A k \in Container : \A e :
           k # c \/ e # t.num => (e \in cgroup'[k] <=> e \in cgroup[k])
    BY <1>0, WriteCgroupFacts
  <2> QED
    BY <1>3, <2>1, UinputAssumption DEF Place
<1>5. t.num # t.path => (t.path \in cgroup'[c] <=> t.path \in cgroup[c])
  BY <1>0, <1>1, WriteCgroupFacts
<1>6. Place(u) = Place(t)
  BY <1>2 DEF Place
<1> HIDE DEF u
<1>7. NumbersAreOwn'
  BY <1>0, <1>1, <1>2, <1>3 DEF NumbersAreOwn
<1>8. ASSUME Undisturbed'
      PROVE (ClashesAreMarked /\ WritesAreDone /\ NothingToDeny /\ PermissionsMatchNodes)'
  <2>1. crashes = 0 /\ Undisturbed
    BY <1>1, <1>8 DEF Undisturbed
  <2>2. ClashesAreMarked /\ WritesAreDone /\ NothingToDeny /\ PermissionsMatchNodes
    BY <2>1 DEF MatchInv
  <2>3. \A v \in Task : tasks'[v] > 0 =>
           \E w \in Task : /\ tasks[w] > 0 /\ w.op = v.op /\ w.num = v.num
                           /\ w.path = v.path /\ Place(w) = Place(v)
    BY <1>1, <1>2, <1>6
  <2>4. ClashesAreMarked'
    <3> SUFFICES ASSUME NEW v \in Task, NEW w \in Task, tasks'[v] > 0, tasks'[w] > 0,
                        v.op # w.op, Place(v) = Place(w)
                 PROVE  Place(v) \in overlapped'
      BY DEF ClashesAreMarked
    <3>1. PICK x \in Task : tasks[x] > 0 /\ x.op = v.op /\ Place(x) = Place(v)
      BY <2>3
    <3>2. PICK y \in Task : tasks[y] > 0 /\ y.op = w.op /\ Place(y) = Place(w)
      BY <2>3
    <3> QED
      BY <1>1, <2>2, <3>1, <3>2 DEF ClashesAreMarked
  \* What the cgroup says of the place after the write.
  <2>5. Place(t) \notin overlapped => (t.path \in cgroup'[c] <=> t.op = "add")
    <3>1. CASE t.num = t.path
      BY <1>2, <2>1, <3>1 DEF Undisturbed
    <3>2. CASE t.num # t.path
      BY <1>1, <1>3, <1>5, <2>2, <3>2 DEF NothingToDeny
    <3> QED
      BY <3>1, <3>2
  <2>6. ASSUME NEW v \in Task, tasks'[v] > 0, Place(v) \notin overlapped, Place(v) = Place(t)
        PROVE  v.op = t.op
    <3>1. PICK w \in Task : tasks[w] > 0 /\ w.op = v.op /\ Place(w) = Place(v)
      BY <2>3, <2>6
    <3> QED
      BY <1>1, <2>2, <2>6, <3>1 DEF ClashesAreMarked
  <2>7. ASSUME NEW v \in Task, Place(v) # Place(t)
        PROVE  v.path \in cgroup'[v.container] <=> v.path \in cgroup[v.container]
    <3>1. v.container \in Container /\ v.path \in Device
      BY DEF Task
    <3> QED
      BY <1>4, <2>7, <3>1 DEF Place
  <2>8. ASSUME NEW v \in Task, Place(v) = Place(t)
        PROVE  v.container = c /\ v.path = t.path
    BY <2>8 DEF Place
  <2>9. WritesAreDone'
    <3> SUFFICES ASSUME NEW v \in Task, tasks'[v] > 0, v.pc = "exec",
                        Place(v) \notin overlapped
                 PROVE  v.path \in cgroup'[v.container] <=> v.op = "add"
      BY <1>1 DEF WritesAreDone
    <3>1. CASE Place(v) = Place(t)
      BY <2>5, <2>6, <2>8, <3>1
    <3>2. CASE Place(v) # Place(t)
      <4>1. tasks[v] > 0
        BY <1>2, <1>6, <3>2
      <4> QED
        BY <2>2, <2>7, <3>2, <4>1 DEF WritesAreDone
    <3> QED
      BY <3>1, <3>2
  <2>10. NothingToDeny'
    <3> SUFFICES ASSUME NEW v \in Task, tasks'[v] > 0, v.num # v.path,
                        Place(v) \notin overlapped
                 PROVE  v.path \notin cgroup'[v.container]
      BY <1>1 DEF NothingToDeny
    <3>1. CASE Place(v) = Place(t)
      <4>1. PICK w \in Task : tasks[w] > 0 /\ w.op = v.op /\ w.num = v.num /\ w.path = v.path
        BY <2>3
      <4>2. v.op # "add"
        BY <1>0, <4>1 DEF AddsUseOwnNumber
      <4> QED
        BY <2>5, <2>6, <2>8, <3>1, <4>2
    <3>2. CASE Place(v) # Place(t)
      <4>1. tasks[v] > 0
        BY <1>2, <1>6, <3>2
      <4> QED
        BY <2>2, <2>7, <3>2, <4>1 DEF NothingToDeny
    <3> QED
      BY <3>1, <3>2
  <2>11. PermissionsMatchNodes'
    <3> SUFFICES ASSUME NEW k \in Container, NEW e \in Device,
                        <<k, e>> \notin overlapped', Doing(tasks', <<k, e>>) = {}
                 PROVE  e \in cgroup'[k] <=> e \in nodes'[k]
      BY DEF PermissionsMatchNodes
    <3>1. \A v \in Task : tasks'[v] > 0 => Place(v) # <<k, e>>
      BY DoingTasks
    <3>2. <<k, e>> # Place(t)
      BY <1>2, <1>6, <3>1
    <3>3. Doing(tasks, <<k, e>>) = {}
      BY <1>2, <3>1, <3>2, DoingTasks
    <3> QED
      BY <1>1, <1>4, <2>1, <2>2, <3>2, <3>3 DEF PermissionsMatchNodes, Undisturbed
  <2> QED
    BY <2>4, <2>9, <2>10, <2>11
<1> QED
  BY <1>7, <1>8 DEF MatchInv

\* The exec makes the node follow the permission.
LEMMA ExecMatches ==
    ASSUME TypeInv, MatchInv, NEW t \in Task, ExecInContainer(t)
    PROVE  MatchInv'
<1>0. TypeOK /\ NumbersAreOwn
  BY DEF TypeInv, MatchInv
<1>1. /\ UNCHANGED <<crashes, devNumberMap, cgroup, overlapped>>
      /\ tasks[t] > 0 /\ t.pc = "exec"
      /\ t.container \in Container /\ t.path \in Device
  BY DEF ExecInContainer, Task, loopVars
<1>2. /\ \A v \in Task : tasks'[v] > 0 => tasks[v] > 0
      /\ \A v \in Task : v # t /\ tasks[v] > 0 => tasks'[v] > 0
      /\ "exec" \notin Fault => (t.path \in nodes'[t.container] <=> t.op = "add")
  BY <1>0, ExecFacts
<1>3. \A k \in Container : \A e \in Device :
         <<k, e>> # Place(t) => (e \in nodes'[k] <=> e \in nodes[k])
  BY <1>0, ExecFacts DEF Place
<1>4. NumbersAreOwn'
  BY <1>0, <1>1, <1>2 DEF NumbersAreOwn
<1>5. ASSUME Undisturbed'
      PROVE (ClashesAreMarked /\ WritesAreDone /\ NothingToDeny /\ PermissionsMatchNodes)'
  <2>1. crashes = 0 /\ Undisturbed
    BY <1>1, <1>5 DEF Undisturbed
  <2>2. ClashesAreMarked /\ WritesAreDone /\ NothingToDeny /\ PermissionsMatchNodes
    BY <2>1 DEF MatchInv
  <2>3. ClashesAreMarked'
    BY <1>1, <1>2, <2>2 DEF ClashesAreMarked
  <2>4. WritesAreDone'
    BY <1>1, <1>2, <2>2 DEF WritesAreDone
  <2>5. NothingToDeny'
    BY <1>1, <1>2, <2>2 DEF NothingToDeny
  <2>6. PermissionsMatchNodes'
    <3> SUFFICES ASSUME NEW k \in Container, NEW e \in Device,
                        <<k, e>> \notin overlapped', Doing(tasks', <<k, e>>) = {}
                 PROVE  e \in cgroup'[k] <=> e \in nodes'[k]
      BY DEF PermissionsMatchNodes
    <3>1. CASE <<k, e>> = Place(t)
      <4>1. k = t.container /\ e = t.path
        BY <3>1 DEF Place
      <4>2. e \in cgroup[k] <=> t.op = "add"
        BY <1>1, <2>2, <3>1, <4>1 DEF WritesAreDone
      <4>3. e \in nodes'[k] <=> t.op = "add"
        BY <1>2, <2>1, <4>1 DEF Undisturbed
      <4> QED
        BY <1>1, <4>2, <4>3
    <3>2. CASE <<k, e>> # Place(t)
      <4>1. Doing(tasks, <<k, e>>) = {}
        BY <1>2, <3>2, DoingTasks
      <4> QED
        BY <1>1, <1>3, <2>1, <2>2, <3>2, <4>1 DEF PermissionsMatchNodes, Undisturbed
    <3> QED
      BY <3>1, <3>2
  <2> QED
    BY <2>3, <2>4, <2>5, <2>6
<1> QED
  BY <1>4, <1>5 DEF MatchInv

\* Every step preserves MatchInv.
LEMMA NextMatchInv == TypeInv /\ NumberInv /\ MatchInv /\ [Next]_vars => MatchInv'
<1> SUFFICES ASSUME TypeInv, NumberInv, MatchInv, [Next]_vars PROVE MatchInv'
  OBVIOUS
<1> USE DEF kernelVars, helperVars, channelVars, loopVars, containerVars
<1>1. CASE UNCHANGED <<crashes, devNumberMap, cgroup, nodes, tasks, overlapped>>
  BY <1>1, StillMatched
<1>2. CASE DispatchDevice
  BY <1>2, DispatchMatches
<1>3. ASSUME NEW t \in Task, WriteCgroup(t) PROVE MatchInv'
  BY <1>3, WriteMatches
<1>4. ASSUME NEW t \in Task, ExecInContainer(t) PROVE MatchInv'
  BY <1>4, ExecMatches
<1>5. CASE Crash
  <2>1. crashes' # 0
    BY <1>5 DEF Crash, TypeInv, TypeOK
  <2>2. NumbersAreOwn'
    BY <1>5 DEF Crash, NumbersAreOwn
  <2> QED
    BY <2>1, <2>2 DEF MatchInv, Undisturbed
<1> QED
  BY <1>1, <1>2, <1>3, <1>4, <1>5
     DEF Next, Kernel, HelperStep, Loop, TaskStep, vars, AppOpen, AppClose,
         CreateDevice, DestroyDevice, StartContainer, SendTrigger, LoseTrigger,
         Listen, ScanUevent, EnterLoop, ReceiveTrigger, ReceiveDevice,
         ReceiveNothing, NewGroup, Tick, Restart

\* The initial states satisfy MatchInv.
LEMMA InitMatchInv == Init => MatchInv
<1> SUFFICES ASSUME Init PROVE MatchInv
  OBVIOUS
<1>1. NumbersAreOwn /\ ClashesAreMarked /\ WritesAreDone /\ NothingToDeny
  BY DEF Init, NumbersAreOwn, ClashesAreMarked, WritesAreDone, NothingToDeny
<1>2. PermissionsMatchNodes
  BY DEF Init, PermissionsMatchNodes
<1> QED
  BY <1>1, <1>2 DEF MatchInv

\* While no call fails and the monitor lives, permission and node of a device
\* agree in every container whose goroutines for it are done, unless the
\* latest of them overlapped: for any containers, devices, opens and closes.
THEOREM PermissionsFollow == Spec => []PermissionsMatchNodes
<1>1. TypeInv /\ NumberInv /\ MatchInv /\ [Next]_vars => MatchInv'
  BY NextMatchInv
<1>2. MatchInv => PermissionsMatchNodes
  BY DEF MatchInv, Undisturbed, PermissionsMatchNodes
<1> QED
  BY InitMatchInv, <1>1, <1>2, TypeInvariance, NumberInvariance, PTL DEF Spec
=============================================================================
