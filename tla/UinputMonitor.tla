--------------------------- MODULE UinputMonitor ---------------------------
(***************************************************************************)
(* The uinput monitor of the device plugin                                 *)
(* (images/uinput-device-plugin/cmd/uinput_monitor, pkg/uinput).           *)
(*                                                                         *)
(* A helper in each container watches that container's /dev/uinput and     *)
(* calls the monitor, over a unix socket, when it is opened and closed.    *)
(* The monitor takes the caller to be a container that mounts the socket.  *)
(* It also reads the kernel's device events from udevadm.  Both kinds      *)
(* arrive on one unbuffered Go channel.  HandleMonitorEvents groups  *)
(* them: the latest uinput trigger, and every device event seen since the  *)
(* previous group.  A group is flushed when more than a window has passed  *)
(* since the trigger of the previous one; each of its device events then   *)
(* starts one goroutine per target container that allows or denies the     *)
(* device in the container's cgroup and makes or removes its node there.   *)
(*                                                                         *)
(* Time is kept as ages that stop growing beyond Window: the code compares *)
(* an elapsed time with the window and does nothing else with it.          *)
(* A major:minor pair is abstracted to the device it belongs to, because   *)
(* the kernel derives the number of an input device from its name; the     *)
(* pair 0:0 is NoNumber.                                                   *)
(***************************************************************************)
EXTENDS Naturals, Sequences, FiniteSets

CONSTANTS
    Container,  \* containers on the node
    Helper,     \* those among them that run a uinput helper
    Pod,        \* [Container -> pods]
    PodMode,    \* helpers whose socket directory has the file uinput_type_pod
    Socket,     \* control sockets uinputctlN
    Device,     \* basenames of the device nodes, e.g. event3, js0
    None,       \* no trigger, no event, no owner, no socket
    NoNumber,   \* the device number 0:0
    Window,     \* windowLength, in ticks
    Fault,      \* calls that may fail: subset of {"find","pod","info","cgroup","exec"}
    MaxOpens,   \* bound: times /dev/uinput is opened
    MaxCrashes  \* bound: times the monitor process dies

ASSUME UinputAssumption ==
    /\ Helper \subseteq Container
    /\ PodMode \subseteq Helper
    /\ Window \in Nat
    /\ MaxOpens \in Nat
    /\ MaxCrashes \in Nat
    /\ None \notin Device \cup Container
    /\ NoNumber \notin Device
    /\ None \notin Socket
    /\ "udev" \notin Container

VARIABLES
    fd,          \* containers whose application holds /dev/uinput open
    opens,       \* how often it was opened
    everOpened,  \* history: containers that ever opened it
    owner,       \* device node in sysfs -> container whose fd created it
    mount,       \* helper -> its socket mount: absent, live or stale
    ctl,         \* helper -> the control socket its container mounts
    fsq,         \* helper -> fsnotify events not handled yet
    mpc,         \* monitor process: down, init, loop or dispatch
    crashes,     \* how often the monitor died
    listening,   \* sockets being served
    uevents,     \* udevadm output not scanned yet
    sendq,       \* senders blocked on the channel, in arrival order
    trigger,     \* helper -> the trigger its RPC handler is sending
    uevent,      \* the device event the scanner is sending
    group,       \* groupItem
    sincePrev,   \* time since prevGroupTimestamp
    devNumberMap,
    tasks,       \* add/remove goroutines: how many of each
    cgroup,      \* container -> device numbers its cgroup allows
    nodes,       \* container -> device nodes in its /dev/input
    overlapped   \* history: where the latest goroutines for a container and a
                 \* device added and removed it at once

kernelVars == <<fd, opens, everOpened, owner>>
helperVars == <<mount, ctl, fsq>>
channelVars == <<sendq, trigger, uevent>>
loopVars == <<group, sincePrev, devNumberMap>>
containerVars == <<cgroup, nodes, overlapped>>
vars == <<kernelVars, helperVars, mpc, crashes, listening, uevents,
          channelVars, loopVars, tasks, containerVars>>

Age == 0 .. Window + 1

Trigger == [type : {"Opened", "Closed"}, container : Helper, pod : BOOLEAN, age : Age]

DeviceEvent == [type : {"Added", "Removed"}, path : Device]

Task == [op : {"add", "remove"}, container : Container, path : Device,
         num : Device \cup {NoNumber}, pc : {"cgroup", "exec"}]

\* None is told apart from every event.
ASSUME NoneAssumption == None \notin Trigger \cup DeviceEvent

EmptyGroup == [uinput |-> None, devices |-> <<>>]

-----------------------------------------------------------------------------
Init ==
    /\ fd = {}
    /\ opens = 0
    /\ everOpened = {}
    /\ owner = [d \in Device |-> None]
    /\ mount = [h \in Helper |-> "absent"]
    /\ ctl = [h \in Helper |-> None]
    /\ fsq = [h \in Helper |-> <<>>]
    /\ mpc = "init"
    /\ crashes = 0
    /\ listening = {}
    /\ uevents = <<>>
    /\ sendq = <<>>
    /\ trigger = [h \in Helper |-> None]
    /\ uevent = None
    /\ group = EmptyGroup
    /\ sincePrev = Window
    /\ devNumberMap = [d \in Device |-> NoNumber]
    /\ tasks = [t \in Task |-> 0]
    /\ cgroup = [c \in Container |-> {}]
    /\ nodes = [c \in Container |-> {}]
    /\ overlapped = {}

-----------------------------------------------------------------------------
(* The applications and the kernel: external to the repository.            *)

Devices(c) == {d \in Device : owner[d] = c}

\* inotify reports to the helper, if its container runs one.
Notify(c, type) ==
    fsq' = IF c \in Helper /\ mount[c] # "absent"
           THEN [fsq EXCEPT ![c] = Append(@, type)] ELSE fsq

\* udevadm prints the event only while the monitor runs it.
EmitUevent(type, d) ==
    uevents' = IF mpc = "down" THEN uevents
               ELSE Append(uevents, [type |-> type, path |-> d])

AppOpen(c) ==
    /\ opens < MaxOpens
    /\ c \notin fd
    /\ Devices(c) = {}
    /\ c \in Helper => mount[c] # "absent"
    /\ fd' = fd \cup {c}
    /\ opens' = opens + 1
    /\ everOpened' = everOpened \cup {c}
    /\ Notify(c, "Opened")
    /\ UNCHANGED <<owner, mount, ctl, mpc, crashes, listening, uevents,
                   channelVars, loopVars, tasks, containerVars>>

CreateDevice(c, d) ==
    /\ c \in fd
    /\ owner[d] = None
    /\ owner' = [owner EXCEPT ![d] = c]
    /\ EmitUevent("Added", d)
    /\ UNCHANGED <<fd, opens, everOpened, helperVars, mpc, crashes, listening,
                   channelVars, loopVars, tasks, containerVars>>

AppClose(c) ==
    /\ c \in fd
    /\ fd' = fd \ {c}
    /\ Notify(c, "Closed")
    /\ UNCHANGED <<opens, everOpened, owner, mount, ctl, mpc, crashes, listening,
                   uevents, channelVars, loopVars, tasks, containerVars>>

\* Closing the last descriptor destroys the devices made through it.
DestroyDevice(d) ==
    /\ owner[d] # None
    /\ owner[d] \notin fd
    /\ owner' = [owner EXCEPT ![d] = None]
    /\ EmitUevent("Removed", d)
    /\ UNCHANGED <<fd, opens, everOpened, helperVars, mpc, crashes, listening,
                   channelVars, loopVars, tasks, containerVars>>

\* A container starts with a socket the monitor serves bind-mounted: the plugin
\* offers only sockets it has found in the socket directory.  The kubelet gives
\* a socket to one container, but the sockets are advertised twice: by the
\* plugin of containers' own devices and by that of pods' devices.
StartContainer(h) ==
    /\ mount[h] = "absent"
    /\ \E s \in listening :
          /\ \A g \in Helper : ctl[g] = s => (g \in PodMode) # (h \in PodMode)
          /\ ctl' = [ctl EXCEPT ![h] = s]
    /\ mount' = [mount EXCEPT ![h] = "live"]
    /\ UNCHANGED <<kernelVars, fsq, mpc, crashes, listening, uevents,
                   channelVars, loopVars, tasks, containerVars>>

-----------------------------------------------------------------------------
(* The helper and the host server.                                         *)

\* Mutant: any control socket is taken for the one that was called on.
MountingAny(s) == {g \in Helper : ctl[g] # None}

\* The containers a lookup by the path of socket s may return: the first of
\* Docker's list that mounts it, in whatever order the list comes.
Mounting(s) == {g \in Helper : ctl[g] = s}

\* The helper handles its watcher's events one at a time and waits for each
\* call, whose handler blocks until the monitor loop receives the trigger.
\* The call tells the mode; the container is looked up by the socket.
SendTrigger(h) ==
    /\ trigger[h] = None
    /\ fsq[h] # <<>>
    /\ mount[h] = "live"
    /\ ctl[h] \in listening
    /\ fsq' = [fsq EXCEPT ![h] = Tail(@)]
    /\ \E g \in Mounting(ctl[h]) :
          trigger' = [trigger EXCEPT
                         ![h] = [type |-> Head(fsq[h]), container |-> g,
                                 pod |-> h \in PodMode, age |-> 0]]
    /\ sendq' = Append(sendq, h)
    /\ UNCHANGED <<kernelVars, mount, ctl, mpc, crashes, listening, uevents, uevent,
                   loopVars, tasks, containerVars>>

\* A failed call is only logged: the trigger is lost.  It fails when no one
\* serves the mounted socket or the container is not found by its mount.
LoseTrigger(h) ==
    /\ trigger[h] = None
    /\ fsq[h] # <<>>
    /\ mount[h] # "live" \/ ctl[h] \notin listening \/ "find" \in Fault
    /\ fsq' = [fsq EXCEPT ![h] = Tail(@)]
    /\ UNCHANGED <<kernelVars, mount, ctl, mpc, crashes, listening, uevents,
                   channelVars, loopVars, tasks, containerVars>>

ScanUevent ==
    /\ mpc # "down"
    /\ uevent = None
    /\ uevents # <<>>
    /\ uevent' = Head(uevents)
    /\ uevents' = Tail(uevents)
    /\ sendq' = Append(sendq, "udev")
    /\ UNCHANGED <<kernelVars, helperVars, mpc, crashes, listening, trigger,
                   loopVars, tasks, containerVars>>

-----------------------------------------------------------------------------
(* The monitor process.                                                    *)

\* One goroutine per socket, not waited for: the ready file may be touched
\* and the loop entered before a socket is served.
Listen(s) ==
    /\ mpc # "down"
    /\ s \notin listening
    /\ listening' = listening \cup {s}
    /\ UNCHANGED <<kernelVars, helperVars, mpc, crashes, uevents, channelVars,
                   loopVars, tasks, containerVars>>

\* HandleMonitorEvents starts with a previous group 20 ms, or Window, old.
EnterLoop ==
    /\ mpc = "init"
    /\ mpc' = "loop"
    /\ sincePrev' \in {Window, Window + 1}
    /\ UNCHANGED <<kernelVars, helperVars, crashes, listening, uevents,
                   channelVars, group, devNumberMap, tasks, containerVars>>

\* The window test at the end of a loop iteration, on the group g.
WindowTest(g) ==
    /\ group' = g
    /\ mpc' = IF sincePrev > Window /\ g.uinput # None THEN "dispatch" ELSE "loop"

\* Mutant: a trigger is not received before the group's devices are gone.
ReceiveTriggerIfNoDevices ==
    /\ mpc = "loop"
    /\ sendq # <<>>
    /\ group.devices = <<>>
    /\ LET h == Head(sendq) IN
         /\ h # "udev"
         /\ WindowTest([group EXCEPT !.uinput = trigger[h]])
         /\ trigger' = [trigger EXCEPT ![h] = None]
    /\ sendq' = Tail(sendq)
    /\ UNCHANGED <<kernelVars, helperVars, crashes, listening, uevents, uevent,
                   sincePrev, devNumberMap, tasks, containerVars>>

\* Mutant: a trigger starts a group of its own, without the devices seen.
ReceiveTriggerInNewGroup ==
    /\ mpc = "loop"
    /\ sendq # <<>>
    /\ LET h == Head(sendq) IN
         /\ h # "udev"
         /\ WindowTest([EmptyGroup EXCEPT !.uinput = trigger[h]])
         /\ trigger' = [trigger EXCEPT ![h] = None]
    /\ sendq' = Tail(sendq)
    /\ UNCHANGED <<kernelVars, helperVars, crashes, listening, uevents, uevent,
                   sincePrev, devNumberMap, tasks, containerVars>>

\* The loop receives a trigger, which replaces the one of the group.
ReceiveTrigger ==
    /\ mpc = "loop"
    /\ sendq # <<>>
    /\ LET h == Head(sendq) IN
         /\ h # "udev"
         /\ WindowTest([group EXCEPT !.uinput = trigger[h]])
         /\ trigger' = [trigger EXCEPT ![h] = None]
    /\ sendq' = Tail(sendq)
    /\ UNCHANGED <<kernelVars, helperVars, crashes, listening, uevents, uevent,
                   sincePrev, devNumberMap, tasks, containerVars>>

\* Mutant: the event's type is not looked at, any event is the group's trigger.
ReceiveDeviceAsTrigger ==
    /\ mpc = "loop"
    /\ sendq # <<>>
    /\ Head(sendq) = "udev"
    /\ WindowTest([group EXCEPT !.uinput = uevent])
    /\ uevent' = None
    /\ sendq' = Tail(sendq)
    /\ UNCHANGED <<kernelVars, helperVars, crashes, listening, uevents, trigger,
                   sincePrev, devNumberMap, tasks, containerVars>>

\* The loop receives a device event, which joins the group.
ReceiveDevice ==
    /\ mpc = "loop"
    /\ sendq # <<>>
    /\ Head(sendq) = "udev"
    /\ WindowTest([group EXCEPT !.devices = Append(@, uevent)])
    /\ uevent' = None
    /\ sendq' = Tail(sendq)
    /\ UNCHANGED <<kernelVars, helperVars, crashes, listening, uevents, trigger,
                   sincePrev, devNumberMap, tasks, containerVars>>

\* Mutant: every empty iteration starts the window again.
ReceiveNothingAndWaitAgain ==
    /\ mpc = "loop"
    /\ sendq = <<>>
    /\ WindowTest(group)
    /\ sincePrev' = 0
    /\ UNCHANGED <<kernelVars, helperVars, crashes, listening, uevents,
                   channelVars, devNumberMap, tasks, containerVars>>

\* The loop finds no sender waiting.
ReceiveNothing ==
    /\ mpc = "loop"
    /\ sendq = <<>>
    /\ WindowTest(group)
    /\ UNCHANGED <<kernelVars, helperVars, crashes, listening, uevents,
                   channelVars, sincePrev, devNumberMap, tasks, containerVars>>

\* The containers a trigger found to be of container g is applied to: all of
\* its pod if the call was made in pod mode.
Targets(g, pod) == IF pod THEN {c \in Container : Pod[c] = Pod[g]} ELSE {g}

\* What the lookup of those containers may return: it falls back to g alone.
Lookups(g, pod) == {Targets(g, pod)} \cup (IF "pod" \in Fault THEN {{g}} ELSE {})

\* The goroutines for device d in the containers cs.
NewTasks(op, cs, d, num) ==
    {[op |-> op, container |-> c, path |-> d, num |-> num, pc |-> "cgroup"] : c \in cs}

Start(new) == tasks' = [t \in Task |-> IF t \in new THEN tasks[t] + 1 ELSE tasks[t]]

\* Those of the containers cs for which sysfs has told d's number, which is
\* read for each of them: none when the device is gone.
Informed(d, cs) ==
    IF owner[d] = None THEN {{}}
    ELSE IF "info" \in Fault THEN SUBSET cs ELSE {cs}

\* The group's trigger, not the device event's own type, selects the action.
Add(d, cs) ==
    \E told \in Informed(d, cs) :
        /\ devNumberMap' = IF told = {} THEN devNumberMap
                           ELSE [devNumberMap EXCEPT ![d] = d]
        /\ Start(NewTasks("add", told, d, d))

\* Mutant: the number is forgotten as soon as a removal has used it.
RemoveAndForget(d, cs) ==
    /\ Start(NewTasks("remove", cs, d, devNumberMap[d]))
    /\ devNumberMap' = [devNumberMap EXCEPT ![d] = NoNumber]

\* Mutant: the number is looked up in sysfs, which no longer has it.
RemoveByLookup(d, cs) ==
    /\ Start(NewTasks("remove", cs, d, IF owner[d] = None THEN NoNumber ELSE d))
    /\ UNCHANGED devNumberMap

Remove(d, cs) ==
    /\ Start(NewTasks("remove", cs, d, devNumberMap[d]))
    /\ UNCHANGED devNumberMap

\* What the goroutines ts do at w, a container and a device: add, remove or both.
Doing(ts, w) ==
    {t.op : t \in {u \in Task : ts[u] > 0 /\ <<u.container, u.path>> = w}}

\* Both kinds overlap where they are at work together, and the mark stays until
\* goroutines start there afresh.
MarkOverlaps ==
    overlapped' = {w \in Container \X Device :
        \/ Doing(tasks', w) = {"add", "remove"}
        \/ w \in overlapped /\ (Doing(tasks, w) # {} \/ Doing(tasks', w) = {})}

DispatchDevice ==
    /\ mpc = "dispatch"
    /\ group.devices # <<>>
    /\ LET d == Head(group.devices).path IN
       \E cs \in Lookups(group.uinput.container, group.uinput.pod) :
           IF group.uinput.type = "Opened" THEN Add(d, cs) ELSE Remove(d, cs)
    /\ group' = [group EXCEPT !.devices = Tail(@)]
    /\ MarkOverlaps
    /\ UNCHANGED <<kernelVars, helperVars, mpc, crashes, listening, uevents,
                   channelVars, sincePrev, cgroup, nodes>>

NewGroup ==
    /\ mpc = "dispatch"
    /\ group.devices = <<>>
    /\ sincePrev' = group.uinput.age
    /\ group' = EmptyGroup
    /\ mpc' = "loop"
    /\ UNCHANGED <<kernelVars, helperVars, crashes, listening, uevents,
                   channelVars, devNumberMap, tasks, containerVars>>

-----------------------------------------------------------------------------
(* addDeviceToContainer and removeDeviceFromContainer, as goroutines.      *)

\* Writing devices.allow or devices.deny; an error is logged and passed over.
WriteCgroup(t) ==
    /\ tasks[t] > 0
    /\ t.pc = "cgroup"
    /\ tasks' = [tasks EXCEPT ![t] = @ - 1, ![[t EXCEPT !.pc = "exec"]] = @ + 1]
    /\ \/ cgroup' = [cgroup EXCEPT ![t.container] =
                        IF t.op = "add" THEN @ \cup {t.num} ELSE @ \ {t.num}]
       \/ "cgroup" \in Fault /\ UNCHANGED cgroup
    /\ UNCHANGED <<kernelVars, helperVars, mpc, crashes, listening, uevents,
                   channelVars, loopVars, nodes, overlapped>>

\* Running mknod or rm -f in the container.
ExecInContainer(t) ==
    /\ tasks[t] > 0
    /\ t.pc = "exec"
    /\ tasks' = [tasks EXCEPT ![t] = @ - 1]
    /\ \/ nodes' = [nodes EXCEPT ![t.container] =
                       IF t.op = "add" THEN @ \cup {t.path} ELSE @ \ {t.path}]
       \/ "exec" \in Fault /\ UNCHANGED nodes
    /\ UNCHANGED <<kernelVars, helperVars, mpc, crashes, listening, uevents,
                   channelVars, loopVars, cgroup, overlapped>>

-----------------------------------------------------------------------------
(* Time and failure.                                                       *)

Older(a) == IF a > Window THEN a ELSE a + 1

OlderTrigger(e) == IF e = None THEN None ELSE [e EXCEPT !.age = Older(@)]

Tick ==
    /\ sincePrev' = Older(sincePrev)
    /\ trigger' = [h \in Helper |-> OlderTrigger(trigger[h])]
    /\ group' = [group EXCEPT !.uinput = OlderTrigger(@)]
    /\ UNCHANGED <<kernelVars, helperVars, mpc, crashes, listening, uevents,
                   sendq, uevent, devNumberMap, tasks, containerVars>>

\* The monitor process dies with its goroutines, its queue and its memory;
\* a socket that is bind-mounted in a container will never be served again.
Crash ==
    /\ crashes < MaxCrashes
    /\ mpc # "down"
    /\ crashes' = crashes + 1
    /\ mpc' = "down"
    /\ listening' = {}
    /\ mount' = [h \in Helper |-> IF mount[h] = "live" THEN "stale" ELSE mount[h]]
    /\ uevents' = <<>>
    /\ sendq' = <<>>
    /\ trigger' = [h \in Helper |-> None]
    /\ uevent' = None
    /\ group' = EmptyGroup
    /\ devNumberMap' = [d \in Device |-> NoNumber]
    /\ tasks' = [t \in Task |-> 0]
    /\ UNCHANGED <<kernelVars, ctl, fsq, sincePrev, containerVars>>

\* The container is restarted: main runs again from its beginning.
Restart ==
    /\ mpc = "down"
    /\ mpc' = "init"
    /\ UNCHANGED <<kernelVars, helperVars, crashes, listening, uevents,
                   channelVars, loopVars, tasks, containerVars>>

-----------------------------------------------------------------------------
Kernel ==
    \/ \E c \in Container : AppOpen(c) \/ AppClose(c)
    \/ \E c \in Container, d \in Device : CreateDevice(c, d)
    \/ \E d \in Device : DestroyDevice(d)

HelperStep(h) == SendTrigger(h) \/ LoseTrigger(h)

Loop == ReceiveTrigger \/ ReceiveDevice \/ ReceiveNothing \/ DispatchDevice \/ NewGroup

TaskStep(t) == WriteCgroup(t) \/ ExecInContainer(t)

Next ==
    \/ Kernel
    \/ \E h \in Helper : StartContainer(h) \/ HelperStep(h)
    \/ \E s \in Socket : Listen(s)
    \/ ScanUevent
    \/ EnterLoop
    \/ Loop
    \/ \E t \in Task : TaskStep(t)
    \/ Tick
    \/ Crash
    \/ Restart

\* The runtime schedules every goroutine and time passes; nothing obliges an
\* application to open, use or close /dev/uinput, or a process to die.
Fairness ==
    /\ WF_vars(Loop)
    /\ WF_vars(EnterLoop)
    /\ WF_vars(Restart)
    /\ WF_vars(ScanUevent)
    /\ WF_vars(Tick)
    /\ \A h \in Helper : WF_vars(HelperStep(h))
    /\ \A s \in Socket : WF_vars(Listen(s))
    /\ \A t \in Task : WF_vars(TaskStep(t))

Spec == Init /\ [][Next]_vars
-----------------------------------------------------------------------------
TypeOK ==
    /\ fd \in SUBSET Container
    /\ opens \in Nat
    /\ everOpened \in SUBSET Container
    /\ owner \in [Device -> Container \cup {None}]
    /\ mount \in [Helper -> {"absent", "live", "stale"}]
    /\ ctl \in [Helper -> Socket \cup {None}]
    /\ fsq \in [Helper -> Seq({"Opened", "Closed"})]
    /\ mpc \in {"down", "init", "loop", "dispatch"}
    /\ crashes \in Nat
    /\ listening \in SUBSET Socket
    /\ uevents \in Seq(DeviceEvent)
    /\ sendq \in Seq(Helper \cup {"udev"})
    /\ trigger \in [Helper -> Trigger \cup {None}]
    /\ uevent \in DeviceEvent \cup {None}
    /\ group \in [uinput : Trigger \cup {None}, devices : Seq(DeviceEvent)]
    /\ sincePrev \in Age
    /\ devNumberMap \in [Device -> Device \cup {NoNumber}]
    /\ tasks \in [Task -> Nat]
    /\ cgroup \in [Container -> SUBSET (Device \cup {NoNumber})]
    /\ nodes \in [Container -> SUBSET Device]
    /\ overlapped \subseteq Container \X Device

\* A container whose cgroup or /dev/input the monitor changes, or is about to
\* change, is reached by a socket on which someone reported an open: it mounts
\* the socket of a container that opened /dev/uinput or, if that one is in pod
\* mode, shares its pod with one that mounts it.  Through helper, call, lookup,
\* queue, group and goroutine no access strays to other containers; where no
\* socket is mounted twice only openers, and in pod mode their pods, get any.
GrantsFollowTheSocket ==
    \A c \in Container :
        (\/ cgroup[c] # {}
         \/ nodes[c] # {}
         \/ \E t \in Task : tasks[t] > 0 /\ t.container = c)
        => \E h \in Helper \cap everOpened, g \in Helper :
              ctl[g] = ctl[h] /\ c \in Targets(g, h \in PodMode)

\* What has been allowed can be revoked: while the monitor has not died, the
\* number of every device allowed in a cgroup, or about to be, is in
\* devNumberMap under the path a removal will look it up by.
GrantedIsMemorised ==
    crashes = 0 =>
        \A d \in Device :
            (\/ \E c \in Container : d \in cgroup[c] \/ d \in nodes[c]
             \/ \E t \in Task : tasks[t] > 0 /\ t.op = "add" /\ t.path = d)
            => devNumberMap[d] = d

\* Permission and node agree whenever a container's goroutines for a device are
\* done, whatever groups the events came in and however opens and closes of
\* several containers were mixed up on the way: if no call failed and the
\* monitor has not died, only an addition and a removal that overlapped can
\* part them, and the next that is alone there brings them together again.
PermissionsMatchNodes ==
    crashes = 0 /\ Fault \cap {"cgroup", "exec"} = {} =>
        \A c \in Container, d \in Device :
            \/ <<c, d>> \in overlapped
            \/ Doing(tasks, <<c, d>>) # {}
            \/ d \in cgroup[c] <=> d \in nodes[c]

\* A helper's call returns: its handler does not block on the channel for
\* ever, so the helper goes on to the container's next open or close.
CallReturns == \A h \in Helper : trigger[h] # None ~> trigger[h] = None

\* A trigger that reached a group is acted upon: the group is flushed.
GroupIsFlushed == group.uinput # None ~> group.uinput = None

\* "When device mode is 'pod', add device to all containers, otherwise just
\* the creating container": an add is started only in the creator's targets.
AddsOnlyForCreator ==
    [][\A t \in Task :
          tasks'[t] > tasks[t] /\ t.op = "add" /\ t.pc = "cgroup"
          => LET o == owner[t.path] IN
             o \in Helper /\ t.container \in Targets(o, o \in PodMode)]_vars

\* "Use a map to memorize the major and minor numbers since we won't know
\* them when removing the cgroup permission": removals know their number.
RemovesKnowTheNumber ==
    \A t \in Task : tasks[t] > 0 /\ t.op = "remove" => t.num # NoNumber
=============================================================================
