----------------------------- MODULE DevicePool -----------------------------
(***************************************************************************)
(* The pool of virtual mice and joysticks (python/uinput_devices.py), its  *)
(* pod's life (daemonset.yaml) and the plugin that advertises its mice by  *)
(* the symlinks the pool makes.  The process creates one device after the  *)
(* other.  It learns which event number the kernel gave a device by        *)
(* listing sysfs before and after: the one new number must be it.          *)
(* Applications on the node create and close devices too.                  *)
(*                                                                         *)
(* The i-th device is i; 1 to NumMice are the mice.  A device's owner      *)
(* stands for its input directory inputN, a number the kernel never uses   *)
(* twice.  The names of devices are shared: all mice have one, all         *)
(* joysticks another, and applications choose theirs.                      *)
(***************************************************************************)
EXTENDS Integers, FiniteSets

CONSTANTS
    MaxEvent,   \* bound: event numbers are 0..MaxEvent
    NumMice,    \* UINPUT_NUM_MICE
    NumJs,      \* UINPUT_NUM_JS
    App,        \* applications that make one device each
    AppName,    \* name of an application's device: a mouse's, a joystick's or other
    None,
    MaxFaults   \* bound: times the process is killed alone or the pod stopped

ASSUME PoolAssumption ==
    /\ MaxEvent \in Nat
    /\ NumMice \in Nat \ {0}
    /\ NumJs \in Nat
    /\ App \cap Int = {}
    /\ AppName \in [App -> {"mouse", "js", "other"}]
    /\ None \notin App \cup Int
    /\ MaxFaults \in Nat

Event == 0 .. MaxEvent
Index == 1 .. NumMice + NumJs
Mouse == 1 .. NumMice
Ready == {"mice", "js"}
Owner == Index \cup App

\* UINPUT_MICE_NAME and UINPUT_JS_NAME carry no number.
NameOf == [o \in Owner |-> IF o \in App THEN AppName[o]
                          ELSE IF o \in Mouse THEN "mouse" ELSE "js"]

\* The device after which a ready file is made.
LastOf == [f \in Ready |-> IF f = "mice" THEN NumMice ELSE NumMice + NumJs]

VARIABLES
    sysfs,   \* owner of each event number
    used,    \* applications that have made their device
    pc,      \* the process: start, glob, pair, create, bind, wait, run or dead
    goal,    \* why it lists sysfs: main, before or after
    idx,     \* the device it is making
    known,   \* keys of the registry's map
    seen,    \* what the first of the two globs saw
    ev,      \* ev_name of each device
    found,   \* input_name of each device
    sock,    \* socket files by event number, and the device each drives
    link,    \* event number each /dev/input/mouseN points at
    flags,   \* ready files
    stop,    \* the pod's end: no, hook, sockets, term or gone
    plugin,  \* the mouse plugin: waiting or running
    names,   \* its inputDevices: event number to the mouse it is known as
    faults

poolVars == <<pc, goal, idx, known, seen, ev, found>>
fileVars == <<sock, link, flags>>
vars == <<sysfs, used, poolVars, fileVars, stop, plugin, names, faults>>

Nothing == [e \in Event |-> None]

Init ==
    /\ sysfs = Nothing
    /\ used = {}
    /\ pc = "start"
    /\ goal = "main"
    /\ idx = 1
    /\ known = {}
    /\ seen = Nothing
    /\ ev = [i \in Index |-> None]
    /\ found = [i \in Index |-> None]
    /\ sock = Nothing
    /\ link = [m \in Mouse |-> None]
    /\ flags = {}
    /\ stop = "no"
    /\ plugin = "waiting"
    /\ names = Nothing
    /\ faults = 0

-----------------------------------------------------------------------------
(* The kernel and the applications.                                        *)

\* A new device takes the lowest free number.
Attach(o) ==
    \E e \in Event :
        /\ sysfs[e] = None
        /\ \A f \in Event : f < e => sysfs[f] # None
        /\ sysfs' = [sysfs EXCEPT ![e] = o]

Devices == {e \in Event : sysfs[e] # None}

AppOpen(a) ==
    /\ a \notin used
    /\ used' = used \cup {a}
    /\ Attach(a)
    /\ UNCHANGED <<poolVars, fileVars, stop, plugin, names, faults>>

AppClose(e) ==
    /\ sysfs[e] \in App
    /\ sysfs' = [sysfs EXCEPT ![e] = None]
    /\ UNCHANGED <<used, poolVars, fileVars, stop, plugin, names, faults>>

-----------------------------------------------------------------------------
(* The process.                                                            *)

\* Mutant: the ready files of an earlier life are kept.
StartWithoutCleanup ==
    /\ pc = "start"
    /\ sock' = Nothing
    /\ pc' = "glob"
    /\ goal' = "main"
    /\ UNCHANGED <<sysfs, used, idx, known, seen, ev, found, link, flags, stop,
                   plugin, names, faults>>

\* "Always cleanup before starting."
Start ==
    /\ pc = "start"
    /\ flags' = {}
    /\ sock' = Nothing
    /\ pc' = "glob"
    /\ goal' = "main"
    /\ UNCHANGED <<sysfs, used, idx, known, seen, ev, found, link, stop,
                   plugin, names, faults>>

GlobEvents ==
    /\ pc = "glob"
    /\ seen' = sysfs
    /\ pc' = "pair"
    /\ UNCHANGED <<sysfs, used, goal, idx, known, ev, found, fileVars, stop,
                   plugin, names, faults>>

\* The end of the process closes its devices.
Perish ==
    /\ pc' = "dead"
    /\ goal' = "main"
    /\ idx' = 1
    /\ known' = {}
    /\ seen' = Nothing
    /\ ev' = [i \in Index |-> None]
    /\ found' = [i \in Index |-> None]
    /\ sysfs' = [e \in Event |-> IF sysfs[e] \in Index THEN None ELSE sysfs[e]]

\* Its files stay.
Die == Perish /\ UNCHANGED <<used, fileVars, stop, plugin, names>>

\* Events listed by the first glob that the zip with the second one keeps: in
\* no particular order, and no more than there are devices by now.
Zipped ==
    LET listed == {e \in Event : seen[e] # None}
    IN  {s \in SUBSET listed :
            \/ s = listed /\ Cardinality(listed) <= Cardinality(Devices)
            \/ /\ Cardinality(Devices) < Cardinality(listed)
               /\ Cardinality(s) = Cardinality(Devices)}

\* Mutant: what was there before a device is made is not remembered.
RefreshForgetful ==
    /\ pc = "pair"
    /\ goal # "after"
    /\ pc' = IF goal = "main" THEN "glob" ELSE "create"
    /\ goal' = "before"
    /\ seen' = Nothing
    /\ UNCHANGED <<sysfs, used, idx, known, ev, found, fileVars, stop, plugin,
                   names, faults>>

\* refresh before anything is made, and again before each device.
Refresh ==
    /\ pc = "pair"
    /\ goal # "after"
    /\ \E s \in Zipped : known' = known \cup s
    /\ pc' = IF goal = "main" THEN "glob" ELSE "create"
    /\ goal' = "before"
    /\ seen' = Nothing
    /\ UNCHANGED <<sysfs, used, idx, ev, found, fileVars, stop, plugin,
                   names, faults>>

CreateDevice ==
    /\ pc = "create"
    /\ Attach(idx)
    /\ pc' = "glob"
    /\ goal' = "after"
    /\ UNCHANGED <<used, idx, known, seen, ev, found, fileVars, stop, plugin,
                   names, faults>>

\* diff: exactly one number is new, and taken for that of the device.
TakeNew ==
    /\ pc = "pair"
    /\ goal = "after"
    /\ \E s \in Zipped, e \in Event :
          /\ s \ known = {e}
          /\ known' = known \cup s
          /\ ev' = [ev EXCEPT ![idx] = e]
          /\ found' = [found EXCEPT ![idx] = seen[e]]
    /\ pc' = "bind"
    /\ seen' = Nothing
    /\ UNCHANGED <<sysfs, used, goal, idx, fileVars, stop, plugin, names,
                   faults>>

\* Mutant: a device that was not found is made once more.
RetryDevice ==
    /\ pc = "pair"
    /\ goal = "after"
    /\ \E s \in Zipped : Cardinality(s \ known) # 1
    /\ pc' = "glob"
    /\ goal' = "before"
    /\ seen' = Nothing
    /\ UNCHANGED <<sysfs, used, idx, known, ev, found, fileVars, stop, plugin,
                   names, faults>>

\* diff finds nothing new, or too much: DeviceError ends the process.
RaiseDeviceError ==
    /\ pc = "pair"
    /\ goal = "after"
    /\ \E s \in Zipped : Cardinality(s \ known) # 1
    /\ Die
    /\ UNCHANGED faults

\* create_datagram_endpoint removes a socket file that is in its way.
Bind ==
    /\ pc = "bind"
    /\ sock' = [sock EXCEPT ![ev[idx]] = idx]
    /\ pc' = "wait"
    /\ UNCHANGED <<sysfs, used, goal, idx, known, seen, ev, found, link, flags,
                   stop, plugin, names, faults>>

\* Mutant: the number of the next device is not limited.
FinishOneMore ==
    /\ link' = IF idx \in Mouse THEN [link EXCEPT ![idx] = ev[idx]] ELSE link
    /\ flags' = flags \cup {f \in Ready : LastOf[f] = idx}
    /\ IF idx > NumMice + NumJs
          THEN pc' = "run" /\ UNCHANGED <<goal, idx>>
          ELSE pc' = "glob" /\ goal' = "before" /\ idx' = idx + 1
    /\ UNCHANGED <<sysfs, used, known, seen, ev, found, sock, stop, plugin,
                   names, faults>>

\* The device is done: a mouse gets its link, the last one a ready file.
Finish ==
    /\ link' = IF idx \in Mouse THEN [link EXCEPT ![idx] = ev[idx]] ELSE link
    /\ flags' = flags \cup {f \in Ready : LastOf[f] = idx}
    /\ IF idx = NumMice + NumJs
          THEN pc' = "run" /\ UNCHANGED <<goal, idx>>
          ELSE pc' = "glob" /\ goal' = "before" /\ idx' = idx + 1
    /\ UNCHANGED <<sysfs, used, known, seen, ev, found, sock, stop, plugin,
                   names, faults>>

\* Mutant: wait_for_device does not compare names.
FindAnyDevice ==
    /\ pc = "wait"
    /\ sysfs[ev[idx]] = found[idx]
    /\ Finish

\* The input that was taken is there and has the name the device was given.
Recognised ==
    /\ sysfs[ev[idx]] = found[idx]
    /\ NameOf[found[idx]] = NameOf[idx]

FindDevice ==
    /\ pc = "wait"
    /\ Recognised
    /\ Finish

\* wait_for_device tries for ever: nothing changes a name or brings an input back.
WaitLonger ==
    /\ pc = "wait"
    /\ ~Recognised
    /\ UNCHANGED vars

Crash ==
    /\ pc # "dead"
    /\ faults < MaxFaults
    /\ faults' = faults + 1
    /\ Die

Restart ==
    /\ pc = "dead"
    /\ stop = "no"
    /\ pc' = "start"
    /\ UNCHANGED <<sysfs, used, goal, idx, known, seen, ev, found, fileVars,
                   stop, plugin, names, faults>>

-----------------------------------------------------------------------------
(* The pod.                                                                *)

StopPod ==
    /\ stop = "no"
    /\ faults < MaxFaults
    /\ stop' = "hook"
    /\ faults' = faults + 1
    /\ UNCHANGED <<sysfs, used, poolVars, fileVars, plugin, names>>

\* preStop runs "uinput_devices.py --cleanup" beside the process.
HookFlags ==
    /\ stop = "hook"
    /\ pc # "dead"
    /\ stop' = "sockets"
    /\ flags' = {}
    /\ UNCHANGED <<sysfs, used, poolVars, sock, link, plugin, names, faults>>

HookSockets ==
    /\ stop = "sockets"
    /\ pc # "dead"
    /\ stop' = "term"
    /\ sock' = Nothing
    /\ UNCHANGED <<sysfs, used, poolVars, link, flags, plugin, names, faults>>

\* The signal ends the process without its cleanup; the grace period may cut
\* the hook short.
Kill ==
    /\ stop \in {"hook", "sockets", "term"}
    /\ stop' = "gone"
    /\ Perish
    /\ plugin' = "waiting"
    /\ names' = Nothing
    /\ UNCHANGED <<used, fileVars, faults>>

NewPod ==
    /\ stop = "gone"
    /\ stop' = "no"
    /\ UNCHANGED <<sysfs, used, poolVars, fileVars, plugin, names, faults>>

-----------------------------------------------------------------------------
(* The mouse plugin.                                                       *)

LinksTo(e) == {m \in Mouse : link[m] = e}

\* Mutant: what has a name keeps it.
DiscoveredOnce ==
    [e \in Event |-> IF e \in Devices /\ LinksTo(e) # {} /\ names[e] = None
                       THEN CHOOSE m \in LinksTo(e) : TRUE
                       ELSE names[e]]

\* discoverInputs: of several links to one device one gives the name, the last
\* in the listing's order.  Nothing is ever taken out.
Discovered ==
    [e \in Event |-> IF e \in Devices /\ LinksTo(e) # {}
                       THEN CHOOSE m \in LinksTo(e) : TRUE
                       ELSE names[e]]

\* The shell waits for the ready file, then starts the plugin.
StartPlugin ==
    /\ plugin = "waiting"
    /\ stop # "gone"
    /\ "mice" \in flags
    /\ plugin' = "running"
    /\ names' = Discovered
    /\ UNCHANGED <<sysfs, used, poolVars, fileVars, stop, faults>>

\* devCheck counts directories in sysfs, of which these mice have none, so it
\* discovers again whenever anything is known, and never otherwise.
Rediscover ==
    /\ plugin = "running"
    /\ names # Nothing
    /\ names' = Discovered
    /\ UNCHANGED <<sysfs, used, poolVars, fileVars, stop, plugin, faults>>

CheckNothing ==
    /\ plugin = "running"
    /\ names = Nothing
    /\ UNCHANGED vars

-----------------------------------------------------------------------------
Pool ==
    \/ Start \/ GlobEvents \/ Refresh \/ CreateDevice \/ TakeNew
    \/ RaiseDeviceError \/ Bind \/ FindDevice \/ WaitLonger \/ Restart

Pod == HookFlags \/ HookSockets \/ Kill \/ NewPod

Plugin == StartPlugin \/ Rediscover \/ CheckNothing

Next ==
    \/ \E a \in App : AppOpen(a)
    \/ \E e \in Event : AppClose(e)
    \/ Pool \/ Pod \/ Plugin \/ Crash \/ StopPod

Spec == Init /\ [][Next]_vars

\* The process, the kubelet and the plugin run; a dead container is restarted,
\* a stopped pod ends and is replaced.
Fairness == WF_vars(Pool) /\ WF_vars(Pod) /\ WF_vars(Plugin)

FairSpec == Spec /\ Fairness
-----------------------------------------------------------------------------
TypeOK ==
    /\ sysfs \in [Event -> Owner \cup {None}]
    /\ used \subseteq App
    /\ pc \in {"start", "glob", "pair", "create", "bind", "wait", "run", "dead"}
    /\ goal \in {"main", "before", "after"}
    /\ idx \in Index
    /\ known \subseteq Event
    /\ seen \in [Event -> Owner \cup {None}]
    /\ ev \in [Index -> Event \cup {None}]
    /\ found \in [Index -> Owner \cup {None}]
    /\ sock \in [Event -> Index \cup {None}]
    /\ link \in [Mouse -> Event \cup {None}]
    /\ flags \subseteq Ready
    /\ stop \in {"no", "hook", "sockets", "term", "gone"}
    /\ plugin \in {"waiting", "running"}
    /\ names \in [Event -> Mouse \cup {None}]
    /\ faults \in Nat

\* Devices the process is done with.
Done(i) == pc # "dead" /\ (i < idx \/ pc = "run")

\* Whatever applications create and close between its listings, a device that
\* the pool is done with has endpoints for an input of its name: the socket of
\* that event number drives the device unless the hook took the socket away, and
\* the link of a mouse points there.  The input is the device's own as long as
\* the pool has taken no device of an application, one with the same name, for
\* this one or an earlier one.
EndpointsDriveTheirDevices ==
    \A i \in Index : Done(i) =>
        /\ NameOf[found[i]] = NameOf[i]
        /\ (\A j \in 1 .. i : found[j] \notin App) => sysfs[ev[i]] = i
        /\ sock[ev[i]] = i \/ stop # "no"
        /\ i \in Mouse => link[i] = ev[i]

\* The numbers of the devices the pool is done with.
BoundNumbers == [i \in Index |-> IF Done(i) THEN ev[i] ELSE None]

Numbered == INSTANCE NumberedDevices
                WITH owner <- sysfs, bound <- BoundNumbers, Name <- NameOf

\* Listing sysfs twice around the making of a device, and the comparison of
\* names, do what a search by name among the numbers not yet bound would do,
\* whatever applications and faults come in between: devices are bound in order,
\* each to a number of its own, and where no application uses a name of the
\* pool's that is the number the kernel gave the device.
NumbersAreLearned == Numbered!Spec

\* Once the process has cleaned up, a ready file means that all devices it
\* stands for are done, not that an earlier process made them.
ReadyFileIsEarned ==
    pc \notin {"start", "dead"} =>
        \A f \in flags : \A i \in 1 .. LastOf[f] : Done(i)

\* The process waits for ever for an input with another name or one that is
\* gone: that of an application, which it took for its device's.
Mistaken == pc = "wait" /\ ~Recognised

\* After any DeviceError, kill or stop of the pod the pool is complete in the
\* end, unless it has taken the device of an application for its own.
PoolSettles == <>[](pc = "run") \/ <>[]Mistaken

\* The three paths that Allocate hands out for a mouse (device, link and
\* socket) lead to one device.
Allocatable(m) ==
    \E e \in Event :
        names[e] = m /\ link[m] = e /\ sysfs[e] = m /\ sock[e] = m

\* Whatever happened to the pool while the plugin ran, once it stays complete
\* all mice that are bound to their own device can be allocated for ever, unless
\* the plugin found none when it started, which only a ready file that had
\* outlived the process that made it lets it do.
PluginFollowsLinks ==
    <>[](pc = "run") =>
        \/ <>[](\A m \in Mouse : found[m] = m => Allocatable(m))
        \/ <>[](names = Nothing)

\* "INFO: Sidecar is ready.": the plugin starts when the mice of the process
\* that runs are done.
SidecarIsReady ==
    [][plugin = "waiting" /\ plugin' = "running" =>
          \A m \in Mouse : Done(m)]_vars
=============================================================================
