# Selkies VDI: specifications and proofs

TLA+ models of the concurrent parts of Selkies VDI, the TLC configurations that
check them on small instances, and TLAPS proofs of their main safety
properties for every instance.  Paths below are relative to `src/`;
`udp/` stands for `images/uinput-device-plugin/`.

Contents

1. The system
2. Modules
3. From code to model
4. Runs
5. Bounds
6. Fairness
7. Disagreements between code and comments
8. Proofs
9. What is only model-checked, and what is not modelled
10. Plan

## 1. The system

Selkies VDI is mostly container images and Kubernetes manifests.  A pod broker
(not in this repository) renders the templates of `manifests/brokerapp-base` and
starts one session pod per user.  The pod's containers (X server, desktop or
application, WebRTC or Xpra streaming, PulseAudio, watchdog, recording) meet
through files in `/var/run/appconfig`, an X server socket and localhost.
DaemonSets prepare the nodes and give session pods input devices.  The logic of
its own is small and concentrated in the programs below.

### Uinput monitor and helper (modelled: `UinputMonitor`)

Sources: `udp/cmd/uinput_monitor`, `udp/cmd/uinput_helper`,
`udp/pkg/uinput/{host_api_handler,udev,fsnotify,docker,types}.go`.

- *State.* One unbuffered Go channel of events; in `HandleMonitorEvents` the
  group being collected (`groupItem`), the time of the previous group's trigger
  and `devNumberMap`; the goroutines started for a device; outside the process,
  the sockets in the host directory, the containers' `devices.allow` lists and
  the nodes in their `/dev/input`.
- *Operations.* A helper in each container watches `/dev/uinput` with inotify
  and calls `UinputTriggerOpen` or `UinputTriggerClose`; `StartUdevMon` scans
  `udevadm monitor`; the loop groups events, flushes a group when more than
  20 ms have passed since the trigger of the previous one, and starts one
  goroutine per device and container, which writes the cgroup file and then runs
  `mknod` or `rm -f` inside the container.
- *Hard.* RPC handlers and scanner block on the channel in any order; triggers
  replace each other in the group; the caller is looked up by a socket that
  another container may mount too; goroutines overtake each other; calls
  into Docker fail half way; the process may die and its sockets are then
  recreated while containers still mount the old ones.
- *Correct when* access goes no further than the containers that mount a socket
  on which an open was reported (and their pods in pod mode); what is granted
  can be revoked; every device event is dispatched in its turn; helpers are not
  blocked for ever; a trigger is acted upon.

### Uinput device plugin (modelled: `DevicePlugin`)

Sources: `udp/cmd/uinput_plugin`, `udp/pkg/uinput/{manager,beta_plugin}.go`.

- *State.* `inputDevices` (or `controlMounts`), the gRPC server, its socket in
  the kubelet's plugin directory, the handlers of `ListAndWatch`; on the other
  side the kubelet's connection and what it was sent.
- *Operations.* `Start` discovers devices, `Serve` listens and registers, then
  checks every second that the socket exists and every ten that the number of
  devices is what it was; otherwise it stops the server and begins again.
  `ListAndWatch` sends the devices once.  `Allocate` looks devices up.
- *Hard.* Kubelet restarts remove the socket; a handler whose connection is gone
  lives on and may stop a later server; two discovery functions count
  different things; the process is killed and starts with an empty map.
- *Correct when* what the kubelet was told can be allocated; a stopped server is
  noticed; a device that stays is advertised; the plugin does not restart for
  ever.

### Session watchdog (modelled: `XWatchdog`)

Sources: `images/watchdog/{entrypoint.sh,xserver_watchdog.py,shutdown.sh}`, and
the ready flag of `images/xserver/entrypoint.sh`.

- *State.* The flag file, the wait counter, two X connections, `last_event_time`,
  the samples `idle_ttl`, `timeout_ttl` and `last_idle_ttl`, `is_idle`,
  `running`, the record context; the session at the broker.
- *Operations.* `start` records input in one thread and strokes; `monitor`
  samples twice a second in another, runs `on_idle`, and on expiry
  `on_timeout` (which is `shutdown.sh`) and `stop`; the container is restarted
  when it exits.
- *Hard.* Two threads share fields without a lock; callbacks take arbitrary
  time between a sample and its use; the recording thread may die alone; the X
  server may stop at any point; the deletion may fail.
- *Correct when* expiry agrees with the time since the last input as sampled;
  `on_idle` runs once per idle period; an abandoned session is deleted; an active
  one is not.

### Uinput device pool (modelled: `DevicePool`)

Sources: `udp/python/uinput_devices.py`, the pod and the mouse plugin of
`udp/daemonset.yaml`.

- *State.* The registry's map, which `refresh` only adds to; the devices made
  so far with their `ev_name`; one socket per device, a symlink per mouse,
  two ready files; on the other side the plugin's map, which follows the
  symlinks.  Sockets, links and ready files lie on the node and outlive the pod.
- *Operations.* `main` cleans up, then makes one device after the other:
  refresh, create, refresh, and the one new number is taken for the device's;
  `wait_for_device` compares names; then link and ready file.  The preStop
  hook runs the clean-up beside the process.
- *Hard.* Applications make and close devices between the two listings, under
  names that may be the pool's; a listing is two globs zipped together; files of
  an earlier life are still there when the plugin looks for them; SIGTERM skips
  the `finally` clause.
- *Correct when* each socket and link leads to a device of the name it was made
  for, and to that very device unless an application uses the name; a ready
  file stands for devices that exist, the pool is completed after any
  failure, and the plugin hands out paths that lead to one device.

### Selkies Connector (modelled: `Connector`)

Source: `images/app-proxy/cli/client.go`.

- *State.* Per local connection: the client's socket in both directions, the
  websocket in both directions, the handler's position in `File2WS`, the
  reading goroutine's, their context.
- *Operations.* `handleLocalConnection` dials and copies from the client to the
  websocket; a second goroutine copies back; the deferred calls close both.
- *Hard.* Two goroutines share the websocket and the context; either side may
  close, half-close or reset at any point; close frames are answered by
  the library; a failed dial of any connection ends the process.
- *Correct when* each direction delivers what was written in order and without a
  gap; an orderly end loses nothing; both goroutines end.

### Stream recording (modelled: `Recorder`)

Sources: `images/webrtc/record.sh` and the preStop hook in
`jsonpatch-deploy-recording.yaml.tmpl`.

- *State.* The script's variables; the gst-launch processes, known to it only
  through `pgrep`; the directory on the node and the note of it for the hook.
- *Operations.* The script waits for the session, makes and notes the directory,
  then passes every five seconds over the desktop, or over the windows of Xpra,
  and starts what is missing and restarts what has another size.  The hook
  removes the noted directory when the pod is deleted.
- *Hard.* Sizes change between measuring and starting; `pgrep` still lists a
  process that is ending; recordings crash by themselves; the container
  restarts; the hook runs beside a script that goes on recording.
- *Correct when* a screen has one recording and in the end one of its size, and
  the pod's data, and no other's, are removed with it but for named cases.

### Session pod start-up (not modelled as a whole)

The entrypoints of `images/{xserver,desktop,app-streaming,webrtc,xpra,pulseaudio}`
and `images/watchdog/startup.sh` wait in shell loops for each other's flag files.
The flags whose readers have more to do than to wait are in the models of these:
`xserver_ready` in `XWatchdog`, `xpra_ready` in `Recorder`.
`session_metadata_ready` is touched whether or not the metadata were fetched
(`startup.sh:34`); its readers are applications outside the repository.

### GPU node initialisation (not modelled)

Shell inside `manifests/node/*.yaml`: driver download with a cache, a reboot
marker.  Sequential scripts.

### No behaviour of their own (not modelled)

Templates of session pods (declarative, processed by a broker that is elsewhere);
`udp/pkg/uinput/api.pb.go` (generated); the connector's web page and its vendored
libraries; Dockerfiles, Cloud Build, Terraform.

### How they interact

    device pool --sysfs--> device plugin --ListAndWatch--> kubelet --mounts--> session pod
                               ^ control sockets                                   |
                               |                                      opens /dev/uinput
    kernel --udevadm--> uinput monitor <--UinputTrigger-- helper <----inotify-------+
                               |
                               +--cgroup, mknod--> containers

    X server --flag file, RECORD--> watchdog --DELETE--> pod broker --> session pod

    record.sh --gst-launch--> node's disk <--preStop hook--  (note in the container)

    local client <--TCP--> connector <--websocket--> remote side

## 2. Modules

| Module | Role |
|---|---|
| `UinputMonitor` | helpers, scanner, channel, grouping loop, container goroutines, crash and restart of the monitor; the kernel and the applications as its environment |
| `DeviceEventFifo` | abstract specification: device events between kernel and dispatcher are one FIFO queue; an event leaves it only by being dispatched, and only the death of the monitor drops any |
| `UinputMonitorOrder` | `UinputMonitor` with a record of the device events dispatched, which the refinement needs |
| `MCUinputMonitor`, `MCUinputMonitorOrder` | instances for TLC: container names and their pods; the symmetry of sockets |
| `UinputMonitorProofs` | type correctness and `SendersWait` |
| `UinputMonitorGrantProofs` | where grants can be, that they can be revoked, that permissions and nodes agree |
| `UinputMonitorOrderProofs` | `UinputMonitorOrder` implements `DeviceEventFifo` |
| `DevicePlugin` | one plugin process and the kubelet |
| `MCDevicePlugin` | instances for TLC |
| `DevicePluginProofs` | type correctness, allocation, noticing a stopped server and a restarted kubelet |
| `XWatchdog` | the watchdog container, the X server, the user, the broker's answer |
| `XWatchdogProofs` | type correctness, expiry, idle detection, active users |
| `NumberedDevices` | abstract specification: devices are made in order, and each is found by its name among the numbers not yet bound; the end of the process takes all back |
| `DevicePool` | the process that makes the pool, its pod, applications on the node, the mouse plugin that follows the links |
| `MCDevicePool` | instances for TLC |
| `DevicePoolProofs` | type correctness, endpoints, ready files, `DevicePool` implements `NumberedDevices` |
| `ByteStream` | abstract specification: one direction of a connection delivers in order and without a gap, and may stop at any point |
| `Connector` | one connection: client, handler, reading goroutine, websocket, remote side |
| `ConnectorProofs` | type correctness, `Connector` implements `ByteStream` both ways, orderly ends lose nothing |
| `Recorder` | record.sh, the recordings, the container and its preStop hook, the screens |
| `RecorderProofs` | type correctness, one recording per screen, the causes of kills and of data left behind, whose data is removed |

Operators whose comment begins with "Mutant:" are variants of the definition that
follows them, in which a plausible mistake has been made.  No specification uses
them; each shows that a property notices the mistake.

## 3. From code to model

`PROJECT.json` ("map") gives the lines of every definition.  The main choices:

**UinputMonitor.**

- The unbuffered channel is `sendq`: the senders blocked on it in arrival order,
  which is the order Go serves them in.  A helper's own event is `trigger[h]`,
  the scanner's is `uevent`.  A helper makes one call at a time because
  `StartUdevDeviceWatch` waits for the answer before it reads the next inotify
  event.
- `ctl` is the control socket that a container mounts.  The kubelet gives a
  socket to one container per resource, but the pod and the container resource
  advertise the same sockets (`daemonset.yaml:201-275`), so a helper in pod mode
  and one in container mode may mount one (`StartContainer`).  The call carries
  the mode; the container is whichever of those that mount the socket Docker
  lists first (`Mounting`, `docker.go:17-32`), so the trigger of one may name the
  other.
- The loop's iteration receives at most one event (`ReceiveTrigger`,
  `ReceiveDevice`, `ReceiveNothing`, the last being the `default` branch with its
  5 ms sleep) and ends with the window test (`WindowTest`), which is part of the
  same action.  Dispatch goes device by device (`DispatchDevice`), because other
  processes run between the lookups of two devices; `getDeviceInfo` is called
  for each target container and may fail for some (`Informed`); `NewGroup` stores
  the trigger's time as that of the previous group.
- Time is kept as ages, cut off beyond `Window`: the code compares
  `time.Since(prev)` with the window and does nothing else with it.
- The kernel derives the number of `eventN` or `jsN` from the name, so a
  major:minor pair is abstracted to its device; the pair 0:0, which a Go map
  returns for a missing key, is `NoNumber`.
- `Fault` names calls that may fail: finding the container by its mount, listing
  the pod's containers (the code then falls back to the one container), reading
  sysfs, writing the cgroup file, running the command in the container.  For the
  last two the code logs and goes on, and so does the model.
- `Crash` loses everything in memory, the children included.  `main` removes and
  recreates the sockets, so a mount that existed becomes `stale`: it still names
  the old inode, and its helper's calls fail.
- A device's sysfs entry (`owner`) exists while the application holds its file.
  That closing `/dev/uinput` destroys the device is the driver's behaviour.
- `overlapped` is a history variable, which no guard reads: the places (a container
  and a device) whose last goroutines met one of the other kind still at work.
  `DispatchDevice` marks a place when it starts a goroutine there beside one that
  does the opposite; the mark goes when goroutines start where none is at work.

**DevicePlugin.**

- A directory that vanishes while it is walked ends `discoverInputs` with an error
  and leaves what was found so far in the map; `main` and `Serve` then try again
  (`DiscoverPart`).
- `inputDevices` only grows within a process: `discoverInputs` adds and never
  deletes.  It also follows symlinks in `/dev/input` (`Linked`), which
  `discoverNumInputs` does not count.
- `ListAndWatch` sends once and then loops for ever.  A handler that has not yet
  sent when its connection goes (`unsent`) fails its send, and stops
  *whichever* server `uim.grpcServer` then names; one that has sent (`idle`)
  is left behind.
- Stopping the gRPC server closes its listener, which unlinks the socket.
- Handlers read the map without the mutex that discovery writes it under.  Go's
  runtime may end the process when it sees that (`MapRace`); otherwise the
  reader gets the map before or after the write.

**XWatchdog.**

- A tick is half a second, the monitor's sleep.  `Ttl` takes whole seconds off a
  limit and is cut off at 0, as in the code.
- `monitor`'s loop is split where the code calls out (`on_idle`, `on_timeout`,
  `stop`) or sleeps: between these any amount of time may pass, and the recording
  thread may stroke.
- `start` is split between testing for RECORD, creating the context, and enabling
  it.  `stop` disables the context if there is one: before it is enabled this has
  no effect, and on a connection that has broken it raises.
- The two readings of `WATCHDOG_TIMEOUT`, as a number of seconds to wait for the X
  server (`WaitLimit`) and as the session timeout (`Timeout`), are separate
  constants.
- `input` (when the user was last active), `unheard` (the last input reached no
  recording) and `strokedSinceSample`, `strokedSinceIdle` are history variables: no
  guard reads them.  A new watchdog counts from its own start (`Connect`), however
  long the user has been still, so it owes nothing to input before it.

**DevicePool.**

- Devices are numbered by the kernel with the lowest free number (`Attach`).  An
  owner stands for the input directory `inputN` of a device, a number that is
  never used twice.  Names are shared: all mice have one and all joysticks
  another (`NameOf`; `uinput_devices.py:297`, `334`, `354`), and an application's
  device may have either (`AppName`).  `wait_for_device` compares the name of the
  input that was taken (`found`) with the pool's, and nothing else
  (`Recognised`): an application's device of that name passes.
- `refresh` lists `event*` and their `uevent` files by two globs and zips them.
  `GlobEvents` is the first, `Zipped` what the second leaves of it: when there
  are fewer devices by then, an arbitrary part.
- A process that ends closes its devices and leaves its files (`Die`).  The hook
  is two actions beside a process that may still be making devices.
- The plugin is a shell that waits for the ready file and then discovers.  Its
  check of the device count never agrees with what it knows, because these mice
  have no directory where it counts, so it discovers again every time, unless it
  knows nothing (`Rediscover`, `CheckNothing`).
- `NumberedDevices` is what the listings stand for: a search by name among the
  numbers that no device of the pool is bound to yet.  Since the devices before
  are bound, this is the device's own number unless an application uses the name.
  Its `owner` is `sysfs`, its `bound` the numbers of the devices that the
  pool is done with (`BoundNumbers`).
- The pod's other plugins and the datagrams, which pass one by one to the
  device, are left out.

**Connector.**

- Chunks are numbered: the k-th one that a side writes is k, and `Close` (0) is
  a close frame.  `ByteStream` then says order and completeness of prefixes.
- What a reset takes from a socket's buffer is a choice (`Keep`).
- `Write` waits for room, as a write without a deadline does; `SendClose` does
  not, since its failure by deadline is only logged.
- The handler's control is that of huproxy's `File2WS`, an external function
  modelled by what it does with the context and the websocket: a failed read or
  write returns, the end of the client sends a close message.
- Other connections appear as `DialFails`: `log.Fatalf` ends the process.

**Recorder.**

- A recording has the size the script remembers for it (in `REC_RES` or
  `WINDOW_SIZE`) and the size it captures; `found` is how many processes `pgrep`
  listed, killed ones included.
- Desktop and Xpra differ in the order of measuring and `pgrep`, so their passes
  have actions of their own.
- `AwaitSession` chooses the directory: with the session's data from the second
  request it is the session's own; without an answer user and start are empty and
  it is the root of all recordings (`record.sh:28`); from an answer that lacks
  the fields `jq` makes `null/null`, a directory pods share (`Shared`).
- The script is the container's first process and ignores SIGTERM, so it goes on
  beside the hook until the pod is killed.

## 4. Runs

| Run | Configuration | Shows |
|---|---|---|
| `uinput_isolation` | 3 containers, a helper in pod mode and one in container mode, 2 sockets that both may mount, all faults, a crash | `GrantsFollowTheSocket`: through helper, call, lookup, queue, group and goroutine no access strays beyond the containers, and in pod mode the pods, that mount the socket on which an open was reported.  `TypeOK` |
| `uinput_permissions` | 2 helpers in container mode, 2 sockets, 1 device, 2 opens, lookups that fail | `GrantedIsMemorised`: every granted number is still known to the removal.  `PermissionsMatchNodes`: whatever triggers replaced each other in the groups, a container is allowed a device just when it has its node, except while goroutines are at work there or after an addition and a removal overlapped |
| `uinput_progress` | 1 helper, 1 device, 2 opens, a crash, failing lookups | `CallReturns`: no helper is blocked for ever.  `GroupIsFlushed`: a trigger that was received is acted upon.  `DeviceEventsInOrder`: the monitor implements `DeviceEventFifo` |
| `uinput_creator` | 2 helpers, 1 device | counterexample to `AddsOnlyForCreator` (section 7) |
| `uinput_memorised` | 1 helper, 1 device | counterexample to `RemovesKnowTheNumber` (section 7) |
| `watchdog_session` | idle 2 s, timeout 3 s, slow callbacks, failing deletions, restarts, X server with or without RECORD that stops once | `ExpiryAgreesWithSample`, `OnIdleOncePerPeriod`; `ActiveUserIsKept`: the session is given up only after the user was still for the timeout, but for input that no recording heard or that came too late; `AbandonedSessionIsDeleted`: every session nobody uses is deleted in the end.  `TypeOK` |
| `plugin_settles` | 3 devices that come and go, 1 of them linked, 2 kubelet restarts, 1 death, map races | `AdvertisedAreKnown`, `StoppedServerIsNoticed`; `RestartedKubeletIsNoticed`: a plugin that finds its socket is registered with the kubelet that is up; `NewDeviceIsAdvertised`, `PluginSettles`: the plugin gets there again after anything that happens to it.  `TypeOK` |
| `pool_settles` | 2 mice, 1 joystick, 2 applications, one of which uses the mice's name, a kill of the process or a stop of the pod | `EndpointsDriveTheirDevices`, `ReadyFileIsEarned`; `NumbersAreLearned`: the pool implements `NumberedDevices`; `PoolSettles`; `PluginFollowsLinks`: pool and plugin together hand out working devices.  `TypeOK` |
| `connector` | 3 chunks each way, room for 2, closes of either side, a break, a failed dial elsewhere | `UploadInOrder`, `DownloadInOrder`: both directions implement `ByteStream`.  `UploadArrives`, `DownloadArrives`: orderly ends lose nothing.  `ConnectionEnds`, `EndsOnceClientWrites`: no goroutine is left behind.  `TypeOK` |
| `recording` | the desktop or 2 windows, 3 changes, a crash, a slow end, a restart, the hook | `OneRecordingPerScreen`; `LeftoversHaveACause`: data that a pod without a restart leaves behind has one of three causes; `OthersAreKept`; `KilledForCause`: a recording is told to stop only for another size, or beside one that was slow to end; `RecordingSettles`: every screen is recorded at its size in the end.  `TypeOK` |
| `plugin_linked` | 1 device, 1 linked device | counterexample to `RestartsForNewDevices` (section 7) |
| `pool_stale` | 1 mouse, 1 joystick, a kill or a stop | counterexample to `SidecarIsReady` (section 7) |

TLC's deadlock check is on except in `connector` and `recording`, where a finished
connection, a process that has ended and a pod that is gone really stop.  Loops
and clocks keep the others going.

## 5. Bounds

Only the environment is bounded; nothing the code does is cut short.

- `MaxOpens`, `MaxCrashes`: how often `/dev/uinput` is opened and the monitor
  dies.  Two opens are needed for triggers of two containers, or an open and a
  close and another open, to meet in one group; a trigger replaced by a second is
  the only interference there is, since a group keeps one.  `uinput_isolation` has
  one open, so that whatever reaches a container must come from that one's report.
  One crash is enough for a stale mount beside lost memory.
- Two helpers and one bystander in the pod of one: a grant can go to the creator,
  to another opener, to another mounter of the socket, to its pod, or to a
  container that has nothing to do with it.  With two sockets the helpers mount
  the same one or different ones.  One device, opened twice, is announced up to
  four times: events of both types queue up and are dispatched in groups with one
  or several others.
- `Window = 1`: ages 0, 1 and 2 are "within", "at" and "beyond" the window, and
  the test is a strict comparison.
- `MaxAppear`, `MaxVanish`, `MaxKubelet`, `MaxDeaths`, `MaxHandlers`: two of each
  allow one to be followed by another while a handler of the first connection
  lives.  `MaxHandlers` caps a count of handlers; `DevicePlugin` tells none, one
  and several apart.
- `Idle = 2`, `Timeout = 3`: both limits are met at a sample, and the idle limit
  is crossed between two samples within a period; the sum of half seconds exceeds
  the limit by an odd and by an even number of ticks.  `Horizon`, the largest age,
  is beyond both limits.  `MaxXStops = 1`.
- `DevicePool`: two mice can be taken for each other, and the joystick has a ready
  file of its own; one application's device can be taken for the pool's and a
  second one can hide a number.  One of them has the mice's name and the other a
  name of its own, so that the comparison of names lets an application's device
  pass for a mouse and stops it for the joystick, and stops the other.  `MaxEvent
  = 4` is a number for each of these.  `MaxFaults = 1`: the files of one earlier
  life meet the next one; a `DeviceError` ends the process as often as it likes.
- `Connector`: with `MaxUp = MaxDown = 3` and `Space = 2` a writer can be blocked
  with one chunk in hand and another behind it.
- `Recorder`: two windows, since a pass over one must not disturb the other;
  `Limit = 2` with sizes up to 3; `MaxChanges = 3` allows a size to change, to
  change back and a window to go.  `MaxSlow = 1`: a killed process that outlives
  the five seconds makes `pgrep` list two, whereupon the script kills the healthy
  one; without a bound this could repeat for ever.

- `uinput_isolation` and `uinput_permissions` treat the two sockets as
  interchangeable (`SYMMETRY`): the specification names none, and these runs check
  invariants only.

The theorems of section 8 do not depend on any of these.

## 6. Fairness

- `UinputMonitor`: weak fairness of each goroutine's steps (`Loop`,
  `ScanUevent`, every task, every helper, every socket's `Listen`), of the restart
  of a dead process (a DaemonSet's), and of time.  The Go scheduler runs every
  runnable goroutine, and the loop polls.  Applications and crashes have none.
- `DevicePlugin`: weak fairness of the process, of failing sends and of the
  kubelet's restart (run by the node's service manager).  `SendDevices` and
  `CallListAndWatch` have strong fairness: they follow within milliseconds while the
  checks that disable them wait a second or ten, so they are not overtaken every
  time.
- `XWatchdog`: weak fairness of both threads, of the entrypoint, of time and of
  the X server's restart.  `OnTimeout(TRUE)` and `GiveUpOnX(TRUE)` have strong
  fairness: the broker does not refuse every deletion for ever.
- `DevicePool`: weak fairness of the process (with its restart), of the pod's end
  and replacement, and of the plugin.  Applications owe nothing.
- `Connector`: weak fairness of the two goroutines.  Neither the client, nor the
  remote side, nor the network owes anything, so a handler may stay in a call
  without a deadline; `ConnectionEnds` says so.
- `Recorder`: weak fairness of the script, of its restart and of the end of each
  killed process.  Screens, windows and crashes owe nothing.

Some liveness properties name the one case in which they fail, and no other:

- `Hung` (`XWatchdog`): `stop` before the context is enabled has no effect, `start`
  then never returns, `asyncio.wait` waits for both threads, and if the deletion
  failed that time nobody tries again.
- `Overlooked` (`DevicePlugin`): the check compares counts, so a device that
  takes the place of one that has gone is not seen.
- `Mistaken` (`DevicePool`): between the two listings the pool's device went
  unseen and an application's was the only new one; if it has another name, or is
  gone by then, `wait_for_device` compares names for ever.
- `PluginFollowsLinks` speaks of mice that are bound to their own device, not to an
  application's of the same name; its last disjunct is a plugin let in by a stale
  ready file, which knows nothing, and with nothing known never discovers again.
- `Mistaken` (`Recorder`): the size was changed between measuring and starting,
  and changed back; the recording runs at another size than the script believes.

## 7. Disagreements between code and comments

Each is a run in which TLC finds a counterexample to what a comment says.

- **The creating container** (`uinput_creator`).  `host_api_handler.go:136`: "When
  device mode is 'pod', add device to all containers, otherwise just the creating
  container."  The loop applies a group's devices to the container of the group's
  latest trigger; when two containers open `/dev/uinput` within one window, the
  device of one is added to the other.
- **The memorised numbers** (`uinput_memorised`).  `host_api_handler.go:95`: "Use a
  map to memorize the major and minor numbers since we won't know them when
  removing the cgroup permission."  They are put there only by an addition; when
  a close replaces the open within the window, the devices are removed as 0:0.
- **New devices** (`plugin_linked`).  `manager.go:365`: "This is
  checking if the plugin socket was deleted and also if there are new devices
  found. If so, stop the grpc server and start the whole thing again."  Only
  counts are compared, by two functions that count different things: a device
  known by its symlink makes every check restart the server.  (That a device in
  the place of another is not noticed is `Overlooked`, section 6.)
- **The sidecar** (`pool_stale`).  `daemonset.yaml:132-133`: the plugin's
  container waits for the ready file and announces "INFO: Sidecar is ready."  The
  file lies on the node and outlives the process that made it: after a crash
  within the pod, until the restarted process cleans up, or after a pod that was
  killed.  The plugin then starts before the process that runs has made a mouse.

Further behaviours are in the models as they are:

- A watchdog whose X server lacks RECORD never strokes and deletes a session in
  use (`unheard`).
- Two containers that were given the same control socket are taken for each other:
  the grant for one that opened `/dev/uinput` may go to the other, which did not
  (`Mounting`); `GrantsFollowTheSocket` says how far that can go.
- An application's device with the name of the pool's mice or joysticks may be
  bound to an endpoint of the pool (`EndpointsDriveTheirDevices`).
- Without session data from its second request `record.sh` notes a directory that
  pods share, and the hook removes the recordings of others; `OthersAreKept`
  excuses that case only.
- The hook, "Remove recording data from disk when pod shuts down"
  (`jsonpatch-deploy-recording.yaml.tmpl:120`), leaves data behind when the script
  notes the directory after the hook has looked, when a recording opens a file
  after `rm` has emptied the directory, or when the grace period ends before the
  hook does; `LeftoversHaveACause` says that these are all, in a pod that never
  restarted.  A restarted container has also forgotten its earlier directory.

## 8. Proofs

Assumptions on the constants are those of `UinputAssumption`, `NoneAssumption`,
`PluginAssumption`, `WatchdogAssumption`, `PoolAssumption`, `ConnectorAssumption`
and `RecorderAssumption`: sets included in each other, numbers
that are numbers, names that differ.

**`UinputMonitorProofs`.**  `TypeCorrect` is `Spec => []TypeOK`.  `TypeOK` is not
inductive: `ReceiveDevice` appends `uevent` to the group, and that it is an event and
not `None` depends on the queue.  `SendersWait` says so: whoever is in `sendq` holds an
event to send, nobody is in it twice (taking one out leaves no second entry with
nothing to send), and a group being dispatched has a trigger.  `TypeInv` is their
conjunction; two lemmas (`SenderJoins`, `SenderLeaves`) treat the queue, and every
other action leaves it alone.  `SendersCorrect` states the second part.

**`UinputMonitorGrantProofs`.**  `GrantsCorrect` (`GrantsFollowTheSocket`): a grant
is traced back through goroutine, group, trigger and inotify queue to an opener;
`GrantInv` says that at each of these stages the container named mounts the socket
of one that has opened `/dev/uinput`, in the mode of that one's report
(`ReportedBy`), or is a target of such a container (`OpenersOnly`, `TasksReached`,
`StateReached`: stage by stage, so that each action moves one fact to the next).
`SocketsMounted` says that whoever opened mounts a socket, and `RecordsStay` that
neither this nor the record of openers is ever undone.
`MemoryCorrect`: `GrantedIsMemorised` becomes inductive together with
`AddsUseOwnNumber`, that a goroutine adding a device carries that device's own
number; nothing but a crash removes from the map, and the goroutines of an addition
are started in the step that writes it.

`PermissionsFollow` is `PermissionsMatchNodes`.  A goroutine writes the cgroup first
and runs its command in the container later, so `WritesAreDone` says that between
the two the cgroup is already as it means it to be.  That holds because goroutines of
both kinds at one place are marked (`ClashesAreMarked`).  A removal that denies 0:0
would part permission and node; `NothingToDeny` says that it meets no permission,
because a device that is allowed is memorised (`MemoryCorrect`).  `NumbersAreOwn`
keeps the numbers to those of the device and 0:0.

**`UinputMonitorOrderProofs`.**  `EventsStayInOrder`: `OrderSpec => Fifo!Spec`, with
`pending` mapped to the group's devices, the event the scanner holds, and
`udevadm`'s output, in that order, `dispatched` to the record and `up` to a process
that is not down.  `OrderSpec` is `Spec` with that record, which no action reads.
`NextQueueStep`: a step that dispatches takes the head of the queue, one that does
not leaves the queue alone, appends to it, or is the end or the restart of the
process.  What that takes is facts on concatenation (an
element may pass from the head of the last part to the middle, from the middle to
the end of the first) and `SendersWait`.

**`DevicePluginProofs`.**  `PluginTypeCorrect`, `AllocationsSucceed`
(`AdvertisedAreKnown`) and `StopsAreNoticed` (`StoppedServerIsNoticed`), from
`PluginInv`.  The two strengthenings: a dead process and a connection that is not
there have nothing advertised (`DeadIsForgotten`), so that the empty map of a
new process breaks no promise; and a socket that exists belongs to a server
that runs (`SocketIsServed`), because whoever stops it closes its listener.
`RestartsAreNoticed` (`RestartedKubeletIsNoticed`) rests on `ServedIsConnected`, the
same for a kubelet that is starting: it removes the socket before it is up, and a
registration that fails leaves no server behind to check.

**`XWatchdogProofs`.**  `WatchdogTypeCorrect`; `ExpiryCorrect`
(`ExpiryAgreesWithSample`) from `SampleHolds`: as long as no stroke came since the
sample, `timeout_ttl` and the time since the last event together make up the
limit, so that a time to live of 0 means that the limit has passed; `IdleCorrect`
(`OnIdleOncePerPeriod`) from `IdleHolds`: after a run of `on_idle` without a stroke
both samples, the last and the one before, are 0 whenever they are compared, and the
test asks that they differ; `ActiveUsersKept` (`ActiveUserIsKept`) from `HeardHolds`,
which needs no limit: while a monitor runs, the last event it knows of is no older
than the last input, unless nothing recorded that input or the callback has not had
it.  At the moment of expiry `ExpiryCorrect` turns the one into the other.  All hold
for any limits and any length of callback.

**`DevicePoolProofs`.**  `PoolTypeCorrect`, `EndpointsCorrect`
(`EndpointsDriveTheirDevices`) and `ReadyFilesCorrect` (`ReadyFileIsEarned`).  The
invariant adds what the registry must know for a number to be fresh: the numbers
of all finished devices are in it (`DoneAreKnown`), so that the one taken for the
present device is none of theirs (`TakenIsFresh`), and the socket bound to it
cannot replace one of theirs (`WaitsBound`: it is there when the process waits).
`MadeInOrder` says which devices are on the node: those before the present one and,
from its creation on, the present one, each once.  `Attach` takes free numbers only,
and nobody but the end of the process closes its devices.  Names alone do not tell
the pool's devices apart, so that an endpoint is for its own device takes an
argument (`OwnUnlessNamesake`): if the finished ones are bound to their own numbers,
which are known, the device taken is none of theirs, and those not made yet are not
there, so it is the present one or an application's.  With these
`NumbersLearned` (`NumbersAreLearned`) finds `CreateDevice` to be a `Make` whose
turn it is, `FindDevice` a `Learn` and the end of the process, by whatever cause, an
`End`; listings, links, ready files and the clean-up leave numbers and owners as
they are.

**`ConnectorProofs`.**  The invariant follows the chunks: `Follow(s, n)` says that
those in `s` go on from the n-th without a gap.  Upwards, the websocket follows
what has arrived (`UpOrder`), the handler's chunk follows that and the client's
socket follows the handler (`UpNext`) as long as no close frame was sent;
downwards `DownOrder` says the same of socket, reader and websocket. `CloseIsLast`
keeps close frames at the end.  With these every step is one of `ByteStream` or a
stutter (`UploadOrdered`, `DownloadOrdered`).  `UploadComplete` needs to know why
a handler ends: `EndWhy` (unless the remote side closed first, only the end of the
client makes it close the websocket) and `UpDone` (whoever ends in order has
passed everything on).  `DownloadComplete` rests on `ReaderGone`: a reader that
stopped, while the handler runs, beside a websocket that is there has met the
close frame.

**`RecorderProofs`.**  `RecorderTypeCorrect`; `RecordingsAreApart`
(`OneRecordingPerScreen`): from the moment `pgrep` finds nothing, or the script
has killed what it found, until the start nobody else starts a recording;
`KillsAreJustified` (`KilledForCause`) from `CauseInv`: the size remembered for
the desktop is the one its recording was started for (`LabelIsRecRes`), what is
ending during a pass was killed in that pass unless it is slow (`LateAreSlow`),
and a screen has one turn in a pass (`TargetIsTaken`), so `pgrep` lists more than
one process only beside a slow one (`ListedAlone`); `LeftoversExplained`
(`LeftoversHaveACause`) and `OthersKept` (`OthersAreKept`): the invariant relates
note, directory, files and the hook's place, in particular that a file written
after the hook's `rm` keeps the directory from being removed.

## 9. What is only model-checked, and what is not modelled

TLAPS proves no liveness under fairness here, and nothing with `ENABLED`:
`CallReturns`, `GroupIsFlushed`, `AbandonedSessionIsDeleted`,
`NewDeviceIsAdvertised`, `PluginSettles`, `PoolSettles`, `PluginFollowsLinks`,
`ConnectionEnds`, `EndsOnceClientWrites` and `RecordingSettles` are checked by TLC
only.  Every invariant, the four refinements and `OnIdleOncePerPeriod` are proved.

Within the modelled components these are left out:

- container identities that change on a restart: a composition of plugin and
  monitor, see the plan;
- the file that tells a helper's mode, which it tests once at its start
  (`fsnotify.go:33`): `PodMode` is fixed per helper;
- `Allocate`, which changes no state: what could go wrong in it is
  `AdvertisedAreKnown`; and the plugin for control sockets, which has the same
  life as the one modelled;
- `WATCHDOG_TIMEOUT` of -1 (never) and below 1 (disabled), where the entrypoint
  only sleeps;
- the pool's datagrams and its joystick and control-socket plugins; the handler
  for an interrupt from a terminal;
- the exporter of recordings
  (`manifests/pod-broker-system/vdi-recording-exporter-daemonset.yaml`), a loop of
  its own that copies from the node's directory; names and logs of recordings; the
  `pgrep` pattern, which is a prefix (`record.sh:96`): window ids are taken to
  have the same length, which makes it exact;
- the connector's sign-in, token exchange and credential cache, which run in
  sequence before the first connection; a close frame's payload;
- the X protocol, Docker's and the kubelet's interfaces beyond the calls made.

Components without a module: session pod start-up (section 1), GPU node
initialisation (sequential shell), session pod templates and infrastructure
(declarative), the control socket protocol (generated), and the connector's web
page, a static page with copies of Vue (`web/js/vue.js`) and Vuetify
(`web/js/vuetify.js`), which hold no code of this project.

## 10. Plan

What could be added, in this order:

1. `UinputNode`: the two plugins for control sockets (pod and container resource)
   composed with the monitor, so that the sockets a container is given come out of
   their maps; container ids that change on restart.
2. `SessionPod`: the flag files as a system of waiting processes with restarts,
   including `startup.sh`, whose request outside the cluster is a DELETE although
   it announces "Fetching session metadata", and whose flag is touched whatever
   the request returned.
3. `NodeInit`: the reboot marker and the driver cache across reboots.
