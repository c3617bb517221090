------------------------------ MODULE Recorder ------------------------------
(***************************************************************************)
(* The recording container of a session pod (images/webrtc/record.sh and   *)
(* jsonpatch-deploy-recording.yaml.tmpl): the script that starts a         *)
(* gst-launch process for the desktop, or for every window of Xpra, and    *)
(* restarts it when the size changes, and the preStop hook that removes    *)
(* the recordings from the node's disk.                                    *)
(*                                                                         *)
(* A gst-launch process is a record of the size the script remembers for   *)
(* it (label) and the size it captures (real).  The script knows the       *)
(* processes only by what pgrep lists, those that are ending included.     *)
(***************************************************************************)
EXTENDS Naturals, Sequences, SequencesExt

CONSTANTS
    Window,      \* the windows of Xpra
    Root,        \* the desktop
    Limit,       \* the largest size that can be recorded
    MaxChanges,  \* bound: changes of a window, of Xpra or of the X server
    MaxCrashes,  \* bound: recordings and containers that fail by themselves
    MaxSlow      \* bound: sleeps that are over before a killed process is

ASSUME RecorderAssumption ==
    /\ Root \notin Window
    /\ Limit \in Nat \ {0}
    /\ MaxChanges \in Nat
    /\ MaxCrashes \in Nat
    /\ MaxSlow \in Nat

VARIABLES
    xpra,       \* VDI_enableXpra
    xpraReady,  \* the flag file exists
    session,    \* the broker answers 200 for the session
    shown,      \* per screen: gone, hidden or shown
    size,       \* per screen
    changes, crashes, slow,
    live,       \* per screen: processes nobody has killed
    dying,      \* per screen: killed ones that have not ended
    pc,         \* where the script is
    dest,       \* what SESSION_DATA led to: none or a place
    recRes,     \* REC_RES
    todo,       \* windows left in this pass
    target,     \* the screen at hand
    cur,        \* its measured size, 0 for none
    viewable,   \* its map state
    found,      \* how many processes pgrep listed
    noted,      \* /tmp/cleanup_dir of the container: none or a place
    dirs,       \* directories on the node's disk that this pod has made
    files,      \* those with recordings in them
    others,     \* the recordings of the node's other pods are there
    restarted,  \* history: the container has exited
    pod,        \* up, stopping or gone
    hook        \* the preStop hook: none, test, unlink, rmdir; missing, removed, kept

envVars == <<xpra, xpraReady, session, shown, size, changes, crashes, slow>>
gstVars == <<live, dying>>
passVars == <<recRes, todo, target, cur, viewable, found>>
scriptVars == <<pc, dest, passVars, noted>>
diskVars == <<dirs, files, others>>
podVars == <<restarted, pod, hook>>
vars == <<envVars, gstVars, scriptVars, diskVars, podVars>>

\* This session's directory in /tmp/recording; /tmp/recording itself; and
\* null/null in it.  The last two are shared with other pods.
Shared == {"root", "null"}
Place == {"own"} \cup Shared

Within(d) == IF d = "root" THEN Place ELSE {d}

Screen == IF xpra THEN Window ELSE {Root}

\* What xdpyinfo or xwininfo says; nothing without a server or window.
Measured(w) == IF shown[w] = "gone" THEN 0 ELSE size[w]

Running(w) == live[w] \o dying[w]

Init ==
    /\ xpra \in BOOLEAN
    /\ xpraReady = FALSE
    /\ session = FALSE
    /\ shown = [w \in Screen |-> IF xpra THEN "gone" ELSE "shown"]
    /\ size = [w \in Screen |-> 1]
    /\ changes = 0
    /\ crashes = 0
    /\ slow = 0
    /\ live = [w \in Screen |-> <<>>]
    /\ dying = [w \in Screen |-> <<>>]
    /\ pc = "wait"
    /\ dest = "none"
    /\ recRes = 0
    /\ todo = {}
    /\ target = Root
    /\ cur = 0
    /\ viewable = FALSE
    /\ found = 0
    /\ noted = "none"
    /\ dirs = {}
    /\ files = {}
    /\ others = TRUE
    /\ restarted = FALSE
    /\ pod = "up"
    /\ hook = "none"

-----------------------------------------------------------------------------
(* The session, the screens and the recordings.                            *)

SessionStarts ==
    /\ ~session
    /\ pod # "gone"
    /\ session' = TRUE
    /\ UNCHANGED <<xpra, xpraReady, shown, size, changes, crashes, slow, gstVars,
                   scriptVars, diskVars, podVars>>

XpraFlag ==
    /\ xpra
    /\ pod # "gone"
    /\ xpraReady \/ changes < MaxChanges
    /\ xpraReady' = ~xpraReady
    /\ changes' = IF xpraReady THEN changes ELSE changes + 1
    /\ UNCHANGED <<xpra, session, shown, size, crashes, slow, gstVars, scriptVars,
                   diskVars, podVars>>

\* A recording ends with its window, or with the X server.
ShowOrHide(w) ==
    /\ pod # "gone"
    /\ changes < MaxChanges
    /\ changes' = changes + 1
    /\ \E s \in {"gone", "hidden", "shown"} \ {shown[w]} :
          /\ xpra \/ s # "hidden"
          /\ shown' = [shown EXCEPT ![w] = s]
          /\ live' = IF s = "gone" THEN [live EXCEPT ![w] = <<>>] ELSE live
          /\ dying' = IF s = "gone" THEN [dying EXCEPT ![w] = <<>>] ELSE dying
    /\ UNCHANGED <<xpra, xpraReady, session, size, crashes, slow, scriptVars,
                   diskVars, podVars>>

\* Only a window of Xpra can be larger than the limit.
Resize(w) ==
    /\ pod # "gone"
    /\ shown[w] # "gone"
    /\ changes < MaxChanges
    /\ changes' = changes + 1
    /\ \E s \in (1 .. (IF xpra THEN Limit + 1 ELSE Limit)) \ {size[w]} :
          size' = [size EXCEPT ![w] = s]
    /\ UNCHANGED <<xpra, xpraReady, session, shown, crashes, slow, gstVars,
                   scriptVars, diskVars, podVars>>

\* A stream crashes when its window shrinks or is unmapped, or when its
\* directory is gone; other failures are counted.
Crash(w) ==
    /\ live[w] # <<>>
    /\ \/ /\ \/ shown[w] = "hidden"
             \/ size[w] < Head(live[w]).real
             \/ dest \notin dirs
          /\ UNCHANGED crashes
       \/ crashes < MaxCrashes /\ crashes' = crashes + 1
    /\ live' = [live EXCEPT ![w] = Tail(@)]
    /\ UNCHANGED <<xpra, xpraReady, session, shown, size, changes, slow, dying,
                   scriptVars, diskVars, podVars>>

\* A killed process has ended.
Ended(w) ==
    /\ \E i \in DOMAIN dying[w] : dying' = [dying EXCEPT ![w] = RemoveAt(@, i)]
    /\ UNCHANGED <<envVars, live, scriptVars, diskVars, podVars>>

\* splitmuxsink opens the next file.
NextFile(w) ==
    /\ live[w] # <<>>
    /\ dest \in dirs
    /\ files' = files \cup {dest}
    /\ UNCHANGED <<envVars, gstVars, scriptVars, dirs, others, podVars>>

-----------------------------------------------------------------------------
(* The script's start.                                                     *)

\* One request has answered 200; the data come from a second one.  Without an
\* answer the user and the start of the session are empty, and from one that has
\* no such fields jq makes "null" of both.
AwaitSession ==
    /\ pc = "wait"
    /\ session
    /\ dest' \in Place
    /\ pc' = "mkdir"
    /\ UNCHANGED <<envVars, gstVars, passVars, noted, diskVars, podVars>>

MakeDir ==
    /\ pc = "mkdir"
    /\ dirs' = dirs \cup {dest}
    /\ pc' = "note"
    /\ UNCHANGED <<envVars, gstVars, dest, passVars, noted, files, others, podVars>>

\* The directory is noted for the hook, and REC_RES is read for the first time.
NoteDir ==
    /\ pc = "note"
    /\ noted' = dest
    /\ recRes' = IF xpra THEN 0 ELSE Measured(Root)
    /\ pc' = "top"
    /\ UNCHANGED <<envVars, gstVars, dest, todo, target, cur, viewable, found,
                   diskVars, podVars>>

-----------------------------------------------------------------------------
(* A pass over the desktop: pgrep comes first, then the resolution.        *)

FindDesktop ==
    /\ pc = "top"
    /\ ~xpra
    /\ found' = Len(Running(Root))
    /\ target' = Root
    /\ pc' = "measure"
    /\ UNCHANGED <<envVars, gstVars, dest, recRes, todo, cur, viewable, noted,
                   diskVars, podVars>>

MeasureDesktop ==
    /\ pc = "measure"
    /\ ~xpra
    /\ cur' = Measured(Root)
    /\ pc' = CASE found = 0                    -> "reread"
               [] found > 0 /\ recRes # cur'  -> "kill"
               [] found > 0 /\ recRes = cur'  -> "sleep"
    /\ UNCHANGED <<envVars, gstVars, dest, recRes, todo, target, viewable, found,
                   noted, diskVars, podVars>>

\* Mutant: REC_RES keeps its first value.
RereadNot ==
    /\ pc = "reread"
    /\ pc' = "start"
    /\ UNCHANGED <<envVars, gstVars, dest, passVars, noted, diskVars, podVars>>

\* REC_RES is read again just before the recording is started.
Reread ==
    /\ pc = "reread"
    /\ recRes' = Measured(Root)
    /\ pc' = "start"
    /\ UNCHANGED <<envVars, gstVars, dest, todo, target, cur, viewable, found,
                   noted, diskVars, podVars>>

-----------------------------------------------------------------------------
(* A pass over the windows of Xpra: the size comes first, then pgrep.      *)

ListWindows ==
    /\ pc = "top"
    /\ xpra
    /\ IF xpraReady
          THEN pc' = "each" /\ todo' = {w \in Window : shown[w] # "gone"}
          ELSE pc' = "exit" /\ UNCHANGED todo
    /\ restarted' = (restarted \/ ~xpraReady)
    /\ noted' = IF xpraReady THEN noted ELSE "none"
    /\ live' = IF xpraReady THEN live ELSE [w \in Screen |-> <<>>]
    /\ dying' = IF xpraReady THEN dying ELSE [w \in Screen |-> <<>>]
    /\ UNCHANGED <<envVars, dest, recRes, target, cur, viewable, found, diskVars,
                   pod, hook>>

\* Mutant: a window larger than the limit is recorded.
MeasureAnyWindow ==
    /\ pc = "each"
    /\ \E w \in todo :
          /\ todo' = todo \ {w}
          /\ target' = w
          /\ cur' = Measured(w)
          /\ viewable' = (shown[w] = "shown")
          /\ pc' = IF Measured(w) > 0 THEN "find" ELSE "each"
    /\ UNCHANGED <<envVars, gstVars, dest, recRes, found, noted, diskVars, podVars>>

\* A window that is gone or too large is left for the next pass, the latter
\* after xdotool has made it smaller.
MeasureWindow ==
    /\ pc = "each"
    /\ \E w \in todo :
          /\ todo' = todo \ {w}
          /\ target' = w
          /\ cur' = Measured(w)
          /\ viewable' = (shown[w] = "shown")
          /\ size' = IF size[w] > Limit /\ shown[w] # "gone"
                       THEN [size EXCEPT ![w] = Limit] ELSE size
          /\ pc' = IF Measured(w) \in 1 .. Limit THEN "find" ELSE "each"
    /\ UNCHANGED <<xpra, xpraReady, session, shown, changes, crashes, slow,
                   gstVars, dest, recRes, found, noted, diskVars, podVars>>

EndPass ==
    /\ pc = "each"
    /\ todo = {}
    /\ pc' = "sleep"
    /\ UNCHANGED <<envVars, gstVars, dest, passVars, noted, diskVars, podVars>>

FindWindow ==
    /\ pc = "find"
    /\ found' = Len(Running(target))
    /\ pc' = CASE found' > 0              -> "compare"
               [] found' = 0 /\ viewable  -> "start"
               [] found' = 0 /\ ~viewable -> "each"
    /\ UNCHANGED <<envVars, gstVars, dest, recRes, todo, target, cur, viewable,
                   noted, diskVars, podVars>>

\* WINDOW_SIZE of the process; nothing when pgrep listed more than one or when
\* the one it listed has ended since.
RecSize ==
    IF found = 1 /\ Running(target) # <<>> THEN Head(Running(target)).label ELSE 0

Compare ==
    /\ pc = "compare"
    /\ pc' = IF RecSize = cur THEN "each" ELSE "kill"
    /\ UNCHANGED <<envVars, gstVars, dest, passVars, noted, diskVars, podVars>>

-----------------------------------------------------------------------------
(* Both kinds of passes.                                                   *)

AfterKill == IF xpra THEN "start" ELSE "reread"

\* Mutant: the new recording is started without killing the old one.
KillNobody ==
    /\ pc = "kill"
    /\ pc' = AfterKill
    /\ UNCHANGED <<envVars, gstVars, dest, passVars, noted, diskVars, podVars>>

\* Nothing but the script starts a recording: the processes pgrep listed are
\* those that run, less some that have ended.
Kill ==
    /\ pc = "kill"
    /\ live' = [live EXCEPT ![target] = <<>>]
    /\ dying' = [dying EXCEPT ![target] = @ \o live[target]]
    /\ pc' = AfterKill
    /\ UNCHANGED <<envVars, dest, passVars, noted, diskVars, podVars>>

Started ==
    [label |-> IF xpra THEN cur ELSE recRes, real |-> size[target]]

AfterStart == IF xpra THEN "each" ELSE "sleep"

\* Mutant: the directory is made again for every recording.
StartInNewDir ==
    /\ pc = "start"
    /\ live' = IF shown[target] # "gone"
                 THEN [live EXCEPT ![target] = Append(@, Started)] ELSE live
    /\ dirs' = dirs \cup {dest}
    /\ files' = IF shown[target] # "gone" THEN files \cup {dest} ELSE files
    /\ pc' = AfterStart
    /\ UNCHANGED <<envVars, dying, dest, passVars, noted, others, podVars>>

\* Without a screen or a directory gst-launch ends at once.
Start ==
    /\ pc = "start"
    /\ IF shown[target] # "gone" /\ dest \in dirs
          THEN /\ live' = [live EXCEPT ![target] = Append(@, Started)]
               /\ files' = files \cup {dest}
          ELSE UNCHANGED <<live, files>>
    /\ pc' = AfterStart
    /\ UNCHANGED <<envVars, dying, dest, passVars, noted, dirs, others, podVars>>

Lingering == {w \in Screen : dying[w] # <<>>}

\* Mutant: the next pass begins at once.
WakeAtOnce ==
    /\ pc = "sleep"
    /\ pc' = "top"
    /\ UNCHANGED <<envVars, gstVars, dest, passVars, noted, diskVars, podVars>>

\* Five seconds are long enough for a killed recording to end, except for some
\* that are counted.
Wake ==
    /\ pc = "sleep"
    /\ Lingering # {} => slow < MaxSlow
    /\ slow' = IF Lingering # {} THEN slow + 1 ELSE slow
    /\ pc' = "top"
    /\ UNCHANGED <<xpra, xpraReady, session, shown, size, changes, crashes,
                   gstVars, dest, passVars, noted, diskVars, podVars>>

-----------------------------------------------------------------------------
(* The container and the pod.                                              *)

\* Mutant: /tmp/cleanup_dir outlives the container.
ContainerDiesWithoutNote ==
    /\ pc # "exit"
    /\ pod # "gone"
    /\ crashes < MaxCrashes
    /\ crashes' = crashes + 1
    /\ pc' = "exit"
    /\ live' = [w \in Screen |-> <<>>]
    /\ dying' = [w \in Screen |-> <<>>]
    /\ restarted' = TRUE
    /\ UNCHANGED <<xpra, xpraReady, session, shown, size, changes, slow, dest,
                   passVars, noted, diskVars, pod, hook>>

\* The processes and /tmp/cleanup_dir go with the container.
ContainerDies ==
    /\ pc # "exit"
    /\ pod # "gone"
    /\ crashes < MaxCrashes
    /\ crashes' = crashes + 1
    /\ pc' = "exit"
    /\ live' = [w \in Screen |-> <<>>]
    /\ dying' = [w \in Screen |-> <<>>]
    /\ noted' = "none"
    /\ restarted' = TRUE
    /\ UNCHANGED <<xpra, xpraReady, session, shown, size, changes, slow, dest,
                   passVars, diskVars, pod, hook>>

Restart ==
    /\ pc = "exit"
    /\ pod = "up"
    /\ pc' = "wait"
    /\ UNCHANGED <<envVars, gstVars, dest, passVars, noted, diskVars, podVars>>

\* A hook runs in a container that runs.
DeletePod ==
    /\ pod = "up"
    /\ pod' = "stopping"
    /\ hook' = IF pc = "exit" THEN "none" ELSE "test"
    /\ UNCHANGED <<envVars, gstVars, scriptVars, diskVars, restarted>>

HookTest ==
    /\ pod = "stopping"
    /\ pc # "exit"
    /\ hook = "test"
    /\ hook' = IF noted = "none" THEN "missing" ELSE "unlink"
    /\ UNCHANGED <<envVars, gstVars, scriptVars, diskVars, restarted, pod>>

\* What rm -rf finds in the noted directory.
HookUnlink ==
    /\ pod = "stopping"
    /\ pc # "exit"
    /\ hook = "unlink"
    /\ files' = files \ Within(noted)
    /\ others' = (others /\ noted \notin Shared)
    /\ hook' = "rmdir"
    /\ UNCHANGED <<envVars, gstVars, scriptVars, dirs, restarted, pod>>

\* A directory that has got a new file is not empty and stays.
HookRmdir ==
    /\ pod = "stopping"
    /\ pc # "exit"
    /\ hook = "rmdir"
    /\ dirs' = {d \in dirs : d \in files \/ d \notin Within(noted)}
    /\ hook' = IF files \cap Within(noted) = {} THEN "removed" ELSE "kept"
    /\ UNCHANGED <<envVars, gstVars, scriptVars, files, others, restarted, pod>>

\* Bash, as the first process of the container, ignores SIGTERM: the script goes
\* on until the grace period is over.
PodKilled ==
    /\ pod = "stopping"
    /\ pod' = "gone"
    /\ pc' = "exit"
    /\ live' = [w \in Screen |-> <<>>]
    /\ dying' = [w \in Screen |-> <<>>]
    /\ UNCHANGED <<envVars, dest, passVars, noted, diskVars, restarted, hook>>

-----------------------------------------------------------------------------
Script ==
    \/ AwaitSession \/ MakeDir \/ NoteDir
    \/ FindDesktop \/ MeasureDesktop \/ Reread
    \/ ListWindows \/ MeasureWindow \/ EndPass \/ FindWindow \/ Compare
    \/ Kill \/ Start \/ Wake

Hook == HookTest \/ HookUnlink \/ HookRmdir

Next ==
    \/ SessionStarts \/ XpraFlag
    \/ \E w \in Screen :
          \/ ShowOrHide(w) \/ Resize(w) \/ Crash(w) \/ Ended(w) \/ NextFile(w)
    \/ Script \/ ContainerDies \/ Restart
    \/ DeletePod \/ Hook \/ PodKilled

Spec == Init /\ [][Next]_vars

\* The script runs, its container is restarted and a killed process ends.
FairSpec ==
    /\ Spec
    /\ WF_vars(Script)
    /\ WF_vars(Restart)
    /\ \A w \in Window \cup {Root} : WF_vars(w \in Screen /\ Ended(w))

-----------------------------------------------------------------------------
Recording == [label : 0 .. Limit, real : 1 .. Limit + 1]

TypeOK ==
    /\ xpra \in BOOLEAN
    /\ xpraReady \in BOOLEAN
    /\ session \in BOOLEAN
    /\ shown \in [Screen -> {"gone", "hidden", "shown"}]
    /\ size \in [Screen -> 1 .. Limit + 1]
    /\ changes \in 0 .. MaxChanges
    /\ crashes \in 0 .. MaxCrashes
    /\ slow \in 0 .. MaxSlow
    /\ live \in [Screen -> Seq(Recording)]
    /\ dying \in [Screen -> Seq(Recording)]
    /\ pc \in {"wait", "mkdir", "note", "top", "measure", "reread", "each",
               "find", "compare", "kill", "start", "sleep", "exit"}
    /\ dest \in Place \cup {"none"}
    /\ recRes \in 0 .. Limit
    /\ todo \subseteq Window
    /\ target \in Window \cup {Root}
    /\ cur \in 0 .. Limit + 1
    /\ viewable \in BOOLEAN
    /\ found \in Nat
    /\ noted \in Place \cup {"none"}
    /\ dirs \subseteq Place
    /\ files \subseteq Place
    /\ others \in BOOLEAN
    /\ restarted \in BOOLEAN
    /\ pod \in {"up", "stopping", "gone"}
    /\ hook \in {"none", "test", "unlink", "rmdir", "missing", "removed", "kept"}

\* However sizes, crashes and slow ends interleave with pgrep and kill, a screen
\* never has two recordings that nobody has told to stop.
OneRecordingPerScreen == \A w \in Screen : Len(live[w]) <= 1

\* "Delay long enough for recordings that have been killed to shutdown": however
\* crashes, ends and changes come between pgrep, the measuring and the kill, a
\* recording is told to stop only if it was started for another size than the
\* one just measured, or if pgrep listed a process beside it that took longer
\* than the delay to end.
KilledForCause ==
    pc = "kill" /\ live[target] # <<>> =>
        Head(live[target]).label # cur \/ (found > 1 /\ slow > 0)

\* A pod that is gone and whose container never restarted has left recordings on
\* the disk for one of three causes only: the script noted the directory after
\* the hook had looked for the note, a recording opened a file after rm had
\* emptied the directory, or the end of the grace period cut the hook short.
\* What the hook has found removed never comes back.
LeftoversHaveACause ==
    pod = "gone" /\ files # {} /\ ~restarted =>
        \/ hook = "missing" /\ noted # "none"
        \/ hook = "kept"
        \/ hook \in {"test", "unlink", "rmdir"}

\* The hook takes other pods' recordings only if the present script got no data
\* of its session from the broker; an earlier one's note is gone with its
\* container.
OthersAreKept == others \/ dest \in Shared

\* Every screen is recorded once, at its size.
Recorded(w) ==
    shown[w] = "shown" => Len(live[w]) = 1 /\ Head(live[w]).real = size[w]

\* Somebody changed the size and changed it back while the recording started:
\* it runs at another size, and the script sees no difference.
Mistaken(w) == live[w] # <<>> /\ Head(live[w]).label # Head(live[w]).real

Recordable == pod = "up" /\ session /\ (xpra => xpraReady)

\* After the last change the script settles with every screen recorded at its
\* size, in spite of crashes, restarts and pgrep listing processes that end.
RecordingSettles ==
    <>[]Recordable =>
        <>[](\A w \in Screen : Recorded(w) \/ Mistaken(w))
=============================================================================
