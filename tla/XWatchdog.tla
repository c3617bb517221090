----------------------------- MODULE XWatchdog -----------------------------
(***************************************************************************)
(* The watchdog container of a session pod (images/watchdog): entrypoint.sh*)
(* waits for the X server, then xserver_watchdog.py runs two threads, one  *)
(* that records X input and strokes the watchdog and one that samples the  *)
(* time since the last stroke, and shutdown.sh asks the pod broker to      *)
(* delete the session when the time is up.  The container is restarted     *)
(* whenever it exits, as the pod's restart policy says.                    *)
(*                                                                         *)
(* A tick is half a second, the monitor's sleep.  Ages stop growing at     *)
(* Horizon, beyond both limits, where no comparison tells them apart.      *)
(***************************************************************************)
EXTENDS Integers, FiniteSets

CONSTANTS
    Idle,       \* --idle, in seconds
    Timeout,    \* WATCHDOG_TIMEOUT as xserver_watchdog.py reads it
    WaitLimit,  \* WATCHDOG_TIMEOUT as entrypoint.sh reads it
    HasRecord,  \* what has_extension("RECORD") may answer
    MaxXStops   \* bound: times the X server stops

ASSUME WatchdogAssumption ==
    /\ Idle \in Nat \ {0}
    /\ Timeout \in Nat \ {0}
    /\ WaitLimit \in Nat \ {0}
    /\ HasRecord \subseteq BOOLEAN
    /\ MaxXStops \in Nat

VARIABLES
    session,       \* alive, or deleted by the pod broker
    xserver,       \* up or down
    ready,         \* the flag file xserver_ready exists
    xstops,        \* how often it stopped
    input,         \* age of the last user input, in ticks
    proc,          \* waiting, connecting, running or exited
    count,         \* entrypoint.sh's count of seconds waited
    timer,         \* ticks until the current sleep is over
    rec,           \* the thread of start()
    ctx,           \* whether __ctx is set
    pending,       \* a recorded event is on its way to the callback
    lastEvent,     \* age of last_event_time, in ticks
    mon,           \* the thread of monitor()
    running, isIdle, idleTtl, timeoutTtl, lastIdleTtl,
    strokedSinceSample,  \* history: stroked since the sample in use
    strokedSinceIdle,    \* history: stroked since the sample of the last on_idle
    unheard              \* history: the last input came with nothing recording it

xVars == <<session, xserver, ready, xstops, input>>
recVars == <<rec, ctx, pending>>
ttlVars == <<idleTtl, timeoutTtl, lastIdleTtl>>
history == <<strokedSinceSample, strokedSinceIdle, unheard>>
monVars == <<mon, running, isIdle, ttlVars, history>>
vars == <<xVars, proc, count, timer, recVars, lastEvent, monVars>>

Larger(a, b) == IF a > b THEN a ELSE b

Horizon == 2 * Larger(Idle, Timeout) + 1

Age == 0 .. Horizon

\* Mutant: the time to live is not kept from going negative.
TtlNotClamped(limit) == limit - (lastEvent \div 2)

\* Mutant: the elapsed time is rounded up.
TtlRoundedUp(limit) == Larger(0, limit - ((lastEvent + 1) \div 2))

\* A limit less the whole seconds since the last event, and never negative.
Ttl(limit) == Larger(0, limit - (lastEvent \div 2))

Init ==
    /\ session = "alive"
    /\ xserver = "down"
    /\ ready = FALSE
    /\ xstops = 0
    /\ input = Horizon
    /\ proc = "waiting"
    /\ count = 0
    /\ timer = 0
    /\ rec = "off"
    /\ ctx = FALSE
    /\ pending = FALSE
    /\ lastEvent = 0
    /\ mon = "off"
    /\ running = FALSE
    /\ isIdle = FALSE
    /\ idleTtl = 0
    /\ timeoutTtl = 0
    /\ lastIdleTtl = 0
    /\ strokedSinceSample = FALSE
    /\ strokedSinceIdle = TRUE
    /\ unheard = FALSE

-----------------------------------------------------------------------------
(* The X server, the user and time.                                        *)

XStart ==
    /\ session = "alive"
    /\ xserver = "down"
    /\ xserver' = "up"
    /\ ready' = TRUE
    /\ UNCHANGED <<session, xstops, input, proc, count, timer, recVars,
                   lastEvent, monVars>>

\* The record connection breaks: a start() that is under way raises.  The
\* entrypoint's EXIT trap removes the flag, unless it is killed outright.
XStop(killed) ==
    /\ xserver = "up"
    /\ xstops < MaxXStops
    /\ xserver' = "down"
    /\ ready' = killed
    /\ xstops' = xstops + 1
    /\ rec' = IF rec \in {"starting", "created", "recording"} THEN "failed" ELSE rec
    /\ UNCHANGED <<session, input, proc, count, timer, ctx, pending,
                   lastEvent, monVars>>

UserInput ==
    /\ session = "alive"
    /\ xserver = "up"
    /\ input' = 0
    /\ pending' = (pending \/ rec = "recording")
    /\ unheard' = (rec # "recording")
    /\ UNCHANGED <<session, xserver, ready, xstops, proc, count, timer, rec, ctx,
                   lastEvent, mon, running, isIdle, ttlVars, strokedSinceSample,
                   strokedSinceIdle>>

Older(a) == IF a < Horizon THEN a + 1 ELSE a

Tick ==
    /\ input' = Older(input)
    /\ lastEvent' = Older(lastEvent)
    /\ timer' = Larger(0, timer - 1)
    /\ UNCHANGED <<session, xserver, ready, xstops, proc, count, recVars, monVars>>

-----------------------------------------------------------------------------
(* entrypoint.sh and shutdown.sh.                                          *)

\* curl -f asks the broker to delete the session; nobody reads its status.
Shutdown(ok) == session' = IF ok THEN "deleted" ELSE session

WaitForX ==
    /\ proc = "waiting"
    /\ ~ready
    /\ timer = 0
    /\ count + 1 < WaitLimit
    /\ count' = count + 1
    /\ timer' = 2
    /\ UNCHANGED <<xVars, proc, recVars, lastEvent, monVars>>

GiveUpOnX(ok) ==
    /\ proc = "waiting"
    /\ ~ready
    /\ timer = 0
    /\ count + 1 >= WaitLimit
    /\ Shutdown(ok)
    /\ proc' = "exited"
    /\ UNCHANGED <<xserver, ready, xstops, input, count, timer, recVars, lastEvent,
                   monVars>>

XIsReady ==
    /\ proc = "waiting"
    /\ ready
    /\ timer = 0
    /\ proc' = "connecting"
    /\ UNCHANGED <<xVars, count, timer, recVars, lastEvent, monVars>>

\* XServerWatchdog() raised: try again in two seconds, for ever.
RetryConnect ==
    /\ proc = "connecting"
    /\ xserver = "down"
    /\ timer = 0
    /\ timer' = 4
    /\ UNCHANGED <<xVars, proc, count, recVars, lastEvent, monVars>>

\* A new XServerWatchdog, and the start of its two threads.
NewThreads ==
    /\ proc' = "running"
    /\ rec' = "starting"
    /\ mon' = "starting"
    /\ running' = FALSE
    /\ isIdle' = FALSE
    /\ ctx' = FALSE
    /\ pending' = FALSE
    /\ strokedSinceSample' = FALSE
    /\ strokedSinceIdle' = TRUE
    /\ unheard' = FALSE
    /\ UNCHANGED <<xVars, count, timer, ttlVars>>

\* Mutant: the time of the last event outlives the process.
ConnectWithOldTime ==
    /\ proc = "connecting"
    /\ xserver = "up"
    /\ timer = 0
    /\ NewThreads
    /\ UNCHANGED lastEvent

\* Both displays are open: the countdown starts anew.
Connect ==
    /\ proc = "connecting"
    /\ xserver = "up"
    /\ timer = 0
    /\ NewThreads
    /\ lastEvent' = 0

\* Mutant: a recording thread that raised counts as still running.
ExitAfterReturn ==
    /\ proc = "running"
    /\ mon = "done"
    /\ rec = "returned"
    /\ proc' = "exited"
    /\ UNCHANGED <<xVars, count, timer, recVars, lastEvent, monVars>>

\* asyncio.wait returns when both threads are done, whatever they raised.
Exit ==
    /\ proc = "running"
    /\ mon = "done"
    /\ rec \in {"returned", "failed"}
    /\ proc' = "exited"
    /\ UNCHANGED <<xVars, count, timer, recVars, lastEvent, monVars>>

Restart ==
    /\ proc = "exited"
    /\ session = "alive"
    /\ proc' = "waiting"
    /\ count' = 0
    /\ timer' = 0
    /\ rec' = "off"
    /\ mon' = "off"
    /\ UNCHANGED <<xVars, ctx, pending, lastEvent, running, isIdle, ttlVars,
                   history>>

-----------------------------------------------------------------------------
(* start(), in its own thread.                                             *)

NoRecordExtension ==
    /\ rec = "starting"
    /\ FALSE \in HasRecord
    /\ rec' = "failed"
    /\ UNCHANGED <<xVars, proc, count, timer, ctx, pending, lastEvent, monVars>>

CreateContext ==
    /\ rec = "starting"
    /\ TRUE \in HasRecord
    /\ rec' = "created"
    /\ ctx' = TRUE
    /\ UNCHANGED <<xVars, proc, count, timer, pending, lastEvent, monVars>>

EnableContext ==
    /\ rec = "created"
    /\ rec' = "recording"
    /\ UNCHANGED <<xVars, proc, count, timer, ctx, pending, lastEvent, monVars>>

\* The callback runs in the recording thread, for an event it has received.
Stroke ==
    /\ rec = "recording"
    /\ pending
    /\ pending' = FALSE
    /\ lastEvent' = 0
    /\ strokedSinceSample' = TRUE
    /\ strokedSinceIdle' = TRUE
    /\ UNCHANGED <<xVars, proc, count, timer, rec, ctx, mon, running, isIdle,
                   ttlVars, unheard>>

-----------------------------------------------------------------------------
(* monitor(), in its own thread.                                           *)

Sample ==
    /\ idleTtl' = Ttl(Idle)
    /\ timeoutTtl' = Ttl(Timeout)
    /\ strokedSinceSample' = FALSE

StartMonitor ==
    /\ mon = "starting"
    /\ running' = TRUE
    /\ Sample
    /\ lastIdleTtl' = Ttl(Idle)
    /\ mon' = "check"
    /\ UNCHANGED <<xVars, proc, count, timer, recVars, lastEvent, isIdle,
                   strokedSinceIdle, unheard>>

\* Mutant: idleness is not compared with the last sample.
IdleDetectedAgain == idleTtl <= 0

IdleDetected == idleTtl <= 0 /\ idleTtl # lastIdleTtl

ResetDetected == isIdle /\ idleTtl = Idle /\ idleTtl # lastIdleTtl

CheckIdle ==
    /\ mon = "check"
    /\ isIdle' = (IdleDetected \/ (isIdle /\ ~ResetDetected))
    /\ mon' = IF IdleDetected THEN "on_idle" ELSE "expiry"
    /\ strokedSinceIdle' =
          IF IdleDetected THEN strokedSinceSample ELSE strokedSinceIdle
    /\ UNCHANGED <<xVars, proc, count, timer, recVars, lastEvent, running,
                   ttlVars, strokedSinceSample, unheard>>

\* The on_idle command runs to its end; time may pass meanwhile.
OnIdle ==
    /\ mon = "on_idle"
    /\ mon' = "expiry"
    /\ UNCHANGED <<xVars, proc, count, timer, recVars, lastEvent, running,
                   isIdle, ttlVars, history>>

\* The decision uses the sample taken before on_idle was run.
CheckExpiry ==
    /\ mon = "expiry"
    /\ IF timeoutTtl <= 0
       THEN mon' = "on_timeout" /\ UNCHANGED timer
       ELSE mon' = "sleep" /\ timer' = 1
    /\ UNCHANGED <<xVars, proc, count, recVars, lastEvent, running, isIdle,
                   ttlVars, history>>

OnTimeout(ok) ==
    /\ mon = "on_timeout"
    /\ Shutdown(ok)
    /\ mon' = "stop"
    /\ UNCHANGED <<xserver, ready, xstops, input, proc, count, timer, recVars,
                   lastEvent, running, isIdle, ttlVars, history>>

\* Disabling a context that is not enabled has no effect, and stop() skips it
\* when there is none yet; if the connection has broken since the context was
\* made, the request raises and ends the thread.
Stop ==
    /\ mon = "stop"
    /\ rec' = IF ctx /\ rec = "recording" THEN "returned" ELSE rec
    /\ IF ctx /\ rec = "failed"
       THEN mon' = "done" /\ UNCHANGED <<running, timer>>
       ELSE mon' = "sleep" /\ running' = FALSE /\ timer' = 1
    /\ UNCHANGED <<xVars, proc, count, ctx, pending, lastEvent, isIdle,
                   ttlVars, history>>

WakeUp ==
    /\ mon = "sleep"
    /\ timer = 0
    /\ lastIdleTtl' = idleTtl
    /\ Sample
    /\ mon' = IF running THEN "check" ELSE "done"
    /\ UNCHANGED <<xVars, proc, count, timer, recVars, lastEvent, running,
                   isIdle, strokedSinceIdle, unheard>>

-----------------------------------------------------------------------------
Entrypoint ==
    \/ WaitForX \/ XIsReady \/ RetryConnect \/ Connect \/ Exit \/ Restart
    \/ \E ok \in BOOLEAN : GiveUpOnX(ok)

Recorder == NoRecordExtension \/ CreateContext \/ EnableContext \/ Stroke

Monitor ==
    \/ StartMonitor \/ CheckIdle \/ OnIdle \/ CheckExpiry \/ Stop \/ WakeUp
    \/ \E ok \in BOOLEAN : OnTimeout(ok)

Next ==
    \/ XStart
    \/ \E killed \in BOOLEAN : XStop(killed)
    \/ UserInput
    \/ Tick
    \/ Entrypoint
    \/ Recorder
    \/ Monitor

\* Threads and processes run, time passes, the X server's container is
\* restarted, and the broker does not refuse every deletion for ever.
Fairness ==
    /\ WF_vars(XStart)
    /\ WF_vars(Tick)
    /\ WF_vars(Entrypoint)
    /\ WF_vars(Recorder)
    /\ WF_vars(Monitor)
    /\ SF_vars(OnTimeout(TRUE))
    /\ SF_vars(GiveUpOnX(TRUE))

Spec == Init /\ [][Next]_vars

FairSpec == Spec /\ Fairness

-----------------------------------------------------------------------------
TypeOK ==
    /\ session \in {"alive", "deleted"}
    /\ xserver \in {"up", "down"}
    /\ ready \in BOOLEAN
    /\ xstops \in Nat
    /\ input \in Age
    /\ proc \in {"waiting", "connecting", "running", "exited"}
    /\ count \in Nat
    /\ timer \in 0 .. 4
    /\ rec \in {"off", "starting", "created", "recording", "returned", "failed"}
    /\ ctx \in BOOLEAN
    /\ pending \in BOOLEAN
    /\ lastEvent \in Age
    /\ mon \in {"off", "starting", "check", "on_idle", "expiry", "on_timeout",
                "stop", "sleep", "done"}
    /\ running \in BOOLEAN
    /\ isIdle \in BOOLEAN
    /\ idleTtl \in 0 .. Idle
    /\ timeoutTtl \in 0 .. Timeout
    /\ lastIdleTtl \in 0 .. Idle
    /\ strokedSinceSample \in BOOLEAN
    /\ strokedSinceIdle \in BOOLEAN
    /\ unheard \in BOOLEAN

\* The decision to expire is right for the sample it is made from: when
\* on_timeout is about to run, no event was recorded in the last Timeout
\* seconds, except one that came after that sample was taken.
ExpiryAgreesWithSample ==
    mon = "on_timeout" => lastEvent >= 2 * Timeout \/ strokedSinceSample

\* A session that is used is not deleted: when on_timeout is about to run, the
\* user has been still for Timeout seconds, across restarts of the watchdog and
\* of the X server, but for input that reached no recording, was recorded after
\* the sample or is on its way to the callback, where a recording that broke
\* leaves it.
ActiveUserIsKept ==
    mon = "on_timeout" =>
        input >= 2 * Timeout \/ unheard \/ strokedSinceSample \/ pending

\* on_idle runs at most once per idle period: between the samples that start
\* two runs of it the watchdog was stroked, however long callbacks take.
OnIdleOncePerPeriod ==
    [][mon = "check" /\ mon' = "on_idle" => strokedSinceIdle]_vars

\* start() never returns: monitor() has called stop() before the context was
\* enabled, so that nothing ends the recording and nobody checks for expiry.
Hung == rec = "recording" /\ mon = "done"

\* An abandoned session is deleted: if input stops for ever, the broker is
\* eventually told to delete the session, across failed calls, restarts of
\* the watchdog and stops of the X server, unless the watchdog has hung.
AbandonedSessionIsDeleted ==
    <>[][~UserInput]_vars => <>(session = "deleted") \/ <>[]Hung
=============================================================================
