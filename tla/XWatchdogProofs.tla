-------------------------- MODULE XWatchdogProofs ---------------------------
(***************************************************************************)
(* Proofs about XWatchdog, for any limits, X servers and numbers of stops. *)
(***************************************************************************)
EXTENDS XWatchdog, TLAPS

\* The larger of two integers.
LEMMA LargerType ==
    ASSUME NEW a \in Int, NEW b \in Int
    PROVE  Larger(a, b) \in {a, b} /\ Larger(a, b) >= a /\ Larger(a, b) >= b
  BY DEF Larger

\* Ages are natural numbers up to an odd bound beyond both limits.
LEMMA HorizonType == Horizon \in Nat \ {0}
<1>1. Larger(Idle, Timeout) \in Nat
  BY WatchdogAssumption, LargerType
<1> QED
  BY <1>1 DEF Horizon

\* An age that grows or stops at the horizon stays an age.
LEMMA OlderType ==
    ASSUME NEW a \in Age
    PROVE  Older(a) \in Age /\ Older(a) >= a
  BY HorizonType DEF Older, Age

\* A time to live lies between zero and its limit, and with the whole seconds
\* since the last event it makes up the limit at least.
LEMMA TtlType ==
    ASSUME NEW limit \in Nat, lastEvent \in Age
    PROVE  Ttl(limit) \in 0 .. limit /\ 2 * Ttl(limit) + lastEvent >= 2 * limit
<1> DEFINE s == lastEvent \div 2
<1>1. lastEvent \in Nat
  BY HorizonType DEF Age
<1>2. s \in Nat /\ 2 * s <= lastEvent
  BY <1>1
<1> HIDE DEF s
<1>3. Larger(0, limit - s) \in 0 .. limit /\ 2 * Larger(0, limit - s) + lastEvent >= 2 * limit
  BY <1>1, <1>2 DEF Larger
<1> QED
  BY <1>3 DEF Ttl, s

-----------------------------------------------------------------------------
(* Type correctness.                                                       *)

\* The initial state is well typed.
LEMMA InitTypeOK == Init => TypeOK
<1> SUFFICES ASSUME Init PROVE TypeOK
  OBVIOUS
<1>1. Horizon \in Age /\ 0 \in Age
  BY HorizonType DEF Age
<1>2. 0 \in 0 .. Idle /\ 0 \in 0 .. Timeout
  BY WatchdogAssumption
<1>3. /\ ready \in BOOLEAN /\ ctx \in BOOLEAN /\ pending \in BOOLEAN
      /\ running \in BOOLEAN /\ isIdle \in BOOLEAN
      /\ strokedSinceSample \in BOOLEAN /\ strokedSinceIdle \in BOOLEAN
      /\ unheard \in BOOLEAN
  BY Zenon DEF Init
<1> QED
  BY <1>1, <1>2, <1>3 DEF Init, TypeOK

\* What Sample assigns has the right type.
LEMMA SampleType ==
    ASSUME TypeOK, Sample
    PROVE  /\ idleTtl' \in 0 .. Idle
           /\ timeoutTtl' \in 0 .. Timeout
           /\ strokedSinceSample' \in BOOLEAN
           /\ 2 * timeoutTtl' + lastEvent >= 2 * Timeout
<1>1. lastEvent \in Age
  BY DEF TypeOK
<1>2. strokedSinceSample' \in BOOLEAN
  BY Zenon DEF Sample
<1> QED
  BY <1>1, <1>2, TtlType, WatchdogAssumption DEF Sample

\* Every step of the entrypoint preserves the types.
LEMMA EntrypointTypeOK == TypeOK /\ Entrypoint => TypeOK'
<1> SUFFICES ASSUME TypeOK, Entrypoint PROVE TypeOK'
  OBVIOUS
<1> USE DEF xVars, recVars, monVars, ttlVars, history
<1>1. CASE WaitForX \/ XIsReady \/ RetryConnect
  BY <1>1 DEF WaitForX, XIsReady, RetryConnect, TypeOK
<1>2. ASSUME NEW ok \in BOOLEAN, GiveUpOnX(ok) PROVE TypeOK'
  BY <1>2 DEF GiveUpOnX, Shutdown, TypeOK
<1>3. CASE Connect
  <2>1. 0 \in Age
    BY HorizonType DEF Age
  <2>2. /\ running' \in BOOLEAN /\ isIdle' \in BOOLEAN /\ ctx' \in BOOLEAN
        /\ pending' \in BOOLEAN /\ strokedSinceSample' \in BOOLEAN
        /\ strokedSinceIdle' \in BOOLEAN /\ unheard' \in BOOLEAN
    BY <1>3, Zenon DEF Connect, NewThreads
  <2> QED
    BY <1>3, <2>1, <2>2 DEF Connect, NewThreads, TypeOK
<1>4. CASE Exit \/ Restart
  BY <1>4 DEF Exit, Restart, TypeOK
<1> QED
  BY <1>1, <1>2, <1>3, <1>4 DEF Entrypoint

\* Every step of the recording thread preserves the types.
LEMMA RecorderTypeOK == TypeOK /\ Recorder => TypeOK'
<1> SUFFICES ASSUME TypeOK, Recorder PROVE TypeOK'
  OBVIOUS
<1> USE DEF xVars, recVars, monVars, ttlVars, history
<1>1. CASE NoRecordExtension \/ EnableContext
  BY <1>1 DEF NoRecordExtension, EnableContext, TypeOK
<1>2. CASE CreateContext
  <2>1. ctx' \in BOOLEAN
    BY <1>2, Zenon DEF CreateContext
  <2> QED
    BY <1>2, <2>1 DEF CreateContext, TypeOK
<1>3. CASE Stroke
  <2>1. pending' \in BOOLEAN /\ strokedSinceSample' \in BOOLEAN /\ strokedSinceIdle' \in BOOLEAN
    BY <1>3, Zenon DEF Stroke
  <2>2. 0 \in Age
    BY HorizonType DEF Age
  <2> QED
    BY <1>3, <2>1, <2>2 DEF Stroke, TypeOK
<1> QED
  BY <1>1, <1>2, <1>3 DEF Recorder

\* Every step of the monitoring thread preserves the types.
LEMMA MonitorTypeOK == TypeOK /\ Monitor => TypeOK'
<1> SUFFICES ASSUME TypeOK, Monitor PROVE TypeOK'
  OBVIOUS
<1> USE DEF xVars, recVars, monVars, ttlVars, history
<1>1. CASE StartMonitor
  <2>1. /\ idleTtl' \in 0 .. Idle /\ timeoutTtl' \in 0 .. Timeout
        /\ strokedSinceSample' \in BOOLEAN
    BY <1>1, SampleType DEF StartMonitor
  <2>2. lastIdleTtl' \in 0 .. Idle
    BY <1>1, TtlType, WatchdogAssumption DEF StartMonitor, TypeOK
  <2>3. running' \in BOOLEAN
    BY <1>1, Zenon DEF StartMonitor
  <2> QED
    BY <1>1, <2>1, <2>2, <2>3 DEF StartMonitor, TypeOK
<1>2. CASE CheckIdle
  <2>1. isIdle' \in BOOLEAN
    BY <1>2 DEF CheckIdle
  <2>2. strokedSinceIdle' \in BOOLEAN
    BY <1>2, Zenon DEF CheckIdle, TypeOK
  <2>3. mon' \in {"on_idle", "expiry"}
    BY <1>2, Zenon DEF CheckIdle
  <2> QED
    BY <1>2, <2>1, <2>2, <2>3 DEF CheckIdle, TypeOK
<1>3. CASE OnIdle \/ CheckExpiry
  BY <1>3 DEF OnIdle, CheckExpiry, TypeOK
<1>4. ASSUME NEW ok \in BOOLEAN, OnTimeout(ok) PROVE TypeOK'
  BY <1>4 DEF OnTimeout, Shutdown, TypeOK
<1>5. CASE Stop
  <2>1. running' \in BOOLEAN
    BY <1>5, Zenon DEF Stop, TypeOK
  <2>2. mon' \in {"done", "sleep"} /\ timer' \in 0 .. 4
    BY <1>5 DEF Stop, TypeOK
  <2>3. rec' \in {"off", "starting", "created", "recording", "returned", "failed"}
    BY <1>5 DEF Stop, TypeOK
  <2> QED
    BY <1>5, <2>1, <2>2, <2>3 DEF Stop, TypeOK
<1>6. CASE WakeUp
  <2>1. /\ idleTtl' \in 0 .. Idle /\ timeoutTtl' \in 0 .. Timeout
        /\ strokedSinceSample' \in BOOLEAN
    BY <1>6, SampleType DEF WakeUp
  <2>2. mon' \in {"check", "done"}
    BY <1>6, Zenon DEF WakeUp
  <2> QED
    BY <1>6, <2>1, <2>2 DEF WakeUp, TypeOK
<1> QED
  BY <1>1, <1>2, <1>3, <1>4, <1>5, <1>6 DEF Monitor

\* Every step preserves the types.
LEMMA NextTypeOK == TypeOK /\ [Next]_vars => TypeOK'
<1> SUFFICES ASSUME TypeOK, [Next]_vars PROVE TypeOK'
  OBVIOUS
<1> USE DEF xVars, recVars, monVars, ttlVars, history
<1>1. CASE UNCHANGED vars
  BY <1>1 DEF vars, TypeOK
<1>2. CASE XStart
  <2>1. ready' \in BOOLEAN
    BY <1>2, Zenon DEF XStart
  <2> QED
    BY <1>2, <2>1 DEF XStart, TypeOK
<1>3. ASSUME NEW killed \in BOOLEAN, XStop(killed) PROVE TypeOK'
  <2>1. ready' \in BOOLEAN
    BY <1>3, Zenon DEF XStop
  <2> QED
    BY <1>3, <2>1 DEF XStop, TypeOK
<1>4. CASE UserInput
  <2>1. pending' \in BOOLEAN /\ 0 \in Age
    BY <1>4, HorizonType DEF UserInput, Age
  <2>2. unheard' \in BOOLEAN
    BY <1>4, Zenon DEF UserInput
  <2> QED
    BY <1>4, <2>1, <2>2 DEF UserInput, TypeOK
<1>5. CASE Tick
  <2>1. input' \in Age /\ lastEvent' \in Age
    BY <1>5, OlderType DEF Tick, TypeOK
  <2>2. timer' \in 0 .. 4
    BY <1>5 DEF Tick, TypeOK, Larger
  <2> QED
    BY <1>5, <2>1, <2>2 DEF Tick, TypeOK
<1> QED
  BY <1>1, <1>2, <1>3, <1>4, <1>5, EntrypointTypeOK, RecorderTypeOK, MonitorTypeOK
     DEF Next

\* Every variable of the watchdog keeps its type; in particular the times to
\* live are never negative.
THEOREM WatchdogTypeCorrect == Spec => []TypeOK
  BY InitTypeOK, NextTypeOK, PTL DEF Spec
-----------------------------------------------------------------------------
(* The decision to expire.                                                 *)

\* Between a sample and the decision made from it, the time to live and the
\* time since the last event make up the timeout, or there was a stroke; when
\* it has been decided to expire, the time to live is up.
SampleHolds ==
    /\ mon \in {"check", "on_idle", "expiry", "on_timeout"}
          => strokedSinceSample \/ 2 * timeoutTtl + lastEvent >= 2 * Timeout
    /\ mon = "on_timeout" => timeoutTtl <= 0

\* Every step preserves SampleHolds.
LEMMA NextSampleHolds == TypeOK /\ SampleHolds /\ [Next]_vars => SampleHolds'
<1> SUFFICES ASSUME TypeOK, SampleHolds, [Next]_vars PROVE SampleHolds'
  OBVIOUS
<1> USE DEF xVars, recVars, monVars, ttlVars, history
<1>1. CASE UNCHANGED <<mon, timeoutTtl, lastEvent, strokedSinceSample>>
  BY <1>1 DEF SampleHolds
<1>2. CASE Tick
  <2>1. lastEvent' >= lastEvent /\ lastEvent \in Int /\ lastEvent' \in Int
    BY <1>2, OlderType DEF Tick, TypeOK, Age
  <2>2. mon' = mon /\ strokedSinceSample' = strokedSinceSample
    BY <1>2 DEF Tick
  <2>3. timeoutTtl' = timeoutTtl
    BY <1>2 DEF Tick
  <2>4. 2 * timeoutTtl + lastEvent >= 2 * Timeout
           => 2 * timeoutTtl' + lastEvent' >= 2 * Timeout
    <3>1. 2 * timeoutTtl \in Int /\ 2 * Timeout \in Int
      BY WatchdogAssumption DEF TypeOK
    <3>2. \A a, b, c, d \in Int : a + b >= d /\ c >= b => a + c >= d
      OBVIOUS
    <3> QED
      BY <2>1, <2>3, <3>1, <3>2
  <2> QED
    BY <2>2, <2>3, <2>4 DEF SampleHolds
<1>3. CASE Connect \/ Restart
  BY <1>3 DEF Connect, NewThreads, Restart, SampleHolds
<1>4. CASE Stroke
  BY <1>4 DEF Stroke, SampleHolds
<1>5. CASE StartMonitor \/ WakeUp
  <2>1. 2 * timeoutTtl' + lastEvent >= 2 * Timeout
    BY <1>5, SampleType DEF StartMonitor, WakeUp
  <2>2. lastEvent' = lastEvent /\ mon' \in {"check", "done"}
    BY <1>5 DEF StartMonitor, WakeUp
  <2> QED
    BY <2>1, <2>2 DEF SampleHolds
<1>6. CASE CheckIdle \/ OnIdle
  BY <1>6 DEF CheckIdle, OnIdle, SampleHolds
<1>7. CASE CheckExpiry
  BY <1>7 DEF CheckExpiry, SampleHolds
<1>8. ASSUME NEW ok \in BOOLEAN, OnTimeout(ok) PROVE SampleHolds'
  BY <1>8 DEF OnTimeout, SampleHolds
<1>9. CASE Stop
  BY <1>9 DEF Stop, SampleHolds
<1> QED
  BY <1>1, <1>2, <1>3, <1>4, <1>5, <1>6, <1>7, <1>8, <1>9
     DEF Next, vars, Entrypoint, Recorder, Monitor, XStart, XStop, UserInput,
         WaitForX, GiveUpOnX, XIsReady, RetryConnect, Exit, NoRecordExtension,
         CreateContext, EnableContext

\* The watchdog never decides to expire while its sample says otherwise: no
\* event was recorded for the whole timeout, but for one after the sample.
THEOREM ExpiryCorrect == Spec => []ExpiryAgreesWithSample
<1>1. Init => SampleHolds
  BY DEF Init, SampleHolds
<1>2. TypeOK /\ SampleHolds /\ [Next]_vars => SampleHolds'
  BY NextSampleHolds
<1>3. TypeOK /\ SampleHolds => ExpiryAgreesWithSample
  <2> SUFFICES ASSUME TypeOK, SampleHolds, mon = "on_timeout", ~strokedSinceSample
               PROVE  lastEvent >= 2 * Timeout
    BY DEF ExpiryAgreesWithSample
  <2>1. timeoutTtl \in Int /\ lastEvent \in Int /\ Timeout \in Int
    BY WatchdogAssumption, HorizonType DEF TypeOK, Age
  <2> QED
    BY <2>1 DEF SampleHolds
<1> QED
  BY <1>1, <1>2, <1>3, WatchdogTypeCorrect, PTL DEF Spec
-----------------------------------------------------------------------------
(* Input and what the watchdog knows of it.                                *)

\* While a monitor runs, the last event it knows of is no older than the last
\* input, unless nothing recorded that input or the callback has not had it.
HeardHolds == mon # "off" => lastEvent <= input \/ unheard \/ pending

\* Ages grow together.
LEMMA OlderMonotone ==
    ASSUME NEW a \in Age, NEW b \in Age, a <= b
    PROVE  Older(a) <= Older(b)
  BY HorizonType DEF Older, Age

\* Every step preserves HeardHolds.
LEMMA NextHeardHolds == TypeOK /\ HeardHolds /\ [Next]_vars => HeardHolds'
<1> SUFFICES ASSUME TypeOK, HeardHolds, [Next]_vars PROVE HeardHolds'
  OBVIOUS
<1> USE DEF xVars, recVars, monVars, ttlVars, history
<1>0. lastEvent \in Age /\ input \in Age /\ 0 \in Age /\ \A a \in Age : 0 <= a
  BY HorizonType DEF TypeOK, Age
<1>1. CASE UNCHANGED <<lastEvent, input, unheard, pending>> /\ (mon' # "off" => mon # "off")
  BY <1>1 DEF HeardHolds
<1>2. CASE UserInput
  <2>1. pending' \/ unheard'
    BY <1>2, Zenon DEF UserInput
  <2> QED
    BY <2>1 DEF HeardHolds
<1>3. CASE Tick
  <2>1. lastEvent' = Older(lastEvent) /\ input' = Older(input)
           /\ UNCHANGED <<mon, unheard, pending>>
    BY <1>3 DEF Tick
  <2> QED
    BY <1>0, <2>1, OlderMonotone DEF HeardHolds
<1>4. CASE Connect \/ Stroke
  <2>1. lastEvent' = 0 /\ input' = input
    BY <1>4 DEF Connect, NewThreads, Stroke
  <2> QED
    BY <1>0, <2>1 DEF HeardHolds
<1>5. CASE Restart
  BY <1>5 DEF Restart, HeardHolds
<1>6. CASE Monitor
  <2>1. UNCHANGED <<lastEvent, input, unheard, pending>> /\ mon # "off"
    BY <1>6 DEF Monitor, StartMonitor, CheckIdle, OnIdle, CheckExpiry, OnTimeout,
         Stop, WakeUp
  <2> QED
    BY <1>1, <2>1
<1> QED
  BY <1>1, <1>2, <1>3, <1>4, <1>5, <1>6
     DEF Next, vars, Entrypoint, Recorder, XStart, XStop, WaitForX, GiveUpOnX,
         XIsReady, RetryConnect, Exit, NoRecordExtension, CreateContext, EnableContext

\* No session is given up while its user is active, whatever the limits, the
\* stops of the X server and the interleaving of input with the two threads.
THEOREM ActiveUsersKept == Spec => []ActiveUserIsKept
<1>1. Init => SampleHolds /\ HeardHolds
  BY DEF Init, SampleHolds, HeardHolds
<1>2. TypeOK /\ SampleHolds /\ [Next]_vars => SampleHolds'
  BY NextSampleHolds
<1>3. TypeOK /\ HeardHolds /\ [Next]_vars => HeardHolds'
  BY NextHeardHolds
<1>4. TypeOK /\ SampleHolds /\ HeardHolds => ActiveUserIsKept
  <2> SUFFICES ASSUME TypeOK, SampleHolds, HeardHolds, mon = "on_timeout",
                      ~unheard, ~strokedSinceSample, ~pending
               PROVE  input >= 2 * Timeout
    BY DEF ActiveUserIsKept
  <2>1. timeoutTtl \in Int /\ lastEvent \in Int /\ input \in Int /\ Timeout \in Int
    BY WatchdogAssumption, HorizonType DEF TypeOK, Age
  <2>2. timeoutTtl <= 0 /\ 2 * timeoutTtl + lastEvent >= 2 * Timeout /\ lastEvent <= input
    BY DEF SampleHolds, HeardHolds
  <2> QED
    BY <2>1, <2>2
<1> QED
  BY <1>1, <1>2, <1>3, <1>4, WatchdogTypeCorrect, PTL DEF Spec
-----------------------------------------------------------------------------
(* Idle detection.                                                         *)

Sampled == {"check", "on_idle", "expiry", "on_timeout", "stop", "sleep"}

\* While nothing has stroked the watchdog since the sample of the last run of
\* on_idle, every sample shows the user idle, the one before it too.
IdleHolds ==
    /\ mon = "check" => strokedSinceSample \/ 2 * idleTtl + lastEvent >= 2 * Idle
    /\ mon = "starting" => strokedSinceIdle
    /\ ~strokedSinceIdle => lastEvent >= 2 * Idle
    /\ ~strokedSinceIdle /\ mon \in Sampled => idleTtl = 0
    /\ ~strokedSinceIdle /\ mon = "check" => lastIdleTtl = 0

\* A sample taken when nothing was recorded for the idle limit shows it.
LEMMA IdleSample ==
    ASSUME TypeOK, Sample
    PROVE  /\ 2 * idleTtl' + lastEvent >= 2 * Idle
           /\ lastEvent >= 2 * Idle => idleTtl' = 0
<1> DEFINE s == lastEvent \div 2
<1>1. lastEvent \in Nat /\ Idle \in Nat
  BY WatchdogAssumption, HorizonType DEF TypeOK, Age
<1>2. s \in Nat /\ (lastEvent >= 2 * Idle => s >= Idle)
  BY <1>1
<1> HIDE DEF s
<1>3. lastEvent >= 2 * Idle => Larger(0, Idle - s) = 0
  BY <1>1, <1>2 DEF Larger
<1>4. 2 * Ttl(Idle) + lastEvent >= 2 * Idle
  BY <1>1, TtlType DEF TypeOK
<1> QED
  BY <1>3, <1>4 DEF Sample, Ttl, s

\* Every step preserves IdleHolds.
LEMMA NextIdleHolds == TypeOK /\ IdleHolds /\ [Next]_vars => IdleHolds'
<1> SUFFICES ASSUME TypeOK, IdleHolds, [Next]_vars PROVE IdleHolds'
  OBVIOUS
<1> USE DEF xVars, recVars, monVars, ttlVars, history
<1>1. CASE UNCHANGED <<mon, idleTtl, lastIdleTtl, lastEvent, strokedSinceSample,
                      strokedSinceIdle>>
  BY <1>1 DEF IdleHolds, Sampled
<1>2. CASE Tick
  <2>1. lastEvent' >= lastEvent /\ lastEvent \in Int /\ lastEvent' \in Int
    BY <1>2, OlderType DEF Tick, TypeOK, Age
  <2>2. UNCHANGED <<mon, idleTtl, lastIdleTtl, history>>
    BY <1>2 DEF Tick
  <2>3. 2 * idleTtl \in Int /\ 2 * Idle \in Int
    BY WatchdogAssumption DEF TypeOK
  <2>4. \A a, b, c, d \in Int : a + b >= d /\ c >= b => a + c >= d
    OBVIOUS
  <2>5. /\ 2 * idleTtl + lastEvent >= 2 * Idle => 2 * idleTtl' + lastEvent' >= 2 * Idle
        /\ lastEvent >= 2 * Idle => lastEvent' >= 2 * Idle
    BY <2>1, <2>2, <2>3, <2>4
  <2> QED
    BY <2>2, <2>5 DEF IdleHolds, Sampled
<1>3. CASE Connect \/ Restart
  BY <1>3 DEF Connect, NewThreads, Restart, IdleHolds, Sampled
<1>4. CASE Stroke
  BY <1>4 DEF Stroke, IdleHolds, Sampled
<1>5. CASE StartMonitor
  <2>1. 2 * idleTtl' + lastEvent >= 2 * Idle
    BY <1>5, IdleSample DEF StartMonitor
  <2>2. lastEvent' = lastEvent /\ mon' = "check" /\ strokedSinceIdle'
    BY <1>5 DEF StartMonitor, IdleHolds
  <2> QED
    BY <2>1, <2>2 DEF IdleHolds
<1>6. CASE WakeUp
  <2>1. /\ 2 * idleTtl' + lastEvent >= 2 * Idle
        /\ lastEvent >= 2 * Idle => idleTtl' = 0
    BY <1>6, IdleSample DEF WakeUp
  <2>2. /\ lastEvent' = lastEvent
        /\ lastIdleTtl' = idleTtl
        /\ strokedSinceIdle' = strokedSinceIdle
        /\ mon = "sleep" /\ mon' \in {"check", "done"}
    BY <1>6 DEF WakeUp
  <2> QED
    BY <2>1, <2>2 DEF IdleHolds, Sampled
<1>7. CASE CheckIdle
  <2>1. CASE IdleDetected
    <3>1. /\ mon' = "on_idle" /\ strokedSinceIdle' = strokedSinceSample
          /\ UNCHANGED <<idleTtl, lastEvent>>
      BY <1>7, <2>1 DEF CheckIdle
    <3>2. idleTtl = 0
      BY <2>1 DEF IdleDetected, TypeOK
    <3>3. mon = "check" /\ lastEvent \in Int /\ Idle \in Int
      BY <1>7, WatchdogAssumption, HorizonType DEF CheckIdle, TypeOK, Age
    <3>4. strokedSinceSample \/ lastEvent >= 2 * Idle
      BY <3>2, <3>3 DEF IdleHolds
    <3> QED
      BY <3>1, <3>2, <3>4 DEF IdleHolds
  <2>2. CASE ~IdleDetected
    BY <1>7, <2>2 DEF CheckIdle, IdleHolds, Sampled
  <2> QED
    BY <2>1, <2>2
<1>8. CASE OnIdle \/ CheckExpiry
  BY <1>8 DEF OnIdle, CheckExpiry, IdleHolds, Sampled
<1>9. ASSUME NEW ok \in BOOLEAN, OnTimeout(ok) PROVE IdleHolds'
  BY <1>9 DEF OnTimeout, IdleHolds, Sampled
<1>10. CASE Stop
  BY <1>10 DEF Stop, IdleHolds, Sampled
<1> QED
  BY <1>1, <1>2, <1>3, <1>4, <1>5, <1>6, <1>7, <1>8, <1>9, <1>10
     DEF Next, vars, Entrypoint, Recorder, Monitor, XStart, XStop, UserInput,
         WaitForX, GiveUpOnX, XIsReady, RetryConnect, Exit, NoRecordExtension,
         CreateContext, EnableContext

\* on_idle runs at most once per idle period, whatever the limits and however
\* samples, strokes and callbacks interleave.
THEOREM IdleCorrect == Spec => OnIdleOncePerPeriod
<1>1. Init => IdleHolds
  BY DEF Init, IdleHolds, Sampled
<1>2. TypeOK /\ IdleHolds /\ [Next]_vars => IdleHolds'
  BY NextIdleHolds
<1>3. TypeOK /\ IdleHolds /\ [Next]_vars
      => [mon = "check" /\ mon' = "on_idle" => strokedSinceIdle]_vars
  <2> SUFFICES ASSUME TypeOK, IdleHolds, [Next]_vars, mon = "check", mon' = "on_idle"
               PROVE  strokedSinceIdle
    OBVIOUS
  <2>1. IdleDetected
    BY DEF Next, vars, xVars, recVars, monVars, ttlVars, history, Entrypoint,
           Recorder, Monitor, XStart, XStop, UserInput, Tick, WaitForX, GiveUpOnX,
           XIsReady, RetryConnect, Connect, NewThreads, Exit, Restart, NoRecordExtension,
           CreateContext, EnableContext, Stroke, StartMonitor, CheckIdle, OnIdle,
           CheckExpiry, OnTimeout, Stop, WakeUp
  <2>2. idleTtl # lastIdleTtl /\ idleTtl <= 0 /\ idleTtl \in 0 .. Idle
    BY <2>1 DEF IdleDetected, TypeOK
  <2> QED
    BY <2>2 DEF IdleHolds, Sampled
<1> QED
  BY <1>1, <1>2, <1>3, WatchdogTypeCorrect, PTL DEF Spec, OnIdleOncePerPeriod
=============================================================================
