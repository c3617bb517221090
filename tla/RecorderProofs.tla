-------------------------- MODULE RecorderProofs ---------------------------
(***************************************************************************)
(* Proofs about Recorder, for any windows, sizes, changes, failures and    *)
(* slow ends.                                                              *)
(***************************************************************************)
EXTENDS Recorder, TLAPS

Early == {"wait", "mkdir", "note"}

Passing ==
    {"top", "measure", "reread", "each", "find", "compare", "kill", "start",
     "sleep"}

\* From the answer of the broker on there is a directory to use.
DestKnown == pc \in {"mkdir", "note"} \cup Passing => dest \in Place

\* The desktop and the windows have passes of their own.
PassOfKind ==
    /\ pc \in {"measure", "reread"} => ~xpra
    /\ pc \in {"each", "find", "compare"} => xpra

\* Between pgrep and the start the script is at a screen.
AtScreen ==
    pc \in {"measure", "reread", "find", "compare", "kill", "start"} =>
        target \in Screen

\* What is measured can be recorded.
SizesFit ==
    /\ ~xpra => \A w \in Screen : size[w] <= Limit
    /\ xpra /\ pc \in {"find", "compare", "kill", "start"} => cur <= Limit

\* Nothing runs on the screen for which a recording is about to start.
NothingRuns ==
    pc \in {"reread", "start"} \/ (pc = "measure" /\ found = 0) =>
        live[target] = <<>>

\* Recordings run only while the script makes its passes.
LiveInPasses == \A w \in Screen : live[w] # <<>> => pc \in Passing

\* The note is that of the present script, or there is none yet.
NoteIsPresent ==
    /\ pc \in Early => noted = "none"
    /\ pc \in Passing => noted = dest /\ dest # "none"
    /\ pc = "exit" /\ pod = "up" => noted = "none"

\* The hook removes something only after the script has started its passes.
HookIsLate ==
    /\ pod = "up" => hook = "none"
    /\ pc \in Early => hook \in {"none", "test", "missing"}
    /\ ~others => hook \in {"rmdir", "removed", "kept"}

\* A container that never restarted has one directory, and the hook takes it.
FreshDisk ==
    ~restarted =>
        /\ pc = "exit" => pod = "gone"
        /\ files \subseteq dirs
        /\ dirs \subseteq {dest}
        /\ pc \in {"wait", "mkdir"} => dirs = {}
        /\ hook = "removed" => dirs = {}
        /\ files # {} => noted # "none"
        /\ pod # "up" => hook # "none"

RecorderInv ==
    /\ TypeOK
    /\ DestKnown
    /\ PassOfKind
    /\ AtScreen
    /\ SizesFit
    /\ NothingRuns
    /\ LiveInPasses
    /\ NoteIsPresent
    /\ HookIsLate
    /\ FreshDisk
    /\ OneRecordingPerScreen
    /\ OthersAreKept

\* Which screens there are never changes.
LEMMA ScreenStays == [Next]_vars => Screen' = Screen /\ xpra' = xpra
<1> SUFFICES ASSUME [Next]_vars PROVE xpra' = xpra
  BY DEF Screen
<1> QED
  BY DEF Next, Script, Hook, vars, envVars, gstVars, scriptVars, passVars,
       diskVars, podVars, SessionStarts, XpraFlag, ShowOrHide, Resize, Crash,
       Ended, NextFile, AwaitSession, MakeDir, NoteDir, FindDesktop,
       MeasureDesktop, Reread, ListWindows, MeasureWindow, EndPass, FindWindow,
       Compare, Kill, Start, Wake, ContainerDies, Restart, DeletePod, HookTest,
       HookUnlink, HookRmdir, PodKilled

\* The types of sequences of recordings are kept by what the actions do to them.
LEMMA Recordings ==
    \A s, t \in Seq(Recording) :
        /\ s \o t \in Seq(Recording)
        /\ s # <<>> => Tail(s) \in Seq(Recording) /\ Len(Tail(s)) = Len(s) - 1
        /\ \A i \in DOMAIN s : RemoveAt(s, i) \in Seq(Recording)
        /\ Len(s \o t) = Len(s) + Len(t)
        /\ Len(s) = 0 <=> s = <<>>
        /\ Len(s) \in Nat
  BY DEF RemoveAt

\* Two numbers add up to nothing only if they are nothing.
LEMMA SumOfNone == \A m, n \in Nat : m + n \in Nat /\ (m + n = 0 => m = 0)
  OBVIOUS

\* Where the measuring of the desktop leads, and what it changes.
LEMMA AfterMeasure ==
    ASSUME TypeOK, MeasureDesktop
    PROVE  /\ pc = "measure" /\ ~xpra
           /\ pc' \in {"reread", "kill", "sleep"}
           /\ pc' = "kill" => recRes # cur'
           /\ UNCHANGED <<envVars, gstVars, dest, recRes, todo, target, found, noted>>
<1>1. found > 0 \/ found = 0
  BY DEF TypeOK
<1>2. CASE found = 0
  BY <1>2 DEF MeasureDesktop
<1>3. CASE found > 0 /\ recRes # cur'
  BY <1>3 DEF MeasureDesktop
<1>4. CASE found > 0 /\ recRes = cur'
  BY <1>4 DEF MeasureDesktop
<1> QED
  BY <1>1, <1>2, <1>3, <1>4

\* Where pgrep for a window leads, and what it changes.
LEMMA AfterFind ==
    ASSUME TypeOK, AtScreen, FindWindow
    PROVE  /\ pc = "find" /\ target \in Screen
           /\ pc' \in {"compare", "start", "each"}
           /\ pc' = "start" => found' = 0
           /\ found' = Len(live[target]) + Len(dying[target])
           /\ found' = 0 => live[target] = <<>>
           /\ UNCHANGED <<envVars, gstVars, dest, recRes, todo, target, noted>>
<1>1. pc = "find" /\ target \in Screen
  BY DEF FindWindow, AtScreen
<1>2. live[target] \in Seq(Recording) /\ dying[target] \in Seq(Recording)
  BY <1>1 DEF TypeOK
<1>3. found' = Len(live[target]) + Len(dying[target])
  BY <1>2, Recordings DEF FindWindow, Running
<1>4. Len(live[target]) \in Nat /\ Len(dying[target]) \in Nat
  BY <1>2
<1>5. Len(live[target]) = 0 => live[target] = <<>>
  BY <1>2, Recordings, Zenon
<1>6. found' \in Nat /\ (found' = 0 => live[target] = <<>>)
  BY <1>3, <1>4, <1>5, SumOfNone, Zenon
<1>7. pc' \in {"compare", "start", "each"} /\ (pc' = "start" => found' = 0)
  <2>1. found' > 0 \/ found' = 0
    BY <1>6
  <2>2. CASE found' > 0
    BY <2>2 DEF FindWindow
  <2>3. CASE found' = 0
    BY <2>3 DEF FindWindow
  <2> QED
    BY <2>1, <2>2, <2>3
<1> QED
  BY <1>1, <1>3, <1>6, <1>7 DEF FindWindow

\* Every step keeps the types.
LEMMA TypeStep ==
    TypeOK /\ DestKnown /\ PassOfKind /\ AtScreen /\ SizesFit /\ [Next]_vars =>
        TypeOK'
<1> SUFFICES ASSUME TypeOK, DestKnown, PassOfKind, AtScreen, SizesFit,
                    [Next]_vars
             PROVE  TypeOK'
  OBVIOUS
<1> USE RecorderAssumption DEF vars, envVars, gstVars, scriptVars, passVars,
     diskVars, podVars
<1>0. Screen' = Screen
  BY ScreenStays
<1>1. CASE SessionStarts
  BY <1>0, <1>1, Recordings, ScreenStays DEF TypeOK, SessionStarts
<1>2. CASE XpraFlag
  BY <1>0, <1>2, Recordings, ScreenStays DEF TypeOK, XpraFlag
<1>3. ASSUME NEW w \in Screen, ShowOrHide(w) PROVE TypeOK'
  BY <1>0, <1>3, Recordings, ScreenStays DEF TypeOK, ShowOrHide
<1>4. ASSUME NEW w \in Screen, Resize(w) PROVE TypeOK'
  BY <1>0, <1>4, Recordings, ScreenStays DEF TypeOK, Resize
<1>5. ASSUME NEW w \in Screen, NextFile(w) PROVE TypeOK'
  BY <1>0, <1>5, Recordings, ScreenStays DEF TypeOK, NextFile
<1>6. ASSUME NEW w \in Screen, Crash(w) PROVE TypeOK'
  BY <1>0, <1>6, Recordings, ScreenStays DEF TypeOK, Crash
<1>7. ASSUME NEW w \in Screen, Ended(w) PROVE TypeOK'
  <2>1. PICK i \in DOMAIN dying[w] : dying' = [dying EXCEPT ![w] = RemoveAt(@, i)]
    BY <1>7 DEF Ended
  <2>2. RemoveAt(dying[w], i) \in Seq(Recording)
    BY Recordings DEF TypeOK
  <2>3. dying' \in [Screen -> Seq(Recording)]
    BY <2>1, <2>2 DEF TypeOK
  <2> QED
    BY <1>0, <1>7, <2>3, ScreenStays DEF TypeOK, Ended
<1>8. CASE AwaitSession
  BY <1>0, <1>8, Recordings, ScreenStays DEF TypeOK, AwaitSession
<1>9. CASE MakeDir
  BY <1>0, <1>9, ScreenStays DEF TypeOK, DestKnown, MakeDir
<1>10. CASE NoteDir
  <2>1. ~xpra => Measured(Root) \in 0 .. Limit
    BY DEF TypeOK, SizesFit, Measured, Screen
  <2>2. dest \in Place
    BY <1>10 DEF DestKnown, NoteDir
  <2> QED
    BY <1>0, <1>10, <2>1, <2>2, Recordings, ScreenStays DEF TypeOK, NoteDir
<1>11. CASE FindDesktop
  BY <1>0, <1>11, Recordings, ScreenStays DEF TypeOK, FindDesktop
<1>12. CASE MeasureDesktop
  <2>1. ~xpra
    BY <1>12 DEF MeasureDesktop
  <2>2. Measured(Root) \in 0 .. Limit
    BY <2>1 DEF TypeOK, SizesFit, Measured, Screen
  <2> QED
    BY <1>0, <1>12, <2>2, Recordings, ScreenStays DEF TypeOK, MeasureDesktop
<1>13. CASE Reread
  <2>1. ~xpra
    BY <1>13 DEF Reread, PassOfKind
  <2>2. Measured(Root) \in 0 .. Limit
    BY <2>1 DEF TypeOK, SizesFit, Measured, Screen
  <2> QED
    BY <1>0, <1>13, <2>2, Recordings, ScreenStays DEF TypeOK, Reread
<1>14. CASE ListWindows
  BY <1>0, <1>14, Recordings, ScreenStays DEF TypeOK, ListWindows
<1>15. CASE EndPass \/ FindWindow \/ Compare
  BY <1>0, <1>15, Recordings, ScreenStays DEF TypeOK, EndPass, FindWindow,
       Compare
<1>16. CASE MeasureWindow
  <2> PICK w \in todo : MeasureWindow!2!(w)
    BY <1>16 DEF MeasureWindow
  <2>1. xpra /\ w \in Screen
    BY <1>16 DEF TypeOK, PassOfKind, MeasureWindow, Screen
  <2>2. viewable' \in BOOLEAN
    BY Zenon
  <2>3. Measured(w) \in 0 .. Limit + 1
    BY <2>1 DEF TypeOK, Measured
  <2>4. size' \in [Screen -> 1 .. Limit + 1]
    BY <2>1 DEF TypeOK
  <2> QED
    BY <1>0, <1>16, <2>1, <2>2, <2>3, <2>4, ScreenStays DEF TypeOK,
         MeasureWindow
<1>17. CASE Wake
  BY <1>0, <1>17, Recordings, ScreenStays DEF TypeOK, Wake
<1>18. CASE Kill
  <2>1. target \in Screen
    BY <1>18 DEF AtScreen, Kill
  <2>2. live[target] \in Seq(Recording) /\ dying[target] \in Seq(Recording)
    BY <2>1 DEF TypeOK
  <2>3. live' \in [Screen -> Seq(Recording)]
    BY <1>18, <2>1 DEF TypeOK, Kill
  <2>4. dying' \in [Screen -> Seq(Recording)]
    BY <1>18, <2>1, <2>2, Recordings DEF TypeOK, Kill
  <2>5. pc' \in {"start", "reread"}
    BY <1>18 DEF Kill, AfterKill
  <2> QED
    BY <1>0, <1>18, <2>3, <2>4, <2>5, Recordings, ScreenStays DEF TypeOK, Kill
<1>19. CASE Start
  <2>1. target \in Screen
    BY <1>19 DEF AtScreen, Start
  <2>2. Started \in Recording
    BY <1>19, <2>1 DEF TypeOK, SizesFit, Start, Started, Recording
  <2>3. Append(live[target], Started) \in Seq(Recording)
    BY <2>1, <2>2 DEF TypeOK
  <2>4. live' \in [Screen -> Seq(Recording)]
    BY <1>19, <2>1, <2>3 DEF TypeOK, Start
  <2>5. files' \subseteq Place
    BY <1>19 DEF TypeOK, Start
  <2>6. pc' \in {"each", "sleep"}
    BY <1>19 DEF Start, AfterStart
  <2> QED
    BY <1>0, <1>19, <2>4, <2>5, <2>6, Recordings, ScreenStays DEF TypeOK, Start
<1>20. CASE PodKilled
  BY <1>0, <1>20, Recordings, ScreenStays DEF TypeOK, PodKilled
<1>21. CASE ContainerDies
  BY <1>0, <1>21, Recordings, ScreenStays DEF TypeOK, ContainerDies
<1>22. CASE Restart
  BY <1>0, <1>22, Recordings, ScreenStays DEF TypeOK, Restart
<1>23. CASE HookRmdir
  BY <1>0, <1>23, Recordings, ScreenStays DEF TypeOK, HookRmdir
<1>24. CASE DeletePod
  BY <1>0, <1>24, Recordings, ScreenStays DEF TypeOK, DeletePod
<1>25. CASE HookTest
  BY <1>0, <1>25, Recordings, ScreenStays DEF TypeOK, HookTest
<1>26. CASE HookUnlink
  BY <1>0, <1>26, Recordings, ScreenStays DEF TypeOK, HookUnlink
<1>27. CASE UNCHANGED vars
  BY <1>0, <1>27, Recordings, ScreenStays DEF TypeOK
<1> QED
  BY <1>1, <1>2, <1>3, <1>4, <1>5, <1>6, <1>7, <1>8, <1>9, <1>10, <1>11, <1>12,
       <1>13, <1>14, <1>15, <1>16, <1>17, <1>18, <1>19, <1>20, <1>21, <1>22,
       <1>23, <1>24, <1>25, <1>26, <1>27 DEF Next, Script, Hook

\* Every step keeps the passes at their screens.
LEMMA KindStep ==
    TypeOK /\ DestKnown /\ PassOfKind /\ AtScreen /\ SizesFit /\ [Next]_vars =>
        (PassOfKind /\ AtScreen /\ SizesFit)'
<1> SUFFICES ASSUME TypeOK, DestKnown, PassOfKind, AtScreen, SizesFit,
                    [Next]_vars
             PROVE  (PassOfKind /\ AtScreen /\ SizesFit)'
  OBVIOUS
<1> USE RecorderAssumption DEF vars, envVars, gstVars, scriptVars, passVars,
     diskVars, podVars
<1>0. Screen' = Screen
  BY ScreenStays
<1>1. CASE SessionStarts \/ XpraFlag
  BY <1>0, <1>1, Recordings, ScreenStays DEF TypeOK, PassOfKind, AtScreen,
       SizesFit, Screen, SessionStarts, XpraFlag
<1>2. ASSUME NEW w \in Screen, ShowOrHide(w) \/ Resize(w)
      PROVE  (PassOfKind /\ AtScreen /\ SizesFit)'
  BY <1>0, <1>2, Recordings, ScreenStays DEF TypeOK, PassOfKind, AtScreen,
       SizesFit, Screen, ShowOrHide, Resize
<1>3. ASSUME NEW w \in Screen, Crash(w) \/ Ended(w) \/ NextFile(w)
      PROVE  (PassOfKind /\ AtScreen /\ SizesFit)'
  BY <1>0, <1>3, Recordings, ScreenStays DEF TypeOK, PassOfKind, AtScreen,
       SizesFit, Screen, Crash, Ended, RemoveAt, NextFile
<1>4. CASE AwaitSession \/ MakeDir \/ NoteDir
  BY <1>0, <1>4, Recordings, ScreenStays DEF TypeOK, PassOfKind, AtScreen,
       SizesFit, Screen, AwaitSession, MakeDir, NoteDir
<1>5. CASE FindDesktop \/ MeasureDesktop \/ Reread
  <2>1. CASE FindDesktop
    BY <1>0, <2>1, ScreenStays DEF TypeOK, PassOfKind, AtScreen, SizesFit, Screen,
         FindDesktop
  <2>2. CASE MeasureDesktop
    BY <1>0, <2>2, AfterMeasure, ScreenStays DEF PassOfKind, AtScreen, SizesFit
  <2>3. CASE Reread
    BY <1>0, <2>3, ScreenStays DEF PassOfKind, AtScreen, SizesFit, Reread
  <2> QED
    BY <1>5, <2>1, <2>2, <2>3
<1>6. CASE ListWindows
  BY <1>0, <1>6, Recordings, ScreenStays DEF TypeOK, PassOfKind, AtScreen,
       SizesFit, Screen, ListWindows
<1>7. CASE EndPass \/ Compare
  BY <1>0, <1>7, Recordings, ScreenStays DEF TypeOK, PassOfKind, AtScreen,
       SizesFit, Screen, EndPass, Compare
<1>8. CASE MeasureWindow
  BY <1>0, <1>8, Recordings, ScreenStays DEF TypeOK, PassOfKind, AtScreen,
       SizesFit, Screen, MeasureWindow
<1>9. CASE FindWindow
  BY <1>0, <1>9, Recordings, ScreenStays DEF TypeOK, PassOfKind, AtScreen,
       SizesFit, Screen, FindWindow
<1>10. CASE Kill \/ Start \/ Wake
  BY <1>0, <1>10, Recordings, ScreenStays DEF TypeOK, PassOfKind, AtScreen,
       SizesFit, Screen, Kill, AfterKill, Start, AfterStart, Started, Wake
<1>11. CASE ContainerDies \/ Restart \/ PodKilled
  BY <1>0, <1>11, Recordings, ScreenStays DEF TypeOK, PassOfKind, AtScreen,
       SizesFit, Screen, ContainerDies, Restart, PodKilled
<1>12. CASE DeletePod \/ HookTest \/ HookUnlink \/ HookRmdir
  BY <1>0, <1>12, Recordings, ScreenStays DEF TypeOK, PassOfKind, AtScreen,
       SizesFit, Screen, DeletePod, HookTest, HookUnlink, HookRmdir
<1>13. CASE UNCHANGED vars
  BY <1>0, <1>13, Recordings, ScreenStays DEF TypeOK, PassOfKind, AtScreen,
       SizesFit, Screen
<1> QED
  BY <1>1, <1>2, <1>3, <1>4, <1>5, <1>6, <1>7, <1>8, <1>9, <1>10, <1>11, <1>12,
       <1>13 DEF Next, Script, Hook

\* Every step keeps the recordings apart.
LEMMA RunsStep ==
    TypeOK /\ PassOfKind /\ AtScreen /\ NothingRuns /\ OneRecordingPerScreen /\
         [Next]_vars =>
        (NothingRuns /\ OneRecordingPerScreen)'
<1> SUFFICES ASSUME TypeOK, PassOfKind, AtScreen, NothingRuns,
                    OneRecordingPerScreen, [Next]_vars
             PROVE  (NothingRuns /\ OneRecordingPerScreen)'
  OBVIOUS
<1> USE RecorderAssumption DEF vars, envVars, gstVars, scriptVars, passVars,
     diskVars, podVars
<1>0. Screen' = Screen
  BY ScreenStays
<1>1. CASE SessionStarts \/ XpraFlag
  BY <1>0, <1>1, Recordings, ScreenStays DEF TypeOK, PassOfKind, AtScreen,
       NothingRuns, OneRecordingPerScreen, SessionStarts, XpraFlag
<1>2. ASSUME NEW w \in Screen, Resize(w)
      PROVE  (NothingRuns /\ OneRecordingPerScreen)'
  BY <1>0, <1>2, Recordings, ScreenStays DEF TypeOK, PassOfKind, AtScreen,
       NothingRuns, OneRecordingPerScreen, Resize
<1>3. ASSUME NEW w \in Screen, ShowOrHide(w)
      PROVE  (NothingRuns /\ OneRecordingPerScreen)'
  BY <1>0, <1>3, Recordings, ScreenStays DEF TypeOK, PassOfKind, AtScreen,
       NothingRuns, OneRecordingPerScreen, ShowOrHide
<1>4. ASSUME NEW w \in Screen, NextFile(w)
      PROVE  (NothingRuns /\ OneRecordingPerScreen)'
  BY <1>0, <1>4, Recordings, ScreenStays DEF TypeOK, PassOfKind, AtScreen,
       NothingRuns, OneRecordingPerScreen, NextFile
<1>5. ASSUME NEW w \in Screen, Crash(w)
      PROVE  (NothingRuns /\ OneRecordingPerScreen)'
  BY <1>0, <1>5, Recordings, ScreenStays DEF TypeOK, PassOfKind, AtScreen,
       NothingRuns, OneRecordingPerScreen, Crash
<1>6. ASSUME NEW w \in Screen, Ended(w)
      PROVE  (NothingRuns /\ OneRecordingPerScreen)'
  BY <1>0, <1>6, Recordings, ScreenStays DEF TypeOK, PassOfKind, AtScreen,
       NothingRuns, OneRecordingPerScreen, Ended, RemoveAt
<1>7. CASE AwaitSession \/ MakeDir \/ NoteDir
  BY <1>0, <1>7, Recordings, ScreenStays DEF TypeOK, PassOfKind, AtScreen,
       NothingRuns, OneRecordingPerScreen, AwaitSession, MakeDir, NoteDir
<1>8. CASE MeasureDesktop \/ Reread
  BY <1>0, <1>8, Recordings, ScreenStays DEF TypeOK, PassOfKind, AtScreen,
       NothingRuns, OneRecordingPerScreen, MeasureDesktop, Reread
<1>9. CASE FindDesktop
  <2>1. Root \in Screen
    BY <1>9 DEF FindDesktop, Screen
  <2>2. live[Root] \in Seq(Recording) /\ dying[Root] \in Seq(Recording)
    BY <2>1 DEF TypeOK
  <2>3. found' = Len(live[Root]) + Len(dying[Root])
    BY <1>9, <2>2, Recordings DEF FindDesktop, Running
  <2>4. Len(live[Root]) \in Nat /\ Len(dying[Root]) \in Nat
    BY <2>2
  <2>5. Len(live[Root]) = 0 => live[Root] = <<>>
    BY <2>2, Recordings, Zenon
  <2>6. found' = 0 => live[Root] = <<>>
    BY <2>3, <2>4, <2>5, SumOfNone, Zenon
  <2> QED
    BY <1>0, <1>9, <2>6 DEF TypeOK, NothingRuns, OneRecordingPerScreen,
         FindDesktop
<1>10. CASE ListWindows
  BY <1>0, <1>10, Recordings, ScreenStays DEF TypeOK, PassOfKind, AtScreen,
       NothingRuns, OneRecordingPerScreen, ListWindows
<1>11. CASE MeasureWindow \/ EndPass \/ Compare
  BY <1>0, <1>11, Recordings, ScreenStays DEF TypeOK, PassOfKind, AtScreen,
       NothingRuns, OneRecordingPerScreen, MeasureWindow, EndPass, Compare
<1>12. CASE FindWindow
  BY <1>0, <1>12, AfterFind DEF NothingRuns, OneRecordingPerScreen, gstVars
<1>13. CASE Wake
  BY <1>0, <1>13, Recordings, ScreenStays DEF TypeOK, PassOfKind, AtScreen,
       NothingRuns, OneRecordingPerScreen, Wake
<1>14. CASE Kill
  BY <1>0, <1>14, Recordings, ScreenStays DEF TypeOK, PassOfKind, AtScreen,
       NothingRuns, OneRecordingPerScreen, Kill, AfterKill
<1>15. CASE Start
  <2>1. target \in Screen /\ live[target] = <<>>
    BY <1>15 DEF Start, AtScreen, NothingRuns
  <2>2. Len(Append(live[target], Started)) = 1
    BY <2>1
  <2>3. ASSUME NEW w \in Screen PROVE Len(live'[w]) <= 1
    <3>1. live'[w] = live[w] \/ live'[w] = Append(live[target], Started)
      BY <1>15, <2>1 DEF TypeOK, Start
    <3> QED
      BY <2>2, <3>1 DEF OneRecordingPerScreen
  <2>4. pc' \in {"each", "sleep"}
    BY <1>15 DEF Start, AfterStart
  <2> QED
    BY <1>0, <2>3, <2>4 DEF NothingRuns, OneRecordingPerScreen
<1>16. CASE ContainerDies \/ Restart \/ PodKilled
  BY <1>0, <1>16, Recordings, ScreenStays DEF TypeOK, PassOfKind, AtScreen,
       NothingRuns, OneRecordingPerScreen, ContainerDies, Restart, PodKilled
<1>17. CASE DeletePod \/ HookTest \/ HookUnlink \/ HookRmdir
  BY <1>0, <1>17, Recordings, ScreenStays DEF TypeOK, PassOfKind, AtScreen,
       NothingRuns, OneRecordingPerScreen, DeletePod, HookTest, HookUnlink,
       HookRmdir
<1>18. CASE UNCHANGED vars
  BY <1>0, <1>18, Recordings, ScreenStays DEF TypeOK, PassOfKind, AtScreen,
       NothingRuns, OneRecordingPerScreen
<1> QED
  BY <1>1, <1>2, <1>3, <1>4, <1>5, <1>6, <1>7, <1>8, <1>9, <1>10, <1>11, <1>12,
       <1>13, <1>14, <1>15, <1>16, <1>17, <1>18 DEF Next, Script, Hook

\* Every step keeps the recordings to the passes.
LEMMA LiveStep ==
    TypeOK /\ AtScreen /\ LiveInPasses /\ [Next]_vars =>
        LiveInPasses'
<1> SUFFICES ASSUME TypeOK, AtScreen, LiveInPasses, [Next]_vars
             PROVE  LiveInPasses'
  OBVIOUS
<1> USE RecorderAssumption DEF vars, envVars, gstVars, scriptVars, passVars,
     diskVars, podVars
<1>0. Screen' = Screen
  BY ScreenStays
<1>1. CASE SessionStarts \/ XpraFlag
  BY <1>0, <1>1, ScreenStays DEF TypeOK, AtScreen, LiveInPasses, Passing,
       SessionStarts, XpraFlag
<1>2. ASSUME NEW w \in Screen, ShowOrHide(w) \/ Resize(w) PROVE LiveInPasses'
  BY <1>0, <1>2, ScreenStays DEF TypeOK, AtScreen, LiveInPasses, Passing,
       ShowOrHide, Resize
<1>3. ASSUME NEW w \in Screen, Crash(w) \/ Ended(w) \/ NextFile(w)
      PROVE  LiveInPasses'
  BY <1>0, <1>3, ScreenStays DEF TypeOK, AtScreen, LiveInPasses, Passing, Crash,
       Ended, RemoveAt, NextFile
<1>4. CASE AwaitSession \/ MakeDir \/ NoteDir
  BY <1>0, <1>4, ScreenStays DEF TypeOK, AtScreen, LiveInPasses, Passing,
       AwaitSession, MakeDir, NoteDir
<1>5. CASE FindDesktop \/ MeasureDesktop \/ Reread
  <2>1. live' = live /\ pc \in Passing /\ pc' \in Passing
    <3>1. CASE MeasureDesktop
      BY <3>1, AfterMeasure DEF Passing
    <3> QED
      BY <1>5, <3>1 DEF FindDesktop, Reread, Passing
  <2> QED
    BY <1>0, <2>1 DEF LiveInPasses
<1>6. CASE ListWindows
  <2>1. CASE xpraReady
    BY <1>0, <1>6, <2>1 DEF LiveInPasses, Passing, ListWindows
  <2>2. CASE ~xpraReady
    BY <1>0, <1>6, <2>2 DEF LiveInPasses, ListWindows
  <2> QED
    BY <2>1, <2>2
<1>7. CASE MeasureWindow \/ EndPass \/ FindWindow \/ Compare
  <2>1. live' = live /\ pc \in Passing /\ pc' \in Passing
    <3>1. CASE FindWindow
      BY <3>1, AfterFind DEF Passing
    <3> QED
      BY <1>7, <3>1 DEF MeasureWindow, EndPass, Compare, Passing
  <2> QED
    BY <1>0, <2>1 DEF LiveInPasses
<1>8. CASE Kill \/ Start \/ Wake
  BY <1>0, <1>8, ScreenStays DEF TypeOK, AtScreen, LiveInPasses, Passing, Kill,
       AfterKill, Start, AfterStart, Started, Wake
<1>9. CASE ContainerDies \/ Restart \/ PodKilled
  BY <1>0, <1>9, ScreenStays DEF TypeOK, AtScreen, LiveInPasses, Passing,
       ContainerDies, Restart, PodKilled
<1>10. CASE DeletePod \/ HookTest \/ HookUnlink \/ HookRmdir
  BY <1>0, <1>10, ScreenStays DEF TypeOK, AtScreen, LiveInPasses, Passing,
       DeletePod, HookTest, HookUnlink, HookRmdir
<1>11. CASE UNCHANGED vars
  BY <1>0, <1>11, ScreenStays DEF TypeOK, AtScreen, LiveInPasses, Passing
<1> QED
  BY <1>1, <1>2, <1>3, <1>4, <1>5, <1>6, <1>7, <1>8, <1>9, <1>10, <1>11 DEF
       Next, Script, Hook

\* Every step keeps the note and the hook in order.
LEMMA NoteStep ==
    TypeOK /\ DestKnown /\ NoteIsPresent /\ HookIsLate /\ OthersAreKept /\
         [Next]_vars =>
        (DestKnown /\ NoteIsPresent /\ HookIsLate /\ OthersAreKept)'
<1> SUFFICES ASSUME TypeOK, DestKnown, NoteIsPresent, HookIsLate,
                    OthersAreKept, [Next]_vars
             PROVE  (DestKnown /\ NoteIsPresent /\ HookIsLate /\ OthersAreKept)'
  OBVIOUS
<1> USE RecorderAssumption DEF vars, envVars, gstVars, scriptVars, passVars,
     diskVars, podVars
<1>0. Screen' = Screen
  BY ScreenStays
<1>1. CASE SessionStarts \/ XpraFlag
  BY <1>0, <1>1 DEF TypeOK, DestKnown, NoteIsPresent, HookIsLate, OthersAreKept,
       Early, Passing, Shared, Place, SessionStarts, XpraFlag
<1>2. ASSUME NEW w \in Screen, ShowOrHide(w) \/ Resize(w)
      PROVE  (DestKnown /\ NoteIsPresent /\ HookIsLate /\ OthersAreKept)'
  BY <1>0, <1>2 DEF TypeOK, DestKnown, NoteIsPresent, HookIsLate, OthersAreKept,
       Early, Passing, Shared, Place, ShowOrHide, Resize
<1>3. ASSUME NEW w \in Screen, Crash(w) \/ Ended(w) \/ NextFile(w)
      PROVE  (DestKnown /\ NoteIsPresent /\ HookIsLate /\ OthersAreKept)'
  BY <1>0, <1>3 DEF TypeOK, DestKnown, NoteIsPresent, HookIsLate, OthersAreKept,
       Early, Passing, Shared, Place, Crash, Ended, NextFile
<1>4. CASE AwaitSession \/ MakeDir \/ NoteDir
  BY <1>0, <1>4 DEF TypeOK, DestKnown, NoteIsPresent, HookIsLate, OthersAreKept,
       Early, Passing, Shared, Place, AwaitSession, MakeDir, NoteDir
<1>5. CASE FindDesktop \/ MeasureDesktop \/ Reread
  BY <1>0, <1>5 DEF TypeOK, DestKnown, NoteIsPresent, HookIsLate, OthersAreKept,
       Early, Passing, Shared, Place, FindDesktop, MeasureDesktop, Reread
<1>6. CASE ListWindows
  BY <1>0, <1>6 DEF TypeOK, DestKnown, NoteIsPresent, HookIsLate, OthersAreKept,
       Early, Passing, Shared, Place, ListWindows
<1>7. CASE MeasureWindow \/ EndPass \/ FindWindow \/ Compare
  BY <1>0, <1>7 DEF TypeOK, DestKnown, NoteIsPresent, HookIsLate, OthersAreKept,
       Early, Passing, Shared, Place, MeasureWindow, EndPass, FindWindow, Compare
<1>8. CASE Kill \/ Start \/ Wake
  BY <1>0, <1>8 DEF TypeOK, DestKnown, NoteIsPresent, HookIsLate, OthersAreKept,
       Early, Passing, Shared, Place, Kill, AfterKill, Start, AfterStart, Started, Wake
<1>9. CASE ContainerDies \/ Restart \/ PodKilled
  BY <1>0, <1>9 DEF TypeOK, DestKnown, NoteIsPresent, HookIsLate, OthersAreKept,
       Early, Passing, Shared, Place, ContainerDies, Restart, PodKilled
<1>10. CASE DeletePod \/ HookTest \/ HookUnlink \/ HookRmdir
  BY <1>0, <1>10 DEF TypeOK, DestKnown, NoteIsPresent, HookIsLate,
       OthersAreKept, Early, Passing, Shared, Place, DeletePod, HookTest, HookUnlink,
       HookRmdir, Within
<1>11. CASE UNCHANGED vars
  BY <1>0, <1>11 DEF TypeOK, DestKnown, NoteIsPresent, HookIsLate,
       OthersAreKept, Early, Passing, Shared, Place
<1> QED
  BY <1>1, <1>2, <1>3, <1>4, <1>5, <1>6, <1>7, <1>8, <1>9, <1>10, <1>11 DEF
       Next, Script, Hook

\* Every step keeps the disk of a container that never restarted.
LEMMA DiskStep ==
    TypeOK /\ DestKnown /\ LiveInPasses /\ NoteIsPresent /\ HookIsLate /\
         FreshDisk /\ [Next]_vars =>
        FreshDisk'
<1> SUFFICES ASSUME TypeOK, DestKnown, LiveInPasses, NoteIsPresent, HookIsLate,
                    FreshDisk, [Next]_vars
             PROVE  FreshDisk'
  OBVIOUS
<1> USE RecorderAssumption DEF vars, envVars, gstVars, scriptVars, passVars,
     diskVars, podVars
<1>0. Screen' = Screen
  BY ScreenStays
<1>1. CASE SessionStarts \/ XpraFlag
  BY <1>0, <1>1 DEF TypeOK, DestKnown, LiveInPasses, NoteIsPresent, HookIsLate,
       FreshDisk, Early, Passing, Shared, Place, SessionStarts, XpraFlag
<1>2. ASSUME NEW w \in Screen, ShowOrHide(w) \/ Resize(w) PROVE FreshDisk'
  BY <1>0, <1>2 DEF TypeOK, DestKnown, LiveInPasses, NoteIsPresent, HookIsLate,
       FreshDisk, Early, Passing, Shared, Place, ShowOrHide, Resize
<1>3. ASSUME NEW w \in Screen, Crash(w) \/ Ended(w) \/ NextFile(w)
      PROVE  FreshDisk'
  BY <1>0, <1>3 DEF TypeOK, DestKnown, LiveInPasses, NoteIsPresent, HookIsLate,
       FreshDisk, Early, Passing, Shared, Place, Crash, Ended, RemoveAt, NextFile
<1>4. CASE AwaitSession \/ MakeDir \/ NoteDir
  BY <1>0, <1>4 DEF TypeOK, DestKnown, LiveInPasses, NoteIsPresent, HookIsLate,
       FreshDisk, Early, Passing, Shared, Place, AwaitSession, MakeDir, NoteDir
<1>5. CASE FindDesktop \/ MeasureDesktop \/ Reread
  BY <1>0, <1>5 DEF TypeOK, DestKnown, LiveInPasses, NoteIsPresent, HookIsLate,
       FreshDisk, Early, Passing, Shared, Place, FindDesktop, MeasureDesktop, Reread
<1>6. CASE ListWindows
  BY <1>0, <1>6 DEF TypeOK, DestKnown, LiveInPasses, NoteIsPresent, HookIsLate,
       FreshDisk, Early, Passing, Shared, Place, ListWindows
<1>7. CASE MeasureWindow \/ EndPass \/ FindWindow \/ Compare
  BY <1>0, <1>7 DEF TypeOK, DestKnown, LiveInPasses, NoteIsPresent, HookIsLate,
       FreshDisk, Early, Passing, Shared, Place, MeasureWindow, EndPass, FindWindow,
       Compare
<1>8. CASE Kill \/ Start \/ Wake
  BY <1>0, <1>8 DEF TypeOK, DestKnown, LiveInPasses, NoteIsPresent, HookIsLate,
       FreshDisk, Early, Passing, Shared, Place, Kill, AfterKill, Start, AfterStart,
       Started, Wake
<1>9. CASE ContainerDies \/ Restart \/ PodKilled
  BY <1>0, <1>9 DEF TypeOK, DestKnown, LiveInPasses, NoteIsPresent, HookIsLate,
       FreshDisk, Early, Passing, Shared, Place, ContainerDies, Restart, PodKilled
<1>10. CASE DeletePod \/ HookTest \/ HookUnlink \/ HookRmdir
  BY <1>0, <1>10 DEF TypeOK, DestKnown, LiveInPasses, NoteIsPresent, HookIsLate,
       FreshDisk, Early, Passing, Shared, Place, DeletePod, HookTest, HookUnlink,
       HookRmdir, Within
<1>11. CASE UNCHANGED vars
  BY <1>0, <1>11 DEF TypeOK, DestKnown, LiveInPasses, NoteIsPresent, HookIsLate,
       FreshDisk, Early, Passing, Shared, Place
<1> QED
  BY <1>1, <1>2, <1>3, <1>4, <1>5, <1>6, <1>7, <1>8, <1>9, <1>10, <1>11 DEF
       Next, Script, Hook

\* The initial states satisfy RecorderInv.
LEMMA InitRecorderInv == Init => RecorderInv
<1> SUFFICES ASSUME Init PROVE RecorderInv
  OBVIOUS
<1>1. TypeOK
  <2>1. live \in [Screen -> Seq(Recording)] /\ dying \in [Screen ->
       Seq(Recording)]
    BY DEF Init
  <2>2. size \in [Screen -> 1 .. Limit + 1]
    BY RecorderAssumption DEF Init
  <2>3. shown \in [Screen -> {"gone", "hidden", "shown"}]
    BY DEF Init
  <2>4. /\ recRes \in 0 .. Limit /\ cur \in 0 .. Limit + 1 /\ found \in Nat
        /\ changes \in 0 .. MaxChanges
        /\ crashes \in 0 .. MaxCrashes
        /\ slow \in 0 .. MaxSlow
    BY RecorderAssumption DEF Init
  <2> QED
    BY <2>1, <2>2, <2>3, <2>4, Zenon DEF Init, TypeOK
<1>2. OneRecordingPerScreen /\ NothingRuns /\ LiveInPasses
  BY DEF Init, OneRecordingPerScreen, NothingRuns, LiveInPasses, Passing
<1>3. DestKnown /\ PassOfKind /\ AtScreen /\ SizesFit
  BY RecorderAssumption DEF Init, DestKnown, PassOfKind, AtScreen, SizesFit,
       Passing
<1>4. NoteIsPresent /\ HookIsLate /\ FreshDisk /\ OthersAreKept
  BY DEF Init, NoteIsPresent, HookIsLate, FreshDisk, OthersAreKept, Early,
       Passing
<1> QED
  BY <1>1, <1>2, <1>3, <1>4 DEF RecorderInv

\* RecorderInv is inductive.
THEOREM RecorderInvariant == Spec => []RecorderInv
<1>1. RecorderInv /\ [Next]_vars => RecorderInv'
  BY TypeStep, KindStep, RunsStep, LiveStep, NoteStep, DiskStep DEF RecorderInv
<1> QED
  BY InitRecorderInv, <1>1, PTL DEF Spec

\* Every variable keeps its type.
THEOREM RecorderTypeCorrect == Spec => []TypeOK
<1>1. RecorderInv => TypeOK
  BY DEF RecorderInv
<1> QED
  BY RecorderInvariant, <1>1, PTL

\* A screen never has two recordings that nobody has told to stop, because no
\* recording starts between pgrep and the start of the next one.
THEOREM RecordingsAreApart == Spec => []OneRecordingPerScreen
<1>1. RecorderInv => OneRecordingPerScreen
  BY DEF RecorderInv
<1> QED
  BY RecorderInvariant, <1>1, PTL

\* What a pod whose container never restarted leaves on the disk was noted after
\* the hook had looked, got a new file while rm ran, or was there when the grace
\* period ended before the hook.
THEOREM LeftoversExplained == Spec => []LeftoversHaveACause
<1>1. RecorderInv => LeftoversHaveACause
  <2> SUFFICES ASSUME RecorderInv, files # {}, ~restarted, pod = "gone",
                      hook \notin {"kept", "test", "unlink", "rmdir"}
               PROVE  hook = "missing" /\ noted # "none"
    BY DEF LeftoversHaveACause
  <2>1. hook \in {"none", "missing", "removed"}
    BY DEF RecorderInv, TypeOK
  <2>2. hook # "removed" /\ hook # "none" /\ noted # "none"
    BY DEF RecorderInv, FreshDisk
  <2> QED
    BY <2>1, <2>2
<1> QED
  BY RecorderInvariant, <1>1, PTL

\* Other pods' recordings go only when the present script has no session data.
THEOREM OthersKept == Spec => []OthersAreKept
<1>1. RecorderInv => OthersAreKept
  BY DEF RecorderInv
<1> QED
  BY RecorderInvariant, <1>1, PTL
-----------------------------------------------------------------------------
(* Why recordings are killed.                                              *)

\* The desktop's recording was started for the resolution remembered.
LabelIsRecRes ==
    ~xpra /\ live[Root] # <<>> => Head(live[Root]).label = recRes

\* The screen at hand has had its turn in this pass.
TargetIsTaken ==
    pc \in {"reread", "find", "compare", "kill", "start"} => target \notin todo

\* Unless a sleep was over before a killed process had ended, what is ending was
\* killed in this pass, and the script is done with its screen.
LateAreSlow ==
    slow = 0 => \A w \in Screen : dying[w] # <<>> =>
        \/ pc = "sleep"
        \/ /\ pc \in {"reread", "each", "find", "compare", "kill", "start"}
           /\ w \notin todo
           /\ pc \in {"find", "compare", "kill"} => w # target

\* A window whose recording still runs is listed alone or beside a late one.
ListedAlone ==
    pc = "compare" /\ live[target] # <<>> =>
        \/ found = 1 /\ dying[target] = <<>>
        \/ found > 1 /\ slow > 0

CauseInv ==
    /\ LabelIsRecRes
    /\ TargetIsTaken
    /\ LateAreSlow
    /\ ListedAlone
    /\ KilledForCause

\* What the environment and the hook leave to the script: its place, and fewer
\* processes at most.
Shrinks ==
    /\ UNCHANGED <<pc, recRes, todo, target, cur, found, slow>>
    /\ \A w \in Screen : live'[w] = live[w] \/ live'[w] = <<>>
    /\ \A w \in Screen : dying'[w] # <<>> => dying[w] # <<>>

\* Such a step keeps CauseInv.
LEMMA ShrinkStep ==
    ASSUME TypeOK, AtScreen, CauseInv, Screen' = Screen, xpra' = xpra, Shrinks
    PROVE  CauseInv'
<1>1. ~xpra => Root \in Screen
  BY DEF Screen
<1>2. pc \in {"compare", "kill"} => target \in Screen
  BY DEF AtScreen
<1>3. LabelIsRecRes'
  BY <1>1 DEF CauseInv, Shrinks, LabelIsRecRes
<1>4. TargetIsTaken'
  BY DEF CauseInv, Shrinks, TargetIsTaken
<1>5. LateAreSlow'
  BY DEF CauseInv, Shrinks, LateAreSlow
<1>6. ListedAlone'
  BY <1>2 DEF CauseInv, Shrinks, ListedAlone
<1>7. KilledForCause'
  BY <1>2 DEF CauseInv, Shrinks, KilledForCause
<1> QED
  BY <1>3, <1>4, <1>5, <1>6, <1>7 DEF CauseInv

\* So does a step after which nothing runs and the container has exited.
LEMMA ExitStep ==
    ASSUME Screen' = Screen, xpra' = xpra, pc' = "exit",
           live' = [w \in Screen |-> <<>>], dying' = [w \in Screen |-> <<>>]
    PROVE  CauseInv'
<1>1. ~xpra => Root \in Screen
  BY DEF Screen
<1>2. LabelIsRecRes'
  BY <1>1 DEF LabelIsRecRes
<1> QED
  BY <1>2 DEF CauseInv, TargetIsTaken, LateAreSlow, ListedAlone, KilledForCause

\* Every step keeps the reasons for a kill.
LEMMA CauseStep == RecorderInv /\ CauseInv /\ [Next]_vars => CauseInv'
<1> SUFFICES ASSUME RecorderInv, CauseInv, [Next]_vars PROVE CauseInv'
  OBVIOUS
<1> USE DEF vars, envVars, gstVars, scriptVars, passVars, diskVars, podVars
<1>0. /\ TypeOK /\ PassOfKind /\ AtScreen /\ NothingRuns /\ LiveInPasses
      /\ OneRecordingPerScreen
      /\ Screen' = Screen /\ xpra' = xpra
  BY ScreenStays DEF RecorderInv
<1>1. ASSUME Shrinks PROVE CauseInv'
  BY <1>0, <1>1, ShrinkStep
<1>2. CASE SessionStarts \/ XpraFlag \/ DeletePod \/ HookTest \/ HookUnlink
           \/ HookRmdir \/ UNCHANGED vars
  <2>1. UNCHANGED <<pc, recRes, todo, target, cur, found, slow, live, dying>>
    BY <1>2 DEF SessionStarts, XpraFlag, DeletePod, HookTest, HookUnlink, HookRmdir
  <2> QED
    BY <1>1, <2>1 DEF Shrinks
<1>3. ASSUME NEW w \in Screen, Resize(w) \/ NextFile(w) PROVE CauseInv'
  <2>1. UNCHANGED <<pc, recRes, todo, target, cur, found, slow, live, dying>>
    BY <1>3 DEF Resize, NextFile
  <2> QED
    BY <1>1, <2>1 DEF Shrinks
<1>4. ASSUME NEW w \in Screen, ShowOrHide(w) PROVE CauseInv'
  <2>1. UNCHANGED <<pc, recRes, todo, target, cur, found, slow>>
    BY <1>4 DEF ShowOrHide
  <2>2. /\ live' = live \/ live' = [live EXCEPT ![w] = <<>>]
        /\ dying' = dying \/ dying' = [dying EXCEPT ![w] = <<>>]
    BY <1>4 DEF ShowOrHide
  <2>3. \A v \in Screen : /\ live'[v] = live[v] \/ live'[v] = <<>>
                          /\ dying'[v] # <<>> => dying[v] # <<>>
    BY <1>0, <2>2 DEF TypeOK
  <2> QED
    BY <1>1, <2>1, <2>3 DEF Shrinks
<1>5. ASSUME NEW w \in Screen, Crash(w) PROVE CauseInv'
  <2>1. UNCHANGED <<pc, recRes, todo, target, cur, found, slow, dying>>
    BY <1>5 DEF Crash
  <2>2. live[w] \in Seq(Recording) /\ live[w] # <<>> /\ Len(live[w]) <= 1
    BY <1>0, <1>5 DEF TypeOK, Crash, OneRecordingPerScreen
  <2>3. Tail(live[w]) = <<>>
    BY <2>2
  <2>4. \A v \in Screen : live'[v] = live[v] \/ live'[v] = <<>>
    BY <1>0, <1>5, <2>3 DEF TypeOK, Crash
  <2> QED
    BY <1>1, <2>1, <2>4 DEF Shrinks
<1>6. ASSUME NEW w \in Screen, Ended(w) PROVE CauseInv'
  <2>1. UNCHANGED <<pc, recRes, todo, target, cur, found, slow, live>>
    BY <1>6 DEF Ended
  <2>2. PICK i \in DOMAIN dying[w] : dying' = [dying EXCEPT ![w] = RemoveAt(@, i)]
    BY <1>6 DEF Ended
  <2>3. dying[w] # <<>>
    BY <2>2
  <2>4. \A v \in Screen : dying'[v] # <<>> => dying[v] # <<>>
    BY <1>0, <2>2, <2>3 DEF TypeOK
  <2> QED
    BY <1>1, <2>1, <2>4 DEF Shrinks
<1>7. CASE ContainerDies \/ PodKilled
  BY <1>0, <1>7, ExitStep DEF ContainerDies, PodKilled
<1>8. CASE AwaitSession \/ MakeDir \/ NoteDir \/ Restart
  <2>1. /\ pc \in Early \cup {"exit"} /\ pc' \in Early \cup {"top"}
        /\ UNCHANGED <<live, dying, slow, todo, target>>
    BY <1>8 DEF AwaitSession, MakeDir, NoteDir, Restart, Early
  <2>2. \A w \in Screen : live[w] = <<>>
    BY <1>0, <2>1 DEF LiveInPasses, Early, Passing
  <2>3. ~xpra => Root \in Screen
    BY DEF Screen
  <2>4. LabelIsRecRes'
    BY <1>0, <2>1, <2>2, <2>3 DEF LabelIsRecRes
  <2>5. LateAreSlow'
    BY <1>0, <2>1 DEF CauseInv, LateAreSlow, Early
  <2> QED
    BY <2>1, <2>4, <2>5 DEF CauseInv, TargetIsTaken, ListedAlone, KilledForCause, Early
<1>9. CASE FindDesktop \/ MeasureDesktop
  <2>1. ~xpra /\ Screen = {Root} /\ Root \notin todo
    BY <1>0, <1>9, RecorderAssumption DEF FindDesktop, MeasureDesktop, Screen, TypeOK
  <2>2. UNCHANGED <<live, dying, slow, todo, recRes>> /\ target' \in Screen \cup {target}
    BY <1>9, <2>1 DEF FindDesktop, MeasureDesktop
  <2>3. LabelIsRecRes'
    BY <1>0, <2>2 DEF CauseInv, LabelIsRecRes
  <2>4. /\ pc \in {"top", "measure"}
        /\ pc' \in {"measure", "reread", "kill", "sleep"}
        /\ pc' = "kill" => recRes # cur'
    <3>1. CASE FindDesktop
      BY <3>1 DEF FindDesktop
    <3>2. CASE MeasureDesktop
      BY <1>0, <3>2, AfterMeasure
    <3> QED
      BY <1>9, <3>1, <3>2
  <2>5. TargetIsTaken'
    <3>1. pc' \in {"reread", "kill"} => target' = Root
      BY <1>0, <1>9, <2>1 DEF FindDesktop, MeasureDesktop, AtScreen
    <3> QED
      BY <2>1, <2>2, <2>4, <3>1 DEF TargetIsTaken
  <2>6. LateAreSlow'
    BY <1>0, <2>2, <2>4 DEF CauseInv, LateAreSlow
  <2>7. ListedAlone'
    BY <2>4 DEF ListedAlone
  <2>8. KilledForCause'
    <3>1. pc' = "kill" => target' = Root
      BY <1>0, <1>9, <2>1 DEF FindDesktop, MeasureDesktop, AtScreen
    <3> QED
      BY <2>1, <2>2, <2>4, <3>1 DEF CauseInv, LabelIsRecRes, KilledForCause
  <2> QED
    BY <2>3, <2>5, <2>6, <2>7, <2>8 DEF CauseInv
<1>10. CASE Reread
  <2>1. /\ pc = "reread" /\ pc' = "start"
        /\ UNCHANGED <<live, dying, slow, todo, target>>
    BY <1>10 DEF Reread
  <2>2. ~xpra => live[Root] = <<>>
    BY <1>0, <2>1 DEF NothingRuns, AtScreen, Screen
  <2>3. LabelIsRecRes'
    BY <1>0, <2>1, <2>2 DEF LabelIsRecRes
  <2>4. LateAreSlow' /\ TargetIsTaken'
    BY <1>0, <2>1 DEF CauseInv, LateAreSlow, TargetIsTaken
  <2> QED
    BY <2>1, <2>3, <2>4 DEF CauseInv, ListedAlone, KilledForCause
<1>11. CASE ListWindows
  <2>1. CASE ~xpraReady
    BY <1>0, <1>11, <2>1, ExitStep DEF ListWindows
  <2>2. CASE xpraReady
    <3>1. /\ pc = "top" /\ pc' = "each" /\ xpra
          /\ UNCHANGED <<live, dying, slow>>
      BY <1>11, <2>2 DEF ListWindows
    <3>2. LateAreSlow'
      BY <1>0, <3>1 DEF CauseInv, LateAreSlow
    <3> QED
      BY <1>0, <3>1, <3>2 DEF CauseInv, LabelIsRecRes, TargetIsTaken, ListedAlone,
           KilledForCause
  <2> QED
    BY <2>1, <2>2
<1>12. CASE MeasureWindow
  <2>1. PICK w \in todo :
            /\ todo' = todo \ {w}
            /\ target' = w
            /\ pc' = IF Measured(w) \in 1 .. Limit THEN "find" ELSE "each"
    BY <1>12 DEF MeasureWindow
  <2>2. pc = "each" /\ xpra /\ UNCHANGED <<live, dying, slow>>
    BY <1>0, <1>12 DEF MeasureWindow, PassOfKind
  <2>3. pc' \in {"find", "each"}
    BY <2>1, Zenon
  <2>4. LateAreSlow'
    BY <1>0, <2>1, <2>2, <2>3 DEF CauseInv, LateAreSlow
  <2> QED
    BY <1>0, <2>1, <2>2, <2>3, <2>4 DEF CauseInv, LabelIsRecRes, TargetIsTaken,
         ListedAlone, KilledForCause
<1>13. CASE EndPass
  <2>1. /\ pc = "each" /\ pc' = "sleep" /\ xpra
        /\ UNCHANGED <<live, dying, slow, todo, target>>
    BY <1>0, <1>13 DEF EndPass, PassOfKind
  <2> QED
    BY <1>0, <2>1 DEF CauseInv, LabelIsRecRes, TargetIsTaken, LateAreSlow, ListedAlone,
         KilledForCause
<1>14. CASE FindWindow
  <2>1. /\ pc = "find" /\ xpra /\ target \in Screen
        /\ UNCHANGED <<live, dying, slow, todo, target>>
    BY <1>0, <1>14 DEF FindWindow, PassOfKind, AtScreen
  <2>2. live[target] \in Seq(Recording) /\ dying[target] \in Seq(Recording)
    BY <1>0, <2>1 DEF TypeOK
  <2>3. found' = Len(live[target]) + Len(dying[target])
    BY <1>0, <1>14, AfterFind
  <2>4. Len(live[target]) \in Nat /\ Len(dying[target]) \in Nat
    BY <2>2
  <2>5. pc' \in {"compare", "start", "each"}
    BY <1>0, <1>14, AfterFind
  <2>6. ListedAlone'
    <3> SUFFICES ASSUME live[target] # <<>>
                 PROVE  \/ found' = 1 /\ dying[target] = <<>>
                        \/ found' > 1 /\ slow > 0
      BY <2>1 DEF ListedAlone
    <3>1. Len(live[target]) = 1
      <4>1. Len(live[target]) <= 1
        BY <1>0, <2>1 DEF OneRecordingPerScreen
      <4>2. Len(live[target]) # 0
        BY <2>2, Recordings, Zenon
      <4>3. \A n \in Nat : n <= 1 /\ n # 0 => n = 1
        OBVIOUS
      <4> QED
        BY <2>4, <4>1, <4>2, <4>3, Zenon
    <3>2. CASE dying[target] = <<>>
      BY <2>3, <3>1, <3>2
    <3>3. CASE dying[target] # <<>>
      <4>1. slow # 0
        BY <2>1, <3>3 DEF CauseInv, LateAreSlow
      <4>2. slow > 0
        BY <1>0, <4>1, RecorderAssumption DEF TypeOK
      <4>3. Len(dying[target]) # 0
        BY <2>2, <3>3, Recordings, Zenon
      <4> QED
        BY <2>3, <2>4, <3>1, <4>2, <4>3
    <3> QED
      BY <3>2, <3>3
  <2>7. LateAreSlow'
    BY <1>0, <2>1, <2>5 DEF CauseInv, LateAreSlow
  <2> QED
    BY <1>0, <2>1, <2>5, <2>6, <2>7 DEF CauseInv, LabelIsRecRes, TargetIsTaken,
         KilledForCause
<1>15. CASE Compare
  <2>1. /\ pc = "compare" /\ xpra /\ target \in Screen
        /\ UNCHANGED <<live, dying, slow, todo, target, found, cur>>
    BY <1>0, <1>15 DEF Compare, PassOfKind, AtScreen
  <2>2. pc' = "each" \/ (pc' = "kill" /\ RecSize # cur)
    BY <1>15, Zenon DEF Compare
  <2>3. KilledForCause'
    <3> SUFFICES ASSUME live[target] # <<>>, RecSize # cur, ~(found > 1 /\ slow > 0)
                 PROVE  Head(live[target]).label # cur
      BY <2>1, <2>2 DEF KilledForCause
    <3>1. found = 1 /\ dying[target] = <<>>
      BY <2>1 DEF CauseInv, ListedAlone
    <3>2. Running(target) = live[target]
      BY <1>0, <2>1, <3>1 DEF Running, TypeOK
    <3> QED
      BY <3>1, <3>2 DEF RecSize
  <2>4. LateAreSlow'
    BY <1>0, <2>1, <2>2 DEF CauseInv, LateAreSlow
  <2> QED
    BY <1>0, <2>1, <2>2, <2>3, <2>4 DEF CauseInv, LabelIsRecRes, TargetIsTaken,
         ListedAlone
<1>16. CASE Kill
  <2>1. /\ pc = "kill" /\ target \in Screen
        /\ UNCHANGED <<slow, todo, target, recRes>>
        /\ pc' \in {"start", "reread"}
    BY <1>0, <1>16 DEF Kill, AfterKill, AtScreen
  <2>2. /\ \A w \in Screen : live'[w] = live[w] \/ live'[w] = <<>>
        /\ \A w \in Screen : w # target => dying'[w] = dying[w]
    BY <1>0, <1>16, <2>1 DEF Kill, TypeOK
  <2>3. LabelIsRecRes'
    <3>1. ~xpra => Root \in Screen
      BY DEF Screen
    <3> QED
      BY <1>0, <2>1, <2>2, <3>1 DEF CauseInv, LabelIsRecRes
  <2>4. LateAreSlow'
    <3> SUFFICES ASSUME slow = 0, NEW w \in Screen, dying'[w] # <<>>
                 PROVE  w \notin todo
      BY <1>0, <2>1 DEF LateAreSlow
    <3>1. CASE w = target
      BY <2>1, <3>1 DEF CauseInv, TargetIsTaken
    <3>2. CASE w # target
      BY <2>1, <2>2, <3>2 DEF CauseInv, LateAreSlow
    <3> QED
      BY <3>1, <3>2
  <2> QED
    BY <2>1, <2>3, <2>4 DEF CauseInv, TargetIsTaken, ListedAlone, KilledForCause
<1>17. CASE Start
  <2>1. /\ pc = "start" /\ target \in Screen /\ live[target] = <<>>
        /\ UNCHANGED <<dying, slow, todo, target, recRes>>
        /\ pc' = AfterStart
    BY <1>0, <1>17 DEF Start, AtScreen, NothingRuns
  <2>2. pc' \in {"each", "sleep"}
    BY <2>1 DEF AfterStart
  <2>3. LabelIsRecRes'
    <3> SUFFICES ASSUME ~xpra, live'[Root] # <<>>
                 PROVE  Head(live'[Root]).label = recRes
      BY <1>0, <2>1 DEF LabelIsRecRes
    <3>1. target = Root
      BY <2>1 DEF Screen
    <3>2. live'[Root] = Append(<<>>, Started)
      BY <1>0, <1>17, <2>1, <3>1 DEF Start, TypeOK
    <3>3. Head(live'[Root]) = Started
      BY <3>2
    <3> QED
      BY <3>3 DEF Started
  <2>4. LateAreSlow'
    BY <1>0, <2>1, <2>2 DEF CauseInv, LateAreSlow
  <2> QED
    BY <2>1, <2>2, <2>3, <2>4 DEF CauseInv, TargetIsTaken, ListedAlone, KilledForCause
<1>18. CASE Wake
  <2>1. /\ pc = "sleep" /\ pc' = "top"
        /\ UNCHANGED <<live, dying, todo, target, recRes>>
    BY <1>18 DEF Wake
  <2>2. CASE Lingering = {}
    <3>1. \A w \in Screen : dying[w] = <<>>
      BY <2>2 DEF Lingering
    <3> QED
      BY <1>0, <2>1, <3>1 DEF CauseInv, LabelIsRecRes, TargetIsTaken, LateAreSlow,
           ListedAlone, KilledForCause
  <2>3. CASE Lingering # {}
    <3>1. slow' = slow + 1 /\ slow \in Nat
      BY <1>0, <1>18, <2>3, RecorderAssumption DEF Wake, TypeOK
    <3>2. slow' # 0
      BY <3>1
    <3> QED
      BY <1>0, <2>1, <3>2 DEF CauseInv, LabelIsRecRes, TargetIsTaken, LateAreSlow,
           ListedAlone, KilledForCause
  <2> QED
    BY <2>2, <2>3
<1> QED
  BY <1>2, <1>3, <1>4, <1>5, <1>6, <1>7, <1>8, <1>9, <1>10, <1>11, <1>12, <1>13,
     <1>14, <1>15, <1>16, <1>17, <1>18 DEF Next, Script, Hook

\* The delay does what its comment says: a recording is killed for its size only,
\* unless a process that was killed before outlived the delay.
THEOREM KillsAreJustified == Spec => []KilledForCause
<1>1. Init => CauseInv
  <2>1. Init => LabelIsRecRes
    BY DEF Init, LabelIsRecRes, Screen
  <2> QED
    BY <2>1 DEF Init, CauseInv, TargetIsTaken, LateAreSlow, ListedAlone, KilledForCause
<1>2. RecorderInv /\ CauseInv /\ [Next]_vars => CauseInv'
  BY CauseStep
<1>3. CauseInv => KilledForCause
  BY DEF CauseInv
<1> QED
  BY <1>1, <1>2, <1>3, RecorderInvariant, PTL DEF Spec
=============================================================================
