------------------------ MODULE UinputMonitorProofs ------------------------
(***************************************************************************)
(* Proofs about UinputMonitor.                                             *)
(*                                                                         *)
(* TypeOK is not inductive: that the loop can take the event a sender is   *)
(* blocked with, and that a group being dispatched has a trigger, follow   *)
(* from the way senders wait in the channel, which is SendersWait.         *)
(***************************************************************************)
EXTENDS UinputMonitor, SequenceTheorems, TLAPS

Sender == Helper \cup {"udev"}

\* A sender waits in the channel at most once, and with an event to send; a
\* group is dispatched only once it has a trigger.
SendersWait ==
    /\ \A i \in 1 .. Len(sendq) :
          IF sendq[i] = "udev" THEN uevent # None ELSE trigger[sendq[i]] # None
    /\ \A i, j \in 1 .. Len(sendq) : sendq[i] = sendq[j] => i = j
    /\ mpc = "dispatch" => group.uinput # None

TypeInv == TypeOK /\ SendersWait

-----------------------------------------------------------------------------
(* Sequences and the constants.                                            *)

\* The elements of a sequence after Append.
LEMMA AppendElements ==
    ASSUME NEW S, NEW s \in Seq(S), NEW e \in S
    PROVE  /\ Append(s, e) \in Seq(S)
           /\ Len(Append(s, e)) = Len(s) + 1
           /\ \A i \in 1 .. Len(s) : Append(s, e)[i] = s[i]
           /\ Append(s, e)[Len(s) + 1] = e
  BY AppendProperties

\* The elements of a sequence after Tail.
LEMMA TailElements ==
    ASSUME NEW S, NEW s \in Seq(S), s # <<>>
    PROVE  /\ Head(s) \in S
           /\ Head(s) = s[1]
           /\ Len(s) \in Nat \ {0}
           /\ Tail(s) \in Seq(S)
           /\ Len(Tail(s)) = Len(s) - 1
           /\ \A i \in 1 .. Len(s) - 1 : Tail(s)[i] = s[i + 1]
  BY HeadTailProperties, EmptySeq, LenProperties

\* The scanner is not a helper.
LEMMA UdevIsNoHelper == "udev" \notin Helper
  BY UinputAssumption

-----------------------------------------------------------------------------
(* Type correctness.                                                       *)

\* The initial state satisfies the inductive invariant.
LEMMA InitTypeInv == Init => TypeInv
<1> SUFFICES ASSUME Init PROVE TypeInv
  OBVIOUS
<1>1. Len(<<>>) = 0
  BY EmptySeq
<1>2. TypeOK
  BY UinputAssumption, EmptySeq DEF Init, TypeOK, EmptyGroup, Age
<1>3. SendersWait
  BY <1>1 DEF Init, SendersWait
<1> QED
  BY <1>2, <1>3 DEF TypeInv

\* An action that leaves the channel, its senders and the loop's place alone
\* preserves SendersWait.
LEMMA SendersStillWait ==
    ASSUME SendersWait, UNCHANGED <<sendq, trigger, uevent, mpc, group>>
    PROVE  SendersWait'
  BY DEF SendersWait

\* A helper or the scanner joins the queue with an event.
LEMMA SenderJoins ==
    ASSUME TypeOK, SendersWait, NEW s \in Sender,
           sendq' = Append(sendq, s),
           IF s = "udev" THEN uevent = None /\ uevent' # None /\ UNCHANGED trigger
           ELSE /\ trigger[s] = None
                /\ \A h \in Helper : h # s => trigger'[h] = trigger[h]
                /\ trigger'[s] # None
                /\ UNCHANGED uevent,
           UNCHANGED <<mpc, group>>
    PROVE  SendersWait'
<1>1. sendq \in Seq(Sender)
  BY DEF TypeOK, Sender
<1>2. /\ Len(sendq') = Len(sendq) + 1
      /\ \A i \in 1 .. Len(sendq) : sendq'[i] = sendq[i]
      /\ sendq'[Len(sendq) + 1] = s
      /\ Len(sendq) \in Nat
  BY <1>1, AppendElements, LenProperties
<1>3. \A i \in 1 .. Len(sendq) : sendq[i] \in Sender /\ sendq[i] # s
  BY <1>1, ElementOfSeq DEF SendersWait
<1>4. \A i \in 1 .. Len(sendq') :
         IF sendq'[i] = "udev" THEN uevent' # None ELSE trigger'[sendq'[i]] # None
  BY <1>2, <1>3 DEF SendersWait, Sender
<1>5. \A i, j \in 1 .. Len(sendq') : sendq'[i] = sendq'[j] => i = j
  BY <1>2, <1>3 DEF SendersWait
<1> QED
  BY <1>4, <1>5 DEF SendersWait

\* The loop takes the event of the first sender in the queue.
LEMMA SenderLeaves ==
    ASSUME TypeOK, SendersWait, sendq # <<>>,
           sendq' = Tail(sendq),
           IF Head(sendq) = "udev" THEN UNCHANGED trigger
           ELSE /\ \A h \in Helper : h # Head(sendq) => trigger'[h] = trigger[h]
                /\ UNCHANGED uevent,
           mpc' = "dispatch" => group'.uinput # None
    PROVE  SendersWait'
<1>1. sendq \in Seq(Sender)
  BY DEF TypeOK, Sender
<1>2. /\ Head(sendq) = sendq[1]
      /\ Len(sendq) \in Nat \ {0}
      /\ Len(sendq') = Len(sendq) - 1
      /\ \A i \in 1 .. Len(sendq) - 1 : sendq'[i] = sendq[i + 1]
  BY <1>1, TailElements
<1>3. \A i \in 1 .. Len(sendq') :
         /\ sendq'[i] \in Sender
         /\ sendq'[i] # Head(sendq)
         /\ IF sendq'[i] = "udev" THEN uevent # None ELSE trigger[sendq'[i]] # None
  BY <1>1, <1>2, ElementOfSeq DEF SendersWait
<1>4. \A i, j \in 1 .. Len(sendq') : sendq'[i] = sendq'[j] => i = j
  BY <1>2 DEF SendersWait
<1>5. \A i \in 1 .. Len(sendq') :
         IF sendq'[i] = "udev" THEN uevent' # None ELSE trigger'[sendq'[i]] # None
  BY <1>3, UdevIsNoHelper DEF Sender
<1> QED
  BY <1>4, <1>5 DEF SendersWait

\* Every step preserves TypeInv.
LEMMA NextTypeInv == TypeInv /\ [Next]_vars => TypeInv'
<1> SUFFICES ASSUME TypeInv, [Next]_vars PROVE TypeInv'
  OBVIOUS
<1> USE DEF kernelVars, helperVars, channelVars, loopVars, containerVars
<1>0. TypeOK /\ SendersWait
  BY DEF TypeInv
<1>1. ASSUME NEW c \in Container, AppOpen(c) PROVE TypeInv'
  <2>1. TypeOK'
    BY <1>0, <1>1, AppendProperties DEF AppOpen, Notify, TypeOK
  <2> QED
    BY <1>0, <1>1, <2>1, SendersStillWait DEF AppOpen, TypeInv
<1>2. ASSUME NEW c \in Container, AppClose(c) PROVE TypeInv'
  <2>1. TypeOK'
    BY <1>0, <1>2, AppendProperties DEF AppClose, Notify, TypeOK
  <2> QED
    BY <1>0, <1>2, <2>1, SendersStillWait DEF AppClose, TypeInv
<1>3. ASSUME NEW c \in Container, NEW d \in Device, CreateDevice(c, d) PROVE TypeInv'
  <2>1. [type |-> "Added", path |-> d] \in DeviceEvent
    BY DEF DeviceEvent
  <2>2. TypeOK'
    BY <1>0, <1>3, <2>1, AppendProperties DEF CreateDevice, EmitUevent, TypeOK
  <2> QED
    BY <1>0, <1>3, <2>2, SendersStillWait DEF CreateDevice, TypeInv
<1>4. ASSUME NEW d \in Device, DestroyDevice(d) PROVE TypeInv'
  <2>1. [type |-> "Removed", path |-> d] \in DeviceEvent
    BY DEF DeviceEvent
  <2>2. TypeOK'
    BY <1>0, <1>4, <2>1, AppendProperties DEF DestroyDevice, EmitUevent, TypeOK
  <2> QED
    BY <1>0, <1>4, <2>2, SendersStillWait DEF DestroyDevice, TypeInv
<1>5. ASSUME NEW h \in Helper, StartContainer(h) PROVE TypeInv'
  <2>1. TypeOK'
    BY <1>0, <1>5 DEF StartContainer, TypeOK
  <2> QED
    BY <1>0, <1>5, <2>1, SendersStillWait DEF StartContainer, TypeInv
<1>6. ASSUME NEW h \in Helper, SendTrigger(h) PROVE TypeInv'
  <2> DEFINE e(g) == [type |-> Head(fsq[h]), container |-> g,
                      pod |-> h \in PodMode, age |-> 0]
  <2>1. fsq[h] \in Seq({"Opened", "Closed"}) /\ fsq[h] # <<>>
    BY <1>0, <1>6 DEF SendTrigger, TypeOK
  <2>2. Head(fsq[h]) \in {"Opened", "Closed"} /\ Tail(fsq[h]) \in Seq({"Opened", "Closed"})
    BY <2>1, TailElements
  <2>3. PICK g \in Helper : trigger' = [trigger EXCEPT ![h] = e(g)]
    BY <1>6 DEF SendTrigger, Mounting
  <2>4. (h \in PodMode) \in BOOLEAN
    OBVIOUS
  <2>5. e(g) \in Trigger /\ e(g) # None
    <3>1. e(g) \in Trigger
      BY <2>2, <2>4, UinputAssumption DEF Trigger, Age
    <3> QED
      BY <3>1, NoneAssumption
  <2> HIDE DEF e
  <2>6. /\ trigger'[h] # None
        /\ \A k \in Helper : k # h => trigger'[k] = trigger[k]
        /\ trigger' \in [Helper -> Trigger \cup {None}]
    BY <1>0, <2>3, <2>5 DEF TypeOK
  <2>7. sendq \in Seq(Sender) /\ sendq' = Append(sendq, h) /\ h # "udev"
    BY <1>0, <1>6, UdevIsNoHelper DEF SendTrigger, TypeOK, Sender
  <2>8. sendq' \in Seq(Sender)
    BY <2>7, AppendElements DEF Sender
  <2>9. TypeOK'
    BY <1>0, <1>6, <2>2, <2>6, <2>8 DEF SendTrigger, TypeOK, Sender
  <2>10. SendersWait'
    BY <1>0, <1>6, <2>6, <2>7, SenderJoins DEF SendTrigger, Sender
  <2> QED
    BY <2>9, <2>10 DEF TypeInv
<1>7. ASSUME NEW h \in Helper, LoseTrigger(h) PROVE TypeInv'
  <2>1. fsq[h] \in Seq({"Opened", "Closed"}) /\ fsq[h] # <<>>
    BY <1>0, <1>7 DEF LoseTrigger, TypeOK
  <2>2. Tail(fsq[h]) \in Seq({"Opened", "Closed"})
    BY <2>1, TailElements
  <2>3. TypeOK'
    BY <1>0, <1>7, <2>2 DEF LoseTrigger, TypeOK
  <2> QED
    BY <1>0, <1>7, <2>3, SendersStillWait DEF LoseTrigger, TypeInv
<1>8. CASE ScanUevent
  <2>1. /\ Head(uevents) \in DeviceEvent /\ Head(uevents) # None
        /\ Tail(uevents) \in Seq(DeviceEvent)
    BY <1>0, <1>8, TailElements, NoneAssumption DEF ScanUevent, TypeOK
  <2>2. sendq \in Seq(Sender) /\ sendq' = Append(sendq, "udev")
    BY <1>0, <1>8 DEF ScanUevent, TypeOK, Sender
  <2>3. sendq' \in Seq(Sender)
    BY <2>2, AppendElements DEF Sender
  <2>4. TypeOK'
    BY <1>0, <1>8, <2>1, <2>3 DEF ScanUevent, TypeOK, Sender
  <2>5. SendersWait'
    BY <1>0, <1>8, <2>1, <2>2, SenderJoins DEF ScanUevent, Sender
  <2> QED
    BY <2>4, <2>5 DEF TypeInv
<1>9. ASSUME NEW s \in Socket, Listen(s) PROVE TypeInv'
  <2>1. TypeOK'
    BY <1>0, <1>9 DEF Listen, TypeOK
  <2> QED
    BY <1>0, <1>9, <2>1, SendersStillWait DEF Listen, TypeInv
<1>10. CASE EnterLoop
  <2>1. TypeOK'
    BY <1>0, <1>10, UinputAssumption DEF EnterLoop, TypeOK, Age
  <2>2. SendersWait'
    BY <1>0, <1>10 DEF EnterLoop, SendersWait
  <2> QED
    BY <2>1, <2>2 DEF TypeInv
<1>11. CASE ReceiveTrigger
  <2> DEFINE h == Head(sendq)
  <2>1. sendq \in Seq(Sender) /\ sendq # <<>> /\ h # "udev"
    BY <1>0, <1>11 DEF ReceiveTrigger, TypeOK, Sender
  <2>2. h \in Helper /\ h = sendq[1] /\ Tail(sendq) \in Seq(Sender)
        /\ Len(sendq) \in Nat \ {0}
    BY <2>1, TailElements DEF Sender
  <2>3. trigger[h] \in Trigger /\ trigger[h] # None
    BY <1>0, <2>1, <2>2 DEF SendersWait, TypeOK
  <2>4. group'.uinput = trigger[h] /\ mpc' \in {"dispatch", "loop"}
        /\ group' \in [uinput : Trigger \cup {None}, devices : Seq(DeviceEvent)]
    BY <1>0, <1>11, <2>3 DEF ReceiveTrigger, WindowTest, TypeOK
  <2>5. TypeOK'
    BY <1>0, <1>11, <2>2, <2>4 DEF ReceiveTrigger, TypeOK, Sender
  <2>6. SendersWait'
    BY <1>0, <1>11, <2>1, <2>3, <2>4, SenderLeaves DEF ReceiveTrigger, TypeOK
  <2> QED
    BY <2>5, <2>6 DEF TypeInv
<1>12. CASE ReceiveDevice
  <2>1. sendq \in Seq(Sender) /\ sendq # <<>> /\ Head(sendq) = "udev"
    BY <1>0, <1>12 DEF ReceiveDevice, TypeOK, Sender
  <2>2. Head(sendq) = sendq[1] /\ Tail(sendq) \in Seq(Sender)
        /\ Len(sendq) \in Nat \ {0}
    BY <2>1, TailElements
  <2>3. uevent \in DeviceEvent
    BY <1>0, <2>1, <2>2 DEF SendersWait, TypeOK
  <2>4. Append(group.devices, uevent) \in Seq(DeviceEvent)
    BY <1>0, <2>3, AppendElements DEF TypeOK
  <2>5. /\ group' \in [uinput : Trigger \cup {None}, devices : Seq(DeviceEvent)]
        /\ mpc' \in {"dispatch", "loop"}
        /\ mpc' = "dispatch" => group'.uinput # None
    BY <1>0, <1>12, <2>4 DEF ReceiveDevice, WindowTest, TypeOK
  <2>6. TypeOK'
    BY <1>0, <1>12, <2>2, <2>5 DEF ReceiveDevice, TypeOK, Sender
  <2>7. SendersWait'
    BY <1>0, <1>12, <2>1, <2>5, SenderLeaves DEF ReceiveDevice
  <2> QED
    BY <2>6, <2>7 DEF TypeInv
<1>13. CASE ReceiveNothing
  <2>1. TypeOK'
    BY <1>0, <1>13 DEF ReceiveNothing, WindowTest, TypeOK
  <2>2. SendersWait'
    BY <1>0, <1>13 DEF ReceiveNothing, WindowTest, SendersWait
  <2> QED
    BY <2>1, <2>2 DEF TypeInv
<1>14. CASE DispatchDevice
  <2> DEFINE d == Head(group.devices).path
  <2>1. /\ Head(group.devices) \in DeviceEvent
        /\ Tail(group.devices) \in Seq(DeviceEvent)
    BY <1>0, <1>14, TailElements DEF DispatchDevice, TypeOK
  <2>2. d \in Device
    BY <2>1 DEF DeviceEvent
  <2>3. group' \in [uinput : Trigger \cup {None}, devices : Seq(DeviceEvent)]
        /\ group'.uinput = group.uinput
    BY <1>0, <1>14, <2>1 DEF DispatchDevice, TypeOK
  <2>4. PICK cs \in Lookups(group.uinput.container, group.uinput.pod) :
           IF group.uinput.type = "Opened" THEN Add(d, cs) ELSE Remove(d, cs)
    BY <1>14 DEF DispatchDevice
  <2>5. \A new : Start(new) => tasks' \in [Task -> Nat]
    BY <1>0 DEF Start, TypeOK
  <2>6. ASSUME Add(d, cs)
        PROVE  tasks' \in [Task -> Nat] /\ devNumberMap' \in [Device -> Device \cup {NoNumber}]
    <3>1. PICK told \in Informed(d, cs) :
             /\ devNumberMap' = IF told = {} THEN devNumberMap
                                ELSE [devNumberMap EXCEPT ![d] = d]
             /\ Start(NewTasks("add", told, d, d))
      BY <2>6 DEF Add
    <3> QED
      BY <1>0, <2>2, <2>5, <3>1 DEF TypeOK
  <2>7. ASSUME Remove(d, cs)
        PROVE  tasks' \in [Task -> Nat] /\ devNumberMap' \in [Device -> Device \cup {NoNumber}]
    BY <1>0, <2>5, <2>7 DEF Remove, TypeOK
  <2>8. tasks' \in [Task -> Nat] /\ devNumberMap' \in [Device -> Device \cup {NoNumber}]
    BY <2>4, <2>6, <2>7
  <2>9. overlapped' \subseteq Container \X Device
    BY <1>14 DEF DispatchDevice, MarkOverlaps
  <2>10. TypeOK'
    BY <1>0, <1>14, <2>3, <2>8, <2>9 DEF DispatchDevice, TypeOK
  <2>11. SendersWait'
    BY <1>0, <1>14, <2>3 DEF DispatchDevice, SendersWait
  <2> QED
    BY <2>10, <2>11 DEF TypeInv
<1>15. CASE NewGroup
  <2>1. group.uinput \in Trigger
    BY <1>0, <1>15 DEF NewGroup, TypeOK, SendersWait
  <2>2. group.uinput.age \in Age
    BY <2>1 DEF Trigger
  <2>3. group' \in [uinput : Trigger \cup {None}, devices : Seq(DeviceEvent)]
    BY <1>15, EmptySeq DEF NewGroup, EmptyGroup
  <2>4. TypeOK'
    BY <1>0, <1>15, <2>2, <2>3 DEF NewGroup, TypeOK
  <2>5. SendersWait'
    BY <1>0, <1>15 DEF NewGroup, SendersWait
  <2> QED
    BY <2>4, <2>5 DEF TypeInv
<1>16. ASSUME NEW t \in Task, WriteCgroup(t) PROVE TypeInv'
  <2>1. /\ t.container \in Container /\ t.num \in Device \cup {NoNumber}
        /\ [t EXCEPT !.pc = "exec"] \in Task
    BY DEF Task
  <2>2. tasks' \in [Task -> Nat]
    <3> DEFINE u == [t EXCEPT !.pc = "exec"]
    <3>1. tasks' = [tasks EXCEPT ![t] = @ - 1, ![u] = @ + 1] /\ tasks[t] > 0
      BY <1>16 DEF WriteCgroup
    <3>2. tasks \in [Task -> Nat] /\ u \in Task
      BY <1>0, <2>1 DEF TypeOK
    <3> HIDE DEF u
    <3> QED
      BY <3>1, <3>2
  <2>3. cgroup' \in [Container -> SUBSET (Device \cup {NoNumber})]
    <3> DEFINE S == SUBSET (Device \cup {NoNumber})
               new == IF t.op = "add" THEN cgroup[t.container] \cup {t.num}
                      ELSE cgroup[t.container] \ {t.num}
    <3>1. cgroup \in [Container -> S] /\ cgroup[t.container] \in S
      BY <1>0, <2>1 DEF TypeOK
    <3>2. new \in S
      BY <2>1, <3>1
    <3>3. cgroup' = [cgroup EXCEPT ![t.container] = new] \/ cgroup' = cgroup
      BY <1>16 DEF WriteCgroup
    <3> HIDE DEF S, new
    <3>4. cgroup' \in [Container -> S]
      BY <2>1, <3>1, <3>2, <3>3
    <3> QED
      BY <3>4 DEF S
  <2>4. TypeOK'
    BY <1>0, <1>16, <2>2, <2>3 DEF WriteCgroup, TypeOK
  <2> QED
    BY <1>0, <1>16, <2>4, SendersStillWait DEF WriteCgroup, TypeInv
<1>17. ASSUME NEW t \in Task, ExecInContainer(t) PROVE TypeInv'
  <2>1. t.container \in Container /\ t.path \in Device
    BY DEF Task
  <2>2. tasks' \in [Task -> Nat]
    BY <1>0, <1>17 DEF ExecInContainer, TypeOK
  <2>3. nodes' \in [Container -> SUBSET Device]
    <3> DEFINE S == SUBSET Device
               new == IF t.op = "add" THEN nodes[t.container] \cup {t.path}
                      ELSE nodes[t.container] \ {t.path}
    <3>1. nodes \in [Container -> S] /\ nodes[t.container] \in S
      BY <1>0, <2>1 DEF TypeOK
    <3>2. new \in S
      BY <2>1, <3>1
    <3>3. nodes' = [nodes EXCEPT ![t.container] = new] \/ nodes' = nodes
      BY <1>17 DEF ExecInContainer
    <3> HIDE DEF S, new
    <3>4. nodes' \in [Container -> S]
      BY <2>1, <3>1, <3>2, <3>3
    <3> QED
      BY <3>4 DEF S
  <2>4. TypeOK'
    BY <1>0, <1>17, <2>2, <2>3 DEF ExecInContainer, TypeOK
  <2> QED
    BY <1>0, <1>17, <2>4, SendersStillWait DEF ExecInContainer, TypeInv
<1>18. CASE Tick
  <2>1. \A a \in Age : Older(a) \in Age
    BY UinputAssumption DEF Age, Older
  <2>2. \A e \in Trigger \cup {None} :
           /\ OlderTrigger(e) \in Trigger \cup {None}
           /\ OlderTrigger(e) = None <=> e = None
    BY <2>1, NoneAssumption DEF OlderTrigger, Trigger
  <2>3. \A h \in Helper : trigger'[h] \in Trigger \cup {None}
                        /\ (trigger'[h] = None <=> trigger[h] = None)
    BY <1>0, <1>18, <2>2 DEF Tick, TypeOK
  <2>4. group' \in [uinput : Trigger \cup {None}, devices : Seq(DeviceEvent)]
        /\ (group'.uinput = None <=> group.uinput = None)
    BY <1>0, <1>18, <2>2 DEF Tick, TypeOK
  <2>5. trigger' \in [Helper -> Trigger \cup {None}]
    BY <1>18, <2>3 DEF Tick
  <2>6. TypeOK'
    BY <1>0, <1>18, <2>1, <2>4, <2>5 DEF Tick, TypeOK
  <2>7. \A i \in 1 .. Len(sendq) : sendq[i] \in Helper \cup {"udev"}
    BY <1>0, ElementOfSeq DEF TypeOK
  <2>8. SendersWait'
    BY <1>0, <1>18, <2>3, <2>4, <2>7 DEF Tick, SendersWait
  <2> QED
    BY <2>6, <2>8 DEF TypeInv
<1>19. CASE Crash
  <2>1. Len(<<>>) = 0 /\ \A S : <<>> \in Seq(S)
    BY EmptySeq
  <2>2. TypeOK'
    BY <1>0, <1>19, <2>1 DEF Crash, TypeOK, EmptyGroup
  <2>3. SendersWait'
    BY <1>19, <2>1 DEF Crash, SendersWait
  <2> QED
    BY <2>2, <2>3 DEF TypeInv
<1>20. CASE Restart
  <2>1. TypeOK'
    BY <1>0, <1>20 DEF Restart, TypeOK
  <2>2. SendersWait'
    BY <1>0, <1>20 DEF Restart, SendersWait
  <2> QED
    BY <2>1, <2>2 DEF TypeInv
<1>21. CASE UNCHANGED vars
  BY <1>0, <1>21 DEF vars, TypeInv, TypeOK, SendersWait
<1> QED
  BY <1>1, <1>2, <1>3, <1>4, <1>5, <1>6, <1>7, <1>8, <1>9, <1>10, <1>11, <1>12,
     <1>13, <1>14, <1>15, <1>16, <1>17, <1>18, <1>19, <1>20, <1>21
     DEF Next, Kernel, HelperStep, Loop, TaskStep

\* Every reachable state satisfies the inductive invariant.
THEOREM TypeInvariance == Spec => []TypeInv
<1>1. Init => TypeInv
  BY InitTypeInv
<1>2. TypeInv /\ [Next]_vars => TypeInv'
  BY NextTypeInv
<1> QED
  BY <1>1, <1>2, PTL DEF Spec

\* Type correctness of the monitor, for every number of containers, helpers
\* and devices, every window and every choice of failing calls.
THEOREM TypeCorrect == Spec => []TypeOK
<1>1. TypeInv => TypeOK
  BY DEF TypeInv
<1> QED
  BY <1>1, TypeInvariance, PTL

\* A sender is in the channel's queue at most once and only while it has an
\* event to send: the loop never takes an event that is not there.
THEOREM SendersCorrect == Spec => []SendersWait
<1>1. TypeInv => SendersWait
  BY DEF TypeInv
<1> QED
  BY <1>1, TypeInvariance, PTL
=============================================================================
