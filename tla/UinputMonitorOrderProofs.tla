---------------------- MODULE UinputMonitorOrderProofs ----------------------
(***************************************************************************)
(* UinputMonitorOrder implements DeviceEventFifo, for any number of        *)
(* containers, devices, faults and crashes.                                *)
(***************************************************************************)
EXTENDS UinputMonitorOrder, UinputMonitorProofs

-----------------------------------------------------------------------------
(* Sequences.                                                              *)

\* A sequence is its head followed by its tail.
LEMMA HeadThenTail ==
    ASSUME NEW S, NEW s \in Seq(S), s # <<>>
    PROVE  <<Head(s)>> \o Tail(s) = s
<1>1. <<Head(s)>> \in Seq(S) /\ Len(<<Head(s)>>) = 1 /\ <<Head(s)>>[1] = Head(s)
  BY TailElements
<1>2. Tail(s) \in Seq(S) /\ Len(Tail(s)) = Len(s) - 1 /\ Len(s) \in Nat \ {0}
  BY TailElements
<1>3. /\ <<Head(s)>> \o Tail(s) \in Seq(S)
      /\ Len(<<Head(s)>> \o Tail(s)) = Len(s)
      /\ \A i \in 1 .. Len(s) :
            (<<Head(s)>> \o Tail(s))[i] = IF i <= 1 THEN Head(s) ELSE Tail(s)[i - 1]
  BY <1>1, <1>2, ConcatProperties
<1>4. \A i \in 1 .. Len(s) : (<<Head(s)>> \o Tail(s))[i] = s[i]
  BY <1>2, <1>3, TailElements
<1> QED
  BY <1>3, <1>4, SeqEqual

\* The tail of a concatenation whose first part is not empty.
LEMMA TailOfConcat ==
    ASSUME NEW S, NEW s \in Seq(S), NEW t \in Seq(S), s # <<>>
    PROVE  s \o t # <<>> /\ Tail(s \o t) = Tail(s) \o t
<1>1. s \o t \in Seq(S) /\ s \o t # <<>>
  BY ConcatProperties, ConcatEqualIffEmpty
<1>2. /\ Len(s) \in Nat \ {0} /\ Len(t) \in Nat
      /\ Tail(s) \in Seq(S) /\ Len(Tail(s)) = Len(s) - 1
      /\ \A i \in 1 .. Len(s) - 1 : Tail(s)[i] = s[i + 1]
  BY TailElements, LenProperties
<1>3. /\ Len(s \o t) = Len(s) + Len(t)
      /\ \A i \in 1 .. Len(s) + Len(t) :
            (s \o t)[i] = IF i <= Len(s) THEN s[i] ELSE t[i - Len(s)]
  BY ConcatProperties
<1>4. /\ Tail(s \o t) \in Seq(S) /\ Len(Tail(s \o t)) = Len(s) + Len(t) - 1
      /\ \A i \in 1 .. Len(s) + Len(t) - 1 : Tail(s \o t)[i] = (s \o t)[i + 1]
  BY <1>1, <1>3, TailElements
<1>5. /\ Tail(s) \o t \in Seq(S) /\ Len(Tail(s) \o t) = Len(s) + Len(t) - 1
      /\ \A i \in 1 .. Len(s) + Len(t) - 1 :
            (Tail(s) \o t)[i] = IF i <= Len(s) - 1 THEN Tail(s)[i] ELSE t[i - (Len(s) - 1)]
  BY <1>2, ConcatProperties
<1>6. ASSUME NEW i \in 1 .. Len(s) + Len(t) - 1
      PROVE  Tail(s \o t)[i] = (Tail(s) \o t)[i]
  <2>1. i + 1 \in 1 .. Len(s) + Len(t)
    BY <1>2
  <2>2. CASE i <= Len(s) - 1
    BY <1>2, <1>3, <1>4, <1>5, <2>1, <2>2
  <2>3. CASE ~(i <= Len(s) - 1)
    <3>1. i + 1 - Len(s) = i - (Len(s) - 1) /\ ~(i + 1 <= Len(s))
      BY <1>2, <2>3
    <3> QED
      BY <1>3, <1>4, <1>5, <2>1, <2>3, <3>1
  <2> QED
    BY <2>2, <2>3
<1> QED
  BY <1>1, <1>4, <1>5, <1>6, SeqEqual

\* The head of a concatenation whose first part is not empty.
LEMMA HeadOfConcat ==
    ASSUME NEW S, NEW s \in Seq(S), NEW t \in Seq(S), s # <<>>
    PROVE  s \o t \in Seq(S) /\ s \o t # <<>> /\ Head(s \o t) = Head(s)
<1>1. s \o t \in Seq(S) /\ s \o t # <<>>
  BY ConcatProperties, ConcatEqualIffEmpty
<1>2. Head(s) = s[1] /\ Len(s) \in Nat \ {0}
  BY TailElements
<1>3. Head(s \o t) = (s \o t)[1]
  BY <1>1, TailElements
<1>4. Len(t) \in Nat
  BY LenProperties
<1>5. (s \o t)[1] = s[1]
  BY <1>2, <1>4, ConcatProperties
<1> QED
  BY <1>1, <1>2, <1>3, <1>5

-----------------------------------------------------------------------------
(* The events on their way.                                                *)

\* The event the scanner is sending, as a sequence.
Sending == IF uevent = None THEN <<>> ELSE <<uevent>>

\* The queue is the group's events, that one and those not read.
LEMMA QueueParts == OnTheirWay = group.devices \o Sending \o uevents
  BY DEF OnTheirWay, Sending

\* The three parts are sequences of device events.
LEMMA PartsType ==
    ASSUME TypeOK
    PROVE  /\ group.devices \in Seq(DeviceEvent)
           /\ Sending \in Seq(DeviceEvent)
           /\ uevents \in Seq(DeviceEvent)
<1>1. <<>> \in Seq(DeviceEvent)
  BY EmptySeq
<1>2. uevent # None => <<uevent>> \in Seq(DeviceEvent)
  BY DEF TypeOK
<1> QED
  BY <1>1, <1>2 DEF TypeOK, Sending

\* Appending to the last of three sequences appends to the whole.
LEMMA AppendToLast ==
    ASSUME NEW S, NEW a \in Seq(S), NEW b \in Seq(S), NEW c \in Seq(S), NEW e \in S
    PROVE  (a \o b) \o Append(c, e) = Append((a \o b) \o c, e)
<1> DEFINE ab == a \o b
<1>1. ab \in Seq(S) /\ <<e>> \in Seq(S)
  BY ConcatProperties
<1>2. Append(c, e) = c \o <<e>>
  BY AppendIsConcat
<1>3. ab \o c \in Seq(S) /\ ab \o (c \o <<e>>) = (ab \o c) \o <<e>>
  <2> HIDE DEF ab
  <2> QED
    BY <1>1, ConcatProperties, ConcatAssociative
<1>4. (ab \o c) \o <<e>> = Append(ab \o c, e)
  <2> HIDE DEF ab
  <2> QED
    BY <1>3, AppendIsConcat
<1> QED
  BY <1>2, <1>3, <1>4

\* An element may pass from the head of the last sequence to an empty middle.
LEMMA HeadToMiddle ==
    ASSUME NEW S, NEW a \in Seq(S), NEW c \in Seq(S), c # <<>>
    PROVE  (a \o <<Head(c)>>) \o Tail(c) = (a \o <<>>) \o c
<1>1. Head(c) \in S /\ Tail(c) \in Seq(S)
  BY TailElements
<1>2. <<Head(c)>> \in Seq(S)
  BY <1>1
<1>3. (a \o <<Head(c)>>) \o Tail(c) = a \o (<<Head(c)>> \o Tail(c))
  BY <1>1, <1>2, ConcatAssociative
<1>4. <<Head(c)>> \o Tail(c) = c
  BY HeadThenTail
<1>5. a \o <<>> = a
  BY ConcatEmptySeq
<1> QED
  BY <1>3, <1>4, <1>5

\* An element may pass from the middle to the end of the first sequence.
LEMMA MiddleToFirst ==
    ASSUME NEW S, NEW a \in Seq(S), NEW c \in Seq(S), NEW e \in S
    PROVE  (Append(a, e) \o <<>>) \o c = (a \o <<e>>) \o c
<1>1. Append(a, e) = a \o <<e>> /\ Append(a, e) \in Seq(S)
  BY AppendIsConcat, AppendProperties
<1>2. Append(a, e) \o <<>> = Append(a, e)
  BY <1>1, ConcatEmptySeq
<1> QED
  BY <1>1, <1>2

\* The tail of three sequences whose first is not empty.
LEMMA TailOfThree ==
    ASSUME NEW S, NEW a \in Seq(S), NEW b \in Seq(S), NEW c \in Seq(S), a # <<>>
    PROVE  /\ (a \o b) \o c # <<>>
           /\ Tail((a \o b) \o c) = (Tail(a) \o b) \o c
<1> DEFINE ab == a \o b
<1>1. ab \in Seq(S) /\ ab # <<>> /\ Tail(ab) = Tail(a) \o b
  BY ConcatProperties, TailOfConcat
<1> HIDE DEF ab
<1>2. ab \o c # <<>> /\ Tail(ab \o c) = Tail(ab) \o c
  BY <1>1, TailOfConcat
<1> QED
  BY <1>1, <1>2 DEF ab

\* The head of three sequences whose first is not empty.
LEMMA HeadOfThree ==
    ASSUME NEW S, NEW a \in Seq(S), NEW b \in Seq(S), NEW c \in Seq(S), a # <<>>
    PROVE  Head((a \o b) \o c) = Head(a)
<1> DEFINE ab == a \o b
<1>1. ab \in Seq(S) /\ ab # <<>> /\ Head(ab) = Head(a)
  BY HeadOfConcat
<1> HIDE DEF ab
<1>2. Head(ab \o c) = Head(ab)
  BY <1>1, HeadOfConcat
<1> QED
  BY <1>1, <1>2 DEF ab

-----------------------------------------------------------------------------
(* The steps.                                                              *)

Emitted == \E e \in DeviceEvent : OnTheirWay' = Append(OnTheirWay, e)
Shifted == OnTheirWay # <<>> /\ OnTheirWay' = Tail(OnTheirWay)
Up == mpc # "down"

\* What a step does to the queue and to the process.
Quiet == UNCHANGED OnTheirWay /\ Up' = Up
Announce == Up /\ Up' /\ Emitted
Serve == /\ DispatchDevice
         /\ Up /\ Up'
         /\ Shifted
         /\ Head(OnTheirWay) = Head(group.devices)
Fall == Up /\ ~Up' /\ OnTheirWay' = <<>>
Rise == ~Up /\ Up' /\ UNCHANGED OnTheirWay

QueueStep == (~DispatchDevice /\ (Quiet \/ Announce \/ Fall \/ Rise)) \/ Serve

\* An action that leaves the three parts alone leaves the whole alone.
LEMMA PartsStay ==
    ASSUME group'.devices = group.devices, UNCHANGED <<uevent, uevents>>
    PROVE  UNCHANGED OnTheirWay
  BY DEF OnTheirWay

\* A device that appears or vanishes is announced at the end of the queue.
LEMMA KernelEmits ==
    ASSUME TypeOK, NEW type \in {"Added", "Removed"}, NEW d \in Device,
           EmitUevent(type, d), UNCHANGED <<group, uevent, mpc>>
    PROVE  Quiet \/ Announce
<1> DEFINE e == [type |-> type, path |-> d]
<1>1. e \in DeviceEvent
  BY DEF DeviceEvent
<1>2. CASE mpc # "down"
  <2>1. OnTheirWay' = (group.devices \o Sending) \o Append(uevents, e)
    BY <1>2, QueueParts DEF EmitUevent, OnTheirWay, Sending
  <2>2. (group.devices \o Sending) \o Append(uevents, e)
           = Append((group.devices \o Sending) \o uevents, e)
    <3>1. /\ group.devices \in Seq(DeviceEvent)
          /\ Sending \in Seq(DeviceEvent)
          /\ uevents \in Seq(DeviceEvent)
      BY PartsType
    <3>2. \A a, b, c \in Seq(DeviceEvent), x \in DeviceEvent :
             (a \o b) \o Append(c, x) = Append((a \o b) \o c, x)
      BY AppendToLast
    <3> HIDE DEF e
    <3> QED
      BY <1>1, <3>1, <3>2
  <2>3. OnTheirWay' = Append(OnTheirWay, e)
    BY <2>1, <2>2, QueueParts
  <2> QED
    BY <1>1, <1>2, <2>3 DEF Announce, Emitted, Up
<1>3. CASE mpc = "down"
  <2>1. UNCHANGED OnTheirWay
    BY <1>3, PartsStay DEF EmitUevent
  <2> QED
    BY <2>1 DEF Quiet, Up
<1> QED
  BY <1>2, <1>3

\* A step that neither touches the loop's place nor the queue is quiet.
LEMMA NothingMoves ==
    ASSUME group'.devices = group.devices, UNCHANGED <<uevent, uevents>>, Up' = Up
    PROVE  Quiet
  BY PartsStay DEF Quiet

\* Dispatching takes the first event out of the queue.
LEMMA DispatchServes ==
    ASSUME TypeOK, DispatchDevice
    PROVE  Serve
<1> USE DEF channelVars
<1>1. /\ group'.devices = Tail(group.devices) /\ group.devices # <<>>
      /\ UNCHANGED <<uevent, uevents>>
      /\ Up /\ Up'
  BY DEF DispatchDevice, TypeOK, Up
<1>2. OnTheirWay' = (Tail(group.devices) \o Sending) \o uevents
  BY <1>1 DEF OnTheirWay, Sending
<1>3. /\ group.devices \in Seq(DeviceEvent)
      /\ Sending \in Seq(DeviceEvent)
      /\ uevents \in Seq(DeviceEvent)
  BY PartsType
<1>4. \A a, b, c \in Seq(DeviceEvent) :
         a # <<>> => /\ (a \o b) \o c # <<>>
                     /\ Tail((a \o b) \o c) = (Tail(a) \o b) \o c
                     /\ Head((a \o b) \o c) = Head(a)
  <2>1. \A a, b, c \in Seq(DeviceEvent) :
           a # <<>> => /\ (a \o b) \o c # <<>>
                       /\ Tail((a \o b) \o c) = (Tail(a) \o b) \o c
    BY TailOfThree
  <2>2. \A a, b, c \in Seq(DeviceEvent) : a # <<>> => Head((a \o b) \o c) = Head(a)
    BY HeadOfThree
  <2> QED
    BY <2>1, <2>2
<1>5. /\ (group.devices \o Sending) \o uevents # <<>>
      /\ Tail((group.devices \o Sending) \o uevents)
            = (Tail(group.devices) \o Sending) \o uevents
      /\ Head((group.devices \o Sending) \o uevents) = Head(group.devices)
  BY <1>1, <1>3, <1>4
<1> QED
  BY <1>1, <1>2, <1>5, QueueParts DEF Serve, Shifted

\* Every step of the monitor dispatches the first event of the queue, or moves
\* the queue as the kernel and the process do, or leaves it alone.
LEMMA NextQueueStep == TypeInv /\ [Next]_vars => QueueStep
<1> SUFFICES ASSUME TypeInv, [Next]_vars PROVE QueueStep
  OBVIOUS
<1> USE DEF kernelVars, helperVars, channelVars, loopVars, containerVars
<1>0. TypeOK /\ SendersWait
  BY DEF TypeInv
<1>1. CASE DispatchDevice
  BY <1>0, <1>1, DispatchServes DEF QueueStep
<1> SUFFICES ASSUME ~DispatchDevice PROVE Quiet \/ Announce \/ Fall \/ Rise
  BY <1>1 DEF QueueStep
<1>2. ASSUME NEW c \in Container, AppOpen(c) \/ AppClose(c) PROVE Quiet
  BY <1>2, NothingMoves DEF AppOpen, AppClose, Up
<1>3. ASSUME NEW c \in Container, NEW d \in Device, CreateDevice(c, d)
      PROVE  Quiet \/ Announce
  BY <1>0, <1>3, KernelEmits DEF CreateDevice
<1>4. ASSUME NEW d \in Device, DestroyDevice(d) PROVE Quiet \/ Announce
  BY <1>0, <1>4, KernelEmits DEF DestroyDevice
<1>5. ASSUME NEW h \in Helper, StartContainer(h) \/ HelperStep(h) PROVE Quiet
  BY <1>5, NothingMoves DEF StartContainer, HelperStep, SendTrigger, LoseTrigger, Up
<1>6. ASSUME NEW s \in Socket, Listen(s) PROVE Quiet
  BY <1>6, NothingMoves DEF Listen, Up
<1>7. CASE ScanUevent
  <2>1. uevents \in Seq(DeviceEvent) /\ uevents # <<>> /\ Head(uevents) \in DeviceEvent
    BY <1>0, <1>7, TailElements DEF ScanUevent, TypeOK
  <2>2. OnTheirWay = (group.devices \o <<>>) \o uevents
    BY <1>7 DEF ScanUevent, OnTheirWay
  <2>3. OnTheirWay' = (group.devices \o <<Head(uevents)>>) \o Tail(uevents)
    BY <1>7, <2>1, NoneAssumption DEF ScanUevent, OnTheirWay
  <2>4. group.devices \in Seq(DeviceEvent)
    BY <1>0, PartsType
  <2>5. UNCHANGED OnTheirWay
    BY <2>1, <2>2, <2>3, <2>4, HeadToMiddle
  <2> QED
    BY <1>7, <2>5 DEF ScanUevent, Quiet, Up
<1>8. CASE EnterLoop
  BY <1>8, NothingMoves DEF EnterLoop, Up
<1>9. CASE ReceiveTrigger
  <2>1. group'.devices = group.devices /\ UNCHANGED <<uevent, uevents>>
    BY <1>0, <1>9 DEF ReceiveTrigger, WindowTest, TypeOK
  <2>2. Up /\ Up'
    BY <1>9 DEF ReceiveTrigger, WindowTest, Up
  <2> QED
    BY <2>1, <2>2, NothingMoves
<1>10. CASE ReceiveDevice
  <2>1. uevent \in DeviceEvent /\ uevent # None
    <3>1. sendq \in Seq(Sender) /\ sendq # <<>> /\ Head(sendq) = "udev"
      BY <1>0, <1>10 DEF ReceiveDevice, TypeOK, Sender
    <3>2. Head(sendq) = sendq[1] /\ Len(sendq) \in Nat \ {0}
      BY <3>1, TailElements
    <3> QED
      BY <1>0, <3>1, <3>2 DEF SendersWait, TypeOK
  <2>2. OnTheirWay = (group.devices \o <<uevent>>) \o uevents
    BY <2>1 DEF OnTheirWay
  <2>3. group'.devices = Append(group.devices, uevent)
    BY <1>0, <1>10 DEF ReceiveDevice, WindowTest, TypeOK
  <2>4. OnTheirWay' = (Append(group.devices, uevent) \o <<>>) \o uevents
    BY <1>10, <2>3 DEF ReceiveDevice, OnTheirWay
  <2>5. group.devices \in Seq(DeviceEvent) /\ uevents \in Seq(DeviceEvent)
    BY <1>0, PartsType
  <2>6. UNCHANGED OnTheirWay
    BY <2>1, <2>2, <2>4, <2>5, MiddleToFirst
  <2>7. Up /\ Up'
    BY <1>10 DEF ReceiveDevice, WindowTest, Up
  <2> QED
    BY <2>6, <2>7 DEF Quiet
<1>11. CASE ReceiveNothing
  <2>1. group' = group /\ UNCHANGED <<uevent, uevents>> /\ Up /\ Up'
    BY <1>11 DEF ReceiveNothing, WindowTest, Up
  <2> QED
    BY <2>1, NothingMoves
<1>12. CASE NewGroup
  BY <1>12, NothingMoves DEF NewGroup, EmptyGroup, Up
<1>13. ASSUME NEW t \in Task, TaskStep(t) PROVE Quiet
  BY <1>13, NothingMoves DEF TaskStep, WriteCgroup, ExecInContainer, Up
<1>14. CASE Tick
  BY <1>0, <1>14, NothingMoves DEF Tick, TypeOK, Up
<1>15. CASE Crash
  <2>1. OnTheirWay' = (<<>> \o <<>>) \o <<>>
    BY <1>15 DEF Crash, EmptyGroup, OnTheirWay
  <2>2. OnTheirWay' = <<>>
    BY <2>1, EmptySeq, ConcatEmptySeq
  <2> QED
    BY <1>15, <2>2 DEF Crash, Fall, Up
<1>16. CASE Restart
  BY <1>16, PartsStay DEF Restart, Rise, Up
<1>17. CASE UNCHANGED vars
  BY <1>17, NothingMoves DEF vars, Up
<1> QED
  BY <1>2, <1>3, <1>4, <1>5, <1>6, <1>7, <1>8, <1>9, <1>10, <1>11, <1>12,
     <1>13, <1>14, <1>15, <1>16, <1>17 DEF Next, Kernel, Loop

\* A step of the monitor with its record is a step of the queue.
LEMMA OrderStep == TypeInv /\ [OrderNext]_orderVars => [Fifo!Next]_(Fifo!vars)
<1> SUFFICES ASSUME TypeInv, [OrderNext]_orderVars PROVE [Fifo!Next]_(Fifo!vars)
  OBVIOUS
<1> USE DEF Fifo!Next, Fifo!vars, Up
<1>1. CASE UNCHANGED orderVars
  <2>1. UNCHANGED <<group, uevent, uevents, mpc, dispatched>>
    BY <1>1 DEF orderVars, vars, channelVars, loopVars
  <2>2. UNCHANGED OnTheirWay
    BY <2>1, PartsStay
  <2> QED
    BY <2>1, <2>2
<1>2. CASE OrderNext
  <2>1. QueueStep
    BY <1>2, NextQueueStep DEF OrderNext
  <2>2. CASE Serve
    <3>1. dispatched' = Append(dispatched, Head(OnTheirWay))
      BY <1>2, <2>2 DEF OrderNext, Serve
    <3> QED
      BY <2>2, <3>1 DEF Serve, Shifted, Fifo!Dispatch
  <2>3. CASE ~DispatchDevice /\ (Quiet \/ Announce \/ Fall \/ Rise)
    <3>1. dispatched' = dispatched
      BY <1>2, <2>3 DEF OrderNext
    <3>2. CASE Quiet
      BY <3>1, <3>2 DEF Quiet
    <3>3. CASE Announce
      BY <3>1, <3>3 DEF Announce, Emitted, Fifo!Emit
    <3>4. CASE Fall
      BY <3>1, <3>4 DEF Fall, Fifo!Die
    <3>5. CASE Rise
      BY <3>1, <3>5 DEF Rise, Fifo!Restart
    <3> QED
      BY <2>3, <3>2, <3>3, <3>4, <3>5
  <2> QED
    BY <2>1, <2>2, <2>3 DEF QueueStep
<1> QED
  BY <1>1, <1>2

-----------------------------------------------------------------------------
\* Between the kernel and the dispatcher device events form one queue: an event
\* leaves it only by being dispatched, in its turn, or with the death of the
\* monitor, which drops all that are queued and the next ones until it is up.
THEOREM EventsStayInOrder == OrderSpec => DeviceEventsInOrder
<1>1. OrderInit => Fifo!Init
  <2> SUFFICES ASSUME OrderInit PROVE Fifo!Init
    OBVIOUS
  <2>1. OnTheirWay = (<<>> \o <<>>) \o <<>>
    BY DEF OrderInit, Init, EmptyGroup, OnTheirWay
  <2>2. OnTheirWay = <<>>
    BY <2>1, EmptySeq, ConcatEmptySeq
  <2> QED
    BY <2>2 DEF OrderInit, Init, Fifo!Init
<1>2. TypeInv /\ [OrderNext]_orderVars => [Fifo!Next]_(Fifo!vars)
  BY OrderStep
<1>3. OrderInit => Init
  BY DEF OrderInit
<1>4. [OrderNext]_orderVars => [Next]_vars
  BY DEF OrderNext, orderVars
<1>5. OrderSpec => []TypeInv
  BY <1>3, <1>4, TypeInvariance, PTL DEF OrderSpec, Spec
<1> QED
  BY <1>1, <1>2, <1>5, PTL DEF OrderSpec, DeviceEventsInOrder, Fifo!Spec
=============================================================================
