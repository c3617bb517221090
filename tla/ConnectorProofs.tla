-------------------------- MODULE ConnectorProofs ---------------------------
(***************************************************************************)
(* Proofs about Connector: what either end of a connection receives is what*)
(* the other end wrote, in order and without a gap, and all of it when the *)
(* connection ends in order.                                               *)
(*                                                                         *)
(* The inductive invariant follows the chunks of each direction through    *)
(* the process: what is in the socket follows what the handler holds,      *)
(* which follows what is in the websocket, which follows what has arrived. *)
(***************************************************************************)
EXTENDS Connector, TLAPS

\* Where handler, reader and websocket can be together.
Phases ==
    /\ ~alive => main = "done"
    /\ client = "absent" => link = "none" /\ main \in {"idle", "done"}
    /\ client = "absent" /\ alive => main = "idle"
    /\ main \in {"idle", "dial"} => link = "none"
    /\ link = "none" => main \in {"idle", "dial", "done"}
    /\ link = "none" => ws \in {"off", "gone"} /\ ~ctx /\ ~closeSent
    /\ link = "none" <=> remote = "none"
    /\ link \in {"closed", "reset"} => main = "done"
    /\ main = "done" => link # "up"
    /\ link = "up" => ws # "off"
    /\ main = "eof" => ctx /\ client \in {"half", "closed"}

\* Nothing is in a websocket that is not there.
Empty ==
    /\ link # "up" => downn = <<>>
    /\ link = "none" =>
          dsent = 0 /\ upn = <<>> /\ got = <<>> /\ downl = <<>> /\ rec = <<>>

\* A close frame is somewhere among the messages, or nowhere but at the end.
HasClose(s) == \E k \in 1 .. Len(s) : s[k] = Close
CloseLast(s) == \A k \in 1 .. Len(s) : s[k] = Close => k = Len(s)

\* The chunks among the messages follow the n-th, with no gap.
Follow(s, n) == \A k \in 1 .. Len(s) : s[k] # Close => s[k] = n + k

\* A close frame is the last message, and somebody sent it.
CloseIsLast ==
    /\ CloseLast(upn)
    /\ HasClose(upn) => closeSent
    /\ CloseLast(downn)
    /\ HasClose(downn) => remote \in {"closing", "ended"}
    /\ remote = "ended" => closeSent
    /\ ws = "copy" => item # Close
    /\ main = "write" => chunk # Close

\* What is on its way to a remote side that still listens.
UpOrder ==
    remote = "open" =>
        /\ Follow(upn, Len(got))
        /\ Len(got) + Len(upn) <= IF HasClose(upn) THEN sent + 1 ELSE sent

\* What the handler holds, or has written: nothing was skipped.
Taken == Len(got) + Len(upn) + (IF main = "write" THEN 1 ELSE 0)

\* The client's socket follows what the handler took.
UpNext ==
    /\ link \in {"none", "up"}
    /\ ~closeSent
    /\ remote \in {"none", "open"}
    /\ main # "done"
    =>
        /\ main = "write" => chunk = Taken
        /\ Follow(upl, Taken)
        /\ Taken + Len(upl) <= sent
        /\ client # "closed" => Taken + Len(upl) = sent

\* The handler has ended in order or is about to.
Ending == link = "closed" \/ (link = "up" /\ main \in {"eof", "end"})

\* Why a handler whose remote side did not close ends.
EndWhy ==
    remote # "closing" =>
        /\ closeSent => main \in {"end", "done"}
        /\ ctx /\ link = "up" /\ client # "closed" => main \in {"eof", "end"}
        /\ Ending => client \in {"half", "closed"}

\* Nothing of the upload is missing from a websocket that ends in order.
UpDone ==
    Ending /\ client = "half" =>
        /\ remote = "open" =>
              Len(got) + Len(upn) = IF HasClose(upn) THEN sent + 1 ELSE sent
        /\ remote = "ended" => Len(got) = sent

\* Messages the reader has taken from the websocket.
Passed == Len(rec) + Len(downl) + (IF ws = "copy" THEN 1 ELSE 0)

\* Socket, reader and websocket follow each other, with no gap.
DownOrder ==
    client # "closed" =>
        /\ Follow(downl, Len(rec))
        /\ Len(rec) + Len(downl) <= dsent
        /\ ws = "copy" /\ main # "done" => item = Passed /\ Passed <= dsent
        /\ link = "up" /\ ws # "gone" =>
              /\ Follow(downn, Passed)
              /\ Passed + Len(downn) = IF HasClose(downn) THEN dsent + 1 ELSE dsent

\* A reader that stops while the websocket is there has seen the end.
ReaderGone == ws = "gone" /\ link = "up" => remote \in {"closing", "ended"}

-----------------------------------------------------------------------------
\* TypeOK in four parts.
FlagTypes == alive \in BOOLEAN /\ ctx \in BOOLEAN /\ closeSent \in BOOLEAN

UpTypes ==
    /\ sent \in Nat
    /\ chunk \in Nat
    /\ upl \in Seq(Message)
    /\ upn \in Seq(Nat)
    /\ got \in Seq(Message)

DownTypes ==
    /\ dsent \in Nat
    /\ item \in Nat
    /\ downl \in Seq(Message)
    /\ downn \in Seq(Nat)
    /\ rec \in Seq(Message)

StateTypes ==
    /\ client \in {"absent", "open", "half", "closed"}
    /\ main \in {"idle", "dial", "check", "read", "write", "eof", "end", "done"}
    /\ link \in {"none", "up", "broken", "closed", "reset"}
    /\ remote \in {"none", "open", "closing", "ended"}
    /\ ws \in {"off", "next", "copy", "gone"}

\* A sequence of messages is one of numbers.
LEMMA MessagesAreNumbers == \A s \in Seq(Message) : s \in Seq(Nat)
  BY DEF Message

\* The empty sequence.
LEMMA EmptyFacts ==
    /\ <<>> \in Seq(Nat) /\ <<>> \in Seq(Message)
    /\ Len(<<>>) = 0
    /\ \A s \in Seq(Nat) : s = <<>> <=> Len(s) = 0
    /\ ~HasClose(<<>>) /\ CloseLast(<<>>)
    /\ \A n \in Nat : Follow(<<>>, n)
  BY DEF HasClose, CloseLast, Follow

\* What a reset leaves.
LEMMA KeepFacts ==
    \A s, t, r : t \in Keep(s, r) => t = s \/ (t = <<>> /\ r)
  BY DEF Keep

\* What appending a message does.
LEMMA AppendFacts ==
    ASSUME NEW s \in Seq(Nat), NEW x \in Nat
    PROVE  /\ Append(s, x) \in Seq(Nat)
           /\ Len(s) \in Nat
           /\ Len(Append(s, x)) = Len(s) + 1
           /\ HasClose(Append(s, x)) <=> HasClose(s) \/ x = Close
           /\ ~HasClose(s) => CloseLast(Append(s, x))
           /\ \A n \in Nat :
                 Follow(s, n) /\ (x = Close \/ x = n + Len(s) + 1) =>
                     Follow(Append(s, x), n)
<1> DEFINE t == Append(s, x)
<1>1. t \in Seq(Nat) /\ Len(s) \in Nat /\ Len(t) = Len(s) + 1
  OBVIOUS
<1>2. t[Len(s) + 1] = x /\ \A k \in 1 .. Len(s) : t[k] = s[k]
  OBVIOUS
<1> HIDE DEF t
<1>3. HasClose(t) <=> HasClose(s) \/ x = Close
  <2>1. ASSUME NEW k \in 1 .. Len(t), t[k] = Close PROVE HasClose(s) \/ x = Close
    <3>1. CASE k \in 1 .. Len(s)
      BY <1>2, <2>1, <3>1 DEF HasClose
    <3>2. CASE k = Len(s) + 1
      BY <1>2, <2>1, <3>2
    <3> QED
      BY <1>1, <3>1, <3>2
  <2>2. ASSUME NEW k \in 1 .. Len(s), s[k] = Close PROVE HasClose(t)
    <3>1. k \in 1 .. Len(t) /\ t[k] = Close
      BY <1>1, <1>2, <2>2
    <3> QED
      BY <3>1 DEF HasClose
  <2>3. ASSUME x = Close PROVE HasClose(t)
    <3>1. Len(s) + 1 \in 1 .. Len(t) /\ t[Len(s) + 1] = Close
      BY <1>1, <1>2, <2>3
    <3> QED
      BY <3>1 DEF HasClose
  <2> QED
    BY <2>1, <2>2, <2>3, Zenon DEF HasClose
<1>4. ~HasClose(s) => CloseLast(t)
  <2> SUFFICES ASSUME ~HasClose(s), NEW k \in 1 .. Len(t), t[k] = Close
               PROVE  k = Len(t)
    BY DEF CloseLast
  <2>1. k \in 1 .. Len(s) => s[k] = Close
    BY <1>2
  <2> QED
    BY <1>1, <2>1 DEF HasClose
<1>5. ASSUME NEW n \in Nat, Follow(s, n), x = Close \/ x = n + Len(s) + 1
      PROVE  Follow(t, n)
  <2> SUFFICES ASSUME NEW k \in 1 .. Len(t), t[k] # Close PROVE t[k] = n + k
    BY DEF Follow
  <2>1. CASE k \in 1 .. Len(s)
    BY <1>2, <1>5, <2>1 DEF Follow
  <2>2. CASE k = Len(s) + 1
    BY <1>1, <1>2, <1>5, <2>2
  <2> QED
    BY <1>1, <2>1, <2>2
<1> QED
  BY <1>1, <1>3, <1>4, <1>5 DEF t

\* What taking the first message away does.
LEMMA TailFacts ==
    ASSUME NEW s \in Seq(Nat), s # <<>>
    PROVE  /\ Tail(s) \in Seq(Nat)
           /\ Head(s) \in Nat
           /\ Len(s) \in Nat \ {0}
           /\ Len(Tail(s)) = Len(s) - 1
           /\ HasClose(s) <=> HasClose(Tail(s)) \/ Head(s) = Close
           /\ CloseLast(s) =>
                 CloseLast(Tail(s)) /\ (Head(s) = Close => Tail(s) = <<>>)
           /\ \A n \in Nat : Follow(s, n) =>
                 Follow(Tail(s), n + 1) /\ (Head(s) # Close => Head(s) = n + 1)
<1> DEFINE t == Tail(s)
<1>1. t \in Seq(Nat) /\ Len(s) \in Nat \ {0} /\ Len(t) = Len(s) - 1
  OBVIOUS
<1>2. Head(s) = s[1] /\ Head(s) \in Nat
  OBVIOUS
<1>3. \A k \in 1 .. Len(t) : t[k] = s[k + 1]
  OBVIOUS
<1> HIDE DEF t
<1>4. HasClose(s) <=> HasClose(t) \/ Head(s) = Close
  <2>1. ASSUME NEW k \in 1 .. Len(s), s[k] = Close, k # 1 PROVE HasClose(t)
    <3>1. k - 1 \in 1 .. Len(t) /\ t[k - 1] = Close
      BY <1>1, <1>3, <2>1
    <3> QED
      BY <3>1 DEF HasClose
  <2>2. ASSUME NEW k \in 1 .. Len(t), t[k] = Close PROVE HasClose(s)
    <3>1. k + 1 \in 1 .. Len(s) /\ s[k + 1] = Close
      BY <1>1, <1>3, <2>2
    <3> QED
      BY <3>1 DEF HasClose
  <2>3. HasClose(s) => HasClose(t) \/ Head(s) = Close
    <3> SUFFICES ASSUME NEW k \in 1 .. Len(s), s[k] = Close
                 PROVE  HasClose(t) \/ Head(s) = Close
      BY Zenon DEF HasClose
    <3>1. CASE k = 1
      BY <1>2, <3>1
    <3>2. CASE k # 1
      BY <2>1, <3>2
    <3> QED
      BY <3>1, <3>2
  <2>4. HasClose(t) => HasClose(s)
    BY <2>2, Zenon DEF HasClose
  <2>5. Head(s) = Close => HasClose(s)
    <3>1. 1 \in 1 .. Len(s)
      BY <1>1
    <3> QED
      BY <1>2, <3>1, Zenon DEF HasClose
  <2> QED
    BY <2>3, <2>4, <2>5, Zenon
<1>5. CloseLast(s) => CloseLast(t)
  BY <1>1, <1>3 DEF CloseLast
<1>6. CloseLast(s) /\ Head(s) = Close => t = <<>>
  <2>1. CloseLast(s) /\ Head(s) = Close => Len(t) = 0
    BY <1>1, <1>2 DEF CloseLast
  <2> QED
    BY <1>1, <2>1, EmptyFacts
<1>7. ASSUME NEW n \in Nat, Follow(s, n)
      PROVE  Follow(t, n + 1) /\ (Head(s) # Close => Head(s) = n + 1)
  <2>1. ASSUME NEW k \in 1 .. Len(t), t[k] # Close PROVE t[k] = n + 1 + k
    <3>1. k + 1 \in 1 .. Len(s) /\ t[k] = s[k + 1]
      BY <1>1, <1>3
    <3>2. s[k + 1] = n + (k + 1)
      BY <1>7, <2>1, <3>1 DEF Follow
    <3> QED
      BY <3>1, <3>2
  <2>2. Follow(t, n + 1)
    BY <2>1 DEF Follow
  <2>3. Head(s) # Close => Head(s) = n + 1
    BY <1>1, <1>2, <1>7 DEF Follow
  <2> QED
    BY <2>2, <2>3
<1> QED
  BY <1>1, <1>2, <1>4, <1>5, <1>6, <1>7 DEF t

\* Every step keeps the flags Boolean.
LEMMA FlagStep ==
    TypeOK /\ [Next]_vars => FlagTypes'
<1> SUFFICES ASSUME TypeOK, [Next]_vars PROVE FlagTypes'
  OBVIOUS
<1> USE DEF processVars, upVars, downVars, linkVars
<1>1. CASE
      \/ Connect \/ ClientWrite \/ ClientRead \/ ClientHalfClose
      \/ ClientClose \/ RemoteWrite \/ RemoteClose \/ RemoteRead \/ LinkBreaks
  BY <1>1
     DEF TypeOK, FlagTypes, Connect, ClientWrite, ClientRead, ClientHalfClose,
         ClientClose, Keep, RemoteWrite, RemoteClose, RemoteRead, LinkBreaks
<1>2. CASE Dial \/ DialFails \/ Check \/ Read \/ ReadEOF
  BY <1>2 DEF TypeOK, FlagTypes, Dial, DialFails, Keep, Check, Read, ReadEOF
<1>3. CASE ReadFails \/ Write \/ WriteFails \/ SendClose \/ End
  BY <1>3
     DEF TypeOK, FlagTypes, ReadFails, Write, WriteFails, SendClose, End, Keep
<1>4. CASE NextMessage \/ NextClose \/ NextFails \/ Copy \/ CopyToNobody
  BY <1>4
     DEF TypeOK, FlagTypes, NextMessage, NextClose, NextFails, Copy,
         CopyToNobody, Keep
<1>5. CASE UNCHANGED vars
  BY <1>5 DEF TypeOK, FlagTypes, vars
<1> QED
  BY <1>1, <1>2, <1>3, <1>4, <1>5 DEF Next, Handler, Reader, Environment

\* Every step keeps the sequences of the upload.
LEMMA UpTypeStep ==
    TypeOK /\ [Next]_vars => UpTypes'
<1> SUFFICES ASSUME TypeOK, [Next]_vars PROVE UpTypes'
  OBVIOUS
<1> USE DEF processVars, upVars, downVars, linkVars
<1>1. CASE
      \/ Connect \/ ClientRead \/ ClientHalfClose \/ RemoteWrite
      \/ RemoteClose \/ Dial \/ Check \/ ReadEOF \/ ReadFails \/ WriteFails
      \/ NextMessage \/ NextFails \/ Copy
  BY <1>1
     DEF TypeOK, UpTypes, Message, Close, Connect, ClientRead,
         ClientHalfClose, RemoteWrite, RemoteClose, Dial, Check, ReadEOF,
         ReadFails, WriteFails, NextMessage, NextFails, Copy
<1>2. CASE ClientWrite
  BY <1>2 DEF TypeOK, UpTypes, Message, Close, ClientWrite
<1>3. CASE ClientClose
  <2>1. upl' = upl \/ upl' = <<>>
    BY <1>3, KeepFacts DEF ClientClose
  <2> QED
    BY <1>3, <2>1, EmptyFacts DEF TypeOK, UpTypes, ClientClose
<1>4. CASE RemoteRead
  <2>1. Head(upn) \in Nat /\ Tail(upn) \in Seq(Nat)
    BY <1>4, TailFacts DEF TypeOK, RemoteRead
  <2>2. Head(upn) # Close => Append(got, Head(upn)) \in Seq(Message)
    BY <2>1 DEF TypeOK, Message
  <2>3. upn' \in Seq(Nat) /\ got' \in Seq(Message)
    BY <1>4, <2>1, <2>2 DEF TypeOK, RemoteRead
  <2> QED
    BY <1>4, <2>3 DEF TypeOK, UpTypes, RemoteRead
<1>5. CASE LinkBreaks
  BY <1>5 DEF TypeOK, UpTypes, Message, Close, LinkBreaks
<1>6. CASE DialFails
  <2>1. upn' = upn \/ upn' = <<>>
    BY <1>6, KeepFacts DEF DialFails
  <2> QED
    BY <1>6, <2>1, EmptyFacts DEF TypeOK, UpTypes, DialFails
<1>7. CASE Read
  BY <1>7 DEF TypeOK, UpTypes, Message, Close, Read
<1>8. CASE Write
  BY <1>8 DEF TypeOK, UpTypes, Message, Close, Write
<1>9. CASE SendClose
  <2>1. Append(upn, Close) \in Seq(Nat)
    BY DEF TypeOK, Close
  <2>2. upn' = upn \/ upn' = Append(upn, Close)
    BY <1>9 DEF SendClose
  <2> QED
    BY <1>9, <2>1, <2>2 DEF TypeOK, UpTypes, SendClose
<1>10. CASE End
  <2>1. upn' = upn \/ upn' = <<>>
    BY <1>10, KeepFacts DEF End
  <2> QED
    BY <1>10, <2>1, EmptyFacts DEF TypeOK, UpTypes, End
<1>11. CASE NextClose
  <2>1. Append(upn, Close) \in Seq(Nat)
    BY DEF TypeOK, Close
  <2>2. upn' = upn \/ upn' = Append(upn, Close)
    BY <1>11 DEF NextClose
  <2> QED
    BY <1>11, <2>1, <2>2 DEF TypeOK, UpTypes, NextClose
<1>12. CASE CopyToNobody
  <2>1. upl' = upl \/ upl' = <<>>
    BY <1>12, KeepFacts DEF CopyToNobody
  <2> QED
    BY <1>12, <2>1, EmptyFacts DEF TypeOK, UpTypes, CopyToNobody
<1>13. CASE UNCHANGED vars
  BY <1>13 DEF TypeOK, UpTypes, Message, Close, vars
<1> QED
  BY <1>1, <1>2, <1>3, <1>4, <1>5, <1>6, <1>7, <1>8, <1>9, <1>10, <1>11,
     <1>12, <1>13
     DEF Next, Handler, Reader, Environment

\* And those of the download.
LEMMA DownTypeStep ==
    TypeOK /\ CloseIsLast /\ [Next]_vars => DownTypes'
<1> SUFFICES ASSUME TypeOK, CloseIsLast, [Next]_vars PROVE DownTypes'
  OBVIOUS
<1> USE DEF processVars, upVars, downVars, linkVars
<1>1. CASE
      \/ Connect \/ ClientWrite \/ ClientHalfClose \/ Dial \/ Check \/ Read
      \/ ReadEOF \/ ReadFails \/ Write \/ WriteFails \/ NextFails \/ SendClose
      \/ CopyToNobody
  BY <1>1
     DEF TypeOK, DownTypes, Message, Close, CloseIsLast, Connect, ClientWrite,
         ClientHalfClose, Dial, Check, Read, ReadEOF, ReadFails, Write,
         WriteFails, NextFails, SendClose, CopyToNobody, Keep
<1>2. CASE ClientRead
  BY <1>2 DEF TypeOK, DownTypes, Message, Close, CloseIsLast, ClientRead
<1>3. CASE ClientClose
  BY <1>3 DEF TypeOK, DownTypes, Message, Close, CloseIsLast, ClientClose, Keep
<1>4. CASE RemoteWrite
  BY <1>4 DEF TypeOK, DownTypes, Message, Close, CloseIsLast, RemoteWrite
<1>5. CASE RemoteClose
  BY <1>5 DEF TypeOK, DownTypes, Message, Close, CloseIsLast, RemoteClose
<1>6. CASE RemoteRead
  <2>1. Append(downn, Close) \in Seq(Nat)
    BY DEF TypeOK, Close
  <2>2. downn' = downn \/ downn' = Append(downn, Close)
    BY <1>6 DEF RemoteRead
  <2> QED
    BY <1>6, <2>1, <2>2 DEF TypeOK, DownTypes, RemoteRead
<1>7. CASE LinkBreaks
  BY <1>7 DEF TypeOK, DownTypes, Message, Close, CloseIsLast, LinkBreaks
<1>8. CASE DialFails
  <2>1. downl' = downl \/ downl' = <<>>
    BY <1>8, KeepFacts DEF DialFails
  <2> QED
    BY <1>8, <2>1, EmptyFacts DEF TypeOK, DownTypes, DialFails
<1>9. CASE End
  <2>1. downl' = downl \/ downl' = <<>>
    BY <1>9, KeepFacts DEF End
  <2> QED
    BY <1>9, <2>1, EmptyFacts DEF TypeOK, DownTypes, End
<1>10. CASE NextMessage
  BY <1>10 DEF TypeOK, DownTypes, Message, Close, CloseIsLast, NextMessage
<1>11. CASE NextClose
  BY <1>11 DEF TypeOK, DownTypes, Message, Close, CloseIsLast, NextClose
<1>12. CASE Copy
  BY <1>12 DEF TypeOK, DownTypes, Message, Close, CloseIsLast, Copy
<1>13. CASE UNCHANGED vars
  BY <1>13 DEF TypeOK, DownTypes, Message, Close, CloseIsLast, vars
<1> QED
  BY <1>1, <1>2, <1>3, <1>4, <1>5, <1>6, <1>7, <1>8, <1>9, <1>10, <1>11,
     <1>12, <1>13
     DEF Next, Handler, Reader, Environment

\* And the states of all parties.
LEMMA StateStep ==
    TypeOK /\ [Next]_vars => StateTypes'
<1> SUFFICES ASSUME TypeOK, [Next]_vars PROVE StateTypes'
  OBVIOUS
<1> USE DEF processVars, upVars, downVars, linkVars
<1>1. CASE
      \/ Connect \/ ClientWrite \/ ClientRead \/ ClientHalfClose
      \/ ClientClose \/ RemoteWrite \/ RemoteClose \/ RemoteRead \/ LinkBreaks
  BY <1>1
     DEF TypeOK, StateTypes, Connect, ClientWrite, ClientRead,
         ClientHalfClose, ClientClose, Keep, RemoteWrite, RemoteClose,
         RemoteRead, LinkBreaks
<1>2. CASE Dial \/ DialFails \/ Check \/ Read \/ ReadEOF
  BY <1>2 DEF TypeOK, StateTypes, Dial, DialFails, Keep, Check, Read, ReadEOF
<1>3. CASE ReadFails \/ Write \/ WriteFails \/ SendClose \/ End
  BY <1>3
     DEF TypeOK, StateTypes, ReadFails, Write, WriteFails, SendClose, End,
         Keep
<1>4. CASE NextMessage \/ NextClose \/ NextFails \/ Copy \/ CopyToNobody
  BY <1>4
     DEF TypeOK, StateTypes, NextMessage, NextClose, NextFails, Copy,
         CopyToNobody, Keep
<1>5. CASE UNCHANGED vars
  BY <1>5 DEF TypeOK, StateTypes, vars
<1> QED
  BY <1>1, <1>2, <1>3, <1>4, <1>5 DEF Next, Handler, Reader, Environment

\* Every step keeps the types.
LEMMA TypeStep == TypeOK /\ CloseIsLast /\ [Next]_vars => TypeOK'
<1> SUFFICES ASSUME TypeOK, CloseIsLast, [Next]_vars PROVE TypeOK'
  OBVIOUS
<1> QED
  BY FlagStep, UpTypeStep, DownTypeStep, StateStep, Zenon
     DEF TypeOK, FlagTypes, UpTypes, DownTypes, StateTypes

\* Every step keeps the phases together.
LEMMA PhasesStep ==
    TypeOK /\ Phases /\ [Next]_vars => Phases'
<1> SUFFICES ASSUME TypeOK, Phases, [Next]_vars PROVE Phases'
  OBVIOUS
<1> USE DEF processVars, upVars, downVars, linkVars
<1>1. CASE
      \/ Connect \/ ClientWrite \/ ClientRead \/ ClientHalfClose
      \/ ClientClose
  BY <1>1
     DEF TypeOK, Phases, Connect, ClientWrite, ClientRead, ClientHalfClose,
         ClientClose, Keep
<1>2. CASE RemoteWrite
  BY <1>2 DEF TypeOK, Phases, RemoteWrite
<1>3. CASE RemoteClose
  BY <1>3 DEF TypeOK, Phases, RemoteClose
<1>4. CASE RemoteRead
  BY <1>4 DEF TypeOK, Phases, RemoteRead
<1>5. CASE LinkBreaks
  BY <1>5 DEF TypeOK, Phases, LinkBreaks
<1>6. CASE Dial
  BY <1>6 DEF TypeOK, Phases, Dial
<1>7. CASE DialFails
  BY <1>7 DEF TypeOK, Phases, DialFails, Keep
<1>8. CASE Check \/ Read \/ ReadEOF
  BY <1>8 DEF TypeOK, Phases, Check, Read, ReadEOF
<1>9. CASE ReadFails \/ Write \/ WriteFails
  BY <1>9 DEF TypeOK, Phases, ReadFails, Write, WriteFails
<1>10. CASE SendClose \/ End
  BY <1>10 DEF TypeOK, Phases, SendClose, End, Keep
<1>11. CASE NextMessage \/ NextClose \/ NextFails
  BY <1>11 DEF TypeOK, Phases, NextMessage, NextClose, NextFails
<1>12. CASE Copy \/ CopyToNobody
  BY <1>12 DEF TypeOK, Phases, Copy, CopyToNobody, Keep
<1>13. CASE UNCHANGED vars
  BY <1>13 DEF TypeOK, Phases, vars
<1> QED
  BY <1>1, <1>2, <1>3, <1>4, <1>5, <1>6, <1>7, <1>8, <1>9, <1>10, <1>11,
     <1>12, <1>13
     DEF Next, Handler, Reader, Environment

\* Nothing gets into a websocket that is not there.
LEMMA EmptyStep ==
    TypeOK /\ Phases /\ Empty /\ [Next]_vars => Empty'
<1> SUFFICES ASSUME TypeOK, Phases, Empty, [Next]_vars PROVE Empty'
  OBVIOUS
<1> USE DEF processVars, upVars, downVars, linkVars
<1>1. CASE Connect \/ ClientWrite \/ ClientRead \/ ClientHalfClose
  BY <1>1
     DEF TypeOK, Phases, Empty, Connect, ClientWrite, ClientRead,
         ClientHalfClose
<1>2. CASE RemoteWrite \/ RemoteClose \/ RemoteRead \/ LinkBreaks
  BY <1>2
     DEF TypeOK, Phases, Empty, RemoteWrite, RemoteClose, RemoteRead,
         LinkBreaks
<1>3. CASE Dial \/ DialFails \/ Check \/ Read \/ ReadEOF
  BY <1>3 DEF TypeOK, Phases, Empty, Dial, DialFails, Keep, Check, Read, ReadEOF
<1>4. CASE ReadFails \/ Write \/ WriteFails \/ SendClose \/ End
  BY <1>4
     DEF TypeOK, Phases, Empty, ReadFails, Write, WriteFails, SendClose, End,
         Keep
<1>5. CASE NextMessage \/ NextClose \/ NextFails \/ Copy \/ CopyToNobody
  BY <1>5
     DEF TypeOK, Phases, Empty, NextMessage, NextClose, NextFails, Copy,
         CopyToNobody, Keep
<1>6. CASE ClientClose
  BY <1>6 DEF TypeOK, Phases, Empty, ClientClose, Keep
<1>7. CASE UNCHANGED vars
  BY <1>7 DEF TypeOK, Phases, Empty, vars
<1> QED
  BY <1>1, <1>2, <1>3, <1>4, <1>5, <1>6, <1>7
     DEF Next, Handler, Reader, Environment

\* A close frame stays the last message.
LEMMA CloseStep ==
    TypeOK /\ Phases /\ Empty /\ CloseIsLast /\ [Next]_vars => CloseIsLast'
<1> SUFFICES ASSUME TypeOK, Phases, Empty, CloseIsLast, [Next]_vars
             PROVE  CloseIsLast'
  OBVIOUS
<1> USE DEF processVars, upVars, downVars, linkVars
<1>1. CASE Connect \/ ClientWrite \/ ClientRead \/ ClientHalfClose
  BY <1>1
     DEF TypeOK, CloseIsLast, Connect, ClientWrite, ClientRead,
         ClientHalfClose
<1>2. CASE ClientClose \/ Check \/ ReadEOF \/ ReadFails
  BY <1>2 DEF TypeOK, CloseIsLast, ClientClose, Keep, Check, ReadEOF, ReadFails
<1>3. CASE WriteFails \/ NextFails \/ Copy \/ CopyToNobody
  BY <1>3
     DEF TypeOK, CloseIsLast, WriteFails, NextFails, Copy, CopyToNobody, Keep
<1>4. CASE LinkBreaks
  BY <1>4, EmptyFacts DEF TypeOK, CloseIsLast, LinkBreaks
<1>5. CASE RemoteWrite
  BY <1>5, AppendFacts DEF TypeOK, CloseIsLast, RemoteWrite, Close
<1>6. CASE RemoteClose
  BY <1>6, AppendFacts DEF TypeOK, CloseIsLast, RemoteClose, Close
<1>7. CASE RemoteRead
  <2>1. Close \in Nat
    BY DEF Close
  <2>2. CASE Head(upn) = Close
    <3>0. ws' = ws /\ item' = item /\ main' = main /\ chunk' = chunk
      BY <1>7 DEF RemoteRead
    <3>1. upn' = <<>> /\ closeSent /\ closeSent' = closeSent
      BY <1>7, <2>2, TailFacts DEF TypeOK, CloseIsLast, RemoteRead
    <3>2. CASE remote = "open" /\ link = "up"
      <4>1. downn' = Append(downn, Close) /\ remote' = "ended" /\ ~HasClose(downn)
        BY <1>7, <2>2, <3>2 DEF CloseIsLast, RemoteRead
      <4>2. HasClose(downn') /\ CloseLast(downn')
        BY <2>1, <4>1, AppendFacts DEF TypeOK
      <4> QED
        BY <3>1, <3>0, <4>1, <4>2, EmptyFacts DEF CloseIsLast
    <3>3. CASE ~(remote = "open" /\ link = "up")
      <4>1. downn' = downn
        BY <1>7, <2>2, <3>3 DEF RemoteRead
      <4>2. remote' \in {remote, "ended"}
        BY <1>7, <2>2 DEF RemoteRead
      <4> QED
        BY <3>0, <3>1, <4>1, <4>2, EmptyFacts DEF CloseIsLast
    <3> QED
      BY <3>2, <3>3
  <2>3. CASE Head(upn) # Close
    BY <1>7, <2>3, TailFacts DEF TypeOK, CloseIsLast, RemoteRead
  <2> QED
    BY <2>2, <2>3
<1>8. CASE Dial
  BY <1>8 DEF TypeOK, Phases, Empty, CloseIsLast, Dial
<1>9. CASE DialFails
  BY <1>9, EmptyFacts, KeepFacts DEF TypeOK, CloseIsLast, DialFails, Keep
<1>10. CASE Read
  BY <1>10 DEF TypeOK, CloseIsLast, Read, Message
<1>11. CASE Write
  BY <1>11, AppendFacts DEF TypeOK, CloseIsLast, Write
<1>12. CASE SendClose
  <2>1. Close \in Nat /\ Len(got) \in Nat
    BY DEF Close, TypeOK
  <2>2. CASE upn' = Append(upn, Close) /\ closeSent' /\ ~closeSent
    BY <1>12, <2>1, <2>2, AppendFacts DEF TypeOK, CloseIsLast, SendClose
  <2>3. CASE upn' = upn /\ closeSent' = closeSent
    BY <1>12, <2>3 DEF TypeOK, CloseIsLast, SendClose
  <2> QED
    BY <1>12, <2>2, <2>3 DEF TypeOK, SendClose
<1>13. CASE End
  BY <1>13, EmptyFacts, KeepFacts DEF TypeOK, CloseIsLast, End, Keep
<1>14. CASE NextMessage
  BY <1>14, TailFacts DEF TypeOK, CloseIsLast, NextMessage
<1>15. CASE NextClose
  <2>1. Close \in Nat /\ Len(got) \in Nat
    BY DEF Close, TypeOK
  <2>2. CASE upn' = Append(upn, Close) /\ closeSent' /\ ~closeSent
    BY <1>15, <2>1, <2>2, AppendFacts, TailFacts
       DEF TypeOK, CloseIsLast, NextClose
  <2>3. CASE upn' = upn /\ closeSent' = closeSent
    BY <1>15, <2>3, TailFacts DEF TypeOK, CloseIsLast, NextClose
  <2> QED
    BY <1>15, <2>2, <2>3 DEF TypeOK, NextClose
<1>16. CASE UNCHANGED vars
  BY <1>16 DEF TypeOK, CloseIsLast, vars
<1> QED
  BY <1>1, <1>2, <1>3, <1>4, <1>5, <1>6, <1>7, <1>8, <1>9, <1>10, <1>11,
     <1>12, <1>13, <1>14, <1>15, <1>16
     DEF Next, Handler, Reader, Environment

\* The messages to the remote side stay in order.
LEMMA UpOrderStep ==
    TypeOK /\ Phases /\ Empty /\ CloseIsLast /\ UpOrder /\ UpNext /\
        [Next]_vars => UpOrder'
<1> SUFFICES ASSUME TypeOK, Phases, Empty, CloseIsLast, UpOrder, UpNext,
                    [Next]_vars
             PROVE  UpOrder'
  OBVIOUS
<1> USE DEF processVars, upVars, downVars, linkVars
<1>1. CASE
      \/ Connect \/ ClientRead \/ ClientHalfClose \/ ClientClose \/ Check
      \/ Read \/ ReadEOF \/ ReadFails \/ WriteFails \/ NextFails \/ Copy
      \/ CopyToNobody \/ RemoteWrite \/ NextMessage \/ RemoteClose
  BY <1>1
     DEF TypeOK, UpOrder, Connect, ClientRead, ClientHalfClose, ClientClose,
         Keep, Check, Read, ReadEOF, ReadFails, WriteFails, NextFails, Copy,
         CopyToNobody, RemoteWrite, NextMessage, RemoteClose
<1>2. CASE LinkBreaks
  <2>1. Len(got) \in Nat /\ Len(upn) \in Nat
    BY DEF TypeOK
  <2>2. HasClose(upn) => Len(upn) # 0
    BY DEF HasClose
  <2> QED
    BY <1>2, <2>1, <2>2, EmptyFacts DEF TypeOK, UpOrder, LinkBreaks
<1>3. CASE DialFails
  <2>1. Len(got) \in Nat /\ Len(upn) \in Nat
    BY DEF TypeOK
  <2>2. HasClose(upn) => Len(upn) # 0
    BY DEF HasClose
  <2>3. upn' = upn \/ upn' = <<>>
    BY <1>3, KeepFacts DEF DialFails
  <2> QED
    BY <1>3, <2>1, <2>2, <2>3, EmptyFacts DEF TypeOK, UpOrder, DialFails
<1>4. CASE End
  <2>1. Len(got) \in Nat /\ Len(upn) \in Nat
    BY DEF TypeOK
  <2>2. HasClose(upn) => Len(upn) # 0
    BY DEF HasClose
  <2>3. upn' = upn \/ upn' = <<>>
    BY <1>4, KeepFacts DEF End
  <2> QED
    BY <1>4, <2>1, <2>2, <2>3, EmptyFacts DEF TypeOK, UpOrder, End
<1>5. CASE ClientWrite
  <2>1. Len(got) \in Nat /\ Len(upn) \in Nat
    BY DEF TypeOK
  <2> QED
    BY <1>5, <2>1 DEF TypeOK, UpOrder, ClientWrite
<1>6. CASE RemoteRead
  <2>1. CASE remote = "open" /\ Head(upn) # Close
    <3>1. got' = Append(got, Head(upn)) /\ sent' = sent /\ upn' = Tail(upn)
      BY <1>6, <2>1 DEF RemoteRead
    <3>2. Len(got') = Len(got) + 1 /\ Len(got) \in Nat
      BY <1>6, <3>1, AppendFacts, MessagesAreNumbers, TailFacts
         DEF TypeOK, RemoteRead
    <3> QED
      BY <1>6, <2>1, <3>1, <3>2, TailFacts DEF TypeOK, UpOrder, RemoteRead
  <2>2. CASE ~(remote = "open" /\ Head(upn) # Close)
    BY <1>6, <2>2 DEF TypeOK, UpOrder, RemoteRead
  <2> QED
    BY <2>1, <2>2
<1>7. CASE Dial
  BY <1>7, EmptyFacts DEF TypeOK, Phases, Empty, UpOrder, Dial
<1>8. CASE Write
  <2>1. remote = "open" =>
          /\ chunk = Len(got) + Len(upn) + 1 /\ chunk <= sent
          /\ ~HasClose(upn)
    <3>1. Len(got) \in Nat /\ Len(upn) \in Nat /\ Len(upl) \in Nat
      BY DEF TypeOK
    <3> QED
      BY <1>8, <3>1 DEF TypeOK, CloseIsLast, UpNext, Taken, Write
  <2>2. chunk # Close /\ ~HasClose(upn) => ~HasClose(upn')
    BY <1>8, AppendFacts DEF TypeOK, Write
  <2>3. Len(got) \in Nat
    BY DEF TypeOK
  <2> QED
    BY <1>8, <2>1, <2>2, <2>3, AppendFacts DEF TypeOK, UpOrder, Write, Close
<1>9. CASE SendClose
  <2>1. Close \in Nat /\ Len(got) \in Nat
    BY DEF Close, TypeOK
  <2>2. CASE upn' = Append(upn, Close) /\ closeSent' /\ ~closeSent
    BY <1>9, <2>1, <2>2, AppendFacts DEF TypeOK, UpOrder, CloseIsLast, SendClose
  <2>3. CASE upn' = upn /\ closeSent' = closeSent
    BY <1>9, <2>3 DEF TypeOK, UpOrder, CloseIsLast, SendClose
  <2> QED
    BY <1>9, <2>2, <2>3 DEF TypeOK, SendClose
<1>10. CASE NextClose
  <2>1. Close \in Nat /\ Len(got) \in Nat
    BY DEF Close, TypeOK
  <2>2. CASE upn' = Append(upn, Close) /\ closeSent' /\ ~closeSent
    BY <1>10, <2>1, <2>2, AppendFacts
       DEF TypeOK, UpOrder, CloseIsLast, NextClose
  <2>3. CASE upn' = upn /\ closeSent' = closeSent
    BY <1>10, <2>3 DEF TypeOK, UpOrder, CloseIsLast, NextClose
  <2> QED
    BY <1>10, <2>2, <2>3 DEF TypeOK, NextClose
<1>11. CASE UNCHANGED vars
  BY <1>11 DEF TypeOK, UpOrder, vars
<1> QED
  BY <1>1, <1>2, <1>3, <1>4, <1>5, <1>6, <1>7, <1>8, <1>9, <1>10, <1>11
     DEF Next, Handler, Reader, Environment

\* Nothing is skipped between the client and the websocket.
LEMMA UpNextStep ==
    TypeOK /\ Phases /\ Empty /\ CloseIsLast /\ UpNext /\ [Next]_vars => UpNext'
<1> SUFFICES ASSUME TypeOK, Phases, Empty, CloseIsLast, UpNext, [Next]_vars
             PROVE  UpNext'
  OBVIOUS
<1> USE DEF processVars, upVars, downVars, linkVars
<1>1. CASE ClientRead \/ ClientHalfClose \/ Check
  BY <1>1 DEF TypeOK, Phases, UpNext, Taken, ClientRead, ClientHalfClose, Check
<1>2. CASE ReadEOF \/ ReadFails \/ NextMessage
  BY <1>2 DEF TypeOK, Phases, UpNext, Taken, ReadEOF, ReadFails, NextMessage
<1>3. CASE NextFails \/ Copy \/ RemoteWrite \/ RemoteClose
  BY <1>3
     DEF TypeOK, Phases, UpNext, Taken, NextFails, Copy, RemoteWrite,
         RemoteClose
<1>4. CASE LinkBreaks \/ DialFails \/ End
  BY <1>4 DEF TypeOK, Phases, UpNext, Taken, LinkBreaks, DialFails, Keep, End
<1>5. CASE Connect
  BY <1>5 DEF TypeOK, Phases, Empty, UpNext, Taken, Connect
<1>6. CASE ClientWrite
  <2>1. Len(got) \in Nat /\ Len(upn) \in Nat /\ Len(upl) \in Nat
    BY DEF TypeOK
  <2>2. upl \in Seq(Nat) /\ sent + 1 \in Nat /\ Taken \in Nat
    BY <2>1, MessagesAreNumbers DEF TypeOK, Taken
  <2>3. Taken' = Taken /\ Len(upl') = Len(upl) + 1
    BY <1>6, <2>2, AppendFacts DEF ClientWrite, Taken
  <2>4. Follow(upl, Taken) /\ sent = Taken + Len(upl) => Follow(upl', Taken)
    BY <1>6, <2>1, <2>2, AppendFacts DEF ClientWrite
  <2>5. sent' = sent + 1 /\ main' = main /\ chunk' = chunk /\ client = "open"
        /\ client' = "open" /\ link' = link
        /\ closeSent' = closeSent /\ remote' = remote
    BY <1>6 DEF ClientWrite
  <2> DEFINE Open == link \in {"none", "up"} /\ ~closeSent
                     /\ remote \in {"none", "open"} /\ main # "done"
  <2>6. Open' => Open
    BY <2>5, Zenon
  <2>7. Open => /\ Follow(upl, Taken)
                /\ Taken + Len(upl) <= sent
                /\ client # "closed" => Taken + Len(upl) = sent
                /\ main = "write" => chunk = Taken
    BY DEF UpNext
  <2>8. Open' => /\ Follow(upl', Taken')
                 /\ Taken' + Len(upl') <= sent'
                 /\ client' # "closed" => Taken' + Len(upl') = sent'
                 /\ main' = "write" => chunk' = Taken'
    <3>1. sent \in Nat
      BY DEF TypeOK
    <3> SUFFICES ASSUME Open'
          PROVE  /\ Follow(upl', Taken')
                 /\ Taken' + Len(upl') <= sent'
                 /\ client' # "closed" => Taken' + Len(upl') = sent'
                 /\ main' = "write" => chunk' = Taken'
      BY Zenon
    <3>2. /\ Follow(upl, Taken)
          /\ Taken + Len(upl) <= sent
          /\ client # "closed" => Taken + Len(upl) = sent
          /\ main = "write" => chunk = Taken
      BY <2>6, <2>7, Zenon
    <3>3. Follow(upl', Taken')
      BY <2>2, <2>3, <2>4, <2>5, <3>2
    <3>4. Taken' + Len(upl') <= sent'
      BY <2>1, <2>2, <2>3, <2>5, <3>1, <3>2
    <3>5. client' # "closed" => Taken' + Len(upl') = sent'
      BY <2>1, <2>2, <2>3, <2>5, <3>1, <3>2
    <3>6. main' = "write" => chunk' = Taken'
      BY <2>2, <2>3, <2>4, <2>5, <3>2
    <3> QED
      BY <3>3, <3>4, <3>5, <3>6, Zenon
  <2> QED
    BY <2>8, Zenon DEF UpNext
<1>7. CASE ClientClose
  <2>1. Len(got) \in Nat /\ Len(upn) \in Nat /\ Len(upl) \in Nat
    BY DEF TypeOK
  <2>2. upl' = upl \/ upl' = <<>>
    BY <1>7, KeepFacts DEF ClientClose
  <2>3. Taken' = Taken /\ Taken \in Nat
    BY <1>7, <2>1 DEF ClientClose, Taken
  <2> QED
    BY <1>7, <2>1, <2>2, <2>3, EmptyFacts DEF TypeOK, UpNext, ClientClose
<1>8. CASE RemoteRead
  <2>1. Len(got) \in Nat /\ Len(upn) \in Nat /\ Len(upl) \in Nat
    BY DEF TypeOK
  <2>2. CASE remote = "open" /\ Head(upn) # Close
    <3>1. got' = Append(got, Head(upn)) /\ upn' = Tail(upn)
      BY <1>8, <2>2 DEF RemoteRead
    <3>2. Len(got') = Len(got) + 1 /\ Len(upn') = Len(upn) - 1
      BY <1>8, <3>1, AppendFacts, MessagesAreNumbers, TailFacts
         DEF TypeOK, RemoteRead
    <3>3. Taken' = Taken
      BY <1>8, <2>1, <3>2 DEF RemoteRead, Taken
    <3> QED
      BY <1>8, <2>2, <3>3 DEF TypeOK, UpNext, RemoteRead
  <2>3. CASE remote = "open" /\ Head(upn) = Close
    BY <1>8, <2>3 DEF UpNext, RemoteRead
  <2>4. CASE remote # "open"
    BY <1>8, <2>4 DEF TypeOK, Phases, Empty, UpNext, RemoteRead
  <2> QED
    BY <2>2, <2>3, <2>4
<1>9. CASE Dial
  BY <1>9, EmptyFacts DEF TypeOK, Phases, Empty, UpNext, Taken, Dial
<1>10. CASE Read
  <2>1. Len(got) \in Nat /\ Len(upn) \in Nat /\ Len(upl) \in Nat
    BY DEF TypeOK
  <2>2. upl \in Seq(Nat) /\ Taken \in Nat
    BY <2>1, MessagesAreNumbers DEF TypeOK, Taken
  <2>3. Taken' = Taken + 1 /\ Len(upl') = Len(upl) - 1
    BY <1>10, <2>1, <2>2, TailFacts DEF Read, Taken
  <2>4. Follow(upl, Taken) => Follow(upl', Taken + 1) /\ chunk' = Taken + 1
    <3>1. Head(upl) # Close
      BY <1>10 DEF TypeOK, Read, Message
    <3> QED
      BY <1>10, <2>2, <3>1, TailFacts DEF Read
  <2>5. sent' = sent /\ main = "read" /\ main' = "write" /\ client' = client
        /\ link' = link
        /\ closeSent' = closeSent /\ remote' = remote
    BY <1>10 DEF Read
  <2> DEFINE Open == link \in {"none", "up"} /\ ~closeSent
                     /\ remote \in {"none", "open"} /\ main # "done"
  <2>6. Open' => Open
    BY <2>5, Zenon
  <2>7. Open => /\ Follow(upl, Taken)
                /\ Taken + Len(upl) <= sent
                /\ client # "closed" => Taken + Len(upl) = sent
                /\ main = "write" => chunk = Taken
    BY DEF UpNext
  <2>8. Open' => /\ Follow(upl', Taken')
                 /\ Taken' + Len(upl') <= sent'
                 /\ client' # "closed" => Taken' + Len(upl') = sent'
                 /\ main' = "write" => chunk' = Taken'
    <3>1. sent \in Nat
      BY DEF TypeOK
    <3> SUFFICES ASSUME Open'
          PROVE  /\ Follow(upl', Taken')
                 /\ Taken' + Len(upl') <= sent'
                 /\ client' # "closed" => Taken' + Len(upl') = sent'
                 /\ main' = "write" => chunk' = Taken'
      BY Zenon
    <3>2. /\ Follow(upl, Taken)
          /\ Taken + Len(upl) <= sent
          /\ client # "closed" => Taken + Len(upl) = sent
          /\ main = "write" => chunk = Taken
      BY <2>6, <2>7, Zenon
    <3>3. Follow(upl', Taken')
      BY <2>2, <2>3, <2>4, <2>5, <3>2
    <3>4. Taken' + Len(upl') <= sent'
      BY <2>1, <2>2, <2>3, <2>5, <3>1, <3>2
    <3>5. client' # "closed" => Taken' + Len(upl') = sent'
      BY <2>1, <2>2, <2>3, <2>5, <3>1, <3>2
    <3>6. main' = "write" => chunk' = Taken'
      BY <2>2, <2>3, <2>4, <2>5, <3>2
    <3> QED
      BY <3>3, <3>4, <3>5, <3>6, Zenon
  <2> QED
    BY <2>8, Zenon DEF UpNext
<1>11. CASE Write
  <2>1. Len(got) \in Nat /\ Len(upn) \in Nat /\ Len(upl) \in Nat
    BY DEF TypeOK
  <2>2. Len(upn') = Len(upn) + 1
    BY <1>11, AppendFacts DEF TypeOK, Write
  <2>3. Taken' = Taken
    BY <1>11, <2>1, <2>2 DEF Write, Taken
  <2> QED
    BY <1>11, <2>3 DEF TypeOK, UpNext, Write
<1>12. CASE WriteFails
  BY <1>12 DEF TypeOK, Phases, UpNext, Taken, WriteFails
<1>13. CASE SendClose
  <2>1. CASE upn' = upn /\ closeSent' = closeSent
    BY <1>13, <2>1 DEF TypeOK, UpNext, Taken, SendClose
  <2>2. CASE closeSent'
    BY <2>2 DEF UpNext
  <2> QED
    BY <1>13, <2>1, <2>2 DEF TypeOK, SendClose
<1>14. CASE NextClose
  <2>1. CASE upn' = upn /\ closeSent' = closeSent
    BY <1>14, <2>1 DEF TypeOK, UpNext, Taken, NextClose
  <2>2. CASE closeSent'
    BY <2>2 DEF UpNext
  <2> QED
    BY <1>14, <2>1, <2>2 DEF TypeOK, NextClose
<1>15. CASE CopyToNobody
  <2>1. Len(got) \in Nat /\ Len(upn) \in Nat /\ Len(upl) \in Nat
    BY DEF TypeOK
  <2>2. upl' = upl \/ (upl' = <<>> /\ client = "closed")
    <3>1. CASE client = "closed"
      BY <1>15, <3>1, KeepFacts, Zenon DEF CopyToNobody
    <3>2. CASE client # "closed"
      BY <1>15, <3>2, KeepFacts, Zenon DEF CopyToNobody
    <3> QED
      BY <3>1, <3>2
  <2>3. Taken' = Taken /\ Taken \in Nat
    BY <1>15, <2>1 DEF CopyToNobody, Taken
  <2>4. sent' = sent /\ main' = main /\ chunk' = chunk /\ client' = client
        /\ link' = link
        /\ closeSent' = closeSent /\ remote' = remote
    BY <1>15 DEF CopyToNobody
  <2>5. CASE upl' = upl
    BY <2>3, <2>4, <2>5, Zenon DEF UpNext
  <2>6. CASE upl' = <<>> /\ client = "closed"
    BY <2>1, <2>3, <2>4, <2>6, EmptyFacts DEF TypeOK, UpNext
  <2> QED
    BY <2>2, <2>5, <2>6
<1>16. CASE UNCHANGED vars
  BY <1>16 DEF TypeOK, Phases, UpNext, Taken, vars
<1> QED
  BY <1>1, <1>2, <1>3, <1>4, <1>5, <1>6, <1>7, <1>8, <1>9, <1>10, <1>11,
     <1>12, <1>13, <1>14, <1>15, <1>16
     DEF Next, Handler, Reader, Environment

\* A handler whose remote side did not close ends in order.
LEMMA EndWhyStep ==
    TypeOK /\ Phases /\ Empty /\ CloseIsLast /\ EndWhy /\ [Next]_vars => EndWhy'
<1> SUFFICES ASSUME TypeOK, Phases, Empty, CloseIsLast, EndWhy, [Next]_vars
             PROVE  EndWhy'
  OBVIOUS
<1> USE DEF processVars, upVars, downVars, linkVars
<1>1. CASE
      \/ Connect \/ ClientWrite \/ ClientRead \/ ClientHalfClose
      \/ ClientClose
  BY <1>1
     DEF TypeOK, Phases, Empty, CloseIsLast, EndWhy, Ending, Connect,
         ClientWrite, ClientRead, ClientHalfClose, ClientClose, Keep
<1>2. CASE RemoteWrite \/ RemoteClose \/ LinkBreaks \/ Dial \/ DialFails
  BY <1>2
     DEF TypeOK, Phases, Empty, CloseIsLast, EndWhy, Ending, RemoteWrite,
         RemoteClose, LinkBreaks, Dial, DialFails, Keep
<1>3. CASE Check \/ Read \/ ReadEOF \/ ReadFails \/ Write \/ WriteFails
  BY <1>3
     DEF TypeOK, Phases, Empty, CloseIsLast, EndWhy, Ending, Check, Read,
         ReadEOF, ReadFails, Write, WriteFails
<1>4. CASE SendClose \/ End
  BY <1>4
     DEF TypeOK, Phases, Empty, CloseIsLast, EndWhy, Ending, SendClose, End,
         Keep
<1>5. CASE NextMessage \/ NextFails \/ Copy \/ CopyToNobody
  BY <1>5
     DEF TypeOK, Phases, Empty, CloseIsLast, EndWhy, Ending, NextMessage,
         NextFails, Copy, CopyToNobody, Keep
<1>6. CASE RemoteRead
  <2>1. Head(upn) = Close => closeSent
    BY <1>6, TailFacts DEF TypeOK, CloseIsLast, RemoteRead
  <2> QED
    BY <1>6, <2>1 DEF TypeOK, Phases, CloseIsLast, EndWhy, Ending, RemoteRead
<1>7. CASE NextClose
  <2>1. HasClose(downn)
    BY <1>7, TailFacts DEF TypeOK, NextClose
  <2> QED
    BY <1>7, <2>1 DEF TypeOK, Phases, CloseIsLast, EndWhy, Ending, NextClose
<1>8. CASE UNCHANGED vars
  BY <1>8 DEF TypeOK, Phases, Empty, CloseIsLast, EndWhy, Ending, vars
<1> QED
  BY <1>1, <1>2, <1>3, <1>4, <1>5, <1>6, <1>7, <1>8
     DEF Next, Handler, Reader, Environment

\* A reader that stops has seen the end.
LEMMA ReaderGoneStep ==
    TypeOK /\ Phases /\ CloseIsLast /\ ReaderGone /\ [Next]_vars => ReaderGone'
<1> SUFFICES ASSUME TypeOK, Phases, CloseIsLast, ReaderGone, [Next]_vars
             PROVE  ReaderGone'
  OBVIOUS
<1> USE DEF processVars, upVars, downVars, linkVars
<1>1. CASE
      \/ Connect \/ ClientWrite \/ ClientRead \/ ClientHalfClose
      \/ ClientClose
  BY <1>1
     DEF TypeOK, Phases, ReaderGone, Connect, ClientWrite, ClientRead,
         ClientHalfClose, ClientClose, Keep
<1>2. CASE RemoteWrite \/ RemoteClose \/ LinkBreaks \/ Dial \/ DialFails
  BY <1>2
     DEF TypeOK, Phases, ReaderGone, RemoteWrite, RemoteClose, LinkBreaks,
         Dial, DialFails, Keep
<1>3. CASE Check \/ Read \/ ReadEOF \/ ReadFails \/ Write \/ WriteFails
  BY <1>3
     DEF TypeOK, Phases, ReaderGone, Check, Read, ReadEOF, ReadFails, Write,
         WriteFails
<1>4. CASE SendClose \/ End
  BY <1>4 DEF TypeOK, Phases, ReaderGone, SendClose, End, Keep
<1>5. CASE NextMessage \/ NextFails \/ Copy \/ CopyToNobody
  BY <1>5
     DEF TypeOK, Phases, ReaderGone, NextMessage, NextFails, Copy,
         CopyToNobody, Keep
<1>6. CASE RemoteRead
  BY <1>6 DEF TypeOK, Phases, ReaderGone, RemoteRead
<1>7. CASE NextClose
  <2>1. HasClose(downn)
    BY <1>7, TailFacts DEF TypeOK, NextClose
  <2> QED
    BY <1>7, <2>1 DEF CloseIsLast, ReaderGone, NextClose
<1>8. CASE UNCHANGED vars
  BY <1>8 DEF TypeOK, Phases, ReaderGone, vars
<1> QED
  BY <1>1, <1>2, <1>3, <1>4, <1>5, <1>6, <1>7, <1>8
     DEF Next, Handler, Reader, Environment

\* A handler that ends in order has passed everything on.
LEMMA UpDoneStep ==
    TypeOK /\ Phases /\ Empty /\ CloseIsLast /\ UpNext /\ EndWhy /\ UpDone
        /\ [Next]_vars => UpDone'
<1> SUFFICES ASSUME TypeOK, Phases, Empty, CloseIsLast, UpNext, EndWhy,
                    UpDone, [Next]_vars
             PROVE  UpDone'
  OBVIOUS
<1> USE DEF processVars, upVars, downVars, linkVars
<1>1. CASE
      \/ Connect \/ ClientWrite \/ ClientRead \/ ClientHalfClose
      \/ ClientClose
  BY <1>1
     DEF TypeOK, Phases, EndWhy, UpDone, Ending, Connect, ClientWrite,
         ClientRead, ClientHalfClose, ClientClose, Keep
<1>2. CASE RemoteWrite \/ RemoteClose \/ LinkBreaks \/ Dial
  BY <1>2
     DEF TypeOK, Phases, EndWhy, UpDone, Ending, RemoteWrite, RemoteClose,
         LinkBreaks, Dial
<1>3. CASE Check \/ Read \/ ReadFails \/ Write \/ WriteFails
  BY <1>3
     DEF TypeOK, Phases, EndWhy, UpDone, Ending, Check, Read, ReadFails,
         Write, WriteFails
<1>4. CASE NextMessage \/ NextFails \/ Copy \/ CopyToNobody
  BY <1>4
     DEF TypeOK, Phases, EndWhy, UpDone, Ending, NextMessage, NextFails, Copy,
         CopyToNobody, Keep
<1>5. CASE RemoteRead
  <2>1. Len(got) \in Nat /\ Len(upn) \in Nat /\ Len(upl) \in Nat
    BY DEF TypeOK
  <2>2. CASE Head(upn) = Close
    <3>1. upn' = <<>> /\ got' = got /\ sent' = sent /\ HasClose(upn) /\ Len(upn) = 1
      <4>1. upn \in Seq(Nat) /\ upn # <<>> /\ upn' = Tail(upn)
            /\ got' = got /\ sent' = sent
        BY <1>5, <2>2 DEF TypeOK, RemoteRead
      <4>2. Tail(upn) = <<>> /\ HasClose(upn)
        BY <2>2, <4>1, TailFacts DEF CloseIsLast
      <4>3. Len(Tail(upn)) = Len(upn) - 1 /\ Len(Tail(upn)) = 0
        BY <4>1, <4>2, TailFacts, EmptyFacts
      <4> QED
        BY <2>1, <4>1, <4>2, <4>3
    <3>2. \/ remote = "open" /\ remote' = "ended"
          \/ remote # "open" /\ remote' = remote
      BY <1>5, <2>2 DEF RemoteRead
    <3>3. Ending' = Ending /\ client' = client
      BY <1>5 DEF RemoteRead, Ending
    <3> QED
      BY <2>1, <3>1, <3>2, <3>3 DEF TypeOK, UpDone
  <2>3. CASE Head(upn) # Close /\ remote = "open"
    <3>1. got' = Append(got, Head(upn)) /\ upn' = Tail(upn) /\ sent' = sent
      BY <1>5, <2>3 DEF RemoteRead
    <3>2. Len(got') = Len(got) + 1 /\ Len(upn') = Len(upn) - 1
      BY <1>5, <3>1, AppendFacts, MessagesAreNumbers, TailFacts
         DEF TypeOK, RemoteRead
    <3>3. HasClose(upn') <=> HasClose(upn)
      BY <1>5, <2>3, <3>1, TailFacts DEF TypeOK, RemoteRead
    <3>4. Ending' = Ending /\ client' = client /\ remote' = remote
      BY <1>5, <2>3 DEF RemoteRead, Ending
    <3>5. Ending /\ client = "half" =>
            Len(got) + Len(upn) = IF HasClose(upn) THEN sent + 1 ELSE sent
      BY <2>3 DEF UpDone
    <3>6. Len(got') + Len(upn') = Len(got) + Len(upn)
      BY <2>1, <3>2
    <3>7. Ending' /\ client' = "half" =>
            Len(got') + Len(upn') = IF HasClose(upn') THEN sent' + 1 ELSE sent'
      BY <3>1, <3>3, <3>4, <3>5, <3>6, Zenon
    <3> QED
      BY <2>3, <3>4, <3>7 DEF UpDone
  <2>4. CASE Head(upn) # Close /\ remote # "open"
    BY <1>5, <2>4 DEF UpDone, Ending, RemoteRead
  <2> QED
    BY <2>2, <2>3, <2>4
<1>6. CASE DialFails
  <2>1. link' = "closed" => link = "closed"
    BY <1>6 DEF DialFails
  <2>2. link = "closed" => upn' = upn
    BY <1>6, KeepFacts DEF DialFails
  <2>3. link' # "up"
    BY <1>6 DEF DialFails
  <2> QED
    BY <1>6, <2>1, <2>2, <2>3 DEF UpDone, Ending, DialFails
<1>7. CASE ReadEOF
  <2>1. Len(got) \in Nat /\ Len(upn) \in Nat /\ Len(upl) \in Nat
    BY DEF TypeOK
  <2>2. upl = <<>> /\ main = "read" /\ upn' = upn /\ got' = got /\ sent' = sent
        /\ client' = client /\ remote' = remote /\ link' = link /\ closeSent' = closeSent
    BY <1>7 DEF ReadEOF
  <2>3. link = "up" \/ ~Ending'
    BY <1>7, <2>2 DEF Phases, Ending
  <2>4. remote # "closing" => ~closeSent
    BY <2>2 DEF EndWhy
  <2>5. link = "up" => remote \in {"open", "closing", "ended"}
    BY DEF TypeOK, Phases
  <2>6. ~closeSent => ~HasClose(upn) /\ remote # "ended"
    BY DEF CloseIsLast
  <2>7. link = "up" /\ ~closeSent /\ remote = "open" /\ client # "closed" =>
          Len(got) + Len(upn) = sent
    BY <2>1, <2>2, EmptyFacts DEF TypeOK, UpNext, Taken
  <2> QED
    BY <2>2, <2>3, <2>4, <2>5, <2>6, <2>7 DEF TypeOK, UpDone
<1>8. CASE SendClose
  <2>1. Len(got) \in Nat /\ Len(upn) \in Nat /\ Len(upl) \in Nat
    BY DEF TypeOK
  <2>2. main = "eof" /\ got' = got /\ sent' = sent /\ client' = client
        /\ remote' = remote /\ link' = link
    BY <1>8 DEF SendClose
  <2>3. Ending' => Ending
    BY <1>8, <2>2 DEF Ending, SendClose
  <2>4. CASE upn' = Append(upn, Close) /\ ~closeSent
    <3>1. Len(upn') = Len(upn) + 1 /\ HasClose(upn')
      BY <2>4, AppendFacts DEF TypeOK, Close
    <3>2. ~HasClose(upn)
      BY <2>4 DEF CloseIsLast
    <3>3. Ending' /\ client' = "half" => Ending /\ client = "half"
      BY <2>2, <2>3, Zenon
    <3>4. Ending /\ client = "half" =>
            /\ remote = "open" => Len(got) + Len(upn) = sent
            /\ remote = "ended" => Len(got) = sent
      BY <3>2 DEF UpDone
    <3>5. Len(got') + Len(upn') = Len(got) + Len(upn) + 1
      BY <2>1, <2>2, <3>1
    <3>6. Ending' /\ client' = "half" =>
            /\ remote' = "open" => Len(got') + Len(upn') = sent' + 1
            /\ remote' = "ended" => Len(got') = sent'
      BY <2>2, <3>3, <3>4, <3>5
    <3> QED
      BY <3>1, <3>6 DEF UpDone
  <2>5. CASE upn' = upn
    BY <2>2, <2>3, <2>5 DEF UpDone
  <2> QED
    BY <1>8, <2>4, <2>5 DEF SendClose
<1>9. CASE End
  <2>1. got' = got /\ sent' = sent /\ client' = client /\ remote' = remote
    BY <1>9 DEF End
  <2>2. Ending' => link = "up" /\ downn = <<>> /\ Ending
    BY <1>9 DEF TypeOK, Phases, Ending, End
  <2>3. downn = <<>> => upn' = upn
    <3>1. ASSUME downn = <<>> PROVE upn' \in {upn}
      BY <1>9, <3>1, Zenon DEF End, Keep
    <3> QED
      BY <3>1
  <2> QED
    BY <2>1, <2>2, <2>3 DEF UpDone
<1>10. CASE NextClose
  <2>1. HasClose(downn)
    BY <1>10, TailFacts DEF TypeOK, NextClose
  <2>2. got' = got /\ sent' = sent /\ client' = client /\ remote' = remote
        /\ Ending' = Ending
    BY <1>10 DEF NextClose, Ending
  <2> QED
    BY <2>1, <2>2 DEF CloseIsLast, UpDone
<1>11. CASE UNCHANGED vars
  BY <1>11 DEF TypeOK, Phases, EndWhy, UpDone, Ending, vars
<1> QED
  BY <1>1, <1>2, <1>3, <1>4, <1>5, <1>6, <1>7, <1>8, <1>9, <1>10, <1>11
     DEF Next, Handler, Reader, Environment

\* Nothing is skipped between the remote side and the client.
LEMMA DownOrderStep ==
    TypeOK /\ Phases /\ Empty /\ CloseIsLast /\ DownOrder /\ [Next]_vars =>
        DownOrder'
<1> SUFFICES ASSUME TypeOK, Phases, Empty, CloseIsLast, DownOrder, [Next]_vars
             PROVE  DownOrder'
  OBVIOUS
<1> USE DEF processVars, upVars, downVars, linkVars
<1>1. CASE Connect \/ ClientWrite \/ ClientHalfClose \/ ClientClose \/ Check
  BY <1>1
     DEF TypeOK, Phases, DownOrder, Passed, Connect, ClientWrite,
         ClientHalfClose, ClientClose, Keep, Check
<1>2. CASE Read \/ ReadEOF \/ ReadFails \/ Write \/ WriteFails \/ SendClose
  BY <1>2
     DEF TypeOK, Phases, DownOrder, Passed, Read, ReadEOF, ReadFails, Write,
         WriteFails, SendClose
<1>3. CASE NextFails \/ NextClose
  BY <1>3 DEF TypeOK, Phases, DownOrder, Passed, NextFails, NextClose
<1>4. CASE ClientRead
  <2>1. /\ Len(rec) \in Nat /\ Len(downl) \in Nat /\ Len(downn) \in Nat
        /\ dsent \in Nat /\ Passed \in Nat
    BY DEF TypeOK, Passed
  <2>2. downl \in Seq(Nat) /\ rec \in Seq(Nat) /\ Head(downl) # Close
    BY <1>4, MessagesAreNumbers DEF TypeOK, ClientRead, Message
  <2>3. Len(rec') = Len(rec) + 1
    BY <1>4, <2>2, AppendFacts, TailFacts DEF ClientRead
  <2>4. Len(downl') = Len(downl) - 1
    BY <1>4, <2>2, TailFacts DEF ClientRead
  <2>5. Follow(downl, Len(rec)) => Follow(downl', Len(rec'))
    BY <1>4, <2>1, <2>2, <2>3, TailFacts DEF ClientRead
  <2>6. dsent' = dsent /\ downn' = downn /\ item' = item /\ ws' = ws /\ main' = main
        /\ client' = client /\ link' = link
    BY <1>4 DEF ClientRead
  <2>7. Passed' = Passed
    BY <2>1, <2>3, <2>4, <2>6 DEF Passed
  <2> QED
    BY <2>1, <2>3, <2>4, <2>5, <2>6, <2>7 DEF DownOrder
<1>5. CASE RemoteWrite
  <2>1. /\ Len(rec) \in Nat /\ Len(downl) \in Nat /\ Len(downn) \in Nat
        /\ dsent \in Nat /\ Passed \in Nat
    BY DEF TypeOK, Passed
  <2>2. rec' = rec /\ downl' = downl /\ item' = item /\ ws' = ws /\ main' = main
        /\ client' = client /\ link' = link /\ dsent' = dsent + 1
    BY <1>5 DEF RemoteWrite
  <2>3. Passed' = Passed
    BY <2>2 DEF Passed
  <2>4. ~HasClose(downn)
    BY <1>5 DEF CloseIsLast, RemoteWrite
  <2>5. /\ Len(downn') = Len(downn) + 1
        /\ ~HasClose(downn')
        /\ Follow(downn, Passed) /\ Passed + Len(downn) = dsent =>
              Follow(downn', Passed)
    <3>1. downn' = Append(downn, dsent + 1) /\ downn \in Seq(Nat)
      BY <1>5 DEF TypeOK, RemoteWrite
    <3>2. dsent + 1 \in Nat /\ dsent + 1 # Close
      BY <2>1 DEF Close
    <3> QED
      BY <2>1, <2>4, <3>1, <3>2, AppendFacts
  <2>6. client # "closed" /\ link = "up" /\ ws # "gone" =>
          Follow(downn, Passed) /\ Passed + Len(downn) = dsent
    BY <2>4 DEF DownOrder
  <2>7. client # "closed" /\ link = "up" /\ ws # "gone" =>
          Follow(downn', Passed) /\ Passed + Len(downn') = dsent + 1
    BY <2>1, <2>5, <2>6
  <2> QED
    BY <2>1, <2>2, <2>3, <2>5, <2>7 DEF DownOrder
<1>6. CASE RemoteClose
  <2>1. /\ Len(rec) \in Nat /\ Len(downl) \in Nat /\ Len(downn) \in Nat
        /\ dsent \in Nat /\ Passed \in Nat
    BY DEF TypeOK, Passed
  <2>2. CASE remote = "open" /\ link = "up" /\ downn' = Append(downn, Close)
    <3>1. rec' = rec /\ downl' = downl /\ dsent' = dsent /\ item' = item /\ ws' = ws
          /\ main' = main /\ client' = client /\ link' = link
      BY <1>6 DEF RemoteClose
    <3>2. Passed' = Passed
      BY <3>1 DEF Passed
    <3>3. ~HasClose(downn)
      BY <2>2 DEF CloseIsLast
    <3>4. /\ Len(downn') = Len(downn) + 1
          /\ HasClose(downn')
          /\ Follow(downn, Passed) => Follow(downn', Passed)
      BY <2>1, <2>2, AppendFacts DEF TypeOK, Close
    <3> QED
      BY <2>1, <3>1, <3>2, <3>3, <3>4 DEF DownOrder
  <2> QED
    BY <1>6, <2>2 DEF RemoteClose
<1>7. CASE RemoteRead
  <2>1. /\ Len(rec) \in Nat /\ Len(downl) \in Nat /\ Len(downn) \in Nat
        /\ dsent \in Nat /\ Passed \in Nat
    BY DEF TypeOK, Passed
  <2>2. CASE remote = "open" /\ link = "up" /\ downn' = Append(downn, Close)
    <3>1. rec' = rec /\ downl' = downl /\ dsent' = dsent /\ item' = item /\ ws' = ws
          /\ main' = main /\ client' = client /\ link' = link
      BY <1>7 DEF RemoteRead
    <3>2. Passed' = Passed
      BY <3>1 DEF Passed
    <3>3. ~HasClose(downn)
      BY <2>2 DEF CloseIsLast
    <3>4. /\ Len(downn') = Len(downn) + 1
          /\ HasClose(downn')
          /\ Follow(downn, Passed) => Follow(downn', Passed)
      BY <2>1, <2>2, AppendFacts DEF TypeOK, Close
    <3> QED
      BY <2>1, <3>1, <3>2, <3>3, <3>4 DEF DownOrder
  <2>3. CASE downn' = downn
    BY <1>7, <2>3 DEF DownOrder, Passed, RemoteRead
  <2> QED
    BY <1>7, <2>2, <2>3 DEF RemoteRead
<1>8. CASE LinkBreaks
  BY <1>8 DEF DownOrder, Passed, LinkBreaks
<1>9. CASE Dial
  <2>1. dsent = 0 /\ downn = <<>> /\ downl = <<>> /\ rec = <<>>
    BY <1>9 DEF TypeOK, Phases, Empty, Dial
  <2>2. UNCHANGED downVars /\ ws' = "next"
    BY <1>9 DEF Dial
  <2> QED
    BY <2>1, <2>2, EmptyFacts DEF DownOrder, Passed, downVars
<1>10. CASE DialFails
  <2>1. /\ Len(rec) \in Nat /\ Len(downl) \in Nat /\ Len(downn) \in Nat
        /\ dsent \in Nat /\ Passed \in Nat
    BY DEF TypeOK, Passed
  <2>2. downl' = downl \/ downl' = <<>>
    BY <1>10, KeepFacts DEF DialFails
  <2>3. main' = "done" /\ link' # "up" /\ rec' = rec
        /\ dsent' = dsent /\ client' = client
    BY <1>10 DEF DialFails
  <2> QED
    BY <2>1, <2>2, <2>3, EmptyFacts DEF DownOrder
<1>11. CASE End
  <2>1. /\ Len(rec) \in Nat /\ Len(downl) \in Nat /\ Len(downn) \in Nat
        /\ dsent \in Nat /\ Passed \in Nat
    BY DEF TypeOK, Passed
  <2>2. downl' = downl \/ downl' = <<>>
    BY <1>11, KeepFacts DEF End
  <2>3. main' = "done" /\ link' # "up" /\ rec' = rec
        /\ dsent' = dsent /\ client' = client
    BY <1>11 DEF End
  <2> QED
    BY <2>1, <2>2, <2>3, EmptyFacts DEF DownOrder
<1>12. CASE NextMessage
  <2>1. /\ Len(rec) \in Nat /\ Len(downl) \in Nat /\ Len(downn) \in Nat
        /\ dsent \in Nat /\ Passed \in Nat
    BY DEF TypeOK, Passed
  <2>2. /\ rec' = rec /\ downl' = downl /\ dsent' = dsent /\ main' = main
        /\ client' = client /\ link' = link
        /\ ws = "next" /\ link = "up" /\ ws' = "copy"
        /\ downn # <<>> /\ Head(downn) # Close
        /\ item' = Head(downn) /\ downn' = Tail(downn)
    BY <1>12 DEF NextMessage
  <2>3. Passed' = Passed + 1
    BY <2>1, <2>2 DEF Passed
  <2>4. Len(downn') = Len(downn) - 1 /\ (HasClose(downn') <=> HasClose(downn))
    BY <2>2, TailFacts DEF TypeOK
  <2>5. Follow(downn, Passed) => item' = Passed + 1 /\ Follow(downn', Passed + 1)
    BY <2>1, <2>2, TailFacts DEF TypeOK
  <2>6. Len(downn') \in Nat /\ (HasClose(downn') => Len(downn') > 0)
    BY <2>2, TailFacts DEF TypeOK, HasClose
  <2>7. client # "closed" =>
          /\ item' = Passed' /\ Passed' <= dsent
          /\ Follow(downn', Passed')
          /\ Passed' + Len(downn') = IF HasClose(downn') THEN dsent + 1 ELSE dsent
    BY <2>1, <2>2, <2>3, <2>4, <2>5, <2>6 DEF DownOrder
  <2> QED
    BY <2>2, <2>7 DEF DownOrder
<1>13. CASE Copy
  <2>1. /\ Len(rec) \in Nat /\ Len(downl) \in Nat /\ Len(downn) \in Nat
        /\ dsent \in Nat /\ Passed \in Nat
    BY DEF TypeOK, Passed
  <2>2. /\ rec' = rec /\ dsent' = dsent /\ downn' = downn /\ client' = client
        /\ client # "closed" /\ link' = link /\ ws = "copy" /\ ws' = "next"
        /\ main # "done" /\ downl' = Append(downl, item)
    BY <1>13 DEF Copy
  <2>3. Len(downl') = Len(downl) + 1
    BY <2>2, AppendFacts, MessagesAreNumbers DEF TypeOK
  <2>4. Passed' = Passed /\ Passed = Len(rec) + Len(downl) + 1
    BY <2>1, <2>2, <2>3 DEF Passed
  <2>5. item = Passed /\ Passed <= dsent /\ Follow(downl, Len(rec))
    BY <2>2 DEF DownOrder
  <2>6. Follow(downl', Len(rec))
    BY <2>1, <2>2, <2>4, <2>5, AppendFacts, MessagesAreNumbers DEF TypeOK
  <2> QED
    BY <2>1, <2>2, <2>3, <2>4, <2>5, <2>6 DEF DownOrder
<1>14. CASE CopyToNobody
  <2>1. client' # "closed" => link' # "up" \/ client = "closed"
    BY <1>14 DEF Phases, CopyToNobody
  <2> QED
    BY <1>14, <2>1 DEF DownOrder, CopyToNobody
<1>15. CASE UNCHANGED vars
  BY <1>15 DEF TypeOK, Phases, DownOrder, Passed, vars
<1> QED
  BY <1>1, <1>2, <1>3, <1>4, <1>5, <1>6, <1>7, <1>8, <1>9, <1>10, <1>11,
     <1>12, <1>13, <1>14, <1>15
     DEF Next, Handler, Reader, Environment

\* A reader that has seen the end has passed everything on.
LEMMA ArrivalStep ==
    TypeOK /\ Phases /\ Empty /\ CloseIsLast /\ DownOrder /\ ReaderGone /\
        DownloadArrives /\ [Next]_vars => DownloadArrives'
<1> SUFFICES ASSUME TypeOK, Phases, Empty, CloseIsLast, DownOrder, ReaderGone,
                    DownloadArrives, [Next]_vars
             PROVE  DownloadArrives'
  OBVIOUS
<1> USE DEF processVars, upVars, downVars, linkVars
<1>1. CASE Connect \/ ClientWrite \/ ClientHalfClose \/ ClientClose \/ Check
  BY <1>1
     DEF TypeOK, Phases, ReaderGone, DownloadArrives, Connect, ClientWrite,
         ClientHalfClose, ClientClose, Keep, Check
<1>2. CASE
      \/ Read \/ ReadEOF \/ ReadFails \/ Write \/ WriteFails \/ SendClose
      \/ End
  BY <1>2
     DEF TypeOK, Phases, ReaderGone, DownloadArrives, Read, ReadEOF,
         ReadFails, Write, WriteFails, SendClose, End, Keep
<1>3. CASE NextFails \/ NextMessage \/ Copy \/ CopyToNobody
  BY <1>3
     DEF TypeOK, Phases, ReaderGone, DownloadArrives, NextFails, NextMessage,
         Copy, CopyToNobody, Keep
<1>4. CASE
      \/ RemoteWrite \/ RemoteClose \/ RemoteRead \/ LinkBreaks \/ Dial
      \/ DialFails
  BY <1>4
     DEF TypeOK, Phases, ReaderGone, DownloadArrives, RemoteWrite,
         RemoteClose, RemoteRead, LinkBreaks, Dial, DialFails, Keep
<1>5. CASE ClientRead
  <2>1. /\ Len(rec) \in Nat /\ Len(downl) \in Nat /\ Len(downn) \in Nat
        /\ dsent \in Nat /\ Passed \in Nat
    BY DEF TypeOK, Passed
  <2>2. downl \in Seq(Nat) /\ rec \in Seq(Nat) /\ downl # <<>>
    BY <1>5, MessagesAreNumbers DEF TypeOK, ClientRead
  <2>3. Len(rec') = Len(rec) + 1 /\ Len(downl') = Len(downl) - 1
    BY <1>5, <2>2, AppendFacts, TailFacts DEF ClientRead
  <2> QED
    BY <1>5, <2>1, <2>3 DEF DownloadArrives, ClientRead
<1>6. CASE NextClose
  <2>1. /\ Len(rec) \in Nat /\ Len(downl) \in Nat /\ Len(downn) \in Nat
        /\ dsent \in Nat /\ Passed \in Nat
    BY DEF TypeOK, Passed
  <2>2. Len(downn) = 1 /\ HasClose(downn)
    <3>1. downn \in Seq(Nat) /\ downn # <<>> /\ Head(downn) = Close
      BY <1>6 DEF TypeOK, NextClose
    <3>2. Tail(downn) = <<>> /\ HasClose(downn)
      BY <3>1, TailFacts DEF CloseIsLast
    <3>3. Len(Tail(downn)) = Len(downn) - 1 /\ Len(Tail(downn)) = 0
      BY <3>1, <3>2, TailFacts, EmptyFacts
    <3> QED
      BY <2>1, <3>2, <3>3
  <2>3. client # "closed" => Len(rec) + Len(downl) = dsent
    <3>1. Passed = Len(rec) + Len(downl)
      BY <1>6, <2>1 DEF Passed, NextClose
    <3>2. client # "closed" => Passed + Len(downn) = dsent + 1
      BY <1>6, <2>2 DEF DownOrder, NextClose
    <3> QED
      BY <2>1, <2>2, <3>1, <3>2
  <2> QED
    BY <1>6, <2>3 DEF DownloadArrives, NextClose
<1>7. CASE UNCHANGED vars
  BY <1>7 DEF TypeOK, Phases, ReaderGone, DownloadArrives, vars
<1> QED
  BY <1>1, <1>2, <1>3, <1>4, <1>5, <1>6, <1>7
     DEF Next, Handler, Reader, Environment

-----------------------------------------------------------------------------
\* The inductive invariant.
ConnectorInv ==
    /\ TypeOK
    /\ Phases
    /\ Empty
    /\ CloseIsLast
    /\ UpOrder
    /\ UpNext
    /\ EndWhy
    /\ UpDone
    /\ DownOrder
    /\ ReaderGone
    /\ DownloadArrives

\* It holds before the client connects.
LEMMA InvInit == Init => ConnectorInv
<1> SUFFICES ASSUME Init PROVE ConnectorInv
  OBVIOUS
<1>1. TypeOK
  BY EmptyFacts DEF Init, TypeOK
<1>2. Phases /\ Empty
  BY DEF Init, Phases, Empty
<1>3. CloseIsLast
  BY EmptyFacts DEF Init, CloseIsLast
<1>4. UpOrder /\ UpNext
  BY EmptyFacts DEF Init, UpOrder, UpNext, Taken
<1>5. EndWhy /\ UpDone
  BY DEF Init, EndWhy, UpDone, Ending
<1>6. DownOrder
  BY EmptyFacts DEF Init, DownOrder
<1>7. ReaderGone /\ DownloadArrives
  BY DEF Init, ReaderGone, DownloadArrives
<1> QED
  BY <1>1, <1>2, <1>3, <1>4, <1>5, <1>6, <1>7 DEF ConnectorInv

\* Every step keeps it.
LEMMA InvStep == ConnectorInv /\ [Next]_vars => ConnectorInv'
<1> SUFFICES ASSUME ConnectorInv, [Next]_vars PROVE ConnectorInv'
  OBVIOUS
<1> USE DEF ConnectorInv
<1>1. TypeOK' /\ Phases' /\ Empty' /\ CloseIsLast'
  BY TypeStep, PhasesStep, EmptyStep, CloseStep, Zenon
<1>2. UpOrder' /\ UpNext'
  BY UpOrderStep, UpNextStep, Zenon
<1>3. EndWhy' /\ UpDone'
  BY EndWhyStep, UpDoneStep, Zenon
<1>4. DownOrder' /\ ReaderGone' /\ DownloadArrives'
  BY DownOrderStep, ReaderGoneStep, ArrivalStep, Zenon
<1> QED
  BY <1>1, <1>2, <1>3, <1>4, Zenon

\* The invariant holds of every connection.
LEMMA InvHolds == Spec => []ConnectorInv
<1> QED
  BY InvInit, InvStep, PTL DEF Spec

\* Every variable of a connection keeps its type.
THEOREM ConnectorTypeCorrect == Spec => []TypeOK
<1>1. ConnectorInv => TypeOK
  BY DEF ConnectorInv
<1> QED
  BY <1>1, InvHolds, PTL

\* A websocket that was closed and has delivered leaves the remote side with
\* everything a client wrote before it closed its half.
THEOREM UploadComplete == Spec => []UploadArrives
<1>1. ConnectorInv => UploadArrives
  <2> SUFFICES ASSUME ConnectorInv, client = "half", link = "closed",
                      remote # "closing", upn = <<>>
               PROVE  Len(got) = sent
    BY DEF UploadArrives
  <2>1. remote \in {"open", "ended"}
    BY DEF ConnectorInv, TypeOK, Phases
  <2>2. Len(got) \in Nat /\ sent \in Nat
    BY DEF ConnectorInv, TypeOK
  <2>3. remote = "ended" => Len(got) = sent
    BY DEF ConnectorInv, UpDone, Ending
  <2>4. remote = "open" => Len(got) = sent
    BY <2>2, EmptyFacts DEF ConnectorInv, UpDone, Ending
  <2> QED
    BY <2>1, <2>3, <2>4
<1> QED
  BY <1>1, InvHolds, PTL

\* A reader that stopped while the websocket is there has given the client, or
\* its socket, everything the remote side wrote.
THEOREM DownloadComplete == Spec => []DownloadArrives
<1>1. ConnectorInv => DownloadArrives
  BY DEF ConnectorInv
<1> QED
  BY <1>1, InvHolds, PTL

\* A step of a connection writes a chunk, delivers the next one or does nothing
\* that either end of the upload can see.
LEMMA UploadStep ==
    ConnectorInv /\ [Next]_vars => [Upload!Write \/ Upload!Arrive]_<<sent, got>>
<1> SUFFICES ASSUME ConnectorInv, [Next]_vars
             PROVE  [Upload!Write \/ Upload!Arrive]_<<sent, got>>
  OBVIOUS
<1>1. CASE ClientWrite
  <2>1. sent' = sent + 1 /\ got' = got
    BY <1>1 DEF ClientWrite
  <2> QED
    BY <2>1 DEF Upload!Write
<1>2. CASE RemoteRead
  <2>1. CASE remote = "open" /\ Head(upn) # Close
    <3>1. /\ upn \in Seq(Nat) /\ upn # <<>>
          /\ Len(got) \in Nat /\ sent \in Nat /\ Len(upn) \in Nat
      BY <1>2 DEF RemoteRead, ConnectorInv, TypeOK
    <3>2. got' = Append(got, Head(upn)) /\ sent' = sent
      BY <1>2, <2>1 DEF RemoteRead
    <3>3. Head(upn) = Len(got) + 1
      BY <2>1, <3>1, TailFacts DEF ConnectorInv, UpOrder
    <3>4. HasClose(upn) => Len(upn) > 1
      BY <2>1, <3>1, TailFacts DEF HasClose
    <3>5. Len(upn) > 0
      BY <3>1, TailFacts
    <3>6. Len(got) < sent
      BY <2>1, <3>1, <3>4, <3>5 DEF ConnectorInv, UpOrder
    <3> QED
      BY <3>2, <3>3, <3>6 DEF Upload!Arrive
  <2>2. CASE ~(remote = "open" /\ Head(upn) # Close)
    BY <1>2, <2>2 DEF RemoteRead
  <2> QED
    BY <2>1, <2>2
<1>3. CASE ~(ClientWrite \/ RemoteRead)
  BY <1>3 DEF Connect, ClientRead, ClientHalfClose, ClientClose, RemoteWrite,
         RemoteClose, LinkBreaks, Dial, DialFails, Check, Read, ReadEOF,
         ReadFails, Write, WriteFails, SendClose, End, NextMessage,
         NextClose, NextFails, Copy, CopyToNobody, Next, Handler, Reader,
         Environment, vars, processVars, upVars, downVars, linkVars
<1> QED
  BY <1>1, <1>2, <1>3

\* The remote side receives what the client wrote, in order and without a gap.
THEOREM UploadOrdered == Spec => UploadInOrder
<1>1. Init => Upload!Init
  BY DEF Init, Upload!Init
<1> QED
  BY <1>1, InvHolds, UploadStep, PTL DEF Spec, UploadInOrder, Upload!Spec

\* The same of what the two ends of the download can see.
LEMMA DownloadStep ==
    ConnectorInv /\ [Next]_vars =>
        [Download!Write \/ Download!Arrive]_<<dsent, rec>>
<1> SUFFICES ASSUME ConnectorInv, [Next]_vars
             PROVE  [Download!Write \/ Download!Arrive]_<<dsent, rec>>
  OBVIOUS
<1>1. CASE RemoteWrite
  <2>1. dsent' = dsent + 1 /\ rec' = rec
    BY <1>1 DEF RemoteWrite
  <2> QED
    BY <2>1 DEF Download!Write
<1>2. CASE ClientRead
  <2>1. /\ downl \in Seq(Nat) /\ downl # <<>> /\ Head(downl) # Close
        /\ Len(rec) \in Nat /\ dsent \in Nat /\ Len(downl) \in Nat \ {0}
    BY <1>2, MessagesAreNumbers, TailFacts
       DEF ClientRead, ConnectorInv, TypeOK, Message
  <2>2. rec' = Append(rec, Head(downl)) /\ dsent' = dsent /\ client # "closed"
    BY <1>2 DEF ClientRead
  <2>3. Head(downl) = Len(rec) + 1
    BY <2>1, <2>2, TailFacts DEF ConnectorInv, DownOrder
  <2>4. Len(rec) < dsent
    BY <2>1, <2>2 DEF ConnectorInv, DownOrder
  <2> QED
    BY <2>2, <2>3, <2>4 DEF Download!Arrive
<1>3. CASE ~(RemoteWrite \/ ClientRead)
  BY <1>3 DEF Connect, ClientWrite, ClientHalfClose, ClientClose, RemoteClose,
         RemoteRead, LinkBreaks, Dial, DialFails, Check, Read, ReadEOF,
         ReadFails, Write, WriteFails, SendClose, End, NextMessage,
         NextClose, NextFails, Copy, CopyToNobody, Next, Handler, Reader,
         Environment, vars, processVars, upVars, downVars, linkVars
<1> QED
  BY <1>1, <1>2, <1>3

\* The client receives what the remote side wrote, in order and without a gap.
THEOREM DownloadOrdered == Spec => DownloadInOrder
<1>1. Init => Download!Init
  BY DEF Init, Download!Init
<1> QED
  BY <1>1, InvHolds, DownloadStep, PTL DEF Spec, DownloadInOrder, Download!Spec
=============================================================================
