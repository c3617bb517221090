----------------------------- MODULE Connector ------------------------------
(***************************************************************************)
(* One connection through the Selkies Connector (cli/client.go): a local   *)
(* TCP client, a goroutine that dials a websocket and copies from the      *)
(* client to it, and a second one that copies back.  huproxy's File2WS and *)
(* the websocket library are modelled by what they do: File2WS cancels the *)
(* context when it returns, and a connection that has answered a close     *)
(* frame refuses to write.                                                 *)
(*                                                                         *)
(* Other connections of the process matter only in that a failed dial of   *)
(* any of them ends the process.                                           *)
(***************************************************************************)
EXTENDS Naturals, Sequences

CONSTANTS
    MaxUp,    \* bound: chunks the client writes
    MaxDown,  \* bound: messages the remote side writes
    Space     \* room in a socket's buffer

ASSUME ConnectorAssumption ==
    /\ MaxUp \in Nat
    /\ MaxDown \in Nat
    /\ Space \in Nat \ {0}

\* A close frame among the messages of a websocket, which are numbered from 1.
Close == 0

VARIABLES
    alive,      \* the process runs
    client,     \* absent, open, half (done writing) or closed
    sent,       \* chunks the client has written
    upl,        \* those not read from the local connection yet
    main,       \* the handler: idle, dial, check, read, write, eof, end, done
    chunk,      \* what it has read
    ctx,        \* its context is cancelled
    link,       \* the websocket: none, up, broken, closed, reset
    closeSent,  \* a close frame was sent on it
    upn,        \* messages on their way to the remote side
    remote,     \* none, open, closing (first) or ended (after us)
    got,        \* chunks it received
    dsent,      \* messages it has written
    downn,      \* those on their way
    ws,         \* the reading goroutine: off, next, copy, gone
    item,       \* the message it copies
    downl,      \* messages in the local connection
    rec         \* messages the client received

processVars == <<main, chunk, ctx, ws, item>>
upVars == <<sent, upl, upn, got>>
downVars == <<dsent, downn, downl, rec>>
linkVars == <<link, closeSent, remote>>
vars == <<alive, client, processVars, upVars, downVars, linkVars>>

Init ==
    /\ alive = TRUE
    /\ client = "absent"
    /\ sent = 0
    /\ upl = <<>>
    /\ main = "idle"
    /\ chunk = 0
    /\ ctx = FALSE
    /\ link = "none"
    /\ closeSent = FALSE
    /\ upn = <<>>
    /\ remote = "none"
    /\ got = <<>>
    /\ dsent = 0
    /\ downn = <<>>
    /\ ws = "off"
    /\ item = 0
    /\ downl = <<>>
    /\ rec = <<>>

-----------------------------------------------------------------------------
(* The client.                                                             *)

\* Accept starts a goroutine for the connection.
Connect ==
    /\ alive
    /\ client = "absent"
    /\ client' = "open"
    /\ main' = "dial"
    /\ UNCHANGED <<alive, chunk, ctx, ws, item, upVars, downVars, linkVars>>

ClientWrite ==
    /\ client = "open"
    /\ main # "done"
    /\ sent < MaxUp
    /\ sent' = sent + 1
    /\ upl' = Append(upl, sent + 1)
    /\ UNCHANGED <<alive, client, processVars, upn, got, downVars, linkVars>>

ClientRead ==
    /\ client \in {"open", "half"}
    /\ downl # <<>>
    /\ rec' = Append(rec, Head(downl))
    /\ downl' = Tail(downl)
    /\ UNCHANGED <<alive, client, processVars, upVars, dsent, downn, linkVars>>

ClientHalfClose ==
    /\ client = "open"
    /\ client' = "half"
    /\ UNCHANGED <<alive, processVars, upVars, downVars, linkVars>>

\* A close with something unread, or on the write of the other side, resets the
\* connection, which may take away what the other side has not read.
Keep(buffer, reset) == IF reset THEN {buffer, <<>>} ELSE {buffer}

ClientClose ==
    /\ client \in {"open", "half"}
    /\ client' = "closed"
    /\ upl' \in Keep(upl, downl # <<>>)
    /\ downl' = <<>>
    /\ UNCHANGED <<alive, processVars, sent, upn, got, dsent, downn, rec, linkVars>>

-----------------------------------------------------------------------------
(* The remote side and the network.                                        *)

RemoteWrite ==
    /\ remote = "open"
    /\ link = "up"
    /\ dsent < MaxDown
    /\ dsent' = dsent + 1
    /\ downn' = Append(downn, dsent + 1)
    /\ UNCHANGED <<alive, client, processVars, upVars, downl, rec, linkVars>>

RemoteClose ==
    /\ remote = "open"
    /\ link = "up"
    /\ remote' = "closing"
    /\ downn' = Append(downn, Close)
    /\ UNCHANGED <<alive, client, processVars, upVars, dsent, downl, rec, link,
                   closeSent>>

\* A close frame is answered.
RemoteRead ==
    /\ upn # <<>>
    /\ upn' = Tail(upn)
    /\ IF Head(upn) = Close
          THEN /\ remote' = IF remote = "open" THEN "ended" ELSE remote
               /\ downn' = IF remote = "open" /\ link = "up"
                             THEN Append(downn, Close) ELSE downn
               /\ UNCHANGED got
          ELSE /\ got' = IF remote = "open" THEN Append(got, Head(upn)) ELSE got
               /\ UNCHANGED <<remote, downn>>
    /\ UNCHANGED <<alive, client, processVars, sent, upl, dsent, downl, rec,
                   link, closeSent>>

LinkBreaks ==
    /\ link = "up"
    /\ link' = "broken"
    /\ upn' = <<>>
    /\ downn' = <<>>
    /\ UNCHANGED <<alive, client, processVars, sent, upl, got, dsent, downl, rec,
                   closeSent, remote>>

-----------------------------------------------------------------------------
(* The handler: handleLocalConnection and File2WS.                         *)

Dial ==
    /\ main = "dial"
    /\ main' = "check"
    /\ ws' = "next"
    /\ link' = "up"
    /\ remote' = "open"
    /\ UNCHANGED <<alive, client, chunk, ctx, item, upVars, downVars, closeSent>>

\* log.Fatalf, in this connection or in another.
DialFails ==
    /\ alive
    /\ alive' = FALSE
    /\ main' = "done"
    /\ ws' = "gone"
    /\ link' = IF link = "up" THEN "reset" ELSE link
    /\ upl' = <<>>
    /\ upn' \in Keep(upn, link = "up")
    /\ downn' = <<>>
    /\ downl' \in Keep(downl, main # "done")
    /\ UNCHANGED <<client, chunk, ctx, item, sent, got, dsent, rec, closeSent,
                   remote>>

\* The head of File2WS's loop.
Check ==
    /\ main = "check"
    /\ main' = IF ctx THEN "end" ELSE "read"
    /\ UNCHANGED <<alive, client, chunk, ctx, ws, item, upVars, downVars, linkVars>>

Read ==
    /\ main = "read"
    /\ upl # <<>>
    /\ chunk' = Head(upl)
    /\ upl' = Tail(upl)
    /\ main' = "write"
    /\ UNCHANGED <<alive, client, ctx, ws, item, sent, upn, got, downVars, linkVars>>

\* Mutant: the end of the client's stream does not cancel the context.
ReadEOFWithoutCancel ==
    /\ main = "read"
    /\ upl = <<>>
    /\ client \in {"half", "closed"}
    /\ main' = "eof"
    /\ UNCHANGED <<alive, client, chunk, ctx, ws, item, upVars, downVars, linkVars>>

ReadEOF ==
    /\ main = "read"
    /\ upl = <<>>
    /\ client \in {"half", "closed"}
    /\ ctx' = TRUE
    /\ main' = "eof"
    /\ UNCHANGED <<alive, client, chunk, ws, item, upVars, downVars, linkVars>>

\* The client's end was a reset.
ReadFails ==
    /\ main = "read"
    /\ upl = <<>>
    /\ client = "closed"
    /\ ctx' = TRUE
    /\ main' = "end"
    /\ UNCHANGED <<alive, client, chunk, ws, item, upVars, downVars, linkVars>>

\* Mutant: a write is tried again after it has succeeded.
WriteAgain ==
    /\ main = "write"
    /\ link = "up"
    /\ ~closeSent
    /\ Len(upn) < Space
    /\ upn' = Append(upn, chunk)
    /\ main' \in {"check", "write"}
    /\ UNCHANGED <<alive, client, chunk, ctx, ws, item, sent, upl, got, downVars,
                   linkVars>>

\* Without a deadline, a write waits for room.
Write ==
    /\ main = "write"
    /\ link = "up"
    /\ ~closeSent
    /\ Len(upn) < Space
    /\ upn' = Append(upn, chunk)
    /\ main' = "check"
    /\ UNCHANGED <<alive, client, chunk, ctx, ws, item, sent, upl, got, downVars,
                   linkVars>>

\* Mutant: a failed write is only logged.
WriteFailsIsLogged ==
    /\ main = "write"
    /\ closeSent \/ link # "up"
    /\ main' = "check"
    /\ UNCHANGED <<alive, client, chunk, ctx, ws, item, upVars, downVars, linkVars>>

WriteFails ==
    /\ main = "write"
    /\ closeSent \/ link # "up"
    /\ ctx' = TRUE
    /\ main' = "end"
    /\ UNCHANGED <<alive, client, chunk, ws, item, upVars, downVars, linkVars>>

\* The close message has a deadline, and its failure is only logged.
SendClose ==
    /\ main = "eof"
    /\ main' = IF ctx THEN "end" ELSE "check"
    /\ IF link = "up" /\ ~closeSent /\ Len(upn) < Space
          THEN upn' = Append(upn, Close) /\ closeSent' = TRUE
          ELSE UNCHANGED <<upn, closeSent>>
    /\ UNCHANGED <<alive, client, chunk, ctx, ws, item, sent, upl, got, downVars,
                   link, remote>>

\* The deferred calls close both connections.
End ==
    /\ main = "end"
    /\ main' = "done"
    /\ link' = IF link = "up"
                 THEN IF downn # <<>> THEN "reset" ELSE "closed"
                 ELSE link
    /\ upn' \in Keep(upn, link = "up" /\ downn # <<>>)
    /\ downn' = <<>>
    /\ downl' \in Keep(downl, upl # <<>>)
    /\ upl' = <<>>
    /\ UNCHANGED <<alive, client, chunk, ctx, ws, item, sent, got, dsent, rec,
                   closeSent, remote>>

-----------------------------------------------------------------------------
(* The reading goroutine.                                                  *)

\* Mutant: a close frame is taken for a message.
NextMessageAny ==
    /\ ws = "next"
    /\ link = "up"
    /\ downn # <<>>
    /\ item' = Head(downn)
    /\ downn' = Tail(downn)
    /\ ws' = "copy"
    /\ UNCHANGED <<alive, client, main, chunk, ctx, upVars, dsent, downl, rec,
                   linkVars>>

\* Mutant: a message that is not binary is skipped.
NextMessageIfBinary ==
    /\ ws = "next"
    /\ link = "up"
    /\ downn # <<>>
    /\ Head(downn) # Close
    /\ item' = Head(downn)
    /\ downn' = Tail(downn)
    /\ ws' \in {"copy", "next"}
    /\ UNCHANGED <<alive, client, main, chunk, ctx, upVars, dsent, downl, rec,
                   linkVars>>

\* A message that is not binary is logged and copied all the same.
NextMessage ==
    /\ ws = "next"
    /\ link = "up"
    /\ downn # <<>>
    /\ Head(downn) # Close
    /\ item' = Head(downn)
    /\ downn' = Tail(downn)
    /\ ws' = "copy"
    /\ UNCHANGED <<alive, client, main, chunk, ctx, upVars, dsent, downl, rec,
                   linkVars>>

\* The library answers a close frame unless a blocked writer is in its way.
\* Only a close that is not normal cancels the context.
NextClose ==
    /\ ws = "next"
    /\ link = "up"
    /\ downn # <<>>
    /\ Head(downn) = Close
    /\ downn' = Tail(downn)
    /\ ws' = "gone"
    /\ ctx' \in {ctx, TRUE}
    /\ IF closeSent \/ (main = "write" /\ Len(upn) >= Space)
          THEN UNCHANGED <<upn, closeSent>>
          ELSE upn' = Append(upn, Close) /\ closeSent' = TRUE
    /\ UNCHANGED <<alive, client, main, chunk, item, sent, upl, got, dsent, downl,
                   rec, link, remote>>

NextFails ==
    /\ ws = "next"
    /\ link # "up"
    /\ ctx' = TRUE
    /\ ws' = "gone"
    /\ UNCHANGED <<alive, client, main, chunk, item, upVars, downVars, linkVars>>

\* Mutant: the context is cancelled after every copy.
CopyAndCancel ==
    /\ ws = "copy"
    /\ main # "done"
    /\ client \in {"open", "half"}
    /\ Len(downl) < Space
    /\ downl' = Append(downl, item)
    /\ ws' = "next"
    /\ ctx' = TRUE
    /\ UNCHANGED <<alive, client, main, chunk, item, upVars, dsent, downn, rec,
                   linkVars>>

Copy ==
    /\ ws = "copy"
    /\ main # "done"
    /\ client \in {"open", "half"}
    /\ Len(downl) < Space
    /\ downl' = Append(downl, item)
    /\ ws' = "next"
    /\ UNCHANGED <<alive, client, main, chunk, ctx, item, upVars, dsent, downn,
                   rec, linkVars>>

\* Nobody is left to read: the write may fail or not.  A failure cancels the
\* context and the loop goes on.
CopyToNobody ==
    /\ ws = "copy"
    /\ client = "closed" \/ main = "done" \/ link # "up"
    /\ ctx' \in IF main = "done" \/ link # "up" THEN {TRUE} ELSE {ctx, TRUE}
    /\ ws' = "next"
    /\ upl' \in Keep(upl, client = "closed")
    /\ UNCHANGED <<alive, client, main, chunk, item, sent, upn, got, downVars,
                   linkVars>>

-----------------------------------------------------------------------------
Handler ==
    \/ Check \/ Read \/ ReadEOF \/ ReadFails \/ Write \/ WriteFails
    \/ SendClose \/ End

Reader == NextMessage \/ NextClose \/ NextFails \/ Copy \/ CopyToNobody

Environment ==
    \/ ClientWrite \/ ClientRead \/ ClientHalfClose \/ ClientClose
    \/ RemoteWrite \/ RemoteClose \/ RemoteRead \/ LinkBreaks

Next == Connect \/ Dial \/ DialFails \/ Handler \/ Reader \/ Environment

Spec == Init /\ [][Next]_vars

\* The two goroutines run.  Neither the client, the remote side nor the network
\* owes anything.
FairSpec == Spec /\ WF_vars(Handler) /\ WF_vars(Reader)

-----------------------------------------------------------------------------
Message == Nat \ {Close}

TypeOK ==
    /\ alive \in BOOLEAN
    /\ client \in {"absent", "open", "half", "closed"}
    /\ sent \in Nat
    /\ upl \in Seq(Message)
    /\ main \in {"idle", "dial", "check", "read", "write", "eof", "end", "done"}
    /\ chunk \in Nat
    /\ ctx \in BOOLEAN
    /\ link \in {"none", "up", "broken", "closed", "reset"}
    /\ closeSent \in BOOLEAN
    /\ upn \in Seq(Nat)
    /\ remote \in {"none", "open", "closing", "ended"}
    /\ got \in Seq(Message)
    /\ dsent \in Nat
    /\ downn \in Seq(Nat)
    /\ ws \in {"off", "next", "copy", "gone"}
    /\ item \in Nat
    /\ downl \in Seq(Message)
    /\ rec \in Seq(Message)

Upload == INSTANCE ByteStream WITH written <- sent, arrived <- got
Download == INSTANCE ByteStream WITH written <- dsent, arrived <- rec

\* Resets, failed writes and the loop that goes on after a failed copy never
\* leave a gap in what the remote side receives.
UploadInOrder == Upload!Spec

\* Nor in what the client receives.
DownloadInOrder == Download!Spec

\* Handler and reader end when the client does, whoever else is blocked, unless
\* the handler waits for ever in a call that has no deadline.
ConnectionEnds ==
    <>[](client \in {"half", "closed"}) =>
        \/ <>[](main = "done" /\ ws = "gone")
        \/ <>[](main \in {"dial", "write"})

\* When the reader has stopped, the handler of an idle client is not told; but
\* whatever the client writes next ends the connection, provided that a close of
\* the remote side could be answered.
EndsOnceClientWrites ==
    ws = "gone" /\ (closeSent \/ link # "up") /\ main = "read" /\ upl # <<>>
        ~> main = "done"

\* What a client wrote before it closed its half of the connection has arrived
\* when the websocket was closed and has delivered: the close message comes last
\* and neither goroutine drops the rest, unless the remote side closed first.
UploadArrives ==
    client = "half" /\ link = "closed" /\ remote # "closing" /\ upn = <<>> =>
        Len(got) = sent

\* When the reader stops at the remote side's close frame, the client has what the
\* remote side wrote, in hand or in its socket, for as long as the handler runs.
\* Its end may take what the client has not read yet, when bytes of the client
\* that the handler has not read make closing the connection a reset.
DownloadArrives ==
    ws = "gone" /\ link = "up" /\ client # "closed" =>
        Len(rec) + Len(downl) = dsent
=============================================================================
