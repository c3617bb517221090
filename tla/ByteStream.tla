----------------------------- MODULE ByteStream -----------------------------
(***************************************************************************)
(* What a tunnel owes one direction of a connection: chunks arrive in the  *)
(* order they were written in, each once and none before it was written.   *)
(* A tunnel may stop delivering at any point, but never leaves a gap.      *)
(***************************************************************************)
EXTENDS Naturals, Sequences

VARIABLES
    written,  \* number of chunks written; the k-th chunk is k
    arrived   \* the chunks that arrived

Init == written = 0 /\ arrived = <<>>

Write == written' = written + 1 /\ UNCHANGED arrived

Arrive ==
    /\ Len(arrived) < written
    /\ arrived' = Append(arrived, Len(arrived) + 1)
    /\ UNCHANGED written

Spec == Init /\ [][Write \/ Arrive]_<<written, arrived>>
=============================================================================
