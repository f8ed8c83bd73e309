----------------------------- MODULE ByteChannel -----------------------------
(* What a compressor and a decompressor promise together: a channel of bytes.  *)
(* What is received is what was sent, in order, and whoever receives learns   *)
(* of the end only when all has arrived and no more can come.                 *)
EXTENDS SequencesExt

VARIABLES
    sent,           \* the bytes sent
    received,       \* the bytes received
    closed,         \* no more will be sent
    ended           \* the receiver knows that it has everything
vars == <<sent, received, closed, ended>>

Init == sent = <<>> /\ received = <<>> /\ ~closed /\ ~ended

\* Some bytes, or none, are sent; they may be the last ones.
Send ==
    /\ ~closed
    /\ IsPrefix(sent, sent')
    /\ closed' \in BOOLEAN
    /\ UNCHANGED <<received, ended>>

\* Some bytes, or none, are received; with them the end may come.
Receive ==
    /\ ~ended
    /\ IsPrefix(received, received') /\ IsPrefix(received', sent)
    /\ ended' \in BOOLEAN
    /\ ended' => closed /\ received' = sent
    /\ UNCHANGED <<sent, closed>>

Next == Send \/ Receive
Spec == Init /\ [][Next]_vars
=============================================================================
