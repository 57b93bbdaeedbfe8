----------------------------- MODULE ByteChannel -----------------------------
(***************************************************************************)
(* What a pipe promises to the one process that reads it: a FIFO channel   *)
(* of bytes.  Bytes are numbered in the order in which writes accept them, *)
(* so "in order, none lost, none repeated" is: the bytes delivered so far  *)
(* are exactly 1, 2, ..., k.                                               *)
(***************************************************************************)
EXTENDS Naturals

VARIABLES sent,       \* how many bytes the writers have put into the channel
          received,   \* how many bytes the reader has been given
          closed,     \* the write end is closed
          eof         \* the reader has been told that there is nothing more

vars == <<sent, received, closed, eof>>

TypeOK == /\ sent \in Nat
          /\ received \in 0..sent
          /\ closed \in BOOLEAN
          /\ eof \in BOOLEAN

Init == sent = 0 /\ received = 0 /\ closed = FALSE /\ eof = FALSE

Send == /\ ~closed
        /\ sent' > sent
        /\ UNCHANGED <<received, closed, eof>>

Receive == /\ received' > received
           /\ received' <= sent
           /\ UNCHANGED <<sent, closed, eof>>

Close == closed' = TRUE /\ UNCHANGED <<sent, received, eof>>

\* End of file is reported only when every byte sent has been received.
Eof == /\ closed
       /\ received = sent
       /\ eof' = TRUE
       /\ UNCHANGED <<sent, received, closed>>

Next == Send \/ Receive \/ Close \/ Eof

Spec == Init /\ [][Next]_vars

==============================================================================
