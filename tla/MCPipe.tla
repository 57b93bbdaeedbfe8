------------------------------- MODULE MCPipe --------------------------------
(***************************************************************************)
(* Byte channels of the kernel in one run, told apart by subject: many, a  *)
(* pipe with readers that overlap and time out; one, a pipe where one      *)
(* reader at a time waits for as long as it takes and writes are longer;   *)
(* pty, a terminal that is switched between the default mode (canonical,   *)
(* with echo and signals) and raw mode, with buffers of a few bytes, so    *)
(* that a write of two bytes can fail after the first.  The readers of the *)
(* pipe are interchangeable, and so are its writers.                       *)
(***************************************************************************)
EXTENDS PipeManager, TLC

CONSTANTS    \* those of Pty
  MasterReaders, SlaveReaders, Inputs, Outputs, TermiosSet, Pgids, MAX_PTY_BUFFER_BYTES,
  MAX_CANON, MaxWrites, MaxWaits, ABSENT, PENDING, HANGUP

VARIABLES
  subject,
  termios, foreground_pgid, line_buffer, ptyBuffer, waiting, ptyWaiters, nextPtyWaiter,
  closed, readers, signals, writes, typed, edited, ptyDelivered, taken, lost, failure

ptyState == <<termios, foreground_pgid, line_buffer, ptyBuffer, waiting, ptyWaiters,
              nextPtyWaiter, closed, readers, signals, writes, typed, edited, ptyDelivered,
              taken, lost, failure>>

Many == INSTANCE PipeManager WITH MaxBytes <- 3, Lengths <- {1, 2}
One  == INSTANCE PipeManager WITH Waits <- {"forever"}

Default == [icanon |-> TRUE, echo |-> TRUE, isig |-> TRUE, icrnl |-> TRUE, onlcr |-> TRUE]
Raw == [icanon |-> FALSE, echo |-> FALSE, isig |-> FALSE, icrnl |-> FALSE, onlcr |-> TRUE]

Modes == {Default, Raw}

Typed == {<<"x", "y">>, <<"ERASE", "EOF">>, <<"INTR", "x", "CR">>}
Shown == {<<"x", "NL">>}

Pty == INSTANCE Pty WITH
  Lengths <- {2}, buffer <- ptyBuffer, waiters <- ptyWaiters,
  next_waiter_id <- nextPtyWaiter, delivered <- ptyDelivered

\* A third read that registers comes early.
ManyPart == next_waiter_id' = 4 => sent' <= 1

\* The foreground group is set before the first write, and the mode before the second; a third
\* write is to a terminal in the default mode that has a foreground group and lost no answer.
PtyPart ==
  /\ foreground_pgid' # foreground_pgid => writes = 0
  /\ termios' # termios => writes <= 1
  /\ writes' = 3 => foreground_pgid # 0 /\ termios = Default /\ ~lost

Symmetry == Permutations(Readers) \cup Permutations(Writers)

MCInit == Init /\ Pty!Init /\ subject \in {"many", "one", "pty"}
MCNext ==
  /\ UNCHANGED subject
  /\ \/ /\ UNCHANGED ptyState
        /\ \/ subject = "many" /\ Many!Next /\ ManyPart
           \/ subject = "one" /\ One!OneReaderNext
     \/ subject = "pty" /\ Pty!Next /\ PtyPart /\ UNCHANGED vars
MCSpec == MCInit /\ [][MCNext]_<<vars, ptyState, subject>>

(* While one reader at a time reads and none times out, the pipe is a FIFO *)
(* byte channel that loses nothing and reports end of file only when it is *)
(* drained (ChannelSpec), and the bytes a reader is given are the next     *)
(* ones in order (InOrder): read_with_timeout, write_with_mode, close.     *)
OneReaderHasAChannel ==
  /\ Channel!Init
  /\ [][subject = "one" => InOrder' /\ [Channel!Next]_(Channel!vars)]_<<vars, subject>>

(* And such a pipe never holds more than the limit or the rest of one   *)
(* write: OverrunIsOneWrite (the hand-off of write_with_mode).             *)
OneReaderOverrun == subject = "one" => OverrunIsOneWrite

(* NoLostWakeup of Pty (read_with_timeout sleeps, write and close wake).   *)
PtyReadersWake == subject = "pty" => Pty!NoLostWakeup

(* QueueIsSound of Pty (deliver, and a read that times out).               *)
PtyQueueIsSound == subject = "pty" => Pty!QueueIsSound

(* InOrder of Pty (deliver, drain_buffer and a read that is shorter than   *)
(* the chunk it is given).                                                 *)
PtyIsInOrder == subject = "pty" => Pty!InOrder

(* InputIsEdited of Pty (the line discipline in process_input).            *)
PtyInputIsEdited == subject = "pty" => Pty!InputIsEdited
==============================================================================
