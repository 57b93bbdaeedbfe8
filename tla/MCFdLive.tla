------------------------------ MODULE MCFdLive ------------------------------
(***************************************************************************)
(* What must happen to descriptors, told apart by subject: share, where    *)
(* two processes share a pipe and a file, opened before the second is      *)
(* spawned, whose lock callers take while they close and exit, and         *)
(* standard streams stay open; copies, where one process with a pipe or a  *)
(* terminal copies descriptors in every way.                               *)
(***************************************************************************)
EXTENDS FdTable

VARIABLE subject

\* The calls a subject makes; a call that has begun is not cut off.
Begins(ops) == vm = VmIdle => vm'.op \in ops \cup {"idle"}

Pairs ==
    {op \in {"pipe", "pty"} : {next_pipe_desc - PIPE_DESC_BASE, next_pty_desc - PTY_DESC_BASE} = {0}}

Part ==
    \/ /\ subject = "share"
       /\ Begins({"spawn"} \cup (IF procs[2] = "none" THEN {"open", "pipe"} ELSE {}))
       /\ \A p \in Pids : procs'[p] # "reaped" /\ (tables'[p].open => tables'[p].entries[0] # NONE)
    \/ /\ subject = "copies"
       /\ Begins({"dup", "dup2", "dupfd"} \cup Pairs
                    \cup (IF procs[1] = "none" THEN {"spawn"} ELSE {}))

LiveInit == Init /\ subject \in {"share", "copies"}
LiveNext == Next /\ Part /\ UNCHANGED subject
LiveSpec == LiveInit /\ [][LiveNext]_<<vars, subject>> /\ Fairness
=============================================================================
