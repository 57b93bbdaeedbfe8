---------------------------- MODULE MCServicesLive ----------------------------
(***************************************************************************)
(* Liveness of the components of MCServices, and of one pipe of the kernel *)
(* with a reader, a writer and a poll() as one more subject.               *)
(***************************************************************************)
EXTENDS MCServices

VARIABLES
    buffer, closed_read, closed_write, waiting_reads, pipeWaiters,
    next_waiter_id, pc, req, waiter_id, poll, changed, sent, delivered, eof

pipeState == <<buffer, closed_read, closed_write, waiting_reads, pipeWaiters,
    next_waiter_id, pc, req, waiter_id, poll, changed, sent, delivered, eof>>

Pipe == INSTANCE PipeManager WITH
    Readers <- {"r"}, Writers <- {"w"}, Pollers <- {"p"}, Waits <- {"forever"},
    MAX_PIPE_BUFFER_BYTES <- 2, PIPE_BUF_BYTES <- 1, Lengths <- {1, 2},
    MaxBytes <- 3, MaxWaiters <- 3, waiters <- pipeWaiters

LiveInit == MCInit /\ Pipe!Init

LiveNext ==
    \/ MCNext /\ UNCHANGED pipeState
    \/ /\ subject = "pipe" /\ Pipe!Next
       /\ UNCHANGED serviceVars

\* AcpFairness, V8Fairness, LinkFairness, LockFairness, SidecarFairness and PipeManager's
\* Fairness, each while the behaviour is about that component.
About(which, A) == subject = which /\ A

LiveFairness ==
    /\ \A c \in AcpCallers :
          WF_acpVars(About("acp", CallerStep(c))) /\ WF_acpVars(About("acp", Expire(c)))
    /\ \A t \in AcpTasks : WF_acpVars(About("acp", WriteEnds(t)))
    /\ WF_acpVars(About("acp", CloserStep)) /\ WF_acpVars(About("acp", AcpReaderStep))
    /\ WF_v8Vars(About("v8", HostStep))
    /\ \A s \in V8Sessions :
          /\ WF_v8Vars(About("v8", ThreadStep(s)))
          /\ WF_v8Vars(About("v8", InitScriptEnds(s)))
          /\ WF_v8Vars(About("v8", TimerFires(s)))
          /\ SF_v8Vars(About("v8", LoopAborts(s)))
          /\ WF_v8Vars(About("v8", s \in terminating /\ GuestThrows(s)))
          /\ WF_v8Vars(About("v8", s \in cutOff /\ (GuestReturns(s) \/ GuestThrows(s))))
    /\ WF_linkVars(About("link_calls", ClientStep)) /\ WF_linkVars(About("link_calls", ReaderStep))
    /\ WF_linkVars(About("link_calls", LoopStep))
    /\ \A h \in CallbackIds : WF_linkVars(About("link_calls", InvokeEnds(h)))
    /\ \A c \in Callers :
          WF_lockVars(About("lock", Acquire(c))) /\ WF_lockVars(About("lock", Unlock(c)))
    /\ WF_vmVars(About("vm_end", RunLoopStep))
    /\ WF_pipeState(About("pipe", Pipe!WriteResume("w")))
    /\ WF_pipeState(About("pipe", Pipe!ReadResume("r")))
    /\ WF_pipeState(About("pipe", Pipe!PollSnapshot("p") /\ poll["p"].stage # "idle"))
    /\ WF_pipeState(About("pipe", Pipe!PollLook("p")))

LiveSpec == LiveInit /\ [][LiveNext]_<<serviceVars, pipeState>> /\ LiveFairness

(* Nobody waits for ever in the kernel: a free lock is taken by one of     *)
(* those who wait for it, a blocked read that a writer has answered        *)
(* returns, and so does a poll() whose end became ready: FreeLockIsTaken   *)
(* of FileLock and ReadersAreServed of PipeManager (fd_flock,              *)
(* read_with_timeout, poll_targets).                                       *)
WaitersAreServed == FreeLockIsTaken /\ Pipe!ReadersAreServed
===============================================================================
