# Verification of the agentOS runtime

TLA+ models of the concurrent parts of this repository, checked with TLC on small instances and, for the
most important invariants, proved with TLAPS for every value of the constants.

- [The system](#the-system)
- [What is modelled](#what-is-modelled)
- [Runs](#runs)
- [Proofs](#proofs)
- [What the models show about the code](#what-the-models-show-about-the-code)
- [What is not modelled](#what-is-not-modelled)

Check a run with `tlc -config MCPipe.cfg MCPipe` and a proof module with `tlapm V8SessionProofs.tla`.

## The system

agentOS runs guest programs inside an operating-system kernel that is itself a library. A sidecar process holds the
kernels and talks to a TypeScript client over its standard streams.

| Part | Code | State | Operations that change it |
|---|---|---|---|
| Kernel VM | `crates/kernel/src/kernel.rs` | the tables below, pids owned by each driver | system calls (`&mut self`), exit callback on any thread |
| Process table | `process_table.rs` | records, wait events, signal masks, zombie deadlines | register, exit, kill, stop/continue, setpgid/setsid, waitpid, terminate_all, reaper thread |
| Descriptor tables | `fd_table.rs` | per-process tables, shared descriptions with reference counts | open, dup, dup2, F_DUPFD, close, fork, cleanup |
| Advisory locks | `fd_table.rs` | holders per inode | flock with a wait loop, release |
| Pipes | `pipe_manager.rs` | buffer, queued readers | read, write, close, poll |
| PTYs | `pty.rs` | line, two buffers, queued readers, modes | typed and printed bytes, read, close, mode changes |
| Sockets | `socket_table.rs` | sockets, bindings, pending accepts | bind, listen, connect, accept, send, receive, shutdown |
| Filesystems | `vfs.rs`, `overlay_fs.rs`, `mount_table.rs`, `root_fs.rs`, `device_layer.rs` | trees, layers, markers, mounts | file and directory calls, mount, snapshot |
| V8 runtime | `crates/v8-runtime` | sessions, slots, abort handles | create, execute, terminate, destroy |
| Sidecar | `crates/sidecar` | connections, sessions, VMs, queues of process events | protocol frames |
| ACP | `crates/sidecar/src/acp` | pending requests, permission requests | request, notify, inbound request, close |
| TypeScript client | `packages/core` | pending responses, event buffer, cron jobs | API calls, frames from the sidecar |
| Engines, plugins, policy, browser sidecar | `crates/execution`, `crates/sidecar/src/plugins`, `permissions.rs`, `dns.rs`, `crates/sidecar-browser` | little or none of their own | translate requests |

**How the parts meet.** In the kernel each manager has a mutex of its own and lets go of it before it calls another.
A system call is therefore several critical sections. Calls of the VM's owner exclude each other (`&mut self`), but a
process can exit on any thread, and the exit callback then cleans up descriptors, locks, pipes, PTYs and sockets
between two critical sections of whatever call is under way. Blocking calls (`waitpid`, pipe and PTY reads and writes,
`flock`, `poll`) sleep on condition variables and look again after a `notify_all`. Above the kernel there are threads
(one for each V8 session, the reader and the run loop of the sidecar), asynchronous tasks (the ACP client) and callbacks
of one JavaScript thread (the TypeScript client), joined by queues: bounded channels into a session, process event
queues into the sidecar, two pipes of frames between the sidecar and its client.

**What makes it hard.** Wakeups that come after the mutex is released; results handed directly to a queued reader past
the buffer; timeouts that race an answer; state looked at in one critical section, or before an await, and used in a
later one; calls that fail half-way; cleanup that races the calls it cleans up after; queues of different age that are
drained in turn; limits checked before they are used up.

**What should hold.** Nobody sleeps through the event it waits for; bytes, events and frames arrive once and in order;
exit statuses are collected and reported once; no zombie, pipe end, lock, slot or request is stranded; counts are
exact; an end hangs up after its last descriptor and not before; limits hold. PROJECT.json lists the places where each
of these could go wrong ("hazards") with the properties that would show it.

## What is modelled

An action is one critical section with everything the code does in it; what a call does after it has released the
mutex is a later action. Data is reduced to what the properties distinguish.

| Module | Code | State and actions |
|---|---|---|
| `ByteChannel` | (abstract) | What a pipe or a connected socket promises its reader: bytes numbered in the order they were accepted, end of file only when drained. |
| `PipeManager` | `pipe_manager.rs`, `poll.rs`, `poll_targets` | One pipe. `WriteStart`/`WriteResume` and `ReadStart`/`ReadResume` are passes through the loops of `write_with_mode` and `read_with_timeout`; `TimerFires`/`ReadExpired` the two halves of a timeout; `CloseRead`/`CloseWrite`; `PollSnapshot`, `PollLook`, `PollTimeout`. Bytes are numbers, so a byte lost, doubled or out of order is visible. |
| `Pty` | `pty.rs` | One PTY. `WriteMaster` runs the line discipline byte by byte until one fails; `WriteSlave`; `Read`, `ReadResume`, `WaitTimesOut`, `ReadTimesOut`; `Close`; `SetTermios`, `SetForegroundPgid`. A byte is a plain letter or a named control character; one signal character stands for the three. |
| `ProcessTable` | `process_table.rs` | `RegisterLook`/`RegisterInsert`; an exit is `MarkExited` and then schedule, signals, callback and notify as separate steps; `Kill`, `Mark`, `MarkNotify`, `SigProcMask`, `SetPgid`, `SetSid`, `TerminateAll`; `WaitStart`, `WaitResume`, `WaitFinish`; the reaper thread's `ReaperTake`, `ReaperDecide`, `ReaperNotify`. |
| `FileLock` | `FileLockManager` in `fd_table.rs` | `Flock` enters a call, `Acquire` is one pass of its loop, `Unlock` and `Release` give locks up. |
| `FdTable` | `fd_table.rs`, the descriptor calls of `kernel.rs`, `create_pipe_fds`, `create_pty_fds` | Extends `FileLock`. The owner's call is a program of critical sections kept in `vm` (look, check the limit, act); each exit has a cleaner that works through its list of descriptions; `fd_flock` callers hold on to what they looked up. |
| `FlatFiles`, `OverlayFs` | `overlay_fs.rs` over `vfs.rs` | One action per call. A call is a chain of writes that stops at the first error and keeps what it did (`Then` is the code's `?`). Whiteout and opaque markers are sets of paths; files have inodes and links. `FlatFiles` is what a program that works with whole files may expect. |
| `SocketTable` | `socket_table.rs`, the socket calls of `kernel.rs` | TCP, UNIX and UDP sockets with their indexes, the backlog, peers and numbered bytes; exits remove sockets in a step of their own. |
| `AcpClient` | `acp/client.rs` | Callers, the reader, a closer and deferred handlers as tasks with a program point each; frames of the adapter may be lost, late or repeated. |
| `ResponseTracker` | the trackers in `protocol.rs` | Register and accept with the bounded window of completed ids. |
| `V8Session` | `session.rs`, `embedded_runtime.rs`, `host_call.rs`, `timeout.rs` | The manager's lock and what its holder does (`dispatching`), a thread per session from the wait for a slot through Execute, abort, timer, bridge calls and both event loops. The guest may compute, call, throw and return at any time. |
| `SidecarLink` | `native-process-client.ts`, `stdio.rs` | Requests, callbacks and events over two FIFO pipes, with timeouts, disposal, overflow of the event buffer and the death of either side. |
| `SidecarVms` | `stdio.rs`, `service.rs`, `vm.rs`, `execution.rs` | The run loop with VMs, processes, children and their adoption, the three queues an event goes through, and dispose in its steps. |
| `CronManager` | `packages/core/src/cron` | `schedule`, `cancel`, `dispose`, timers and runs of any length, with the maps that know a job by its id only. |
| `MCPipe`, `MCProcess`, `MCFd`, `MCFdLive`, `MCOverlay`, `MCServices`, `MCServicesLive` | | Instances: bounds, symmetry, what is typed, which calls are made. |
| `*Proofs` | | Theorems, see [Proofs](#proofs). |

Choices worth knowing:

- `FdTable` has `STDIO_FDS` standard streams in a new process. The code has three, which are all alike; the runs use
  one. `Calls` restricts which system calls programs make, so that a run can go deep in the ones it is about.
- A `notify_all` that follows a critical section at once is part of the action where nothing can happen in between
  that the waiters could tell apart; where the code does other work first (exit, signals, reaper) it is an action of
  its own.
- Condition variables may wake spuriously in `PipeManager` and `ProcessTable`. In `Pty` and `FileLock` they do not:
  the invariants there say that a wakeup is not needed, and a spurious one would only end a sleep they forbid.
- `V8Session` has a constant `DirectDestroy`: whether the host destroys a session without `V8SessionHandle::destroy`,
  which terminates it first. The runs use both values, the theorem needs neither.
- `SidecarVms` assumes one client session, process ids that are not reused (`proc-${pid}` in
  `packages/core/src/sidecar/rpc-client.ts`), and grace periods long enough for a guest that reacts.
- `CronManager` refuses nothing after `dispose`: `AgentOs.dispose()` disposes of the cron manager first and then awaits
  the rest, so a job under way can still schedule. `DisposedIsQuiet` says what stays ended all the same, and names the
  one thing that does not: a callback of before the dispose whose id was given to a new job sets its timer again.
- History variables (`typed`, `edited`, `delivered`, `taken`, `lost`, `cutOff`, `cronDisposed`, `failure`, `collected`, `abandoned`, `admitted`,
  `registered`, `accepted`, `written`, `received` and the like) record what happened and influence nothing.

## Runs

Components that share no state are checked side by side: the first state chooses the `subject` of the behaviour, and
what belongs to the others stays as it starts. The properties of a subject are conjoined where they are one question.

| Run | Instance | Shows |
|---|---|---|
| `pipe` | a pipe with 2 readers, 2 writers, a poll, a buffer of 2, timeouts; a pipe with 1 reader and writes of up to 4 bytes; a PTY with a reader at each end and 3 writes | `NoLostWakeup`, `NoMissedPoll`, `NoByteTwice`; with one reader `OneReaderHasAChannel` (the pipe implements `ByteChannel`) and `OneReaderOverrun`; for the PTY `PtyReadersWake`, `PtyQueueIsSound`, `PtyIsInOrder`, `PtyInputIsEdited` |
| `proc` | 2 processes, 2 waiters, STOP, TSTP, CONT and HUP, masks, terminate_all, the reaper | `NoLostWaiter`, `ZombieHasDeadline`, `PendingAreBlocked`, `ExitStatusIsKept` |
| `proc_live` | 2 processes, 1 waiter, fair | `ExitsAreCollected`: zombies go and waiters return |
| `fd` | 2 processes that share a pipe; 1 process with a table of 4; 2 callers that lock 2 inodes; an overlay of 1 and of 2 lower layers | `TablesAreSound`, `NumbersStay`, `LockExclusion`, `NoLostWriter`, `OnlyNamedPathsChange`, `RenameKeepsLinks`, `FilesAreFlat` (the overlay implements `FlatFiles`) |
| `fd_live` | 2 processes, a file, a pipe, a PTY, a lock, fair | `ExitIsCleanedUp`, `EndsAreClosed` |
| `services` | ACP client, V8 sessions, link, sockets, tracker, cron jobs, VMs of the sidecar | `AcpExchangeIsSound`, `V8SessionsAreSound`, `LinkIsSound`, `SocketsAreSound`, `SocketsAreChannels`, `RequestsAreAccountedFor`, `OverlapPolicyIsKept`, `RecurringGoesOn`, `DisposedIsQuiet`, `FramesAreWhole`, `ExitsAreReported`, `VmsAreSound` |
| `services_live` | ACP client, V8 sessions, link, locks, a pipe, a VM, fair | `AcpCallsEnd`, `ExecutionsEnd`, `LinkSettles`, `WaitersAreServed`, `SidecarSettles` |
| `lock_reader`, `v8_order`, `late_callback`, `overlay_rename`, `sidecar_dispose` | | *violated*, see [below](#what-the-models-show-about-the-code) |

The passing runs have between 40,000 and 700,000 distinct states. Definitions marked "mutant" are plausible bugs (a
dropped notify, an off-by-one, a missing reset); PROJECT.json pairs each property with one that breaks it, so that no
property holds by the shape of the model alone.

**Bounds.** Two threads on each side are what a lost wakeup, a handed-over answer or a race of two cleanups needs.
Buffers are of two or three bytes so that full, empty and partly drained occur within a few calls, and a write of two
or three bytes can fail after the first. Two processes give a parent and a child, sharing, and an exit that races the
other's call; a process that is gone is not reused. `numbers` in `MCFd` has a table of four entries so that the search
for a free number wraps around and fails. The overlay has two directories with a file each, enough for every pair of
source and destination of a rename, and stacks of one and two layers. In `MCServices`:

- `acp`: two requests of one side or one of each (`AcpPart`), a window of one id, so that an id is evicted and repeated;
- `v8`: two sessions for one slot, a channel of one message, five dispatches and bridge calls together (`V8Budget`);
- `link_calls`: requests and callbacks up to three; `link_events`: four events of two kinds, a buffer of two;
- `sock_*`: two processes, with the data of a connection, the limits, the backlog, the names and UDP in parts of their own;
- `tracker`: three ids, each used twice, a window of two;
- `cron`: one id registered three times, which is where registrations of the same id meet;
- `vm_events`, `vm_teardown`, `vm_pair`: one process and its child with two chunks of output; two VMs, a cleanup and a
  failure; two processes that are killed.

`MaxBytes`, `MaxWaiters`, `MaxPid`, `MaxKills`, `MaxFiles`, `MaxPipes`, `MaxPtys`, `MaxWrites`, `MaxWaits`, `MaxDispatches`,
`MaxBridgeCalls`, `MaxRequests` and the other constants named Max bound behaviours; a call that would exceed one is not
made. Since every instance stops at its bounds, deadlock is not checked there; `overlay_rename` has no bound that stops it.

**Fairness.** A thread that is awake runs on: weak fairness of the resuming passes, of the rest of a call between its
critical sections, of a cleanup, of the reader and run loop of the sidecar, of a JavaScript callback that is due. Nobody
is obliged to call, write, close or answer. Timers fire. The reaper's choice of a due zombie is strongly fair because
the earliest deadline is due first and one that is put off is put off by the same time to live, so none is passed over
for ever. The abort arm of the session's `select!` is strongly fair because `select!` chooses at random among the arms
that are ready. Of V8 it is assumed that JavaScript which is to be terminated ends, and of a guest that a
termination has cut off (`cutOff`) that what it left to run comes to an end. Nothing is assumed of a guest V8 was not told
to terminate, whether or not its abort channel is closed.

**Conditions.** Some properties hold under conditions that are part of their statement:

- `NoLeakedEnd` and `OpenFdsWithinLimit` (in `TablesAreSound`) are about tables that do not fill up and a descriptor 0
  that is not closed. Both fail otherwise, see below.
- `NoLostWaiter` leaves out waits for a process group, because `setpgid` and `setsid` do not notify.
- `ExitsAreCollected` excepts zombies that `terminate_all` took off the reaper's list.
- In `Pty`, order excepts behaviours in which a timed-out read dropped an answer, the wakeups the time between a write
  that failed half-way and the next notify, and editing lines over `MAX_CANON` and writes that failed half-way.
- `FilesAreFlat` is about calls on whole files whose parent is there. It excepts, and `MeetsWhiteout` names, the steps in
  which a whiteout shows through: an exclusive create or an append of a removed name that hides an entry, and a rename
  onto a removed name. These steps are part of the run, and the calls after them must again fit one map.
- `ExitIsCleanedUp` promises that the pid leaves `driver_pids` if it is there before the cleanup gets to it, or once
  `waitpid` has collected the process.
- `DisposedIsQuiet` excepts the timer of an old callback whose id was given to a job scheduled after the dispose.
- `LinkIsSound` says that no event is passed over unless the client had failed for another reason than a full buffer.
- `FramesAreWhole` is about the frames of the run loop. Those of a dispose can be reordered (its poll moves older events
  of the channel behind newer ones), those of a failed dispose are dropped, and chunks that a WASM guest or a tool
  writes after the signal that kills it may be lost.
- In `ExecutionsEnd`, `AbortedExecutionsEnd` is about an execution whose isolate was told to terminate (`Told`): the abort
  channel alone does not stop a guest that computes. `DestroyReturns` is about a destroy whose signal nothing missed
  (`Heard`): the isolate was told, and the abort channel was armed.

## Proofs

| Theorem | States |
|---|---|
| `PipeManagerProofs!TypeCorrect`, `WakeupsAreNotLost`, `PollsAreNotMissed` | `[]TypeOK`, `[](NoLostWakeup /\ NoMissedPoll)`, `[]NoMissedPoll` |
| `PipeManagerProofs!NoByteIsReturnedTwice` | `[]NoByteTwice` |
| `PipeChannelProofs!OneReaderRefinesChannel` | a pipe with one reader that never times out implements `ByteChannel` |
| `PipeChannelProofs!OneReaderReadsInOrder` | and `[](InOrder /\ OverrunIsOneWrite)` |
| `ProcessTableProofs!TypeCorrect`, `SignalsArePendingOnlyWhileBlocked`, `NoZombieIsStranded`, `WaitersAreNotForgotten` | `[]TypeOK`, `[]PendingAreBlocked`, `[]ZombieHasDeadline`, `[]NoLostWaiter` |
| `ProcessTableProofs!ExitStatusesAreKept` | `ExitStatusIsKept`, an action property |
| `ServiceProofs!LockTypeCorrect`, `WriterIsAlone`, `WritersAreWoken` | `[]LockTypeOK`, `[]LockExclusion`, `[]NoLostWriter` |
| `ServiceProofs!WindowStaysConsistent`, `AnswersAreCounted`, `RequestsTally` | `[]WindowIsConsistent`, `[]OneAnswerPerRequest`, `[]RequestsAreAccountedFor` |
| `ServiceProofs!JobsDoNotOverlap`, `QueuedRunsAreNotForgotten`, `OverlapPoliciesAreKept`, `RecurringJobsGoOn` | `[]RunsDoNotOverlap`, `[]QueuedHasARun`, `[]OverlapPolicyIsKept`, `[]RecurringGoesOn` |
| `ServiceProofs!DisposeIsFinal` | `DisposedIsQuiet`, an action property |
| `SidecarLinkProofs!LinkStaysSound` | `[]LinkIsSound` |
| `AcpProofs!ExchangeStaysSound` | `[]AcpExchangeIsSound` |
| `V8SessionProofs!SessionsStaySound` | `[]V8SessionsAreSound` |
| `SocketProofs!SocketsStaySound` | `[]SocketsAreSound` |
| `SocketProofs!SocketsRefineChannels` | each direction of a connection implements `ByteChannel` |

They hold for any number of threads, processes, descriptions, inodes, tasks, sessions, ids and events and for any
sizes; the only assumptions are the named ones in the modules (`PipeConstants`, `ProcessConstants`, `NoOwnerIsNone`,
`TrackerAssumption`, `AcpAssumption`, `V8Assumption` and so on), which give the constants their types, keep the sets of
threads apart and say that the set of callers and the set of sessions are finite. The bounds of behaviours are
arbitrary natural numbers. TLC evaluates every assumption, and has checked every inductive invariant on the instances
above before its proof.

*Pipes.* `WakeupInv` strengthens the two wakeup properties with `Registered`: a reader asleep has a waiter. Without it
a sleeping reader could have no `PendingRead` to be answered through, and the invariant would not survive a hand-over.
Every step either notifies, and then nobody sleeps (`NotifyWakes`), or changes nothing a sleeper waits for
(`QuietStep`). `BytesInv` says where each byte is. With one reader, `OneInv` fixes the three states its `PendingRead`
can be in (unanswered with an empty buffer, told the end, told the next bytes with the buffer behind them); the
refinement maps the channel's queue to the answer followed by the buffer. It also shows that such a reader never gets
the EBADF of `ReadBadFd`.

*Processes.* `Bookkeeping` says that nothing refers to a pid that is not registered yet, and that a pid somebody is
about to cancel is gone for good. It is what the race of `reaper.schedule` with `reaper.cancel` turns on: a waiter
that collected a process cancels its deadline after it released the mutex, which is harmless only because the pid
cannot have become another process. For the waiters, `Returns` is `CanReturn` with the table as an argument; each
step either adds nothing a waiter could return with (`NothingNews`) or leaves a notify to come.

*Locks.* `LockInv` is inductive as the conjunction of the three: that a grant wakes nobody is harmless for writers,
because a grant never makes room for one (`GrantKeepsWriterOut`).

*Response tracker.* `Window` adds that the set of completed ids is as large as the queue is long, which is what makes
the comparison of `completed.len()` with the cap one of the queue's length.

*Cron jobs.* `Agree` ties flags, put-off runs and runs under way together; `HomeInv` says that the maps of an id hold
registrations of that id and that a timer in a map is set; `SoleInv` that a recurring job whose id is used once always
has its timer or the callback that will set it.

*Link.* `LinkInv` has a part for each kind of traffic. For callbacks it says where an answer can be at each point of
`invoke`; for events that those still in the pipe are newer than the buffered ones and those newer than the ones
received, and that an event nobody has is one whose loss the client was told of. The proof takes the two in turn.

*ACP.* The property has three parts: a request in the table is unanswered and its caller waits, a repeated id is not
served again while the window remembers it, and no inbound request has more than one reply. `AcpInv` adds what each
task can be about at each of its program points (`TasksFit`); that requests under way have ids of their own; that the
window is the last part of what was admitted (`WindowIsRecent`), from which an id that is not in it was not among the
last admitted; and that every reply still to be written, by a task or by the host, stands for an admitted request
without one (`RepliesAreOwed`), a comparison of cardinalities that each step changes by one on both sides or on neither.

*V8 sessions.* The slot count is the number of threads in places that hold a slot, and a guest that waits for a bridge
call has its answer somewhere ahead: the host still routes it, it is in the hands of the dispatcher, in the channel or
among the messages set aside. The second needs most of `V8Inv`: where the guest can be on the stack (`GuestIsPlaced`),
that frames taken out of the deferred queue exist only in the places that dispatch them (`FramesWait`), that outside an
execution every promise is of an earlier one (`OnlyStale`), that the call a thread blocks in is not one of its promises
and that call ids are given out once (`CallsDiffer`, `CallsAreNumbered`), that a session which is gone from the map is
joined before its entry is used again (`IsJoined`), and what the holder of the manager's lock is about (`HolderFits`).
One lemma says that a step of one session leaves every other as it was (`AsideFits`), so that each action is proved
for its own session only. An answer that a nested loop consumes is the delicate case: `Relayed` says that a dispatched
frame that answers a call leaves no promise waiting for it.

*Sockets.* `SocketInv` adds to the property what a record says by itself (`Sane`: only a connection has a peer, bytes and
sides that are shut, only a listener has a queue), that every queued connection belongs to the listener's owner and is
queued once (`QueuedFit`, `QueuedOnce`), and that who was told of the end had read everything and gets no more
(`EndsFit`). Each part looks at a few fields only, so a call is shown to leave alone the fields of most parts
(`PeersKept`, `NamesKept`, `QueuesKept`, `BytesKept`, `EndsKept`) and the parts it touches are proved for the sockets it
touches. Three calls need more: a connect makes two ends and a queue entry at once, a shutdown changes both ends, and a
removal takes the unaccepted connections of a listener with it and tells the peers (`Removes`). The refinement rests on
`EndsStay`: what was done stays done.

**Only model-checked:**

- all liveness (`AcpCallsEnd`, `ExecutionsEnd`, `LinkSettles`, `WaitersAreServed`, `SidecarSettles`, `ExitsAreCollected`,
  `ExitIsCleanedUp`, `EndsAreClosed`), because TLAPS does not reason about fairness here;
- `Pty`: the line discipline is a fold over the bytes of a write, and what a fold preserves needs induction over data;
- `FdTable`: the limit adds up the tables with a fold, and fork and cleanup run through sequences of descriptions;
- `OverlayFs` and its refinement of `FlatFiles`: a call is a chain of writes over a whole tree of records, and the case
  analysis is beyond the provers;
- `SidecarVms`: its queues are filtered and folded (`SelectSeq`, `FoldLeft`).

## What the models show about the code

Five runs have counterexamples and are listed as findings:

- `lock_reader`: turning an exclusive lock into a shared one makes room for readers and wakes none.
- `v8_order`: a stream event set aside by a synchronous bridge call in a microtask is overtaken by the next one.
- `late_callback`: a callback that is answered after its `invoke` gave up ends the sidecar's run loop.
- `overlay_rename`: copying up a lower directory marks it opaque, so it lists as empty while lookups still see its
  children, and a rename leaves them behind.
- `sidecar_dispose`: the exit of a detached child that outlived its parent is never taken, and every dispose of the VM
  fails from then on.

Others were found with the same modules and other constants or one more property:

- *Pipes.* What is left of a write after a hand-over to a blocked reader is buffered without a look at the capacity
  (`OneReaderOverrun` says by how much). With two readers, a reader that finds data leaves its id queued and later bytes
  are handed to nobody; a timed-out read of a pipe or a PTY drops an answer that came at the last moment.
- *PTYs.* A write that fails half-way returns before the notify: a reader it answered sleeps on until another wakeup, the
  signals it collected are dropped, and each retry of a newline puts another one on the line.
- *Processes.* A waiter can collect a process between its exit and its exit callback. A parent that exits between the two
  halves of `register` leaves a child with a dead parent. `setpgid` and `setsid` in a legal sequence make a group span two
  sessions. `terminate_all` abandons zombies.
- *Descriptors.* With a full table, `create_pipe_fds` and `create_pty_fds` fail on the first descriptor and leave the pair
  open. A parent without standard streams that exits between the limit check of `spawn_process` and the fork lets its
  child take the VM over the limit. `fd_flock` that looked its descriptor up before the process exited takes a lock nobody
  will release. When description ids of files have grown to 200 000, closing a file hangs up the PTY of the same id.
  A process that exits after `register_process` put it in the table and before its pid is in `driver_pids` is cleaned up
  first and inserted then: the driver owns the pid until somebody waits for it.
- *Overlay.* `remove_file` always leaves a whiteout, and `rename` does not clear the one of a destination that is not
  visible, so `rm b; mv a b` hides the moved file. After a lower entry was removed, `create_dir` and
  `create_file_exclusive` clear its whiteout first and then fail with EEXIST, which brings it back, and `append_file`
  continues its old content. A rename into a directory that only a lower layer has fails with ENOENT. `remove_file` of a
  directory only a lower layer has succeeds. A call that fails on a missing path may leave its missing ancestors behind.
  A rename onto a directory that is empty only when merged brings removed children back.
- *V8.* A destroy whose signal came between the publication of the isolate and the arming of the abort waits for a guest
  that computes on. So does one that looked for the isolate handle before it was
  published and signalled after the arming: it closes the channel, and nobody tells V8 to terminate.
- *Link.* After the client failed for another reason than overflow, an event that does not fit the buffer is dropped
  silently while `waitForEvent` still drains it, so an event can be skipped.
- *Cron.* Registering an id again leaves the old timer running although no map holds it (a test says that no timers
  leak), and the end of a one-shot's callback deletes the entry of a newer registration with its id.
  A callback under way when the manager is disposed of sets its timer again if its id is scheduled anew.
- *Sidecar.* Cleaning up a connection stops at the first VM that fails.

## What is not modelled

PROJECT.json gives the reason for every part. In short: parts that compute an answer from their input and keep no
state (permissions, devices, encoders, request translation), parts whose behaviour is that of V8, the host or a remote
store (bindings, mount plugins, networking), and generated code (the module loader). They are most of the repository's
roughly 156,000 lines; the models cover about one line in twenty, the ones where steps of several actors meet.

Within the modelled parts: flags and offsets of descriptors, `set_umask`, window sizes, `poll` on a PTY or a socket,
zero-length pipe reads and writes, and the limits other than `max_open_fds` and those of sockets; symbolic links, modes,
owners and times of the overlay; children of children, ACP terminals and the frames that closing an agent session
discards (`close_agent_session`, `terminate_acp_process`) in the sidecar; Python guests, which behave as JavaScript ones
do when killed; `InjectGlobals` and `WarmSnapshot` of V8 sessions; schedules, actions and listeners of cron jobs.
