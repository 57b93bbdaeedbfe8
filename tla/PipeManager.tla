----------------------------- MODULE PipeManager -----------------------------
(***************************************************************************)
(* One pipe of the kernel's PipeManager (crates/kernel/src/pipe_manager.rs)*)
(* with the threads blocked on its condition variable and the poll() calls *)
(* that sleep on the PollNotifier (crates/kernel/src/poll.rs) it signals.  *)
(*                                                                         *)
(* Every method holds the manager's mutex except while it sleeps on the    *)
(* condition variable, so each pass through a read or write loop is one    *)
(* step.  Bytes are numbered in the order in which writes accept them.     *)
(***************************************************************************)
EXTENDS Naturals, Sequences

CONSTANTS Readers,               \* threads that call read / read_with_timeout
          Writers,               \* threads that call write / write_blocking
          Pollers,               \* threads in poll()
          MAX_PIPE_BUFFER_BYTES,
          PIPE_BUF_BYTES,
          Lengths,               \* the lengths a caller may pass
          Waits,                 \* how a read waits: "forever", "timeout" or either
          MaxBytes,              \* bound: bytes accepted in a behaviour
          MaxWaiters             \* bound: PendingReads registered in a behaviour

ASSUME PipeConstants ==
  /\ MAX_PIPE_BUFFER_BYTES \in Nat
  /\ PIPE_BUF_BYTES \in Nat
  /\ Lengths \subseteq Nat \ {0}
  /\ Waits \subseteq {"forever", "timeout"}
  /\ MaxBytes \in Nat
  /\ MaxWaiters \in Nat
  /\ Readers \cap Writers = {}

VARIABLES
  buffer,         \* PipeState.buffer, its chunks laid end to end
  closed_read,    \* the read description is closed
  closed_write,   \* the write description is closed
  waiting_reads,  \* PipeState.waiting_reads: queue of waiter ids
  waiters,        \* PipeManagerState.waiters: id -> PendingRead, or Absent
  next_waiter_id,
  pc,             \* per thread: outside, asleep, woken, or its timer fired
  req,            \* per thread: the arguments of the call in progress
  waiter_id,      \* per reader: the local variable waiter_id (0: None)
  poll,           \* per poller: the stage of its poll() loop
  changed,        \* the pollers for which the generation moved since their snapshot
  sent,           \* history: number of bytes accepted from writers
  delivered,      \* history: bytes returned to readers, in order of return
  eof             \* history: some read returned end of file

pipeVars == <<buffer, closed_read, closed_write, waiting_reads, waiters,
              next_waiter_id>>
history  == <<sent, delivered, eof>>
vars     == <<pipeVars, pc, req, waiter_id, poll, changed, history>>

Threads   == Readers \cup Writers
WaiterIds == 1..MaxWaiters
Bytes     == Nat \ {0}

None      == [kind |-> "none", bytes |-> <<>>]
Eof       == [kind |-> "eof",  bytes |-> <<>>]
Data(s)   == [kind |-> "data", bytes |-> s]
Results   == [kind : {"none", "eof", "data"}, bytes : Seq(Bytes)]
PendingReads == [length : Nat, result : Results]
Requests  == [length : Nat, wait : {"forever", "timeout"}]
Polls     == [stage : {"idle", "snapshot", "waiting"}, end : {"read", "write"}]
Stages    == {"idle", "blocked", "ready", "expired"}
Absent    == [length |-> 0, result |-> None]
NoRequest == [length |-> 0, wait |-> "forever"]
Outside   == [stage |-> "idle", end |-> "read"]

\* The pipe leaves the manager's map once both ends are closed.
PipeExists == ~(closed_read /\ closed_write)

Min2(a, b) == IF a < b THEN a ELSE b
Take(s, n) == SubSeq(s, 1, Min2(n, Len(s)))
Drop(s, n) == SubSeq(s, Min2(n, Len(s)) + 1, Len(s))
\* The queue q with the entry id taken out; an id is queued at most once.
Without(q, id) ==
  IF \E k \in DOMAIN q : q[k] = id
  THEN LET k == CHOOSE k \in DOMAIN q : q[k] = id
       IN SubSeq(q, 1, k - 1) \o SubSeq(q, k + 1, Len(q))
  ELSE q
Span(m, n) == [i \in 1..n |-> m + i]

Available == IF Len(buffer) < MAX_PIPE_BUFFER_BYTES
             THEN MAX_PIPE_BUFFER_BYTES - Len(buffer) ELSE 0

TypeOK ==
  /\ buffer \in Seq(Bytes)
  /\ closed_read \in BOOLEAN /\ closed_write \in BOOLEAN
  /\ waiting_reads \in Seq(WaiterIds)
  /\ waiters \in [WaiterIds -> PendingReads]
  /\ next_waiter_id \in 1..(MaxWaiters + 1)
  /\ pc \in [Threads -> Stages]
  /\ req \in [Threads -> Requests]
  /\ waiter_id \in [Readers -> 0..MaxWaiters]
  /\ poll \in [Pollers -> Polls]
  /\ changed \subseteq Pollers
  /\ sent \in Nat
  /\ delivered \in Seq(Bytes)
  /\ eof \in BOOLEAN

Init ==
  /\ buffer = <<>> /\ closed_read = FALSE /\ closed_write = FALSE
  /\ waiting_reads = <<>>
  /\ waiters = [i \in WaiterIds |-> Absent]
  /\ next_waiter_id = 1
  /\ pc = [t \in Threads |-> "idle"]
  /\ req = [t \in Threads |-> NoRequest]
  /\ waiter_id = [r \in Readers |-> 0]
  /\ poll = [p \in Pollers |-> Outside]
  /\ changed = {}
  /\ sent = 0 /\ delivered = <<>> /\ eof = FALSE

------------------------------------------------------------------------------
\* Mutant: the condition variable is notified but not the PollNotifier.
NotifyWaitersOnly(self, s) ==
  /\ pc' = [t \in Threads |-> IF t = self THEN s
                              ELSE IF pc[t] = "blocked" THEN "ready" ELSE pc[t]]
  /\ UNCHANGED changed

(* notify_waiters_and_pollers: wake every sleeper, bump the generation.    *)
(* self then goes to stage s.                                              *)
NotifyAll(self, s) ==
  /\ pc' = [t \in Threads |-> IF t = self THEN s
                              ELSE IF pc[t] = "blocked" THEN "ready" ELSE pc[t]]
  /\ changed' = Pollers

NoNotify(self, s) == pc' = [pc EXCEPT ![self] = s] /\ UNCHANGED changed

(* The thread leaves the call: its request is forgotten.                   *)
Leave(t) == req' = [req EXCEPT ![t] = NoRequest]

------------------------------------------------------------------------------
(* One pass of the loop of write_with_mode with a payload of n bytes.      *)

Live(id)      == waiters[id] # Absent
LiveWaiting   == {i \in DOMAIN waiting_reads : Live(waiting_reads[i])}
IsFirstLive(i) == i \in LiveWaiting /\ \A j \in LiveWaiting : i <= j

\* Mutant: the whole payload is buffered, the part handed over included.
HandOffAndBuffer(w, n) ==
  \E i \in DOMAIN waiting_reads :
    /\ IsFirstLive(i)
    /\ LET id   == waiting_reads[i]
           give == Min2(waiters[id].length, n)
       IN waiters' = [waiters EXCEPT ![id] =
                        [@ EXCEPT !.result = Data(Span(sent, give))]]
    /\ buffer' = buffer \o Span(sent, n)
    /\ waiting_reads' = Drop(waiting_reads, i)
    /\ sent' = sent + n
    /\ NotifyAll(w, "idle") /\ Leave(w)

\* Mutant: the part of the payload that was not handed over is dropped.
HandOffLosesRest(w, n) ==
  \E i \in DOMAIN waiting_reads :
    /\ IsFirstLive(i)
    /\ LET id   == waiting_reads[i]
           give == Min2(waiters[id].length, n)
       IN waiters' = [waiters EXCEPT ![id] =
                        [@ EXCEPT !.result = Data(Span(sent, give))]]
    /\ waiting_reads' = Drop(waiting_reads, i)
    /\ sent' = sent + n
    /\ NotifyAll(w, "idle") /\ Leave(w)
    /\ UNCHANGED buffer

\* The oldest blocked reader is handed up to the length it asked for; the rest
\* is pushed on the buffer whatever its size.
HandOff(w, n) ==
  \E i \in DOMAIN waiting_reads :
    /\ IsFirstLive(i)
    /\ LET id   == waiting_reads[i]
           give == Min2(waiters[id].length, n)
       IN /\ waiters' = [waiters EXCEPT ![id] =
                           [@ EXCEPT !.result = Data(Span(sent, give))]]
          /\ buffer' = buffer \o Span(sent + give, n - give)
    /\ waiting_reads' = Drop(waiting_reads, i)
    /\ sent' = sent + n
    /\ NotifyAll(w, "idle") /\ Leave(w)

\* Up to PIPE_BUF_BYTES are written whole or not at all; longer payloads in part.
HasRoom(n)  == IF n <= PIPE_BUF_BYTES THEN Available >= n ELSE Available > 0

\* Mutant: as soon as there is room for some of it, a long payload is taken whole.
AcceptedWhole(n) == n

Accepted(n) == IF n <= PIPE_BUF_BYTES THEN n ELSE Min2(Available, n)

WriteBuffer(w, n) ==
  /\ LiveWaiting = {} /\ HasRoom(n)
  /\ waiting_reads' = <<>>
  /\ buffer' = buffer \o Span(sent, Accepted(n))
  /\ sent' = sent + Accepted(n)
  /\ NotifyAll(w, "idle") /\ Leave(w)
  /\ UNCHANGED waiters

\* EAGAIN for a non-blocking writer, otherwise sleep on the condition variable.
WriteFull(w, n, nonblocking) ==
  /\ LiveWaiting = {} /\ ~HasRoom(n)
  /\ waiting_reads' = <<>>
  /\ IF nonblocking THEN NoNotify(w, "idle") /\ Leave(w)
     ELSE /\ NoNotify(w, "blocked")
          /\ req' = [req EXCEPT ![w] = [length |-> n, wait |-> "forever"]]
  /\ UNCHANGED <<buffer, waiters, sent>>

WritePass(w, n, nonblocking) ==
  /\ ~closed_write /\ ~closed_read
  /\ HandOff(w, n) \/ WriteBuffer(w, n) \/ WriteFull(w, n, nonblocking)
  /\ UNCHANGED <<closed_read, closed_write, next_waiter_id, waiter_id, poll,
                 delivered, eof>>

WriteStart(w) ==
  /\ pc[w] = "idle" /\ sent < MaxBytes
  /\ \E n \in Lengths, nonblocking \in BOOLEAN : WritePass(w, n, nonblocking)

\* A woken writer looks again; EPIPE or EBADF if an end was closed meanwhile.
WriteResume(w) ==
  /\ pc[w] = "ready"
  /\ \/ WritePass(w, req[w].length, FALSE)
     \/ /\ closed_write \/ closed_read
        /\ NoNotify(w, "idle") /\ Leave(w)
        /\ UNCHANGED <<pipeVars, waiter_id, poll, history>>

------------------------------------------------------------------------------
(* One pass of the loop of read_with_timeout.                              *)

ForgetWaiter(r) == waiter_id' = [waiter_id EXCEPT ![r] = 0]

\* The reader's own PendingRead was filled by a writer or by close.
TakeResult(r) ==
  /\ waiter_id[r] # 0 /\ waiters[waiter_id[r]].result # None
  /\ LET result == waiters[waiter_id[r]].result
     IN /\ delivered' = delivered \o result.bytes
        /\ eof' = (eof \/ result = Eof)
  /\ waiters' = [waiters EXCEPT ![waiter_id[r]] = Absent]
  /\ ForgetWaiter(r) /\ Leave(r) /\ NoNotify(r, "idle")
  /\ UNCHANGED <<buffer, waiting_reads, next_waiter_id, sent>>

NoResult(r) == waiter_id[r] # 0 => waiters[waiter_id[r]].result = None

\* Mutant: the writers that wait for room are not notified.
DrainBufferSilently(r, len) ==
  /\ NoResult(r) /\ PipeExists /\ buffer # <<>>
  /\ delivered' = delivered \o Take(buffer, len)
  /\ buffer' = Drop(buffer, len)
  /\ ForgetWaiter(r) /\ Leave(r) /\ NoNotify(r, "idle")
  /\ UNCHANGED <<waiting_reads, waiters, next_waiter_id, sent, eof>>

\* Bytes are waiting in the buffer.  A PendingRead the reader registered in an
\* earlier pass stays in waiters and in waiting_reads.
DrainBuffer(r, len) ==
  /\ NoResult(r) /\ PipeExists /\ buffer # <<>>
  /\ delivered' = delivered \o Take(buffer, len)
  /\ buffer' = Drop(buffer, len)
  /\ ForgetWaiter(r) /\ Leave(r) /\ NotifyAll(r, "idle")
  /\ UNCHANGED <<waiting_reads, waiters, next_waiter_id, sent, eof>>

RemoveWaiter(r) ==
  waiters' = [i \in WaiterIds |-> IF i = waiter_id[r] THEN Absent ELSE waiters[i]]

ReadEof(r) ==
  /\ NoResult(r) /\ PipeExists /\ buffer = <<>> /\ closed_write
  /\ eof' = TRUE
  /\ RemoveWaiter(r) /\ ForgetWaiter(r) /\ Leave(r) /\ NoNotify(r, "idle")
  /\ UNCHANGED <<buffer, waiting_reads, next_waiter_id, sent, delivered>>

\* "pipe not found": both ends were closed under a sleeping reader.
ReadBadFd(r) ==
  /\ NoResult(r) /\ ~PipeExists
  /\ ForgetWaiter(r) /\ Leave(r) /\ NoNotify(r, "idle")
  /\ UNCHANGED <<buffer, waiting_reads, waiters, next_waiter_id, history>>

\* Nothing to read: register a PendingRead (once per call) and sleep.
ReadWait(r, len, wait) ==
  /\ NoResult(r) /\ PipeExists /\ buffer = <<>> /\ ~closed_write
  /\ req' = [req EXCEPT ![r] = [length |-> len, wait |-> wait]]
  /\ IF waiter_id[r] # 0
     THEN /\ NoNotify(r, "blocked")
          /\ UNCHANGED <<waiters, waiting_reads, next_waiter_id, waiter_id>>
     ELSE /\ next_waiter_id \in WaiterIds
          /\ waiters' = [waiters EXCEPT ![next_waiter_id] =
                            [length |-> len, result |-> None]]
          /\ waiting_reads' = Append(waiting_reads, next_waiter_id)
          /\ waiter_id' = [waiter_id EXCEPT ![r] = next_waiter_id]
          /\ next_waiter_id' = next_waiter_id + 1
          /\ NotifyAll(r, "blocked")
  /\ UNCHANGED <<buffer, history>>

\* The deadline is past before the thread sleeps (again): EAGAIN at once, after
\* registering if this is the first pass.
ReadPastDeadline(r, wait) ==
  /\ NoResult(r) /\ PipeExists /\ buffer = <<>> /\ ~closed_write
  /\ wait = "timeout"
  /\ \/ waiter_id[r] # 0 /\ UNCHANGED next_waiter_id
     \/ /\ waiter_id[r] = 0 /\ next_waiter_id \in WaiterIds
        /\ next_waiter_id' = next_waiter_id + 1
  /\ RemoveWaiter(r)
  /\ waiting_reads' = Without(waiting_reads, waiter_id[r])
  /\ ForgetWaiter(r) /\ Leave(r) /\ NotifyAll(r, "idle")
  /\ UNCHANGED <<buffer, history>>

ReadPass(r, len, wait) ==
  /\ \/ TakeResult(r) \/ DrainBuffer(r, len) \/ ReadEof(r) \/ ReadBadFd(r)
     \/ ReadPastDeadline(r, wait) \/ ReadWait(r, len, wait)
  /\ UNCHANGED <<closed_read, closed_write, poll>>

ReadStart(r) ==
  /\ pc[r] = "idle" /\ ~closed_read
  /\ \E len \in Lengths, wait \in Waits : ReadPass(r, len, wait)

ReadResume(r) == pc[r] = "ready" /\ ReadPass(r, req[r].length, req[r].wait)

\* wait_timeout gives up.  The thread must still reacquire the mutex, and a
\* writer may hold it first.
TimerFires(r) ==
  /\ pc[r] = "blocked" /\ req[r].wait = "timeout"
  /\ pc' = [pc EXCEPT ![r] = "expired"]
  /\ UNCHANGED <<pipeVars, req, waiter_id, poll, changed, history>>

\* EAGAIN: the PendingRead is discarded together with any result in it.
ReadExpired(r) ==
  /\ pc[r] = "expired"
  /\ RemoveWaiter(r)
  /\ waiting_reads' = Without(waiting_reads, waiter_id[r])
  /\ ForgetWaiter(r) /\ Leave(r) /\ NotifyAll(r, "idle")
  /\ UNCHANGED <<buffer, closed_read, closed_write, next_waiter_id, poll, history>>

\* The condition variable may wake a sleeper for no reason.
SpuriousWakeup(t) ==
  /\ pc[t] = "blocked"
  /\ pc' = [pc EXCEPT ![t] = "ready"]
  /\ UNCHANGED <<pipeVars, req, waiter_id, poll, changed, history>>

------------------------------------------------------------------------------
(* close(description_id), for either end.                                  *)

CloseRead ==
  /\ ~closed_read
  /\ closed_read' = TRUE
  /\ buffer' = IF closed_write THEN <<>> ELSE buffer
  /\ waiting_reads' = IF closed_write THEN <<>> ELSE waiting_reads
  /\ pc' = [t \in Threads |-> IF pc[t] = "blocked" THEN "ready" ELSE pc[t]]
  /\ changed' = Pollers
  /\ UNCHANGED <<closed_write, waiters, next_waiter_id, req, waiter_id, poll,
                 history>>

\* Mutant: close answers the blocked readers but tells nobody.
CloseWriteSilently ==
  /\ ~closed_write
  /\ closed_write' = TRUE
  /\ waiting_reads' = <<>>
  /\ waiters' = [i \in WaiterIds |->
                   IF Live(i) /\ \E k \in DOMAIN waiting_reads : waiting_reads[k] = i
                   THEN [waiters[i] EXCEPT !.result = Eof] ELSE waiters[i]]
  /\ buffer' = IF closed_read THEN <<>> ELSE buffer
  /\ UNCHANGED <<closed_read, next_waiter_id, pc, changed, req, waiter_id, poll,
                 history>>

\* Every queued PendingRead is answered with end of file.
CloseWrite ==
  /\ ~closed_write
  /\ closed_write' = TRUE
  /\ waiting_reads' = <<>>
  /\ waiters' = [i \in WaiterIds |->
                   IF Live(i) /\ \E k \in DOMAIN waiting_reads : waiting_reads[k] = i
                   THEN [waiters[i] EXCEPT !.result = Eof] ELSE waiters[i]]
  /\ buffer' = IF closed_read THEN <<>> ELSE buffer
  /\ pc' = [t \in Threads |-> IF pc[t] = "blocked" THEN "ready" ELSE pc[t]]
  /\ changed' = Pollers
  /\ UNCHANGED <<closed_read, next_waiter_id, req, waiter_id, poll, history>>

------------------------------------------------------------------------------
(* poll_targets on one end of the pipe: snapshot the generation, look,     *)
(* sleep until the generation differs from the snapshot, start again.      *)

\* A closed end is no longer a pipe and is reported ready like a file.
EndReady(end) == \/ closed_read
                 \/ closed_write
                 \/ end = "read" /\ buffer # <<>>
                 \/ end = "write" /\ (Available > 0 \/ waiting_reads # <<>>)

PollSnapshot(p) ==
  /\ \/ /\ poll[p].stage = "idle"
        /\ \E end \in {"read", "write"} :
             poll' = [poll EXCEPT ![p] = [stage |-> "snapshot", end |-> end]]
     \/ /\ poll[p].stage = "waiting" /\ p \in changed
        /\ poll' = [poll EXCEPT ![p].stage = "snapshot"]
  /\ changed' = changed \ {p}
  /\ UNCHANGED <<pipeVars, pc, req, waiter_id, history>>

PollLook(p) ==
  /\ poll[p].stage = "snapshot"
  /\ poll' = IF EndReady(poll[p].end) THEN [poll EXCEPT ![p] = Outside]
             ELSE [poll EXCEPT ![p].stage = "waiting"]
  /\ UNCHANGED <<pipeVars, pc, req, waiter_id, changed, history>>

PollTimeout(p) ==
  /\ poll[p].stage = "waiting"
  /\ poll' = [poll EXCEPT ![p] = Outside]
  /\ UNCHANGED <<pipeVars, pc, req, waiter_id, changed, history>>

------------------------------------------------------------------------------
Next ==
  \/ \E w \in Writers : WriteStart(w) \/ WriteResume(w)
  \/ \E r \in Readers : \/ ReadStart(r) \/ ReadResume(r)
                        \/ TimerFires(r) \/ ReadExpired(r)
  \/ \E t \in Threads : SpuriousWakeup(t)
  \/ CloseRead \/ CloseWrite
  \/ \E p \in Pollers : PollSnapshot(p) \/ PollLook(p) \/ PollTimeout(p)

\* A thread that is runnable keeps running; nobody is obliged to call, to close
\* or to time out.
Fairness ==
  /\ \A w \in Writers : WF_vars(WriteResume(w))
  /\ \A r \in Readers : WF_vars(ReadResume(r)) /\ WF_vars(ReadExpired(r))
  /\ \A p \in Pollers : WF_vars(PollSnapshot(p) /\ poll[p].stage # "idle")
                        /\ WF_vars(PollLook(p))

Spec     == Init /\ [][Next]_vars
FairSpec == Spec /\ Fairness

\* Next, except that a read starts when no other is under way, and none times out.
OneReaderNext ==
  \/ \E w \in Writers : WriteStart(w) \/ WriteResume(w)
  \/ /\ \A r \in Readers : pc[r] = "idle"
     /\ \E r \in Readers : ReadStart(r)
  \/ \E r \in Readers : ReadResume(r)
  \/ \E t \in Threads : SpuriousWakeup(t)
  \/ CloseRead \/ CloseWrite
  \/ \E p \in Pollers : PollSnapshot(p) \/ PollLook(p) \/ PollTimeout(p)

OneReaderSpec == Init /\ [][OneReaderNext]_vars

------------------------------------------------------------------------------
(* No thread sleeps on the condition variable while what it waits for is   *)
(* already there: the notify_waiters_and_pollers calls of read_with_timeout,*)
(* write_with_mode and close leave no lost wakeup.                         *)
NoLostWakeup ==
  /\ \A r \in Readers : pc[r] = "blocked" =>
       /\ waiters[waiter_id[r]].result = None
       /\ buffer = <<>> /\ ~closed_write
  /\ \A w \in Writers : pc[w] = "blocked" =>
       /\ waiting_reads = <<>> /\ ~HasRoom(req[w].length)
       /\ ~closed_read /\ ~closed_write

(* A poll() that sleeps on an unchanged generation has nothing to report:  *)
(* taking the snapshot before looking closes the race with a notify.       *)
NoMissedPoll ==
  \A p \in Pollers : poll[p].stage = "waiting" /\ p \notin changed
                       => ~EndReady(poll[p].end)

(* A byte is in at most one place: the buffer, one PendingRead, or already *)
(* returned.  No interleaving of readers, writers and timeouts delivers a  *)
(* byte twice.                                                             *)
NoByteTwice ==
  LET inFlight(i) == waiters[i].result.bytes
      all == delivered \o buffer
  IN /\ \A i, j \in DOMAIN all : all[i] = all[j] => i = j
     /\ \A i \in WaiterIds : \A a \in DOMAIN inFlight(i) :
          /\ \A b \in DOMAIN all : all[b] # inFlight(i)[a]
          /\ \A j \in WaiterIds : \A b \in DOMAIN inFlight(j) :
               inFlight(i)[a] = inFlight(j)[b] => i = j /\ a = b

(* With one reader and no read timeouts the pipe is a FIFO byte channel    *)
(* that loses nothing and reports end of file only when it is drained.     *)
Channel == INSTANCE ByteChannel WITH
             received <- Len(delivered),
             closed   <- closed_write
ChannelSpec == Channel!Spec

(* The bytes a reader is given are the next ones in order.                 *)
InOrder == \A i \in DOMAIN delivered : delivered[i] = i

(* A blocked read that a writer has answered returns, and a poll() whose   *)
(* end became ready returns, however the threads are scheduled.            *)
ReadersAreServed ==
  /\ \A r \in Readers :
       (waiter_id[r] # 0 /\ waiters[waiter_id[r]].result # None) ~> pc[r] = "idle"
  /\ \A p \in Pollers :
       (poll[p].stage = "waiting" /\ (closed_read \/ closed_write))
         ~> poll[p].stage = "idle"

(* The buffer holds at most MAX_PIPE_BUFFER_BYTES, or less than one        *)
(* payload: what a write hands to a blocked reader is at least a byte, and *)
(* the rest is buffered whatever the limit (write_with_mode).              *)
OverrunIsOneWrite ==
  \/ Len(buffer) <= MAX_PIPE_BUFFER_BYTES
  \/ \E n \in Lengths : Len(buffer) < n

==============================================================================
