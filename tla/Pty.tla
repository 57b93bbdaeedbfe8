--------------------------------- MODULE Pty ---------------------------------
(***************************************************************************)
(* One pseudo-terminal of crates/kernel/src/pty.rs: the line discipline,   *)
(* the two buffers, the readers that wait at either end, and hangup.       *)
(*                                                                         *)
(* What is written to the master is typed: the line discipline edits and   *)
(* echoes it and delivers it to the slave ("input").  What is written to   *)
(* the slave goes to the master ("output").  Data is handed to the first   *)
(* reader that waits, whatever length that reader asked for, and buffered  *)
(* if none does.  Every action is one critical section of the manager's    *)
(* mutex, together with the notify_all that ends it.                       *)
(***************************************************************************)
EXTENDS Integers, Sequences, FiniteSets, SequencesExt

CONSTANTS
    MasterReaders,         \* threads that read the master
    SlaveReaders,          \* threads that read the slave
    Inputs,                \* what is written to the master
    Outputs,               \* what is written to the slave
    Lengths,               \* how much readers ask for
    TermiosSet,            \* the settings of the line discipline in use
    Pgids,                 \* the foreground process groups; 0 is none
    MAX_PTY_BUFFER_BYTES,
    MAX_CANON,
    MaxWrites,             \* bound: writes to either end
    MaxWaits,              \* bound: reads that have to wait
    ABSENT, PENDING, HANGUP

VARIABLES
    termios,          \* PtyState.termios
    foreground_pgid,
    line_buffer,
    buffer,           \* input_buffer and output_buffer: sequences of chunks
    waiting,          \* waiting_input_reads and waiting_output_reads
    waiters,          \* PtyManagerState.waiters: PendingRead.result by id
    next_waiter_id,
    closed,           \* closed_master, closed_slave
    readers,          \* what each reader is doing
    signals,          \* what the last write called on_signal with
    writes,           \* how many writes there were
    typed,            \* history: bytes typed in canonical mode
    edited,           \* history: the lines that left canonical mode
    delivered,        \* history: bytes that entered each direction
    taken,            \* history: bytes that readers were given
    lost,             \* history: a read that timed out dropped its answer
    failure           \* history: a write failed half-way

history == <<writes, typed, edited, delivered, taken, lost, failure>>
vars == <<termios, foreground_pgid, line_buffer, buffer, waiting, waiters,
          next_waiter_id, closed, readers, signals, history>>

Ends == {"master", "slave"}
Dirs == {"input", "output"}
Ids  == 1 .. MaxWaits
PtyReaders == MasterReaders \cup SlaveReaders

Reads(end) == IF end = "master" THEN "output" ELSE "input"
Peer(end)  == IF end = "master" THEN "slave" ELSE "master"

\* INTR stands for the three signal characters, ERASE for verase and 0x08; the
\* flag onlcr of Termios stands for opost and onlcr together.
Control == {"NL", "CR", "EOF", "ERASE", "INTR"}
EchoOfErase == <<"BS", "SP", "BS">>
EchoOfNewline == <<"CR", "NL">>

Bytes == Control \cup {"BS", "SP"}
            \cup UNION {Range(data) : data \in Inputs \cup Outputs}

Termios == [icanon : BOOLEAN, echo : BOOLEAN, isig : BOOLEAN,
            icrnl : BOOLEAN, onlcr : BOOLEAN]

ReaderIdle == [stage |-> "idle", end |-> "master", length |-> 0, id |-> 0]

TypeOK ==
    /\ termios \in Termios /\ foreground_pgid \in Pgids
    /\ line_buffer \in Seq(Bytes)
    /\ buffer \in [Dirs -> Seq(Seq(Bytes))]
    /\ waiting \in [Dirs -> Seq(Ids)]
    /\ \A id \in Ids : waiters[id] \in {ABSENT, PENDING, HANGUP} \/ waiters[id] \in Seq(Bytes)
    /\ next_waiter_id \in 1 .. MaxWaits + 1
    /\ closed \subseteq Ends
    /\ readers \in [PtyReaders -> [stage : {"idle", "ready", "asleep", "timed_out"},
                                end : Ends, length : Nat, id : Ids \cup {0}]]

DefaultTermios ==
    [icanon |-> TRUE, echo |-> TRUE, isig |-> TRUE, icrnl |-> TRUE, onlcr |-> TRUE]

Init ==
    /\ termios = DefaultTermios /\ foreground_pgid = 0
    /\ line_buffer = <<>>
    /\ buffer = [dir \in Dirs |-> <<>>]
    /\ waiting = [dir \in Dirs |-> <<>>]
    /\ waiters = [id \in Ids |-> ABSENT] /\ next_waiter_id = 1
    /\ closed = {}
    /\ readers = [r \in PtyReaders |-> ReaderIdle]
    /\ signals = <<>> /\ writes = 0 /\ typed = <<>> /\ edited = <<>>
    /\ delivered = [dir \in Dirs |-> <<>>] /\ taken = [dir \in Dirs |-> <<>>]
    /\ lost = FALSE /\ failure = "none"

-----------------------------------------------------------------------------
(***************************************************************************)
(* The line discipline works on the part of the state it can change.       *)
(***************************************************************************)
State == [line |-> line_buffer, buffer |-> buffer, waiting |-> waiting,
          waiters |-> waiters, signals |-> <<>>, delivered |-> delivered,
          typed |-> typed, edited |-> edited, failed |-> FALSE]

BufferSize(chunks) == Len(FlattenSeq(chunks))

\* deliver_input and deliver_output: to the first reader that waits, else to
\* the buffer, else not at all.
Deliver(s, dir, data) ==
    LET queue == s.waiting[dir]
        popped == [s EXCEPT !.waiting[dir] = IF queue = <<>> THEN queue ELSE Tail(queue)]
        accepted == [popped EXCEPT !.delivered[dir] = @ \o data]
    IN  IF queue # <<>> /\ s.waiters[Head(queue)] # ABSENT
        THEN [accepted EXCEPT !.waiters[Head(queue)] = data]
        ELSE IF BufferSize(s.buffer[dir]) + Len(data) > MAX_PTY_BUFFER_BYTES
        THEN [popped EXCEPT !.failed = TRUE]
        ELSE [accepted EXCEPT !.buffer[dir] = Append(@, data)]

Echo(s, data) == IF termios.echo THEN Deliver(s, "output", data) ELSE s

\* The finished line goes to the slave; a failure leaves it where it is.
DeliverLine(s) ==
    LET d == Deliver(s, "input", s.line)
    IN  IF d.failed THEN d ELSE [d EXCEPT !.line = <<>>, !.edited = @ \o s.line]

\* translate_input
Translate(byte) == IF termios.icrnl /\ byte = "CR" THEN "NL" ELSE byte

\* A mutant of Signalled: the line under way is kept.
SignalledKeepsLine(s) ==
    [s EXCEPT !.typed = IF termios.icanon THEN Append(@, "KILL") ELSE @,
              !.signals = IF foreground_pgid > 0 THEN Append(@, foreground_pgid) ELSE @]

Signalled(s) ==
    [s EXCEPT !.line = IF termios.icanon THEN <<>> ELSE @,
              !.typed = IF termios.icanon THEN Append(@, "KILL") ELSE @,
              !.signals = IF foreground_pgid > 0 THEN Append(@, foreground_pgid) ELSE @]

Erased(s) ==
    IF s.line = <<>> THEN s ELSE Echo([s EXCEPT !.line = Front(@)], EchoOfErase)

LineIsFull(line) == Len(line) >= MAX_CANON

\* process_input for one byte in canonical mode.
Canonical(s, byte) ==
    CASE byte = "EOF" -> DeliverLine(s)
      [] byte = "ERASE" -> Erased(s)
      [] byte = "NL" ->
            LET e == Echo([s EXCEPT !.line = Append(@, "NL")], EchoOfNewline)
            IN  IF e.failed THEN e ELSE DeliverLine(e)
      [] OTHER ->
            IF LineIsFull(s.line) THEN s
            ELSE Echo([s EXCEPT !.line = Append(@, byte)], <<byte>>)

\* process_input for one byte; the first failure ends the write.
ProcessByte(s, raw) ==
    LET byte == Translate(raw)
        echoed == Echo(s, <<byte>>)
    IN  IF s.failed THEN s
        ELSE IF termios.isig /\ byte = "INTR" THEN Signalled(s)
        ELSE IF termios.icanon THEN Canonical([s EXCEPT !.typed = Append(@, byte)], byte)
        ELSE IF echoed.failed THEN echoed
        ELSE Deliver(echoed, "input", <<byte>>)

ProcessInput(data) ==
    IF ~termios.icanon /\ ~termios.echo /\ ~termios.isig
    THEN Deliver(State, "input", [i \in DOMAIN data |-> Translate(data[i])])
    ELSE FoldLeft(ProcessByte, State, data)

\* process_output: a newline without a carriage return before it gets one.
ProcessOutput(data) ==
    FlattenSeq([i \in DOMAIN data |->
        IF termios.onlcr /\ data[i] = "NL" /\ (i = 1 \/ data[i - 1] # "CR")
        THEN <<"CR", "NL">> ELSE <<data[i]>>])

-----------------------------------------------------------------------------
(***************************************************************************)
(* Writes.                                                                 *)
(***************************************************************************)
Woken(threads) ==
    [r \in PtyReaders |-> IF threads[r].stage = "asleep"
                       THEN [threads[r] EXCEPT !.stage = "ready"] ELSE threads[r]]

\* A failure is announced by the next notify_all, whoever makes it.
Announced == IF failure = "unannounced" THEN "announced" ELSE failure

\* write returns the error before it notifies anybody or raises a signal;
\* what it has done until then stays.
Finish(s) ==
    LET untouched == s = [State EXCEPT !.failed = TRUE, !.typed = s.typed]
    IN  /\ line_buffer' = s.line /\ buffer' = s.buffer
        /\ waiting' = s.waiting /\ waiters' = s.waiters
        /\ delivered' = s.delivered /\ edited' = s.edited
        /\ typed' = IF s.failed THEN typed ELSE s.typed
        /\ signals' = IF s.failed THEN <<>> ELSE s.signals
        /\ readers' = IF s.failed THEN readers ELSE Woken(readers)
        /\ failure' = IF ~s.failed THEN Announced
                      ELSE IF untouched THEN failure ELSE "unannounced"
        /\ writes' = writes + 1
        /\ UNCHANGED <<termios, foreground_pgid, next_waiter_id, closed, taken, lost>>

WriteMaster(data) ==
    /\ closed = {} /\ writes < MaxWrites
    /\ Finish(ProcessInput(data))

WriteSlave(data) ==
    /\ closed = {} /\ writes < MaxWrites
    /\ Finish(Deliver(State, "output", ProcessOutput(data)))

-----------------------------------------------------------------------------
(***************************************************************************)
(* Reads.                                                                  *)
(***************************************************************************)
Return(r) == readers' = [readers EXCEPT ![r] = ReaderIdle]

ReturnAndNotify(r) ==
    /\ readers' = [Woken(readers) EXCEPT ![r] = ReaderIdle]
    /\ failure' = Announced

Answered(call) == call.id # 0 /\ waiters[call.id] \notin {ABSENT, PENDING}

\* drain_buffer: up to length bytes, from as many chunks as that takes.
Drained(chunks, length) ==
    SubSeq(FlattenSeq(chunks), 1, length)

\* A mutant of Remaining: the rest of a chunk that is cut is dropped.
RemainingWithoutTail(chunks, length) ==
    SelectSeq(chunks, LAMBDA chunk : Len(chunk) > length /\ chunk # Head(chunks))

\* The chunks that are left; one that is cut keeps its tail.  An empty chunk
\* is consumed as long as something is still wanted.
Remaining(chunks, length) ==
    LET before(i) == Len(FlattenSeq(SubSeq(chunks, 1, i)))
        kept == {i \in DOMAIN chunks : before(i) > length \/ before(i - 1) >= length}
        first == IF kept = {} THEN Len(chunks) + 1 ELSE CHOOSE i \in kept : \A j \in kept : i <= j
        tail == SubSeq(chunks, first, Len(chunks))
        cut == length - before(first - 1)
    IN  IF tail = <<>> \/ cut <= 0 THEN tail
        ELSE <<SubSeq(Head(tail), cut + 1, Len(Head(tail)))>> \o Tail(tail)

Queue(r, call, dir) ==
    LET id == next_waiter_id
    IN  /\ id \in Ids
        /\ next_waiter_id' = id + 1
        /\ waiters' = [waiters EXCEPT ![id] = PENDING]
        /\ waiting' = [waiting EXCEPT ![dir] = Append(@, id)]
        /\ readers' = [Woken(readers) EXCEPT ![r] =
                           [call EXCEPT !.stage = "asleep", !.id = id]]
        /\ failure' = Announced
        /\ UNCHANGED <<buffer, taken>>

Removed(call) ==
    IF call.id = 0 THEN waiters ELSE [waiters EXCEPT ![call.id] = ABSENT]

\* One pass of the loop of read_with_timeout.
ReadPass(r, call) ==
    LET dir == Reads(call.end)
        size == BufferSize(buffer[dir])
    IN  /\ \/ \* the answer has come
              /\ Answered(call)
              /\ waiters' = [waiters EXCEPT ![call.id] = ABSENT]
              /\ taken' = IF waiters[call.id] = HANGUP THEN taken
                          ELSE [taken EXCEPT ![dir] = @ \o waiters[call.id]]
              /\ Return(r)
              /\ UNCHANGED <<buffer, waiting, next_waiter_id, failure>>
           \/ \* the PTY has gone, or this end of it
              /\ ~Answered(call) /\ call.end \in closed
              /\ waiters' = IF closed = Ends THEN waiters ELSE Removed(call)
              /\ Return(r)
              /\ UNCHANGED <<buffer, waiting, next_waiter_id, taken, failure>>
           \/ \* there is data
              /\ ~Answered(call) /\ call.end \notin closed /\ buffer[dir] # <<>>
              /\ buffer' = [buffer EXCEPT ![dir] = Remaining(@, call.length)]
              /\ taken' = [taken EXCEPT ![dir] =
                     @ \o Drained(buffer[dir], IF call.length < size THEN call.length ELSE size)]
              /\ ReturnAndNotify(r)
              /\ UNCHANGED <<waiting, waiters, next_waiter_id>>
           \/ \* the other end has hung up
              /\ ~Answered(call) /\ call.end \notin closed /\ buffer[dir] = <<>>
              /\ Peer(call.end) \in closed
              /\ waiters' = Removed(call)
              /\ Return(r)
              /\ UNCHANGED <<buffer, waiting, next_waiter_id, taken, failure>>
           \/ \* nothing yet
              /\ ~Answered(call) /\ closed = {} /\ buffer[dir] = <<>>
              /\ \/ call.id = 0 /\ Queue(r, call, dir)
                 \/ /\ call.id # 0
                    /\ readers' = [readers EXCEPT ![r] = [call EXCEPT !.stage = "asleep"]]
                    /\ UNCHANGED <<buffer, waiting, waiters, next_waiter_id, taken, failure>>
        /\ UNCHANGED <<termios, foreground_pgid, line_buffer, closed, signals,
                       writes, typed, edited, delivered, lost>>

Read(r, end, length) ==
    /\ readers[r] = ReaderIdle /\ end \notin closed
    /\ r \in IF end = "master" THEN MasterReaders ELSE SlaveReaders
    /\ ReadPass(r, [stage |-> "ready", end |-> end, length |-> length, id |-> 0])

\* A reader whose waiter is gone forgets it.
ReadResume(r) ==
    /\ readers[r].stage = "ready"
    /\ ReadPass(r, IF readers[r].id # 0 /\ waiters[readers[r].id] = ABSENT
                   THEN [readers[r] EXCEPT !.id = 0] ELSE readers[r])

\* wait_timeout gives up; the thread then waits for the mutex.  A read without
\* a timeout is one for which this never happens, and one whose deadline has
\* passed before it waits is one for which it happens at once.
WaitTimesOut(r) ==
    /\ readers[r].stage = "asleep"
    /\ readers' = [readers EXCEPT ![r].stage = "timed_out"]
    /\ UNCHANGED <<termios, foreground_pgid, line_buffer, buffer, waiting, waiters,
                   next_waiter_id, closed, signals, history>>

\* A mutant of ReadTimesOut: the id stays on the queue.
ReadTimesOutQueued(r) ==
    LET id == readers[r].id
    IN  /\ readers[r].stage = "timed_out"
        /\ waiters' = [waiters EXCEPT ![id] = ABSENT]
        /\ lost' = (lost \/ waiters[id] \notin {ABSENT, PENDING, HANGUP})
        /\ ReturnAndNotify(r)
        /\ UNCHANGED <<termios, foreground_pgid, line_buffer, buffer, waiting, next_waiter_id,
                       closed, signals, writes, typed, edited, delivered, taken>>

\* The reader takes itself off the queue and returns EAGAIN, without a look at
\* an answer that came in the meantime.
ReadTimesOut(r) ==
    LET id == readers[r].id
    IN  /\ readers[r].stage = "timed_out"
        /\ waiters' = [waiters EXCEPT ![id] = ABSENT]
        /\ waiting' = [dir \in Dirs |-> SelectSeq(waiting[dir], LAMBDA i : i # id)]
        /\ lost' = (lost \/ waiters[id] \notin {ABSENT, PENDING, HANGUP})
        /\ ReturnAndNotify(r)
        /\ UNCHANGED <<termios, foreground_pgid, line_buffer, buffer, next_waiter_id,
                       closed, signals, writes, typed, edited, delivered, taken>>

-----------------------------------------------------------------------------
\* A mutant of Close: nobody is notified.
CloseSilently(end) ==
    /\ end \notin closed
    /\ closed' = closed \cup {end}
    /\ waiters' = [id \in Ids |->
           IF waiters[id] # ABSENT /\ \E dir \in Dirs : id \in Range(waiting[dir])
           THEN HANGUP ELSE waiters[id]]
    /\ waiting' = [dir \in Dirs |-> <<>>]
    /\ UNCHANGED <<termios, foreground_pgid, line_buffer, buffer, next_waiter_id,
                   readers, signals, history>>

\* close: every reader that waits, at either end, is told of the hangup.
Close(end) ==
    /\ end \notin closed
    /\ closed' = closed \cup {end}
    /\ waiters' = [id \in Ids |->
           IF waiters[id] # ABSENT /\ \E dir \in Dirs : id \in Range(waiting[dir])
           THEN HANGUP ELSE waiters[id]]
    /\ waiting' = [dir \in Dirs |-> <<>>]
    /\ readers' = Woken(readers)
    /\ failure' = Announced
    /\ UNCHANGED <<termios, foreground_pgid, line_buffer, buffer, next_waiter_id,
                   signals, writes, typed, edited, delivered, taken, lost>>

\* set_termios and set_discipline.
SetTermios(t) ==
    /\ closed # Ends /\ t # termios
    /\ termios' = t
    /\ UNCHANGED <<foreground_pgid, line_buffer, buffer, waiting, waiters,
                   next_waiter_id, closed, readers, signals, history>>

SetForegroundPgid(pgid) ==
    /\ closed # Ends /\ pgid # foreground_pgid
    /\ foreground_pgid' = pgid
    /\ UNCHANGED <<termios, line_buffer, buffer, waiting, waiters, next_waiter_id,
                   closed, readers, signals, history>>

Next ==
    \/ \E data \in Inputs : WriteMaster(data)
    \/ \E data \in Outputs : WriteSlave(data)
    \/ \E r \in PtyReaders :
          \/ \E end \in Ends, length \in Lengths : Read(r, end, length)
          \/ ReadResume(r) \/ WaitTimesOut(r) \/ ReadTimesOut(r)
    \/ \E end \in Ends : Close(end)
    \/ \E t \in TermiosSet : SetTermios(t)
    \/ \E pgid \in Pgids : SetForegroundPgid(pgid)

Spec == Init /\ [][Next]_vars

-----------------------------------------------------------------------------
(***************************************************************************)
(* Properties.                                                             *)
(***************************************************************************)
\* Nobody sleeps in read_with_timeout who has an answer, or data or a hangup
\* to find, except after a write that failed half-way: it has answered some
\* readers by then, and returns without waking them.
NoLostWakeup ==
    \A r \in PtyReaders :
        /\ readers[r].stage = "asleep"
        /\ Answered(readers[r]) \/ buffer[Reads(readers[r].end)] # <<>> \/ closed # {}
        => failure = "unannounced"

\* The state has its type, nobody is queued while there is data, and everybody who is queued is
\* asleep or about to look again: what is written later never overtakes what
\* is buffered, and deliver never answers a reader that has left.
QueueIsSound ==
    /\ TypeOK
    /\ \A dir \in Dirs :
        /\ buffer[dir] # <<>> => waiting[dir] = <<>>
        /\ \A id \in Range(waiting[dir]) :
              /\ waiters[id] = PENDING
              /\ \E r \in PtyReaders : readers[r].id = id /\ Reads(readers[r].end) = dir

\* The answers that wait to be picked up, in the order in which they came.
Pending(dir) ==
    FlattenSeq([id \in Ids |->
        IF /\ waiters[id] \notin {ABSENT, PENDING, HANGUP}
           /\ \E r \in PtyReaders : readers[r].id = id /\ Reads(readers[r].end) = dir
        THEN waiters[id] ELSE <<>>])

\* What entered a direction with one reader comes out in the same order, no
\* byte lost or doubled, through hand-over, buffer and partial reads; only a
\* read that timed out can lose bytes.
InOrder ==
    /\ ~lost
    /\ Cardinality(MasterReaders) <= 1 /\ Cardinality(SlaveReaders) <= 1
    => \A dir \in Dirs :
          delivered[dir] = taken[dir] \o Pending(dir) \o FlattenSeq(buffer[dir])

EndsLine(byte) == byte \in {"NL", "EOF", "KILL"}
SameLine(t, i, j) == \A k \in i .. j : ~EndsLine(t[k])
Count(t, i, j, S) == Cardinality({k \in i .. j : t[k] \in S})

\* Byte i is erased if, up to some place in its line, there are more erase
\* characters after it than bytes for them to erase.
IsErased(t, i) ==
    \E j \in i + 1 .. Len(t) :
        /\ SameLine(t, i, j)
        /\ Count(t, i + 1, j, {"ERASE"}) > Count(t, i + 1, j, Bytes \ {"ERASE"})

IsKilled(t, i) ==
    \E j \in i + 1 .. Len(t) : SameLine(t, i, j - 1) /\ t[j] = "KILL"

\* What a user who typed t has entered.
Entered(t) ==
    LET stays(i) == \/ t[i] = "NL"
                    \/ t[i] \notin {"EOF", "ERASE", "KILL"} /\ ~IsErased(t, i) /\ ~IsKilled(t, i)
        kept == SelectSeq([i \in DOMAIN t |-> i], stays)
    IN  [n \in DOMAIN kept |-> t[kept[n]]]

\* Canonical input is what the editing characters leave of what was typed, in
\* lines and the line under way, as long as no line is too long and no write
\* failed half-way.  Changes of mode in between do not mix the two.  The line
\* under way never grows beyond MAX_CANON bytes; only a newline whose delivery
\* failed stays in it, and another one for each retry.
InputIsEdited ==
    /\ /\ failure = "none"
       /\ \A i, j \in DOMAIN typed :
             SameLine(typed, i, j) => Count(typed, i, j, Bytes \ {"ERASE"}) <= MAX_CANON
       => edited \o line_buffer = Entered(typed)
    /\ Cardinality({i \in DOMAIN line_buffer : line_buffer[i] # "NL"}) <= MAX_CANON
=============================================================================
