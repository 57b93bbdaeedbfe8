------------------------------ MODULE SidecarVms ------------------------------
(***************************************************************************)
(* The VMs of one client session and the processes in them: the run loop   *)
(* of crates/sidecar/src/stdio.rs, the dispatch and the event queues of    *)
(* service.rs, dispose in vm.rs and the process events of execution.rs.    *)
(*                                                                         *)
(* A process reports what it writes and its exit through a queue of its    *)
(* own (a V8 execution) or straight into the channel of the sidecar (a     *)
(* host tool).  pump_process_events moves the queues into the channel and  *)
(* what was in the channel into pending_process_events; poll_event takes   *)
(* one envelope after another and makes frames for the host of them.  All  *)
(* of that runs on one thread, the guests and the tools on others.         *)
(*                                                                         *)
(* Left out: the contents of frames, requests that touch no process, ACP   *)
(* terminals, children of children and children that are host tools.       *)
(***************************************************************************)
EXTENDS Integers, Sequences, FiniteSets, SequencesExt, TLC

CONSTANTS
    MaxVms,         \* bound: VMs that are created
    MaxRoots,       \* bound: processes that the host starts
    Runtimes,       \* what it starts: "js", "wasm", "tool"
    MaxOutputs,     \* bound: chunks that a process writes
    MaxSignals,     \* bound: kill requests
    MaxFaults,      \* bound: failures of the host's filesystem or bridge
    MaxReady        \* bound: tokens in event_ready that are told apart

Exited == 0
Outputs(s) == SelectSeq(s, LAMBDA e : e # Exited)
VmIds == 1 .. MaxVms
Roots == {<<n>> : n \in 1 .. MaxRoots}
Child(p) == Append(p, 1)
ProcessIds == Roots \cup {Child(p) : p \in Roots}

VARIABLES
    vms,                     \* NativeSidecar.vms
    vm_ids,                  \* SessionState.vm_ids
    next_vm_id,
    procs,                   \* the processes: where they are kept and what they do
    process_events,          \* the channel process_event_sender -> receiver
    pending_process_events,
    ready,                   \* tokens in event_ready
    duty,                    \* what the sidecar's thread is doing
    signals,                 \* bound: kill requests so far
    faults,                  \* bound: failures so far
    written,                 \* history: frames the run loop made for each process
    disposed,                \* history: frames that went out with a dispose
    undisposed               \* history: VMs for which a dispose failed

vmVars == <<vms, vm_ids, next_vm_id, procs, process_events, pending_process_events,
                 ready, duty, signals, faults, written, disposed, undisposed>>

\* place: none, child (in child_processes of its parent), active (in active_processes),
\* adopted (there and in detached_child_processes), gone.  guest: runs, doomed (terminate was
\* called), sending (a tool that has looked at cancelled), done, killed (with its parent).  spoke: what it had written
\* when the first signal came, or -1.
NewProcess(v, runtime, place, detached) ==
    [vm |-> v, runtime |-> runtime, place |-> place, detached |-> detached, guest |-> "runs",
     outs |-> 0, queue |-> <<>>, early |-> 0, spoke |-> -1]
NoProcess == [NewProcess(0, "js", "none", FALSE) EXCEPT !.guest = "done"]

Idle == [at |-> "idle"]

SidecarInit ==
    /\ vms = {} /\ vm_ids = {} /\ next_vm_id = 1
    /\ procs = [x \in ProcessIds |-> NoProcess]
    /\ process_events = <<>> /\ pending_process_events = <<>>
    /\ ready = 0 /\ duty = Idle /\ signals = 0 /\ faults = 0
    /\ written = [p \in Roots |-> <<>>] /\ disposed = [p \in Roots |-> <<>>]
    /\ undisposed = {}

IsActive(x) == procs[x].place \in {"active", "adopted"}
ActiveIn(v) == {x \in ProcessIds : procs[x].vm = v /\ IsActive(x)}

\* What polling the process gives: pending_execution_events, then the execution's queue.
Available(r) == [i \in 1 .. r.early |-> Exited] \o r.queue
Emptied(r) == [r EXCEPT !.queue = <<>>, !.early = 0]
Envelopes(x, s) == [i \in DOMAIN s |-> [id |-> x, event |-> s[i]]]

\* The events of several processes, in the order of the map's keys.  (Code that takes them in
\* turns mixes them more; only events of one process are ever compared.)
Order == SetToSortSeq(ProcessIds, LAMBDA x, y : x[1] < y[1] \/ (x[1] = y[1] /\ Len(x) < Len(y)))
Joined(parts) == FoldLeft(LAMBDA acc, x : acc \o Envelopes(x, parts[x]), <<>>, Order)

-----------------------------------------------------------------------------
(* Guests and tools, on threads of their own. *)

\* A guest writes a chunk; stdout and stderr are told apart by nothing here.
GuestWrites(x) ==
    /\ procs[x].guest \in {"runs", "doomed"} /\ procs[x].runtime # "tool"
    /\ procs[x].outs < MaxOutputs
    /\ procs' = [procs EXCEPT ![x].outs = @ + 1, ![x].queue = Append(@, procs[x].outs + 1)]
    /\ UNCHANGED <<vms, vm_ids, next_vm_id, process_events, pending_process_events, ready, duty,
                   signals, faults, written, disposed, undisposed>>

\* An execution ends, by itself, through a signal or because it is terminated.
GuestEnds(x) ==
    /\ procs[x].guest \in {"runs", "doomed"} /\ procs[x].runtime # "tool"
    /\ procs' = [procs EXCEPT ![x].guest = "done", ![x].queue = Append(@, Exited)]
    /\ UNCHANGED <<vms, vm_ids, next_vm_id, process_events, pending_process_events, ready, duty,
                   signals, faults, written, disposed, undisposed>>

\* The thread of a tool has its result: it looks at cancelled once, then sends what there is.
ToolReturns(x) ==
    /\ procs[x].runtime = "tool" /\ procs[x].guest = "runs"
    /\ procs' = [procs EXCEPT ![x].guest = IF procs[x].spoke # -1 THEN "done" ELSE "sending"]
    /\ UNCHANGED <<vms, vm_ids, next_vm_id, process_events, pending_process_events, ready, duty,
                   signals, faults, written, disposed, undisposed>>

ToolSends(x) ==
    /\ procs[x].runtime = "tool" /\ procs[x].guest = "sending"
    /\ \/ /\ procs[x].outs < MaxOutputs
          /\ procs' = [procs EXCEPT ![x].outs = @ + 1]
          /\ process_events' = process_events \o Envelopes(x, <<procs[x].outs + 1>>)
       \/ /\ procs' = [procs EXCEPT ![x].guest = "done"]
          /\ process_events' = process_events \o Envelopes(x, <<Exited>>)
    /\ UNCHANGED <<vms, vm_ids, next_vm_id, pending_process_events, ready, duty, signals, faults,
                   written, disposed, undisposed>>

\* The thread answers calls of guests from inside poll_event, in a dispose too.
Serving == duty.at \in {"idle", "drain", "SIGTERM", "SIGKILL"}

\* A guest starts a child, through a call that the sidecar's thread serves.
SpawnChild(p, detached) ==
    /\ procs[p].place = "active" /\ procs[p].guest = "runs" /\ procs[p].runtime = "js"
    /\ procs[Child(p)].place = "none" /\ Serving
    /\ procs' = [procs EXCEPT ![Child(p)] = NewProcess(procs[p].vm, "js", "child", detached)]
    /\ UNCHANGED <<vms, vm_ids, next_vm_id, process_events, pending_process_events, ready, duty,
                   signals, faults, written, disposed, undisposed>>

\* A guest polls its child: it is given a chunk or the exit, with which the child is reaped.
PollChild(p) ==
    LET c == procs[Child(p)]
    IN  /\ procs[p].place = "active" /\ procs[p].guest = "runs" /\ Serving
        /\ c.place = "child" /\ c.queue # <<>>
        /\ procs' = [procs EXCEPT ![Child(p)].queue = Tail(@),
                                  ![Child(p)].place = IF Head(c.queue) = Exited THEN "gone" ELSE @]
        /\ UNCHANGED <<vms, vm_ids, next_vm_id, process_events, pending_process_events, ready,
                       duty, signals, faults, written, disposed, undisposed>>

-----------------------------------------------------------------------------
(* pump_process_events *)

\* Detached children are read up to their exit, which takes them off the list.
UpToExit(s) ==
    IF \E i \in DOMAIN s : s[i] = Exited
    THEN SubSeq(s, 1, CHOOSE i \in DOMAIN s : s[i] = Exited /\ \A j \in 1 .. i - 1 : s[j] # Exited)
    ELSE s

PumpedProcess(r) ==
    IF r.place = "active" THEN Emptied(r)
    ELSE LET taken == UpToExit(Available(r))
             left == SubSeq(Available(r), Len(taken) + 1, Len(Available(r)))
         IN  [Emptied(r) EXCEPT !.queue = left,
                                !.place = IF taken # Outputs(taken) THEN "active" ELSE @]

\* The queues, the channel and pending_process_events after a pump in the scope of some VMs.
Pumped(scope) ==
    LET xs == UNION {ActiveIn(v) : v \in scope \cap vms}
        own == Joined([x \in ProcessIds |->
                 IF x \in xs /\ procs[x].place = "active" THEN Available(procs[x]) ELSE <<>>])
        adopted == Joined([x \in ProcessIds |->
                 IF x \in xs /\ procs[x].place = "adopted" THEN UpToExit(Available(procs[x])) ELSE <<>>])
    IN  [procs |-> [x \in ProcessIds |-> IF x \in xs THEN PumpedProcess(procs[x]) ELSE procs[x]],
         channel |-> own, pending |-> pending_process_events \o process_events \o adopted,
         emitted |-> process_events \o own \o adopted # <<>>]

-----------------------------------------------------------------------------
(* poll_event and handle_process_event_envelope *)

\* Envelopes of children are for their parents: poll_event passes over them.
IsPublic(e, scope) == Len(e.id) = 1 /\ procs[e.id].vm \in scope
FirstPublic(s, scope) ==
    IF \E i \in DOMAIN s : IsPublic(s[i], scope)
    THEN CHOOSE i \in DOMAIN s : IsPublic(s[i], scope) /\ \A j \in 1 .. i - 1 : ~IsPublic(s[j], scope)
    ELSE 0

\* Mutant: the children of a process go with it, detached or not.
adopt_detached_child_processes_None(c) ==
    IF c.place # "child" THEN c ELSE [Emptied(c) EXCEPT !.place = "gone", !.guest = "killed"]

\* With a process its children go; those that are detached become processes of the VM.
adopt_detached_child_processes(c) ==
    IF c.place # "child" THEN c
    ELSE IF c.detached THEN [c EXCEPT !.place = "adopted"]
    ELSE [Emptied(c) EXCEPT !.place = "gone", !.guest = "killed"]

Removed(ps, x) ==
    [ps EXCEPT ![x] = [Emptied(@) EXCEPT !.place = "gone"],
               ![Child(x)] = adopt_detached_child_processes(@)]

\* Mutant: only what waits in the execution is looked for.
Trailing_QueueOnly(ps, pending, x) ==
    IF ps[x].place \in {"active", "adopted"} /\ ps[x].vm \in vms
    THEN Outputs(Available(ps[x])) ELSE <<>>

\* What an exit finds in front of it: outputs of the process that wait in
\* pending_process_events, and those that drain_process_events_blocking takes.
Trailing(ps, pending, x) ==
    Outputs([i \in DOMAIN pending |-> IF pending[i].id = x THEN pending[i].event ELSE Exited])
        \o (IF ps[x].place \in {"active", "adopted"} /\ ps[x].vm \in vms
            THEN Outputs(Available(ps[x])) ELSE <<>>)

\* An envelope is handled: processes, pending_process_events and the frames made of it.
Handled(ps, pending, e) ==
    LET alive == ps[e.id].place \in {"active", "adopted"} /\ ps[e.id].vm \in vms
        trailing == Trailing(ps, pending, e.id)
        others == SelectSeq(pending, LAMBDA q : q.id # e.id \/ q.event = Exited)
        drained == IF alive THEN [ps EXCEPT ![e.id] = Emptied(@)] ELSE ps
    IN  IF e.event = Exited /\ trailing # <<>>
        THEN [procs |-> drained, pending |-> Envelopes(e.id, trailing) \o <<e>> \o others,
              frames |-> <<>>]
        ELSE [procs |-> IF e.event = Exited /\ alive THEN Removed(ps, e.id) ELSE ps,
              pending |-> pending, frames |-> IF alive THEN <<e>> ELSE <<>>]

\* Mutant: envelopes of the channel that are not for this poll are dropped.
Taken_Drops(ps, channel, pending, scope) ==
    LET i == FirstPublic(pending, scope)
        j == FirstPublic(channel, scope)
    IN  IF i # 0 THEN [channel |-> channel] @@ Handled(ps, RemoveAt(pending, i), pending[i])
        ELSE [channel |-> <<>>] @@ Handled(ps, pending, channel[j])

\* One envelope is taken from pending_process_events, or else from the channel, whose other
\* envelopes are put off.
Taken(ps, channel, pending, scope) ==
    LET i == FirstPublic(pending, scope)
        j == FirstPublic(channel, scope)
    IN  IF i # 0 THEN [channel |-> channel] @@ Handled(ps, RemoveAt(pending, i), pending[i])
        ELSE [channel |-> <<>>] @@ Handled(ps, pending \o RemoveAt(channel, j), channel[j])

HasPublic(scope) ==
    FirstPublic(pending_process_events, scope) # 0 \/ FirstPublic(process_events, scope) # 0

EventsOf(frames, p) ==
    LET own == SelectSeq(frames, LAMBDA f : f.id = p) IN [i \in DOMAIN own |-> own[i].event]
Appended(history, frames) == [p \in Roots |-> history[p] \o EventsOf(frames, p)]

-----------------------------------------------------------------------------
(* The run loop: requests of the host. *)

create_vm ==
    /\ duty = Idle /\ next_vm_id <= MaxVms
    /\ vms' = vms \cup {next_vm_id} /\ vm_ids' = vm_ids \cup {next_vm_id}
    /\ next_vm_id' = next_vm_id + 1
    /\ UNCHANGED <<procs, process_events, pending_process_events, ready, duty, signals, faults,
                   written, disposed, undisposed>>

\* The host numbers its processes and uses no number twice.
execute(v, p, runtime) ==
    /\ duty = Idle /\ v \in vms /\ procs[p].place = "none"
    /\ \A q \in Roots : q[1] < p[1] => procs[q].place # "none"
    /\ procs' = [procs EXCEPT ![p] = NewProcess(v, runtime, "active", FALSE)]
    /\ UNCHANGED <<vms, vm_ids, next_vm_id, process_events, pending_process_events, ready, duty,
                   signals, faults, written, disposed, undisposed>>

\* kill_process_internal for a process: a tool is cancelled and its exit sent on its behalf, a
\* WASM guest is terminated and its exit put in front, a JavaScript guest is told of SIGTERM,
\* which it may ignore, and terminated by SIGKILL.
Signalled(r, signal) ==
    [r EXCEPT !.spoke = IF @ = -1 THEN r.outs ELSE @,
              !.early = IF r.runtime = "wasm" THEN @ + 1 ELSE @,
              !.guest = IF @ = "runs" /\ (r.runtime = "wasm" \/ (r.runtime = "js" /\ signal = "SIGKILL"))
                        THEN "doomed" ELSE @]

kill_process_internal(xs, signal) ==
    /\ procs' = [x \in ProcessIds |-> IF x \in xs THEN Signalled(procs[x], signal) ELSE procs[x]]
    /\ process_events' = process_events
          \o Joined([x \in ProcessIds |->
                       IF x \in xs /\ procs[x].runtime = "tool" THEN <<Exited>> ELSE <<>>])

kill_process(p, signal) ==
    /\ duty = Idle /\ IsActive(p) /\ procs[p].vm \in vms /\ signals < MaxSignals
    /\ kill_process_internal({p}, signal) /\ signals' = signals + 1
    /\ UNCHANGED <<vms, vm_ids, next_vm_id, pending_process_events, ready, duty, faults, written,
                   disposed, undisposed>>

\* dispose_vm_internal up to the first wait: every process of the VM is sent SIGTERM.
BeginDispose(v, cleaning, todo) ==
    /\ kill_process_internal(ActiveIn(v), "SIGTERM")
    /\ duty' = [at |-> IF ActiveIn(v) = {} THEN "finish" ELSE "SIGTERM", vm |-> v,
                events |-> <<>>, cleaning |-> cleaning, todo |-> todo]
    /\ UNCHANGED <<vms, vm_ids, next_vm_id, pending_process_events, ready, signals, faults,
                   written, disposed, undisposed>>

dispose_vm(v) == duty = Idle /\ v \in vms /\ BeginDispose(v, FALSE, <<>>)

-----------------------------------------------------------------------------
(* The run loop: events. *)

\* Mutant: nobody is told that there are events.
Tick_Silent ==
    /\ duty = Idle
    /\ \E q \in {Pumped(vm_ids)} :
          /\ q.emitted
          /\ procs' = q.procs /\ process_events' = q.channel /\ pending_process_events' = q.pending
    /\ UNCHANGED <<vms, vm_ids, next_vm_id, ready, duty, signals, faults, written, disposed, undisposed>>

\* event_pump.tick()
Tick ==
    /\ duty = Idle
    /\ \E q \in {Pumped(vm_ids)} :
          /\ q.emitted
          /\ procs' = q.procs /\ process_events' = q.channel /\ pending_process_events' = q.pending
    /\ ready' = IF ready < MaxReady THEN ready + 1 ELSE ready
    /\ UNCHANGED <<vms, vm_ids, next_vm_id, duty, signals, faults, written, disposed, undisposed>>

\* event_ready_rx.recv()
Ready ==
    /\ duty = Idle /\ ready > 0
    /\ ready' = ready - 1 /\ duty' = [at |-> "drain"]
    /\ UNCHANGED <<vms, vm_ids, next_vm_id, procs, process_events, pending_process_events,
                   signals, faults, written, disposed, undisposed>>

\* poll_event(Duration::ZERO) over and over: an envelope at a time, its frame is written.
DrainNext ==
    /\ duty.at = "drain" /\ HasPublic(VmIds)
    /\ \E t \in {Taken(procs, process_events, pending_process_events, VmIds)} :
          /\ procs' = t.procs /\ process_events' = t.channel /\ pending_process_events' = t.pending
          /\ written' = Appended(written, t.frames)
    /\ UNCHANGED <<vms, vm_ids, next_vm_id, ready, duty, signals, faults, disposed, undisposed>>

DrainEnds ==
    /\ duty.at = "drain" /\ ~HasPublic(VmIds)
    /\ pending_process_events' = pending_process_events \o process_events
    /\ process_events' = <<>> /\ duty' = Idle
    /\ UNCHANGED <<vms, vm_ids, next_vm_id, procs, ready, signals, faults, written, disposed,
                   undisposed>>

-----------------------------------------------------------------------------
(* dispose_vm_internal after the first signals, one poll of poll_event at a time *)

Disposing == duty.at \in {"SIGTERM", "SIGKILL"}

\* What comes after a dispose that has succeeded, and after one that has failed: the next VM, in
\* a cleanup, or the next request.
AfterSuccess == IF duty.cleaning THEN [at |-> "clean", todo |-> duty.todo] ELSE Idle
AfterFailure == IF duty.cleaning THEN [at |-> "over"] ELSE Idle

NothingToTake(v) ==
    ~HasPublic({v}) /\ \A x \in ActiveIn(v) : Available(procs[x]) = <<>>

\* A poll with time left pumps before it looks at the channel, and looks at the channel before
\* it looks at pending_process_events again.
DisposePolled(v) ==
    IF FirstPublic(pending_process_events, {v}) # 0
    THEN Taken(procs, process_events, pending_process_events, {v})
    ELSE LET q == Pumped({v})
             j == FirstPublic(q.channel, {v})
         IN  IF j = 0 THEN [procs |-> q.procs, channel |-> <<>>, pending |-> q.pending, frames |-> <<>>]
             ELSE [channel |-> <<>>]
                    @@ Handled(q.procs, q.pending \o RemoveAt(q.channel, j), q.channel[j])

AllGone(ps, v) == \A x \in ProcessIds : ps[x].vm = v => ps[x].place \notin {"active", "adopted"}

DisposePoll ==
    /\ Disposing /\ ~NothingToTake(duty.vm)
    /\ \E t \in {DisposePolled(duty.vm)} :
          /\ procs' = t.procs /\ process_events' = t.channel /\ pending_process_events' = t.pending
          /\ duty' = [duty EXCEPT !.events = @ \o t.frames,
                                  !.at = IF AllGone(t.procs, duty.vm) THEN "finish" ELSE @]
    /\ UNCHANGED <<vms, vm_ids, next_vm_id, ready, signals, faults, written, disposed, undisposed>>

\* The grace after SIGTERM is over: SIGKILL.  The grace after SIGKILL is over: the dispose fails
\* and what it had taken is dropped.  Both are long enough to take what is already there.
GraceOver ==
    /\ Disposing /\ NothingToTake(duty.vm)
    /\ \/ /\ duty.at = "SIGTERM"
          /\ kill_process_internal(ActiveIn(duty.vm), "SIGKILL")
          /\ duty' = [duty EXCEPT !.at = "SIGKILL"]
          /\ UNCHANGED undisposed
       \/ /\ duty.at = "SIGKILL"
          /\ undisposed' = undisposed \cup {duty.vm} /\ duty' = AfterFailure
          /\ UNCHANGED <<procs, process_events>>
    /\ UNCHANGED <<vms, vm_ids, next_vm_id, pending_process_events, ready, signals, faults,
                   written, disposed>>

FinishDispose ==
    /\ duty.at = "finish"
    /\ vms' = vms \ {duty.vm} /\ vm_ids' = vm_ids \ {duty.vm}
    /\ disposed' = IF duty.cleaning THEN disposed ELSE Appended(disposed, duty.events)
    /\ duty' = AfterSuccess
    /\ UNCHANGED <<next_vm_id, procs, process_events, pending_process_events, ready, signals,
                   faults, written, undisposed>>

\* A mount, the bridge or the host's filesystem fails, before or after the VM is taken from vms;
\* an I/O error is not answered but ends the run loop.
FinishFails ==
    /\ duty.at = "finish" /\ faults < MaxFaults
    /\ faults' = faults + 1 /\ undisposed' = undisposed \cup {duty.vm}
    /\ vms' \in {vms, vms \ {duty.vm}}
    /\ duty' \in {AfterFailure, [at |-> "failed"]}
    /\ UNCHANGED <<vm_ids, next_vm_id, procs, process_events, pending_process_events, ready,
                   signals, written, disposed>>

\* The files that a process left on the host cannot be copied into the VM: the process is gone,
\* its children with it, and nobody hears of its exit.
ExitFails ==
    LET draining == duty.at = "drain" /\ HasPublic(VmIds)
        t == IF draining THEN Taken(procs, process_events, pending_process_events, VmIds)
             ELSE DisposePolled(duty.vm)
    IN  /\ draining \/ (Disposing /\ ~NothingToTake(duty.vm))
        /\ faults < MaxFaults /\ faults' = faults + 1
        /\ \E p \in Roots :
             /\ IsActive(p) /\ t.procs[p].place = "gone"
             /\ procs' = [t.procs EXCEPT ![Child(p)] =
                             IF @.place # "adopted" THEN @
                             ELSE [Emptied(@) EXCEPT !.place = "gone", !.guest = "killed"]]
        /\ process_events' = t.channel /\ pending_process_events' = t.pending
        /\ IF draining THEN duty' = [at |-> "failed"] /\ UNCHANGED undisposed
           ELSE /\ duty' \in {AfterFailure, [at |-> "failed"]}
                /\ undisposed' = undisposed \cup {duty.vm}
        /\ UNCHANGED <<vms, vm_ids, next_vm_id, ready, signals, written, disposed>>

-----------------------------------------------------------------------------
(* The end of the sidecar. *)

\* stdin is at its end: cleanup_connections disposes of the VMs one after the other.
EndOfInput ==
    /\ duty = Idle
    /\ duty' = [at |-> "clean", todo |-> SetToSortSeq(vm_ids, LAMBDA v, w : v < w)]
    /\ UNCHANGED <<vms, vm_ids, next_vm_id, procs, process_events, pending_process_events, ready,
                   signals, faults, written, disposed, undisposed>>

\* The first VM that cannot be disposed of ends the cleanup.
CleanNext ==
    /\ duty.at = "clean"
    /\ IF duty.todo # <<>> /\ Head(duty.todo) \in vms
       THEN BeginDispose(Head(duty.todo), TRUE, Tail(duty.todo))
       ELSE /\ duty' = [at |-> "over"]
            /\ UNCHANGED <<vms, vm_ids, next_vm_id, procs, process_events, pending_process_events,
                           ready, signals, faults, written, disposed, undisposed>>

-----------------------------------------------------------------------------
\* What the sidecar's thread does by itself, requests apart.
RunLoopStep ==
    \/ Tick \/ Ready \/ DrainNext \/ DrainEnds
    \/ DisposePoll \/ GraceOver \/ FinishDispose \/ CleanNext

RunsBeside ==
    \/ \E x \in ProcessIds : GuestWrites(x) \/ GuestEnds(x) \/ ToolReturns(x) \/ ToolSends(x)
    \/ \E p \in Roots : PollChild(p) \/ \E detached \in BOOLEAN : SpawnChild(p, detached)

SidecarNext ==
    \/ RunsBeside
    \/ create_vm \/ EndOfInput
    \/ \E v \in VmIds : dispose_vm(v)
    \/ \E v \in VmIds, p \in Roots, runtime \in Runtimes : execute(v, p, runtime)
    \/ \E p \in Roots, signal \in {"SIGTERM", "SIGKILL"} : kill_process(p, signal)
    \/ RunLoopStep \/ FinishFails \/ ExitFails

\* The thread goes on while it has something to do; no guest has to do anything.
SidecarFairness == WF_vmVars(RunLoopStep)

SidecarSpec == SidecarInit /\ [][SidecarNext]_vmVars

-----------------------------------------------------------------------------
(* Properties *)

OnTheWay(x) ==
    Available(procs[x]) \o EventsOf(process_events, x) \o EventsOf(pending_process_events, x)
Reported(p) ==
    written[p] \o disposed[p] \o (IF "events" \in DOMAIN duty THEN EventsOf(duty.events, p) ELSE <<>>)
Ending == duty.at \in {"clean", "over", "failed"} \/ ("cleaning" \in DOMAIN duty /\ duty.cleaning)
Exits(s) == {i \in DOMAIN s : s[i] = Exited}

\* What the host may count on: all that a JavaScript guest writes, and what a WASM guest or a
\* tool wrote before its first signal; their exit is made up by kill_process_internal and does
\* not wait for the rest.
CountedOn(r) == IF r.spoke = -1 \/ r.runtime = "js" THEN r.outs ELSE r.spoke

\* What the run loop of stdio.rs sends about a process is what the process did: the chunks that
\* the host may count on in order and without a gap, then the exit, with which none of them is
\* missing - wherever they were when the exit overtook them: in the execution's queue, in the
\* channel or in pending_process_events.
FramesAreWhole ==
    \A p \in Roots : procs[p].vm \notin undisposed =>
        LET w == written[p]
            said == SelectSeq(w, LAMBDA e : e \in 1 .. CountedOn(procs[p]))
        IN  /\ \A i \in DOMAIN said : said[i] = i
            /\ \A i \in Exits(w) : i = Len(w) /\ Len(said) = CountedOn(procs[p])

\* No exit is lost or told twice: a process whose guest has ended is still listed only while its
\* exit is on the way, and one that is no longer listed has had its exit reported, once, by the
\* run loop or by the dispose that waited for it - unless that dispose failed or the sidecar ends.
ExitsAreReported ==
    \A p \in Roots :
        /\ IsActive(p) /\ procs[p].guest = "done" => Exits(OnTheWay(p)) # {}
        /\ Cardinality(Exits(Reported(p))) <= 1
        /\ procs[p].place = "gone" =>
              Exits(Reported(p)) # {} \/ procs[p].vm \in undisposed \/ Ending

\* The session's books: it lists every VM there is, and one that is not there only after a
\* dispose that failed half-way; a process is never listed in a VM that is gone; a detached child
\* is not ended with its parent; and one that was adopted leaves the list of those to be read
\* only with its exit queued.
VmsAreSound ==
    /\ vms \subseteq vm_ids /\ vm_ids \subseteq 1 .. next_vm_id - 1 /\ vm_ids \ vms \subseteq undisposed
    /\ \A x \in ProcessIds :
          /\ IsActive(x) => procs[x].vm \in vms
          /\ procs[x].detached /\ procs[x].guest = "killed" => faults > 0
          /\ procs[x].detached /\ procs[x].place = "active" => Exits(OnTheWay(x)) # {}

\* A process that has ended is taken off the VM's list in the end, by a tick and a token or by a
\* dispose, and every dispose comes to an end.
SidecarSettles ==
    /\ \A p \in Roots : (IsActive(p) /\ procs[p].guest = "done")
                           ~> (~IsActive(p) \/ duty.at \in {"over", "failed"})
    /\ Disposing ~> ~Disposing

\* A dispose without a failure around it gives up only on a guest that would not end
\* (terminate_vm_processes: "failed to terminate active guest executions").
DisposeGivesUpOnTheLiving ==
    [][undisposed' # undisposed /\ faults' = faults
         => \E x \in ActiveIn(duty.vm) : procs[x].guest # "done"]_vmVars
====
