------------------------------ MODULE V8Session ------------------------------
(***************************************************************************)
(* The V8 session manager (crates/v8-runtime/src/session.rs) with the      *)
(* dispatcher in front of it (embedded_runtime.rs), the bridge calls of a  *)
(* session (host_call.rs) and the execution timer (timeout.rs).            *)
(*                                                                         *)
(* Every session is a thread that first needs one of max_concurrency       *)
(* slots, then takes commands from a bounded channel.  An Execute command  *)
(* creates an isolate if there is none, arms an abort channel, runs an     *)
(* init script and the guest's script, then an event loop until nothing is *)
(* pending.  Guest code makes bridge calls: a synchronous one blocks the   *)
(* thread, which reads the same channel and puts what it does not want     *)
(* into a queue of deferred messages; an asynchronous one leaves a pending *)
(* promise.  The host holds the lock of the manager during a dispatch, so  *)
(* `dispatching' is both that lock and what its holder is about to do.     *)
(*                                                                         *)
(* What guest code computes is left open.  Of V8 the model keeps that      *)
(* terminate_execution() is remembered by the isolate until JavaScript     *)
(* runs in it, and that running JavaScript then ends.                      *)
(***************************************************************************)
EXTENDS Naturals, Sequences, FiniteSets

CONSTANTS
    V8Sessions,        \* session ids
    V8Limited,         \* those created with a cpu_time_limit_ms
    MaxConcurrency,    \* max_concurrency
    SessionChannel,    \* capacity of a session's channel (256 in the code)
    DirectDestroy,     \* destroy_session without the terminate of V8SessionHandle
    MaxDispatches,     \* bound: calls of dispatch
    MaxBridgeCalls     \* bound: bridge calls of all sessions

ASSUME V8Assumption ==
    /\ IsFiniteSet(V8Sessions) /\ V8Limited \subseteq V8Sessions
    /\ MaxConcurrency \in Nat \ {0} /\ SessionChannel \in Nat \ {0}
    /\ DirectDestroy \in BOOLEAN
    /\ MaxDispatches \in Nat /\ MaxBridgeCalls \in Nat

VARIABLES
    dispatching,       \* holder of the manager's lock, or NoHolder
    dispatches,        \* calls of dispatch so far; numbers the stream events
    doomed,            \* sessions that V8SessionHandle::destroy has terminated
    connected,         \* sessions in the manager's map, whose tx is alive
    rx,                \* session -> channel contents
    thread,            \* session -> where its thread is
    js,                \* session -> is guest code on the stack: "off", "on", "sync"
    setAside,          \* session -> deferred_commands, taken while queued for a slot
    deferred,          \* session -> the deferred queue of the execution
    frames,            \* session -> frames drained from it, still to be dispatched
    slots,             \* the count of slot_control
    isolate,           \* sessions whose isolate handle is published
    terminating,       \* sessions whose isolate remembers a termination
    abort,             \* session -> execution_abort: "none", "armed" or the reason
    timer,             \* session -> the TimeoutGuard: "off", "on" or "fired"
    handles,           \* sessions whose guest has timers, handles or a pending evaluation
    inEvent,           \* sessions whose guest code runs in a stream event's handler
    lastLoop,          \* sessions whose event loop is the execution's last
    cutOff,            \* sessions whose guest a termination ended in this execution (history)
    awaiting,          \* session -> call id of its synchronous call, 0 if none
    promises,          \* session -> call ids with a pending promise
    stale,             \* session -> those that an earlier execution left behind
    router,            \* call id -> session, for unanswered calls
    asker,             \* call id -> session that made the call (history)
    lastStream         \* session -> last stream event given to the guest (history)

v8Vars == <<dispatching, dispatches, doomed, connected, rx, thread, js, setAside, deferred,
            frames, slots, isolate, terminating, abort, timer, handles, inEvent, lastLoop, cutOff,
            awaiting, promises, stale, router, asker, lastStream>>

hostVars == <<dispatching, dispatches, doomed, connected>>
callVars == <<awaiting, promises, stale, router, asker>>
queueVars == <<rx, setAside, deferred, frames>>
abortVars == <<isolate, terminating, abort, timer>>
guestVars == <<handles, inEvent, lastLoop, cutOff, lastStream>>

NoHolder == [step |-> "unlocked"]
CallIds == 1 .. MaxBridgeCalls

Msg(kind, n) == [kind |-> kind, n |-> n]
Shutdown == Msg("Shutdown", 0)
Execute == Msg("Execute", 0)
TerminateExecution == Msg("TerminateExecution", 0)
V8Messages == {Shutdown, Execute, TerminateExecution}
                \cup {Msg("StreamEvent", n) : n \in 1 .. MaxDispatches}
                \cup {Msg("BridgeResponse", i) : i \in CallIds}

\* The thread has a slot from "idle" on.
EventLoop == {"top", "drain", "flush", "flushed", "recv", "poll", "polled", "redrain"}
Executing == {"setup", "prepared", "init", "script", "between", "handles", "done"}
                 \cup EventLoop
HasSlot == {"idle"} \cup Executing

V8Init ==
    /\ dispatching = NoHolder /\ dispatches = 0
    /\ doomed = {} /\ connected = {}
    /\ rx = [s \in V8Sessions |-> <<>>]
    /\ thread = [s \in V8Sessions |-> "none"]
    /\ js = [s \in V8Sessions |-> "off"]
    /\ setAside = [s \in V8Sessions |-> <<>>]
    /\ deferred = [s \in V8Sessions |-> <<>>]
    /\ frames = [s \in V8Sessions |-> <<>>]
    /\ slots = 0
    /\ isolate = {} /\ terminating = {}
    /\ abort = [s \in V8Sessions |-> "none"]
    /\ timer = [s \in V8Sessions |-> "off"]
    /\ handles = {} /\ inEvent = {} /\ lastLoop = {} /\ cutOff = {}
    /\ awaiting = [s \in V8Sessions |-> 0]
    /\ promises = [s \in V8Sessions |-> {}]
    /\ stale = [s \in V8Sessions |-> {}]
    /\ router = <<>> /\ asker = <<>>
    /\ lastStream = [s \in V8Sessions |-> 0]

-----------------------------------------------------------------------------
(* The host: dispatch_runtime_command and the SessionManager.              *)

\* dispatch() takes the manager's lock.
Dispatch ==
    /\ dispatching = NoHolder
    /\ dispatches < MaxDispatches
    /\ dispatches' = dispatches + 1

create_session(s) ==
    /\ Dispatch
    /\ s \notin connected
    /\ connected' = connected \cup {s}
    /\ thread' = [thread EXCEPT ![s] = "starting"]
    /\ rx' = [rx EXCEPT ![s] = <<>>]
    /\ UNCHANGED <<dispatching, doomed, js, setAside, deferred, frames, slots, abortVars,
                   guestVars, callVars>>

\* tx.send: waits for room in the channel, with the lock held.
SendOrBlock(s, m) ==
    IF Len(rx[s]) < SessionChannel
    THEN rx' = [rx EXCEPT ![s] = Append(@, m)] /\ dispatching' = NoHolder
    ELSE rx' = rx /\ dispatching' = [step |-> "send", s |-> s, m |-> m]

\* send_to_session with Execute or a stream event.
send_to_session(s, m) ==
    /\ Dispatch
    /\ s \in connected
    /\ m = Execute => s \notin doomed
    /\ SendOrBlock(s, m)
    /\ UNCHANGED <<doomed, connected, thread, js, setAside, deferred, frames, slots, abortVars,
                   guestVars, callVars>>

\* An answer goes to the session that the router names for the call.
SendBridgeResponse(i) ==
    /\ Dispatch
    /\ i \in DOMAIN router
    /\ router' = [k \in DOMAIN router \ {i} |-> router[k]]
    /\ IF router[i] \in connected
       THEN SendOrBlock(router[i], Msg("BridgeResponse", i))
       ELSE UNCHANGED <<rx, dispatching>>
    /\ UNCHANGED <<doomed, connected, thread, js, setAside, deferred, frames, slots, abortVars,
                   guestVars, awaiting, promises, stale, asker>>

\* TerminateExecution and destroy_session both start with the isolate.
BeginTermination(s, step) ==
    /\ Dispatch
    /\ s \in connected
    /\ terminating' = IF s \in isolate THEN terminating \cup {s} ELSE terminating
    /\ dispatching' = [step |-> step, s |-> s]
    /\ UNCHANGED <<connected, queueVars, thread, js, slots, isolate, abort, timer, guestVars,
                   callVars>>

TerminateSession(s) ==
    /\ BeginTermination(s, "signal")
    /\ UNCHANGED doomed

\* V8SessionHandle::destroy calls terminate() first.
TerminateToDestroy(s) ==
    /\ ~DirectDestroy
    /\ BeginTermination(s, "signal")
    /\ doomed' = doomed \cup {s}

destroy_session(s) ==
    /\ DirectDestroy \/ s \in doomed
    /\ BeginTermination(s, "shut")
    /\ UNCHANGED doomed

\* signal_execution_abort: closes the channel of an armed execution; the
\* first reason counts.
signal_execution_abort(s, reason) ==
    abort' = IF abort[s] = "armed" THEN [abort EXCEPT ![s] = reason] ELSE abort

Queued(s) == setAside[s] \o rx[s]

\* V8 has been told to end the guest of the execution under way.
Told(s) == s \in terminating \cup cutOff

\* Nothing that the thread executes or still has to execute missed the signal: V8 was told of
\* the execution under way, whose isolate handle may have been published too late for that.
Heard(s) ==
    /\ thread[s] \in Executing => thread[s] \notin {"setup", "prepared"} /\ Told(s)
    /\ \A k \in DOMAIN Queued(s) : Queued(s)[k] # Execute

Signal ==
    /\ dispatching.step \in {"signal", "shut"}
    /\ LET s == dispatching.s IN
       /\ signal_execution_abort(s, "Terminated")
       /\ dispatching' = IF dispatching.step = "signal"
                         THEN [step |-> "send", s |-> s, m |-> TerminateExecution]
                         ELSE [step |-> "send", s |-> s, m |-> Shutdown, heard |-> Heard(s)]
    /\ UNCHANGED <<dispatches, doomed, connected, queueVars, thread, js, slots, isolate,
                   terminating, timer, guestVars, callVars>>

DropSender_Kept(s) == connected' = connected

DropSender(s) == connected' = connected \ {s}

\* The send gets room.  destroy_session then removes the entry and drops tx.
SendEnds ==
    /\ dispatching.step = "send"
    /\ LET s == dispatching.s IN
       /\ Len(rx[s]) < SessionChannel
       /\ rx' = [rx EXCEPT ![s] = Append(@, dispatching.m)]
       /\ IF dispatching.m = Shutdown
          THEN /\ dispatching' = [step |-> "join", s |-> s, heard |-> dispatching.heard]
               /\ DropSender(s)
               /\ doomed' = doomed \ {s}
          ELSE dispatching' = NoHolder /\ UNCHANGED <<connected, doomed>>
    /\ UNCHANGED <<dispatches, thread, js, setAside, deferred, frames, slots, abortVars,
                   guestVars, callVars>>

\* join(): what the thread owned is gone with it.
Join ==
    /\ dispatching.step = "join"
    /\ LET s == dispatching.s IN
       /\ thread[s] = "ended"
       /\ thread' = [thread EXCEPT ![s] = "none"]
       /\ rx' = [rx EXCEPT ![s] = <<>>]
       /\ setAside' = [setAside EXCEPT ![s] = <<>>]
       /\ promises' = [promises EXCEPT ![s] = {}]
       /\ stale' = [stale EXCEPT ![s] = {}]
    /\ dispatching' = NoHolder
    /\ UNCHANGED <<dispatches, doomed, connected, js, deferred, frames, slots, abortVars,
                   guestVars, awaiting, router, asker>>

-----------------------------------------------------------------------------
(* The session thread outside an execution.                                *)

\* The slot loop: try_recv before the count is looked at again.
AcquireSlot(s, next) ==
    IF slots < MaxConcurrency
    THEN slots' = slots + 1 /\ thread' = [thread EXCEPT ![s] = "idle"]
    ELSE slots' = slots /\ thread' = [thread EXCEPT ![s] = next]

StartThread(s) ==
    /\ thread[s] = "starting"
    /\ AcquireSlot(s, "queued")
    /\ UNCHANGED <<hostVars, queueVars, js, abortVars, guestVars, callVars>>

WakeQueued(s) ==
    /\ thread[s] = "queued"
    /\ \/ /\ rx[s] = <<>> /\ s \in connected
          /\ slots < MaxConcurrency          \* else the step is a stutter
          /\ AcquireSlot(s, "queued")
          /\ UNCHANGED <<rx, setAside>>
       \/ /\ IF rx[s] = <<>> THEN s \notin connected ELSE Head(rx[s]) = Shutdown
          /\ thread' = [thread EXCEPT ![s] = "ended"]
          /\ UNCHANGED <<slots, rx, setAside>>
       \/ /\ rx[s] # <<>> /\ Head(rx[s]) # Shutdown
          /\ setAside' = [setAside EXCEPT ![s] = Append(@, Head(rx[s]))]
          /\ rx' = [rx EXCEPT ![s] = Tail(@)]
          /\ AcquireSlot(s, "queued")
    /\ UNCHANGED <<hostVars, js, deferred, frames, abortVars, guestVars, callVars>>

\* The end of session_thread: isolate and slot are given back.
ReleaseSlot == slots' = slots - 1

NextCommand(s) ==
    /\ thread[s] = "idle"
    /\ LET fromAside == setAside[s] # <<>>
           none == ~fromAside /\ rx[s] = <<>>
           cmd == IF fromAside THEN Head(setAside[s]) ELSE Head(rx[s])
       IN /\ none => s \notin connected
          /\ setAside' = IF fromAside THEN [setAside EXCEPT ![s] = Tail(@)] ELSE setAside
          /\ rx' = IF fromAside \/ none THEN rx ELSE [rx EXCEPT ![s] = Tail(@)]
          /\ IF none \/ cmd = Shutdown
             THEN /\ thread' = [thread EXCEPT ![s] = "ended"]
                  /\ isolate' = isolate \ {s} /\ terminating' = terminating \ {s}
                  /\ ReleaseSlot
             ELSE /\ thread' = [thread EXCEPT ![s] = IF cmd = Execute THEN "setup" ELSE "idle"]
                  /\ UNCHANGED <<isolate, terminating, slots>>
    /\ UNCHANGED <<hostVars, js, deferred, frames, abort, timer, guestVars, callVars>>

-----------------------------------------------------------------------------
(* Execute.                                                                *)

At(s, next) == thread' = [thread EXCEPT ![s] = next]

\* Other bridge code: the isolate of the last execution is dropped.
DropIsolate(s) ==
    /\ thread[s] = "setup" /\ s \in isolate
    /\ isolate' = isolate \ {s} /\ terminating' = terminating \ {s}
    /\ UNCHANGED <<hostVars, queueVars, thread, js, slots, abort, timer, guestVars, callVars>>

PublishIsolate(s) ==
    /\ thread[s] = "setup"
    /\ isolate' = isolate \cup {s}
    /\ At(s, "prepared")
    /\ UNCHANGED <<hostVars, queueVars, js, slots, terminating, abort, timer, guestVars,
                   callVars>>

Arm(s) ==
    /\ thread[s] = "prepared"
    /\ abort' = [abort EXCEPT ![s] = "armed"]
    /\ At(s, "init")
    /\ UNCHANGED <<hostVars, queueVars, js, slots, isolate, terminating, timer, guestVars,
                   callVars>>

\* The init script fails, or runs into a termination: the result is sent at once.
InitScriptFails(s) ==
    /\ thread[s] = "init"
    /\ terminating' = terminating \ {s}
    /\ abort' = [abort EXCEPT ![s] = "none"]
    /\ At(s, "idle")
    /\ UNCHANGED <<hostVars, queueVars, js, slots, isolate, timer, guestVars, callVars>>

InitScriptRuns(s) ==
    /\ thread[s] = "init" /\ s \notin terminating
    /\ timer' = [timer EXCEPT ![s] = IF s \in V8Limited THEN "on" ELSE "off"]
    /\ At(s, "script")
    /\ js' = [js EXCEPT ![s] = "on"]
    /\ UNCHANGED <<hostVars, queueVars, slots, isolate, terminating, abort, guestVars, callVars>>

\* The timer thread: fired, terminate_execution, abort.
TimerFires(s) ==
    /\ timer[s] = "on"
    /\ timer' = [timer EXCEPT ![s] = "fired"]
    /\ terminating' = terminating \cup {s}
    /\ signal_execution_abort(s, "TimedOut")
    /\ UNCHANGED <<hostVars, queueVars, thread, js, slots, isolate, guestVars, callVars>>

\* The result is sent; the guard is cancelled, the abort disarmed, and what is
\* left in the deferred queue is dropped with it.
Report(s) ==
    /\ thread[s] = "done"
    /\ timer' = [timer EXCEPT ![s] = "off"]
    /\ abort' = [abort EXCEPT ![s] = "none"]
    /\ deferred' = [deferred EXCEPT ![s] = <<>>]
    /\ frames' = [frames EXCEPT ![s] = <<>>]
    /\ handles' = handles \ {s}
    /\ lastLoop' = lastLoop \ {s}
    /\ cutOff' = cutOff \ {s}
    /\ stale' = [stale EXCEPT ![s] = promises[s]]
    /\ At(s, "idle")
    /\ UNCHANGED <<hostVars, rx, setAside, js, slots, isolate, terminating, inEvent, lastStream,
                   awaiting, promises, router, asker>>

-----------------------------------------------------------------------------
(* Guest code.                                                             *)

\* next_call_id: the counter is shared by the sessions that share the router.
NewCallId == Cardinality(DOMAIN asker) + 1

RegisterCall(s, i) ==
    /\ router' = [k \in DOMAIN router \cup {i} |-> IF k = i THEN s ELSE router[k]]
    /\ asker' = [k \in DOMAIN asker \cup {i} |-> IF k = i THEN s ELSE asker[k]]

CanCall(s) == js[s] = "on" /\ Cardinality(DOMAIN asker) < MaxBridgeCalls

sync_call(s) ==
    /\ CanCall(s)
    /\ RegisterCall(s, NewCallId)
    /\ awaiting' = [awaiting EXCEPT ![s] = NewCallId]
    /\ js' = [js EXCEPT ![s] = "sync"]
    /\ UNCHANGED <<hostVars, queueVars, thread, slots, abortVars, guestVars, promises, stale>>

async_send(s) ==
    /\ CanCall(s)
    /\ RegisterCall(s, NewCallId)
    /\ promises' = [promises EXCEPT ![s] = @ \cup {NewCallId}]
    /\ UNCHANGED <<hostVars, queueVars, thread, js, slots, abortVars, guestVars, awaiting,
                   stale>>

\* Where the thread goes when guest code returns.
AfterGuest(s) ==
    CASE thread[s] = "script" -> "top"
      [] thread[s] = "drain" -> "drain"
      [] thread[s] = "flush" -> "flushed"
      [] thread[s] = "recv" -> "top"
      [] thread[s] = "poll" -> "polled"
      [] thread[s] = "redrain" -> "redrain"
      [] thread[s] = "handles" -> "top"

GuestReturns(s) ==
    /\ js[s] = "on" /\ s \notin terminating
    /\ js' = [js EXCEPT ![s] = "off"]
    /\ At(s, AfterGuest(s))
    /\ handles' \in {handles \cup {s}, handles \ {s}}
    /\ inEvent' = inEvent \ {s}
    /\ UNCHANGED <<hostVars, queueVars, slots, abortVars, callVars, lastLoop, cutOff, lastStream>>

\* An exception nobody catches, or the termination.  From a script the thread still
\* goes to its promises, but does not wait for handles after that; from the handler
\* of a stream event the loop fails.
GuestThrows(s) ==
    /\ js[s] = "on"
    /\ js' = [js EXCEPT ![s] = "off"]
    /\ terminating' = terminating \ {s}
    /\ cutOff' = IF s \in terminating THEN cutOff \cup {s} ELSE cutOff
    /\ handles' = handles \ {s}
    /\ inEvent' = inEvent \ {s}
    /\ lastLoop' = IF thread[s] = "script" THEN lastLoop \cup {s} ELSE lastLoop
    /\ At(s, IF s \in inEvent THEN "done" ELSE AfterGuest(s))
    /\ UNCHANGED <<hostVars, queueVars, slots, isolate, abort, timer, callVars, lastStream>>

Closed(s) == abort[s] \in {"Terminated", "TimedOut"}

\* recv_response returns to the guest with the answer or with an error.
SyncReturns(s) ==
    /\ js' = [js EXCEPT ![s] = "on"]
    /\ awaiting' = [awaiting EXCEPT ![s] = 0]

Defer_Dropped(s, m) == UNCHANGED deferred

\* What a synchronous call does not want is left for the event loop.
Defer(s, m) == deferred' = [deferred EXCEPT ![s] = Append(@, m)]

SyncReceives(s) ==
    /\ js[s] = "sync" /\ rx[s] # <<>>
    /\ rx' = [rx EXCEPT ![s] = Tail(@)]
    /\ IF Head(rx[s]) \in {Msg("BridgeResponse", awaiting[s]), Shutdown}
       THEN SyncReturns(s) /\ UNCHANGED deferred
       ELSE Defer(s, Head(rx[s])) /\ UNCHANGED <<js, awaiting>>
    /\ UNCHANGED <<hostVars, thread, setAside, frames, slots, abortVars, guestVars, promises,
                   stale, router, asker>>

\* The abort channel or the command channel is closed.
GivesUp(s) == Closed(s) \/ (rx[s] = <<>> /\ s \notin connected)

SyncFails(s) ==
    /\ js[s] = "sync" /\ GivesUp(s)
    /\ SyncReturns(s)
    /\ UNCHANGED <<hostVars, queueVars, thread, slots, abortVars, guestVars, promises, stale,
                   router, asker>>

-----------------------------------------------------------------------------
(* run_event_loop.                                                         *)

LoopAt(s, places) == thread[s] \in places /\ js[s] = "off"

Awaits(s) == promises[s] # {} \/ s \in handles
Pending(s) == Awaits(s) \/ deferred[s] # <<>>

\* The loop completes.
LoopEnds(s) == At(s, IF s \in lastLoop THEN "done" ELSE "between")

\* The loop's condition, and the queue drained; it is also drained after a poll.
LoopTop(s) ==
    /\ LoopAt(s, {"top", "polled"})
    /\ IF Pending(s)
       THEN /\ At(s, IF thread[s] = "top" THEN "drain" ELSE "redrain")
            /\ frames' = [frames EXCEPT ![s] = deferred[s]]
            /\ deferred' = [deferred EXCEPT ![s] = <<>>]
       ELSE LoopEnds(s) /\ UNCHANGED <<frames, deferred>>
    /\ UNCHANGED <<hostVars, rx, setAside, js, slots, abortVars, guestVars, callVars>>

\* dispatch_event_loop_frame: guest code runs for an answer it awaits or an event.
AfterFrame(s) == IF thread[s] = "recv" THEN "top" ELSE thread[s]

DispatchFrame(s, f) ==
    CASE f.kind = "BridgeResponse" /\ f.n \in promises[s] ->
           /\ promises' = [promises EXCEPT ![s] = @ \ {f.n}]
           /\ stale' = [stale EXCEPT ![s] = @ \ {f.n}]
           /\ js' = [js EXCEPT ![s] = "on"]
           /\ UNCHANGED <<thread, terminating, inEvent, lastStream>>
      [] f.kind = "StreamEvent" ->
           /\ js' = [js EXCEPT ![s] = "on"]
           /\ inEvent' = inEvent \cup {s}
           /\ lastStream' = [lastStream EXCEPT ![s] = f.n]
           /\ UNCHANGED <<promises, stale, thread, terminating>>
      [] f.kind = "TerminateExecution" ->
           /\ terminating' = terminating \cup {s}
           /\ At(s, "done")
           /\ UNCHANGED <<promises, stale, js, inEvent, lastStream>>
      [] OTHER ->
           /\ At(s, AfterFrame(s))
           /\ UNCHANGED <<promises, stale, js, terminating, inEvent, lastStream>>

LoopDispatches(s) ==
    /\ LoopAt(s, {"drain", "redrain"}) /\ frames[s] # <<>>
    /\ frames' = [frames EXCEPT ![s] = Tail(@)]
    /\ DispatchFrame(s, Head(frames[s]))
    /\ UNCHANGED <<hostVars, rx, setAside, deferred, slots, isolate, abort, timer, handles,
                   lastLoop, cutOff, awaiting, router, asker>>

\* All drained: leave, or flush microtasks (which may run guest code) and look
\* again.  Only the second look minds the queue.
LoopDrained(s) ==
    /\ LoopAt(s, {"drain", "redrain", "flushed"}) /\ frames[s] = <<>>
    /\ IF ~Awaits(s) /\ (thread[s] = "drain" \/ deferred[s] = <<>>)
       THEN LoopEnds(s) /\ js' = js
       ELSE \/ At(s, "recv") /\ js' = js
            \/ /\ thread[s] = "drain"
               /\ At(s, "flush") /\ js' = [js EXCEPT ![s] = "on"]
    /\ UNCHANGED <<hostVars, queueVars, slots, abortVars, guestVars, callVars>>

\* After the first loop: the guest's _waitForActiveHandles and another loop, unless
\* the module's evaluation turns out to have failed.
SecondLoop(s) ==
    /\ LoopAt(s, {"between"})
    /\ \/ At(s, "done") /\ UNCHANGED <<js, lastLoop>>
       \/ /\ At(s, "handles")
          /\ js' = [js EXCEPT ![s] = "on"]
          /\ lastLoop' = lastLoop \cup {s}
    /\ UNCHANGED <<hostVars, queueVars, slots, abortVars, handles, inEvent, cutOff, lastStream,
                   callVars>>

\* select!: a command, ...
LoopReceives(s) ==
    /\ LoopAt(s, {"recv"}) /\ rx[s] # <<>>
    /\ rx' = [rx EXCEPT ![s] = Tail(@)]
    /\ IF Head(rx[s]) = Shutdown
       THEN At(s, "done") /\ UNCHANGED <<promises, stale, js, terminating, inEvent, lastStream>>
       ELSE DispatchFrame(s, Head(rx[s]))
    /\ UNCHANGED <<hostVars, setAside, deferred, frames, slots, isolate, abort, timer, handles,
                   lastLoop, cutOff, awaiting, router, asker>>

\* ... the closed abort channel, ...
LoopAborts(s) ==
    /\ LoopAt(s, {"recv"}) /\ Closed(s)
    /\ terminating' = terminating \cup {s}
    /\ At(s, "done")
    /\ UNCHANGED <<hostVars, queueVars, js, slots, isolate, abort, timer, guestVars, callVars>>

\* ... or nothing for a millisecond (at once, if tx is gone): timers run.
LoopPolls(s) ==
    /\ LoopAt(s, {"recv"}) /\ rx[s] = <<>>
    /\ Closed(s) => s \notin connected
    /\ At(s, "poll")
    /\ js' = [js EXCEPT ![s] = "on"]
    /\ UNCHANGED <<hostVars, queueVars, slots, abortVars, guestVars, callVars>>

-----------------------------------------------------------------------------

HostStep == Signal \/ SendEnds \/ Join

\* The steps of the thread that are not the guest's.
ThreadStep(s) ==
    \/ StartThread(s) \/ WakeQueued(s) \/ NextCommand(s)
    \/ PublishIsolate(s) \/ Arm(s) \/ Report(s)
    \/ SyncReceives(s) \/ SyncFails(s)
    \/ LoopTop(s) \/ LoopDispatches(s) \/ LoopDrained(s) \/ LoopReceives(s)
    \/ SecondLoop(s)

InitScriptEnds(s) == InitScriptFails(s) \/ InitScriptRuns(s)

GuestStep(s) == sync_call(s) \/ async_send(s) \/ GuestReturns(s) \/ GuestThrows(s)

V8Next ==
    \/ \E s \in V8Sessions :
         \/ create_session(s)
         \/ send_to_session(s, Execute)
         \/ send_to_session(s, Msg("StreamEvent", dispatches + 1))
         \/ TerminateSession(s) \/ TerminateToDestroy(s) \/ destroy_session(s)
         \/ ThreadStep(s) \/ DropIsolate(s) \/ InitScriptEnds(s) \/ TimerFires(s)
         \/ GuestStep(s)
         \/ LoopAborts(s) \/ LoopPolls(s)
    \/ \E i \in CallIds : SendBridgeResponse(i)
    \/ HostStep

\* Threads are scheduled fairly, the init script (host code) ends, select! chooses
\* at random among the arms that are ready, timers fire and V8 ends JavaScript that
\* it was told to terminate.  Of the guest it is assumed that what it left to run
\* after V8 ended it (microtasks, timers) comes to an end; otherwise it may compute,
\* block or wait forever, also when the abort channel is closed and V8 was not told.
\* Nothing is assumed of the host's calls.
V8Fairness ==
    /\ WF_v8Vars(HostStep)
    /\ \A s \in V8Sessions :
         /\ WF_v8Vars(ThreadStep(s))
         /\ WF_v8Vars(InitScriptEnds(s))
         /\ WF_v8Vars(TimerFires(s))
         /\ SF_v8Vars(LoopAborts(s))
         /\ WF_v8Vars(s \in terminating /\ GuestThrows(s))
         /\ WF_v8Vars(s \in cutOff /\ (GuestReturns(s) \/ GuestThrows(s)))

V8Spec == V8Init /\ [][V8Next]_v8Vars /\ V8Fairness

-----------------------------------------------------------------------------
(* Properties.                                                             *)

(* The state is well typed; no channel is over its capacity.               *)
V8TypeOK ==
    /\ dispatching.step \in {"unlocked", "signal", "shut", "send", "join"}
    /\ dispatching # NoHolder => dispatching.s \in V8Sessions
    /\ dispatches \in 0 .. MaxDispatches
    /\ doomed \subseteq connected /\ connected \subseteq V8Sessions
    /\ \A s \in V8Sessions :
         /\ rx[s] \in Seq(V8Messages) /\ Len(rx[s]) <= SessionChannel
         /\ setAside[s] \in Seq(V8Messages) /\ deferred[s] \in Seq(V8Messages)
         /\ frames[s] \in Seq(V8Messages)
         /\ thread[s] \in {"none", "starting", "queued", "ended"} \cup HasSlot
         /\ js[s] \in {"off", "on", "sync"}
         /\ abort[s] \in {"none", "armed", "Terminated", "TimedOut"}
         /\ timer[s] \in {"off", "on", "fired"}
         /\ awaiting[s] \in 0 .. MaxBridgeCalls
         /\ promises[s] \subseteq CallIds /\ stale[s] \subseteq promises[s]
    /\ slots \in Nat
    /\ isolate \subseteq V8Sessions /\ terminating \subseteq isolate /\ handles \subseteq V8Sessions
    /\ lastLoop \subseteq V8Sessions
    /\ DOMAIN router \subseteq DOMAIN asker

(* The slot count is the number of threads that hold one, and never over   *)
(* max_concurrency, also when a session is destroyed while it waits for a  *)
(* slot or in the middle of an execution (slot_control in session_thread). *)
SlotsAreHeld ==
    /\ slots = Cardinality({s \in V8Sessions : thread[s] \in HasSlot})
    /\ slots <= MaxConcurrency

OnItsWay(s, i) ==
    LET has(q) == \E k \in DOMAIN q : q[k] = Msg("BridgeResponse", i)
    IN \/ i \in DOMAIN router /\ router[i] = s
       \/ has(rx[s])
       \/ dispatching.step = "send" /\ dispatching.s = s
            /\ dispatching.m = Msg("BridgeResponse", i)

(* The answer to a bridge call is never lost: while a guest waits, the     *)
(* host still has the call to answer or the answer is in a queue that the  *)
(* waiter reads, whichever session is destroyed, terminated or recreated   *)
(* meanwhile, and though both kinds of waits read the same channel.        *)
AnswersAreNotLost ==
    \A s \in V8Sessions : thread[s] \in Executing =>
        /\ js[s] = "sync" => OnItsWay(s, awaiting[s]) \/ s \notin connected
        /\ \A i \in promises[s] \ stale[s] :
             \/ OnItsWay(s, i) \/ s \notin connected
             \/ \E q \in {deferred[s], frames[s]} :
                  \E k \in DOMAIN q : q[k] = Msg("BridgeResponse", i)
             \/ thread[s] = "done"

(* Stream events reach the guest in the order in which they were sent:     *)
(* run_event_loop "drains queued messages from sync bridge calls before    *)
(* blocking on the channel".                                               *)
StreamEventsInOrder ==
    [][\A s \in V8Sessions : lastStream'[s] >= lastStream[s]]_v8Vars

(* destroy_session returns, whatever the guest is doing and whether or not *)
(* the session has a slot, if the execution under way could be told to     *)
(* terminate and none that was still to be armed missed the signal.        *)
DestroyReturns ==
    [](dispatching.step = "join" /\ dispatching.heard => <>(dispatching = NoHolder))

(* An execution that is told to stop, V8 through its isolate handle and    *)
(* the waits of its thread through the abort channel, ends although the    *)
(* guest computes, blocks in a bridge call nobody answers or waits in the  *)
(* event loop.                                                             *)
AbortedExecutionsEnd ==
    \A s \in V8Sessions : Closed(s) /\ Told(s) ~> thread[s] \notin Executing

(* With a time limit every execution ends and its slot's thread can take   *)
(* the next command.                                                       *)
LimitedExecutionsEnd ==
    \A s \in V8Limited : (thread[s] \in Executing) ~> (thread[s] \notin Executing)

(* Slots and answers of the sessions are kept: the types, SlotsAreHeld and *)
(* AnswersAreNotLost (session_thread, dispatch, run_event_loop).           *)
V8SessionsAreSound == V8TypeOK /\ SlotsAreHeld /\ AnswersAreNotLost

(* Executions and destroys come to an end: DestroyReturns,                 *)
(* AbortedExecutionsEnd and LimitedExecutionsEnd (destroy_session,         *)
(* TimeoutGuard, run_event_loop).                                          *)
ExecutionsEnd == DestroyReturns /\ AbortedExecutionsEnd /\ LimitedExecutionsEnd
=============================================================================
