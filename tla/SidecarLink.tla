----------------------------- MODULE SidecarLink -----------------------------
(***************************************************************************)
(* The stdio link between the host's client and the sidecar process:       *)
(* NativeSidecarProcessClient of                                           *)
(* packages/core/src/sidecar/native-process-client.ts at one end, the run  *)
(* loop, the reader thread and the callback transport of                   *)
(* crates/sidecar/src/stdio.rs at the other.  Requests go down and their   *)
(* responses up; events go up; and the sidecar calls back: a thread of it  *)
(* sends a sidecar_request and blocks in recv_timeout for the answer the   *)
(* host's handler writes.                                                  *)
(*                                                                         *)
(* A JavaScript callback runs to its end, so each is one step.  A pipe is  *)
(* a FIFO of frames; toClient also holds the frames the writer thread has  *)
(* not written yet, and an exit loses any tail of it.  A frame is a type   *)
(* and an id: the codec and the payloads are left out.  The tracker that   *)
(* accept_sidecar_response consults is always empty here, because nothing  *)
(* in the sidecar calls queue_sidecar_request.                             *)
(***************************************************************************)
EXTENDS Integers, Sequences, FiniteSets

CONSTANTS
    MaxRequests,            \* bound on sendRequest calls
    MaxCallbacks,           \* bound on SharedSidecarRequestClient::invoke calls
    MaxEvents,              \* bound on the events the sidecar emits
    EventKinds,             \* what a waitForEvent call can ask for
    EventWaits,             \* waitForEvent calls
    eventBufferCapacity     \* option of NativeSidecarProcessClient.spawn

ASSUME LinkAssumption ==
    /\ MaxRequests \in Nat /\ MaxCallbacks \in Nat /\ MaxEvents \in Nat
    /\ eventBufferCapacity \in Nat
    /\ "none" \notin EventKinds    \* the mark of a wait that is not under way

VARIABLES
    \* the client
    nextRequestId, pendingResponses, awaitedBy,
    closed,                 \* stdoutClosedError
    disposal,               \* how far dispose has got
    handling,               \* callbacks whose handler has not answered yet
    bufferedEvents, eventWaiters, wanted, received,
    \* the pipes
    toSidecar, toClient, stdinEnded,
    \* the sidecar
    eofRead, accepting,     \* the reader thread
    inbox,                  \* stdin_rx
    mainLoop, serving,      \* the run loop, and the request it dispatches
    waiters,                \* FrameSidecarRequestTransport.pending
    invoking, answered, onMain, callbacks, emitted

clientVars == <<nextRequestId, pendingResponses, awaitedBy, closed, disposal, handling>>
eventVars  == <<bufferedEvents, eventWaiters, wanted, received>>
readerVars == <<eofRead, accepting, inbox>>
loopVars   == <<mainLoop, serving, emitted>>
callbackVars == <<waiters, invoking, answered, onMain, callbacks>>
sidecarVars == <<readerVars, loopVars, callbackVars>>
linkVars   == <<clientVars, eventVars, toSidecar, toClient, stdinEnded, sidecarVars>>

Frame(type, id) == [type |-> type, id |-> id]
RequestIds  == 1 .. MaxRequests
CallbackIds == 1 .. MaxCallbacks
Running     == mainLoop = "running"

LinkInit ==
    /\ nextRequestId = 1 /\ pendingResponses = {}
    /\ awaitedBy = [n \in RequestIds |-> 0]
    /\ closed = "none" /\ disposal = "none" /\ handling = {}
    /\ bufferedEvents = <<>> /\ eventWaiters = <<>>
    /\ wanted = [w \in EventWaits |-> "none"]
    /\ received = [k \in EventKinds |-> <<>>]
    /\ toSidecar = <<>> /\ toClient = <<>> /\ stdinEnded = FALSE
    /\ eofRead = FALSE /\ accepting = 0 /\ inbox = <<>>
    /\ mainLoop = "running" /\ serving = 0 /\ emitted = <<>>
    /\ waiters = {} /\ invoking = {} /\ answered = {} /\ onMain = 0 /\ callbacks = 0

-----------------------------------------------------------------------------
(* The client. *)

\* rejectPending's event half: every waiter is rejected.
RejectWaiters ==
    /\ eventWaiters' = <<>>
    /\ wanted' = [w \in EventWaits |->
                   IF \E i \in DOMAIN eventWaiters : eventWaiters[i] = w THEN "none" ELSE wanted[w]]

\* A failure that is recorded but rejects no request.
FailPermanently_Silent(error) ==
    /\ closed' = IF closed = "none" THEN error ELSE closed
    /\ UNCHANGED <<pendingResponses, eventWaiters, wanted>>

\* failPermanently: the first error is kept and rejects everything pending.
FailPermanently(error) ==
    IF closed = "none"
    THEN /\ closed' = error /\ pendingResponses' = {}
         /\ RejectWaiters
    ELSE UNCHANGED <<closed, pendingResponses, eventWaiters, wanted>>

\* sendRequest, called by the host's code (h = 0) or by the handler of callback h,
\* which awaits the result.  A write to a process that is gone rejects the entry.
SendRequest(h) ==
    /\ closed = "none" /\ nextRequestId \in RequestIds
    /\ h = 0 \/ (h \in handling /\ \A n \in pendingResponses : awaitedBy[n] # h)
    /\ nextRequestId' = nextRequestId + 1
    /\ IF Running
       THEN /\ pendingResponses' = pendingResponses \cup {nextRequestId}
            /\ awaitedBy' = [awaitedBy EXCEPT ![nextRequestId] = h]
            /\ toSidecar' = Append(toSidecar, Frame("request", nextRequestId))
       ELSE UNCHANGED <<pendingResponses, awaitedBy, toSidecar>>
    /\ UNCHANGED <<closed, disposal, handling, eventVars, toClient, stdinEnded, sidecarVars>>

\* The entry's timer.
RequestTimesOut(n) ==
    /\ n \in pendingResponses
    /\ pendingResponses' = pendingResponses \ {n}
    /\ UNCHANGED <<nextRequestId, awaitedBy, closed, disposal, handling, eventVars,
                   toSidecar, toClient, stdinEnded, sidecarVars>>

\* bufferEvent: at the capacity the client fails for good.
BufferEvent(e) ==
    IF Len(bufferedEvents) >= eventBufferCapacity
    THEN FailPermanently("overflow") /\ UNCHANGED <<bufferedEvents, received>>
    ELSE /\ bufferedEvents' = Append(bufferedEvents, e)
         /\ UNCHANGED <<closed, pendingResponses, eventWaiters, wanted, received>>

\* The places in eventWaiters of the waits for kind k, and in bufferedEvents of its events.
WaitsFor(k)   == {i \in DOMAIN eventWaiters : wanted[eventWaiters[i]] = k}
BufferedOf(k) == {i \in DOMAIN bufferedEvents : emitted[bufferedEvents[i]] = k}

\* delete of the element at place i of a Set or Map, which keep the order of insertion.
Deleted(s, i) == SubSeq(s, 1, i - 1) \o SubSeq(s, i + 1, Len(s))

\* The wait at place i of eventWaiters is over.
EndWait(i) ==
    /\ eventWaiters' = Deleted(eventWaiters, i)
    /\ wanted' = [wanted EXCEPT ![eventWaiters[i]] = "none"]

\* dispatchEvent: the first waiter that matches takes the event.
DispatchEvent(e) ==
    LET k == emitted[e] IN
    \/ WaitsFor(k) = {} /\ BufferEvent(e)
    \/ \E i \in WaitsFor(k) :
          /\ \A j \in WaitsFor(k) : i <= j
          /\ EndWait(i)
          /\ received' = [received EXCEPT ![k] = Append(@, e)]
          /\ UNCHANGED <<closed, pendingResponses, bufferedEvents>>

\* One turn of drainFrames.  It also runs after the client has failed, until dispose has
\* destroyed the stream.
DrainFrame ==
    /\ disposal # "done" /\ toClient # <<>> /\ toClient' = Tail(toClient)
    /\ LET f == Head(toClient) IN
       CASE f.type = "response" ->
              /\ pendingResponses' = pendingResponses \ {f.id}
              /\ UNCHANGED <<closed, handling, eventVars>>
         [] f.type = "sidecar_request" ->
              /\ handling' = handling \cup {f.id}
              /\ UNCHANGED <<closed, pendingResponses, eventVars>>
         [] f.type = "event" -> DispatchEvent(f.id) /\ UNCHANGED handling
    /\ UNCHANGED <<nextRequestId, awaitedBy, disposal, toSidecar, stdinEnded, sidecarVars>>

\* dispatchSidecarRequest once its handler has settled: an answer, an error or the
\* handler's own timeout is one frame.  A failed write fails the client.
HandlerAnswers(h) ==
    /\ h \in handling /\ \A n \in pendingResponses : awaitedBy[n] # h
    /\ handling' = handling \ {h}
    /\ IF Running /\ ~stdinEnded
       THEN /\ toSidecar' = Append(toSidecar, Frame("sidecar_response", h))
            /\ UNCHANGED <<closed, pendingResponses, eventWaiters, wanted>>
       ELSE FailPermanently("write") /\ UNCHANGED toSidecar
    /\ UNCHANGED <<nextRequestId, awaitedBy, disposal, bufferedEvents, received, toClient,
                   stdinEnded, sidecarVars>>

\* A buffer read from its newest end.
FirstBuffered_Newest(k, i) == i \in BufferedOf(k) /\ \A j \in BufferedOf(k) : j <= i

\* takeBufferedEvent for kind k: the oldest event that matches.
FirstBuffered(k, i) == i \in BufferedOf(k) /\ \A j \in BufferedOf(k) : i <= j

\* waitForEvent: a buffered event first, then the error the client failed with, then a
\* waiter.  After an overflow the buffer is not looked at.
WaitForEvent(w, k) ==
    /\ wanted[w] = "none" /\ closed # "overflow"
    /\ \/ \E i \in DOMAIN bufferedEvents :
             /\ FirstBuffered(k, i)
             /\ bufferedEvents' = Deleted(bufferedEvents, i)
             /\ received' = [received EXCEPT ![k] = Append(@, bufferedEvents[i])]
             /\ UNCHANGED <<eventWaiters, wanted>>
       \/ /\ BufferedOf(k) = {} /\ closed = "none"
          /\ eventWaiters' = Append(eventWaiters, w)
          /\ wanted' = [wanted EXCEPT ![w] = k]
          /\ UNCHANGED <<bufferedEvents, received>>
    /\ UNCHANGED <<clientVars, toSidecar, toClient, stdinEnded, sidecarVars>>

\* The waiter's timer, or its abort signal.
WaitGivesUp(w) ==
    /\ \E i \in DOMAIN eventWaiters : eventWaiters[i] = w /\ EndWait(i)
    /\ UNCHANGED <<clientVars, bufferedEvents, received, toSidecar, toClient, stdinEnded,
                   sidecarVars>>

\* The child's "exit" event, which may precede the frames still in its stdout.
SeeExit ==
    /\ ~Running /\ closed = "none"
    /\ FailPermanently("exited")
    /\ UNCHANGED <<nextRequestId, awaitedBy, disposal, handling, bufferedEvents, received,
                   toSidecar, toClient, stdinEnded, sidecarVars>>

\* dispose up to its first await: fail what is pending and end the child's stdin.
Dispose ==
    /\ disposal = "none" /\ disposal' = "draining"
    /\ FailPermanently("disposed")
    /\ stdinEnded' = TRUE
    /\ UNCHANGED <<nextRequestId, awaitedBy, handling, bufferedEvents, received, toSidecar,
                   toClient, sidecarVars>>

\* waitForChildExit returned: the exit was seen, or stdout is destroyed after a kill.
DisposeReturns ==
    /\ disposal = "draining" /\ ~Running /\ disposal' = "done"
    /\ UNCHANGED <<nextRequestId, pendingResponses, awaitedBy, closed, handling, eventVars,
                   toSidecar, toClient, stdinEnded, sidecarVars>>

-----------------------------------------------------------------------------
(* The sidecar. *)

\* The process ends: its threads stop and any tail of what it had to write is lost.
Exit(how) ==
    /\ mainLoop' = how /\ serving' = 0
    /\ \E n \in 0 .. Len(toClient) : toClient' = SubSeq(toClient, 1, n)
    /\ inbox' = <<>> /\ accepting' = 0
    /\ waiters' = {} /\ invoking' = {} /\ answered' = {} /\ onMain' = 0

\* A crash of the process, or dispose's SIGKILL when it outlived the grace period.
Die ==
    /\ Running /\ Exit("killed")
    /\ toSidecar' = <<>>
    /\ UNCHANGED <<clientVars, eventVars, stdinEnded, eofRead, callbacks, emitted>>

\* A turn of the reader thread.  accept_response takes the waiter out of the map and only
\* then hands it the answer; an answer nobody waits for goes to the run loop.
ReadFrame ==
    /\ Running /\ accepting = 0 /\ toSidecar # <<>>
    /\ toSidecar' = Tail(toSidecar)
    /\ LET f == Head(toSidecar) IN
       IF f.type = "sidecar_response" /\ f.id \in waiters
       THEN accepting' = f.id /\ waiters' = waiters \ {f.id} /\ UNCHANGED inbox
       ELSE inbox' = Append(inbox, f) /\ UNCHANGED <<accepting, waiters>>
    /\ UNCHANGED <<clientVars, eventVars, toClient, stdinEnded, eofRead, loopVars, invoking,
                   answered, onMain, callbacks>>

\* sender.send: dropped when the invoke has timed out in between.
HandOver ==
    /\ accepting # 0 /\ accepting' = 0
    /\ answered' = IF accepting \in invoking THEN answered \cup {accepting} ELSE answered
    /\ UNCHANGED <<clientVars, eventVars, toSidecar, toClient, stdinEnded, eofRead, inbox,
                   loopVars, waiters, invoking, onMain, callbacks>>

\* The end of stdin is passed on to the run loop, and the reader thread returns.
ReadEof ==
    /\ Running /\ accepting = 0 /\ toSidecar = <<>> /\ stdinEnded /\ ~eofRead
    /\ eofRead' = TRUE /\ inbox' = Append(inbox, Frame("eof", 0))
    /\ UNCHANGED <<clientVars, eventVars, toSidecar, toClient, stdinEnded, accepting, loopVars,
                   callbackVars>>

\* The run loop takes a frame: a request is dispatched; the end of stdin breaks the loop; an
\* answer is one accept_sidecar_response does not know, and its error ends the process.
TakeFrame ==
    /\ Running /\ serving = 0 /\ onMain = 0 /\ inbox # <<>>
    /\ IF Head(inbox).type = "request"
       THEN /\ serving' = Head(inbox).id /\ inbox' = Tail(inbox)
            /\ UNCHANGED <<mainLoop, toSidecar, toClient, accepting, waiters, invoking,
                           answered, onMain>>
       ELSE /\ Exit(IF Head(inbox).type = "eof" THEN "stopped" ELSE "failed")
            /\ toSidecar' = <<>>
    /\ UNCHANGED <<clientVars, eventVars, stdinEnded, eofRead, callbacks, emitted>>

\* The dispatch is over and its response is queued for the writer.
Respond ==
    /\ Running /\ serving # 0 /\ onMain = 0
    /\ toClient' = Append(toClient, Frame("response", serving)) /\ serving' = 0
    /\ UNCHANGED <<clientVars, eventVars, toSidecar, stdinEnded, readerVars, mainLoop, callbackVars,
                   emitted>>

\* An event of a dispatch or of poll_event is queued for the writer.
EmitEvent(k) ==
    /\ Running /\ serving = 0 /\ onMain = 0 /\ Len(emitted) < MaxEvents
    /\ emitted' = Append(emitted, k)
    /\ toClient' = Append(toClient, Frame("event", Len(emitted) + 1))
    /\ UNCHANGED <<clientVars, eventVars, toSidecar, stdinEnded, readerVars, mainLoop, serving,
                   callbackVars>>

\* send_request: the waiter is in the map before the frame is queued.
SendCallback ==
    /\ Running /\ callbacks < MaxCallbacks
    /\ callbacks' = callbacks + 1
    /\ waiters' = waiters \cup {callbacks'}
    /\ invoking' = invoking \cup {callbacks'}
    /\ toClient' = Append(toClient, Frame("sidecar_request", callbacks'))

\* invoke on the run loop's own thread, for a mount or an ACP request it is handling: the
\* loop serves nothing until it returns.
InvokeOnMain ==
    /\ onMain = 0 /\ SendCallback /\ onMain' = callbacks'
    /\ UNCHANGED <<clientVars, eventVars, toSidecar, stdinEnded, readerVars, loopVars, answered>>

\* invoke on the thread spawn_tool_process_events starts.
InvokeOnThread ==
    /\ SendCallback /\ UNCHANGED onMain
    /\ UNCHANGED <<clientVars, eventVars, toSidecar, stdinEnded, readerVars, loopVars, answered>>

\* invoke returns, with the answer or, when none came, as a timeout that withdraws the waiter.
InvokeEnds(h) ==
    /\ h \in invoking /\ invoking' = invoking \ {h}
    /\ waiters' = waiters \ {h} /\ answered' = answered \ {h}
    /\ onMain' = IF onMain = h THEN 0 ELSE onMain
    /\ UNCHANGED <<clientVars, eventVars, toSidecar, toClient, stdinEnded, readerVars, loopVars,
                   callbacks>>

-----------------------------------------------------------------------------
ClientStep == DrainFrame \/ SeeExit \/ DisposeReturns
ReaderStep == ReadFrame \/ HandOver \/ ReadEof
LoopStep   == TakeFrame \/ Respond

LinkNext ==
    \/ \E h \in CallbackIds \cup {0} : SendRequest(h)
    \/ \E n \in RequestIds : RequestTimesOut(n)
    \/ ClientStep
    \/ \E h \in CallbackIds : HandlerAnswers(h) \/ InvokeEnds(h)
    \/ \E w \in EventWaits : WaitGivesUp(w) \/ \E k \in EventKinds : WaitForEvent(w, k)
    \/ Dispose \/ Die
    \/ ReaderStep \/ LoopStep
    \/ \E k \in EventKinds : EmitEvent(k)
    \/ InvokeOnMain \/ InvokeOnThread

\* Node's event loop and the sidecar's threads keep running, and recv_timeout returns.  No
\* timer of the client, no answer of a handler and no end of the process is assumed.
LinkFairness ==
    /\ WF_linkVars(ClientStep) /\ WF_linkVars(ReaderStep) /\ WF_linkVars(LoopStep)
    /\ \A h \in CallbackIds : WF_linkVars(InvokeEnds(h))

LinkSpec == LinkInit /\ [][LinkNext]_linkVars /\ LinkFairness

-----------------------------------------------------------------------------
\* Types: the buffer keeps its capacity, a pending id was issued, the map of waiters holds
\* only calls that are waiting.
LinkTypeOK ==
    /\ nextRequestId \in 1 .. MaxRequests + 1
    /\ pendingResponses \subseteq 1 .. nextRequestId - 1
    /\ awaitedBy \in [RequestIds -> 0 .. callbacks]
    /\ closed \in {"none", "exited", "overflow", "write", "disposed"}
    /\ disposal \in {"none", "draining", "done"}
    /\ handling \subseteq 1 .. callbacks
    /\ bufferedEvents \in Seq(1 .. Len(emitted)) /\ Len(bufferedEvents) <= eventBufferCapacity
    /\ {eventWaiters[i] : i \in DOMAIN eventWaiters} = {w \in EventWaits : wanted[w] # "none"}
    /\ emitted \in Seq(EventKinds)
    /\ mainLoop \in {"running", "stopped", "failed", "killed"}
    /\ serving \in RequestIds \cup {0}
    /\ waiters \cup answered \subseteq invoking /\ invoking \subseteq 1 .. callbacks
    /\ onMain # 0 => onMain \in invoking

\* Once the client has failed, been disposed of or overflowed, nobody is left waiting in it,
\* whatever was in flight and whatever arrives afterwards (failPermanently, rejectPending and
\* the test of stdoutClosedError in sendRequest and waitForEvent).
ClosedClientIsSettled ==
    closed # "none" => pendingResponses = {} /\ eventWaiters = <<>>

\* The events of a kind are handed out in the order the sidecar emitted them, however waiters,
\* time-outs, buffering and a failure of the client interleave, and none is skipped unless
\* the client has failed: from then on bufferEvent drops what finds the buffer full, and
\* waitForEvent still takes what came before and after it (dispatchEvent, takeBufferedEvent).
EventsArriveInOrder ==
    \A k \in EventKinds : LET got == received[k] IN
        /\ \A i \in DOMAIN got : emitted[got[i]] = k /\ \A j \in 1 .. i - 1 : got[j] < got[i]
        /\ closed \in {"none", "overflow"} =>
              \A i \in DOMAIN got : \A e \in 1 .. got[i] :
                 emitted[e] = k => \E j \in DOMAIN got : got[j] = e

\* An answer reaches the run loop only when the call it answers is over: while an invoke is
\* blocked, the reader thread finds its waiter (send_request and accept_response of
\* FrameSidecarRequestTransport).
OnlyLateAnswersReachTheLoop ==
    \A i \in DOMAIN inbox : inbox[i].type = "sidecar_response" => inbox[i].id \notin invoking

\* Every request the host has sent is settled without the help of its 60 s timer, even when a
\* handler the run loop is blocked on waits for a request itself, and when the process dies.
RequestsSettle ==
    \A n \in RequestIds : n \in pendingResponses ~> n \notin pendingResponses

\* When dispose ends the child's stdin, the sidecar comes to its end by itself: the reader
\* thread passes the end of file on behind what is queued, and no blocked callback holds the
\* run loop for ever.
EndOfStdinStopsSidecar ==
    stdinEnded ~> ~Running

\* A host tool that overruns its timeout costs that invocation and nothing else: the run loop
\* does not end in an error (host-tools.ts, "Timeout in ms").  The code does not keep this.
LateCallbackIsHarmless ==
    mainLoop # "failed"

\* Both ends of the link are sound: the types, ClosedClientIsSettled, EventsArriveInOrder and
\* OnlyLateAnswersReachTheLoop (protocol-client.ts, the reader thread of stdio.rs).
LinkIsSound ==
    LinkTypeOK /\ ClosedClientIsSettled /\ EventsArriveInOrder /\ OnlyLateAnswersReachTheLoop

\* The link comes to rest: RequestsSettle and EndOfStdinStopsSidecar (sendRequest,
\* failPermanently, run_async).
LinkSettles == RequestsSettle /\ EndOfStdinStopsSidecar
=============================================================================
