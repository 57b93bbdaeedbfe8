----------------------------- MODULE AcpClient -----------------------------
(***************************************************************************)
(* The JSON-RPC client of an agent adapter (sidecar/src/acp/client.rs).    *)
(* Tasks run side by side: callers of request and notify, the read loop,   *)
(* and a call of close.  They share the table of pending requests, the     *)
(* window of inbound request ids, the permission requests that wait for    *)
(* the host, the flag closed and the terminal error.  The writer is behind *)
(* a fair asynchronous mutex; a write with its flush is one step, which    *)
(* assumes that a living adapter drains its input.                         *)
(*                                                                         *)
(* The adapter is external: it may answer a request it received, any       *)
(* number of times or never, send requests, repeat their ids, send a line  *)
(* that does not parse, close its output, and stop reading at any moment,  *)
(* in which case a write fails.                                            *)
(***************************************************************************)
EXTENDS Integers, Sequences, FiniteSets

CONSTANTS
    AcpCallers,         \* tasks of the host that call request and notify
    AcpKinds,           \* the kinds of call each of them makes
    InboundIds,         \* ids of the adapter's requests for the host's handler
    PermissionIds,      \* ids of the adapter's permission requests
    SEEN_INBOUND_REQUEST_ID_RETENTION_LIMIT,
    MaxAcpRequests,     \* bound: requests the client sends
    MaxAdmitted         \* bound: requests of the adapter that are not dropped

ASSUME AcpAssumption ==
    /\ AcpKinds \in [AcpCallers -> SUBSET {"prompt", "cancel", "permission", "notify"}]
    /\ InboundIds \cup PermissionIds \subseteq Nat \ {0}
    /\ InboundIds \cap PermissionIds = {}
    /\ SEEN_INBOUND_REQUEST_ID_RETENTION_LIMIT \in Nat \ {0}
    /\ MaxAcpRequests \in Nat
    /\ MaxAdmitted \in Nat
    /\ AcpCallers \cap {"reader", "closer"} = {} /\ IsFiniteSet(AcpCallers)

VARIABLES
    task,               \* what each task is doing
    pending,            \* ids of the requests that wait for a response
    nextId,
    seenIds,            \* SeenInboundRequestIds, oldest first
    permissions,        \* ids of pending_permission_requests
    acpClosed,
    terminalError,      \* whether terminal_error is set
    asked,              \* requests the adapter has received
    admitted,           \* history: the adapter's requests in the order taken up
    replies             \* history: responses written, by inbound id

acpTables == <<pending, nextId, seenIds, permissions, acpClosed, terminalError,
               asked, admitted, replies>>
acpVars == <<task, acpTables>>

AcpTasks == AcpCallers \cup {"reader", "closer"}
AdapterIds == InboundIds \cup PermissionIds

\* A task at rest; the slot is the oneshot channel of a request.
Resting(at) == [pc |-> at, kind |-> "none", msg |-> "none", id |-> 0, slot |-> "empty"]

AcpInit ==
    /\ task = [t \in AcpTasks |-> Resting(IF t = "reader" THEN "reading" ELSE "idle")]
    /\ pending = {}
    /\ nextId = 1
    /\ seenIds = <<>>
    /\ permissions = {}
    /\ acpClosed = FALSE
    /\ terminalError = FALSE
    /\ asked = {}
    /\ admitted = <<>>
    /\ replies = [i \in AdapterIds |-> 0]

\* write_message: the task queues for the writer with message m.
Send(t, m) == task' = [task EXCEPT ![t].pc = "send", ![t].msg = m]

\* The tasks after the responders of ids have got the result r.
Resolved(ids, r) ==
    [t \in AcpTasks |-> IF t \in AcpCallers /\ task[t].msg = "request" /\ task[t].id \in ids
                        THEN [task[t] EXCEPT !.slot = r]
                        ELSE task[t]]

----------------------------------------------------------------------------
(* Calls of the host.                                                      *)

\* request, up to its look at the terminal error; id is the permissionId.
StartRequest(c, kind, id) ==
    /\ task[c].pc = "idle"
    /\ nextId + Cardinality({d \in AcpCallers : task[d].pc = "checked"}) <= MaxAcpRequests
    /\ ~terminalError
    /\ task' = [task EXCEPT ![c].pc = "checked", ![c].kind = kind, ![c].id = id]
    /\ UNCHANGED acpTables

\* notify, called by the host.
Notify(c) ==
    /\ task[c].pc = "idle"
    /\ ~terminalError
    /\ Send(c, "notify")
    /\ UNCHANGED acpTables

AnswersPermission(c) == task[c].kind = "permission" /\ task[c].id \in permissions

\* The answered permission request stays on the list.
AnswerPermission_Kept(c) ==
    /\ task[c].pc = "checked"
    /\ AnswersPermission(c)
    /\ Send(c, "reply")
    /\ UNCHANGED acpTables

\* maybe_handle_permission_response: the call is the answer to the adapter.
AnswerPermission(c) ==
    /\ task[c].pc = "checked"
    /\ AnswersPermission(c)
    /\ permissions' = permissions \ {task[c].id}
    /\ Send(c, "reply")
    /\ UNCHANGED <<pending, nextId, seenIds, acpClosed, terminalError,
                   asked, admitted, replies>>

\* request registers its responder and queues for the writer.
RegisterRequest(c) ==
    /\ task[c].pc = "checked"
    /\ ~AnswersPermission(c)
    /\ task' = [task EXCEPT ![c].pc = "send", ![c].msg = "request", ![c].id = nextId]
    /\ pending' = pending \cup {nextId}
    /\ nextId' = nextId + 1
    /\ UNCHANGED <<seenIds, permissions, acpClosed, terminalError, asked,
                   admitted, replies>>

\* notify, called by request for a session/cancel; nothing is sent once the
\* terminal error is set.
NotifyOrRest(c) ==
    IF terminalError THEN task' = [task EXCEPT ![c] = Resting("idle")]
                     ELSE Send(c, "notify")

\* request returns what its channel carries; a session/cancel that the
\* adapter answers with method-not-found is sent again as a notification.
Receive(c, notFound) ==
    /\ task[c].pc = "waiting"
    /\ task[c].slot # "empty"
    /\ notFound => task[c].kind = "cancel" /\ task[c].slot = "response"
    /\ IF notFound
       THEN NotifyOrRest(c)
       ELSE task' = [task EXCEPT ![c] = Resting("idle")]
    /\ UNCHANGED acpTables

\* No timer for a prompt.
Expire_NoPrompt(c) ==
    /\ task[c].kind # "prompt"
    /\ task[c].pc = "waiting"
    /\ task[c].slot = "empty"
    /\ task' = [task EXCEPT ![c].pc = "expired"]
    /\ UNCHANGED acpTables

\* The timer of request fires; a result that is there already wins.
Expire(c) ==
    /\ task[c].pc = "waiting"
    /\ task[c].slot = "empty"
    /\ task' = [task EXCEPT ![c].pc = "expired"]
    /\ UNCHANGED acpTables

\* The rest of that branch: the responder is removed and the adapter is asked
\* to cancel (dispatch_timeout_cancel), unless the call was the cancel itself.
GiveUp(c) ==
    /\ task[c].pc = "expired"
    /\ pending' = pending \ {task[c].id}
    /\ IF task[c].kind = "cancel" THEN task' = [task EXCEPT ![c] = Resting("idle")]
                                  ELSE NotifyOrRest(c)
    /\ UNCHANGED <<nextId, seenIds, permissions, acpClosed, terminalError,
                   asked, admitted, replies>>

----------------------------------------------------------------------------
(* The writer, and the end of the transport.                               *)

\* reject_all: every pending request fails and the adapter's are forgotten.
RejectAll ==
    /\ pending' = {}
    /\ permissions' = {}
    /\ seenIds' = <<>>

\* Where a task goes on after a write.
AfterWrite(t, ok) ==
    IF t = "reader"
    THEN Resting(IF ok \/ task[t].id # 0 THEN "reading" ELSE "stopped")
    ELSE IF ok /\ task[t].msg = "request" THEN [task[t] EXCEPT !.pc = "waiting"]
                                          ELSE Resting("idle")

\* The message is written and flushed.
WriteOk(t) ==
    /\ task[t].pc = "send"
    /\ task' = [task EXCEPT ![t] = AfterWrite(t, TRUE)]
    /\ asked' = IF task[t].msg = "request" THEN asked \cup {task[t].id} ELSE asked
    /\ replies' = IF task[t].msg = "reply" /\ task[t].id # 0
                  THEN [replies EXCEPT ![task[t].id] = @ + 1] ELSE replies
    /\ UNCHANGED <<pending, nextId, seenIds, permissions, acpClosed, terminalError,
                   admitted>>

\* What request does after a failed write: it takes its responder back.
Withdraw(t) == IF task[t].msg = "request" THEN {task[t].id} ELSE {}

\* fail_transport: the first task to set closed also sets the terminal error
\* and rejects all.  The swap and the rest are one step: a request that looks
\* at the terminal error in between could as well have looked before.
FailTransport(t, next) ==
    IF acpClosed
    THEN /\ pending' = pending \ Withdraw(t)
         /\ task' = [task EXCEPT ![t] = next]
         /\ UNCHANGED <<acpClosed, terminalError, permissions, seenIds>>
    ELSE /\ acpClosed' = TRUE
         /\ terminalError' = TRUE
         /\ RejectAll
         /\ task' = [Resolved(pending, "error") EXCEPT ![t] = next]

\* The write fails; fail_transport runs while the task holds the writer.
WriteFails(t) ==
    /\ task[t].pc = "send"
    /\ FailTransport(t, AfterWrite(t, FALSE))
    /\ UNCHANGED <<nextId, asked, admitted, replies>>

\* close, up to its wait for the writer: nothing if the client is closed.
Close ==
    /\ task["closer"].pc = "idle"
    /\ ~acpClosed
    /\ acpClosed' = TRUE
    /\ terminalError' = TRUE
    /\ task' = [task EXCEPT !["closer"].pc = "queued"]
    /\ UNCHANGED <<pending, nextId, seenIds, permissions, asked, admitted, replies>>

\* The writer is shut down; the lock is held for no other step.  When the
\* shutdown fails close returns before reject_all.
ShutDown(ok) ==
    /\ task["closer"].pc = "queued"
    /\ task' = [task EXCEPT !["closer"] = Resting(IF ok THEN "rejecting" ELSE "done")]
    /\ UNCHANGED acpTables

\* The rest of close.
CloseRejects ==
    /\ task["closer"].pc = "rejecting"
    /\ RejectAll
    /\ task' = [Resolved(pending, "error") EXCEPT !["closer"] = Resting("done")]
    /\ UNCHANGED <<nextId, acpClosed, terminalError, asked, admitted, replies>>

----------------------------------------------------------------------------
(* read_loop: one line at a time.                                          *)

Reading == task["reader"].pc = "reading"

\* A response; one that no request waits for is dropped.
ReadResponse(i) ==
    /\ Reading
    /\ i \in asked
    /\ pending' = pending \ {i}
    /\ task' = Resolved(pending \cap {i}, "response")
    /\ UNCHANGED <<nextId, seenIds, permissions, acpClosed, terminalError,
                   asked, admitted, replies>>

\* SeenInboundRequestIds.insert with evict_oldest.
Remember(i) ==
    LET all == Append(seenIds, i) IN
    IF Len(all) > SEEN_INBOUND_REQUEST_ID_RETENTION_LIMIT THEN Tail(all) ELSE all

\* handle_inbound_request for an id outside the window: a permission request
\* is put on the list and announced; any other goes to the handler, or is
\* answered at once when no handler is set.
ReadRequest(i, handler) ==
    /\ Reading
    /\ Len(admitted) < MaxAdmitted
    /\ \A k \in DOMAIN seenIds : seenIds[k] # i
    /\ seenIds' = Remember(i)
    /\ admitted' = Append(admitted, i)
    /\ \/ /\ i \in PermissionIds
          /\ permissions' = permissions \cup {i}
          /\ UNCHANGED task
       \/ /\ i \in InboundIds
          /\ task' = [task EXCEPT !["reader"] =
                        [@ EXCEPT !.pc = IF handler THEN "handling" ELSE "send",
                                  !.msg = "reply", !.id = i]]
          /\ UNCHANGED permissions
    /\ UNCHANGED <<pending, nextId, acpClosed, terminalError, asked, replies>>

\* The handler returns, fails, or is cut off by the timer: each is answered.
HandlerEnds ==
    /\ task["reader"].pc = "handling"
    /\ Send("reader", "reply")
    /\ UNCHANGED acpTables

\* A line that does not parse is answered with an error for no id.
ReadGarbage ==
    /\ Reading
    /\ Send("reader", "reply")
    /\ UNCHANGED acpTables

\* End of the adapter's output; the loop sleeps for EXIT_DRAIN_GRACE_MS.
AdapterEof ==
    /\ Reading
    /\ task' = [task EXCEPT !["reader"].pc = "grace"]
    /\ UNCHANGED acpTables

\* A read error, or the end of the grace period.
ReaderFails ==
    /\ task["reader"].pc \in {"reading", "grace"}
    /\ FailTransport("reader", Resting("stopped"))
    /\ UNCHANGED <<nextId, asked, admitted, replies>>

----------------------------------------------------------------------------
CallerStep(c) ==
    \/ AnswerPermission(c)
    \/ RegisterRequest(c)
    \/ \E notFound \in BOOLEAN : Receive(c, notFound)
    \/ GiveUp(c)

WriteEnds(t) == WriteOk(t) \/ WriteFails(t)

CloserStep == (\E ok \in BOOLEAN : ShutDown(ok)) \/ CloseRejects

AcpReaderStep == HandlerEnds \/ (task["reader"].pc = "grace" /\ ReaderFails)

AcpNext ==
    \/ \E c \in AcpCallers :
          \/ \E k \in AcpKinds[c] \cap {"prompt", "cancel"} : StartRequest(c, k, 0)
          \/ \E i \in PermissionIds :
                "permission" \in AcpKinds[c] /\ StartRequest(c, "permission", i)
          \/ "notify" \in AcpKinds[c] /\ Notify(c)
          \/ CallerStep(c)
          \/ Expire(c)
    \/ \E t \in AcpTasks : WriteEnds(t)
    \/ Close
    \/ CloserStep
    \/ \E i \in asked : ReadResponse(i)
    \/ \E i \in AdapterIds, handler \in BOOLEAN : ReadRequest(i, handler)
    \/ HandlerEnds
    \/ ReadGarbage
    \/ AdapterEof
    \/ ReaderFails

\* Tasks of the runtime are scheduled fairly, timers fire, a write ends in one
\* way or the other, and the handler's timer cuts a handler off.  Nothing is
\* assumed of the adapter: it need not answer, and need not close its output.
AcpFairness ==
    /\ \A c \in AcpCallers : WF_acpVars(CallerStep(c)) /\ WF_acpVars(Expire(c))
    /\ \A t \in AcpTasks : WF_acpVars(WriteEnds(t))
    /\ WF_acpVars(CloserStep) /\ WF_acpVars(AcpReaderStep)

AcpSpec == AcpInit /\ [][AcpNext]_acpVars /\ AcpFairness

----------------------------------------------------------------------------
TaskPcs == {"idle", "checked", "send", "waiting", "expired",
            "reading", "handling", "grace", "stopped",
            "queued", "rejecting", "done"}

\* Type invariant of the client's tables and of the state of its tasks; the
\* window of inbound ids keeps its limit.
AcpTypeOK ==
    /\ task \in [AcpTasks -> [pc : TaskPcs,
                              kind : {"none", "prompt", "cancel", "permission"},
                              msg : {"none", "request", "reply", "notify"},
                              id : Nat,
                              slot : {"empty", "response", "error"}]]
    /\ nextId \in 1 .. MaxAcpRequests + 1
    /\ pending \subseteq 1 .. nextId - 1
    /\ asked \subseteq 1 .. nextId - 1
    /\ seenIds \in Seq(AdapterIds)
    /\ Len(seenIds) <= SEEN_INBOUND_REQUEST_ID_RETENTION_LIMIT
    /\ permissions \subseteq PermissionIds
    /\ acpClosed \in BOOLEAN
    /\ terminalError \in BOOLEAN
    /\ admitted \in Seq(AdapterIds)
    /\ replies \in [AdapterIds -> Nat]

\* The table of pending requests holds exactly the requests that a caller
\* has registered and no one has answered: no responder is lost while its
\* caller waits, and none stays behind after a timeout, a failed write, a
\* close or a failure of the transport (request, reject_all, read_loop).
PendingIsUnanswered ==
    pending = {task[c].id : c \in {d \in AcpCallers :
                                     task[d].msg = "request" /\ task[d].slot = "empty"}}

\* Until the client is closed, a request of the adapter whose id repeats one
\* of the last SEEN_INBOUND_REQUEST_ID_RETENTION_LIMIT requests is not taken
\* up again (handle_inbound_request).
DuplicatesAreDropped ==
    ~acpClosed =>
        \A i, j \in DOMAIN admitted :
            i < j /\ admitted[i] = admitted[j] =>
                j - i > SEEN_INBOUND_REQUEST_ID_RETENTION_LIMIT

\* The adapter never gets more responses for an id than it made requests
\* that were taken up, whichever callers answer a permission request at the
\* same time and whatever a close forgets (maybe_handle_permission_response).
RepliesMatchRequests ==
    \A i \in AdapterIds :
        replies[i] <= Cardinality({j \in DOMAIN admitted : admitted[j] = i})

\* Every call of request, notify and close returns: also a request that was
\* registered after a close had rejected all the others, and one whose close
\* failed before reject_all.
AcpCallsEnd ==
    \A t \in AcpTasks \ {"reader"} :
        task[t].pc \notin {"idle", "done"} ~> task[t].pc \in {"idle", "done"}

\* The exchange between client and adapter is sound: the types, the table of
\* pending requests, the window of inbound ids and the count of replies
\* (request, read_loop, handle_inbound_request).
AcpExchangeIsSound ==
    AcpTypeOK /\ PendingIsUnanswered /\ DuplicatesAreDropped /\ RepliesMatchRequests
=============================================================================
