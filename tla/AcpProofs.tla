------------------------------ MODULE AcpProofs ------------------------------
(***************************************************************************)
(* Proof that the exchange of an ACP client with its adapter stays sound,  *)
(* for any number of callers, any number of requests and any length of the *)
(* window of request ids.                                                  *)
(*                                                                         *)
(* The inductive invariant AcpInv adds to the property what each task can  *)
(* be about at each of its program points (TasksFit), that requests under  *)
(* way have ids of their own (IdsDiffer), that until the client is closed  *)
(* the window of seen ids is the last part of what was admitted            *)
(* (WindowIsRecent), and that a task which has yet to answer, or a         *)
(* permission the host has yet to give, stands for an admitted request     *)
(* that has no answer yet (RepliesAreOwed).                                *)
(***************************************************************************)
EXTENDS AcpClient, FiniteSetTheorems, TLAPS

\* Most leaves are first-order; the ones that need arithmetic or sequences say SMT.
USE Zenon

----------------------------------------------------------------------------
(* The invariant.                                                          *)

TaskRecords == [pc : TaskPcs,
                kind : {"none", "prompt", "cancel", "permission"},
                msg : {"none", "request", "reply", "notify"},
                id : Nat,
                slot : {"empty", "response", "error"}]

\* What the record r of task t says is a state that the task can be in: the pc of a task tells
\* which message it has, and only a caller has a request under way.
Fits(t, r) ==
    /\ t \in AcpCallers =>
         /\ r.pc \in {"idle", "checked", "send", "waiting", "expired"}
         /\ r.pc \in {"idle", "checked"} => r.msg = "none" /\ r.slot = "empty"
         /\ r.pc \in {"waiting", "expired"} => r.msg = "request"
         /\ r.msg = "request" => r.id \in 1 .. nextId - 1
    /\ t = "reader" =>
         /\ r.pc \in {"reading", "grace", "stopped"} => r.msg = "none" /\ r.id = 0
         /\ r.pc \in {"handling", "send"} => r.msg = "reply"
         /\ r.pc \in {"reading", "grace", "stopped", "handling", "send"}
    /\ t = "closer" =>
         /\ r.msg = "none" /\ r.pc \in {"idle", "queued", "rejecting", "done"}
         /\ r.pc \in {"queued", "rejecting"} => acpClosed
TasksFit == \A t \in AcpTasks : Fits(t, task[t])

\* Requests under way have ids of their own.
IdsDiffer ==
    \A c, d \in AcpCallers :
        task[c].msg = "request" /\ task[d].msg = "request" /\ task[c].id = task[d].id => c = d

\* The calls that have looked at the terminal error can still have an id each.
Checked == {c \in AcpCallers : task[c].pc = "checked"}
RoomForIds == nextId + Cardinality(Checked) <= MaxAcpRequests + 1

\* Until the client is closed the window is the last part of what was admitted, as much of it
\* as the limit allows.
WindowIsRecent ==
    ~acpClosed =>
      /\ \/ Len(seenIds) = SEEN_INBOUND_REQUEST_ID_RETENTION_LIMIT /\ Len(seenIds) <= Len(admitted)
         \/ Len(seenIds) = Len(admitted)
      /\ \A k \in 1 .. Len(seenIds) : seenIds[k] = admitted[Len(admitted) - Len(seenIds) + k]

\* The tasks that have yet to write a response to i, whether one is awaited from the host, and
\* the requests with id i that were taken up.
Owes(i) == {t \in AcpTasks : task[t].msg = "reply" /\ task[t].id = i}
Awaited(i) == IF i \in permissions THEN 1 ELSE 0
TakenUp(i) == {j \in DOMAIN admitted : admitted[j] = i}
RepliesAreOwed ==
    \A i \in AdapterIds :
        replies[i] + Cardinality(Owes(i)) + Awaited(i) <= Cardinality(TakenUp(i))

\* The inductive invariant of the client.
AcpInv ==
    /\ AcpTypeOK /\ TasksFit /\ IdsDiffer /\ RoomForIds
    /\ PendingIsUnanswered /\ DuplicatesAreDropped /\ WindowIsRecent /\ RepliesAreOwed

\* The record of t becomes r; the others keep theirs, but for the results of requests.
Moves(t, r) ==
    /\ task' \in [AcpTasks -> TaskRecords]
    /\ task'[t] = r
    /\ \A u \in AcpTasks \ {t} :
          /\ task'[u].pc = task[u].pc /\ task'[u].msg = task[u].msg /\ task'[u].id = task[u].id
          /\ task'[u].slot = task[u].slot \/ task[u].msg = "request"

\* Only t changes, to r.
MovesAlone(t, r) ==
    /\ task' \in [AcpTasks -> TaskRecords]
    /\ task'[t] = r
    /\ \A u \in AcpTasks \ {t} : task'[u] = task[u]

\* A step that touches one task is a special case.
LEMMA AloneMoves ==
    ASSUME NEW t \in AcpTasks, NEW r, MovesAlone(t, r)
    PROVE  Moves(t, r)
BY DEF Moves, MovesAlone

\* A step that leaves all tasks alone, too.
LEMMA NobodyMoves ==
    ASSUME AcpTypeOK, UNCHANGED task, NEW t \in AcpTasks
    PROVE  MovesAlone(t, task[t])
BY DEF AcpTypeOK, MovesAlone, TaskRecords

\* An assignment to the record of one task.
LEMMA Assigned ==
    ASSUME AcpTypeOK, NEW t \in AcpTasks, NEW r \in TaskRecords, task' = [task EXCEPT ![t] = r]
    PROVE  MovesAlone(t, r)
BY DEF AcpTypeOK, MovesAlone, TaskRecords

\* t moves and the requests with these ids get the result.
Hands(ids, result, t, r) ==
    /\ Moves(t, r)
    /\ \A u \in AcpTasks \ {t} :
          task'[u].slot = IF u \in AcpCallers /\ task[u].msg = "request" /\ task[u].id \in ids
                          THEN result ELSE task[u].slot

\* The results that rejecting or answering requests hands out, and the task t going on as r.
LEMMA Handed ==
    ASSUME AcpTypeOK, NEW ids, NEW result \in {"response", "error"}, NEW t \in AcpTasks,
           NEW r \in TaskRecords, task' = [Resolved(ids, result) EXCEPT ![t] = r]
    PROVE  Hands(ids, result, t, r)
<1>1. \A u \in AcpTasks : task[u] \in TaskRecords
  BY DEF AcpTypeOK, TaskRecords
<1>2. /\ DOMAIN task' = AcpTasks /\ task'[t] = r
      /\ task' = [u \in AcpTasks |-> IF u = t THEN r ELSE Resolved(ids, result)[u]]
  BY DEF Resolved
<1>3. ASSUME NEW u \in AcpTasks \ {t}
      PROVE  /\ task'[u] \in TaskRecords
             /\ task'[u].pc = task[u].pc /\ task'[u].msg = task[u].msg /\ task'[u].id = task[u].id
             /\ task'[u].slot = IF u \in AcpCallers /\ task[u].msg = "request" /\ task[u].id \in ids
                                THEN result ELSE task[u].slot
  <2>1. task'[u] = IF u \in AcpCallers /\ task[u].msg = "request" /\ task[u].id \in ids
                   THEN [task[u] EXCEPT !.slot = result] ELSE task[u]
    BY <1>2 DEF Resolved
  <2>2. task[u] \in TaskRecords
    BY <1>1
  <2> QED
    BY SMT, <2>1, <2>2 DEF TaskRecords
<1>4. task' \in [AcpTasks -> TaskRecords]
  BY <1>2, <1>3
<1> QED
  BY <1>2, <1>3, <1>4 DEF Hands, Moves

\* The shape of the tasks is kept by a move to a record that fits.
LEMMA FitKept ==
    ASSUME AcpTypeOK, TasksFit, NEW t \in AcpTasks, NEW r, Moves(t, r), Fits(t, r)',
           nextId' \in Nat, nextId <= nextId', acpClosed => acpClosed'
    PROVE  TasksFit'
<1>1. task'[t] = r
  BY DEF Moves
<1>2. Fits(t, task[t])'
  BY <1>1 DEF Fits
<1>3. ASSUME NEW u \in AcpTasks \ {t} PROVE Fits(u, task[u])'
  <2>1. /\ task'[u].pc = task[u].pc /\ task'[u].msg = task[u].msg /\ task'[u].id = task[u].id
        /\ task'[u].slot = task[u].slot \/ task[u].msg = "request"
    BY DEF Moves
  <2>2. Fits(u, task[u]) /\ nextId \in Nat
    BY SMT DEF TasksFit, AcpTypeOK
  <2> QED
    BY SMT, <2>1, <2>2 DEF Fits
<1> QED
  BY <1>2, <1>3 DEF TasksFit, AcpTasks

\* The sets whose sizes the invariant counts are finite.
LEMMA Finite ==
    ASSUME AcpTypeOK
    PROVE  /\ IsFiniteSet(AcpTasks)
           /\ IsFiniteSet(Checked) /\ Cardinality(Checked) \in Nat
           /\ \A i : IsFiniteSet(Owes(i)) /\ Cardinality(Owes(i)) \in Nat
           /\ \A i : IsFiniteSet(TakenUp(i)) /\ Cardinality(TakenUp(i)) \in Nat
<1>1. IsFiniteSet(AcpTasks) /\ IsFiniteSet(AcpCallers)
  <2>1. IsFiniteSet(AcpCallers \cup {"reader"})
    BY AcpAssumption, FS_AddElement
  <2>2. IsFiniteSet((AcpCallers \cup {"reader"}) \cup {"closer"})
    BY <2>1, FS_AddElement
  <2>3. AcpTasks = (AcpCallers \cup {"reader"}) \cup {"closer"}
    BY DEF AcpTasks
  <2> QED
    BY <2>2, <2>3, AcpAssumption
<1>2. IsFiniteSet(DOMAIN admitted)
  <2>1. DOMAIN admitted = 1 .. Len(admitted) /\ Len(admitted) \in Nat
    BY SMT DEF AcpTypeOK
  <2> QED
    BY SMT, <2>1, FS_Interval
<1>3. IsFiniteSet(Checked)
  BY <1>1, FS_Subset DEF Checked
<1>4. \A i : IsFiniteSet(Owes(i))
  BY <1>1, FS_Subset DEF Owes
<1>5. \A i : IsFiniteSet(TakenUp(i))
  BY <1>2, FS_Subset DEF TakenUp
<1> QED
  BY <1>1, <1>3, <1>4, <1>5, FS_CardinalityType

\* One more element makes a set at most one larger.
LEMMA OneMore ==
    ASSUME NEW S, IsFiniteSet(S), NEW x
    PROVE  IsFiniteSet(S \cup {x}) /\ Cardinality(S \cup {x}) \in Nat
           /\ Cardinality(S \cup {x}) <= Cardinality(S) + 1
<1>1. IsFiniteSet(S \cup {x}) /\ Cardinality(S) \in Nat /\ Cardinality(S \cup {x}) \in Nat
  BY FS_AddElement, FS_CardinalityType
<1>2. Cardinality(S \cup {x}) = IF x \in S THEN Cardinality(S) ELSE Cardinality(S) + 1
  BY FS_AddElement
<1> QED
  BY SMT, <1>1, <1>2

\* A task that does not come to be about to take an id leaves room for the others.
LEMMA RoomKept ==
    ASSUME AcpTypeOK, RoomForIds, NEW t \in AcpTasks, NEW r, Moves(t, r), r.pc # "checked",
           nextId' = nextId
    PROVE  RoomForIds'
<1>1. Checked' \subseteq Checked
  BY DEF Checked, Moves, AcpTasks
<1>2. Cardinality(Checked') <= Cardinality(Checked) /\ Cardinality(Checked) \in Nat
      /\ Cardinality(Checked') \in Nat
  BY <1>1, Finite, FS_Subset, FS_CardinalityType
<1> QED
  BY SMT, <1>2, AcpAssumption DEF RoomForIds, AcpTypeOK

\* How the set of tasks that owe a response to i changes when t moves.
LEMMA OwesMoves ==
    ASSUME AcpTypeOK, NEW t \in AcpTasks, NEW r, Moves(t, r), NEW i
    PROVE  Owes(i)' = IF r.msg = "reply" /\ r.id = i THEN Owes(i) \cup {t} ELSE Owes(i) \ {t}
BY DEF Moves, Owes

\* Responses stay accounted for when no task takes on a response that it did not owe.
LEMMA RepliesKept ==
    ASSUME AcpTypeOK, RepliesAreOwed, NEW t \in AcpTasks, NEW r, Moves(t, r),
           UNCHANGED <<replies, admitted>>, permissions' \subseteq permissions,
           r.msg = "reply" => r.id \notin AdapterIds \/ (task[t].msg = "reply" /\ r.id = task[t].id)
    PROVE  RepliesAreOwed'
<1> SUFFICES ASSUME NEW i \in AdapterIds
             PROVE  replies'[i] + Cardinality(Owes(i)') + Awaited(i)' <= Cardinality(TakenUp(i)')
  BY DEF RepliesAreOwed
<1>1. Owes(i)' \subseteq Owes(i)
  BY SMT, OwesMoves DEF Owes
<1>2. /\ Cardinality(Owes(i)') <= Cardinality(Owes(i)) /\ Cardinality(Owes(i)) \in Nat
      /\ Cardinality(Owes(i)') \in Nat
  BY <1>1, Finite, FS_Subset, FS_CardinalityType
<1>3. Awaited(i)' <= Awaited(i) /\ Awaited(i) \in Nat /\ Awaited(i)' \in Nat
  BY SMT DEF Awaited
<1>4. TakenUp(i)' = TakenUp(i) /\ replies'[i] = replies[i]
  BY DEF TakenUp
<1>5. /\ replies[i] + Cardinality(Owes(i)) + Awaited(i) <= Cardinality(TakenUp(i))
      /\ replies[i] \in Nat /\ Cardinality(TakenUp(i)) \in Nat
  BY Finite DEF RepliesAreOwed, AcpTypeOK
<1> QED
  BY SMT, <1>2, <1>3, <1>4, <1>5

\* No step but a registration gives a request an id.
LEMMA IdsKept ==
    ASSUME IdsDiffer, NEW t \in AcpTasks, NEW r, Moves(t, r),
           t \in AcpCallers /\ r.msg = "request" => task[t].msg = "request" /\ r.id = task[t].id
    PROVE  IdsDiffer'
BY SMT DEF IdsDiffer, Moves, AcpTasks

\* The table of pending requests, request by request.
LEMMA PendingById ==
    PendingIsUnanswered <=>
      /\ \A c \in AcpCallers :
            task[c].msg = "request" /\ task[c].slot = "empty" => task[c].id \in pending
      /\ \A i \in pending : \E c \in AcpCallers :
            task[c].msg = "request" /\ task[c].slot = "empty" /\ task[c].id = i
BY SMT DEF PendingIsUnanswered

\* The table is right after a step in which no request starts or ends to be unanswered.
LEMMA PendingKept ==
    ASSUME PendingIsUnanswered, NEW t \in AcpTasks, NEW r, MovesAlone(t, r), pending' = pending,
           t \in AcpCallers /\ r.msg = "request" =>
             task[t].msg = "request" /\ r.id = task[t].id /\ r.slot = task[t].slot,
           t \in AcpCallers /\ task[t].msg = "request" /\ task[t].slot = "empty" =>
             r.msg = "request"
    PROVE  PendingIsUnanswered'
<1>1. /\ task'[t] = r
      /\ \A c \in AcpCallers \ {t} : task'[c] = task[c]
  BY DEF MovesAlone, AcpTasks
<1>2. ASSUME NEW c \in AcpCallers
      PROVE  /\ task'[c].msg = "request" /\ task'[c].slot = "empty"
                  <=> task[c].msg = "request" /\ task[c].slot = "empty"
             /\ task[c].msg = "request" /\ task[c].slot = "empty" => task'[c].id = task[c].id
  BY <1>1
<1> QED
  BY SMT, <1>2 DEF PendingIsUnanswered

\* The table is right after a caller has given its request up and taken its responder back.
LEMMA PendingWithdrawn ==
    ASSUME PendingIsUnanswered, IdsDiffer, NEW t \in AcpTasks, NEW r, MovesAlone(t, r),
           r.msg # "request", t \in AcpCallers \/ task[t].msg # "request",
           pending' = pending \ Withdraw(t)
    PROVE  PendingIsUnanswered'
<1>1. /\ task'[t] = r
      /\ \A c \in AcpCallers \ {t} : task'[c] = task[c]
  BY DEF MovesAlone, AcpTasks
<1>2. ASSUME NEW c \in AcpCallers, task'[c].msg = "request", task'[c].slot = "empty"
      PROVE  task'[c].id \in pending'
  BY SMT, <1>1, <1>2, PendingById DEF IdsDiffer, Withdraw
<1>3. ASSUME NEW i \in pending'
      PROVE  \E c \in AcpCallers :
                task'[c].msg = "request" /\ task'[c].slot = "empty" /\ task'[c].id = i
  <2>1. i \in pending /\ i \notin Withdraw(t)
    BY <1>3
  <2>2. PICK c \in AcpCallers : task[c].msg = "request" /\ task[c].slot = "empty" /\ task[c].id = i
    BY <2>1, PendingById
  <2>3. c # t
    BY <2>1, <2>2 DEF Withdraw
  <2> QED
    BY <1>1, <2>2, <2>3
<1> QED
  BY SMT, <1>2, <1>3 DEF PendingIsUnanswered

\* The table is right, and empty, after reject_all.
LEMMA PendingRejected ==
    ASSUME PendingIsUnanswered, NEW t \in AcpTasks, NEW r, Moves(t, r),
           t \in AcpCallers => r.msg # "request", pending' = {},
           \A u \in AcpTasks \ {t} :
              task'[u].slot = IF u \in AcpCallers /\ task[u].msg = "request" /\ task[u].id \in pending
                              THEN "error" ELSE task[u].slot
    PROVE  PendingIsUnanswered'
<1>1. ASSUME NEW c \in AcpCallers, task'[c].msg = "request", task'[c].slot = "empty" PROVE FALSE
  <2>1. c \in AcpTasks \ {t}
    BY <1>1 DEF Moves, AcpTasks
  <2>2. task[c].msg = "request"
    BY <1>1, <2>1 DEF Moves
  <2>3. task[c].slot = "empty" /\ task[c].id \notin pending
    BY <1>1, <2>1, <2>2
  <2> QED
    BY <2>2, <2>3, PendingById
<1> QED
  BY <1>1 DEF PendingIsUnanswered

\* The window and what was admitted are related as before, or no longer.
LEMMA WindowKept ==
    ASSUME WindowIsRecent, DuplicatesAreDropped,
           acpClosed' \/ UNCHANGED <<acpClosed, seenIds, admitted>>
    PROVE  WindowIsRecent' /\ DuplicatesAreDropped'
BY DEF WindowIsRecent, DuplicatesAreDropped

\* A step that changes one task and none of the tables.
LEMMA Quiet ==
    ASSUME AcpInv, NEW t \in AcpTasks, NEW r, MovesAlone(t, r), UNCHANGED acpTables,
           Fits(t, r), r.pc # "checked",
           t \in AcpCallers /\ r.msg = "request" =>
             task[t].msg = "request" /\ r.id = task[t].id /\ r.slot = task[t].slot,
           t \in AcpCallers /\ task[t].msg = "request" /\ task[t].slot = "empty" =>
             r.msg = "request",
           r.msg = "reply" => r.id \notin AdapterIds \/ (task[t].msg = "reply" /\ r.id = task[t].id)
    PROVE  AcpInv'
<1>1. /\ AcpTypeOK /\ TasksFit /\ IdsDiffer /\ RoomForIds
      /\ PendingIsUnanswered /\ DuplicatesAreDropped /\ WindowIsRecent /\ RepliesAreOwed
  BY DEF AcpInv
<1>2. Moves(t, r)
  BY AloneMoves
<1>3. UNCHANGED <<pending, nextId, seenIds, permissions, acpClosed, terminalError, asked,
                  admitted, replies>>
  BY DEF acpTables
<1>4. AcpTypeOK'
  BY <1>1, <1>3 DEF AcpTypeOK, MovesAlone, TaskRecords
<1>5. Fits(t, r)' /\ nextId' \in Nat /\ nextId <= nextId'
  BY SMT, <1>1, <1>3 DEF Fits, AcpTypeOK
<1>6. TasksFit'
  BY <1>1, <1>2, <1>3, <1>5, FitKept
<1>7. IdsDiffer' /\ RoomForIds' /\ PendingIsUnanswered' /\ RepliesAreOwed'
  BY <1>1, <1>2, <1>3, IdsKept, RoomKept, PendingKept, RepliesKept
<1>8. WindowIsRecent' /\ DuplicatesAreDropped'
  BY <1>1, <1>3, WindowKept
<1> QED
  BY <1>4, <1>6, <1>7, <1>8 DEF AcpInv

\* The fields of a task's record.
LEMMA Fields ==
    ASSUME AcpTypeOK, NEW t \in AcpTasks
    PROVE  /\ task[t] \in TaskRecords /\ task[t].pc \in TaskPcs
           /\ task[t].kind \in {"none", "prompt", "cancel", "permission"} /\ task[t].id \in Nat
           /\ task[t].msg \in {"none", "request", "reply", "notify"}
           /\ task[t].slot \in {"empty", "response", "error"}
<1>1. task[t] \in TaskRecords
  BY DEF AcpTypeOK, TaskRecords
<1> QED
  BY <1>1 DEF TaskRecords

\* A task at rest has a record, too.
LEMMA RestTyped == \A at \in TaskPcs : Resting(at) \in TaskRecords
BY DEF TaskRecords, Resting

\* write_message changes where the task is and what it has to send.
LEMMA Sends ==
    ASSUME AcpTypeOK, NEW t \in AcpTasks, NEW m \in {"request", "reply", "notify"}, Send(t, m)
    PROVE  MovesAlone(t, [pc |-> "send", kind |-> task[t].kind, msg |-> m, id |-> task[t].id,
                          slot |-> task[t].slot])
<1> DEFINE r == [pc |-> "send", kind |-> task[t].kind, msg |-> m, id |-> task[t].id,
                 slot |-> task[t].slot]
<1>1. r \in TaskRecords
  BY Fields DEF TaskRecords, TaskPcs
<1>2. task' = [task EXCEPT ![t] = r]
  <2>1. task \in [AcpTasks -> TaskRecords] /\ task' = [task EXCEPT ![t].pc = "send", ![t].msg = m]
    BY DEF AcpTypeOK, TaskRecords, Send
  <2>2. task'[t] = [task[t] EXCEPT !.pc = "send", !.msg = m]
        /\ \A u \in AcpTasks \ {t} : task'[u] = task[u]
    BY <2>1
  <2>3. task'[t] = r
    BY <2>2, Fields DEF TaskRecords
  <2> QED
    BY <2>1, <2>2, <2>3
<1> QED
  BY <1>1, <1>2, Assigned

\* The same, for a record that does not change with the step.
LEMMA SendsSome ==
    ASSUME AcpTypeOK, NEW t \in AcpTasks, NEW m \in {"request", "reply", "notify"}, Send(t, m)
    PROVE  \E r \in TaskRecords : MovesAlone(t, r) /\ r.pc = "send" /\ r.msg = m
                                  /\ r.id = task[t].id /\ r.slot = task[t].slot
<1> DEFINE q == [pc |-> "send", kind |-> task[t].kind, msg |-> m, id |-> task[t].id,
                 slot |-> task[t].slot]
<1>1. q \in TaskRecords
  BY Fields DEF TaskRecords, TaskPcs
<1>2. MovesAlone(t, q)
  BY Sends
<1>3. q.pc = "send" /\ q.msg = m /\ q.id = task[t].id /\ q.slot = task[t].slot
  OBVIOUS
<1> QED
  BY <1>1, <1>2, <1>3

\* Which task a name is.
LEMMA TaskNames ==
    /\ "reader" \in AcpTasks /\ "closer" \in AcpTasks
    /\ \A c \in AcpCallers : c \in AcpTasks /\ c # "reader" /\ c # "closer"
BY AcpAssumption DEF AcpTasks

\* notify, called by the host.
LEMMA NotifyStep == ASSUME AcpInv, NEW c \in AcpCallers, Notify(c) PROVE AcpInv'
<1> DEFINE r == [pc |-> "send", kind |-> task[c].kind, msg |-> "notify", id |-> task[c].id,
                 slot |-> task[c].slot]
<1>1. AcpTypeOK /\ Fits(c, task[c]) /\ c \in AcpTasks /\ c # "reader" /\ c # "closer"
  BY TaskNames DEF AcpInv, TasksFit
<1>2. MovesAlone(c, r)
  BY <1>1, Sends DEF Notify
<1>3. UNCHANGED acpTables /\ task[c].msg = "none"
  BY <1>1 DEF Notify, Fits
<1>4. Fits(c, r)
  BY <1>1 DEF Fits
<1> QED
  BY <1>1, <1>2, <1>3, <1>4, Quiet

\* What notify does when request calls it, and a return: the task has no request any more.
LEMMA NotifiesOrRests ==
    ASSUME AcpInv, NEW c \in AcpCallers,
           NotifyOrRest(c) \/ task' = [task EXCEPT ![c] = Resting("idle")]
    PROVE  \E r \in TaskRecords : MovesAlone(c, r) /\ Fits(c, r) /\ Fits(c, r)'
                                  /\ r.msg \in {"none", "notify"} /\ r.pc # "checked"
<1>1. AcpTypeOK /\ Fits(c, task[c]) /\ c \in AcpTasks /\ c # "reader" /\ c # "closer"
  BY TaskNames DEF AcpInv, TasksFit
<1>2. CASE Send(c, "notify")
  <2>1. PICK r \in TaskRecords : MovesAlone(c, r) /\ r.pc = "send" /\ r.msg = "notify"
    BY <1>1, <1>2, SendsSome
  <2>2. Fits(c, r) /\ Fits(c, r)'
    BY <1>1, <2>1 DEF Fits
  <2> QED
    BY <2>1, <2>2
<1>3. CASE task' = [task EXCEPT ![c] = Resting("idle")]
  <2>1. Resting("idle") \in TaskRecords
    BY <1>1, RestTyped DEF TaskPcs
  <2>2. MovesAlone(c, Resting("idle"))
    BY <1>1, <1>3, <2>1, Assigned
  <2>3. Fits(c, Resting("idle")) /\ Fits(c, Resting("idle"))'
    BY <1>1 DEF Fits, Resting
  <2>4. Resting("idle").msg = "none" /\ Resting("idle").pc = "idle"
    BY DEF Resting
  <2> QED
    BY <2>1, <2>2, <2>3, <2>4
<1> QED
  BY <1>2, <1>3 DEF NotifyOrRest

\* request returns what its channel carries.
LEMMA ReceiveStep ==
    ASSUME AcpInv, NEW c \in AcpCallers, NEW notFound \in BOOLEAN, Receive(c, notFound)
    PROVE  AcpInv'
<1>1. PICK r \in TaskRecords : MovesAlone(c, r) /\ Fits(c, r)
                               /\ r.msg \in {"none", "notify"} /\ r.pc # "checked"
  BY NotifiesOrRests DEF Receive
<1>2. UNCHANGED acpTables /\ task[c].slot # "empty"
  BY DEF Receive
<1> QED
  BY <1>1, <1>2, Quiet, TaskNames

\* The timer of request fires.
LEMMA ExpireStep == ASSUME AcpInv, NEW c \in AcpCallers, Expire(c) PROVE AcpInv'
<1> DEFINE r == [pc |-> "expired", kind |-> task[c].kind, msg |-> task[c].msg, id |-> task[c].id,
                 slot |-> task[c].slot]
<1>1. AcpTypeOK /\ Fits(c, task[c]) /\ c \in AcpTasks /\ c # "reader" /\ c # "closer"
  BY TaskNames DEF AcpInv, TasksFit
<1>2. MovesAlone(c, r)
  <2>1. task \in [AcpTasks -> TaskRecords] /\ task' = [task EXCEPT ![c].pc = "expired"]
    BY <1>1 DEF AcpTypeOK, TaskRecords, Expire
  <2>2. task'[c] = r /\ r \in TaskRecords
    BY SMT, <1>1, <2>1, Fields DEF TaskRecords, TaskPcs
  <2> QED
    BY <2>1, <2>2 DEF MovesAlone
<1>3. UNCHANGED acpTables /\ task[c].msg = "request"
  BY <1>1 DEF Expire, Fits
<1>4. Fits(c, r)
  BY <1>1, <1>3 DEF Fits
<1> QED
  BY <1>1, <1>2, <1>3, <1>4, Quiet

\* The writer is shut down.
LEMMA ShutDownStep == ASSUME AcpInv, NEW ok \in BOOLEAN, ShutDown(ok) PROVE AcpInv'
<1> DEFINE r == Resting(IF ok THEN "rejecting" ELSE "done")
<1>1. AcpTypeOK /\ Fits("closer", task["closer"]) /\ "closer" \in AcpTasks
      /\ "closer" \notin AcpCallers
  BY TaskNames DEF AcpInv, TasksFit
<1>2. MovesAlone("closer", r)
  <2>1. r \in TaskRecords
    BY <1>1, RestTyped DEF TaskPcs
  <2> QED
    BY <1>1, <2>1, Assigned DEF ShutDown
<1>3. UNCHANGED acpTables /\ acpClosed
  BY <1>1 DEF ShutDown, Fits
<1>4. Fits("closer", r) /\ r.pc # "checked" /\ r.msg = "none"
  BY <1>1, <1>3 DEF Fits, Resting
<1> HIDE DEF r
<1> QED
  BY <1>1, <1>2, <1>3, <1>4, Quiet

\* The reader answers what its handler made of a request, or a line that does not parse.
LEMMA AnswerStep == ASSUME AcpInv, HandlerEnds \/ ReadGarbage PROVE AcpInv'
<1> DEFINE r == [pc |-> "send", kind |-> task["reader"].kind, msg |-> "reply",
                 id |-> task["reader"].id, slot |-> task["reader"].slot]
<1>1. AcpTypeOK /\ Fits("reader", task["reader"]) /\ "reader" \in AcpTasks
      /\ "reader" \notin AcpCallers
  BY TaskNames DEF AcpInv, TasksFit
<1>2. MovesAlone("reader", r) /\ UNCHANGED acpTables
  BY <1>1, Sends DEF HandlerEnds, ReadGarbage
<1>3. r.id \notin AdapterIds \/ (task["reader"].msg = "reply" /\ r.id = task["reader"].id)
  BY <1>1, AcpAssumption DEF HandlerEnds, ReadGarbage, Reading, Fits, AdapterIds
<1>4. Fits("reader", r) /\ r.pc # "checked"
  BY <1>1 DEF Fits
<1> QED
  BY <1>1, <1>2, <1>3, <1>4, Quiet

\* The adapter's output ends.
LEMMA EofStep == ASSUME AcpInv, AdapterEof PROVE AcpInv'
<1> DEFINE r == [pc |-> "grace", kind |-> task["reader"].kind, msg |-> task["reader"].msg,
                 id |-> task["reader"].id, slot |-> task["reader"].slot]
<1>1. AcpTypeOK /\ Fits("reader", task["reader"]) /\ "reader" \in AcpTasks
      /\ "reader" \notin AcpCallers
  BY TaskNames DEF AcpInv, TasksFit
<1>2. MovesAlone("reader", r)
  <2>1. task \in [AcpTasks -> TaskRecords] /\ task' = [task EXCEPT !["reader"].pc = "grace"]
    BY <1>1 DEF AcpTypeOK, TaskRecords, AdapterEof
  <2>2. task'["reader"] = r /\ r \in TaskRecords
    BY SMT, <1>1, <2>1, Fields DEF TaskRecords, TaskPcs
  <2> QED
    BY <2>1, <2>2 DEF MovesAlone
<1>3. UNCHANGED acpTables /\ r.msg = "none" /\ r.id = 0
  BY <1>1 DEF AdapterEof, Reading, Fits
<1>4. Fits("reader", r) /\ r.pc # "checked"
  BY <1>1, <1>3 DEF Fits
<1> QED
  BY <1>1, <1>2, <1>3, <1>4, Quiet

\* request, up to its look at the terminal error.
LEMMA StartStep ==
    ASSUME AcpInv, NEW c \in AcpCallers, NEW kind \in {"prompt", "cancel", "permission"},
           NEW id \in Nat, StartRequest(c, kind, id)
    PROVE  AcpInv'
<1> DEFINE r == [pc |-> "checked", kind |-> kind, msg |-> "none", id |-> id, slot |-> "empty"]
<1>1. /\ AcpTypeOK /\ TasksFit /\ IdsDiffer /\ RoomForIds
      /\ PendingIsUnanswered /\ DuplicatesAreDropped /\ WindowIsRecent /\ RepliesAreOwed
  BY DEF AcpInv
<1>2. Fits(c, task[c]) /\ c \in AcpTasks /\ c # "reader" /\ c # "closer"
  BY <1>1, TaskNames DEF TasksFit
<1>3. /\ task[c].pc = "idle" /\ task[c].msg = "none" /\ task[c].slot = "empty"
      /\ UNCHANGED <<pending, nextId, seenIds, permissions, acpClosed, terminalError, asked,
                     admitted, replies>>
  BY <1>2 DEF StartRequest, Fits, acpTables
<1>4. MovesAlone(c, r)
  <2>1. /\ task \in [AcpTasks -> TaskRecords]
        /\ task' = [task EXCEPT ![c].pc = "checked", ![c].kind = kind, ![c].id = id]
    BY <1>1 DEF AcpTypeOK, TaskRecords, StartRequest
  <2>2. /\ task'[c] = [task[c] EXCEPT !.pc = "checked", !.kind = kind, !.id = id]
        /\ \A u \in AcpTasks \ {c} : task'[u] = task[u]
    BY <1>2, <2>1
  <2>3. task'[c] = r
    BY <1>1, <1>2, <1>3, <2>2, Fields DEF TaskRecords
  <2>4. r \in TaskRecords
    BY DEF TaskRecords, TaskPcs
  <2> QED
    BY <2>1, <2>2, <2>3, <2>4 DEF MovesAlone
<1>5. Moves(c, r) /\ r.pc = "checked" /\ r.msg = "none"
  BY <1>2, <1>4, AloneMoves
<1>6. AcpTypeOK'
  BY <1>1, <1>3, <1>4 DEF AcpTypeOK, MovesAlone, TaskRecords
<1>7. Fits(c, r)' /\ nextId' \in Nat /\ nextId <= nextId'
  BY SMT, <1>1, <1>2, <1>3 DEF Fits, AcpTypeOK
<1> HIDE DEF r
<1>8. TasksFit'
  BY <1>1, <1>2, <1>3, <1>5, <1>7, FitKept
<1>9. RoomForIds'
  <2>1. Checked' = Checked \cup {c}
    BY <1>2, <1>5 DEF Checked, Moves, AcpTasks
  <2>2. IsFiniteSet(Checked) /\ Cardinality(Checked) \in Nat
    BY <1>1, Finite
  <2>3. Cardinality(Checked') \in Nat /\ Cardinality(Checked') <= Cardinality(Checked) + 1
    BY <2>1, <2>2, OneMore
  <2>4. nextId + Cardinality(Checked) <= MaxAcpRequests
    BY DEF StartRequest, Checked
  <2> QED
    BY SMT, <1>1, <1>3, <2>2, <2>3, <2>4, AcpAssumption DEF RoomForIds, AcpTypeOK
<1>10. IdsDiffer' /\ PendingIsUnanswered' /\ RepliesAreOwed'
  BY <1>1, <1>2, <1>3, <1>4, <1>5, IdsKept, PendingKept, RepliesKept
<1>11. WindowIsRecent' /\ DuplicatesAreDropped'
  BY <1>1, <1>3, WindowKept
<1> QED
  BY <1>6, <1>8, <1>9, <1>10, <1>11 DEF AcpInv

\* maybe_handle_permission_response: the caller owes the response that was awaited.
LEMMA AnswerPermissionStep ==
    ASSUME AcpInv, NEW c \in AcpCallers, AnswerPermission(c) PROVE AcpInv'
<1>1. /\ AcpTypeOK /\ TasksFit /\ IdsDiffer /\ RoomForIds
      /\ PendingIsUnanswered /\ DuplicatesAreDropped /\ WindowIsRecent /\ RepliesAreOwed
  BY DEF AcpInv
<1>2. Fits(c, task[c]) /\ c \in AcpTasks /\ c # "reader" /\ c # "closer"
  BY <1>1, TaskNames DEF TasksFit
<1>3. /\ task[c].pc = "checked" /\ task[c].msg = "none" /\ task[c].id \in permissions
      /\ permissions' = permissions \ {task[c].id}
      /\ UNCHANGED <<pending, nextId, seenIds, acpClosed, terminalError, asked, admitted, replies>>
  BY <1>2 DEF AnswerPermission, AnswersPermission, Fits
<1>4. PICK r \in TaskRecords : MovesAlone(c, r) /\ r.pc = "send" /\ r.msg = "reply" /\ r.id = task[c].id
  BY <1>1, <1>2, SendsSome DEF AnswerPermission
<1>5. Moves(c, r)
  BY <1>2, <1>4, AloneMoves
<1>6. AcpTypeOK'
  BY <1>1, <1>3, <1>4 DEF AcpTypeOK, MovesAlone, TaskRecords
<1>7. Fits(c, r)' /\ nextId' \in Nat /\ nextId <= nextId'
  BY SMT, <1>1, <1>2, <1>3, <1>4 DEF Fits, AcpTypeOK
<1>8. TasksFit'
  BY <1>1, <1>2, <1>3, <1>4, <1>5, <1>7, FitKept
<1>9. RepliesAreOwed'
  <2> SUFFICES ASSUME NEW i \in AdapterIds
               PROVE  replies'[i] + Cardinality(Owes(i)') + Awaited(i)' <= Cardinality(TakenUp(i)')
    BY DEF RepliesAreOwed
  <2>1. /\ IsFiniteSet(Owes(i)) /\ Cardinality(Owes(i)) \in Nat
        /\ Cardinality(TakenUp(i)) \in Nat /\ replies[i] \in Nat
        /\ replies[i] + Cardinality(Owes(i)) + Awaited(i) <= Cardinality(TakenUp(i))
    BY <1>1, Finite DEF RepliesAreOwed, AcpTypeOK
  <2>2. TakenUp(i)' = TakenUp(i) /\ replies'[i] = replies[i]
    BY <1>3 DEF TakenUp
  <2>3. CASE i = task[c].id
    <3>1. Owes(i)' = Owes(i) \cup {c}
      BY SMT, <1>1, <1>2, <1>4, <1>5, <2>3, OwesMoves
    <3>2. Cardinality(Owes(i)') \in Nat /\ Cardinality(Owes(i)') <= Cardinality(Owes(i)) + 1
      BY <2>1, <3>1, OneMore
    <3>3. Awaited(i) = 1 /\ Awaited(i)' = 0
      BY <1>3, <2>3 DEF Awaited
    <3> QED
      BY SMT, <2>1, <2>2, <3>2, <3>3
  <2>4. CASE i # task[c].id
    <3>1. Owes(i)' = Owes(i)
      <4>1. Owes(i)' = Owes(i) \ {c}
        BY SMT, <1>1, <1>2, <1>4, <1>5, <2>4, OwesMoves
      <4> QED
        BY <1>3, <4>1 DEF Owes
    <3>2. Awaited(i)' = Awaited(i)
      BY <1>3, <2>4 DEF Awaited
    <3> QED
      BY <2>1, <2>2, <3>1, <3>2
  <2> QED
    BY <2>3, <2>4
<1>10. IdsDiffer' /\ PendingIsUnanswered' /\ RoomForIds'
  BY <1>1, <1>2, <1>3, <1>4, <1>5, IdsKept, PendingKept, RoomKept
<1>11. WindowIsRecent' /\ DuplicatesAreDropped'
  BY <1>1, <1>3, WindowKept
<1> QED
  BY <1>6, <1>8, <1>9, <1>10, <1>11 DEF AcpInv

\* request registers its responder under an id that no request has had.
LEMMA RegisterStep == ASSUME AcpInv, NEW c \in AcpCallers, RegisterRequest(c) PROVE AcpInv'
<1>1. /\ AcpTypeOK /\ TasksFit /\ IdsDiffer /\ RoomForIds
      /\ PendingIsUnanswered /\ DuplicatesAreDropped /\ WindowIsRecent /\ RepliesAreOwed
  BY DEF AcpInv
<1>2. Fits(c, task[c]) /\ c \in AcpTasks /\ c # "reader" /\ c # "closer"
  BY <1>1, TaskNames DEF TasksFit
<1>3. /\ task[c].pc = "checked" /\ task[c].msg = "none" /\ task[c].slot = "empty"
      /\ pending' = pending \cup {nextId} /\ nextId' = nextId + 1
      /\ UNCHANGED <<seenIds, permissions, acpClosed, terminalError, asked, admitted, replies>>
  BY <1>2 DEF RegisterRequest, Fits
<1>4. PICK r \in TaskRecords : /\ MovesAlone(c, r) /\ r.pc = "send" /\ r.msg = "request"
                                  /\ r.id = nextId /\ r.slot = "empty"
  <2> DEFINE r == [pc |-> "send", kind |-> task[c].kind, msg |-> "request", id |-> nextId,
                   slot |-> "empty"]
  <2>1. /\ task \in [AcpTasks -> TaskRecords] /\ nextId \in Nat
        /\ task' = [task EXCEPT ![c].pc = "send", ![c].msg = "request", ![c].id = nextId]
    BY SMT, <1>1 DEF AcpTypeOK, TaskRecords, RegisterRequest
  <2>2. /\ task'[c] = [task[c] EXCEPT !.pc = "send", !.msg = "request", !.id = nextId]
        /\ \A u \in AcpTasks \ {c} : task'[u] = task[u]
    BY <1>2, <2>1
  <2>3. task'[c] = r
    BY <1>1, <1>2, <1>3, <2>2, Fields DEF TaskRecords
  <2>4. r \in TaskRecords
    BY <1>1, <1>2, <2>1, Fields DEF TaskRecords, TaskPcs
  <2>5. MovesAlone(c, r) /\ r.pc = "send" /\ r.msg = "request" /\ r.id = nextId /\ r.slot = "empty"
    BY <2>1, <2>2, <2>3, <2>4 DEF MovesAlone
  <2> QED
    BY <2>4, <2>5
<1>5. Moves(c, r)
  BY <1>2, <1>4, AloneMoves
<1>6. nextId \in Nat \ {0} /\ Fits(c, r)'
  BY SMT, <1>1, <1>2, <1>3, <1>4 DEF Fits, AcpTypeOK
<1>7. TasksFit'
  BY SMT, <1>1, <1>2, <1>3, <1>4, <1>5, <1>6, FitKept
<1>8. RoomForIds' /\ nextId' <= MaxAcpRequests + 1
  <2>1. Checked' = Checked \ {c} /\ c \in Checked
    BY <1>2, <1>3, <1>4, <1>5 DEF Checked, Moves, AcpTasks
  <2>2. IsFiniteSet(Checked) /\ Cardinality(Checked) \in Nat
    BY <1>1, Finite
  <2>3. Cardinality(Checked') = Cardinality(Checked) - 1 /\ Cardinality(Checked') \in Nat
    BY <2>1, <2>2, FS_RemoveElement, FS_CardinalityType
  <2> QED
    BY SMT, <1>1, <1>3, <1>6, <2>2, <2>3, AcpAssumption DEF RoomForIds
<1>9. AcpTypeOK'
  <2>1. /\ nextId' \in 1 .. MaxAcpRequests + 1
        /\ pending' \subseteq 1 .. nextId' - 1 /\ asked' \subseteq 1 .. nextId' - 1
    BY SMT, <1>1, <1>3, <1>6, <1>8, AcpAssumption DEF AcpTypeOK
  <2> QED
    BY <1>1, <1>3, <1>4, <2>1 DEF AcpTypeOK, MovesAlone, TaskRecords
<1>10. ASSUME NEW d \in AcpCallers, task[d].msg = "request" PROVE task[d].id # nextId
  BY SMT, <1>1, <1>6, <1>10, TaskNames DEF TasksFit, Fits
<1>11. task'[c] = r /\ \A d \in AcpCallers \ {c} : task'[d] = task[d]
  BY <1>4 DEF MovesAlone, AcpTasks
<1>12. IdsDiffer'
  BY SMT, <1>1, <1>4, <1>5, <1>10, <1>11 DEF IdsDiffer
<1>13. PendingIsUnanswered'
  <2>1. ASSUME NEW d \in AcpCallers, task'[d].msg = "request", task'[d].slot = "empty"
        PROVE  task'[d].id \in pending'
    BY SMT, <1>1, <1>3, <1>4, <1>5, <1>11, <2>1, PendingById
  <2>2. ASSUME NEW i \in pending'
        PROVE  \E d \in AcpCallers :
                  task'[d].msg = "request" /\ task'[d].slot = "empty" /\ task'[d].id = i
    <3>1. CASE i = nextId
      BY <1>4, <1>5, <1>11, <3>1
    <3>2. CASE i # nextId
      <4>1. PICK d \in AcpCallers :
              task[d].msg = "request" /\ task[d].slot = "empty" /\ task[d].id = i
        BY <1>1, <1>3, <2>2, <3>2, PendingById
      <4> QED
        BY <1>3, <1>11, <4>1
    <3> QED
      BY <3>1, <3>2
  <2> QED
    BY SMT, <2>1, <2>2 DEF PendingIsUnanswered
<1>14. RepliesAreOwed'
  BY <1>1, <1>2, <1>3, <1>4, <1>5, RepliesKept
<1>15. WindowIsRecent' /\ DuplicatesAreDropped'
  BY <1>1, <1>3, WindowKept
<1> QED
  BY <1>7, <1>8, <1>9, <1>12, <1>13, <1>14, <1>15 DEF AcpInv

\* The rest of the branch of request that a timer ends.
LEMMA GiveUpStep == ASSUME AcpInv, NEW c \in AcpCallers, GiveUp(c) PROVE AcpInv'
<1>1. /\ AcpTypeOK /\ TasksFit /\ IdsDiffer /\ RoomForIds
      /\ PendingIsUnanswered /\ DuplicatesAreDropped /\ WindowIsRecent /\ RepliesAreOwed
  BY DEF AcpInv
<1>2. Fits(c, task[c]) /\ c \in AcpTasks /\ c # "reader" /\ c # "closer"
  BY <1>1, TaskNames DEF TasksFit
<1>3. /\ task[c].msg = "request" /\ pending' = pending \ Withdraw(c)
      /\ UNCHANGED <<nextId, seenIds, permissions, acpClosed, terminalError, asked, admitted, replies>>
  BY <1>2 DEF GiveUp, Fits, Withdraw
<1>4. PICK r \in TaskRecords : /\ MovesAlone(c, r) /\ Fits(c, r)'
                               /\ r.msg \in {"none", "notify"} /\ r.pc # "checked"
  BY NotifiesOrRests DEF GiveUp
<1>5. Moves(c, r)
  BY <1>2, <1>4, AloneMoves
<1>6. AcpTypeOK'
  BY <1>1, <1>3, <1>4 DEF AcpTypeOK, MovesAlone, TaskRecords
<1>7. nextId' \in Nat /\ nextId <= nextId'
  BY SMT, <1>1, <1>3 DEF AcpTypeOK
<1>8. TasksFit'
  BY <1>1, <1>2, <1>3, <1>4, <1>5, <1>7, FitKept
<1>9. IdsDiffer' /\ PendingIsUnanswered' /\ RoomForIds' /\ RepliesAreOwed'
  BY <1>1, <1>2, <1>3, <1>4, <1>5, IdsKept, PendingWithdrawn, RoomKept, RepliesKept
<1>10. WindowIsRecent' /\ DuplicatesAreDropped'
  BY <1>1, <1>3, WindowKept
<1> QED
  BY <1>6, <1>8, <1>9, <1>10 DEF AcpInv

\* Where a task goes on after a write: a caller waits for its response, and any other task and
\* a caller whose write failed have nothing more to send.
WaitsOn(t, r) ==
    /\ r.msg = "request" /\ r.pc = "waiting" /\ r.id = task[t].id /\ r.slot = task[t].slot
    /\ t \in AcpCallers /\ t # "reader" /\ t # "closer" /\ task[t].msg = "request"
GoesToRest(t, r) ==
    /\ r.msg = "none" /\ r.id = 0 /\ r.slot = "empty"
    /\ \/ t = "reader" /\ t \notin AcpCallers /\ task[t].msg = "reply" /\ r.pc \in {"reading", "stopped"}
       \/ t \in AcpCallers /\ t # "reader" /\ t # "closer" /\ r.pc = "idle"

\* After a write a task does one or the other.
LEMMA GoesOn ==
    ASSUME AcpInv, NEW t \in AcpTasks, task[t].pc = "send", NEW ok \in BOOLEAN,
           NEW r, r = AfterWrite(t, ok)
    PROVE  /\ r \in TaskRecords
           /\ IF ok /\ task[t].msg = "request" THEN WaitsOn(t, r) ELSE GoesToRest(t, r)
<1>1. AcpTypeOK /\ Fits(t, task[t])
  BY DEF AcpInv, TasksFit
<1>2. \/ t \in AcpCallers /\ t # "reader" /\ t # "closer"
      \/ t = "reader" /\ t \notin AcpCallers /\ task[t].msg = "reply"
  BY <1>1, TaskNames DEF Fits, AcpTasks
<1>3. ASSUME NEW at \in TaskPcs, r = Resting(at)
      PROVE  r \in TaskRecords /\ r.msg = "none" /\ r.id = 0 /\ r.slot = "empty" /\ r.pc = at
  <2>1. r \in TaskRecords
    BY <1>1, <1>3, RestTyped
  <2> QED
    BY SMT, <1>3, <2>1 DEF Resting
<1>4. CASE t = "reader"
  <2>1. PICK at \in {"reading", "stopped"} : r = Resting(at)
    BY <1>4 DEF AfterWrite
  <2>2. r \in TaskRecords /\ r.msg = "none" /\ r.id = 0 /\ r.slot = "empty" /\ r.pc = at
    BY <1>3, <2>1 DEF TaskPcs
  <2> QED
    BY <1>2, <1>4, <2>1, <2>2 DEF GoesToRest
<1>5. CASE t # "reader" /\ ok /\ task[t].msg = "request"
  <2>1. r = [task[t] EXCEPT !.pc = "waiting"] /\ task[t] \in TaskRecords
    BY <1>1, <1>5, Fields DEF AfterWrite
  <2>2. /\ r \in TaskRecords /\ r.pc = "waiting" /\ r.msg = task[t].msg
        /\ r.id = task[t].id /\ r.slot = task[t].slot
    BY <2>1 DEF TaskRecords, TaskPcs
  <2> QED
    BY <1>2, <1>5, <2>2 DEF WaitsOn
<1>6. CASE t # "reader" /\ ~(ok /\ task[t].msg = "request")
  <2>1. r = Resting("idle")
    BY <1>6 DEF AfterWrite
  <2>2. r \in TaskRecords /\ r.msg = "none" /\ r.id = 0 /\ r.slot = "empty" /\ r.pc = "idle"
    BY <1>3, <2>1 DEF TaskPcs
  <2> QED
    BY <1>2, <1>6, <2>2 DEF GoesToRest
<1> QED
  BY <1>4, <1>5, <1>6

\* The message is written: a response that was owed is a response given.
LEMMA WriteOkStep == ASSUME AcpInv, NEW t \in AcpTasks, WriteOk(t) PROVE AcpInv'
<1>1. /\ AcpTypeOK /\ TasksFit /\ IdsDiffer /\ RoomForIds
      /\ PendingIsUnanswered /\ DuplicatesAreDropped /\ WindowIsRecent /\ RepliesAreOwed
  BY DEF AcpInv
<1>2. Fits(t, task[t]) /\ task[t].pc = "send"
  BY <1>1 DEF TasksFit, WriteOk
<1>3. PICK r : r = AfterWrite(t, TRUE)
  OBVIOUS
<1>4. /\ r \in TaskRecords /\ r.pc # "checked" /\ r.msg # "reply"
      /\ IF task[t].msg = "request" THEN WaitsOn(t, r) ELSE GoesToRest(t, r)
  <2>1. r \in TaskRecords /\ IF task[t].msg = "request" THEN WaitsOn(t, r) ELSE GoesToRest(t, r)
    BY <1>2, <1>3, GoesOn
  <2> QED
    BY <2>1 DEF WaitsOn, GoesToRest
<1>5. MovesAlone(t, r)
  BY <1>1, <1>3, <1>4, Assigned DEF WriteOk
<1>6. Moves(t, r)
  BY <1>5, AloneMoves
<1>7. /\ asked' = IF task[t].msg = "request" THEN asked \cup {task[t].id} ELSE asked
      /\ replies' = IF task[t].msg = "reply" /\ task[t].id # 0
                    THEN [replies EXCEPT ![task[t].id] = @ + 1] ELSE replies
      /\ UNCHANGED <<pending, nextId, seenIds, permissions, acpClosed, terminalError, admitted>>
  BY DEF WriteOk
<1>8. AcpTypeOK'
  <2>1. asked' \subseteq 1 .. nextId - 1
    BY <1>1, <1>2, <1>4, <1>7 DEF AcpTypeOK, Fits, WaitsOn
  <2>2. replies' \in [AdapterIds -> Nat]
    <3>1. replies \in [AdapterIds -> Nat]
      BY <1>1 DEF AcpTypeOK
    <3>2. CASE task[t].id \in AdapterIds
      <4>1. [replies EXCEPT ![task[t].id] = @ + 1] \in [AdapterIds -> Nat]
        BY SMT, <3>1, <3>2
      <4> QED
        BY <1>7, <3>1, <4>1
    <3>3. CASE task[t].id \notin AdapterIds
      <4>1. [replies EXCEPT ![task[t].id] = @ + 1] = replies
        BY <3>1, <3>3
      <4> QED
        BY <1>7, <3>1, <4>1
    <3> QED
      BY <3>2, <3>3
  <2> QED
    BY <1>1, <1>5, <1>7, <2>1, <2>2 DEF AcpTypeOK, MovesAlone, TaskRecords
<1>9. Fits(t, r)' /\ nextId' \in Nat /\ nextId <= nextId'
  BY SMT, <1>1, <1>2, <1>4, <1>7 DEF Fits, AcpTypeOK, WaitsOn, GoesToRest
<1>10. TasksFit'
  BY <1>1, <1>6, <1>7, <1>9, FitKept
<1>11. IdsDiffer' /\ RoomForIds' /\ PendingIsUnanswered'
  BY <1>1, <1>4, <1>5, <1>6, <1>7, IdsKept, RoomKept, PendingKept DEF WaitsOn, GoesToRest
<1>12. RepliesAreOwed'
  <2> SUFFICES ASSUME NEW i \in AdapterIds
               PROVE  replies'[i] + Cardinality(Owes(i)') + Awaited(i)' <= Cardinality(TakenUp(i)')
    BY DEF RepliesAreOwed
  <2>1. /\ IsFiniteSet(Owes(i)) /\ Cardinality(Owes(i)) \in Nat /\ Awaited(i) \in Nat
        /\ Cardinality(TakenUp(i)) \in Nat /\ replies[i] \in Nat
        /\ replies[i] + Cardinality(Owes(i)) + Awaited(i) <= Cardinality(TakenUp(i))
        /\ DOMAIN replies = AdapterIds
    BY <1>1, Finite DEF RepliesAreOwed, AcpTypeOK, Awaited
  <2>2. TakenUp(i)' = TakenUp(i) /\ Awaited(i)' = Awaited(i)
    BY <1>7 DEF TakenUp, Awaited
  <2>3. Owes(i)' = Owes(i) \ {t}
    BY <1>1, <1>4, <1>6, OwesMoves
  <2>4. CASE t \in Owes(i)
    <3>1. Cardinality(Owes(i)') = Cardinality(Owes(i)) - 1 /\ Cardinality(Owes(i)') \in Nat
      BY <2>1, <2>3, <2>4, FS_RemoveElement, FS_CardinalityType
    <3>2. task[t].msg = "reply" /\ task[t].id = i /\ i # 0
      BY <2>4, AcpAssumption DEF Owes, AdapterIds
    <3>3. replies'[i] = replies[i] + 1
      BY <1>7, <2>1, <3>2
    <3> QED
      BY SMT, <2>1, <2>2, <3>1, <3>3
  <2>5. CASE t \notin Owes(i)
    <3>1. Owes(i)' = Owes(i)
      BY <2>3, <2>5
    <3>2. replies'[i] = replies[i]
      BY <1>7, <2>1, <2>5 DEF Owes
    <3> QED
      BY <2>1, <2>2, <3>1, <3>2
  <2> QED
    BY <2>4, <2>5
<1>13. WindowIsRecent' /\ DuplicatesAreDropped'
  BY <1>1, <1>7, WindowKept
<1> QED
  BY <1>8, <1>10, <1>11, <1>12, <1>13 DEF AcpInv

\* reject_all by a task that goes to rest, once the client is closed.
LEMMA Rejects ==
    ASSUME AcpInv, NEW t \in AcpTasks, NEW r \in TaskRecords, RejectAll,
           task' = [Resolved(pending, "error") EXCEPT ![t] = r],
           Fits(t, r)', r.pc # "checked", r.msg = "none",
           acpClosed' = TRUE, terminalError' \in BOOLEAN,
           UNCHANGED <<nextId, asked, admitted, replies>>
    PROVE  AcpInv'
<1>1. /\ AcpTypeOK /\ TasksFit /\ IdsDiffer /\ RoomForIds
      /\ PendingIsUnanswered /\ DuplicatesAreDropped /\ WindowIsRecent /\ RepliesAreOwed
  BY DEF AcpInv
<1>2. /\ Moves(t, r)
      /\ \A u \in AcpTasks \ {t} :
            task'[u].slot = IF u \in AcpCallers /\ task[u].msg = "request" /\ task[u].id \in pending
                            THEN "error" ELSE task[u].slot
  BY <1>1, Handed DEF Hands
<1>3. pending' = {} /\ permissions' = {} /\ seenIds' = <<>>
  BY DEF RejectAll
<1>4. AcpTypeOK'
  <2>1. task' \in [AcpTasks -> TaskRecords]
    BY <1>2 DEF Moves
  <2>2. seenIds' \in Seq(AdapterIds) /\ Len(seenIds') = 0
    BY SMT, <1>3
  <2> QED
    BY SMT, <1>1, <1>3, <2>1, <2>2, AcpAssumption DEF AcpTypeOK, TaskRecords
<1>5. nextId' \in Nat /\ nextId <= nextId'
  BY SMT, <1>1 DEF AcpTypeOK
<1>6. TasksFit'
  BY <1>1, <1>2, <1>5, FitKept
<1>7. IdsDiffer' /\ RoomForIds' /\ RepliesAreOwed'
  BY <1>1, <1>2, <1>3, IdsKept, RoomKept, RepliesKept
<1>8. PendingIsUnanswered'
  BY <1>1, <1>2, <1>3, PendingRejected
<1>9. WindowIsRecent' /\ DuplicatesAreDropped'
  BY <1>1, WindowKept
<1> QED
  BY <1>4, <1>6, <1>7, <1>8, <1>9 DEF AcpInv

\* fail_transport by a task that goes to rest: the first one rejects all, a later one takes its
\* own responder back.
LEMMA Fails ==
    ASSUME AcpInv, NEW t \in AcpTasks, NEW r \in TaskRecords, FailTransport(t, r),
           Fits(t, r), Fits(t, r)', r.pc # "checked", r.msg = "none",
           t \in AcpCallers \/ task[t].msg # "request",
           UNCHANGED <<nextId, asked, admitted, replies>>
    PROVE  AcpInv'
<1>1. /\ AcpTypeOK /\ TasksFit /\ IdsDiffer /\ RoomForIds
      /\ PendingIsUnanswered /\ DuplicatesAreDropped /\ WindowIsRecent /\ RepliesAreOwed
  BY DEF AcpInv
<1>2. CASE ~acpClosed
  <2>1. /\ acpClosed' = TRUE /\ terminalError' = TRUE /\ RejectAll
        /\ task' = [Resolved(pending, "error") EXCEPT ![t] = r]
    BY <1>2 DEF FailTransport
  <2> QED
    BY <2>1, Rejects
<1>3. CASE acpClosed
  <2>1. /\ pending' = pending \ Withdraw(t) /\ task' = [task EXCEPT ![t] = r]
        /\ UNCHANGED <<acpClosed, terminalError, permissions, seenIds>>
    BY <1>3 DEF FailTransport
  <2>2. MovesAlone(t, r)
    BY <1>1, <2>1, Assigned
  <2>3. Moves(t, r)
    BY <2>2, AloneMoves
  <2>4. AcpTypeOK'
    BY <1>1, <2>1, <2>2 DEF AcpTypeOK, MovesAlone, TaskRecords
  <2>5. nextId' \in Nat /\ nextId <= nextId'
    BY SMT, <1>1 DEF AcpTypeOK
  <2>6. TasksFit'
    BY <1>1, <2>1, <2>3, <2>5, FitKept
  <2>7. IdsDiffer' /\ RoomForIds' /\ RepliesAreOwed' /\ PendingIsUnanswered'
    BY <1>1, <2>1, <2>2, <2>3, IdsKept, RoomKept, RepliesKept, PendingWithdrawn
  <2>8. WindowIsRecent' /\ DuplicatesAreDropped'
    BY <1>1, <2>1, WindowKept
  <2> QED
    BY <2>4, <2>6, <2>7, <2>8 DEF AcpInv
<1> QED
  BY <1>2, <1>3

\* A write fails.
LEMMA WriteFailsStep == ASSUME AcpInv, NEW t \in AcpTasks, WriteFails(t) PROVE AcpInv'
<1>1. PICK r : r = AfterWrite(t, FALSE)
  OBVIOUS
<1>2. /\ task[t].pc = "send" /\ FailTransport(t, r)
      /\ UNCHANGED <<nextId, asked, admitted, replies>>
  BY <1>1 DEF WriteFails
<1>3. r \in TaskRecords /\ GoesToRest(t, r)
  BY <1>1, <1>2, GoesOn
<1>4. Fits(t, r) /\ Fits(t, r)' /\ r.pc # "checked" /\ r.msg = "none"
      /\ (t \in AcpCallers \/ task[t].msg # "request")
  BY <1>3 DEF Fits, GoesToRest
<1> QED
  BY <1>2, <1>3, <1>4, Fails

\* The read loop ends.
LEMMA ReaderFailsStep == ASSUME AcpInv, ReaderFails PROVE AcpInv'
<1>1. AcpTypeOK /\ Fits("reader", task["reader"]) /\ "reader" \in AcpTasks
      /\ "reader" \notin AcpCallers
  BY TaskNames DEF AcpInv, TasksFit
<1>2. PICK r : r = Resting("stopped")
  OBVIOUS
<1>3. FailTransport("reader", r) /\ UNCHANGED <<nextId, asked, admitted, replies>>
  BY <1>2 DEF ReaderFails
<1>4. r \in TaskRecords
  BY <1>1, <1>2, RestTyped DEF TaskPcs
<1>5. Fits("reader", r) /\ Fits("reader", r)' /\ r.pc # "checked" /\ r.msg = "none"
  BY <1>1, <1>2 DEF Fits, Resting
<1>6. task["reader"].msg # "request"
  BY <1>1 DEF ReaderFails, Fits
<1> QED
  BY <1>1, <1>3, <1>4, <1>5, <1>6, Fails

\* The rest of close.
LEMMA CloseRejectsStep == ASSUME AcpInv, CloseRejects PROVE AcpInv'
<1>1. AcpTypeOK /\ Fits("closer", task["closer"]) /\ "closer" \in AcpTasks
      /\ "closer" \notin AcpCallers
  BY TaskNames DEF AcpInv, TasksFit
<1>2. PICK r : r = Resting("done")
  OBVIOUS
<1>3. /\ RejectAll /\ task' = [Resolved(pending, "error") EXCEPT !["closer"] = r]
      /\ UNCHANGED <<nextId, asked, admitted, replies, acpClosed, terminalError>>
  BY <1>2 DEF CloseRejects
<1>4. acpClosed' = TRUE /\ terminalError' \in BOOLEAN
  BY <1>1, <1>3 DEF CloseRejects, Fits, AcpTypeOK
<1>5. r \in TaskRecords
  BY <1>1, <1>2, RestTyped DEF TaskPcs
<1>6. Fits("closer", r)' /\ r.pc # "checked" /\ r.msg = "none"
  BY <1>1, <1>2 DEF Fits, Resting
<1> QED
  BY <1>1, <1>3, <1>4, <1>5, <1>6, Rejects

\* close, up to its wait for the writer.
LEMMA CloseStep == ASSUME AcpInv, Close PROVE AcpInv'
<1>1. /\ AcpTypeOK /\ TasksFit /\ IdsDiffer /\ RoomForIds
      /\ PendingIsUnanswered /\ DuplicatesAreDropped /\ WindowIsRecent /\ RepliesAreOwed
  BY DEF AcpInv
<1>2. Fits("closer", task["closer"]) /\ "closer" \in AcpTasks /\ "closer" \notin AcpCallers
  BY <1>1, TaskNames DEF TasksFit
<1>3. /\ acpClosed' = TRUE /\ terminalError' = TRUE
      /\ UNCHANGED <<pending, nextId, seenIds, permissions, asked, admitted, replies>>
  BY DEF Close
<1>4. PICK r \in TaskRecords : MovesAlone("closer", r) /\ r.pc = "queued" /\ r.msg = "none"
  <2> DEFINE q == [pc |-> "queued", kind |-> task["closer"].kind, msg |-> task["closer"].msg,
                   id |-> task["closer"].id, slot |-> task["closer"].slot]
  <2>1. task \in [AcpTasks -> TaskRecords] /\ task' = [task EXCEPT !["closer"].pc = "queued"]
    BY <1>1 DEF AcpTypeOK, TaskRecords, Close
  <2>2. task'["closer"] = q /\ q \in TaskRecords
    BY SMT, <1>1, <1>2, <2>1, Fields DEF TaskRecords, TaskPcs
  <2>3. MovesAlone("closer", q)
    BY <2>1, <2>2 DEF MovesAlone
  <2>4. q.pc = "queued" /\ q.msg = "none"
    BY <1>2 DEF Fits
  <2> QED
    BY <2>2, <2>3, <2>4
<1>5. Moves("closer", r)
  BY <1>2, <1>4, AloneMoves
<1>6. AcpTypeOK'
  BY <1>1, <1>3, <1>4 DEF AcpTypeOK, MovesAlone, TaskRecords
<1>7. Fits("closer", r)' /\ nextId' \in Nat /\ nextId <= nextId'
  BY SMT, <1>1, <1>2, <1>3, <1>4 DEF Fits, AcpTypeOK
<1>8. TasksFit'
  BY <1>1, <1>2, <1>3, <1>5, <1>7, FitKept
<1>9. IdsDiffer' /\ RoomForIds' /\ RepliesAreOwed' /\ PendingIsUnanswered'
  BY <1>1, <1>2, <1>3, <1>4, <1>5, IdsKept, RoomKept, RepliesKept, PendingKept
<1>10. WindowIsRecent' /\ DuplicatesAreDropped'
  BY <1>1, <1>3, WindowKept
<1> QED
  BY <1>6, <1>8, <1>9, <1>10 DEF AcpInv

\* A response; the request that waits for it gets it.
LEMMA ReadResponseStep == ASSUME AcpInv, NEW i \in asked, ReadResponse(i) PROVE AcpInv'
<1>1. /\ AcpTypeOK /\ TasksFit /\ IdsDiffer /\ RoomForIds
      /\ PendingIsUnanswered /\ DuplicatesAreDropped /\ WindowIsRecent /\ RepliesAreOwed
  BY DEF AcpInv
<1>2. Fits("reader", task["reader"]) /\ "reader" \in AcpTasks /\ "reader" \notin AcpCallers
  BY <1>1, TaskNames DEF TasksFit
<1>3. /\ pending' = pending \ {i} /\ task' = Resolved(pending \cap {i}, "response")
      /\ UNCHANGED <<nextId, seenIds, permissions, acpClosed, terminalError, asked, admitted, replies>>
  BY DEF ReadResponse
<1>4. PICK r \in TaskRecords : r = task["reader"]
  BY <1>1, <1>2, Fields
<1>5. task' = [Resolved(pending \cap {i}, "response") EXCEPT !["reader"] = r]
  <2>1. task'["reader"] = r
    BY <1>2, <1>3, <1>4 DEF Resolved
  <2> QED
    BY <1>2, <1>3, <2>1 DEF Resolved
<1>6. /\ Moves("reader", r)
      /\ \A u \in AcpTasks \ {"reader"} :
            task'[u].slot = IF u \in AcpCallers /\ task[u].msg = "request"
                               /\ task[u].id \in pending \cap {i}
                            THEN "response" ELSE task[u].slot
  <2>1. Hands(pending \cap {i}, "response", "reader", r)
    <3>1. ASSUME NEW ids, task' = [Resolved(ids, "response") EXCEPT !["reader"] = r]
          PROVE  Hands(ids, "response", "reader", r)
      BY <1>1, <1>2, <3>1, Handed
    <3> QED
      BY <1>5, <3>1, Zenon
  <2> QED
    BY <2>1 DEF Hands
<1>7. AcpTypeOK'
  BY <1>1, <1>3, <1>6 DEF AcpTypeOK, Moves, TaskRecords
<1>8. Fits("reader", r)' /\ nextId' \in Nat /\ nextId <= nextId' /\ r.pc # "checked"
  BY SMT, <1>1, <1>2, <1>3, <1>4 DEF Fits, AcpTypeOK
<1>9. TasksFit'
  BY <1>1, <1>2, <1>3, <1>6, <1>8, FitKept
<1>10. IdsDiffer' /\ RoomForIds' /\ RepliesAreOwed'
  BY <1>1, <1>2, <1>3, <1>4, <1>6, <1>8, IdsKept, RoomKept, RepliesKept
<1>11. PendingIsUnanswered'
  <2>1. \A c \in AcpCallers : /\ task'[c].msg = task[c].msg /\ task'[c].id = task[c].id
                              /\ task'[c].slot = IF task[c].msg = "request" /\ task[c].id \in pending \cap {i}
                                                 THEN "response" ELSE task[c].slot
    BY <1>6, TaskNames DEF Moves
  <2>2. ASSUME NEW c \in AcpCallers, task'[c].msg = "request", task'[c].slot = "empty"
        PROVE  task'[c].id \in pending'
    <3>1. /\ task[c].msg = "request" /\ task'[c].id = task[c].id
          /\ task[c].id \notin pending \cap {i} /\ task[c].slot = "empty"
      BY <2>1, <2>2
    <3>2. task[c].id \in pending
      BY <1>1, <3>1, PendingById
    <3> QED
      BY <1>3, <3>1, <3>2
  <2>3. ASSUME NEW x \in pending'
        PROVE  \E c \in AcpCallers :
                  task'[c].msg = "request" /\ task'[c].slot = "empty" /\ task'[c].id = x
    <3>1. PICK c \in AcpCallers : task[c].msg = "request" /\ task[c].slot = "empty" /\ task[c].id = x
      BY <1>1, <1>3, <2>3, PendingById
    <3> QED
      BY <1>3, <2>1, <2>3, <3>1
  <2> QED
    BY SMT, <2>2, <2>3 DEF PendingIsUnanswered
<1>12. WindowIsRecent' /\ DuplicatesAreDropped'
  BY <1>1, <1>3, WindowKept
<1> QED
  BY <1>7, <1>9, <1>10, <1>11, <1>12 DEF AcpInv

\* SeenInboundRequestIds after an insertion: the new id last, the oldest given up at the limit.
LEMMA Remembered ==
    ASSUME AcpTypeOK, NEW i \in AdapterIds
    PROVE  LET m == Len(seenIds)
               L == SEEN_INBOUND_REQUEST_ID_RETENTION_LIMIT
               s == Remember(i)
           IN  /\ s \in Seq(AdapterIds) /\ m \in Nat /\ L \in Nat \ {0}
               /\ m < L => /\ Len(s) = m + 1
                           /\ \A k \in 1 .. m + 1 : s[k] = IF k = m + 1 THEN i ELSE seenIds[k]
               /\ m = L => /\ Len(s) = m
                           /\ \A k \in 1 .. m : s[k] = IF k = m THEN i ELSE seenIds[k + 1]
<1> DEFINE m == Len(seenIds)
           L == SEEN_INBOUND_REQUEST_ID_RETENTION_LIMIT
           all == Append(seenIds, i)
<1>1. seenIds \in Seq(AdapterIds) /\ m \in Nat /\ L \in Nat \ {0} /\ m <= L
  BY SMT, AcpAssumption DEF AcpTypeOK
<1>2. /\ all \in Seq(AdapterIds) /\ Len(all) = m + 1
      /\ \A k \in 1 .. m + 1 : all[k] = IF k = m + 1 THEN i ELSE seenIds[k]
  BY SMT, <1>1
<1>3. /\ Tail(all) \in Seq(AdapterIds) /\ Len(Tail(all)) = m
      /\ \A k \in 1 .. m : Tail(all)[k] = all[k + 1]
  <2>1. all # <<>>
    BY SMT, <1>1, <1>2
  <2> QED
    BY SMT, <1>1, <1>2, <2>1
<1>4. Remember(i) = IF m + 1 > L THEN Tail(all) ELSE all
  BY <1>2 DEF Remember
<1> HIDE DEF all
<1>5. CASE m < L
  <2>1. Remember(i) = all
    BY SMT, <1>1, <1>4, <1>5
  <2> QED
    BY SMT, <1>1, <1>2, <1>5, <2>1
<1>6. CASE m = L
  <2>1. Remember(i) = Tail(all)
    BY SMT, <1>1, <1>4, <1>6
  <2>2. \A k \in 1 .. m : Tail(all)[k] = IF k = m THEN i ELSE seenIds[k + 1]
    BY SMT, <1>1, <1>2, <1>3
  <2> QED
    BY SMT, <1>1, <1>3, <1>6, <2>1, <2>2
<1> QED
  BY SMT, <1>1, <1>5, <1>6

\* A window s of length m over the last part of a of length n, and the requests with one id in
\* a being further apart than the limit.
Recent(s, m, a, n, limit) ==
    /\ (m = limit /\ m <= n) \/ m = n
    /\ \A k \in 1 .. m : s[k] = a[n - m + k]
Apart(a, n, limit) == \A j, k \in 1 .. n : j < k /\ a[j] = a[k] => k - j > limit

\* a2 is a with i at its end, and s2 is what becomes of the window s.
Grown(a, n, a2, i) == \A k \in 1 .. n + 1 : a2[k] = IF k = n + 1 THEN i ELSE a[k]
Slid(s, m, s2, m2, limit, i) ==
    /\ m < limit => /\ m2 = m + 1
                    /\ \A k \in 1 .. m + 1 : s2[k] = IF k = m + 1 THEN i ELSE s[k]
    /\ m = limit => /\ m2 = m
                    /\ \A k \in 1 .. m : s2[k] = IF k = m THEN i ELSE s[k + 1]

\* Growing both by i keeps the window recent.
LEMMA RecentMoves ==
    ASSUME NEW m \in Nat, NEW n \in Nat, NEW limit \in Nat \ {0}, m <= limit,
           NEW s, NEW a, NEW s2, NEW m2, NEW a2, NEW i, Recent(s, m, a, n, limit),
           Grown(a, n, a2, i), Slid(s, m, s2, m2, limit, i)
    PROVE  Recent(s2, m2, a2, n + 1, limit)
<1> USE DEF Grown, Slid
<1>1. /\ (m = limit /\ m <= n) \/ m = n
      /\ \A k \in 1 .. m : s[k] = a[n - m + k]
  BY DEF Recent
<1>2. CASE m < limit
  <2>1. m = n /\ m2 = n + 1
    BY SMT, <1>1, <1>2
  <2>2. ASSUME NEW k \in 1 .. n + 1 PROVE s2[k] = a2[k]
    <3>1. CASE k = n + 1
      BY <1>2, <2>1, <3>1
    <3>2. CASE k # n + 1
      <4>1. k \in 1 .. n /\ n - m + k = k
        BY SMT, <2>1, <3>2
      <4>2. s[k] = a[k]
        BY <1>1, <2>1, <4>1
      <4> QED
        BY <1>2, <2>1, <3>2, <4>2
    <3> QED
      BY <3>1, <3>2
  <2>3. \A k \in 1 .. m2 : s2[k] = a2[n + 1 - m2 + k]
    BY SMT, <2>1, <2>2
  <2> QED
    BY SMT, <2>1, <2>3 DEF Recent
<1>3. CASE m = limit
  <2>1. m2 = m /\ m <= n
    BY <1>1, <1>3
  <2>2. ASSUME NEW k \in 1 .. m PROVE s2[k] = a2[n + 1 - m + k]
    <3>1. CASE k = m
      <4>1. n + 1 - m + k = n + 1 /\ n + 1 \in 1 .. n + 1
        BY SMT, <3>1
      <4> QED
        BY <1>3, <3>1, <4>1
    <3>2. CASE k # m
      <4>1. k + 1 \in 1 .. m /\ n - m + (k + 1) = n + 1 - m + k
            /\ n + 1 - m + k \in 1 .. n + 1 /\ n + 1 - m + k # n + 1
        BY SMT, <2>1, <3>2
      <4>2. s2[k] = s[k + 1]
        BY <1>3, <3>2
      <4>3. s[k + 1] = a[n + 1 - m + k]
        BY <1>1, <4>1
      <4>4. a2[n + 1 - m + k] = a[n + 1 - m + k]
        BY <4>1
      <4> QED
        BY <4>2, <4>3, <4>4
    <3> QED
      BY <3>1, <3>2
  <2> QED
    BY SMT, <1>3, <2>1, <2>2 DEF Recent
<1> QED
  BY SMT, <1>2, <1>3

\* An id outside a recent window was not admitted lately.
LEMMA ApartMoves ==
    ASSUME NEW m \in Nat, NEW n \in Nat, NEW limit \in Nat \ {0},
           NEW s, NEW a, NEW a2, NEW i, Recent(s, m, a, n, limit), Apart(a, n, limit),
           \A k \in 1 .. m : s[k] # i, Grown(a, n, a2, i)
    PROVE  Apart(a2, n + 1, limit)
<1> USE DEF Grown
<1> SUFFICES ASSUME NEW j \in 1 .. n + 1, NEW k \in 1 .. n + 1, j < k, a2[j] = a2[k]
             PROVE  k - j > limit
  BY DEF Apart
<1>1. /\ (m = limit /\ m <= n) \/ m = n
      /\ \A x \in 1 .. m : s[x] = a[n - m + x]
  BY DEF Recent
<1>2. j \in 1 .. n /\ a2[j] = a[j]
  BY SMT
<1>3. CASE k = n + 1
  <2>1. a[j] = i
    BY <1>2, <1>3
  <2>2. ASSUME j > n - m PROVE FALSE
    <3>1. j - (n - m) \in 1 .. m /\ n - m + (j - (n - m)) = j
      BY SMT, <1>1, <1>2, <2>2
    <3>2. s[j - (n - m)] = a[j]
      BY <1>1, <3>1
    <3> QED
      BY <2>1, <3>1, <3>2
  <2> QED
    BY SMT, <1>1, <1>2, <1>3, <2>2
<1>4. CASE k # n + 1
  <2>1. k \in 1 .. n /\ a2[k] = a[k]
    BY SMT, <1>4
  <2> QED
    BY <1>2, <2>1 DEF Apart
<1> QED
  BY <1>3, <1>4

\* The window goes with what is admitted (handle_inbound_request).
LEMMA WindowMoves ==
    ASSUME AcpTypeOK, WindowIsRecent, DuplicatesAreDropped, NEW i \in AdapterIds,
           \A k \in DOMAIN seenIds : seenIds[k] # i,
           seenIds' = Remember(i), admitted' = Append(admitted, i), acpClosed' = acpClosed
    PROVE  /\ seenIds' \in Seq(AdapterIds)
           /\ Len(seenIds') <= SEEN_INBOUND_REQUEST_ID_RETENTION_LIMIT
           /\ admitted' \in Seq(AdapterIds)
           /\ WindowIsRecent' /\ DuplicatesAreDropped'
<1>1. PICK limit \in Nat \ {0}, m \in Nat, n \in Nat :
         limit = SEEN_INBOUND_REQUEST_ID_RETENTION_LIMIT /\ m = Len(seenIds) /\ n = Len(admitted)
  <2>1. Len(seenIds) \in Nat /\ Len(admitted) \in Nat
    BY SMT DEF AcpTypeOK
  <2> QED
    BY <2>1, AcpAssumption
<1>2. m <= limit /\ DOMAIN seenIds = 1 .. m /\ DOMAIN admitted = 1 .. n
  BY SMT, <1>1 DEF AcpTypeOK
<1>3. seenIds' \in Seq(AdapterIds) /\ Slid(seenIds, m, seenIds', Len(seenIds'), limit, i)
  <2>1. /\ Remember(i) \in Seq(AdapterIds)
        /\ m < limit => /\ Len(Remember(i)) = m + 1
                        /\ \A k \in 1 .. m + 1 : Remember(i)[k] = IF k = m + 1 THEN i ELSE seenIds[k]
        /\ m = limit => /\ Len(Remember(i)) = m
                        /\ \A k \in 1 .. m : Remember(i)[k] = IF k = m THEN i ELSE seenIds[k + 1]
    BY <1>1, Remembered
  <2> QED
    BY <2>1 DEF Slid
<1>4. /\ admitted' \in Seq(AdapterIds) /\ Len(admitted') = n + 1 /\ DOMAIN admitted' = 1 .. n + 1
      /\ Grown(admitted, n, admitted', i)
  <2>1. admitted \in Seq(AdapterIds)
    BY DEF AcpTypeOK
  <2>2. /\ admitted' \in Seq(AdapterIds) /\ Len(admitted') = n + 1
        /\ \A k \in 1 .. n + 1 : admitted'[k] = IF k = n + 1 THEN i ELSE admitted[k]
    BY SMT, <1>1, <2>1
  <2> QED
    BY SMT, <2>2 DEF Grown
<1>5. Len(seenIds') <= limit
  BY SMT, <1>2, <1>3 DEF Slid
<1>6. CASE acpClosed
  BY <1>1, <1>3, <1>4, <1>5, <1>6 DEF WindowIsRecent, DuplicatesAreDropped
<1>7. CASE ~acpClosed
  <2>1. Recent(seenIds, m, admitted, n, limit)
    BY <1>1, <1>7 DEF WindowIsRecent, Recent
  <2>2. Apart(admitted, n, limit)
    BY <1>1, <1>2, <1>7 DEF DuplicatesAreDropped, Apart
  <2>3. Recent(seenIds', Len(seenIds'), admitted', n + 1, limit)
    BY <1>2, <1>3, <1>4, <2>1, RecentMoves
  <2>4. Apart(admitted', n + 1, limit)
    BY <1>2, <1>4, <2>1, <2>2, ApartMoves
  <2>5. WindowIsRecent'
    BY <1>1, <1>4, <2>3 DEF WindowIsRecent, Recent
  <2>6. DuplicatesAreDropped'
    BY <1>1, <1>4, <2>4 DEF DuplicatesAreDropped, Apart
  <2> QED
    BY <1>1, <1>3, <1>4, <1>5, <2>5, <2>6
<1> QED
  BY <1>6, <1>7

\* Taking a request up makes room for one response to its id and changes nothing for others.
LEMMA TakesUp ==
    ASSUME AcpTypeOK, NEW i \in AdapterIds, admitted' = Append(admitted, i)
    PROVE  /\ Cardinality(TakenUp(i)') = Cardinality(TakenUp(i)) + 1
           /\ \A j \in AdapterIds \ {i} : TakenUp(j)' = TakenUp(j)
<1>1. PICK n \in Nat : n = Len(admitted)
  BY SMT DEF AcpTypeOK
<1>2. /\ DOMAIN admitted = 1 .. n /\ DOMAIN admitted' = 1 .. n + 1
      /\ admitted'[n + 1] = i /\ \A k \in 1 .. n : admitted'[k] = admitted[k]
  BY SMT, <1>1 DEF AcpTypeOK
<1>3. 1 .. n + 1 = (1 .. n) \cup {n + 1} /\ n + 1 \notin 1 .. n
  BY SMT
<1>4. TakenUp(i)' = TakenUp(i) \cup {n + 1} /\ n + 1 \notin TakenUp(i)
  BY <1>2, <1>3 DEF TakenUp
<1>5. Cardinality(TakenUp(i) \cup {n + 1}) = Cardinality(TakenUp(i)) + 1
  BY <1>4, Finite, FS_AddElement
<1>6. \A j \in AdapterIds \ {i} : TakenUp(j)' = TakenUp(j)
  BY <1>2, <1>3 DEF TakenUp
<1> QED
  BY <1>4, <1>5, <1>6

\* handle_inbound_request: the response to a request taken up is owed by the reader, or awaited
\* from the host.
LEMMA ReadRequestStep ==
    ASSUME AcpInv, NEW i \in AdapterIds, NEW handler \in BOOLEAN, ReadRequest(i, handler)
    PROVE  AcpInv'
<1>1. /\ AcpTypeOK /\ TasksFit /\ IdsDiffer /\ RoomForIds
      /\ PendingIsUnanswered /\ DuplicatesAreDropped /\ WindowIsRecent /\ RepliesAreOwed
  BY DEF AcpInv
<1>2. Fits("reader", task["reader"]) /\ "reader" \in AcpTasks /\ "reader" \notin AcpCallers
      /\ "reader" # "closer"
  BY <1>1, TaskNames DEF TasksFit
<1>3. /\ task["reader"].pc = "reading" /\ task["reader"].msg = "none"
      /\ \A k \in DOMAIN seenIds : seenIds[k] # i
      /\ seenIds' = Remember(i) /\ admitted' = Append(admitted, i)
      /\ UNCHANGED <<pending, nextId, acpClosed, terminalError, asked, replies>>
  BY <1>2 DEF ReadRequest, Reading, Fits
<1>4. PICK r \in TaskRecords :
         /\ MovesAlone("reader", r)
         /\ \/ i \in PermissionIds /\ permissions' = permissions \cup {i} /\ r = task["reader"]
            \/ /\ i \in InboundIds /\ permissions' = permissions
               /\ r.pc \in {"handling", "send"} /\ r.msg = "reply" /\ r.id = i
  <2>1. CASE i \in PermissionIds /\ permissions' = permissions \cup {i} /\ UNCHANGED task
    BY <1>1, <1>2, <2>1, Fields, NobodyMoves
  <2>2. CASE /\ i \in InboundIds /\ permissions' = permissions
             /\ task' = [task EXCEPT !["reader"] =
                           [@ EXCEPT !.pc = IF handler THEN "handling" ELSE "send",
                                     !.msg = "reply", !.id = i]]
    <3>1. PICK at \in {"handling", "send"} : at = IF handler THEN "handling" ELSE "send"
      OBVIOUS
    <3>2. PICK q : q = [task["reader"] EXCEPT !.pc = at, !.msg = "reply", !.id = i]
      OBVIOUS
    <3>3. task["reader"] \in TaskRecords /\ i \in Nat
      BY <1>1, <1>2, Fields, AcpAssumption DEF AdapterIds
    <3>4. q \in TaskRecords /\ q.pc = at /\ q.msg = "reply" /\ q.id = i
      BY <3>2, <3>3 DEF TaskRecords, TaskPcs
    <3>5. task' = [task EXCEPT !["reader"] = q]
      BY <2>2, <3>1, <3>2
    <3>6. MovesAlone("reader", q)
      BY <1>1, <1>2, <3>4, <3>5, Assigned
    <3> QED
      BY <2>2, <3>4, <3>6
  <2> QED
    BY <2>1, <2>2 DEF ReadRequest
<1>5. Moves("reader", r) /\ r.pc # "checked"
  BY <1>2, <1>3, <1>4, AloneMoves
<1>6. /\ seenIds' \in Seq(AdapterIds) /\ Len(seenIds') <= SEEN_INBOUND_REQUEST_ID_RETENTION_LIMIT
      /\ admitted' \in Seq(AdapterIds)
      /\ WindowIsRecent' /\ DuplicatesAreDropped'
  BY <1>1, <1>3, WindowMoves
<1>7. AcpTypeOK'
  BY <1>1, <1>3, <1>4, <1>6 DEF AcpTypeOK, MovesAlone, TaskRecords
<1>8. Fits("reader", r)' /\ nextId' \in Nat /\ nextId <= nextId'
  BY SMT, <1>1, <1>2, <1>3, <1>4 DEF Fits, AcpTypeOK
<1>9. TasksFit'
  BY <1>1, <1>2, <1>3, <1>5, <1>8, FitKept
<1>10. IdsDiffer' /\ RoomForIds' /\ PendingIsUnanswered'
  BY <1>1, <1>2, <1>3, <1>4, <1>5, IdsKept, RoomKept, PendingKept
<1>11. RepliesAreOwed'
  <2> SUFFICES ASSUME NEW j \in AdapterIds
               PROVE  replies'[j] + Cardinality(Owes(j)') + Awaited(j)' <= Cardinality(TakenUp(j)')
    BY DEF RepliesAreOwed
  <2>1. /\ IsFiniteSet(Owes(j)) /\ Cardinality(Owes(j)) \in Nat /\ Awaited(j) \in Nat
        /\ Cardinality(TakenUp(j)) \in Nat /\ replies[j] \in Nat /\ replies'[j] = replies[j]
        /\ replies[j] + Cardinality(Owes(j)) + Awaited(j) <= Cardinality(TakenUp(j))
    BY <1>1, <1>3, Finite DEF RepliesAreOwed, AcpTypeOK, Awaited
  <2>2. Owes(j)' = IF r.msg = "reply" /\ r.id = j THEN Owes(j) \cup {"reader"} ELSE Owes(j)
    <3>1. "reader" \notin Owes(j)
      BY <1>3 DEF Owes
    <3>2. Owes(j)' = IF r.msg = "reply" /\ r.id = j THEN Owes(j) \cup {"reader"}
                                                    ELSE Owes(j) \ {"reader"}
      BY <1>1, <1>2, <1>5, OwesMoves
    <3> QED
      BY <3>1, <3>2
  <2>3. CASE j # i
    <3>1. Owes(j)' = Owes(j)
      BY <1>3, <1>4, <2>2, <2>3
    <3>2. Awaited(j)' = Awaited(j)
      BY <1>4, <2>3 DEF Awaited
    <3>3. TakenUp(j)' = TakenUp(j)
      BY <1>1, <1>3, <2>3, TakesUp
    <3> QED
      BY <2>1, <3>1, <3>2, <3>3
  <2>4. CASE j = i /\ i \in PermissionIds /\ permissions' = permissions \cup {i} /\ r = task["reader"]
    <3>1. Owes(j)' = Owes(j)
      BY <1>3, <2>2, <2>4
    <3>2. Awaited(j)' = 1
      BY <2>4 DEF Awaited
    <3>3. Cardinality(TakenUp(j)') = Cardinality(TakenUp(j)) + 1
      BY <1>1, <1>3, <2>4, TakesUp
    <3> QED
      BY SMT, <2>1, <3>1, <3>2, <3>3
  <2>5. CASE j = i /\ permissions' = permissions /\ r.msg = "reply" /\ r.id = i
    <3>1. Cardinality(Owes(j)') \in Nat /\ Cardinality(Owes(j)') <= Cardinality(Owes(j)) + 1
      BY <2>1, <2>2, <2>5, OneMore
    <3>2. Awaited(j)' = Awaited(j)
      BY <2>5 DEF Awaited
    <3>3. Cardinality(TakenUp(j)') = Cardinality(TakenUp(j)) + 1
      BY <1>1, <1>3, <2>5, TakesUp
    <3> QED
      BY SMT, <2>1, <3>1, <3>2, <3>3
  <2> QED
    BY <1>4, <2>3, <2>4, <2>5
<1> QED
  BY <1>6, <1>7, <1>9, <1>10, <1>11 DEF AcpInv

\* The client starts with nothing pending, owed or awaited.
LEMMA AcpStarts == AcpInit => AcpInv
<1> SUFFICES ASSUME AcpInit PROVE AcpInv
  OBVIOUS
<1>1. \A t \in AcpTasks : task[t] = Resting(IF t = "reader" THEN "reading" ELSE "idle")
  BY DEF AcpInit
<1>2. \A t \in AcpTasks : /\ task[t].pc = IF t = "reader" THEN "reading" ELSE "idle"
                          /\ task[t].msg = "none" /\ task[t].id = 0 /\ task[t].slot = "empty"
  <2>1. \A at : /\ Resting(at).pc = at /\ Resting(at).msg = "none"
               /\ Resting(at).id = 0 /\ Resting(at).slot = "empty"
    BY DEF Resting
  <2> QED
    BY <1>1, <2>1
<1>3. AcpTypeOK
  <2>1. task \in [AcpTasks -> TaskRecords]
    BY DEF AcpInit, Resting, TaskRecords, TaskPcs
  <2>2. seenIds \in Seq(AdapterIds) /\ Len(seenIds) = 0 /\ admitted \in Seq(AdapterIds)
    BY SMT DEF AcpInit
  <2>3. /\ nextId \in 1 .. MaxAcpRequests + 1 /\ pending \subseteq 1 .. nextId - 1
        /\ asked \subseteq 1 .. nextId - 1 /\ replies \in [AdapterIds -> Nat]
        /\ Len(seenIds) <= SEEN_INBOUND_REQUEST_ID_RETENTION_LIMIT
    BY SMT, <2>2, AcpAssumption DEF AcpInit
  <2> QED
    BY <2>1, <2>2, <2>3 DEF AcpInit, AcpTypeOK, TaskRecords
<1>4. TasksFit
  BY <1>2, TaskNames DEF TasksFit, Fits
<1>5. IdsDiffer /\ PendingIsUnanswered
  BY <1>2, TaskNames DEF AcpInit, IdsDiffer, PendingIsUnanswered
<1>6. RoomForIds
  <2>1. Checked = {}
    BY <1>2, TaskNames DEF Checked
  <2> QED
    BY SMT, <2>1, FS_EmptySet, AcpAssumption DEF AcpInit, RoomForIds
<1>7. Len(admitted) = 0 /\ Len(seenIds) = 0 /\ DOMAIN admitted = {}
  BY SMT DEF AcpInit
<1>8. WindowIsRecent /\ DuplicatesAreDropped
  BY SMT, <1>7 DEF WindowIsRecent, DuplicatesAreDropped
<1>9. RepliesAreOwed
  <2>1. \A i : Owes(i) = {} /\ TakenUp(i) = {}
    BY <1>2, <1>7 DEF Owes, TakenUp
  <2>2. \A i \in AdapterIds : replies[i] = 0 /\ Awaited(i) = 0
    BY DEF AcpInit, Awaited
  <2> QED
    BY SMT, <2>1, <2>2, FS_EmptySet DEF RepliesAreOwed
<1> QED
  BY <1>3, <1>4, <1>5, <1>6, <1>8, <1>9 DEF AcpInv

\* Every step of callers, writer, close and read loop keeps the invariant.
LEMMA AcpStep == AcpInv /\ [AcpNext]_acpVars => AcpInv'
<1> SUFFICES ASSUME AcpInv, [AcpNext]_acpVars PROVE AcpInv'
  OBVIOUS
<1>1. ASSUME NEW c \in AcpCallers, NEW k \in AcpKinds[c] \cap {"prompt", "cancel"},
             StartRequest(c, k, 0)
      PROVE  AcpInv'
  BY <1>1, StartStep
<1>2. ASSUME NEW c \in AcpCallers, NEW i \in PermissionIds, StartRequest(c, "permission", i)
      PROVE  AcpInv'
  <2>1. i \in Nat
    BY AcpAssumption
  <2> QED
    BY <1>2, <2>1, StartStep
<1>3. ASSUME NEW c \in AcpCallers, Notify(c) \/ CallerStep(c) \/ Expire(c) PROVE AcpInv'
  BY <1>3, NotifyStep, AnswerPermissionStep, RegisterStep, ReceiveStep, GiveUpStep, ExpireStep
     DEF CallerStep
<1>4. ASSUME NEW t \in AcpTasks, WriteEnds(t) PROVE AcpInv'
  BY <1>4, WriteOkStep, WriteFailsStep DEF WriteEnds
<1>5. CASE Close \/ CloserStep
  BY <1>5, CloseStep, ShutDownStep, CloseRejectsStep DEF CloserStep
<1>6. ASSUME NEW i \in asked, ReadResponse(i) PROVE AcpInv'
  BY <1>6, ReadResponseStep
<1>7. ASSUME NEW i \in AdapterIds, NEW handler \in BOOLEAN, ReadRequest(i, handler) PROVE AcpInv'
  BY <1>7, ReadRequestStep
<1>8. CASE HandlerEnds \/ ReadGarbage
  BY <1>8, AnswerStep
<1>9. CASE AdapterEof
  BY <1>9, EofStep
<1>10. CASE ReaderFails
  BY <1>10, ReaderFailsStep
<1>11. CASE UNCHANGED acpVars
  <2>1. UNCHANGED task /\ UNCHANGED acpTables /\ AcpTypeOK /\ Fits("reader", task["reader"])
        /\ "reader" \in AcpTasks /\ "reader" \notin AcpCallers
    BY <1>11, TaskNames DEF acpVars, AcpInv, TasksFit
  <2>2. MovesAlone("reader", task["reader"]) /\ task["reader"].pc # "checked"
    BY <2>1, NobodyMoves DEF Fits
  <2> QED
    BY <2>1, <2>2, Quiet
<1> QED
  BY <1>1, <1>2, <1>3, <1>4, <1>5, <1>6, <1>7, <1>8, <1>9, <1>10, <1>11 DEF AcpNext

\* For any callers, ids and limits: a response, timeout, failed write, failure of the transport
\* or close leaves in the table exactly the requests that still wait, an id of the adapter that
\* repeats within the window is dropped, and the adapter gets no more responses to an id than it
\* made requests that were taken up (request, read_loop, handle_inbound_request).
THEOREM ExchangeStaysSound == AcpSpec => []AcpExchangeIsSound
<1>1. AcpInv => AcpExchangeIsSound
  <2> SUFFICES ASSUME AcpInv PROVE RepliesMatchRequests
    BY DEF AcpInv, AcpExchangeIsSound
  <2> SUFFICES ASSUME NEW i \in AdapterIds PROVE replies[i] <= Cardinality(TakenUp(i))
    BY DEF RepliesMatchRequests, TakenUp
  <2>1. /\ replies[i] + Cardinality(Owes(i)) + Awaited(i) <= Cardinality(TakenUp(i))
        /\ replies[i] \in Nat /\ Cardinality(Owes(i)) \in Nat /\ Cardinality(TakenUp(i)) \in Nat
        /\ Awaited(i) \in Nat
    BY Finite DEF AcpInv, RepliesAreOwed, AcpTypeOK, Awaited
  <2> QED
    BY SMT, <2>1
<1> QED
  BY <1>1, AcpStarts, AcpStep, PTL DEF AcpSpec
============================================================================
