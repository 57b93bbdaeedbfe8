-------------------------- MODULE PipeManagerProofs --------------------------
(***************************************************************************)
(* For any number of readers, writers and pollers and any buffer size, the *)
(* pipe's sleepers never miss a wakeup.                                    *)
(***************************************************************************)
EXTENDS PipeManager, TLAPS

\* Most leaves are first-order; the ones that need arithmetic or sequences say SMT.
USE Zenon

(* A thread that sleeps in a read has registered a PendingRead.            *)
Registered == \A r \in Readers : pc[r] = "blocked" => waiter_id[r] # 0

WakeupInv == TypeOK /\ Registered /\ NoLostWakeup /\ NoMissedPoll

(* The prefix and the suffix of a sequence that read_with_timeout and      *)
(* write_with_mode split a payload or the buffer into are sequences over   *)
(* the same set.                                                           *)
LEMMA TakeDropType ==
  ASSUME NEW S, NEW s \in Seq(S), NEW n \in Nat
  PROVE  Take(s, n) \in Seq(S) /\ Drop(s, n) \in Seq(S)
  BY SMT DEF Take, Drop, Min2

(* Taking a waiter out of the queue, as a timed-out read does, leaves a    *)
(* queue of waiters.                                                       *)
LEMMA WithoutType ==
  ASSUME NEW S, NEW s \in Seq(S), NEW id
  PROVE  Without(s, id) \in Seq(S)
<1>1. CASE \E k \in DOMAIN s : s[k] = id
  <2> DEFINE k == CHOOSE k \in DOMAIN s : s[k] = id
  <2>1. k \in 1..Len(s)
    BY SMT, <1>1
  <2> HIDE DEF k
  <2>2. SubSeq(s, 1, k - 1) \in Seq(S) /\ SubSeq(s, k + 1, Len(s)) \in Seq(S)
    BY SMT, <2>1
  <2> QED BY SMT, <1>1, <2>2 DEF Without, k
<1>2. CASE ~ \E k \in DOMAIN s : s[k] = id
  BY <1>2 DEF Without
<1> QED BY <1>1, <1>2

(* The bytes a write accepts are a sequence of byte numbers.               *)
LEMMA SpanType ==
  ASSUME NEW m \in Nat, NEW n \in Nat
  PROVE  Span(m, n) \in Seq(Bytes) /\ Len(Span(m, n)) = n
  BY SMT DEF Span, Bytes

------------------------------------------------------------------------------
(* The values the code stores in records are of their types.               *)
LEMMA RecordTypes ==
  /\ Absent \in PendingReads /\ Absent.result = None
  /\ NoRequest \in Requests /\ Outside \in Polls
  /\ \A n \in Nat : [length |-> n, result |-> None] \in PendingReads
  /\ \A n \in Nat, b \in {"forever", "timeout"} :
       [length |-> n, wait |-> b] \in Requests
<1>1. None \in Results
  BY SMT DEF None, Results, Bytes
<1> QED
  BY <1>1 DEF Absent, PendingReads, NoRequest, Requests, Outside, Polls

(* Answering a PendingRead, with data or with end of file, leaves one.     *)
LEMMA AnswerType ==
  ASSUME NEW a \in PendingReads
  PROVE  /\ a.length \in Nat
         /\ a.result.bytes \in Seq(Bytes)
         /\ [a EXCEPT !.result = Eof] \in PendingReads
         /\ \A s \in Seq(Bytes) : [a EXCEPT !.result = Data(s)] \in PendingReads
<1>1. Eof \in Results /\ \A s \in Seq(Bytes) : Data(s) \in Results
  BY SMT DEF Eof, Data, Results
<1> QED BY <1>1 DEF PendingReads, Results

(* Every state of the pipe is well typed.                                  *)
LEMMA TypeInit == Init => TypeOK
<1> SUFFICES ASSUME Init PROVE TypeOK
  OBVIOUS
<1>1. /\ next_waiter_id \in 1..(MaxWaiters + 1)
      /\ waiter_id \in [Readers -> 0..MaxWaiters]
  BY SMT, PipeConstants DEF Init
<1>2. /\ pc \in [Threads -> Stages]
      /\ waiters \in [WaiterIds -> PendingReads]
      /\ req \in [Threads -> Requests]
      /\ poll \in [Pollers -> Polls]
  BY RecordTypes DEF Init, Stages
<1>3. /\ buffer \in Seq(Bytes) /\ waiting_reads \in Seq(WaiterIds)
      /\ delivered \in Seq(Bytes) /\ sent \in Nat
  BY SMT DEF Init
<1>4. closed_read \in BOOLEAN /\ closed_write \in BOOLEAN /\ eof \in BOOLEAN
  BY DEF Init
<1>5. changed \subseteq Pollers
  BY DEF Init
<1> QED BY <1>1, <1>2, <1>3, <1>4, <1>5 DEF TypeOK

(* Waking the sleepers, as notify_waiters_and_pollers does, or not waking  *)
(* them leaves the threads at known stages.                                *)
LEMMA NotifyType ==
  ASSUME TypeOK, NEW t \in Threads, NEW s \in Stages,
         NotifyAll(t, s) \/ NoNotify(t, s)
  PROVE  pc' \in [Threads -> Stages] /\ changed' \subseteq Pollers
  BY DEF TypeOK, NotifyAll, NoNotify, Stages

(* A pass of write_with_mode keeps the state well typed.                   *)
LEMMA TypeWrite ==
  ASSUME TypeOK, NEW w \in Writers, NEW n \in Nat, NEW b \in BOOLEAN,
         WritePass(w, n, b)
  PROVE  TypeOK'
<1> USE PipeConstants
<1>0. w \in Threads /\ "idle" \in Stages /\ "blocked" \in Stages
  BY DEF Threads, Stages
<1>1. CASE HandOff(w, n)
  <2>1. PICK i \in DOMAIN waiting_reads :
          LET id   == waiting_reads[i]
              give == Min2(waiters[id].length, n)
          IN /\ waiters' = [waiters EXCEPT ![id] =
                              [@ EXCEPT !.result = Data(Span(sent, give))]]
             /\ buffer' = buffer \o Span(sent + give, n - give)
             /\ waiting_reads' = Drop(waiting_reads, i)
    BY <1>1 DEF HandOff
  <2> DEFINE id == waiting_reads[i]
             give == Min2(waiters[id].length, n)
  <2>2. id \in WaiterIds
    BY SMT DEF TypeOK
  <2>3. waiters[id] \in PendingReads
    BY <2>2 DEF TypeOK
  <2>4. give \in Nat /\ n - give \in Nat
    <3>1. waiters[id].length \in Nat
      BY <2>3, AnswerType
    <3> HIDE DEF id
    <3> QED BY SMT, <3>1 DEF Min2
  <2>5. /\ Span(sent, give) \in Seq(Bytes)
        /\ Span(sent + give, n - give) \in Seq(Bytes)
    <3> HIDE DEF give
    <3> QED BY SMT, <2>4, SpanType DEF TypeOK
  <2>6. waiters' \in [WaiterIds -> PendingReads]
    <3> DEFINE answer == [waiters[id] EXCEPT !.result = Data(Span(sent, give))]
    <3>1. answer \in PendingReads
      BY <2>3, <2>5, AnswerType
    <3>2. waiters' = [waiters EXCEPT ![id] = answer]
      BY <2>1
    <3> HIDE DEF answer, id
    <3> QED BY <2>2, <3>1, <3>2 DEF TypeOK
  <2>7. buffer' \in Seq(Bytes)
    BY SMT, <2>1, <2>5 DEF TypeOK
  <2>8. waiting_reads' \in Seq(WaiterIds)
    <3>1. i \in Nat
      BY SMT DEF TypeOK
    <3> QED BY <2>1, <3>1, TakeDropType DEF TypeOK
  <2>9. NotifyAll(w, "idle") /\ Leave(w) /\ sent' = sent + n
    BY <1>1 DEF HandOff
  <2> HIDE DEF id, give
  <2> QED
    BY SMT, <2>6, <2>7, <2>8, <2>9, <1>0, NotifyType, RecordTypes
    DEF WritePass, Leave, TypeOK
<1>2. CASE WriteBuffer(w, n)
  <2>1. Accepted(n) \in Nat
    BY SMT DEF Accepted, Min2, Available, TypeOK
  <2>2. buffer' \in Seq(Bytes)
    BY SMT, <1>2, <2>1, SpanType DEF WriteBuffer, TypeOK
  <2>3. sent' \in Nat /\ waiting_reads' \in Seq(WaiterIds)
    BY SMT, <1>2, <2>1 DEF WriteBuffer, TypeOK
  <2>4. pc' \in [Threads -> Stages] /\ changed' \subseteq Pollers
    BY <1>0, <1>2, NotifyType DEF WriteBuffer
  <2>5. req' \in [Threads -> Requests]
    BY <1>2, RecordTypes DEF WriteBuffer, Leave, TypeOK
  <2> QED
    BY <1>2, <2>2, <2>3, <2>4, <2>5 DEF WritePass, WriteBuffer, TypeOK
<1>3. CASE WriteFull(w, n, b)
  <2>1. req' \in [Threads -> Requests]
    BY <1>3, RecordTypes DEF WriteFull, Leave, TypeOK
  <2> QED
    BY SMT, <1>0, <1>3, <2>1, NotifyType DEF WritePass, WriteFull, TypeOK
<1> QED BY <1>1, <1>2, <1>3 DEF WritePass

(* A pass of read_with_timeout keeps the state well typed.                 *)
LEMMA TypeRead ==
  ASSUME TypeOK, NEW r \in Readers, NEW n \in Nat,
         NEW b \in {"forever", "timeout"}, ReadPass(r, n, b)
  PROVE  TypeOK'
<1> USE PipeConstants
<1>0. r \in Threads /\ "idle" \in Stages /\ "blocked" \in Stages
  BY DEF Threads, Stages
<1>1. CASE TakeResult(r)
  <2>1. waiter_id[r] \in WaiterIds
    BY SMT, <1>1 DEF TakeResult, TypeOK, WaiterIds
  <2>2. waiters[waiter_id[r]].result.bytes \in Seq(Bytes)
    BY <2>1, AnswerType DEF TypeOK
  <2>3. delivered' \in Seq(Bytes)
    BY SMT, <1>1, <2>2 DEF TakeResult, TypeOK
  <2> QED
    BY SMT, <1>0, <1>1, <2>1, <2>3, NotifyType, RecordTypes
    DEF ReadPass, TakeResult, ForgetWaiter, Leave, TypeOK
<1>2. CASE DrainBuffer(r, n)
  <2>1. Take(buffer, n) \in Seq(Bytes) /\ Drop(buffer, n) \in Seq(Bytes)
    BY TakeDropType DEF TypeOK
  <2> QED
    BY SMT, <1>0, <1>2, <2>1, NotifyType, RecordTypes
    DEF ReadPass, DrainBuffer, ForgetWaiter, Leave, TypeOK
<1>3. CASE ReadEof(r)
  BY SMT, <1>0, <1>3, NotifyType, RecordTypes
  DEF ReadPass, ReadEof, RemoveWaiter, ForgetWaiter, Leave, TypeOK
<1>4. CASE ReadBadFd(r)
  BY SMT, <1>0, <1>4, NotifyType, RecordTypes
  DEF ReadPass, ReadBadFd, ForgetWaiter, Leave, TypeOK, history
<1>5. CASE ReadWait(r, n, b)
  <2>1. req' \in [Threads -> Requests]
    BY <1>5, RecordTypes DEF ReadWait, TypeOK
  <2>2. CASE waiter_id[r] # 0
    BY <1>0, <1>5, <2>1, <2>2, NotifyType DEF ReadPass, ReadWait, TypeOK, history
  <2>3. CASE waiter_id[r] = 0
    <3>0. /\ next_waiter_id \in WaiterIds
          /\ waiters' = [waiters EXCEPT ![next_waiter_id] =
                            [length |-> n, result |-> None]]
          /\ waiting_reads' = Append(waiting_reads, next_waiter_id)
          /\ waiter_id' = [waiter_id EXCEPT ![r] = next_waiter_id]
          /\ next_waiter_id' = next_waiter_id + 1
      BY <1>5, <2>3 DEF ReadWait
    <3>1. waiters' \in [WaiterIds -> PendingReads]
      <4>1. [length |-> n, result |-> None] \in PendingReads
        BY RecordTypes
      <4> QED BY <3>0, <4>1 DEF TypeOK
    <3>2. waiting_reads' \in Seq(WaiterIds)
      BY SMT, <3>0 DEF TypeOK
    <3>3. next_waiter_id' \in 1..(MaxWaiters + 1)
      BY SMT, <3>0 DEF WaiterIds
    <3>4. waiter_id' \in [Readers -> 0..MaxWaiters]
      <4>1. next_waiter_id \in 0..MaxWaiters
        BY SMT, <3>0 DEF WaiterIds
      <4> QED BY <3>0, <4>1 DEF TypeOK
    <3> QED
      BY <1>0, <1>5, <2>1, <2>3, <3>1, <3>2, <3>3, <3>4, NotifyType
      DEF ReadPass, ReadWait, TypeOK, history
  <2> QED BY <2>2, <2>3
<1>6. CASE ReadPastDeadline(r, b)
  <2>1. waiting_reads' \in Seq(WaiterIds)
    BY <1>6, WithoutType DEF ReadPastDeadline, TypeOK
  <2>2. waiters' \in [WaiterIds -> PendingReads]
    BY <1>6, RecordTypes DEF ReadPastDeadline, RemoveWaiter, TypeOK
  <2>3. next_waiter_id' \in 1..(MaxWaiters + 1)
    BY SMT, <1>6 DEF ReadPastDeadline, TypeOK, WaiterIds
  <2> QED
    BY SMT, <1>0, <1>6, <2>1, <2>2, <2>3, NotifyType, RecordTypes
    DEF ReadPass, ReadPastDeadline, ForgetWaiter, Leave, TypeOK, history
<1> QED BY <1>1, <1>2, <1>3, <1>4, <1>5, <1>6 DEF ReadPass

(* Every action keeps the state well typed.                                *)
LEMMA TypeNext == TypeOK /\ [Next]_vars => TypeOK'
<1> USE PipeConstants
<1> SUFFICES ASSUME TypeOK, [Next]_vars PROVE TypeOK'
  OBVIOUS
<1>0. "idle" \in Stages /\ "ready" \in Stages /\ "expired" \in Stages
  BY DEF Stages
<1>1. ASSUME NEW w \in Writers, WriteStart(w) PROVE TypeOK'
  <2>1. PICK n \in Lengths, b \in BOOLEAN : WritePass(w, n, b)
    BY <1>1 DEF WriteStart
  <2> QED BY <2>1, TypeWrite
<1>2. ASSUME NEW t \in Threads
      PROVE  req[t].length \in Nat /\ req[t].wait \in {"forever", "timeout"}
  BY <1>2 DEF TypeOK, Requests
<1>3. ASSUME NEW w \in Writers, WriteResume(w) PROVE TypeOK'
  <2>0. w \in Threads
    BY DEF Threads
  <2>1. CASE WritePass(w, req[w].length, FALSE)
    BY <2>0, <2>1, <1>2, TypeWrite
  <2>2. CASE ~WritePass(w, req[w].length, FALSE)
    BY <1>0, <1>3, <2>0, <2>2, NotifyType, RecordTypes
    DEF WriteResume, Leave, TypeOK, pipeVars, history
  <2> QED BY <2>1, <2>2
<1>4. ASSUME NEW r \in Readers, ReadStart(r) PROVE TypeOK'
  <2>1. PICK n \in Lengths, b \in Waits : ReadPass(r, n, b)
    BY <1>4 DEF ReadStart
  <2> QED BY <2>1, TypeRead
<1>5. ASSUME NEW r \in Readers, ReadResume(r) PROVE TypeOK'
  <2>1. r \in Threads
    BY DEF Threads
  <2> QED BY <1>2, <1>5, <2>1, TypeRead DEF ReadResume
<1>6. ASSUME NEW r \in Readers, TimerFires(r) PROVE TypeOK'
  BY <1>0, <1>6 DEF TimerFires, TypeOK, pipeVars, history
<1>7. ASSUME NEW r \in Readers, ReadExpired(r) PROVE TypeOK'
  <2>1. waiting_reads' \in Seq(WaiterIds)
    BY <1>7, WithoutType DEF ReadExpired, TypeOK
  <2>2. waiters' \in [WaiterIds -> PendingReads]
    BY <1>7, RecordTypes DEF ReadExpired, RemoveWaiter, TypeOK
  <2>3. r \in Threads
    BY DEF Threads
  <2> QED
    BY SMT, <1>0, <1>7, <2>1, <2>2, <2>3, NotifyType, RecordTypes
    DEF ReadExpired, ForgetWaiter, Leave, TypeOK, history
<1>8. ASSUME NEW t \in Threads, SpuriousWakeup(t) PROVE TypeOK'
  BY <1>0, <1>8 DEF SpuriousWakeup, TypeOK, pipeVars, history
<1>9. CASE CloseRead
  BY SMT, <1>0, <1>9 DEF CloseRead, TypeOK, history
<1>10. CASE CloseWrite
  <2>1. waiters' \in [WaiterIds -> PendingReads]
    BY <1>10, AnswerType DEF CloseWrite, TypeOK
  <2> QED BY SMT, <1>0, <1>10, <2>1 DEF CloseWrite, TypeOK, history
<1>11. ASSUME NEW p \in Pollers, PollSnapshot(p) \/ PollLook(p) \/ PollTimeout(p)
       PROVE TypeOK'
  <2>0. poll[p] \in Polls
    BY DEF TypeOK
  <2>1. /\ \A e \in {"read", "write"} : [stage |-> "snapshot", end |-> e] \in Polls
        /\ [poll[p] EXCEPT !.stage = "snapshot"] \in Polls
        /\ [poll[p] EXCEPT !.stage = "waiting"] \in Polls
    BY <2>0 DEF Polls
  <2>2. PICK x \in Polls : poll' = [poll EXCEPT ![p] = x]
    BY <1>11, <2>1, RecordTypes DEF PollSnapshot, PollLook, PollTimeout
  <2>3. poll' \in [Pollers -> Polls]
    BY <2>2 DEF TypeOK
  <2> QED
    BY <1>11, <2>3
    DEF PollSnapshot, PollLook, PollTimeout, TypeOK, pipeVars, history
<1>12. CASE UNCHANGED vars
  BY <1>12 DEF vars, TypeOK, pipeVars, history
<1> QED
  BY <1>1, <1>3, <1>4, <1>5, <1>6, <1>7, <1>8, <1>9, <1>10, <1>11, <1>12 DEF Next

(* The type invariant holds in every behaviour of the pipe.                *)
THEOREM TypeCorrect == Spec => []TypeOK
<1>1. Init => TypeOK
  BY TypeInit
<1>2. TypeOK /\ [Next]_vars => TypeOK'
  BY TypeNext
<1> QED BY <1>1, <1>2, PTL DEF Spec

------------------------------------------------------------------------------
(* Notifying leaves no thread asleep but the one that notifies.            *)
LEMMA NotifyWakes ==
  ASSUME TypeOK, NEW self, NEW s \in Stages, NotifyAll(self, s)
  PROVE  /\ \A t \in Threads : pc'[t] = "blocked" => t = self /\ s = "blocked"
         /\ changed' = Pollers
  BY DEF NotifyAll, TypeOK, Stages

(* A step of a writer leaves no reader, writer or poller asleep that it    *)
(* should have woken.                                                      *)
LEMMA WakeWrite ==
  ASSUME WakeupInv, TypeOK', NEW w \in Writers, NEW n \in Nat, NEW b \in BOOLEAN,
         WritePass(w, n, b)
  PROVE  Registered' /\ NoLostWakeup' /\ NoMissedPoll'
<1>0. w \in Threads /\ w \notin Readers /\ "idle" \in Stages
  BY PipeConstants DEF Threads, Stages
<1>1. CASE HandOff(w, n) \/ WriteBuffer(w, n)
  <2>1. NotifyAll(w, "idle")
    BY <1>1 DEF HandOff, WriteBuffer
  <2>2. /\ \A t \in Threads : pc'[t] # "blocked"
        /\ changed' = Pollers
    BY <1>0, <2>1, NotifyWakes DEF WakeupInv
  <2> QED BY <2>2 DEF Registered, NoLostWakeup, NoMissedPoll, Threads
<1>2. CASE WriteFull(w, n, b)
  <2>1. /\ UNCHANGED <<buffer, waiters, closed_read, closed_write, waiter_id,
                       poll, changed>>
        /\ waiting_reads' = <<>>
        /\ ~HasRoom(n) /\ ~closed_read /\ ~closed_write
    BY <1>2 DEF WritePass, WriteFull, NoNotify, Leave
  <2>2. \A t \in Threads : t # w => pc'[t] = pc[t] /\ req'[t] = req[t]
    BY <1>0, <1>2 DEF WriteFull, NoNotify, Leave, WakeupInv, TypeOK
  <2>3. pc'[w] = "blocked" => req'[w].length = n
    BY SMT, <1>0, <1>2 DEF WriteFull, NoNotify, Leave, WakeupInv, TypeOK
  <2>4. Registered'
    BY <1>0, <2>1, <2>2 DEF Registered, WakeupInv, Threads
  <2>5. Available' = Available
    BY <2>1 DEF Available
  <2>6. NoLostWakeup'
    BY <1>0, <2>1, <2>2, <2>3, <2>5
    DEF NoLostWakeup, WakeupInv, Threads, HasRoom
  <2>7. NoMissedPoll'
    BY <2>1, <2>5 DEF NoMissedPoll, EndReady, WakeupInv
  <2> QED BY <2>4, <2>6, <2>7
<1> QED BY <1>1, <1>2 DEF WritePass
(* A step of one thread that leaves the pipe, the queue of waiters and the *)
(* pollers alone and after which the thread itself is awake keeps every    *)
(* other sleeper justified, provided it answers no PendingRead.            *)
LEMMA QuietStep ==
  ASSUME WakeupInv, NEW t \in Threads,
         UNCHANGED <<buffer, closed_read, closed_write, waiting_reads, poll, changed>>,
         pc'[t] # "blocked",
         \A u \in Threads \ {t} : pc'[u] = pc[u] /\ req'[u] = req[u],
         \A r \in Readers \ {t} : waiter_id'[r] = waiter_id[r],
         \A i \in WaiterIds : waiters'[i] = waiters[i] \/ waiters'[i] = Absent
  PROVE  Registered' /\ NoLostWakeup' /\ NoMissedPoll'
<1>1. Registered'
  BY DEF Registered, WakeupInv, Threads
<1>2. Available' = Available
  BY DEF Available
<1>3. \A r \in Readers : pc'[r] = "blocked" =>
        waiters'[waiter_id'[r]].result = None
  <2> SUFFICES ASSUME NEW r \in Readers, pc'[r] = "blocked"
               PROVE  waiters'[waiter_id'[r]].result = None
    OBVIOUS
  <2>1. r # t /\ r \in Threads /\ pc[r] = "blocked" /\ waiter_id'[r] = waiter_id[r]
    BY DEF Threads
  <2>2. waiter_id[r] \in WaiterIds
    BY SMT, <2>1, PipeConstants DEF WakeupInv, Registered, TypeOK, WaiterIds
  <2>3. waiters[waiter_id[r]].result = None
    BY <2>1 DEF WakeupInv, NoLostWakeup
  <2> QED BY <2>1, <2>2, <2>3, RecordTypes
<1>4. NoLostWakeup'
  BY <1>2, <1>3 DEF NoLostWakeup, WakeupInv, Threads, HasRoom
<1>5. NoMissedPoll'
  BY <1>2 DEF NoMissedPoll, EndReady, WakeupInv
<1> QED BY <1>1, <1>4, <1>5

(* A step of a reader leaves no sleeper behind.                            *)
LEMMA WakeRead ==
  ASSUME WakeupInv, TypeOK', NEW r \in Readers, NEW n \in Nat,
         NEW b \in {"forever", "timeout"}, ReadPass(r, n, b)
  PROVE  Registered' /\ NoLostWakeup' /\ NoMissedPoll'
<1>0. /\ r \in Threads /\ r \notin Writers
      /\ "idle" \in Stages /\ "blocked" \in Stages
  BY PipeConstants DEF Threads, Stages
<1>1. CASE TakeResult(r) \/ ReadEof(r) \/ ReadBadFd(r)
  <2>1. UNCHANGED <<buffer, closed_read, closed_write, waiting_reads, poll, changed>>
    BY <1>1 DEF ReadPass, TakeResult, ReadEof, ReadBadFd, NoNotify
  <2>2. NoNotify(r, "idle") /\ Leave(r) /\ ForgetWaiter(r)
    BY <1>1 DEF TakeResult, ReadEof, ReadBadFd
  <2>3. /\ pc'[r] = "idle"
        /\ \A u \in Threads \ {r} : pc'[u] = pc[u] /\ req'[u] = req[u]
        /\ \A q \in Readers \ {r} : waiter_id'[q] = waiter_id[q]
    BY <1>0, <2>2 DEF NoNotify, Leave, ForgetWaiter, WakeupInv, TypeOK
  <2>4. \A i \in WaiterIds : waiters'[i] = waiters[i] \/ waiters'[i] = Absent
    BY <1>1 DEF TakeResult, ReadEof, ReadBadFd, RemoveWaiter, WakeupInv, TypeOK
  <2> QED BY <1>0, <2>1, <2>3, <2>4, QuietStep
<1>2. CASE DrainBuffer(r, n)
  <2>1. /\ \A t \in Threads : pc'[t] # "blocked"
        /\ changed' = Pollers
    BY <1>0, <1>2, NotifyWakes DEF DrainBuffer, WakeupInv
  <2> QED BY <2>1 DEF Registered, NoLostWakeup, NoMissedPoll, Threads
<1>3. CASE ReadWait(r, n, b) /\ waiter_id[r] # 0
  <2>1. /\ UNCHANGED <<buffer, closed_read, closed_write, waiting_reads, waiters,
                       waiter_id, poll, changed>>
        /\ buffer = <<>> /\ ~closed_write
        /\ waiters[waiter_id[r]].result = None
    BY <1>3 DEF ReadPass, ReadWait, NoNotify, NoResult
  <2>2. \A t \in Threads : t # r => pc'[t] = pc[t] /\ req'[t] = req[t]
    BY <1>0, <1>3 DEF ReadWait, NoNotify, WakeupInv, TypeOK
  <2>3. Available' = Available
    BY <2>1 DEF Available
  <2>4. Registered'
    BY <1>3, <2>1, <2>2 DEF Registered, WakeupInv, Threads
  <2>5. NoLostWakeup'
    BY <1>0, <2>1, <2>2, <2>3 DEF NoLostWakeup, WakeupInv, Threads, HasRoom
  <2>6. NoMissedPoll'
    BY <2>1, <2>3 DEF NoMissedPoll, EndReady, WakeupInv
  <2> QED BY <2>4, <2>5, <2>6
<1>4. CASE ReadWait(r, n, b) /\ waiter_id[r] = 0
  <2>1. NotifyAll(r, "blocked")
    BY <1>4 DEF ReadWait
  <2>2. /\ \A t \in Threads : pc'[t] = "blocked" => t = r
        /\ changed' = Pollers
    BY <1>0, <2>1, NotifyWakes DEF WakeupInv
  <2>3. /\ next_waiter_id \in WaiterIds
        /\ waiter_id' = [waiter_id EXCEPT ![r] = next_waiter_id]
        /\ waiters' = [waiters EXCEPT ![next_waiter_id] =
                         [length |-> n, result |-> None]]
        /\ UNCHANGED <<buffer, closed_write>>
        /\ buffer = <<>> /\ ~closed_write
    BY <1>4 DEF ReadWait, ReadPass
  <2>4. waiter_id'[r] = next_waiter_id /\ next_waiter_id # 0
    BY SMT, <2>3 DEF WakeupInv, TypeOK, WaiterIds
  <2>5. waiters'[next_waiter_id].result = None
    BY <2>3 DEF WakeupInv, TypeOK
  <2> QED
    BY <1>0, <2>2, <2>3, <2>4, <2>5
    DEF Registered, NoLostWakeup, NoMissedPoll, Threads
<1>5. CASE ReadPastDeadline(r, b)
  <2>1. /\ \A t \in Threads : pc'[t] # "blocked"
        /\ changed' = Pollers
    BY <1>0, <1>5, NotifyWakes DEF ReadPastDeadline, WakeupInv
  <2> QED BY <2>1 DEF Registered, NoLostWakeup, NoMissedPoll, Threads
<1> QED BY <1>1, <1>2, <1>3, <1>4, <1>5 DEF ReadPass

(* Every action keeps every sleeper justified.                             *)
LEMMA WakeNext == WakeupInv /\ [Next]_vars => WakeupInv'
<1> SUFFICES ASSUME WakeupInv, [Next]_vars
             PROVE  Registered' /\ NoLostWakeup' /\ NoMissedPoll'
  BY TypeNext DEF WakeupInv
<1> USE PipeConstants
<1>a. TypeOK /\ TypeOK'
  BY TypeNext DEF WakeupInv
<1>b. ASSUME NEW t \in Threads
      PROVE  req[t].length \in Nat /\ req[t].wait \in {"forever", "timeout"}
  BY <1>a DEF TypeOK, Requests
<1>c. Readers \subseteq Threads /\ Writers \subseteq Threads
  BY DEF Threads
<1>1. ASSUME NEW w \in Writers, WriteStart(w)
      PROVE  Registered' /\ NoLostWakeup' /\ NoMissedPoll'
  <2>1. PICK n \in Lengths, b \in BOOLEAN : WritePass(w, n, b)
    BY <1>1 DEF WriteStart
  <2> QED BY <1>a, <2>1, WakeWrite
<1>2. ASSUME NEW w \in Writers, WriteResume(w)
      PROVE  Registered' /\ NoLostWakeup' /\ NoMissedPoll'
  <2>1. CASE WritePass(w, req[w].length, FALSE)
    BY <1>a, <1>b, <1>c, <2>1, WakeWrite
  <2>2. CASE ~WritePass(w, req[w].length, FALSE)
    <3>1. /\ NoNotify(w, "idle") /\ Leave(w)
          /\ UNCHANGED <<pipeVars, waiter_id, poll, history>>
      BY <1>2, <2>2 DEF WriteResume
    <3>2. /\ pc'[w] = "idle"
          /\ \A u \in Threads \ {w} : pc'[u] = pc[u] /\ req'[u] = req[u]
      BY <1>a, <1>c, <3>1 DEF NoNotify, Leave, TypeOK
    <3> QED BY <1>c, <3>1, <3>2, QuietStep DEF pipeVars, NoNotify
  <2> QED BY <2>1, <2>2
<1>3. ASSUME NEW r \in Readers, ReadStart(r)
      PROVE  Registered' /\ NoLostWakeup' /\ NoMissedPoll'
  <2>1. PICK n \in Lengths, b \in Waits : ReadPass(r, n, b)
    BY <1>3 DEF ReadStart
  <2> QED BY <1>a, <2>1, WakeRead
<1>4. ASSUME NEW r \in Readers, ReadResume(r)
      PROVE  Registered' /\ NoLostWakeup' /\ NoMissedPoll'
  BY <1>a, <1>b, <1>c, <1>4, WakeRead DEF ReadResume
<1>5. ASSUME NEW t \in Threads,
             (t \in Readers /\ TimerFires(t)) \/ SpuriousWakeup(t)
      PROVE  Registered' /\ NoLostWakeup' /\ NoMissedPoll'
  <2>1. pc'[t] # "blocked" /\ \A u \in Threads \ {t} : pc'[u] = pc[u]
    BY <1>a, <1>5 DEF TimerFires, SpuriousWakeup, TypeOK
  <2> QED BY <1>5, <2>1, QuietStep DEF TimerFires, SpuriousWakeup, pipeVars
<1>6. ASSUME NEW r \in Readers, ReadExpired(r)
      PROVE  Registered' /\ NoLostWakeup' /\ NoMissedPoll'
  <2>1. /\ \A t \in Threads : pc'[t] # "blocked"
        /\ changed' = Pollers
    BY <1>a, <1>6, NotifyWakes DEF ReadExpired, Stages
  <2> QED BY <1>c, <2>1 DEF Registered, NoLostWakeup, NoMissedPoll
<1>7. CASE CloseRead \/ CloseWrite
  <2>1. /\ \A t \in Threads : pc'[t] # "blocked"
        /\ changed' = Pollers
    BY <1>a, <1>7 DEF CloseRead, CloseWrite, TypeOK
  <2> QED BY <1>c, <2>1 DEF Registered, NoLostWakeup, NoMissedPoll
<1>8. ASSUME NEW p \in Pollers, PollSnapshot(p) \/ PollLook(p) \/ PollTimeout(p)
      PROVE  Registered' /\ NoLostWakeup' /\ NoMissedPoll'
  <2>1. UNCHANGED <<pipeVars, pc, req, waiter_id>>
    BY <1>8 DEF PollSnapshot, PollLook, PollTimeout
  <2>2. Available' = Available
    BY <2>1 DEF Available, pipeVars
  <2>3. Registered' /\ NoLostWakeup'
    BY <2>1, <2>2 DEF WakeupInv, Registered, NoLostWakeup, HasRoom, pipeVars
  <2>4. \A q \in Pollers \ {p} :
          poll'[q] = poll[q] /\ (q \in changed' <=> q \in changed)
    <3>1. CASE PollSnapshot(p)
      BY <1>a, <3>1 DEF PollSnapshot, TypeOK
    <3>2. CASE PollLook(p)
      BY <1>a, <3>2 DEF PollLook, TypeOK
    <3>3. CASE PollTimeout(p)
      BY <1>a, <3>3 DEF PollTimeout, TypeOK
    <3> QED BY <1>8, <3>1, <3>2, <3>3
  <2>5. poll'[p].stage = "waiting" => ~EndReady(poll'[p].end)
    <3>1. CASE PollSnapshot(p)
      <4>1. poll \in [Pollers -> Polls]
        BY <1>a DEF TypeOK
      <4>2. poll'[p].stage = "snapshot"
        BY SMT, <3>1, <4>1 DEF PollSnapshot, Polls
      <4> QED BY <4>2
    <3>2. CASE PollLook(p)
      BY SMT, <1>a, <3>2 DEF PollLook, TypeOK, Outside, Polls
    <3>3. CASE PollTimeout(p)
      BY <1>a, <3>3 DEF PollTimeout, TypeOK, Outside, Polls
    <3> QED BY <1>8, <3>1, <3>2, <3>3
  <2>6. \A e : EndReady(e)' = EndReady(e)
    BY <2>1, <2>2 DEF EndReady, pipeVars
  <2>7. NoMissedPoll'
    BY <2>1, <2>2, <2>4, <2>5 DEF NoMissedPoll, WakeupInv, EndReady, pipeVars
  <2> QED BY <2>3, <2>7
<1>9. CASE UNCHANGED vars
  <2>1. Available' = Available
    BY <1>9 DEF vars, pipeVars, Available
  <2> QED
    BY <1>9, <2>1 DEF vars, pipeVars, WakeupInv, Registered, NoLostWakeup, HasRoom,
                      NoMissedPoll, EndReady
<1> QED
  BY <1>c, <1>1, <1>2, <1>3, <1>4, <1>5, <1>6, <1>7, <1>8, <1>9 DEF Next

(* No reader, writer or poll() of a pipe sleeps through what it waits for, *)
(* whatever the number of threads and the sizes: every method that makes a *)
(* sleeper's condition true notifies before it lets go of the mutex.       *)
THEOREM WakeupsAreNotLost == Spec => [](NoLostWakeup /\ NoMissedPoll)
<1>1. Init => WakeupInv
  BY SMT, TypeInit DEF Init, WakeupInv, Registered, NoLostWakeup, NoMissedPoll, Outside,
                  Threads
<1>2. WakeupInv /\ [Next]_vars => WakeupInv'
  BY WakeNext
<1>3. WakeupInv => NoLostWakeup /\ NoMissedPoll
  BY DEF WakeupInv
<1> QED BY <1>1, <1>2, <1>3, PTL DEF Spec

(* The same of poll() alone: a poll() that sleeps on an unchanged          *)
(* generation has nothing to report.                                       *)
THEOREM PollsAreNotMissed == Spec => []NoMissedPoll
<1>1. NoLostWakeup /\ NoMissedPoll => NoMissedPoll
  OBVIOUS
<1> QED BY <1>1, WakeupsAreNotLost, PTL

------------------------------------------------------------------------------
(* Where the bytes are.  The bytes of a sequence, a sequence that holds    *)
(* none twice, and the bytes a PendingRead was answered with.              *)
In(s)       == {s[i] : i \in DOMAIN s}
Distinct(s) == \A i, j \in DOMAIN s : s[i] = s[j] => i = j
Answer(i)   == waiters[i].result.bytes

(* Every byte was accepted, and is in one place.                           *)
BytesInv ==
  /\ TypeOK
  /\ Distinct(delivered) /\ Distinct(buffer)
  /\ In(delivered) \cup In(buffer) \subseteq 1..sent
  /\ In(delivered) \cap In(buffer) = {}
  /\ \A i \in WaiterIds :
       /\ Distinct(Answer(i)) /\ In(Answer(i)) \subseteq 1..sent
       /\ In(Answer(i)) \cap (In(delivered) \cup In(buffer)) = {}
       /\ \A j \in WaiterIds \ {i} : In(Answer(i)) \cap In(Answer(j)) = {}

(* Appending, as reads do to what was delivered and writes to the buffer,  *)
(* adds the bytes of the second sequence and repeats none if it shares     *)
(* none.                                                                   *)
LEMMA InAppended ==
  ASSUME NEW s \in Seq(Bytes), NEW t \in Seq(Bytes)
  PROVE  /\ In(s \o t) = In(s) \cup In(t)
         /\ Distinct(s) /\ Distinct(t) /\ In(s) \cap In(t) = {} => Distinct(s \o t)
<1>1. In(s \o t) = In(s) \cup In(t)
  <2>1. ASSUME NEW x \in In(s \o t) PROVE x \in In(s) \cup In(t)
    BY SMT, <2>1 DEF In
  <2>2. ASSUME NEW x \in In(s) PROVE x \in In(s \o t)
    BY SMT, <2>2 DEF In
  <2>3. ASSUME NEW x \in In(t) PROVE x \in In(s \o t)
    <3>1. PICK i \in DOMAIN t : t[i] = x
      BY <2>3 DEF In
    <3>2. Len(s) + i \in DOMAIN (s \o t) /\ (s \o t)[Len(s) + i] = x
      BY SMT, <3>1
    <3> QED BY <3>2 DEF In
  <2> QED BY <2>1, <2>2, <2>3
<1>2. ASSUME Distinct(s), Distinct(t), In(s) \cap In(t) = {} PROVE Distinct(s \o t)
  <2>1. \A i \in DOMAIN s, j \in DOMAIN t : s[i] # t[j]
    BY <1>2 DEF In
  <2> QED BY SMT, <1>2, <2>1 DEF Distinct
<1> QED BY <1>1, <1>2

(* The bytes a write accepts are the next ones, each once.                 *)
LEMMA InSpan ==
  ASSUME NEW m \in Nat, NEW n \in Nat
  PROVE  Distinct(Span(m, n)) /\ In(Span(m, n)) = (m + 1)..(m + n)
<1>1. In(Span(m, n)) \subseteq (m + 1)..(m + n)
  BY SMT DEF In, Span
<1>2. ASSUME NEW x \in (m + 1)..(m + n) PROVE x \in In(Span(m, n))
  <2>1. x - m \in DOMAIN Span(m, n) /\ Span(m, n)[x - m] = x
    BY SMT DEF Span
  <2> QED BY <2>1 DEF In
<1>3. Distinct(Span(m, n))
  BY SMT DEF Distinct, Span
<1> QED BY <1>1, <1>2, <1>3

(* A read that takes a prefix of the buffer leaves the rest of its bytes.  *)
LEMMA InSplit ==
  ASSUME NEW s \in Seq(Bytes), NEW n \in Nat, Distinct(s)
  PROVE  /\ Distinct(Take(s, n)) /\ Distinct(Drop(s, n))
         /\ In(Take(s, n)) \cap In(Drop(s, n)) = {}
         /\ In(Take(s, n)) \cup In(Drop(s, n)) \subseteq In(s)
<1> DEFINE k == Min2(n, Len(s))
<1>1. k \in 0..Len(s)
  BY SMT DEF Min2
<1> HIDE DEF k
<1>2. /\ Take(s, n) = SubSeq(s, 1, k) /\ Drop(s, n) = SubSeq(s, k + 1, Len(s))
  BY DEF Take, Drop, k
<1>3. /\ DOMAIN Take(s, n) = 1..k /\ \A i \in 1..k : Take(s, n)[i] = s[i]
      /\ DOMAIN Drop(s, n) = 1..(Len(s) - k)
      /\ \A i \in 1..(Len(s) - k) : Drop(s, n)[i] = s[k + i]
  BY SMT, <1>1, <1>2
<1>4. Distinct(Take(s, n)) /\ Distinct(Drop(s, n))
  <2>1. ASSUME NEW i \in 1..k, NEW j \in 1..k, Take(s, n)[i] = Take(s, n)[j]
        PROVE  i = j
    <3>1. i \in DOMAIN s /\ j \in DOMAIN s /\ s[i] = s[j]
      BY SMT, <1>1, <1>3, <2>1
    <3> QED BY <3>1 DEF Distinct
  <2>2. ASSUME NEW i \in 1..(Len(s) - k), NEW j \in 1..(Len(s) - k),
               Drop(s, n)[i] = Drop(s, n)[j]
        PROVE  i = j
    <3>1. k + i \in DOMAIN s /\ k + j \in DOMAIN s /\ s[k + i] = s[k + j]
      BY SMT, <1>1, <1>3, <2>2
    <3>2. k + i = k + j
      BY <3>1 DEF Distinct
    <3> QED BY SMT, <1>1, <3>2
  <2> QED BY <1>3, <2>1, <2>2 DEF Distinct
<1>5. ASSUME NEW x \in In(Take(s, n)) PROVE \E i \in 1..k : s[i] = x
  BY <1>3, <1>5 DEF In
<1>6. ASSUME NEW x \in In(Drop(s, n)) PROVE \E i \in (k + 1)..Len(s) : s[i] = x
  <2>1. PICK i \in 1..(Len(s) - k) : s[k + i] = x
    BY <1>3, <1>6 DEF In
  <2>2. k + i \in (k + 1)..Len(s)
    BY SMT, <1>1
  <2> QED BY <2>1, <2>2
<1>7. In(Take(s, n)) \cup In(Drop(s, n)) \subseteq In(s)
  <2>1. \A i \in 1..Len(s) : s[i] \in In(s)
    BY SMT DEF In
  <2> QED BY SMT, <1>1, <1>5, <1>6, <2>1
<1>8. In(Take(s, n)) \cap In(Drop(s, n)) = {}
  BY SMT, <1>1, <1>5, <1>6 DEF Distinct
<1> QED BY <1>4, <1>7, <1>8

(* The empty sequence, which end of file and a new PendingRead carry.      *)
LEMMA InEmpty == In(<<>>) = {} /\ Distinct(<<>>)
  BY SMT DEF In, Distinct

(* A step that moves no byte, but may drop answers and the buffer, as a    *)
(* timeout or the last close does, keeps every byte in one place.          *)
LEMMA BytesQuiet ==
  ASSUME BytesInv, TypeOK', UNCHANGED <<delivered, sent>>,
         buffer' = buffer \/ buffer' = <<>>,
         \A i \in WaiterIds : Answer(i)' = Answer(i) \/ Answer(i)' = <<>>
  PROVE  BytesInv'
<1> DEFINE D == In(delivered)
           B == In(buffer)
           A(i) == In(Answer(i))
<1>1. /\ In(delivered)' = D /\ Distinct(delivered)'
      /\ In(buffer)' \subseteq B /\ Distinct(buffer)'
  BY InEmpty DEF BytesInv, In, Distinct
<1>2. \A i \in WaiterIds : In(Answer(i))' \subseteq A(i) /\ Distinct(Answer(i))'
  BY SMT, InEmpty DEF BytesInv, In, Distinct
<1>3. /\ D \cup B \subseteq 1..sent /\ D \cap B = {}
      /\ \A i \in WaiterIds :
           /\ A(i) \subseteq 1..sent /\ A(i) \cap (D \cup B) = {}
           /\ \A j \in WaiterIds \ {i} : A(i) \cap A(j) = {}
  BY DEF BytesInv
<1> HIDE DEF D, B, A
<1>4. \A i \in WaiterIds :
        /\ In(Answer(i))' \subseteq 1..sent'
        /\ In(Answer(i))' \cap (In(delivered)' \cup In(buffer)') = {}
        /\ \A j \in WaiterIds \ {i} : In(Answer(i))' \cap In(Answer(j))' = {}
  BY <1>1, <1>2, <1>3
<1>5. /\ In(delivered)' \cup In(buffer)' \subseteq 1..sent'
      /\ In(delivered)' \cap In(buffer)' = {}
  BY <1>1, <1>3
<1> QED BY <1>1, <1>2, <1>4, <1>5 DEF BytesInv

(* A write puts new bytes in one answer and at the end of the buffer.      *)
LEMMA BytesWrite ==
  ASSUME BytesInv, TypeOK', NEW w \in Writers, NEW n \in Nat, NEW b \in BOOLEAN,
         WritePass(w, n, b)
  PROVE  BytesInv'
<1> USE DEF Answer
<1>0. /\ sent \in Nat /\ buffer \in Seq(Bytes) /\ delivered \in Seq(Bytes)
      /\ waiters \in [WaiterIds -> PendingReads]
  BY DEF BytesInv, TypeOK
<1>1. CASE HandOff(w, n)
  <2>1. PICK i \in DOMAIN waiting_reads :
          LET id   == waiting_reads[i]
              give == Min2(waiters[id].length, n)
          IN /\ waiters' = [waiters EXCEPT ![id] =
                              [@ EXCEPT !.result = Data(Span(sent, give))]]
             /\ buffer' = buffer \o Span(sent + give, n - give)
    BY <1>1 DEF HandOff
  <2> DEFINE id == waiting_reads[i]
             give == Min2(waiters[id].length, n)
  <2>2. id \in WaiterIds /\ waiters[id] \in PendingReads
    BY SMT DEF BytesInv, TypeOK
  <2>3. give \in Nat /\ n - give \in Nat
    <3>1. waiters[id].length \in Nat
      BY <2>2, AnswerType
    <3> HIDE DEF id
    <3> QED BY SMT, <3>1 DEF Min2
  <2>4. waiters'[id].result.bytes = Span(sent, give)
    BY <1>0, <2>1, <2>2 DEF PendingReads, Data
  <2>5. \A j \in WaiterIds \ {id} : waiters'[j] = waiters[j]
    BY <1>0, <2>1
  <2>6. buffer' = buffer \o Span(sent + give, n - give)
    BY <2>1
  <2>7. sent' = sent + n /\ delivered' = delivered
    BY <1>1 DEF HandOff, WritePass
  <2> HIDE DEF id, give
  <2>8. /\ Span(sent + give, n - give) \in Seq(Bytes)
        /\ In(Span(sent + give, n - give)) = (sent + give + 1)..(sent + n)
        /\ Distinct(Span(sent + give, n - give))
    <3>1. sent + give \in Nat /\ sent + give + (n - give) = sent + n
      BY SMT, <1>0, <2>3
    <3> QED BY <2>3, <3>1, InSpan, SpanType
  <2>9. /\ In(buffer') = In(buffer) \cup ((sent + give + 1)..(sent + n))
        /\ Distinct(buffer')
    <3>1. In(buffer) \cap ((sent + give + 1)..(sent + n)) = {}
      BY SMT, <1>0, <2>3 DEF BytesInv
    <3>2. Distinct(buffer)
      BY DEF BytesInv
    <3> QED BY <1>0, <2>6, <2>8, <3>1, <3>2, InAppended
  <2>10. /\ In(waiters'[id].result.bytes) = (sent + 1)..(sent + give)
         /\ Distinct(waiters'[id].result.bytes)
    BY <1>0, <2>3, <2>4, InSpan
  <2>11. /\ In(delivered') \cup In(buffer') \subseteq 1..sent'
         /\ In(delivered') \cap In(buffer') = {}
    BY SMT, <1>0, <2>3, <2>7, <2>9 DEF BytesInv
  <2>12. ASSUME NEW j \in WaiterIds
         PROVE  /\ Distinct(waiters'[j].result.bytes)
                /\ In(waiters'[j].result.bytes) \subseteq 1..sent'
                /\ In(waiters'[j].result.bytes) \cap (In(delivered') \cup In(buffer')) = {}
    <3>1. CASE j = id
      BY SMT, <1>0, <2>3, <2>7, <2>9, <2>10, <3>1 DEF BytesInv
    <3>2. CASE j # id
      <4>1. waiters'[j].result.bytes = Answer(j)
        BY <2>5, <3>2
      <4>2. /\ Distinct(Answer(j)) /\ In(Answer(j)) \subseteq 1..sent
            /\ In(Answer(j)) \cap (In(delivered) \cup In(buffer)) = {}
        BY DEF BytesInv
      <4>3. \A x \in In(Answer(j)) : x \in 1..sent /\ x \notin In(delivered) \cup In(buffer)
        BY <4>2
      <4>4. \A x \in 1..sent : x \notin (sent + give + 1)..(sent + n)
        BY SMT, <1>0, <2>3
      <4>5. 1..sent \subseteq 1..sent'
        BY SMT, <1>0, <2>7
      <4> QED BY <2>7, <2>9, <4>1, <4>2, <4>3, <4>4, <4>5
    <3> QED BY <3>1, <3>2
  <2>13. ASSUME NEW j \in WaiterIds, NEW k \in WaiterIds \ {j}
         PROVE  In(waiters'[j].result.bytes) \cap In(waiters'[k].result.bytes) = {}
    <3>0. \A i0 \in WaiterIds \ {id} :
            /\ waiters'[i0].result.bytes = Answer(i0)
            /\ In(Answer(i0)) \cap ((sent + 1)..(sent + give)) = {}
      <4>1. ASSUME NEW i0 \in WaiterIds PROVE In(Answer(i0)) \subseteq 1..sent
        BY DEF BytesInv
      <4>2. \A x \in 1..sent : x \notin (sent + 1)..(sent + give)
        BY SMT, <1>0, <2>3
      <4> QED BY <2>5, <4>1, <4>2
    <3>1. CASE j # id /\ k # id
      <4>1. In(Answer(j)) \cap In(Answer(k)) = {}
        BY DEF BytesInv
      <4> QED BY <3>0, <3>1, <4>1
    <3>2. CASE j = id
      BY <2>10, <3>0, <3>2
    <3>3. CASE k = id
      BY <2>10, <3>0, <3>3
    <3> QED BY <3>1, <3>2, <3>3
  <2>14. Distinct(delivered')
    BY <2>7 DEF BytesInv
  <2> QED BY <2>9, <2>11, <2>12, <2>13, <2>14 DEF BytesInv
<1>2. CASE WriteBuffer(w, n)
  <2> DEFINE k == Accepted(n)
  <2>1. k \in Nat
    <3>1. Available \in Nat
      BY SMT, <1>0, PipeConstants DEF Available
    <3> QED BY <3>1 DEF Accepted, Min2
  <2>2. /\ buffer' = buffer \o Span(sent, k) /\ sent' = sent + k
        /\ UNCHANGED <<waiters, delivered>>
    BY <1>2 DEF WriteBuffer, WritePass
  <2> HIDE DEF k
  <2>3. /\ Span(sent, k) \in Seq(Bytes) /\ Distinct(Span(sent, k))
        /\ In(Span(sent, k)) = (sent + 1)..(sent + k)
    BY <1>0, <2>1, InSpan, SpanType
  <2>4. /\ In(buffer') = In(buffer) \cup ((sent + 1)..(sent + k))
        /\ Distinct(buffer')
    <3>1. In(buffer) \cap ((sent + 1)..(sent + k)) = {}
      BY SMT, <1>0, <2>1 DEF BytesInv
    <3>2. Distinct(buffer) /\ buffer \in Seq(Bytes)
      BY <1>0 DEF BytesInv
    <3>3. PICK s \in Seq(Bytes) : s = Span(sent, k)
      BY <2>3
    <3>4. In(buffer \o s) = In(buffer) \cup In(s) /\ Distinct(buffer \o s)
      BY <2>3, <3>1, <3>2, <3>3, InAppended
    <3> QED BY <2>2, <2>3, <3>3, <3>4
  <2>5. /\ In(delivered') \cup In(buffer') \subseteq 1..sent'
        /\ In(delivered') \cap In(buffer') = {}
    BY SMT, <1>0, <2>1, <2>2, <2>4 DEF BytesInv
  <2>6. ASSUME NEW j \in WaiterIds
        PROVE  /\ In(waiters'[j].result.bytes) \subseteq 1..sent'
               /\ In(waiters'[j].result.bytes) \cap (In(delivered') \cup In(buffer')) = {}
    <3>1. /\ In(Answer(j)) \subseteq 1..sent
          /\ In(Answer(j)) \cap (In(delivered) \cup In(buffer)) = {}
      BY DEF BytesInv
    <3>2. \A x \in 1..sent : x \in 1..sent' /\ x \notin (sent + 1)..(sent + k)
      BY SMT, <1>0, <2>1, <2>2
    <3> QED BY <2>2, <2>4, <3>1, <3>2
  <2> QED BY <2>2, <2>4, <2>5, <2>6 DEF BytesInv
<1>3. CASE WriteFull(w, n, b)
  BY <1>3, BytesQuiet DEF WriteFull, WritePass
<1> QED BY <1>1, <1>2, <1>3 DEF WritePass

(* A read moves the bytes of its answer, or a prefix of the buffer, to     *)
(* what was delivered.                                                     *)
LEMMA BytesRead ==
  ASSUME BytesInv, TypeOK', NEW r \in Readers, NEW n \in Nat,
         NEW d \in {"forever", "timeout"}, ReadPass(r, n, d)
  PROVE  BytesInv'
<1> USE DEF Answer
<1>0. /\ sent \in Nat /\ buffer \in Seq(Bytes) /\ delivered \in Seq(Bytes)
      /\ waiters \in [WaiterIds -> PendingReads] /\ waiter_id[r] \in 0..MaxWaiters
  BY DEF BytesInv, TypeOK
<1>a. Absent.result.bytes = <<>> /\ None.bytes = <<>>
  BY DEF Absent, None
<1>1. CASE TakeResult(r)
  <2> DEFINE id == waiter_id[r]
  <2>1. id \in WaiterIds
    BY SMT, <1>0, <1>1 DEF TakeResult, WaiterIds
  <2>2. /\ delivered' = delivered \o Answer(id) /\ waiters'[id] = Absent
        /\ \A j \in WaiterIds \ {id} : waiters'[j] = waiters[j]
        /\ buffer' = buffer /\ sent' = sent
    BY <1>0, <1>1, <2>1 DEF TakeResult
  <2>3. Answer(id) \in Seq(Bytes)
    BY <1>0, <2>1 DEF PendingReads, Results
  <2> HIDE DEF id
  <2>4. /\ Distinct(delivered) /\ Distinct(Answer(id)) /\ Distinct(buffer)
        /\ In(Answer(id)) \cap (In(delivered) \cup In(buffer)) = {}
        /\ In(Answer(id)) \cup In(delivered) \cup In(buffer) \subseteq 1..sent
        /\ In(delivered) \cap In(buffer) = {}
    BY <2>1 DEF BytesInv
  <2>5. In(delivered') = In(delivered) \cup In(Answer(id)) /\ Distinct(delivered')
    BY <1>0, <2>2, <2>3, <2>4, InAppended
  <2>6. /\ In(waiters'[id].result.bytes) = {} /\ Distinct(waiters'[id].result.bytes)
    BY <1>a, <2>2, InEmpty
  <2>7. \A j \in WaiterIds \ {id} : waiters'[j].result.bytes = Answer(j)
    BY <2>2
  <2>8. \A j \in WaiterIds :
          /\ Distinct(Answer(j)) /\ In(Answer(j)) \subseteq 1..sent
          /\ In(Answer(j)) \cap (In(delivered) \cup In(buffer)) = {}
          /\ \A k \in WaiterIds \ {j} : In(Answer(j)) \cap In(Answer(k)) = {}
    BY DEF BytesInv
  <2>9. ASSUME NEW j \in WaiterIds
        PROVE  /\ Distinct(waiters'[j].result.bytes)
               /\ In(waiters'[j].result.bytes) \subseteq 1..sent'
               /\ In(waiters'[j].result.bytes) \cap (In(delivered') \cup In(buffer')) = {}
    <3>1. CASE j = id
      BY <2>6, <3>1
    <3>2. CASE j # id
      BY <2>1, <2>2, <2>5, <2>7, <2>8, <3>2
    <3> QED BY <3>1, <3>2
  <2>10. ASSUME NEW j \in WaiterIds, NEW k \in WaiterIds \ {j}
         PROVE  In(waiters'[j].result.bytes) \cap In(waiters'[k].result.bytes) = {}
    BY <2>6, <2>7, <2>8
  <2>11. /\ In(delivered') \cup In(buffer') \subseteq 1..sent' /\ Distinct(buffer')
         /\ In(delivered') \cap In(buffer') = {}
    BY <2>2, <2>4, <2>5
  <2> QED BY <2>5, <2>9, <2>10, <2>11 DEF BytesInv
<1>2. CASE DrainBuffer(r, n)
  <2>1. /\ delivered' = delivered \o Take(buffer, n) /\ buffer' = Drop(buffer, n)
        /\ UNCHANGED <<waiters, sent>>
    BY <1>2 DEF DrainBuffer
  <2>2. /\ Distinct(delivered) /\ Distinct(buffer)
        /\ In(delivered) \cup In(buffer) \subseteq 1..sent
        /\ In(delivered) \cap In(buffer) = {}
    BY DEF BytesInv
  <2>3. Take(buffer, n) \in Seq(Bytes)
    BY <1>0, TakeDropType
  <2>4. /\ Distinct(Take(buffer, n)) /\ Distinct(Drop(buffer, n))
        /\ In(Take(buffer, n)) \cap In(Drop(buffer, n)) = {}
        /\ In(Take(buffer, n)) \cup In(Drop(buffer, n)) \subseteq In(buffer)
    BY <1>0, <2>2, InSplit
  <2>5. In(delivered') = In(delivered) \cup In(Take(buffer, n)) /\ Distinct(delivered')
    <3>1. In(delivered) \cap In(Take(buffer, n)) = {}
      BY <2>2, <2>4
    <3> QED BY <1>0, <2>1, <2>2, <2>3, <2>4, <3>1, InAppended
  <2>6. /\ In(delivered') \cup In(buffer') \subseteq In(delivered) \cup In(buffer)
        /\ In(delivered') \cap In(buffer') = {} /\ Distinct(buffer')
    BY <2>1, <2>2, <2>4, <2>5
  <2>7. ASSUME NEW j \in WaiterIds
        PROVE  /\ In(waiters'[j].result.bytes) \subseteq 1..sent'
               /\ In(waiters'[j].result.bytes) \cap (In(delivered') \cup In(buffer')) = {}
    <3>1. /\ In(Answer(j)) \subseteq 1..sent
          /\ In(Answer(j)) \cap (In(delivered) \cup In(buffer)) = {}
      BY DEF BytesInv
    <3> QED BY <2>1, <2>6, <3>1
  <2>8. In(delivered') \cup In(buffer') \subseteq 1..sent'
    BY <2>1, <2>2, <2>6
  <2> QED BY <2>1, <2>5, <2>6, <2>7, <2>8 DEF BytesInv
<1>3. CASE ReadEof(r)
  <2>1. /\ UNCHANGED <<buffer, sent, delivered>>
        /\ \A j \in WaiterIds : waiters'[j] = waiters[j] \/ waiters'[j] = Absent
    BY <1>3 DEF ReadEof, RemoveWaiter
  <2> QED BY <1>a, <2>1, BytesQuiet
<1>4. CASE ReadBadFd(r)
  BY <1>4, BytesQuiet DEF ReadBadFd, history
<1>5. CASE ReadPastDeadline(r, d)
  <2>1. /\ UNCHANGED <<buffer, sent, delivered>>
        /\ \A j \in WaiterIds : waiters'[j] = waiters[j] \/ waiters'[j] = Absent
    BY <1>5 DEF ReadPastDeadline, RemoveWaiter, history
  <2> QED BY <1>a, <2>1, BytesQuiet
<1>6. CASE ReadWait(r, n, d)
  <2>1. UNCHANGED <<buffer, sent, delivered>>
    BY <1>6 DEF ReadWait, history
  <2>2. \A j \in WaiterIds : \/ waiters'[j] = waiters[j]
                            \/ waiters'[j] = [length |-> n, result |-> None]
    BY <1>0, <1>6 DEF ReadWait
  <2>3. [length |-> n, result |-> None].result.bytes = <<>>
    BY <1>a
  <2>4. \A j \in WaiterIds : waiters'[j].result.bytes \in {waiters[j].result.bytes, <<>>}
    BY <2>2, <2>3
  <2> QED BY <2>1, <2>4, BytesQuiet
<1> QED BY <1>1, <1>2, <1>3, <1>4, <1>5, <1>6 DEF ReadPass

(* Every step leaves every byte in at most one place.                      *)
LEMMA BytesNext == BytesInv /\ [Next]_vars => BytesInv'
<1> USE PipeConstants
<1> SUFFICES ASSUME BytesInv, [Next]_vars PROVE BytesInv'
  OBVIOUS
<1>0. TypeOK /\ TypeOK'
  BY TypeNext DEF BytesInv
<1>a. Absent.result.bytes = <<>> /\ Eof.bytes = <<>>
  BY DEF Absent, None, Eof
<1>b. ASSUME NEW t \in Threads
      PROVE  req[t].length \in Nat /\ req[t].wait \in {"forever", "timeout"}
  BY <1>0, <1>b DEF TypeOK, Requests
<1>1. ASSUME NEW w \in Writers, WriteStart(w) PROVE BytesInv'
  <2>1. PICK n \in Lengths, b \in BOOLEAN : WritePass(w, n, b)
    BY <1>1 DEF WriteStart
  <2> QED BY <1>0, <2>1, BytesWrite
<1>2. ASSUME NEW w \in Writers, WriteResume(w) PROVE BytesInv'
  <2>1. w \in Threads
    BY DEF Threads
  <2>2. CASE WritePass(w, req[w].length, FALSE)
    BY <1>0, <1>b, <2>1, <2>2, BytesWrite
  <2>3. CASE ~WritePass(w, req[w].length, FALSE)
    BY <1>0, <1>2, <2>3, BytesQuiet DEF WriteResume, pipeVars, history, Answer
  <2> QED BY <2>2, <2>3
<1>3. ASSUME NEW r \in Readers, ReadStart(r) PROVE BytesInv'
  <2>1. PICK n \in Lengths, d \in Waits : ReadPass(r, n, d)
    BY <1>3 DEF ReadStart
  <2> QED BY <1>0, <2>1, BytesRead
<1>4. ASSUME NEW r \in Readers, ReadResume(r) PROVE BytesInv'
  <2>1. r \in Threads
    BY DEF Threads
  <2> QED BY <1>0, <1>b, <1>4, <2>1, BytesRead DEF ReadResume
<1>5. ASSUME NEW r \in Readers, ReadExpired(r) PROVE BytesInv'
  <2>1. /\ UNCHANGED <<buffer, sent, delivered>>
        /\ \A j \in WaiterIds : waiters'[j] = waiters[j] \/ waiters'[j] = Absent
    BY <1>5 DEF ReadExpired, RemoveWaiter, history
  <2> QED BY <1>0, <1>a, <2>1, BytesQuiet DEF Answer
<1>6. CASE CloseRead
  BY <1>0, <1>6, BytesQuiet DEF CloseRead, history, Answer
<1>7. CASE CloseWrite
  <2>1. /\ UNCHANGED <<sent, delivered>> /\ (buffer' = buffer \/ buffer' = <<>>)
    BY <1>7 DEF CloseWrite, history
  <2>2. ASSUME NEW j \in WaiterIds
        PROVE  waiters'[j] = waiters[j] \/ waiters'[j].result = Eof
    <3>1. waiters[j] \in PendingReads
      BY <1>0 DEF TypeOK
    <3> QED BY <1>7, <3>1 DEF CloseWrite, PendingReads
  <2> QED BY <1>0, <1>a, <2>1, <2>2, BytesQuiet DEF Answer
<1>8. CASE \/ \E r \in Readers : TimerFires(r)
           \/ \E t \in Threads : SpuriousWakeup(t)
           \/ \E p \in Pollers : PollSnapshot(p) \/ PollLook(p) \/ PollTimeout(p)
           \/ UNCHANGED vars
  <2>1. UNCHANGED <<buffer, waiters, sent, delivered>>
    BY <1>8 DEF TimerFires, SpuriousWakeup, PollSnapshot, PollLook, PollTimeout,
                vars, pipeVars, history
  <2> QED BY <1>0, <2>1, BytesQuiet DEF Answer
<1> QED BY <1>1, <1>2, <1>3, <1>4, <1>5, <1>6, <1>7, <1>8 DEF Next

(* No interleaving of readers, writers, timeouts and closes puts a byte in *)
(* two places: what read_with_timeout returns, what a PendingRead holds    *)
(* and what is buffered are disjoint, and none of them repeats a byte.     *)
THEOREM NoByteIsReturnedTwice == Spec => []NoByteTwice
<1>1. Init => BytesInv
  <2> SUFFICES ASSUME Init PROVE BytesInv
    OBVIOUS
  <2>1. TypeOK
    BY TypeInit
  <2>2. delivered = <<>> /\ buffer = <<>> /\ \A i \in WaiterIds : Answer(i) = <<>>
    BY DEF Init, Absent, None, Answer
  <2> QED BY <2>1, <2>2, InEmpty DEF BytesInv
<1>2. BytesInv /\ [Next]_vars => BytesInv'
  BY BytesNext
<1>3. BytesInv => NoByteTwice
  <2> SUFFICES ASSUME BytesInv PROVE NoByteTwice
    OBVIOUS
  <2> DEFINE all == delivered \o buffer
  <2>1. delivered \in Seq(Bytes) /\ buffer \in Seq(Bytes)
    BY DEF BytesInv, TypeOK
  <2>2. Distinct(all) /\ In(all) = In(delivered) \cup In(buffer)
    BY <2>1, InAppended DEF BytesInv
  <2> HIDE DEF all
  <2>3. \A i, j \in DOMAIN all : all[i] = all[j] => i = j
    BY <2>2 DEF Distinct
  <2>4. \A b \in DOMAIN all : all[b] \in In(all)
    BY DEF In
  <2>5. ASSUME NEW i \in WaiterIds, NEW a \in DOMAIN Answer(i)
        PROVE  /\ \A b \in DOMAIN all : all[b] # Answer(i)[a]
               /\ \A j \in WaiterIds : \A b \in DOMAIN Answer(j) :
                    Answer(i)[a] = Answer(j)[b] => i = j /\ a = b
    <3>1. /\ Distinct(Answer(i)) /\ In(Answer(i)) \cap In(all) = {}
          /\ \A j \in WaiterIds \ {i} : In(Answer(i)) \cap In(Answer(j)) = {}
      BY <2>2 DEF BytesInv
    <3>2. \A j \in WaiterIds : \A b \in DOMAIN Answer(j) : Answer(j)[b] \in In(Answer(j))
      BY DEF In
    <3>3. \A b \in DOMAIN Answer(i) : Answer(i)[a] = Answer(i)[b] => a = b
      BY <3>1 DEF Distinct
    <3> HIDE DEF Answer
    <3> QED BY <2>4, <3>1, <3>2, <3>3
  <2> QED BY <2>3, <2>5 DEF NoByteTwice, all, Answer
<1> QED BY <1>1, <1>2, <1>3, PTL DEF Spec

==============================================================================
