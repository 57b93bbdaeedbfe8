-------------------------- MODULE ProcessTableProofs --------------------------
(***************************************************************************)
(* What ProcessTable promises for any number of pids, waiters and callers: *)
(* type correctness, that a signal is pending only while it is blocked,    *)
(* that the race of the exit path with waitpid and the reaper strands no   *)
(* zombie and loses no exit status, and that waitpid loses no wakeup.      *)
(***************************************************************************)
EXTENDS ProcessTable, TLAPS

\* Most leaves are first-order; the ones that need arithmetic or sequences say SMT.
USE Zenon

------------------------------------------------------------------------------
(* Facts about the helpers.                                                *)

(* A wait stays a wait when its stage changes; NotWaiting is one.          *)
LEMMA WaitStages ==
  /\ NotWaiting \in Waits
  /\ \A r \in Waits : /\ [r EXCEPT !.stage = "ready"] \in Waits
                      /\ [r EXCEPT !.stage = "blocked"] \in Waits
  /\ \A c \in Pids : Cancelling(c) \in Waits
<1>1. MaxPid \in Nat /\ {} \in SUBSET AllFlags
  BY ProcessConstants
<1>2. NotWaiting \in Waits
  BY SMT, <1>1 DEF Waits, NotWaiting
<1>3. \A c \in Pids : c \in 0..MaxPid
  BY SMT, <1>1 DEF Pids
<1>4. ASSUME NEW c \in Pids
      PROVE  Cancelling(c) \in Waits
  BY SMT, <1>1, <1>3 DEF Waits, Cancelling
<1>5. ASSUME NEW r \in Waits
      PROVE  [r EXCEPT !.stage = "ready"] \in Waits /\ [r EXCEPT !.stage = "blocked"] \in Waits
  BY DEF Waits
<1> QED BY <1>2, <1>4, <1>5

(* notify_all leaves waits of the same type and none of them asleep.       *)
LEMMA WokenFacts ==
  ASSUME wait \in [Waiters -> Waits]
  PROVE  /\ Woken \in [Waiters -> Waits]
         /\ \A w \in Waiters : Woken[w].stage # "blocked"
         /\ \A w \in Waiters : Woken[w].stage = "cancel" =>
                                 wait[w].stage = "cancel" /\ Woken[w] = wait[w]
<1>1. \A w \in Waiters : wait[w] \in Waits
  OBVIOUS
<1>2. \A w \in Waiters : Woken[w] \in Waits
  BY ZenonT(60), <1>1, WaitStages DEF Woken
<1>3. Woken \in [Waiters -> Waits]
  BY <1>2 DEF Woken
<1>4. \A r \in Waits : [r EXCEPT !.stage = "ready"].stage = "ready"
  BY DEF Waits
<1> QED BY <1>1, <1>3, <1>4 DEF Woken

(* Queueing a signal keeps the sets of pending signals sets of signals.    *)
LEMMA QueueType ==
  ASSUME NEW pending \in [Pids -> SUBSET AllSignals], NEW T, NEW s \in AllSignals
  PROVE  Queue(pending, T, s) \in [Pids -> SUBSET AllSignals]
BY DEF Queue

(* What deliver_signals will mark are marks.                               *)
LEMMA MarksType ==
  ASSUME NEW st, NEW T \in SUBSET Pids, NEW s
  PROVE  MarksOf(st, T, s) \subseteq Marks
BY SMT DEF MarksOf, Marks

(* Removing a record keeps the table's type.                               *)
LEMMA RemoveType ==
  ASSUME TypeOK, NEW p \in Pids, Remove(p)
  PROVE  /\ status' \in [Pids -> Statuses]
         /\ ppid' \in [Pids -> 0..MaxPid]
         /\ pgid' \in [Pids -> 0..MaxPid]
         /\ sid' \in [Pids -> 0..MaxPid]
         /\ events' \in [Pids -> Seq({"Stopped", "Continued"})]
         /\ blocked_signals' \in [Pids -> SUBSET AllSignals]
         /\ pending_signals' \in [Pids -> SUBSET AllSignals]
<1>1. 0 \in 0..MaxPid /\ <<>> \in Seq({"Stopped", "Continued"}) /\ "absent" \in Statuses
  BY SMT, ProcessConstants DEF Statuses
<1> QED BY <1>1 DEF TypeOK, Remove

(* Taking an event out of a queue leaves a shorter queue of old events.    *)
LEMMA TakenFacts ==
  ASSUME NEW S, NEW q \in Seq(S), NEW i \in DOMAIN q
  PROVE  LET t == SubSeq(q, 1, i - 1) \o SubSeq(q, i + 1, Len(q))
         IN /\ t \in Seq(S)
            /\ \A j \in DOMAIN t : \E k \in DOMAIN q : t[j] = q[k]
<1> DEFINE a == SubSeq(q, 1, i - 1)
           b == SubSeq(q, i + 1, Len(q))
<1>1. i \in 1..Len(q) /\ Len(q) \in Nat
  BY SMT
<1>2. a \in Seq(S) /\ Len(a) = i - 1 /\ \A j \in 1..Len(a) : a[j] = q[j]
  BY SMT, <1>1
<1>3. b \in Seq(S) /\ Len(b) = Len(q) - i /\ \A j \in 1..Len(b) : b[j] = q[i + j]
  BY SMT, Z3T(60), <1>1
<1> HIDE DEF a, b
<1>4. a \o b \in Seq(S) /\ Len(a \o b) = Len(q) - 1
  BY SMT, <1>1, <1>2, <1>3
<1>5. ASSUME NEW j \in DOMAIN (a \o b)
      PROVE  \E k \in DOMAIN q : (a \o b)[j] = q[k]
  <2>1. j \in 1..(Len(q) - 1)
    BY SMT, <1>4, <1>1
  <2>2. CASE j <= i - 1
    <3>1. (a \o b)[j] = q[j] /\ j \in DOMAIN q
      BY SMT, <1>1, <1>2, <1>3, <2>1, <2>2
    <3> QED BY <3>1
  <2>3. CASE j > i - 1
    <3>1. (a \o b)[j] = b[j - (i - 1)]
      BY SMT, <1>1, <1>2, <1>3, <2>1, <2>3
    <3>2. j - (i - 1) \in 1..Len(b) /\ j + 1 \in DOMAIN q
      BY SMT, <1>1, <1>3, <2>1, <2>3
    <3>3. b[j - (i - 1)] = q[j + 1]
      BY SMT, Z3T(60), <1>1, <1>3, <2>1, <3>2
    <3> QED BY <3>1, <3>2, <3>3
  <2> QED BY SMT, <1>1, <2>1, <2>2, <2>3
<1> QED BY ZenonT(60), <1>4, <1>5 DEF a, b

------------------------------------------------------------------------------
(* Type correctness.                                                       *)

(* A wait pass keeps the types of what it changes.                         *)
LEMMA WaitPassType ==
  ASSUME TypeOK, NEW w \in Waiters, NEW r \in Waits, WaitPass(w, r)
  PROVE  TypeOK'
<1>1. /\ wait \in [Waiters -> Waits]
      /\ events \in [Pids -> Seq({"Stopped", "Continued"})]
      /\ collected \subseteq Pids
  BY DEF TypeOK
<1>2. CASE wait' \in [Waiters -> Waits] /\ UNCHANGED <<table, collected>>
  BY <1>2 DEF TypeOK, WaitPass, table, links, sigs
<1>3. CASE Candidates(r) = {} /\ wait' = [wait EXCEPT ![w] = NotWaiting]
           /\ UNCHANGED <<table, collected>>
  BY <1>1, <1>2, <1>3, WaitStages
<1>4. CASE /\ wait' = [wait EXCEPT ![w] = IF "WNOHANG" \in r.flags THEN NotWaiting
                                           ELSE [r EXCEPT !.stage = "blocked"]]
           /\ UNCHANGED <<table, collected>>
  BY ZenonT(60), <1>1, <1>2, <1>4, WaitStages
<1>5. ASSUME NEW c \in WaitableFor(r), NEW i \in EventsFor(r, c), TakeEvent(w, c, i)
      PROVE  TypeOK'
  <2>1. c \in Pids /\ i \in DOMAIN events[c] /\ events[c] \in Seq({"Stopped", "Continued"})
    BY <1>1, <1>5 DEF WaitableFor, Candidates, EventsFor
  <2>2. events' \in [Pids -> Seq({"Stopped", "Continued"})]
    BY <1>1, <1>5, <2>1, TakenFacts DEF TakeEvent
  <2>3. wait' \in [Waiters -> Waits]
    BY <1>1, <1>5, WaitStages DEF TakeEvent
  <2> QED BY ZenonT(60), <1>5, <2>2, <2>3 DEF TypeOK, WaitPass, TakeEvent, links, sigs
<1>6. ASSUME NEW c \in WaitableFor(r), Collect(w, c)
      PROVE  TypeOK'
  <2>1. c \in Pids
    BY <1>6 DEF WaitableFor, Candidates
  <2>2. wait' \in [Waiters -> Waits] /\ collected' \subseteq Pids
    BY <1>1, <1>6, <2>1, WaitStages DEF Collect
  <2>3. Remove(c)
    BY <1>6 DEF Collect
  <2> QED BY ZenonT(60), <2>1, <2>2, <2>3, RemoveType DEF TypeOK, WaitPass
<1> QED BY <1>3, <1>4, <1>5, <1>6 DEF WaitPass

(* Every step of the table, its waiters and its reaper keeps TypeOK.       *)
LEMMA TypeStep ==
  ASSUME TypeOK, Next
  PROVE  TypeOK'
<1> USE DEF table, links, sigs, history
<1>0. MaxPid \in Nat \ {0} /\ MaxKills \in Nat /\ \A p \in Pids : p \in 0..MaxPid /\ p \in Actors
  BY SMT, ProcessConstants DEF Pids, Actors
<1>1. ASSUME NEW q \in 0..MaxPid, AllocatePid(q) PROVE TypeOK'
  <2>1. spawn' \in Spawns
    BY SMT, <1>0, <1>1 DEF AllocatePid, Spawns, NotSpawning
  <2>2. next_pid' \in 1..(MaxPid + 1)
    BY SMT, <1>0, <1>1 DEF AllocatePid, Pids
  <2> QED BY ZenonT(60), <1>1, <2>1, <2>2 DEF TypeOK, AllocatePid
<1>2. CASE RegisterLook
  <2>1. spawn \in Spawns /\ next_pid - 1 \in 0..MaxPid
    BY SMT, <1>0 DEF TypeOK
  <2>2. spawn' \in Spawns
    BY ZenonT(60), <1>0, <1>2, <2>1 DEF RegisterLook, Spawns, TypeOK
  <2> QED BY <1>2, <2>2 DEF TypeOK, RegisterLook
<1>3. CASE RegisterInsert
  <2>1. /\ spawn.ppid \in 0..MaxPid /\ spawn.pgid \in 0..MaxPid /\ spawn.sid \in 0..MaxPid
        /\ NotSpawning \in Spawns
    BY SMT, <1>0 DEF TypeOK, Spawns, NotSpawning
  <2>2. /\ status' \in [Pids -> Statuses] /\ spawn' \in Spawns
        /\ ppid' \in [Pids -> 0..MaxPid]
        /\ pgid' \in [Pids -> 0..MaxPid]
        /\ sid' \in [Pids -> 0..MaxPid]
    BY ZenonT(60), <1>3, <2>1 DEF TypeOK, RegisterInsert, Statuses
  <2> QED BY ZenonT(60), <1>3, <2>2 DEF TypeOK, RegisterInsert
<1>4. ASSUME NEW p \in Pids, MarkExited(p) PROVE TypeOK'
  <2>1. status' \in [Pids -> Statuses] /\ tail' \in [Pids -> {"none", "schedule", "cancel", "deliver", "notify"}]
    BY ZenonT(60), <1>4 DEF TypeOK, MarkExited, Statuses
  <2>2. ppid' \in [Pids -> 0..MaxPid]
    BY Z3T(60), <1>0, <1>4 DEF TypeOK, MarkExited, NewParent, INIT_PID
  <2>3. pending_signals' \in [Pids -> SUBSET AllSignals]
    <3>1. "CHLD" \in AllSignals /\ "HUP" \in AllSignals
      BY DEF AllSignals
    <3>2. PICK T, U : pending_signals' = Queue(Queue(pending_signals, T, "CHLD"), U, "HUP")
      BY ZenonT(60), <1>4 DEF MarkExited
    <3>3. Queue(pending_signals, T, "CHLD") \in [Pids -> SUBSET AllSignals]
      BY ZenonT(60), <3>1, QueueType DEF TypeOK
    <3> QED BY <3>1, <3>2, <3>3, QueueType
  <2>4. marks' \in [Actors -> SUBSET Marks]
    <3>1. PICK T \in SUBSET Pids :
            \E st : marks' = [marks EXCEPT ![p] = MarksOf(st, T, "CONT")]
      BY ZenonT(60), <1>4 DEF MarkExited
    <3>2. PICK st : marks' = [marks EXCEPT ![p] = MarksOf(st, T, "CONT")]
      BY ZenonT(60), <3>1
    <3>3. MarksOf(st, T, "CONT") \subseteq Marks
      BY MarksType
    <3> QED BY ZenonT(60), <3>2, <3>3 DEF TypeOK
  <2> QED BY ZenonT(60), <1>4, <2>1, <2>2, <2>3, <2>4 DEF TypeOK, MarkExited
<1>5. ASSUME NEW p \in Pids, ExitSchedule(p) PROVE TypeOK'
  BY <1>5 DEF TypeOK, ExitSchedule
<1>6. ASSUME NEW p \in Pids, ExitCallback(p) PROVE TypeOK'
  BY <1>6 DEF TypeOK, ExitCallback
<1>7. ASSUME NEW p \in Pids, ExitNotify(p) PROVE TypeOK'
  <2>1. wait' \in [Waiters -> Waits]
    BY <1>7, WokenFacts DEF TypeOK, ExitNotify
  <2> QED BY <1>7, <2>1 DEF TypeOK, ExitNotify
<1>8. ASSUME NEW p \in Pids, SetSid(p) PROVE TypeOK'
  BY <1>0, <1>8 DEF TypeOK, SetSid
<1>9. ASSUME NEW p \in Pids, ReaperTake(p) PROVE TypeOK'
  <2>1. reaper' \in Reapers
    BY <1>0, <1>9 DEF ReaperTake, Reapers
  <2> QED BY <1>9, <2>1 DEF TypeOK, ReaperTake
<1>10. ASSUME NEW p \in Pids, NEW g \in Pids, SetPgid(p, g) PROVE TypeOK'
  BY ZenonT(60), <1>0, <1>10 DEF TypeOK, SetPgid
<1>11. ASSUME NEW a \in Actors, Mark(a) PROVE TypeOK'
  <2>1. PICK m \in marks[a] :
          /\ marks' = [marks EXCEPT ![a] = @ \ {m}]
          /\ \/ /\ status' = [status EXCEPT ![m.pid] = m.to]
                /\ events' = [events EXCEPT ![m.pid] =
                     Append(@, IF m.to = "Stopped" THEN "Stopped" ELSE "Continued")]
                /\ pending_signals' = Queue(pending_signals, Chld(ppid[m.pid]), "CHLD")
                /\ waking' = waking \cup {a}
             \/ UNCHANGED <<status, events, pending_signals, waking>>
    BY ZenonT(60), <1>11 DEF Mark
  <2>2. m \in Marks /\ m.pid \in Pids /\ m.to \in {"Running", "Stopped"}
    BY SMT, <2>1 DEF TypeOK, Marks
  <2>3. marks' \in [Actors -> SUBSET Marks]
    BY <2>1 DEF TypeOK
  <2>4. status' \in [Pids -> Statuses] /\ waking' \subseteq Actors
    BY ZenonT(60), <2>1, <2>2 DEF TypeOK, Statuses
  <2>5. events' \in [Pids -> Seq({"Stopped", "Continued"})]
    <3>1. \A q \in Seq({"Stopped", "Continued"}) :
            /\ Append(q, "Stopped") \in Seq({"Stopped", "Continued"})
            /\ Append(q, "Continued") \in Seq({"Stopped", "Continued"})
      BY SMT
    <3>2. Append(events[m.pid], IF m.to = "Stopped" THEN "Stopped" ELSE "Continued")
            \in Seq({"Stopped", "Continued"})
      BY <2>2, <3>1 DEF TypeOK
    <3> QED BY ZenonT(60), <2>1, <2>2, <3>2 DEF TypeOK
  <2>6. pending_signals' \in [Pids -> SUBSET AllSignals]
    <3>1. "CHLD" \in AllSignals
      BY DEF AllSignals
    <3>2. pending_signals \in [Pids -> SUBSET AllSignals]
      BY Z3T(60) DEF TypeOK
    <3>3. Queue(pending_signals, Chld(ppid[m.pid]), "CHLD") \in [Pids -> SUBSET AllSignals]
      BY <3>1, <3>2, QueueType
    <3> QED BY <2>1, <3>2, <3>3
  <2> QED BY ZenonT(60), <1>11, <2>3, <2>4, <2>5, <2>6 DEF TypeOK, Mark
<1>12. ASSUME NEW a \in Actors, MarkNotify(a) PROVE TypeOK'
  <2>1. wait' \in [Waiters -> Waits]
    BY ZenonT(60), <1>12, WokenFacts DEF TypeOK, MarkNotify
  <2> QED BY <1>12, <2>1 DEF TypeOK, MarkNotify
<1>13. ASSUME NEW c \in Callers, NEW s \in Signals, Kill(c, s) PROVE TypeOK'
  <2>1. PICK T \in SUBSET Pids : /\ pending_signals' = Queue(pending_signals, T, s)
                                 /\ marks' = [marks EXCEPT ![c] = MarksOf(status, T, s)]
    BY ZenonT(60), <1>13 DEF Kill
  <2>2. s \in AllSignals
    BY ProcessConstants
  <2>3. pending_signals' \in [Pids -> SUBSET AllSignals]
    BY ZenonT(60), <2>1, <2>2, QueueType DEF TypeOK
  <2>4. marks' \in [Actors -> SUBSET Marks]
    BY ZenonT(60), <2>1, MarksType DEF TypeOK
  <2>5. kills' \in 0..MaxKills
    <3>1. kills < MaxKills /\ kills' = kills + 1
      BY Zenon, <1>13 DEF Kill
    <3> QED BY SMT, <1>0, <3>1 DEF TypeOK
  <2> QED BY ZenonT(60), <1>13, <2>3, <2>4, <2>5 DEF TypeOK, Kill
<1>14. ASSUME NEW c \in Callers, NEW p \in Pids, NEW set \in Masks, SigProcMask(c, p, set)
       PROVE  TypeOK'
  <2>1. PICK mask : /\ mask \subseteq blocked_signals[p] \cup set
                    /\ blocked_signals' = [blocked_signals EXCEPT ![p] = mask]
                    /\ pending_signals' = [pending_signals EXCEPT ![p] = @ \cap mask]
                    /\ \E M : /\ M \subseteq {[pid |-> p, to |-> "Stopped"]}
                              /\ marks' = [marks EXCEPT ![c] = M]
    BY ZenonT(60), <1>14 DEF SigProcMask
  <2>2. set \subseteq AllSignals
    BY ProcessConstants
  <2>3. /\ blocked_signals' \in [Pids -> SUBSET AllSignals]
        /\ pending_signals' \in [Pids -> SUBSET AllSignals]
    BY <2>1, <2>2 DEF TypeOK
  <2>4. marks' \in [Actors -> SUBSET Marks]
    <3>1. {[pid |-> p, to |-> "Stopped"]} \subseteq Marks
      BY SMT DEF Marks
    <3>2. PICK M : M \subseteq Marks /\ marks' = [marks EXCEPT ![c] = M]
      BY ZenonT(60), <2>1, <3>1
    <3> QED BY ZenonT(60), <3>2 DEF TypeOK
  <2> QED BY <1>14, <2>3, <2>4 DEF TypeOK, SigProcMask
<1>15. ASSUME NEW c \in Callers, MarkDirect(c) PROVE TypeOK'
  <2>1. kills' \in 0..MaxKills
    BY SMT, <1>0, <1>15 DEF TypeOK, MarkDirect
  <2>2. marks' \in [Actors -> SUBSET Marks]
    BY ZenonT(60), <1>15 DEF TypeOK, MarkDirect
  <2> QED BY <1>15, <2>1, <2>2 DEF TypeOK, MarkDirect
<1>16. ASSUME NEW c \in Callers, TerminateAll(c) PROVE TypeOK'
  BY <1>16 DEF TypeOK, TerminateAll
<1>17. ASSUME NEW c \in Callers, TerminateEnd(c) PROVE TypeOK'
  BY ZenonT(60), <1>17 DEF TypeOK, TerminateEnd
<1>18. CASE ReaperDecide
  <2>1. reaper' \in Reapers
    BY ZenonT(60), <1>18 DEF TypeOK, ReaperDecide, Reapers
  <2>2. reaper.pid \in Pids
    BY DEF TypeOK, Reapers
  <2>3. CASE Remove(reaper.pid) /\ UNCHANGED deadlines
    BY ZenonT(60), <1>18, <2>1, <2>2, <2>3, RemoveType DEF TypeOK, ReaperDecide
  <2>4. CASE UNCHANGED table /\ deadlines' \subseteq deadlines \cup {reaper.pid}
    BY ZenonT(60), <1>18, <2>1, <2>2, <2>4 DEF TypeOK, ReaperDecide
  <2> QED BY <1>18, <2>3, <2>4 DEF ReaperDecide
<1>19. CASE ReaperNotify
  <2>1. wait' \in [Waiters -> Waits] /\ reaper' \in Reapers
    BY Z3T(60), <1>0, <1>19, WokenFacts DEF TypeOK, ReaperNotify, ReaperIdle, Reapers, INIT_PID, Pids
  <2> QED BY <1>19, <2>1 DEF TypeOK, ReaperNotify
<1>20. ASSUME NEW w \in Waiters, WaitStart(w) PROVE TypeOK'
  <2>1. PICK r \in Waits : WaitPass(w, r)
    BY SMT, <1>0, <1>20, ProcessConstants DEF WaitStart, Waits
  <2> QED BY <2>1, WaitPassType
<1>21. ASSUME NEW w \in Waiters, WaitResume(w) PROVE TypeOK'
  BY ZenonT(60), <1>21, WaitPassType DEF WaitResume, TypeOK
<1>22. ASSUME NEW w \in Waiters, WaitFinish(w) PROVE TypeOK'
  <2>1. wait' \in [Waiters -> Waits]
    BY <1>22, WokenFacts, WaitStages DEF TypeOK, WaitFinish
  <2> QED BY <1>22, <2>1 DEF TypeOK, WaitFinish
<1>23. ASSUME NEW w \in Waiters, SpuriousWakeup(w) PROVE TypeOK'
  <2>1. wait' \in [Waiters -> Waits]
    <3>1. wait' = [wait EXCEPT ![w] = [wait[w] EXCEPT !.stage = "ready"]]
      BY <1>23 DEF SpuriousWakeup
    <3> QED BY ZenonT(60), <3>1, WaitStages DEF TypeOK
  <2> QED BY <1>23, <2>1 DEF TypeOK, SpuriousWakeup
<1> QED
  BY <1>1, <1>2, <1>3, <1>4, <1>5, <1>6, <1>7, <1>8, <1>9, <1>10, <1>11, <1>12, <1>13,
     <1>14, <1>15, <1>16, <1>17, <1>18, <1>19, <1>20, <1>21, <1>22, <1>23 DEF Next

(* Every state of the table is well typed.                                 *)
THEOREM TypeCorrect == Spec => []TypeOK
<1>1. Init => TypeOK
  <2> SUFFICES ASSUME Init PROVE TypeOK
    OBVIOUS
  <2>1. MaxPid \in Nat \ {0} /\ MaxKills \in Nat
    BY ProcessConstants
  <2>2. NotSpawning \in Spawns /\ ReaperIdle \in Reapers
    BY SMT, <2>1 DEF NotSpawning, Spawns, ReaperIdle, Reapers, INIT_PID, Pids
  <2>3. <<>> \in Seq({"Stopped", "Continued"})
    BY SMT
  <2>4. /\ next_pid \in 1..(MaxPid + 1) /\ kills \in 0..MaxKills /\ 0 \in 0..MaxPid
    BY SMT, <2>1 DEF Init
  <2>5. wait \in [Waiters -> Waits] /\ events \in [Pids -> Seq({"Stopped", "Continued"})]
    BY <2>3, WaitStages DEF Init
  <2>6. /\ status \in [Pids -> Statuses]
        /\ ppid \in [Pids -> 0..MaxPid]
        /\ pgid \in [Pids -> 0..MaxPid]
        /\ sid \in [Pids -> 0..MaxPid]
    BY <2>4 DEF Init, Statuses
  <2> QED BY ZenonT(60), <2>2, <2>4, <2>5, <2>6 DEF Init, TypeOK
<1>2. TypeOK /\ UNCHANGED vars => TypeOK'
  BY DEF TypeOK, vars, table, links, sigs, history
<1> QED BY <1>1, <1>2, TypeStep, PTL DEF Spec

------------------------------------------------------------------------------
(* Signals.                                                                *)

(* A wait pass and the reaper change signals only by removing a record,    *)
(* which has none pending then.                                            *)
LEMMA RemoveKeepsPending ==
  ASSUME TypeOK, PendingAreBlocked, NEW p \in Pids, Remove(p)
  PROVE  PendingAreBlocked'
BY DEF TypeOK, PendingAreBlocked, Remove

(* Queueing a signal where it is blocked keeps pending signals blocked.    *)
LEMMA QueueKeepsPending ==
  ASSUME NEW pending \in [Pids -> SUBSET AllSignals], NEW T, NEW s,
         \A p \in Pids : pending[p] \subseteq {x \in blocked_signals[p] : Blockable(x)}
  PROVE  \A p \in Pids :
           Queue(pending, T, s)[p] \subseteq {x \in blocked_signals[p] : Blockable(x)}
BY DEF Queue, Queues

(* kill, exit, stop, continue and sigprocmask keep pending signals blocked. *)
LEMMA PendingStep ==
  ASSUME TypeOK, PendingAreBlocked, Next
  PROVE  PendingAreBlocked'
<1> USE DEF table, links, sigs, history
<1>0. pending_signals \in [Pids -> SUBSET AllSignals] /\ "CHLD" \in AllSignals
  BY DEF TypeOK, AllSignals
<1>1. CASE UNCHANGED sigs
  BY <1>1 DEF PendingAreBlocked
<1>2. ASSUME NEW q \in 0..MaxPid, AllocatePid(q) PROVE UNCHANGED sigs
  BY <1>2 DEF AllocatePid
<1>3. CASE RegisterLook \/ RegisterInsert
  BY Z3T(60), <1>1, <1>3 DEF RegisterLook, RegisterInsert
<1>4. ASSUME NEW p \in Pids, MarkExited(p) PROVE PendingAreBlocked'
  <2>1. PICK T, U : pending_signals' = Queue(Queue(pending_signals, T, "CHLD"), U, "HUP")
    BY ZenonT(60), <1>4 DEF MarkExited
  <2>2. Queue(pending_signals, T, "CHLD") \in [Pids -> SUBSET AllSignals]
    BY <1>0, QueueType
  <2>3. \A q \in Pids : Queue(pending_signals, T, "CHLD")[q]
                          \subseteq {x \in blocked_signals[q] : Blockable(x)}
    BY <1>0, QueueKeepsPending DEF PendingAreBlocked
  <2>4. \A q \in Pids : pending_signals'[q] \subseteq {x \in blocked_signals[q] : Blockable(x)}
    BY ZenonT(60), <2>1, <2>2, <2>3, QueueKeepsPending
  <2> QED BY ZenonT(60), <1>4, <2>4 DEF PendingAreBlocked, MarkExited
<1>5. ASSUME NEW p \in Pids,
             ExitSchedule(p) \/ ExitCallback(p) \/ ExitNotify(p) \/ SetSid(p)
               \/ ReaperTake(p) \/ \E g \in Pids : SetPgid(p, g)
      PROVE  UNCHANGED sigs
  BY <1>5 DEF ExitSchedule, ExitCallback, ExitNotify, SetSid, ReaperTake, SetPgid
<1>6. ASSUME NEW a \in Actors, Mark(a) PROVE PendingAreBlocked'
  <2>1. PICK T : pending_signals' \in {pending_signals, Queue(pending_signals, T, "CHLD")}
    BY <1>6 DEF Mark
  <2>2. \A q \in Pids : Queue(pending_signals, T, "CHLD")[q]
                          \subseteq {x \in blocked_signals[q] : Blockable(x)}
    BY <1>0, QueueKeepsPending DEF PendingAreBlocked
  <2> QED BY ZenonT(60), <1>6, <2>1, <2>2 DEF PendingAreBlocked, Mark
<1>7. ASSUME NEW a \in Actors, MarkNotify(a) PROVE UNCHANGED sigs
  BY ZenonT(60), <1>7 DEF MarkNotify
<1>8. ASSUME NEW c \in Callers, NEW s \in Signals, Kill(c, s) PROVE PendingAreBlocked'
  <2>1. PICK T : pending_signals' = Queue(pending_signals, T, s)
    BY <1>8 DEF Kill
  <2>2. \A q \in Pids : pending_signals'[q] \subseteq {x \in blocked_signals[q] : Blockable(x)}
    BY <1>0, <2>1, QueueKeepsPending DEF PendingAreBlocked
  <2> QED BY Z3T(60), <1>8, <2>2 DEF PendingAreBlocked, Kill
<1>9. ASSUME NEW c \in Callers, NEW p \in Pids, NEW set \in Masks, SigProcMask(c, p, set)
      PROVE  PendingAreBlocked'
  <2>1. PICK mask : /\ blocked_signals' = [blocked_signals EXCEPT ![p] = mask]
                    /\ pending_signals' = [pending_signals EXCEPT ![p] = @ \cap mask]
    BY ZenonT(60), <1>9 DEF SigProcMask
  <2> QED BY <2>1 DEF PendingAreBlocked, TypeOK
<1>10. ASSUME NEW c \in Callers, MarkDirect(c) \/ TerminateAll(c) \/ TerminateEnd(c)
       PROVE  UNCHANGED sigs
  BY <1>10 DEF MarkDirect, TerminateAll, TerminateEnd
<1>11. CASE ReaperDecide
  <2>1. reaper.pid \in Pids
    BY DEF TypeOK, Reapers
  <2> QED BY <1>1, <1>11, <2>1, RemoveKeepsPending DEF ReaperDecide
<1>12. CASE ReaperNotify
  BY <1>1, <1>12 DEF ReaperNotify
<1>13. ASSUME NEW w \in Waiters, NEW r, WaitPass(w, r) PROVE PendingAreBlocked'
  <2>1. CASE \E c \in WaitableFor(r) : Collect(w, c)
    BY <2>1, RemoveKeepsPending DEF Collect, WaitableFor, Candidates
  <2>2. CASE UNCHANGED table \/ \E c, i : TakeEvent(w, c, i)
    BY <1>1, <2>2 DEF TakeEvent
  <2> QED BY <1>13, <2>1, <2>2 DEF WaitPass
<1>14. ASSUME NEW w \in Waiters, WaitStart(w) \/ WaitResume(w) PROVE PendingAreBlocked'
  BY ZenonT(60), <1>13, <1>14 DEF WaitStart, WaitResume
<1>15. ASSUME NEW w \in Waiters, WaitFinish(w) \/ SpuriousWakeup(w) PROVE UNCHANGED sigs
  BY <1>15 DEF WaitFinish, SpuriousWakeup
<1> QED
  BY <1>1, <1>2, <1>3, <1>4, <1>5, <1>6, <1>7, <1>8, <1>9, <1>10, <1>11, <1>12, <1>14,
     <1>15 DEF Next

(* Whatever calls kill, sigprocmask, waitpid and the drivers make, a       *)
(* signal is pending only while the process blocks it.                     *)
THEOREM SignalsArePendingOnlyWhileBlocked == Spec => []PendingAreBlocked
<1>1. Init => PendingAreBlocked
  BY DEF Init, PendingAreBlocked
<1>2. PendingAreBlocked /\ UNCHANGED vars => PendingAreBlocked'
  BY DEF PendingAreBlocked, vars, table, sigs
<1> QED BY <1>1, <1>2, TypeCorrect, PendingStep, PTL DEF Spec

------------------------------------------------------------------------------
(* Zombies.  A pid is fresh until its record is inserted; nothing refers   *)
(* to a fresh pid, so a late reaper.cancel by the waiter that collected a  *)
(* process cannot hit the deadline of another one.                         *)

Fresh(p) == p >= next_pid \/ (spawn.stage # "idle" /\ p = next_pid - 1)
Gone(p)  == p \in Pids /\ status[p] = "absent" /\ ~Fresh(p)

Bookkeeping ==
  /\ spawn.stage # "idle" => next_pid - 1 \in Pids
  /\ \A p \in Pids : /\ Fresh(p) => status[p] = "absent"
                     /\ status[p] = "absent" => events[p] = <<>>
  /\ \A p \in Pids : tail[p] = "cancel" => p \in abandoned
  /\ \A p \in collected : Gone(p)
  /\ \A w \in Waiters : wait[w].stage = "cancel" => Gone(wait[w].arg)

(* A step that does not register a process brings no record into the table. *)
NoNewRecord ==
  /\ UNCHANGED <<next_pid, spawn>>
  /\ \A p \in Pids : status[p] = "absent" =>
       status'[p] = "absent" /\ (events'[p] = events[p] \/ events'[p] = <<>>)
  /\ \A p \in Pids : status[p] # "absent" /\ status'[p] = "absent" => events'[p] = <<>>

(* A record comes into the table by register and by nothing else.          *)
LEMMA OnlyRegisterInserts ==
  ASSUME TypeOK, Next
  PROVE  \/ \E q \in 0..MaxPid : AllocatePid(q)
         \/ RegisterLook \/ RegisterInsert
         \/ NoNewRecord
<1> USE DEF table, links, sigs, history
<1>0. /\ status \in [Pids -> Statuses]
      /\ events \in [Pids -> Seq({"Stopped", "Continued"})]
  BY DEF TypeOK
<1>1. ASSUME UNCHANGED <<status, events, next_pid, spawn>> PROVE NoNewRecord
  BY <1>1 DEF NoNewRecord
<1>2. ASSUME UNCHANGED <<next_pid, spawn>>, \E q \in Pids : Remove(q)
      PROVE  NoNewRecord
  BY ZenonT(60), <1>0, <1>2 DEF NoNewRecord, Remove
<1>3. ASSUME NEW q \in Pids, MarkExited(q) PROVE NoNewRecord
  BY ZenonT(60), <1>0, <1>3 DEF MarkExited, Alive, NoNewRecord
<1>4. ASSUME NEW q \in Pids,
             ExitSchedule(q) \/ ExitCallback(q) \/ ExitNotify(q) \/ SetSid(q)
               \/ ReaperTake(q) \/ \E g \in Pids : SetPgid(q, g)
      PROVE  NoNewRecord
  BY Z3T(60), <1>1, <1>4 DEF ExitSchedule, ExitCallback, ExitNotify, SetSid, ReaperTake, SetPgid
<1>5. ASSUME NEW a \in Actors, Mark(a) PROVE NoNewRecord
  <2>1. CASE UNCHANGED <<status, events>>
    BY ZenonT(60), <1>1, <1>5, <2>1 DEF Mark
  <2>2. CASE \E m \in marks[a] : /\ Alive(m.pid)
                                 /\ status' = [status EXCEPT ![m.pid] = m.to]
                                 /\ \E v : events' = [events EXCEPT ![m.pid] = v]
    <3>1. PICK m \in Marks : /\ Alive(m.pid)
                             /\ status' = [status EXCEPT ![m.pid] = m.to]
                             /\ \E v : events' = [events EXCEPT ![m.pid] = v]
      BY ZenonT(60), <2>2 DEF TypeOK
    <3>2. m.to # "absent"
      BY DEF Marks
    <3> QED BY ZenonT(60), <1>0, <1>5, <3>1, <3>2 DEF Mark, Alive, NoNewRecord
  <2> QED BY ZenonT(60), <1>5, <2>1, <2>2 DEF Mark
<1>6. ASSUME NEW a \in Actors, MarkNotify(a) PROVE NoNewRecord
  BY ZenonT(60), <1>1, <1>6 DEF MarkNotify
<1>7. ASSUME NEW c \in Callers,
             \/ \E s \in Signals : Kill(c, s)
             \/ \E q \in Pids, set \in Masks : SigProcMask(c, q, set)
             \/ MarkDirect(c) \/ TerminateAll(c) \/ TerminateEnd(c)
      PROVE  NoNewRecord
  BY ZenonT(60), <1>1, <1>7 DEF Kill, SigProcMask, MarkDirect, TerminateAll, TerminateEnd
<1>8. CASE ReaperDecide
  <2>1. reaper.pid \in Pids
    BY DEF TypeOK, Reapers
  <2> QED BY <1>1, <1>2, <1>8, <2>1 DEF ReaperDecide
<1>9. CASE ReaperNotify
  BY <1>1, <1>9 DEF ReaperNotify
<1>10. ASSUME NEW w \in Waiters, NEW r, WaitPass(w, r) PROVE NoNewRecord
  <2>1. CASE \E c \in WaitableFor(r) : Collect(w, c)
    BY <1>2, <1>10, <2>1 DEF Collect, WaitableFor, Candidates, WaitPass
  <2>2. CASE UNCHANGED table
    BY <1>1, <1>10, <2>2 DEF WaitPass
  <2>3. CASE \E c \in WaitableFor(r) : \E i : TakeEvent(w, c, i)
    <3>1. PICK c \in Pids : Registered(c) /\ \E t : events' = [events EXCEPT ![c] = t]
      BY ZenonT(60), <2>3 DEF TakeEvent, WaitableFor, Candidates
    <3>2. UNCHANGED <<status, next_pid, spawn>>
      BY <1>10, <2>3 DEF TakeEvent, WaitPass
    <3> QED BY <1>0, <3>1, <3>2 DEF NoNewRecord, Registered
  <2> QED BY <1>10, <2>1, <2>2, <2>3 DEF WaitPass
<1>11. ASSUME NEW w \in Waiters, WaitStart(w) \/ WaitResume(w) PROVE NoNewRecord
  BY ZenonT(60), <1>10, <1>11 DEF WaitStart, WaitResume
<1>12. ASSUME NEW w \in Waiters, WaitFinish(w) \/ SpuriousWakeup(w) PROVE NoNewRecord
  BY <1>1, <1>12 DEF WaitFinish, SpuriousWakeup
<1> QED
  BY <1>3, <1>4, <1>5, <1>6, <1>7, <1>8, <1>9, <1>11, <1>12 DEF Next

(* What a waiter has collected never comes back.                           *)
LEMMA GoneStays ==
  ASSUME TypeOK, Next, NEW p, Gone(p)
  PROVE  Gone(p)'
<1> USE DEF table, links, sigs, history
<1>0. next_pid \in Nat /\ p \in Nat /\ p \in Pids /\ status \in [Pids -> Statuses]
  BY SMT, ProcessConstants DEF TypeOK, Gone, Pids
<1>1. CASE NoNewRecord
  BY <1>0, <1>1 DEF Gone, Fresh, NoNewRecord
<1>2. ASSUME NEW q \in 0..MaxPid, AllocatePid(q) PROVE Gone(p)'
  BY SMT, <1>0, <1>2 DEF AllocatePid, Gone, Fresh
<1>3. CASE RegisterLook
  BY <1>0, <1>3 DEF RegisterLook, Gone, Fresh, TypeOK, Spawns
<1>4. CASE RegisterInsert
  <2>1. p # next_pid - 1
    BY <1>4 DEF RegisterInsert, Gone, Fresh
  <2> QED BY <1>0, <1>4, <2>1 DEF RegisterInsert, Gone, Fresh, NotSpawning
<1> QED BY <1>1, <1>2, <1>3, <1>4, OnlyRegisterInserts

(* A step collects an exit status, or it leaves collected and the waiters  *)
(* that have collected as they are.                                        *)
Collecting(w, c) ==
  /\ status[c] = "Exited" /\ Collect(w, c)
  /\ UNCHANGED <<next_pid, deadlines, spawn, tail, waking, reaper, abandoned>>
NothingCollected ==
  /\ UNCHANGED collected
  /\ \A w \in Waiters : wait'[w].stage = "cancel" =>
                          wait[w].stage = "cancel" /\ wait'[w] = wait[w]

(* Only waitpid and waitpid_for collect, and only from a process that has exited. *)
LEMMA OnlyWaitersCollect ==
  ASSUME TypeOK, Next
  PROVE  (\E w \in Waiters, c \in Pids : Collecting(w, c)) \/ NothingCollected
<1> USE DEF table, links, sigs, history
<1>0. wait \in [Waiters -> Waits]
  BY DEF TypeOK
<1>1. ASSUME UNCHANGED <<wait, collected>> PROVE NothingCollected
  BY <1>1 DEF NothingCollected
<1>2. ASSUME wait' = Woken, UNCHANGED collected PROVE NothingCollected
  BY <1>0, <1>2, WokenFacts DEF NothingCollected
<1>3. CASE \E q \in 0..MaxPid : AllocatePid(q)
  BY <1>1, <1>3 DEF AllocatePid
<1>4. CASE RegisterLook \/ RegisterInsert
  BY ZenonT(60), <1>1, <1>4 DEF RegisterLook, RegisterInsert
<1>5. ASSUME NEW q \in Pids,
             MarkExited(q) \/ ExitSchedule(q) \/ ExitCallback(q) \/ SetSid(q)
               \/ ReaperTake(q) \/ \E g \in Pids : SetPgid(q, g)
      PROVE  NothingCollected
  BY <1>1, <1>5 DEF MarkExited, ExitSchedule, ExitCallback, SetSid, ReaperTake, SetPgid
<1>6. ASSUME NEW q \in Pids, ExitNotify(q) PROVE NothingCollected
  BY ZenonT(60), <1>2, <1>6 DEF ExitNotify
<1>7. ASSUME NEW a \in Actors, Mark(a) \/ MarkNotify(a) PROVE NothingCollected
  BY ZenonT(60), <1>1, <1>2, <1>7 DEF Mark, MarkNotify
<1>8. ASSUME NEW c \in Callers,
             \/ \E s \in Signals : Kill(c, s)
             \/ \E q \in Pids, set \in Masks : SigProcMask(c, q, set)
             \/ MarkDirect(c) \/ TerminateAll(c) \/ TerminateEnd(c)
      PROVE  NothingCollected
  BY <1>1, <1>8 DEF Kill, SigProcMask, MarkDirect, TerminateAll, TerminateEnd
<1>9. CASE ReaperDecide \/ ReaperNotify
  BY <1>1, <1>2, <1>9 DEF ReaperDecide, ReaperNotify
<1>10. ASSUME NEW w \in Waiters, NEW r \in Waits, WaitPass(w, r)
       PROVE  (\E c \in Pids : Collecting(w, c)) \/ NothingCollected
  <2>1. ASSUME NEW c \in WaitableFor(r), EventsFor(r, c) = {}, Collect(w, c)
        PROVE  Collecting(w, c) /\ c \in Pids
    BY <1>10, <2>1 DEF Collecting, WaitableFor, Waitable, Candidates, WaitPass
  <2>2. ASSUME \E v : /\ wait' = [wait EXCEPT ![w] = v] /\ v.stage # "cancel"
                      /\ UNCHANGED collected
        PROVE  NothingCollected
    BY <1>0, <2>2 DEF NothingCollected
  <2>3. [r EXCEPT !.stage = "blocked"].stage = "blocked" /\ NotWaiting.stage = "idle"
    BY DEF Waits, NotWaiting
  <2> QED BY ZenonT(60), <1>10, <2>1, <2>2, <2>3 DEF WaitPass, TakeEvent
<1>11. ASSUME NEW w \in Waiters, WaitStart(w)
       PROVE  (\E c \in Pids : Collecting(w, c)) \/ NothingCollected
  <2>1. PICK r \in Waits : WaitPass(w, r)
    BY SMT, <1>11, ProcessConstants DEF WaitStart, Waits, Pids
  <2> QED BY ZenonT(60), <1>10, <2>1
<1>12. ASSUME NEW w \in Waiters, WaitResume(w)
       PROVE  (\E c \in Pids : Collecting(w, c)) \/ NothingCollected
  BY <1>0, <1>10, <1>12 DEF WaitResume
<1>13. ASSUME NEW w \in Waiters, WaitFinish(w) PROVE NothingCollected
  <2>1. Woken \in [Waiters -> Waits] /\ NotWaiting.stage = "idle"
    BY <1>0, WokenFacts DEF NotWaiting
  <2> QED BY <1>0, <1>13, <2>1, WokenFacts DEF WaitFinish, NothingCollected
<1>14. ASSUME NEW w \in Waiters, SpuriousWakeup(w) PROVE NothingCollected
  <2>1. wait' = [wait EXCEPT ![w] = [wait[w] EXCEPT !.stage = "ready"]]
    BY <1>14 DEF SpuriousWakeup
  <2>2. [wait[w] EXCEPT !.stage = "ready"].stage = "ready"
    BY <1>0 DEF Waits
  <2> QED BY <1>0, <1>14, <2>1, <2>2 DEF SpuriousWakeup, NothingCollected
<1> QED
  BY <1>3, <1>4, <1>5, <1>6, <1>7, <1>8, <1>9, <1>11, <1>12, <1>13, <1>14 DEF Next

(* Fresh pids and collected processes are kept apart by every step.        *)
LEMMA BookkeepingStep ==
  ASSUME TypeOK, Bookkeeping, Next
  PROVE  Bookkeeping'
<1> USE DEF table, links, sigs, history
<1>0. /\ next_pid \in Nat /\ MaxPid \in Nat
      /\ \A p \in Pids : p \in Nat
      /\ status \in [Pids -> Statuses] /\ wait \in [Waiters -> Waits]
  BY Z3T(60), ProcessConstants DEF TypeOK, Pids
<1>1. /\ (spawn.stage # "idle" => next_pid - 1 \in Pids)'
      /\ (\A p \in Pids : /\ Fresh(p) => status[p] = "absent"
                          /\ status[p] = "absent" => events[p] = <<>>)'
  <2>1. CASE NoNewRecord
    BY <1>0, <2>1 DEF NoNewRecord, Fresh, Bookkeeping
  <2>2. ASSUME NEW q \in 0..MaxPid, AllocatePid(q) PROVE <1>1!:
    <3>1. next_pid \in Pids /\ next_pid' = next_pid + 1 /\ UNCHANGED <<status, events>>
      BY <2>2 DEF AllocatePid
    <3>2. ASSUME NEW p \in Pids, Fresh(p)' PROVE Fresh(p)
      BY SMT, <1>0, <3>1, <3>2 DEF Fresh
    <3>3. next_pid' - 1 \in Pids
      BY SMT, <1>0, <3>1
    <3> QED BY Z3T(60), <3>1, <3>2, <3>3 DEF Bookkeeping
  <2>3. CASE RegisterLook
    BY ZenonT(60), <1>0, <2>3 DEF RegisterLook, Fresh, Bookkeeping
  <2>4. CASE RegisterInsert
    <3>1. /\ spawn.stage = "looked" /\ spawn' = NotSpawning
          /\ status' = [status EXCEPT ![next_pid - 1] = "Running"]
          /\ next_pid' = next_pid /\ events' = events
      BY Zenon, <2>4 DEF RegisterInsert
    <3>2. spawn'.stage = "idle" /\ spawn.stage # "idle"
      BY <3>1 DEF NotSpawning
    <3>3. ASSUME NEW p \in Pids
          PROVE  /\ Fresh(p)' => status'[p] = "absent"
                 /\ status'[p] = "absent" => events'[p] = <<>>
      BY SMT, <1>0, <3>1, <3>2 DEF Fresh, Bookkeeping
    <3> QED BY Zenon, <3>2, <3>3
  <2> QED BY ZenonT(60), <2>1, <2>2, <2>3, <2>4, OnlyRegisterInserts
<1>2. (\A p \in Pids : tail[p] = "cancel" => p \in abandoned)'
  <2>1. CASE UNCHANGED <<tail, abandoned>>
    BY Z3T(60), <2>1 DEF Bookkeeping
  <2>2. ASSUME NEW p \in Pids,
               MarkExited(p) \/ ExitSchedule(p) \/ ExitCallback(p) \/ ExitNotify(p)
        PROVE  <1>2!:
    BY SMT, <2>2 DEF MarkExited, ExitSchedule, ExitCallback, ExitNotify, Bookkeeping, TypeOK
  <2>3. ASSUME NEW c \in Callers, TerminateAll(c) PROVE <1>2!:
    BY ZenonT(60), <2>3 DEF TerminateAll, Bookkeeping
  <2>4. CASE \/ \E q \in 0..MaxPid : AllocatePid(q)
             \/ RegisterLook \/ RegisterInsert
             \/ \E p \in Pids : SetSid(p) \/ ReaperTake(p) \/ \E g \in Pids : SetPgid(p, g)
             \/ \E a \in Actors : Mark(a) \/ MarkNotify(a)
    BY Z3T(60), <2>1, <2>4 DEF AllocatePid, RegisterLook, RegisterInsert, SetSid, ReaperTake,
                      SetPgid, Mark, MarkNotify
  <2>5. CASE \E c \in Callers : \/ \E s \in Signals : Kill(c, s)
                                \/ \E p \in Pids, set \in Masks : SigProcMask(c, p, set)
                                \/ MarkDirect(c) \/ TerminateEnd(c)
    BY ZenonT(60), <2>1, <2>5 DEF Kill, SigProcMask, MarkDirect, TerminateEnd
  <2>6. CASE \/ ReaperDecide \/ ReaperNotify
             \/ \E w \in Waiters : WaitFinish(w) \/ SpuriousWakeup(w)
    BY Z3T(60), <2>1, <2>6 DEF ReaperDecide, ReaperNotify, WaitFinish, SpuriousWakeup
  <2>7. CASE \E w \in Waiters : WaitStart(w) \/ WaitResume(w)
    <3>1. ASSUME NEW w, NEW r, WaitPass(w, r) PROVE UNCHANGED <<tail, abandoned>>
      BY <3>1 DEF WaitPass
    <3> QED BY ZenonT(60), <2>1, <2>7, <3>1 DEF WaitStart, WaitResume
  <2> QED BY ZenonT(60), <2>2, <2>3, <2>4, <2>5, <2>6, <2>7 DEF Next
<1>3. CASE NothingCollected
  <2>1. (\A p \in collected : Gone(p))'
    BY ZenonT(60), <1>3, GoneStays DEF Bookkeeping, NothingCollected
  <2>2. ASSUME NEW w \in Waiters, (wait[w].stage = "cancel")' PROVE Gone(wait[w].arg)'
    <3>1. wait[w].stage = "cancel" /\ wait'[w] = wait[w]
      BY <1>3, <2>2 DEF NothingCollected
    <3>2. Gone(wait[w].arg)
      BY <3>1 DEF Bookkeeping
    <3>3. ASSUME NEW p, Gone(p) PROVE status'[p] = "absent" /\ p \in Pids /\ ~Fresh(p)'
      BY ZenonT(60), <3>3, GoneStays DEF Gone
    <3> QED BY ZenonT(60), <3>1, <3>2, <3>3 DEF Gone, Fresh
  <2> QED BY ZenonT(60), <1>1, <1>2, <2>1, <2>2 DEF Bookkeeping
<1>4. ASSUME NEW w \in Waiters, NEW c \in Pids, Collecting(w, c) PROVE Bookkeeping'
  <2>1. (Gone(c))'
    BY ZenonT(60), <1>0, <1>4 DEF Collecting, Collect, Remove, Gone, Fresh, Bookkeeping
  <2>2. (\A p \in collected : Gone(p))'
    <3>1. collected' = collected \cup {c}
      BY <1>4 DEF Collecting, Collect
    <3> QED BY <2>1, <3>1, GoneStays DEF Bookkeeping
  <2>3. ASSUME NEW v \in Waiters, (wait[v].stage = "cancel")' PROVE Gone(wait[v].arg)'
    <3>1. ASSUME NEW p, Gone(p) PROVE status'[p] = "absent" /\ p \in Pids /\ ~Fresh(p)'
      BY <3>1, GoneStays DEF Gone
    <3>2. CASE v = w
      <4>1. wait'[v].arg = c
        BY ZenonT(60), <1>0, <1>4, <3>2 DEF Collecting, Collect, Cancelling
      <4> QED BY <2>1, <4>1 DEF Gone, Fresh
    <3>3. CASE v # w
      <4>1. wait'[v] = wait[v]
        BY <1>0, <1>4, <3>3 DEF Collecting, Collect
      <4>2. Gone(wait[v].arg)
        BY ZenonT(60), <2>3, <4>1 DEF Bookkeeping
      <4> QED BY <3>1, <4>1, <4>2 DEF Gone, Fresh
    <3> QED BY Z3T(60), <3>2, <3>3
  <2> QED BY ZenonT(60), <1>1, <1>2, <2>2, <2>3 DEF Bookkeeping
<1> QED BY <1>3, <1>4, OnlyWaitersCollect

(* exit, reaper.schedule, reaper.cancel, waitpid, terminate_all and the    *)
(* reaper thread leave no zombie behind.                                   *)
LEMMA ZombieStep ==
  ASSUME TypeOK, Bookkeeping, ZombieHasDeadline, Next
  PROVE  ZombieHasDeadline'
<1> USE DEF table, links, sigs, history
<1>0. /\ status \in [Pids -> Statuses] /\ reaper.pid \in Pids
      /\ tail \in [Pids -> {"none", "schedule", "cancel", "deliver", "notify"}]
  BY ZenonT(60) DEF TypeOK, Reapers
<1>1. ASSUME UNCHANGED <<deadlines, tail, reaper, abandoned>>,
             \A p \in Pids : status'[p] = "Exited" => status[p] = "Exited"
      PROVE  ZombieHasDeadline'
  BY Z3T(60), <1>1 DEF ZombieHasDeadline
<1>2. CASE \E q \in 0..MaxPid : AllocatePid(q)
  BY <1>1, <1>2 DEF AllocatePid
<1>3. CASE RegisterLook
  BY <1>1, <1>3 DEF RegisterLook
<1>4. CASE RegisterInsert
  <2>1. \A p \in Pids : status'[p] = "Exited" => status[p] = "Exited"
    BY <1>0, <1>4 DEF RegisterInsert
  <2> QED BY <1>1, <1>4, <2>1 DEF RegisterInsert
<1>5. ASSUME NEW p \in Pids, MarkExited(p) PROVE ZombieHasDeadline'
  <2>1. /\ status' = [status EXCEPT ![p] = "Exited"]
        /\ abandoned \subseteq abandoned'
        /\ tail' = [tail EXCEPT ![p] = IF terminating_all THEN "cancel" ELSE "schedule"]
        /\ terminating_all => p \in abandoned'
        /\ UNCHANGED <<deadlines, reaper>>
    BY ZenonT(60), <1>5 DEF MarkExited
  <2> QED BY Z3T(60), <1>0, <2>1 DEF ZombieHasDeadline
<1>6. ASSUME NEW p \in Pids, ExitSchedule(p) PROVE ZombieHasDeadline'
  BY ZenonT(60), <1>0, <1>6 DEF ExitSchedule, ZombieHasDeadline, Bookkeeping
<1>7. ASSUME NEW p \in Pids, ExitCallback(p) \/ ExitNotify(p) PROVE ZombieHasDeadline'
  BY ZenonT(60), <1>0, <1>7 DEF ExitCallback, ExitNotify, ZombieHasDeadline
<1>8. ASSUME NEW p \in Pids, SetSid(p) \/ \E g \in Pids : SetPgid(p, g)
      PROVE  ZombieHasDeadline'
  BY Z3T(60), <1>1, <1>8 DEF SetSid, SetPgid
<1>9. ASSUME NEW p \in Pids, ReaperTake(p) PROVE ZombieHasDeadline'
  BY ZenonT(60), <1>9 DEF ReaperTake, ZombieHasDeadline
<1>10. ASSUME NEW a \in Actors, Mark(a) PROVE ZombieHasDeadline'
  <2>1. \A p \in Pids : status'[p] = "Exited" => status[p] = "Exited"
    <3>1. CASE UNCHANGED status
      BY <3>1
    <3>2. CASE \E m \in marks[a] : status' = [status EXCEPT ![m.pid] = m.to]
      <4>1. PICK m \in Marks : status' = [status EXCEPT ![m.pid] = m.to]
        BY ZenonT(60), <3>2 DEF TypeOK
      <4>2. m.to # "Exited"
        BY DEF Marks
      <4> QED BY Z3T(60), <1>0, <4>1, <4>2
    <3> QED BY <1>10, <3>1, <3>2 DEF Mark
  <2> QED BY ZenonT(60), <1>1, <1>10, <2>1 DEF Mark
<1>11. ASSUME NEW a \in Actors, MarkNotify(a) PROVE ZombieHasDeadline'
  BY <1>1, <1>11 DEF MarkNotify
<1>12. ASSUME NEW c \in Callers, \/ \E s \in Signals : Kill(c, s)
                                 \/ \E p \in Pids, set \in Masks : SigProcMask(c, p, set)
                                 \/ MarkDirect(c) \/ TerminateEnd(c)
       PROVE  ZombieHasDeadline'
  BY ZenonT(60), <1>1, <1>12 DEF Kill, SigProcMask, MarkDirect, TerminateEnd
<1>13. ASSUME NEW c \in Callers, TerminateAll(c) PROVE ZombieHasDeadline'
  BY ZenonT(60), <1>13 DEF TerminateAll, ZombieHasDeadline
<1>14. CASE ReaperDecide
  <2>1. reaper'.stage = "notify"
    BY <1>14 DEF ReaperDecide, TypeOK, Reapers
  <2>2. CASE Remove(reaper.pid) /\ UNCHANGED deadlines
    BY <1>0, <1>14, <2>2 DEF ReaperDecide, Remove, ZombieHasDeadline
  <2>3. CASE /\ UNCHANGED status
             /\ deadlines' = IF status[reaper.pid] = "Exited"
                             THEN deadlines \cup {reaper.pid} ELSE deadlines
    <3>1. reaper.stage = "holding" /\ UNCHANGED <<tail, abandoned>>
      BY Zenon, <1>14 DEF ReaperDecide
    <3> QED BY <2>3, <3>1 DEF ZombieHasDeadline
  <2> QED BY <1>14, <2>2, <2>3 DEF ReaperDecide
<1>15. CASE ReaperNotify
  BY <1>15 DEF ReaperNotify, ZombieHasDeadline
<1>16. ASSUME NEW w \in Waiters, NEW r, WaitPass(w, r) PROVE ZombieHasDeadline'
  <2>1. \A p \in Pids : status'[p] = "Exited" => status[p] = "Exited"
    BY Z3T(60), <1>0, <1>16 DEF WaitPass, TakeEvent, Collect, Remove, WaitableFor, Candidates
  <2> QED BY Z3T(60), <1>1, <1>16, <2>1 DEF WaitPass
<1>17. ASSUME NEW w \in Waiters, WaitStart(w) \/ WaitResume(w) PROVE ZombieHasDeadline'
  BY ZenonT(60), <1>16, <1>17 DEF WaitStart, WaitResume
<1>18. ASSUME NEW w \in Waiters, WaitFinish(w) PROVE ZombieHasDeadline'
  <2>1. status[wait[w].arg] = "absent"
    BY <1>18 DEF WaitFinish, Bookkeeping, Gone
  <2> QED BY ZenonT(60), <1>18, <2>1 DEF WaitFinish, ZombieHasDeadline
<1>19. ASSUME NEW w \in Waiters, SpuriousWakeup(w) PROVE ZombieHasDeadline'
  BY <1>1, <1>19 DEF SpuriousWakeup
<1> QED
  BY Z3T(60), <1>2, <1>3, <1>4, <1>5, <1>6, <1>7, <1>8, <1>9, <1>10, <1>11, <1>12, <1>13, <1>14,
     <1>15, <1>17, <1>18, <1>19 DEF Next

(* A table that is being set up has nothing to keep apart, and a step that *)
(* changes nothing keeps it so.                                            *)
LEMMA BookkeepingAlways == Spec => []Bookkeeping
<1>1. Init => Bookkeeping
  BY Z3T(60) DEF Init, Bookkeeping, NotSpawning, NotWaiting
<1>2. Bookkeeping /\ UNCHANGED vars => Bookkeeping'
  BY DEF Bookkeeping, Gone, Fresh, vars, table, history
<1> QED BY <1>1, <1>2, TypeCorrect, BookkeepingStep, PTL DEF Spec

(* No order of exit, reaper.schedule, reaper.cancel, waitpid and the       *)
(* reaper's passes leaves an exited process without a deadline, except the *)
(* zombies terminate_all abandons.                                         *)
THEOREM NoZombieIsStranded == Spec => []ZombieHasDeadline
<1>1. Init => ZombieHasDeadline
  BY Z3T(60) DEF Init, ZombieHasDeadline
<1>2. ZombieHasDeadline /\ UNCHANGED vars => ZombieHasDeadline'
  BY DEF ZombieHasDeadline, vars, table, history
<1> QED BY <1>1, <1>2, TypeCorrect, BookkeepingAlways, ZombieStep, PTL DEF Spec

(* Only a waiter and the reaper take a process that has exited out of the  *)
(* table; the reaper does not while the parent lives, and a status that    *)
(* was collected once is not there to be collected again.                  *)
THEOREM ExitStatusesAreKept == Spec => ExitStatusIsKept
<1> USE DEF table, links, sigs, history
<1>1. ASSUME TypeOK, Bookkeeping, Next, NEW p \in Pids,
             status[p] = "Exited", status'[p] # "Exited"
      PROVE  /\ status'[p] = "absent" /\ p \notin collected
             /\ LivingParent(p) => p \in collected'
  <2>0. status \in [Pids -> Statuses] /\ reaper.pid \in Pids
    BY Z3T(60), <1>1 DEF TypeOK, Reapers
  <2>1. p \notin collected
    BY ZenonT(60), <1>1 DEF Bookkeeping, Gone
  <2>2. ASSUME UNCHANGED status PROVE FALSE
    BY <1>1, <2>2
  <2>3. ~(\E q \in 0..MaxPid : AllocatePid(q)) /\ ~RegisterLook /\ ~ReaperNotify
    BY ZenonT(60), <2>2 DEF AllocatePid, RegisterLook, ReaperNotify
  <2>4. ~RegisterInsert
    BY Z3T(60), <1>1, <2>0 DEF RegisterInsert, Bookkeeping, Fresh
  <2>5. ~(\E q \in Pids : \/ MarkExited(q) \/ ExitSchedule(q) \/ ExitCallback(q)
                          \/ ExitNotify(q) \/ SetSid(q) \/ ReaperTake(q)
                          \/ \E g \in Pids : SetPgid(q, g))
    <3>1. ASSUME NEW q \in Pids, MarkExited(q) PROVE FALSE
      BY ZenonT(60), <1>1, <2>0, <3>1 DEF MarkExited
    <3> QED BY ZenonT(60), <2>2, <3>1 DEF ExitSchedule, ExitCallback, ExitNotify, SetSid, ReaperTake, SetPgid
  <2>6. ~(\E a \in Actors : Mark(a) \/ MarkNotify(a))
    <3>1. ASSUME NEW a \in Actors, Mark(a) PROVE FALSE
      <4>1. PICK q : Alive(q) /\ \E v : status' = [status EXCEPT ![q] = v]
        BY Z3T(60), <2>2, <3>1 DEF Mark
      <4> QED BY ZenonT(60), <1>1, <2>0, <4>1 DEF Alive
    <3> QED BY <2>2, <3>1 DEF MarkNotify
  <2>7. ~(\E c \in Callers : \/ \E s \in Signals : Kill(c, s)
                             \/ \E q \in Pids, set \in Masks : SigProcMask(c, q, set)
                             \/ MarkDirect(c) \/ TerminateAll(c) \/ TerminateEnd(c))
    BY ZenonT(60), <2>2 DEF Kill, SigProcMask, MarkDirect, TerminateAll, TerminateEnd
  <2>8. ~(\E w \in Waiters : WaitFinish(w) \/ SpuriousWakeup(w))
    BY <2>2 DEF WaitFinish, SpuriousWakeup
  <2>9. CASE ReaperDecide
    <3>1. Remove(reaper.pid) /\ ~LivingParent(reaper.pid)
      BY <2>2, <2>9 DEF ReaperDecide
    <3>2. p = reaper.pid
      BY <1>1, <2>0, <3>1 DEF Remove
    <3> QED BY <2>0, <2>1, <3>1, <3>2 DEF Remove
  <2>10. ASSUME NEW w \in Waiters, NEW r, WaitPass(w, r)
         PROVE  status'[p] = "absent" /\ p \in collected'
    <3>1. PICK c \in Pids : Collect(w, c)
      BY Z3T(60), <2>2, <2>10 DEF WaitPass, TakeEvent, WaitableFor, Candidates
    <3> QED BY <1>1, <2>0, <3>1 DEF Collect, Remove
  <2>11. CASE \E w \in Waiters : WaitStart(w) \/ WaitResume(w)
    BY ZenonT(60), <2>1, <2>10, <2>11 DEF WaitStart, WaitResume
  <2> QED BY ZenonT(60), <1>1, <2>3, <2>4, <2>5, <2>6, <2>7, <2>8, <2>9, <2>11 DEF Next
<1>2. TypeOK /\ Bookkeeping /\ [Next]_vars =>
        [\A p \in Pids : status[p] = "Exited" /\ status'[p] # "Exited" =>
           /\ status'[p] = "absent"
           /\ p \notin collected
           /\ LivingParent(p) => p \in collected']_vars
  BY <1>1
<1> QED BY <1>2, TypeCorrect, BookkeepingAlways, PTL DEF Spec, ExitStatusIsKept

------------------------------------------------------------------------------
(* Wakeups.  Returns is CanReturn with the table as an argument, to compare *)
(* what a sleeping waiter could do before and after a step.                *)

Matching(r, st, par, grp) ==
  IF r.selector = "pid" THEN {c \in Pids : c = r.arg /\ st[c] # "absent"}
  ELSE IF r.who \notin Pids \/ st[r.who] = "absent" THEN {}
  ELSE {c \in Pids :
          /\ st[c] # "absent" /\ par[c] = r.who
          /\ r.selector = "child" => c = r.arg
          /\ r.selector = "group" =>
               grp[c] = IF r.arg = 0 THEN grp[r.who] ELSE r.arg}
Reports(r, c, st, ev) ==
  (\E i \in DOMAIN ev[c] : Waits4(r, ev[c][i])) \/ st[c] = "Exited"
Returns(r, st, par, grp, ev) ==
  \/ Matching(r, st, par, grp) = {}
  \/ \E c \in Matching(r, st, par, grp) : Reports(r, c, st, ev)

(* CanReturn is Returns of the table as it is.                             *)
LEMMA ReturnsNow ==
  \A r : CanReturn(r) <=> Returns(r, status, ppid, pgid, events)
BY SMT DEF CanReturn, WaitableFor, Waitable, Candidates, EventsFor, Returns, Reports,
       Matching, Registered

(* CanReturn after a step is Returns of the table after the step.          *)
LEMMA ReturnsNext ==
  \A w \in Waiters :
    CanReturn(wait[w])' <=> Returns(wait'[w], status', ppid', pgid', events')
BY SMT DEF CanReturn, WaitableFor, Waitable, Candidates, EventsFor, Returns, Reports,
       Matching, Registered, Waits4

(* A step that takes no record away, gives no record another parent and    *)
(* adds nothing to report.                                                 *)
NothingNews ==
  \A p \in Pids :
    /\ status[p] # "absent" => status'[p] # "absent" /\ ppid'[p] = ppid[p]
    /\ status'[p] = "Exited" => status[p] = "Exited"
    /\ status[p] = "absent" => events'[p] = <<>>
    /\ \A j \in DOMAIN events'[p] : \E k \in DOMAIN events[p] : events'[p][j] = events[p][k]

(* After such a step a waiter can return only if it could before.          *)
LEMMA NoNewsIsNoReason ==
  ASSUME NothingNews, NEW r, r.selector # "group",
         Returns(r, status', ppid', pgid', events')
  PROVE  Returns(r, status, ppid, pgid, events)
<1>1. ASSUME NEW c \in Matching(r, status, ppid, pgid)
      PROVE  c \in Matching(r, status', ppid', pgid')
  BY <1>1 DEF Matching, NothingNews
<1>2. CASE Matching(r, status', ppid', pgid') = {}
  BY Z3T(60), <1>1, <1>2 DEF Returns
<1>3. ASSUME NEW c \in Matching(r, status', ppid', pgid'), Reports(r, c, status', events')
      PROVE  Returns(r, status, ppid, pgid, events)
  <2>0. c \in Pids
    BY ZenonT(60) DEF Matching
  <2>1. status[c] # "absent"
    BY Z3T(60), <1>3, <2>0 DEF NothingNews, Reports
  <2>2. Reports(r, c, status, events)
    BY ZenonT(60), <1>3, <2>0 DEF NothingNews, Reports
  <2>3. CASE r.selector # "pid" /\ (r.who \notin Pids \/ status[r.who] = "absent")
    BY <2>3 DEF Returns, Matching
  <2>4. CASE r.selector = "pid" \/ (r.who \in Pids /\ status[r.who] # "absent")
    <3>1. c \in Matching(r, status, ppid, pgid)
      BY Z3T(60), <2>0, <2>1, <2>4 DEF Matching, NothingNews
    <3> QED BY ZenonT(60), <2>2, <3>1 DEF Returns
  <2> QED BY <2>3, <2>4
<1> QED BY <1>2, <1>3 DEF Returns

(* A step after which nobody else sleeps than before, the sleepers have    *)
(* learnt nothing and nobody has forgotten to notify, loses no wakeup.     *)
LEMMA QuietStep ==
  ASSUME NoLostWaiter, NothingNews, NotifyDue => NotifyDue',
         \A w \in Waiters : wait'[w].stage = "blocked" =>
           \/ wait'[w] = wait[w]
           \/ ~Returns(wait'[w], status', ppid', pgid', events')
  PROVE  NoLostWaiter'
<1> SUFFICES ASSUME NEW w \in Waiters, wait'[w].stage = "blocked",
                    wait'[w].selector # "group",
                    Returns(wait'[w], status', ppid', pgid', events')
             PROVE  NotifyDue'
  BY ZenonT(60), ReturnsNext DEF NoLostWaiter
<1>1. wait'[w] = wait[w]
  BY ZenonT(60)
<1>2. Returns(wait[w], status, ppid, pgid, events)
  BY ZenonT(60), <1>1, NoNewsIsNoReason
<1> QED BY ZenonT(60), <1>1, <1>2, ReturnsNow DEF NoLostWaiter

(* Every step keeps NoLostWaiter: it is quiet, or a notify_all is due      *)
(* after it, or it is the notify_all and nobody sleeps after it.           *)
LEMMA WakeupStep ==
  ASSUME TypeOK, Bookkeeping, NoLostWaiter, Next
  PROVE  NoLostWaiter'
<1> USE DEF table, links, sigs, history
<1>0. /\ status \in [Pids -> Statuses] /\ wait \in [Waiters -> Waits]
      /\ ppid \in [Pids -> 0..MaxPid]
      /\ events \in [Pids -> Seq({"Stopped", "Continued"})]
      /\ tail \in [Pids -> {"none", "schedule", "cancel", "deliver", "notify"}]
      /\ \A p \in Pids : status[p] = "absent" => events[p] = <<>>
  BY DEF TypeOK, Bookkeeping
<1>1. ASSUME NotifyDue' PROVE NoLostWaiter'
  BY <1>1 DEF NoLostWaiter
<1>2. ASSUME \A w \in Waiters : wait'[w].stage # "blocked" PROVE NoLostWaiter'
  BY <1>2 DEF NoLostWaiter
<1>3. ASSUME UNCHANGED <<status, ppid, events>> PROVE NothingNews
  BY <1>0, <1>3 DEF NothingNews
<1>4. ASSUME UNCHANGED <<tail, waking, wait>>,
             reaper'.stage = reaper.stage \/ reaper.stage # "notify"
      PROVE  NotifyDue => NotifyDue'
  BY ZenonT(60), <1>4 DEF NotifyDue
<1>5. ASSUME UNCHANGED <<status, ppid, events, tail, waking, wait>>,
             reaper'.stage = reaper.stage \/ reaper.stage # "notify"
      PROVE  NoLostWaiter'
  BY ZenonT(60), <1>3, <1>4, <1>5, QuietStep
<1>6. CASE \E q \in 0..MaxPid : AllocatePid(q)
  BY <1>5, <1>6 DEF AllocatePid
<1>7. CASE RegisterLook
  BY ZenonT(60), <1>5, <1>7 DEF RegisterLook
<1>8. CASE RegisterInsert
  <2>1. status[next_pid - 1] = "absent" /\ next_pid - 1 \in Pids
    BY Z3T(60), <1>8 DEF RegisterInsert, Bookkeeping, Fresh
  <2>2. /\ status' = [status EXCEPT ![next_pid - 1] = "Running"]
        /\ ppid' = [ppid EXCEPT ![next_pid - 1] = spawn.ppid]
        /\ events' = events
    BY Z3T(60), <1>8 DEF RegisterInsert
  <2>3. NothingNews
    BY Z3T(60), <1>0, <2>1, <2>2 DEF NothingNews
  <2> QED BY ZenonT(60), <1>4, <1>8, <2>3, QuietStep DEF RegisterInsert
<1>9. ASSUME NEW p \in Pids, MarkExited(p) PROVE NoLostWaiter'
  <2>1. tail'[p] # "none"
    BY ZenonT(60), <1>0, <1>9 DEF MarkExited
  <2> QED BY Z3T(60), <1>1, <2>1 DEF NotifyDue
<1>10. ASSUME NEW p \in Pids, ExitSchedule(p) \/ ExitCallback(p) PROVE NoLostWaiter'
  <2>1. tail'[p] # "none"
    BY ZenonT(60), <1>0, <1>10 DEF ExitSchedule, ExitCallback
  <2> QED BY ZenonT(60), <1>1, <2>1 DEF NotifyDue
<1>11. ASSUME wait' = Woken PROVE NoLostWaiter'
  BY Z3T(60), <1>0, <1>2, <1>11, WokenFacts
<1>12. ASSUME NEW p \in Pids, ExitNotify(p) PROVE NoLostWaiter'
  BY ZenonT(60), <1>11, <1>12 DEF ExitNotify
<1>13. ASSUME NEW p \in Pids, SetSid(p) \/ \E g \in Pids : SetPgid(p, g)
       PROVE  NoLostWaiter'
  BY ZenonT(60), <1>5, <1>13 DEF SetSid, SetPgid
<1>14. ASSUME NEW p \in Pids, ReaperTake(p) PROVE NoLostWaiter'
  BY ZenonT(60), <1>5, <1>14 DEF ReaperTake
<1>15. ASSUME NEW a \in Actors, Mark(a) PROVE NoLostWaiter'
  <2>1. CASE waking' = waking \cup {a}
    BY Z3T(60), <1>1, <2>1 DEF NotifyDue
  <2>2. CASE UNCHANGED <<status, events, waking>>
    BY ZenonT(60), <1>5, <1>15, <2>2 DEF Mark
  <2> QED BY <1>15, <2>1, <2>2 DEF Mark
<1>16. ASSUME NEW a \in Actors, MarkNotify(a) PROVE NoLostWaiter'
  BY Z3T(60), <1>11, <1>16 DEF MarkNotify
<1>17. ASSUME NEW c \in Callers, \/ \E s \in Signals : Kill(c, s)
                                 \/ \E p \in Pids, set \in Masks : SigProcMask(c, p, set)
                                 \/ MarkDirect(c) \/ TerminateAll(c) \/ TerminateEnd(c)
       PROVE  NoLostWaiter'
  BY ZenonT(60), <1>5, <1>17 DEF Kill, SigProcMask, MarkDirect, TerminateAll, TerminateEnd
<1>18. CASE ReaperDecide
  <2>1. reaper'.stage = "notify"
    BY <1>18 DEF ReaperDecide, TypeOK, Reapers
  <2> QED BY ZenonT(60), <1>1, <2>1 DEF NotifyDue
<1>19. CASE ReaperNotify
  BY <1>11, <1>19 DEF ReaperNotify
<1>20. ASSUME NEW w \in Waiters, NEW r \in Waits, WaitPass(w, r), wait[w].stage # "cancel"
       PROVE  NoLostWaiter'
  <2>1. ASSUME NEW c, Collect(w, c) PROVE NoLostWaiter'
    <3>1. wait'[w].stage = "cancel"
      BY Z3T(60), <1>0, <2>1 DEF Collect, Cancelling
    <3> QED BY ZenonT(60), <1>1, <3>1 DEF NotifyDue
  <2>2. ASSUME NEW v, wait' = [wait EXCEPT ![w] = v], NothingNews,
               v.stage = "blocked" => ~Returns(v, status', ppid', pgid', events')
        PROVE  NoLostWaiter'
    <3>1. NotifyDue => NotifyDue'
      BY Z3T(60), <1>0, <1>20, <2>2 DEF NotifyDue, WaitPass
    <3>2. \A u \in Waiters : wait'[u].stage = "blocked" =>
            \/ wait'[u] = wait[u]
            \/ ~Returns(wait'[u], status', ppid', pgid', events')
      BY Z3T(60), <1>0, <2>2
    <3> QED BY <2>2, <3>1, <3>2, QuietStep
  <2>3. NotWaiting.stage = "idle"
    BY Z3T(60) DEF NotWaiting
  <2>4. CASE wait' = [wait EXCEPT ![w] = NotWaiting] /\ UNCHANGED table
    BY ZenonT(60), <1>3, <2>2, <2>3, <2>4
  <2>5. CASE /\ ~CanReturn(r) /\ UNCHANGED table
             /\ wait' = [wait EXCEPT ![w] = [r EXCEPT !.stage = "blocked"]]
    <3> DEFINE v == [r EXCEPT !.stage = "blocked"]
    <3>1. ~Returns(r, status, ppid, pgid, events)
      BY <2>5, ReturnsNow
    <3>2. /\ v.selector = r.selector /\ v.who = r.who /\ v.arg = r.arg
          /\ v.flags = r.flags
      BY ZenonT(60) DEF Waits
    <3>3. ~Returns(v, status, ppid, pgid, events)
      <4> HIDE DEF v
      <4> QED BY Z3T(60), <3>1, <3>2 DEF Returns, Matching, Reports, Waits4
    <3>4. ~Returns(v, status', ppid', pgid', events')
      BY <2>5, <3>3
    <3>5. wait' = [wait EXCEPT ![w] = v]
      BY <2>5
    <3> HIDE DEF v
    <3> QED BY ZenonT(60), <1>3, <2>2, <2>5, <3>4, <3>5
  <2>6. ASSUME NEW c \in WaitableFor(r), NEW i \in EventsFor(r, c), TakeEvent(w, c, i)
        PROVE  NoLostWaiter'
    <3>1. /\ c \in Pids /\ i \in DOMAIN events[c]
          /\ events[c] \in Seq({"Stopped", "Continued"}) /\ events[c] # <<>>
      BY SMT, <1>0, <2>6 DEF WaitableFor, Candidates, EventsFor
    <3>2. PICK t : /\ events' = [events EXCEPT ![c] = t]
                   /\ \A j \in DOMAIN t : \E k \in DOMAIN events[c] : t[j] = events[c][k]
      <4> DEFINE t == SubSeq(events[c], 1, i - 1) \o SubSeq(events[c], i + 1, Len(events[c]))
      <4>1. \A j \in DOMAIN t : \E k \in DOMAIN events[c] : t[j] = events[c][k]
        BY ZenonT(60), <3>1, TakenFacts
      <4>2. events' = [events EXCEPT ![c] = t]
        BY <2>6 DEF TakeEvent
      <4> HIDE DEF t
      <4> QED BY ZenonT(60), <4>1, <4>2
    <3>3. status[c] # "absent"
      BY <1>0, <3>1
    <3>4. UNCHANGED <<status, ppid, pgid>> /\ wait' = [wait EXCEPT ![w] = NotWaiting]
      BY <2>6 DEF TakeEvent
    <3>5. NothingNews
      BY Z3T(60), <1>0, <3>1, <3>2, <3>3, <3>4 DEF NothingNews
    <3> QED BY ZenonT(60), <2>2, <2>3, <3>4, <3>5
  <2> QED BY ZenonT(60), <1>20, <2>1, <2>4, <2>5, <2>6 DEF WaitPass
<1>21. ASSUME NEW w \in Waiters, WaitStart(w) PROVE NoLostWaiter'
  <2>1. PICK r \in Waits : WaitPass(w, r)
    BY Z3T(60), <1>21, ProcessConstants DEF WaitStart, Waits, Pids
  <2> QED BY ZenonT(60), <1>20, <1>21, <2>1 DEF WaitStart
<1>22. ASSUME NEW w \in Waiters, WaitResume(w) PROVE NoLostWaiter'
  BY ZenonT(60), <1>0, <1>20, <1>22 DEF WaitResume
<1>23. ASSUME NEW w \in Waiters, WaitFinish(w) PROVE NoLostWaiter'
  <2>1. \A u \in Waiters : wait'[u].stage # "blocked"
    BY Z3T(60), <1>0, <1>23, WokenFacts DEF WaitFinish, NotWaiting
  <2> QED BY ZenonT(60), <1>2, <2>1
<1>24. ASSUME NEW w \in Waiters, SpuriousWakeup(w) PROVE NoLostWaiter'
  <2>1. wait' = [wait EXCEPT ![w] = [wait[w] EXCEPT !.stage = "ready"]]
        /\ wait[w].stage = "blocked"
    BY <1>24 DEF SpuriousWakeup
  <2>2. [wait[w] EXCEPT !.stage = "ready"].stage = "ready"
    BY <1>0 DEF Waits
  <2>3. \A u \in Waiters : wait'[u].stage = "blocked" => wait'[u] = wait[u]
    BY <1>0, <2>1, <2>2
  <2>4. NotifyDue => NotifyDue'
    BY <1>0, <1>24, <2>1 DEF NotifyDue, SpuriousWakeup
  <2>5. NothingNews
    BY <1>3, <1>24 DEF SpuriousWakeup
  <2> QED BY ZenonT(60), <2>3, <2>4, <2>5, QuietStep
<1> QED
  BY ZenonT(60), <1>6, <1>7, <1>8, <1>9, <1>10, <1>12, <1>13, <1>14, <1>15, <1>16, <1>17, <1>18,
     <1>19, <1>21, <1>22, <1>23, <1>24 DEF Next

(* waitpid and waitpid_for lose no wakeup: when a sleeping waiter could    *)
(* return, the exit, stop, continue, reap or wait that made it so has its  *)
(* notify_all still to come.                                               *)
THEOREM WaitersAreNotForgotten == Spec => []NoLostWaiter
<1>1. Init => NoLostWaiter
  BY Z3T(60) DEF Init, NoLostWaiter, NotWaiting
<1>2. NoLostWaiter /\ UNCHANGED vars => NoLostWaiter'
  <2> SUFFICES ASSUME NoLostWaiter, UNCHANGED vars PROVE NoLostWaiter'
    OBVIOUS
  <2>1. UNCHANGED <<status, ppid, pgid, events, wait, tail, waking, reaper>>
    BY Z3T(60) DEF vars, table, links
  <2>2. NotifyDue => NotifyDue'
    BY <2>1 DEF NotifyDue
  <2> QED BY ZenonT(60), <2>1, <2>2, ReturnsNow, ReturnsNext DEF NoLostWaiter
<1> QED BY <1>1, <1>2, TypeCorrect, BookkeepingAlways, WakeupStep, PTL DEF Spec

==============================================================================
