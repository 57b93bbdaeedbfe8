----------------------------- MODULE ProcessTable -----------------------------
(***************************************************************************)
(* The kernel's process table (crates/kernel/src/process_table.rs): exit,  *)
(* reparenting, stop and continue, signal masks, waitpid, process groups,  *)
(* terminate_all and the zombie reaper thread.                             *)
(*                                                                         *)
(* A step is a stretch of code under the table's mutex (or the reaper's).  *)
(* What a call does after it has let the mutex go - schedule the zombie,   *)
(* deliver signals, run the exit callback, notify the waiters - is a later *)
(* step of the same call, and other calls may run in between.  An exit     *)
(* happens once per pid and pids are not reused, so the rest of an exit is *)
(* kept per pid; the rest of a kill is kept per calling thread.            *)
(***************************************************************************)
EXTENDS Naturals, Sequences

CONSTANTS MaxPid,      \* bound: pids allocated in a behaviour
          MaxKills,    \* bound: calls of kill and mark_* in a behaviour
          Waiters,     \* threads in waitpid and waitpid_for
          Callers,     \* threads in kill, sigprocmask, mark_* and terminate_all
          Selectors,   \* how waiters select: "pid", "any", "child", "group"
          FlagSets,    \* the WaitPidFlags they pass
          Signals,     \* the signals callers send
          Masks,       \* the sets of signals passed to sigprocmask
          Movers,      \* pids that are moved to other groups and sessions
          Terminates   \* whether terminate_all is called

INIT_PID == 1
Pids     == 1..MaxPid
AllSignals == {"HUP", "CHLD", "CONT", "STOP", "TSTP", "TERM", "KILL"}
AllFlags   == {"WNOHANG", "WUNTRACED", "WCONTINUED"}

ASSUME ProcessConstants ==
  /\ MaxPid \in Nat \ {0} /\ MaxKills \in Nat
  /\ Selectors \subseteq {"pid", "any", "child", "group"}
  /\ FlagSets \subseteq SUBSET AllFlags
  /\ Signals \subseteq AllSignals
  /\ Masks \subseteq SUBSET AllSignals
  /\ Movers \subseteq Pids
  /\ Terminates \in BOOLEAN
  /\ Callers \cap Pids = {}

VARIABLES
  next_pid,
  status,           \* per pid; "absent" when not in entries
  ppid, pgid, sid,
  events,           \* pending_wait_events
  blocked_signals, pending_signals,
  deadlines,        \* pids in the reaper's deadlines; any of them may be due first
  terminating_all,
  spawn,            \* the register call in progress
  tail,             \* per pid: what mark_exited_inner has yet to do
  marks,            \* per pid and caller: mark_wait_event_inner calls still to make
  waking,           \* pids and callers that owe a notify_all for a mark
  caller,           \* per caller: whether it is in terminate_all
  kills,            \* number of kill and mark_* calls made
  reaper,           \* the reaper thread: the pid it took, or that it must notify
  wait,             \* per waiter: the wait in progress
  collected,        \* history: pids whose exit status a waiter was given
  abandoned         \* history: zombies left without a deadline by terminate_all

links   == <<ppid, pgid, sid>>
sigs    == <<blocked_signals, pending_signals>>
table   == <<status, links, events, sigs>>
history == <<collected, abandoned>>
vars    == <<next_pid, table, deadlines, terminating_all, spawn, tail, marks,
             waking, caller, kills, reaper, wait, history>>

Statuses == {"absent", "Running", "Stopped", "Exited"}
Actors   == Pids \cup Callers
Marks    == [pid : Pids, to : {"Running", "Stopped"}]
Spawns   == [stage : {"idle", "allocated", "looked"}, ppid : 0..MaxPid,
             pgid : 0..MaxPid, sid : 0..MaxPid]
Reapers  == [stage : {"idle", "holding", "notify"}, pid : Pids]
Waits    == [stage : {"idle", "blocked", "ready", "cancel"},
             selector : {"pid", "any", "child", "group"},
             who : 0..MaxPid, arg : 0..MaxPid, flags : SUBSET AllFlags]

NotSpawning == [stage |-> "idle", ppid |-> 0, pgid |-> 0, sid |-> 0]
ReaperIdle  == [stage |-> "idle", pid |-> INIT_PID]
NotWaiting  == [stage |-> "idle", selector |-> "any", who |-> 0, arg |-> 0,
                flags |-> {}]
Cancelling(c) == [stage |-> "cancel", selector |-> "any", who |-> 0, arg |-> c,
                  flags |-> {}]

TypeOK ==
  /\ next_pid \in 1..(MaxPid + 1)
  /\ status \in [Pids -> Statuses]
  /\ ppid \in [Pids -> 0..MaxPid]
  /\ pgid \in [Pids -> 0..MaxPid]
  /\ sid \in [Pids -> 0..MaxPid]
  /\ events \in [Pids -> Seq({"Stopped", "Continued"})]
  /\ blocked_signals \in [Pids -> SUBSET AllSignals]
  /\ pending_signals \in [Pids -> SUBSET AllSignals]
  /\ deadlines \subseteq Pids
  /\ terminating_all \in BOOLEAN
  /\ spawn \in Spawns
  /\ tail \in [Pids -> {"none", "schedule", "cancel", "deliver", "notify"}]
  /\ marks \in [Actors -> SUBSET Marks]
  /\ waking \subseteq Actors
  /\ kills \in 0..MaxKills
  /\ caller \in [Callers -> {"idle", "terminate"}]
  /\ reaper \in Reapers
  /\ wait \in [Waiters -> Waits]
  /\ collected \subseteq Pids
  /\ abandoned \subseteq Pids

Init ==
  /\ next_pid = 1
  /\ status = [p \in Pids |-> "absent"]
  /\ ppid = [p \in Pids |-> 0] /\ pgid = [p \in Pids |-> 0]
  /\ sid = [p \in Pids |-> 0]
  /\ events = [p \in Pids |-> <<>>]
  /\ blocked_signals = [p \in Pids |-> {}]
  /\ pending_signals = [p \in Pids |-> {}]
  /\ deadlines = {} /\ terminating_all = FALSE
  /\ spawn = NotSpawning
  /\ tail = [p \in Pids |-> "none"]
  /\ marks = [a \in Actors |-> {}]
  /\ waking = {} /\ kills = 0
  /\ caller = [c \in Callers |-> "idle"]
  /\ reaper = ReaperIdle
  /\ wait = [w \in Waiters |-> NotWaiting]
  /\ collected = {} /\ abandoned = {}

------------------------------------------------------------------------------
(* Helpers under the mutex.                                                *)

Registered(p) == status[p] # "absent"
Alive(p)      == p \in Pids /\ status[p] \in {"Running", "Stopped"}

\* signal_can_be_blocked
Blockable(s) == s \notin {"KILL", "STOP", "CONT"}
Queues(p, s) == Blockable(s) /\ s \in blocked_signals[p]

\* queue_or_schedule_signal: the signal s for the processes T is queued where it is
\* blocked; elsewhere it is delivered, which stops or continues the process
\* according to the status it has now.
Queue(pending, T, s) ==
  [p \in Pids |-> IF p \in T /\ Queues(p, s) THEN pending[p] \cup {s} ELSE pending[p]]
MarksOf(st, T, s) ==
  {[pid |-> p, to |-> "Stopped"] :
     p \in {q \in T : s \in {"STOP", "TSTP"} /\ ~Queues(q, s) /\ st[q] = "Running"}}
  \cup
  {[pid |-> p, to |-> "Running"] :
     p \in {q \in T : s = "CONT" /\ st[q] = "Stopped"}}

\* SIGCHLD goes to a parent that is running; one that is stopped is skipped.
Chld(q) == IF q \in Pids /\ status[q] = "Running" THEN {q} ELSE {}

\* notify_all on the waiters' condition variable.
Woken == [w \in Waiters |-> IF wait[w].stage = "blocked"
                            THEN [wait[w] EXCEPT !.stage = "ready"] ELSE wait[w]]

\* The record leaves entries.
Remove(p) ==
  /\ status' = [status EXCEPT ![p] = "absent"]
  /\ ppid' = [ppid EXCEPT ![p] = 0] /\ pgid' = [pgid EXCEPT ![p] = 0]
  /\ sid' = [sid EXCEPT ![p] = 0]
  /\ events' = [events EXCEPT ![p] = <<>>]
  /\ blocked_signals' = [blocked_signals EXCEPT ![p] = {}]
  /\ pending_signals' = [pending_signals EXCEPT ![p] = {}]

------------------------------------------------------------------------------
(* register: the caller has checked that the parent is a live process, if  *)
(* there is one; the parent's group and session are read under the mutex,  *)
(* the record is inserted under a second hold of it.                       *)

AllocatePid(parent) ==
  /\ spawn.stage = "idle" /\ next_pid \in Pids
  /\ parent = 0 \/ Alive(parent)
  /\ next_pid' = next_pid + 1
  /\ spawn' = [stage |-> "allocated", ppid |-> parent, pgid |-> 0, sid |-> 0]
  /\ UNCHANGED <<table, deadlines, terminating_all, tail, marks, waking, caller,
                 kills, reaper, wait, history>>

RegisterLook ==
  /\ spawn.stage = "allocated"
  /\ LET pid == next_pid - 1
         parent == spawn.ppid
         known == parent \in Pids /\ Registered(parent)
     IN spawn' = [spawn EXCEPT !.stage = "looked",
                    !.pgid = IF known THEN pgid[parent] ELSE pid,
                    !.sid = IF known THEN sid[parent] ELSE pid]
  /\ UNCHANGED <<next_pid, table, deadlines, terminating_all, tail, marks, waking,
                 caller, kills, reaper, wait, history>>

RegisterInsert ==
  /\ spawn.stage = "looked"
  /\ LET pid == next_pid - 1
     IN /\ status' = [status EXCEPT ![pid] = "Running"]
        /\ ppid' = [ppid EXCEPT ![pid] = spawn.ppid]
        /\ pgid' = [pgid EXCEPT ![pid] = spawn.pgid]
        /\ sid' = [sid EXCEPT ![pid] = spawn.sid]
  /\ spawn' = NotSpawning
  /\ UNCHANGED <<next_pid, events, sigs, deadlines, terminating_all, tail, marks,
                 waking, caller, kills, reaper, wait, history>>

------------------------------------------------------------------------------
(* mark_exited_inner, on the driver's exit callback or exit_process.       *)

\* reparent_target_pid
NewParent(p) == IF p # INIT_PID /\ Alive(INIT_PID) THEN INIT_PID ELSE 0

\* process_group_is_orphaned and has a stopped member, after the exit: st and par
\* are the statuses and the parents then.
OrphanedStopped(g, st, par) ==
  LET members == {q \in Pids : pgid[q] = g /\ st[q] \in {"Running", "Stopped"}}
      anchored(q) == /\ par[q] \notin {0, INIT_PID}
                     /\ st[par[q]] \in {"Running", "Stopped"}
                     /\ sid[par[q]] = sid[q]
                     /\ pgid[par[q]] # g
  IN /\ \A q \in members : ~anchored(q)
     /\ \E q \in members : st[q] = "Stopped"

MarkExited(p) ==
  /\ Alive(p)
  /\ LET children == {c \in Pids : Registered(c) /\ ppid[c] = p}
         st  == [status EXCEPT ![p] = "Exited"]
         par == [c \in Pids |-> IF c \in children THEN NewParent(p) ELSE ppid[c]]
         groups == {g \in {pgid[c] : c \in children \cup {p}} :
                      OrphanedStopped(g, st, par)}
         hup == {q \in Pids : pgid[q] \in groups /\ st[q] \in {"Running", "Stopped"}}
         chld == IF terminating_all THEN {} ELSE Chld(ppid[p])
     IN /\ status' = st
        /\ ppid' = par
        /\ pending_signals' =
             Queue(Queue(pending_signals, chld, "CHLD"), hup, "HUP")
        /\ marks' = [marks EXCEPT ![p] = MarksOf(st, hup, "CONT")]
  /\ tail' = [tail EXCEPT ![p] = IF terminating_all THEN "cancel" ELSE "schedule"]
  /\ abandoned' = IF terminating_all THEN abandoned \cup {p} ELSE abandoned
  /\ UNCHANGED <<next_pid, pgid, sid, events, blocked_signals, deadlines,
                 terminating_all, spawn, waking, caller, kills, reaper, wait,
                 collected>>

\* reaper.schedule or reaper.cancel.
ExitSchedule(p) ==
  /\ tail[p] \in {"schedule", "cancel"}
  /\ deadlines' = IF tail[p] = "schedule" THEN deadlines \cup {p} ELSE deadlines \ {p}
  /\ tail' = [tail EXCEPT ![p] = "deliver"]
  /\ UNCHANGED <<next_pid, table, terminating_all, spawn, marks, waking, caller,
                 kills, reaper, wait, history>>

\* All signals are delivered (Mark); on_process_exit runs.
ExitCallback(p) ==
  /\ tail[p] = "deliver" /\ marks[p] = {} /\ p \notin waking
  /\ tail' = [tail EXCEPT ![p] = "notify"]
  /\ UNCHANGED <<next_pid, table, deadlines, terminating_all, spawn, marks, waking,
                 caller, kills, reaper, wait, history>>

\* Mutant: the exit does not notify the waiters.
ExitNotifySilently(p) ==
  /\ tail[p] = "notify"
  /\ tail' = [tail EXCEPT ![p] = "none"]
  /\ UNCHANGED <<next_pid, table, deadlines, terminating_all, spawn, marks, waking,
                 caller, kills, reaper, wait, history>>

ExitNotify(p) ==
  /\ tail[p] = "notify"
  /\ tail' = [tail EXCEPT ![p] = "none"]
  /\ wait' = Woken
  /\ UNCHANGED <<next_pid, table, deadlines, terminating_all, spawn, marks, waking,
                 caller, kills, reaper, history>>

------------------------------------------------------------------------------
(* deliver_signals and mark_wait_event_inner: a delivered stop or continue *)
(* signal changes the status unless the process has exited or has the      *)
(* status already.                                                         *)

Mark(a) ==
  /\ a \notin waking
  /\ a \in Pids => tail[a] = "deliver"
  /\ \E m \in marks[a] :
       /\ marks' = [marks EXCEPT ![a] = @ \ {m}]
       /\ IF Alive(m.pid) /\ status[m.pid] # m.to
          THEN /\ status' = [status EXCEPT ![m.pid] = m.to]
               /\ events' = [events EXCEPT ![m.pid] =
                    Append(@, IF m.to = "Stopped" THEN "Stopped" ELSE "Continued")]
               /\ pending_signals' = Queue(pending_signals, Chld(ppid[m.pid]), "CHLD")
               /\ waking' = waking \cup {a}
          ELSE UNCHANGED <<status, events, pending_signals, waking>>
  /\ UNCHANGED <<next_pid, links, blocked_signals, deadlines, terminating_all, spawn,
                 tail, caller, kills, reaper, wait, history>>

MarkNotify(a) ==
  /\ a \in waking
  /\ waking' = waking \ {a}
  /\ wait' = Woken
  /\ UNCHANGED <<next_pid, table, deadlines, terminating_all, spawn, tail, marks,
                 caller, kills, reaper, history>>

CallerIdle(c) == caller[c] = "idle" /\ marks[c] = {} /\ c \notin waking

\* kill(pid, s): nothing happens to a process that has exited.
\* kill(-pgid, s): goes to every member, those that have exited included.
Kill(c, s) ==
  /\ CallerIdle(c) /\ kills < MaxKills
  /\ \E T \in {{p} : p \in {q \in Pids : Alive(q)}}
              \cup {{p \in Pids : Registered(p) /\ pgid[p] = g} : g \in Pids} :
       /\ T # {}
       /\ pending_signals' = Queue(pending_signals, T, s)
       /\ marks' = [marks EXCEPT ![c] = MarksOf(status, T, s)]
  /\ kills' = kills + 1
  /\ UNCHANGED <<next_pid, status, links, events, blocked_signals, deadlines,
                 terminating_all, spawn, tail, waking, caller, reaper, wait, history>>

\* mark_stopped and mark_continued.
MarkDirect(c) ==
  /\ CallerIdle(c) /\ kills < MaxKills
  /\ \E m \in Marks : marks' = [marks EXCEPT ![c] = {m}]
  /\ kills' = kills + 1
  /\ UNCHANGED <<next_pid, table, deadlines, terminating_all, spawn, tail, waking,
                 caller, reaper, wait, history>>

\* Mutant: the signals that were pending stay pending.
SigProcMaskKeeps(c, p, set) ==
  /\ CallerIdle(c) /\ Registered(p)
  /\ \E mask \in {blocked_signals[p] \cup set, blocked_signals[p] \ set, set} :
       blocked_signals' = [blocked_signals EXCEPT ![p] = mask]
  /\ UNCHANGED <<next_pid, status, links, events, pending_signals, deadlines,
                 terminating_all, spawn, tail, marks, waking, caller, kills, reaper,
                 wait, history>>

\* sigprocmask(pid, how, set): pending signals that are no longer blocked are
\* delivered.
SigProcMask(c, p, set) ==
  /\ CallerIdle(c) /\ Registered(p)
  /\ \E mask \in {blocked_signals[p] \cup set, blocked_signals[p] \ set, set} :
       /\ blocked_signals' = [blocked_signals EXCEPT ![p] = mask]
       /\ pending_signals' = [pending_signals EXCEPT ![p] = @ \cap mask]
       /\ marks' = [marks EXCEPT ![c] =
            IF "TSTP" \in pending_signals[p] \ mask /\ status[p] = "Running"
            THEN {[pid |-> p, to |-> "Stopped"]} ELSE {}]
  /\ UNCHANGED <<next_pid, status, links, events, deadlines, terminating_all, spawn,
                 tail, waking, caller, kills, reaper, wait, history>>

\* setpgid(pid, pgid): a group of its own, or one with a live member in the same
\* session (the first live member of the group decides).  Nobody is notified.
SetPgid(p, g) ==
  /\ p \in Movers /\ Registered(p)
  /\ \/ g = p
     \/ \E q \in Pids :
          /\ pgid[q] = g /\ Alive(q) /\ sid[q] = sid[p]
          /\ \A r \in Pids : pgid[r] = g /\ Alive(r) => q <= r
  /\ pgid' = [pgid EXCEPT ![p] = g]
  /\ UNCHANGED <<next_pid, status, ppid, sid, events, sigs, deadlines,
                 terminating_all, spawn, tail, marks, waking, caller, kills, reaper,
                 wait, history>>

SetSid(p) ==
  /\ p \in Movers /\ Registered(p) /\ pgid[p] # p
  /\ sid' = [sid EXCEPT ![p] = p]
  /\ pgid' = [pgid EXCEPT ![p] = p]
  /\ UNCHANGED <<next_pid, status, ppid, events, sigs, deadlines, terminating_all,
                 spawn, tail, marks, waking, caller, kills, reaper, wait, history>>

\* terminate_all forgets the zombies' deadlines, then kills the running processes
\* and waits for a bounded time; their drivers report the exits (MarkExited).
TerminateAll(c) ==
  /\ Terminates /\ CallerIdle(c)
  /\ terminating_all' = TRUE
  /\ abandoned' = abandoned \cup deadlines
  /\ deadlines' = {}
  /\ caller' = [caller EXCEPT ![c] = "terminate"]
  /\ UNCHANGED <<next_pid, table, spawn, tail, marks, waking, kills, reaper, wait,
                 collected>>

TerminateEnd(c) ==
  /\ caller[c] = "terminate"
  /\ terminating_all' = FALSE
  /\ caller' = [caller EXCEPT ![c] = "idle"]
  /\ UNCHANGED <<next_pid, table, deadlines, spawn, tail, marks, waking, kills,
                 reaper, wait, history>>

------------------------------------------------------------------------------
(* The zombie reaper thread.                                               *)

\* has_living_parent
LivingParent(p) == ppid[p] # 0 /\ Alive(ppid[p])

\* take_next_due_pid
ReaperTake(p) ==
  /\ reaper.stage = "idle" /\ p \in deadlines
  /\ deadlines' = deadlines \ {p}
  /\ reaper' = [stage |-> "holding", pid |-> p]
  /\ UNCHANGED <<next_pid, table, terminating_all, spawn, tail, marks, waking,
                 caller, kills, wait, history>>

\* Mutant: an exited process is reaped although its parent may still wait for it.
ReaperAlwaysReaps ==
  /\ reaper.stage = "holding"
  /\ IF status[reaper.pid] = "Exited" THEN Remove(reaper.pid) ELSE UNCHANGED table
  /\ reaper' = [reaper EXCEPT !.stage = "notify"]
  /\ UNCHANGED <<next_pid, deadlines, terminating_all, spawn, tail, marks, waking,
                 caller, kills, wait, history>>

\* Mutant: a process with a living parent is not put off but forgotten.
ReaperForgets ==
  /\ reaper.stage = "holding"
  /\ IF status[reaper.pid] = "Exited" /\ ~LivingParent(reaper.pid)
     THEN Remove(reaper.pid) ELSE UNCHANGED table
  /\ reaper' = [reaper EXCEPT !.stage = "notify"]
  /\ UNCHANGED <<next_pid, deadlines, terminating_all, spawn, tail, marks, waking,
                 caller, kills, wait, history>>

\* Under the mutex: reap, put off, or ignore a process that is gone.
ReaperDecide ==
  /\ reaper.stage = "holding"
  /\ LET p == reaper.pid
     IN IF status[p] = "Exited" /\ ~LivingParent(p)
        THEN Remove(p) /\ UNCHANGED deadlines
        ELSE /\ deadlines' = IF status[p] = "Exited" THEN deadlines \cup {p}
                             ELSE deadlines
             /\ UNCHANGED table
  /\ reaper' = [reaper EXCEPT !.stage = "notify"]
  /\ UNCHANGED <<next_pid, terminating_all, spawn, tail, marks, waking, caller,
                 kills, wait, history>>

ReaperNotify ==
  /\ reaper.stage = "notify"
  /\ reaper' = ReaperIdle
  /\ wait' = Woken
  /\ UNCHANGED <<next_pid, table, deadlines, terminating_all, spawn, tail, marks,
                 waking, caller, kills, history>>

------------------------------------------------------------------------------
(* waitpid (selector "pid") and waitpid_for: one pass of the loop.  r is   *)
(* the request: who waits, for what, with which flags.                     *)

\* resolve_wait_selector and matching_child_pids
Candidates(r) ==
  IF r.selector = "pid" THEN {c \in Pids : c = r.arg /\ Registered(c)}
  ELSE IF r.who \notin Pids \/ ~Registered(r.who) THEN {}
  ELSE {c \in Pids :
          /\ Registered(c) /\ ppid[c] = r.who
          /\ r.selector = "child" => c = r.arg
          /\ r.selector = "group" =>
               pgid[c] = IF r.arg = 0 THEN pgid[r.who] ELSE r.arg}

\* is_waitable_event; waitpid looks at exits only.
Waits4(r, e) == /\ r.selector # "pid"
                /\ e = "Stopped" => "WUNTRACED" \in r.flags
                /\ e = "Continued" => "WCONTINUED" \in r.flags
EventsFor(r, c) == {i \in DOMAIN events[c] : Waits4(r, events[c][i])}
Waitable(r, c)  == EventsFor(r, c) # {} \/ status[c] = "Exited"
WaitableFor(r)  == {c \in Candidates(r) : Waitable(r, c)}

\* The call can return: ESRCH, ECHILD, an event or an exit status.
CanReturn(r) == Candidates(r) = {} \/ WaitableFor(r) # {}

TakeEvent(w, c, i) ==
  /\ events' = [events EXCEPT ![c] =
       SubSeq(@, 1, i - 1) \o SubSeq(@, i + 1, Len(@))]
  /\ wait' = [wait EXCEPT ![w] = NotWaiting]
  /\ UNCHANGED <<status, links, sigs, collected>>

\* The exit status is returned and the record removed; the deadline is cancelled
\* after the mutex is released.
Collect(w, c) ==
  /\ Remove(c)
  /\ collected' = collected \cup {c}
  /\ wait' = [wait EXCEPT ![w] = Cancelling(c)]

\* The first child, in the order of the pids, that has something to report.
WaitPass(w, r) ==
  /\ \/ /\ Candidates(r) = {}
        /\ wait' = [wait EXCEPT ![w] = NotWaiting]
        /\ UNCHANGED <<table, collected>>
     \/ \E c \in WaitableFor(r) :
          /\ \A d \in WaitableFor(r) : c <= d
          /\ \/ \E i \in EventsFor(r, c) :
                  /\ \A j \in EventsFor(r, c) : i <= j
                  /\ TakeEvent(w, c, i)
             \/ EventsFor(r, c) = {} /\ Collect(w, c)
     \/ /\ ~CanReturn(r)
        /\ wait' = [wait EXCEPT ![w] =
             IF "WNOHANG" \in r.flags THEN NotWaiting
             ELSE [r EXCEPT !.stage = "blocked"]]
        /\ UNCHANGED <<table, collected>>
  /\ UNCHANGED <<next_pid, deadlines, terminating_all, spawn, tail, marks, waking,
                 caller, kills, reaper, abandoned>>

\* The caller of waitpid_for is a live process; a group is never -1, which is "any".
WaitStart(w) ==
  /\ wait[w].stage = "idle"
  /\ \E s \in Selectors, who \in Pids, arg \in 0..MaxPid, flags \in FlagSets :
       /\ s # "pid" => Alive(who)
       /\ s = "pid" => who = 1 /\ arg # 0 /\ flags = {}
       /\ s = "any" => arg = 0
       /\ s = "child" => arg # 0
       /\ s = "group" => arg # 1
       /\ WaitPass(w, [stage |-> "ready", selector |-> s,
                       who |-> IF s = "pid" THEN 0 ELSE who,
                       arg |-> arg, flags |-> flags])

\* Mutant: a waiter whose process is gone does not notice.
WaitResumeMissesGone(w) ==
  wait[w].stage = "ready" /\ Candidates(wait[w]) # {} /\ WaitPass(w, wait[w])

WaitResume(w) == wait[w].stage = "ready" /\ WaitPass(w, wait[w])

\* reaper.cancel, notify_all and return.
WaitFinish(w) ==
  /\ wait[w].stage = "cancel"
  /\ deadlines' = deadlines \ {wait[w].arg}
  /\ wait' = [Woken EXCEPT ![w] = NotWaiting]
  /\ UNCHANGED <<next_pid, table, terminating_all, spawn, tail, marks, waking,
                 caller, kills, reaper, history>>

SpuriousWakeup(w) ==
  /\ wait[w].stage = "blocked"
  /\ wait' = [wait EXCEPT ![w].stage = "ready"]
  /\ UNCHANGED <<next_pid, table, deadlines, terminating_all, spawn, tail, marks,
                 waking, caller, kills, reaper, history>>

------------------------------------------------------------------------------
ExitStep(p) == ExitSchedule(p) \/ ExitCallback(p) \/ ExitNotify(p)

Next ==
  \/ \E q \in 0..MaxPid : AllocatePid(q)
  \/ RegisterLook \/ RegisterInsert
  \/ \E p \in Pids : \/ MarkExited(p) \/ ExitSchedule(p) \/ ExitCallback(p)
                     \/ ExitNotify(p) \/ SetSid(p) \/ ReaperTake(p)
                     \/ \E g \in Pids : SetPgid(p, g)
  \/ \E a \in Actors : Mark(a) \/ MarkNotify(a)
  \/ \E c \in Callers : \/ \E s \in Signals : Kill(c, s)
                        \/ \E p \in Pids, set \in Masks : SigProcMask(c, p, set)
                        \/ MarkDirect(c) \/ TerminateAll(c) \/ TerminateEnd(c)
  \/ ReaperDecide \/ ReaperNotify
  \/ \E w \in Waiters : \/ WaitStart(w) \/ WaitResume(w) \/ WaitFinish(w)
                        \/ SpuriousWakeup(w)

\* Calls in progress go on.  The earliest deadline is due first and each is put off
\* by the same time-to-live, so no deadline is passed over for ever.
Fairness ==
  /\ \A p \in Pids : WF_vars(ExitStep(p)) /\ SF_vars(ReaperTake(p))
  /\ \A a \in Actors : WF_vars(Mark(a)) /\ WF_vars(MarkNotify(a))
  /\ WF_vars(ReaperDecide) /\ WF_vars(ReaperNotify)
  /\ \A w \in Waiters : WF_vars(WaitResume(w)) /\ WF_vars(WaitFinish(w))

Spec     == Init /\ [][Next]_vars
FairSpec == Spec /\ Fairness

------------------------------------------------------------------------------
(* Somebody is about to notify the waiters' condition variable.            *)
NotifyDue ==
  \/ \E p \in Pids : tail[p] # "none"
  \/ waking # {}
  \/ reaper.stage = "notify"
  \/ \E w \in Waiters : wait[w].stage = "cancel"

(* No lost wakeup in waitpid and waitpid_for: if a sleeping waiter could   *)
(* return, the call that made it so has its notify_all still to come.      *)
(* (setpgid and setsid never notify, so waits for a group are left out.)   *)
NoLostWaiter ==
  \A w \in Waiters :
    wait[w].stage = "blocked" /\ wait[w].selector # "group" /\ CanReturn(wait[w])
      => NotifyDue

(* A process that has exited stays in the table, with a deadline or with a *)
(* thread about to give it one, until it is waited for or reaped: the race *)
(* of reaper.schedule with reaper.cancel strands no zombie.  Only          *)
(* terminate_all leaves zombies without a deadline.                        *)
ZombieHasDeadline ==
  \A p \in Pids : status[p] = "Exited" =>
    \/ p \in deadlines
    \/ tail[p] = "schedule"
    \/ reaper.stage = "holding" /\ reaper.pid = p
    \/ p \in abandoned

(* A signal is pending only while it is blocked.                           *)
PendingAreBlocked ==
  \A p \in Pids : pending_signals[p] \subseteq {s \in blocked_signals[p] : Blockable(s)}

(* The exit status of a process whose parent lives is not thrown away:     *)
(* such a process leaves the table only when a waiter collects it, and a   *)
(* status is collected once.                                               *)
ExitStatusIsKept ==
  [][\A p \in Pids : status[p] = "Exited" /\ status'[p] # "Exited" =>
       /\ status'[p] = "absent"
       /\ p \notin collected
       /\ LivingParent(p) => p \in collected']_vars

(* An orphan that has exited is reaped, and a waiter for a pid returns     *)
(* once the process has exited.                                            *)
ZombiesGo ==
  \A p \in Pids :
    (status[p] = "Exited" /\ ppid[p] = 0) ~> (status[p] = "absent" \/ p \in abandoned)
WaitersReturn ==
  \A w \in Waiters :
    (wait[w].stage = "blocked" /\ wait[w].selector = "pid"
       /\ status[wait[w].arg] \in {"Exited", "absent"}) ~> (wait[w].stage = "idle")


(* Exited processes leave the table and waits return: ZombiesGo and        *)
(* WaitersReturn (the reaper thread, waitpid).                             *)
ExitsAreCollected == ZombiesGo /\ WaitersReturn
==============================================================================
