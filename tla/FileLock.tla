------------------------------ MODULE FileLock ------------------------------
(***************************************************************************)
(* The advisory lock manager of crates/kernel/src/fd_table.rs.             *)
(*                                                                         *)
(* A lock belongs to an open file description, named by its id, and covers *)
(* a lock target (an inode).  Each critical section of the manager's mutex *)
(* is one action.  A call that cannot be granted waits on the one condition*)
(* variable all targets share and tries again after a notify_all; the      *)
(* notify follows the critical section that releases a lock at once and is *)
(* part of that action, which only brings a wakeup forward.                *)
(***************************************************************************)
EXTENDS FiniteSets

CONSTANTS
    Owners,    \* ids of file descriptions
    Targets,   \* FileLockTarget: the inodes that can be locked
    Callers,   \* threads inside fd_flock at the same time
    NONE

ASSUME NoOwnerIsNone == NONE \notin Owners

VARIABLES
    locks,     \* FileLockState.entries; a missing entry is an empty one
    flocks     \* what each caller of FileLockManager::apply is doing

lockVars == <<locks, flocks>>

-----------------------------------------------------------------------------
FileLockEntry == [shared : SUBSET Owners, exclusive : Owners \cup {NONE}]

Unlocked == [shared |-> {}, exclusive |-> NONE]

FlockIdle == [stage |-> "idle"]

FlockCalls ==
    [stage : {"ready", "waiting"}, owner : Owners, target : Targets,
     mode : {"shared", "exclusive", "unlock"}, nonblocking : BOOLEAN]

LockTypeOK ==
    /\ locks \in [Targets -> FileLockEntry]
    /\ flocks \in [Callers -> {FlockIdle} \cup FlockCalls]

LockInit ==
    /\ locks = [t \in Targets |-> Unlocked]
    /\ flocks = [c \in Callers |-> FlockIdle]

-----------------------------------------------------------------------------
\* A mutant of CanGrant: an exclusive request overlooks the shared holders.
CanGrantOverShared(entry, owner, mode) ==
    entry.exclusive \in {NONE, owner}

CanGrant(entry, owner, mode) ==
    /\ entry.exclusive \in {NONE, owner}
    /\ mode = "exclusive" => entry.shared \subseteq {owner}

Grant(entry, owner, mode) ==
    IF mode = "shared"
    THEN [shared |-> entry.shared \cup {owner}, exclusive |-> NONE]
    ELSE [shared |-> entry.shared \ {owner}, exclusive |-> owner]

Holds(owner, entry) == owner \in entry.shared \/ owner = entry.exclusive

Released(entry, owner) ==
    [shared    |-> entry.shared \ {owner},
     exclusive |-> IF entry.exclusive = owner THEN NONE ELSE entry.exclusive]

\* Everyone who sleeps on the condition variable looks again.
NotifyAll(calls) ==
    [c \in Callers |-> IF calls[c].stage = "waiting"
                       THEN [calls[c] EXCEPT !.stage = "ready"] ELSE calls[c]]

\* A mutant of ReleaseOwner: the lock is dropped and nobody is told.
ReleaseOwnerSilently(owner, calls) ==
    /\ locks' = [t \in Targets |-> Released(locks[t], owner)]
    /\ flocks' = calls

\* release_owner.  calls is what the callers do once this one has gone on.
ReleaseOwner(owner, calls) ==
    /\ locks' = [t \in Targets |-> Released(locks[t], owner)]
    /\ flocks' = IF \E t \in Targets : Holds(owner, locks[t])
                 THEN NotifyAll(calls) ELSE calls

-----------------------------------------------------------------------------
\* A caller enters apply for the description that it found behind its fd.
Flock(c, owner, target, mode, nonblocking) ==
    /\ flocks[c] = FlockIdle
    /\ flocks' = [flocks EXCEPT ![c] =
           [stage |-> "ready", owner |-> owner, target |-> target,
            mode |-> mode, nonblocking |-> nonblocking]]
    /\ UNCHANGED locks

\* One pass of the loop of acquire: grant, fail at once, or go to sleep.
Acquire(c) ==
    LET call  == flocks[c]
        entry == locks[call.target]
    IN  /\ call.stage = "ready"
        /\ call.mode # "unlock"
        /\ \/ /\ CanGrant(entry, call.owner, call.mode)
              /\ locks' = [locks EXCEPT ![call.target] =
                               Grant(entry, call.owner, call.mode)]
              /\ flocks' = [flocks EXCEPT ![c] = FlockIdle]
           \/ /\ ~CanGrant(entry, call.owner, call.mode)
              /\ flocks' = [flocks EXCEPT ![c] =
                     IF call.nonblocking THEN FlockIdle
                     ELSE [call EXCEPT !.stage = "waiting"]]
              /\ UNCHANGED locks

Unlock(c) ==
    /\ flocks[c].stage = "ready"
    /\ flocks[c].mode = "unlock"
    /\ ReleaseOwner(flocks[c].owner, [flocks EXCEPT ![c] = FlockIdle])

\* The last descriptor of a description was closed.
Release(owner) == ReleaseOwner(owner, flocks)

LockNext ==
    \/ \E c \in Callers :
          \/ \E o \in Owners, t \in Targets, nb \in BOOLEAN,
                m \in {"shared", "exclusive", "unlock"} : Flock(c, o, t, m, nb)
          \/ Acquire(c)
          \/ Unlock(c)
    \/ \E o \in Owners : Release(o)

\* Threads inside fd_flock that are not asleep keep running.
LockFairness == \A c \in Callers : WF_lockVars(Acquire(c)) /\ WF_lockVars(Unlock(c))

LockSpec == LockInit /\ [][LockNext]_lockVars /\ LockFairness

-----------------------------------------------------------------------------
(***************************************************************************)
(* Properties.                                                             *)
(***************************************************************************)
\* An exclusively locked inode has no other holder: can_grant and grant
\* together never let a reader in beside a writer, through any sequence of
\* upgrades, downgrades and releases.
LockExclusion ==
    \A t \in Targets : locks[t].exclusive # NONE => locks[t].shared = {}

\* Nobody sleeps in acquire for an exclusive lock that it could have: each
\* step that makes room for a writer wakes the sleepers (release_owner).
NoLostWriter ==
    \A c \in Callers :
        flocks[c].stage = "waiting" /\ flocks[c].mode = "exclusive"
            => ~CanGrant(locks[flocks[c].target], flocks[c].owner, "exclusive")

\* The same for a shared lock.  A holder that turns its exclusive lock into a
\* shared one makes room for readers, and grant wakes nobody.
NoLostReader ==
    \A c \in Callers :
        flocks[c].stage = "waiting" /\ flocks[c].mode = "shared"
            => ~CanGrant(locks[flocks[c].target], flocks[c].owner, "shared")

\* A call for a lock that stays free from some point on returns: the sleeper
\* was woken and the loop of acquire finds the lock.
FreeLockIsTaken ==
    \A c \in Callers, t \in Targets :
        <>[](locks[t] = Unlocked)
            => []<>(flocks[c].stage = "idle" \/ flocks[c].target # t)
=============================================================================
