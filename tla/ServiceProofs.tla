---------------------------- MODULE ServiceProofs ----------------------------
(***************************************************************************)
(* Proofs about three services that keep a small table each: FileLock      *)
(* (flock on open files), ResponseTracker (the answers to the sidecar's    *)
(* requests) and CronManager (the jobs of an agent).  They hold for any    *)
(* number of descriptions, inodes and callers, any set of request ids and  *)
(* any cap, any ids of jobs and any number of registrations.               *)
(***************************************************************************)
EXTENDS FileLock, ResponseTracker, CronManager, FiniteSetTheorems, TLAPS

\* Most leaves are first-order; the ones that need arithmetic or sequences say SMT.
USE Zenon

-----------------------------------------------------------------------------
(* FileLock: a writer is alone, and is woken when the lock it wants is free. *)

(***************************************************************************)
(* What the helpers do to one entry and to the callers.                    *)
(***************************************************************************)
\* grant keeps an entry well-formed and leaves the owner as a holder that
\* excludes the others if it is a writer.
LEMMA GrantFacts ==
    ASSUME NEW entry \in FileLockEntry, NEW o \in Owners,
           NEW m \in {"shared", "exclusive"}, CanGrant(entry, o, m)
    PROVE  /\ Grant(entry, o, m) \in FileLockEntry
           /\ Grant(entry, o, m).exclusive # NONE => Grant(entry, o, m).shared = {}
  BY NoOwnerIsNone DEF FileLockEntry, CanGrant, Grant

\* Releasing keeps an entry well-formed, adds no holder, and is the identity
\* for an owner that holds nothing.
LEMMA ReleasedFacts ==
    ASSUME NEW entry \in FileLockEntry, NEW o \in Owners
    PROVE  /\ Released(entry, o) \in FileLockEntry
           /\ Released(entry, o).exclusive # NONE
                 => Released(entry, o).exclusive = entry.exclusive
           /\ Released(entry, o).shared \subseteq entry.shared
           /\ ~Holds(o, entry) => Released(entry, o) = entry
  BY DEF FileLockEntry, Released, Holds

\* A grant to one caller never makes room for a writer that waits: can_grant
\* was false for it before and is false after.
LEMMA GrantKeepsWriterOut ==
    ASSUME NEW entry \in FileLockEntry, NEW o \in Owners, NEW w \in Owners,
           NEW m \in {"shared", "exclusive"}, CanGrant(entry, o, m),
           ~CanGrant(entry, w, "exclusive")
    PROVE  ~CanGrant(Grant(entry, o, m), w, "exclusive")
  BY NoOwnerIsNone DEF FileLockEntry, CanGrant, Grant

\* After notify_all nobody waits.
LEMMA NotifyAllFacts ==
    ASSUME NEW calls \in [Callers -> {FlockIdle} \cup FlockCalls]
    PROVE  /\ NotifyAll(calls) \in [Callers -> {FlockIdle} \cup FlockCalls]
           /\ \A c \in Callers : NotifyAll(calls)[c].stage # "waiting"
  BY SMT DEF NotifyAll, FlockIdle, FlockCalls

-----------------------------------------------------------------------------
\* The invariant the proofs use.
LockInv == LockTypeOK /\ LockExclusion /\ NoLostWriter

\* No caller waits in the initial state, and nothing is locked.
LEMMA LockInitInv == LockInit => LockInv
  BY SMT, NoOwnerIsNone DEF LockInit, LockInv, LockTypeOK, LockExclusion, NoLostWriter,
     Unlocked, FileLockEntry, FlockIdle, FlockCalls

\* A caller that enters apply is ready, not asleep, and changes no lock.
LEMMA FlockKeepsInv ==
    ASSUME LockInv, NEW c \in Callers, NEW o \in Owners, NEW t \in Targets,
           NEW m \in {"shared", "exclusive", "unlock"}, NEW nb \in BOOLEAN,
           Flock(c, o, t, m, nb)
    PROVE  LockInv'
  <1> DEFINE call == [stage |-> "ready", owner |-> o, target |-> t,
                      mode |-> m, nonblocking |-> nb]
  <1>1. call \in FlockCalls /\ call.stage = "ready"
    BY DEF FlockCalls
  <1>2. flocks' = [flocks EXCEPT ![c] = call] /\ locks' = locks
    BY DEF Flock
  <1> HIDE DEF call
  <1>3. LockTypeOK'
    BY <1>1, <1>2 DEF LockInv, LockTypeOK
  <1>4. LockExclusion'
    BY <1>2 DEF LockInv, LockExclusion
  <1>5. NoLostWriter'
    BY <1>1, <1>2 DEF LockInv, LockTypeOK, NoLostWriter
  <1> QED
    BY <1>3, <1>4, <1>5 DEF LockInv

\* One pass of the loop of acquire: a grant keeps the waiting writers out, and
\* a caller goes to sleep only after it saw that it cannot have the lock.
LEMMA AcquireKeepsInv ==
    ASSUME LockInv, NEW c \in Callers, Acquire(c)
    PROVE  LockInv'
  <1> DEFINE call == flocks[c]
             entry == locks[call.target]
  <1>1. /\ call \in FlockCalls /\ call.stage = "ready"
        /\ call.owner \in Owners /\ call.target \in Targets
        /\ call.mode \in {"shared", "exclusive"}
    BY SMT DEF Acquire, LockInv, LockTypeOK, FlockIdle, FlockCalls
  <1>2. entry \in FileLockEntry
    BY <1>1 DEF LockInv, LockTypeOK
  <1>3. CASE CanGrant(entry, call.owner, call.mode)
    <2> DEFINE granted == Grant(entry, call.owner, call.mode)
    <2>1. /\ locks' = [locks EXCEPT ![call.target] = granted]
          /\ flocks' = [flocks EXCEPT ![c] = FlockIdle]
      BY <1>3, Zenon DEF Acquire
    <2>2. /\ granted \in FileLockEntry
          /\ granted.exclusive # NONE => granted.shared = {}
      BY <1>1, <1>2, <1>3, GrantFacts
    <2>3. \A w \in Owners : ~CanGrant(entry, w, "exclusive")
                               => ~CanGrant(granted, w, "exclusive")
      BY <1>1, <1>2, <1>3, GrantKeepsWriterOut
    <2> HIDE DEF granted
    <2>4. LockTypeOK'
      BY <1>1, <2>1, <2>2 DEF LockInv, LockTypeOK
    <2>5. LockExclusion'
      BY <1>1, <2>1, <2>2 DEF LockInv, LockTypeOK, LockExclusion
    <2>6. NoLostWriter'
      <3> SUFFICES ASSUME NEW d \in Callers, flocks'[d].stage = "waiting",
                          flocks'[d].mode = "exclusive"
                   PROVE  ~CanGrant(locks'[flocks'[d].target], flocks'[d].owner,
                                    "exclusive")
        BY DEF NoLostWriter, CanGrant
      <3>1. d # c /\ flocks'[d] = flocks[d]
        BY <2>1 DEF LockInv, LockTypeOK, FlockIdle
      <3>2. /\ flocks[d].owner \in Owners /\ flocks[d].target \in Targets
            /\ ~CanGrant(locks[flocks[d].target], flocks[d].owner, "exclusive")
        BY SMT, <3>1 DEF LockInv, LockTypeOK, NoLostWriter, FlockIdle, FlockCalls
      <3>3. CASE flocks[d].target = call.target
        BY <1>1, <2>1, <2>3, <3>1, <3>2, <3>3 DEF LockInv, LockTypeOK
      <3>4. CASE flocks[d].target # call.target
        BY <2>1, <3>1, <3>2, <3>4 DEF LockInv, LockTypeOK
      <3> QED
        BY <3>3, <3>4
    <2> QED
      BY <2>4, <2>5, <2>6 DEF LockInv
  <1>4. CASE ~CanGrant(entry, call.owner, call.mode)
    <2> DEFINE next == IF call.nonblocking THEN FlockIdle
                       ELSE [call EXCEPT !.stage = "waiting"]
    <2>1. flocks' = [flocks EXCEPT ![c] = next] /\ locks' = locks
      BY <1>4, Zenon DEF Acquire
    <2>2. /\ next \in {FlockIdle} \cup FlockCalls
          /\ next.stage = "waiting" => /\ next.owner = call.owner
                                       /\ next.target = call.target
                                       /\ next.mode = call.mode
      BY <1>1 DEF FlockCalls, FlockIdle
    <2> HIDE DEF next
    <2>3. LockTypeOK'
      BY <2>1, <2>2 DEF LockInv, LockTypeOK
    <2>4. LockExclusion'
      BY <2>1 DEF LockInv, LockExclusion
    <2>5. NoLostWriter'
      BY <1>4, <2>1, <2>2 DEF LockInv, LockTypeOK, NoLostWriter
    <2> QED
      BY <2>3, <2>4, <2>5 DEF LockInv
  <1> QED
    BY <1>3, <1>4

\* release_owner: if the owner held anything everybody is woken, otherwise no
\* lock changes and the sleepers sleep on for a reason.
LEMMA ReleaseOwnerKeepsInv ==
    ASSUME LockInv, NEW o \in Owners,
           NEW calls \in [Callers -> {FlockIdle} \cup FlockCalls],
           \A c \in Callers : calls[c].stage = "waiting" => calls[c] = flocks[c],
           ReleaseOwner(o, calls)
    PROVE  LockInv'
  <1>1. locks' = [t \in Targets |-> Released(locks[t], o)]
    BY DEF ReleaseOwner
  <1>2. \A t \in Targets : locks[t] \in FileLockEntry
    BY DEF LockInv, LockTypeOK
  <1>3. LockTypeOK'
    <2>1. locks' \in [Targets -> FileLockEntry]
      BY <1>1, <1>2, ReleasedFacts
    <2>2. flocks' \in [Callers -> {FlockIdle} \cup FlockCalls]
      BY NotifyAllFacts DEF ReleaseOwner
    <2> QED
      BY <2>1, <2>2 DEF LockTypeOK
  <1>4. LockExclusion'
    BY SMT, <1>1, <1>2, ReleasedFacts DEF LockInv, LockExclusion
  <1>5. NoLostWriter'
    <2>1. CASE \E t \in Targets : Holds(o, locks[t])
      <3>1. flocks' = NotifyAll(calls)
        BY <2>1 DEF ReleaseOwner
      <3> QED
        BY <3>1, NotifyAllFacts DEF NoLostWriter
    <2>2. CASE ~\E t \in Targets : Holds(o, locks[t])
      <3>1. flocks' = calls
        BY <2>2 DEF ReleaseOwner
      <3>2. \A t \in Targets : locks'[t] = locks[t]
        BY <1>1, <1>2, <2>2, ReleasedFacts
      <3>3. \A c \in Callers : calls[c].stage = "waiting" => flocks[c].target \in Targets
        BY SMT DEF LockInv, LockTypeOK, FlockIdle, FlockCalls
      <3> QED
        BY SMT, <3>1, <3>2, <3>3 DEF LockInv, NoLostWriter
    <2> QED
      BY <2>1, <2>2
  <1> QED
    BY <1>3, <1>4, <1>5 DEF LockInv

-----------------------------------------------------------------------------
\* Every step of the lock manager keeps the invariant.
LEMMA LockStepInv == LockInv /\ [LockNext]_lockVars => LockInv'
  <1> SUFFICES ASSUME LockInv, [LockNext]_lockVars PROVE LockInv'
    OBVIOUS
  <1>1. CASE UNCHANGED lockVars
    BY <1>1 DEF lockVars, LockInv, LockTypeOK, LockExclusion, NoLostWriter
  <1>2. ASSUME NEW c \in Callers, NEW o \in Owners, NEW t \in Targets,
               NEW nb \in BOOLEAN, NEW m \in {"shared", "exclusive", "unlock"},
               Flock(c, o, t, m, nb)
        PROVE  LockInv'
    BY <1>2, FlockKeepsInv
  <1>3. ASSUME NEW c \in Callers, Acquire(c)
        PROVE  LockInv'
    BY <1>3, AcquireKeepsInv
  <1>4. ASSUME NEW c \in Callers, Unlock(c)
        PROVE  LockInv'
    <2> DEFINE calls == [flocks EXCEPT ![c] = FlockIdle]
    <2>1. flocks[c].owner \in Owners /\ ReleaseOwner(flocks[c].owner, calls)
      BY SMT, <1>4 DEF Unlock, LockInv, LockTypeOK, FlockIdle, FlockCalls
    <2>2. /\ calls \in [Callers -> {FlockIdle} \cup FlockCalls]
          /\ \A d \in Callers : calls[d].stage = "waiting" => calls[d] = flocks[d]
      BY DEF LockInv, LockTypeOK, FlockIdle
    <2> QED
      BY <2>1, <2>2, ReleaseOwnerKeepsInv
  <1>5. ASSUME NEW o \in Owners, Release(o)
        PROVE  LockInv'
    BY <1>5, ReleaseOwnerKeepsInv DEF Release, LockInv, LockTypeOK
  <1> QED
    BY <1>1, <1>2, <1>3, <1>4, <1>5 DEF LockNext

\* The state of FileLockManager is well-formed whatever the callers do.
THEOREM LockTypeCorrect == LockSpec => []LockTypeOK
  <1>1. LockInv => LockTypeOK
    BY DEF LockInv
  <1> QED
    BY <1>1, LockInitInv, LockStepInv, PTL DEF LockSpec

\* can_grant and grant keep a writer alone on its inode: no sequence of
\* upgrades, downgrades, unlocks and closes leaves a second holder beside it.
THEOREM WriterIsAlone == LockSpec => []LockExclusion
  <1>1. LockInv => LockExclusion
    BY DEF LockInv
  <1> QED
    BY <1>1, LockInitInv, LockStepInv, PTL DEF LockSpec

\* acquire never leaves a writer asleep on the condition variable while
\* can_grant holds for it.
THEOREM WritersAreWoken == LockSpec => []NoLostWriter
  <1>1. LockInv => NoLostWriter
    BY DEF LockInv
  <1> QED
    BY <1>1, LockInitInv, LockStepInv, PTL DEF LockSpec

-----------------------------------------------------------------------------
(* ResponseTracker: the window of remembered answers.                      *)

\* The ids in a queue, and that none is there twice.
Ids(s) == {s[k] : k \in DOMAIN s}
NoneTwice(s) == \A j, k \in DOMAIN s : s[j] = s[k] => j = k

\* The inductive invariant.  That the set is as large as the queue is long is what makes the
\* comparison of completed.len() with the cap, in accept_response, one of the queue's length.
Window ==
    /\ TrackerTypeOK
    /\ WindowIsConsistent
    /\ IsFiniteSet(completed) /\ Cardinality(completed) = Len(completed_order)

\* Remembering an id that is not in the window adds it to the set and to the queue.
LEMMA Pushed ==
    ASSUME NEW s \in Seq(RequestIdSet), NEW i \in RequestIdSet, NoneTwice(s), i \notin Ids(s)
    PROVE  LET t == Append(s, i) IN
           /\ t \in Seq(RequestIdSet) /\ Len(t) = Len(s) + 1 /\ t # <<>>
           /\ Ids(t) = Ids(s) \cup {i} /\ NoneTwice(t)
<1> DEFINE t == Append(s, i)
<1>1. t \in Seq(RequestIdSet) /\ Len(t) = Len(s) + 1 /\ t # <<>>
  <2>1. t \in Seq(RequestIdSet) /\ Len(t) = Len(s) + 1 /\ Len(s) \in Nat
    BY SMT
  <2>2. Len(<<>>) = 0
    OBVIOUS
  <2> QED
    BY SMT, <2>1, <2>2
<1>2. DOMAIN t = DOMAIN s \cup {Len(s) + 1} /\ t[Len(s) + 1] = i
      /\ \A k \in DOMAIN s : t[k] = s[k] /\ k # Len(s) + 1
  BY SMT
<1>3. Ids(t) = Ids(s) \cup {i}
  BY <1>2 DEF Ids
<1>4. NoneTwice(t)
  BY <1>2 DEF NoneTwice, Ids
<1> QED
  BY <1>1, <1>3, <1>4

\* Forgetting the head of the queue takes exactly that id from the set.
LEMMA Popped ==
    ASSUME NEW t \in Seq(RequestIdSet), t # <<>>, NoneTwice(t)
    PROVE  /\ Tail(t) \in Seq(RequestIdSet) /\ Len(Tail(t)) = Len(t) - 1
           /\ Head(t) \in Ids(t)
           /\ Ids(Tail(t)) = Ids(t) \ {Head(t)} /\ NoneTwice(Tail(t))
<1>1. Tail(t) \in Seq(RequestIdSet) /\ Len(Tail(t)) = Len(t) - 1
  BY SMT
<1>2. /\ 1 \in DOMAIN t /\ Head(t) = t[1]
      /\ \A k \in DOMAIN Tail(t) : k + 1 \in DOMAIN t /\ Tail(t)[k] = t[k + 1] /\ k + 1 # 1
      /\ \A k \in DOMAIN t : k # 1 => k - 1 \in DOMAIN Tail(t) /\ Tail(t)[k - 1] = t[k]
      /\ \A k \in DOMAIN t : k \in Int
      /\ \A k \in DOMAIN Tail(t) : k \in Int
  BY SMT
<1>3. Head(t) \in Ids(t)
  BY <1>2 DEF Ids
<1>4. ASSUME NEW x \in Ids(Tail(t)) PROVE x \in Ids(t) \ {Head(t)}
  <2>1. PICK k \in DOMAIN Tail(t) : x = Tail(t)[k]
    BY <1>4 DEF Ids
  <2> QED
    BY SMT, <1>2, <2>1 DEF Ids, NoneTwice
<1>5. ASSUME NEW x \in Ids(t) \ {Head(t)} PROVE x \in Ids(Tail(t))
  <2>1. PICK k \in DOMAIN t : x = t[k]
    BY <1>5 DEF Ids
  <2>2. k # 1
    BY <1>2, <1>5, <2>1
  <2> QED
    BY <1>2, <2>1, <2>2 DEF Ids
<1>6. NoneTwice(Tail(t))
  <2> SUFFICES ASSUME NEW j \in DOMAIN Tail(t), NEW k \in DOMAIN Tail(t), Tail(t)[j] = Tail(t)[k]
               PROVE  j = k
    BY DEF NoneTwice
  <2>1. j + 1 = k + 1
    BY SMT, <1>2 DEF NoneTwice
  <2> QED
    BY SMT, <1>2, <2>1
<1> QED
  BY <1>1, <1>3, <1>4, <1>5, <1>6

\* What Complete does to a consistent window.
LEMMA Completed ==
    ASSUME Window, NEW i \in RequestIdSet, i \notin completed, Complete(i)
    PROVE  /\ completed_order' \in Seq(RequestIdSet) /\ completed' = Ids(completed_order')
           /\ NoneTwice(completed_order') /\ Len(completed_order') <= completed_cap
           /\ IsFiniteSet(completed') /\ Cardinality(completed') = Len(completed_order')
           /\ completed' \subseteq completed \cup {i}
<1> DEFINE order == Append(completed_order, i)
           all == completed \cup {i}
<1>1. /\ completed_order \in Seq(RequestIdSet) /\ completed = Ids(completed_order)
      /\ NoneTwice(completed_order) /\ Len(completed_order) <= completed_cap
      /\ IsFiniteSet(completed) /\ Cardinality(completed) = Len(completed_order)
  BY DEF Window, TrackerTypeOK, WindowIsConsistent, Ids, NoneTwice
<1>2. /\ order \in Seq(RequestIdSet) /\ Len(order) = Len(completed_order) + 1 /\ order # <<>>
      /\ Ids(order) = all /\ NoneTwice(order)
  BY <1>1, Pushed
<1>3. IsFiniteSet(all) /\ Cardinality(all) = Len(order)
  <2>1. IsFiniteSet(all) /\ Cardinality(all) = Cardinality(completed) + 1
    BY <1>1, FS_AddElement
  <2> QED
    BY <1>1, <1>2, <2>1
<1> HIDE DEF order, all
<1>4. CASE Cardinality(all) > completed_cap
  <2>1. completed_order' = Tail(order) /\ completed' = all \ {Head(order)}
    BY <1>4 DEF Complete, order, all
  <2>2. /\ Tail(order) \in Seq(RequestIdSet) /\ Len(Tail(order)) = Len(order) - 1
        /\ Head(order) \in all
        /\ Ids(Tail(order)) = all \ {Head(order)} /\ NoneTwice(Tail(order))
    BY <1>2, Popped
  <2>3. IsFiniteSet(all \ {Head(order)})
        /\ Cardinality(all \ {Head(order)}) = Cardinality(all) - 1
    BY <1>3, <2>2, FS_RemoveElement
  <2>4. Len(Tail(order)) <= completed_cap
    BY SMT, <1>1, <1>2, <2>2
  <2>5. completed' \subseteq completed \cup {i}
    BY <2>1 DEF all
  <2> QED
    BY <1>3, <2>1, <2>2, <2>3, <2>4, <2>5
<1>5. CASE ~(Cardinality(all) > completed_cap)
  <2>1. completed_order' = order /\ completed' = all
    BY <1>5 DEF Complete, order, all
  <2>2. Len(order) <= completed_cap
    BY SMT, <1>2, <1>3, <1>5, TrackerAssumption
  <2>3. completed' \subseteq completed \cup {i}
    BY <2>1 DEF all
  <2> QED
    BY <1>2, <1>3, <2>1, <2>2, <2>3
<1> QED
  BY <1>4, <1>5

\* No step of the tracker breaks the window.
LEMMA WindowStep == Window /\ [TrackerNext]_trackerVars => Window'
<1> SUFFICES ASSUME Window, [TrackerNext]_trackerVars PROVE Window'
  OBVIOUS
<1>1. ASSUME NEW i \in RequestIdSet, NEW r \in TrackedRequest, register_request(i, r)
      PROVE  Window'
  <2>1. TrackerTypeOK'
    BY SMT, <1>1 DEF Window, TrackerTypeOK, register_request
  <2>2. WindowIsConsistent'
    BY SMT, <1>1 DEF Window, TrackerTypeOK, WindowIsConsistent, register_request, MayRegister
  <2> QED
    BY <1>1, <2>1, <2>2 DEF Window, register_request
<1>2. ASSUME NEW i \in RequestIdSet, NEW r \in TrackedRequest, accept_response(i, r)
      PROVE  Window'
  <2>1. CASE tracked[i] = r
    <3>1. i \notin completed /\ Complete(i)
      BY <1>2, <2>1 DEF accept_response
    <3>2. /\ completed_order' \in Seq(RequestIdSet) /\ completed' = Ids(completed_order')
          /\ NoneTwice(completed_order') /\ Len(completed_order') <= completed_cap
          /\ IsFiniteSet(completed') /\ Cardinality(completed') = Len(completed_order')
          /\ completed' \subseteq completed \cup {i}
      BY <3>1, Completed
    <3>3. TrackerTypeOK'
      <4>1. completed' \in SUBSET RequestIdSet
        BY <3>2 DEF Window, TrackerTypeOK
      <4>2. tracked' \in [RequestIdSet -> TrackedRequest \cup {NotTracked}]
        BY <1>2 DEF Window, TrackerTypeOK, accept_response
      <4>3. /\ registered' \in [RequestIdSet -> Nat] /\ forfeited' \in [RequestIdSet -> Nat]
            /\ accepted' \in [RequestIdSet -> Nat]
        <5>1. /\ accepted' = [accepted EXCEPT ![i] = @ + 1]
              /\ registered' = registered /\ forfeited' = forfeited
          BY <1>2, <2>1 DEF accept_response
        <5> QED
          BY SMT, <5>1 DEF Window, TrackerTypeOK
      <4> QED
        BY <3>2, <4>1, <4>2, <4>3 DEF TrackerTypeOK
    <3>4. \A j \in completed' : tracked'[j] = NotTracked
      BY SMT, <1>2, <3>2 DEF Window, TrackerTypeOK, WindowIsConsistent, accept_response
    <3> QED
      BY <3>2, <3>3, <3>4 DEF Window, WindowIsConsistent, Ids, NoneTwice
  <2>2. CASE tracked[i] # r
    <3>1. UNCHANGED <<completed, completed_order>>
      BY <1>2, <2>2 DEF accept_response
    <3>2. TrackerTypeOK'
      <4>1. /\ forfeited' = [forfeited EXCEPT ![i] = @ + 1]
            /\ tracked' = [tracked EXCEPT ![i] = NotTracked]
            /\ registered' = registered /\ accepted' = accepted
        BY <1>2, <2>2 DEF accept_response
      <4> QED
        BY SMT, <3>1, <4>1 DEF Window, TrackerTypeOK
    <3>3. WindowIsConsistent'
      BY SMT, <1>2, <3>1 DEF Window, TrackerTypeOK, WindowIsConsistent, accept_response
    <3> QED
      BY <3>1, <3>2, <3>3 DEF Window
  <2> QED
    BY <2>1, <2>2
<1>3. CASE UNCHANGED trackerVars
  <2>1. TrackerTypeOK'
    BY <1>3 DEF Window, TrackerTypeOK, trackerVars
  <2>2. WindowIsConsistent'
    BY <1>3 DEF Window, WindowIsConsistent, trackerVars
  <2>3. UNCHANGED <<registered, accepted, forfeited, tracked, completed, completed_order>>
    BY <1>3 DEF trackerVars
  <2> QED BY <2>1, <2>2, <2>3 DEF Window
<1> QED
  BY <1>1, <1>2, <1>3 DEF TrackerNext

\* The window invariant holds in every state of the tracker (protocol.rs).
LEMMA WindowHolds == TrackerSpec => []Window
<1>1. TrackerInit => Window
  BY SMT, FS_EmptySet, TrackerAssumption
     DEF TrackerInit, Window, TrackerTypeOK, WindowIsConsistent, NotTracked
<1> QED
  BY <1>1, WindowStep, PTL DEF TrackerSpec

\* The set and the queue of remembered answers agree, hold at most completed_cap ids, and no
\* request waits under a remembered id (register_request, accept_response).
THEOREM WindowStaysConsistent == TrackerSpec => []WindowIsConsistent
BY WindowHolds, PTL DEF Window

\* Every request is answered at most once (register_request, accept_response).
THEOREM AnswersAreCounted == TrackerSpec => []OneAnswerPerRequest
<1>1. TrackerInit => OneAnswerPerRequest
  BY SMT DEF TrackerInit, OneAnswerPerRequest
<1>2. Window /\ OneAnswerPerRequest /\ [TrackerNext]_trackerVars => OneAnswerPerRequest'
  <2> SUFFICES ASSUME Window, OneAnswerPerRequest, [TrackerNext]_trackerVars
               PROVE  OneAnswerPerRequest'
    OBVIOUS
  <2>1. ASSUME NEW i \in RequestIdSet, NEW r \in TrackedRequest, register_request(i, r)
        PROVE  OneAnswerPerRequest'
    <3>1. r # NotTracked
      BY SMT DEF TrackedRequest, NotTracked
    <3> QED
      BY SMT, <2>1, <3>1
         DEF Window, TrackerTypeOK, OneAnswerPerRequest, register_request, MayRegister
  <2>2. ASSUME NEW i \in RequestIdSet, NEW r \in TrackedRequest, accept_response(i, r)
        PROVE  OneAnswerPerRequest'
    <3>1. /\ tracked[i] # NotTracked /\ tracked' = [tracked EXCEPT ![i] = NotTracked]
          /\ registered' = registered
      BY <2>2 DEF accept_response
    <3>2. \/ accepted' = [accepted EXCEPT ![i] = @ + 1] /\ forfeited' = forfeited
          \/ accepted' = accepted /\ forfeited' = [forfeited EXCEPT ![i] = @ + 1]
      BY <2>2 DEF accept_response
    <3> SUFFICES ASSUME NEW j \in RequestIdSet
                 PROVE  registered'[j] = accepted'[j] + forfeited'[j]
                                         + (IF tracked'[j] = NotTracked THEN 0 ELSE 1)
      BY DEF OneAnswerPerRequest
    <3>3. /\ registered[j] \in Nat /\ accepted[j] \in Nat /\ forfeited[j] \in Nat
          /\ registered[j] = accepted[j] + forfeited[j] + (IF tracked[j] = NotTracked THEN 0 ELSE 1)
          /\ DOMAIN tracked = RequestIdSet /\ DOMAIN accepted = RequestIdSet
          /\ DOMAIN forfeited = RequestIdSet
      BY DEF Window, TrackerTypeOK, OneAnswerPerRequest
    <3>4. CASE j = i
      <4>1. tracked'[j] = NotTracked /\ registered'[j] = registered[j]
        BY <3>1, <3>3, <3>4
      <4>2. accepted'[j] + forfeited'[j] = accepted[j] + forfeited[j] + 1
        BY SMT, <3>2, <3>3, <3>4
      <4> QED
        BY SMT, <3>1, <3>3, <3>4, <4>1, <4>2
    <3>5. CASE j # i
      BY <3>1, <3>2, <3>3, <3>5
    <3> QED
      BY <3>4, <3>5
  <2>3. CASE UNCHANGED trackerVars
    BY <2>3 DEF OneAnswerPerRequest, trackerVars
  <2> QED
    BY <2>1, <2>2, <2>3 DEF TrackerNext
<1> QED
  BY <1>1, <1>2, WindowHolds, PTL DEF TrackerSpec

\* Both together, as the model is checked for them: requests, answers and the window tally for
\* any ids and any cap (register_request, accept_response).
THEOREM RequestsTally == TrackerSpec => []RequestsAreAccountedFor
<1>1. WindowIsConsistent /\ OneAnswerPerRequest => RequestsAreAccountedFor
  BY DEF RequestsAreAccountedFor
<1> QED
  BY <1>1, WindowStaysConsistent, AnswersAreCounted, PTL

-----------------------------------------------------------------------------
(* CronManager: overlap policies, queued runs, disposal.                   *)

Jobs == [id : CronIds, kind : {"cron", "date"}, overlap : {"allow", "skip", "queue"}]
Runs == [reg : Registrations, by : {"timer", "queue"}, source : Registrations]
Maps == [CronIds -> {0} \cup Registrations]

\* The flags and the runs agree, as arguments because executeJob takes them so: a registration
\* that does not allow overlap has at most one run and is flagged if it has one, and a run that
\* was put off has one under way.
Agree(flagged, waiting, begun) ==
    /\ flagged \subseteq Registrations /\ waiting \subseteq Registrations /\ begun \subseteq Runs
    /\ \A r \in Registrations : registry[r].overlap # "allow" =>
          /\ r \in flagged <=> \E x \in begun : x.reg = r
          /\ \A x, y \in begun : x.reg = r /\ y.reg = r => x = y
    /\ \A r \in waiting : \E x \in begun : x.reg = r

\* The registrations made since the last dispose, all that the maps of jobs and entries hold.
Newer == {r \in Registrations : r > cronDisposed}

MapsInv ==
    /\ registry \in Seq(Jobs) /\ chain \in [Registrations -> ChainStates]
    /\ jobs \in Maps /\ entries \in Maps /\ timers \in Maps
    /\ cronDisposed \in Nat /\ cronDisposed <= Len(registry)
    /\ \A id \in CronIds : jobs[id] \in {0} \cup Newer /\ entries[id] \in {0} \cup Newer

CronInv == MapsInv /\ Agree(running, queued, runs)

-----------------------------------------------------------------------------
(* executeJob keeps the flags, the queue and the runs in agreement,        *)
(* whichever registration the id has by now.                               *)
LEMMA ExecuteAgrees ==
    ASSUME MapsInv, NEW id \in CronIds, NEW by \in {"timer", "queue"}, NEW source \in Registrations,
           NEW flagged, NEW waiting, NEW begun, Agree(flagged, waiting, begun),
           executeJob(id, Run(id, by, source), flagged, waiting, begun)
    PROVE  Agree(running', queued', runs')
<1> DEFINE r == jobs[id]
           run == Run(id, by, source)
<1>0. r \in {0} \cup Registrations /\ Registrations = 1..Len(registry) /\ registry \in [Registrations -> Jobs]
    BY SMT DEF MapsInv, Maps, Registrations
<1>1. CASE Policy(id, flagged) = "return"
    <2>1. running' = flagged /\ runs' = begun /\ queued' = waiting
        BY <1>1 DEF executeJob
    <2> QED BY <2>1
<1>2. CASE Policy(id, flagged) = "queue"
    <2>1. r # 0 /\ r \in flagged /\ registry[r].overlap = "queue"
        BY <1>0, <1>2 DEF Policy, Jobs
    <2>2. running' = flagged /\ runs' = begun /\ queued' = waiting \cup {r}
        BY <1>2 DEF executeJob
    <2> QED BY <1>0, <2>1, <2>2 DEF Agree
<1>3. CASE Policy(id, flagged) = "run"
    <2>1. r # 0 /\ (r \notin flagged \/ registry[r].overlap = "allow")
        BY <1>0, <1>3 DEF Policy, Jobs
    <2>2. running' = flagged \cup {r} /\ runs' = begun \cup {run} /\ queued' = waiting
        BY <1>3 DEF executeJob
    <2>3. run \in Runs /\ run.reg = r
        BY <1>0, <2>1 DEF Run, Runs
    <2> HIDE DEF r, run
    <2>4. r \in Registrations
        BY <1>0, <2>1
    <2>5. running' \subseteq Registrations /\ queued' \subseteq Registrations /\ runs' \subseteq Runs
        BY <2>2, <2>3, <2>4 DEF Agree
    <2>6. ASSUME NEW q \in Registrations, registry[q].overlap # "allow"
          PROVE  /\ q \in running' <=> \E x \in runs' : x.reg = q
                 /\ \A x, y \in runs' : x.reg = q /\ y.reg = q => x = y
        <3>1. /\ q \in flagged <=> \E x \in begun : x.reg = q
              /\ \A x, y \in begun : x.reg = q /\ y.reg = q => x = y
            BY <2>6 DEF Agree
        <3>2. CASE q = r
            BY <2>1, <2>2, <2>3, <2>6, <3>1, <3>2
        <3>3. CASE q # r
            BY <2>2, <2>3, <3>1, <3>3
        <3> QED BY <3>2, <3>3
    <2>7. \A q \in queued' : \E x \in runs' : x.reg = q
        BY <2>2 DEF Agree
    <2> QED BY <2>5, <2>6, <2>7 DEF Agree
<1> QED BY <1>0, <1>1, <1>2, <1>3 DEF Policy, Jobs

(* The end of a run takes the run, its flag and its place in the queue     *)
(* away together, which keeps the others in agreement.                     *)
LEMMA EndAgrees ==
    ASSUME MapsInv, Agree(running, queued, runs), NEW run \in runs
    PROVE  Agree(running \ {run.reg}, queued \ {run.reg}, runs \ {run})
BY DEF Agree

(* A step that leaves the registrations, the flags and the runs alone      *)
(* leaves them in agreement.                                               *)
LEMMA QuietAgrees ==
    ASSUME Agree(running, queued, runs), UNCHANGED <<registry, running, queued, runs>>
    PROVE  Agree(running, queued, runs)'
BY SMT DEF Agree, Registrations, Runs

(* The fields of a job, and the registration a run belongs to.             *)
LEMMA Fields ==
    ASSUME MapsInv
    PROVE  /\ Registrations = 1..Len(registry) /\ registry \in [Registrations -> Jobs]
           /\ \A r \in Registrations : r # 0 /\ IdOf(r) \in CronIds
<1>1. Registrations = 1..Len(registry) /\ Len(registry) \in Nat /\ registry \in [Registrations -> Jobs]
    BY SMT DEF MapsInv, Registrations
<1>2. \A r \in Registrations : r # 0
    BY SMT, <1>1
<1>3. \A r \in Registrations : IdOf(r) \in CronIds
    BY <1>1 DEF IdOf, Jobs
<1> QED BY <1>1, <1>2, <1>3

-----------------------------------------------------------------------------
(* What any step leaves quiet: a run begins only of a registration made    *)
(* since the last dispose, and a timer of an older call is set again only  *)
(* while its id has an entry.                                              *)
Quiet == /\ \A x \in runs' \ runs : x.reg \in Newer
         /\ \A r \in Registrations : chain'[r] = "armed" => chain[r] = "armed" \/ entries[IdOf(r)] # 0

(* schedule registers a job that has no run yet, whatever its id has.      *)
LEMMA ScheduleKeeps ==
    ASSUME CronInv, NEW id \in CronIds, NEW kind \in {"cron", "date"},
           NEW overlap \in {"allow", "skip", "queue"}, schedule(id, kind, overlap)
    PROVE  CronInv' /\ Quiet
<1> DEFINE r == Len(registry) + 1
           job == [id |-> id, kind |-> kind, overlap |-> overlap]
           all == Append(chain, "over")
<1>0. MapsInv /\ Agree(running, queued, runs)
    BY DEF CronInv
<1>1. /\ registry' = Append(registry, job)
      /\ jobs' = [jobs EXCEPT ![id] = r]
      /\ UNCHANGED <<running, queued, runs, cronDisposed>>
    BY DEF schedule
<1>2. job \in Jobs
    BY DEF Jobs
<1>3. /\ registry' \in Seq(Jobs) /\ Registrations' = Registrations \cup {r}
      /\ Registrations = 1..Len(registry) /\ r \in Nat \ {0} /\ Registrations' = 1..r
      /\ \A q \in Registrations : registry'[q] = registry[q]
    BY SMT, <1>0, <1>1, <1>2 DEF MapsInv, Registrations
<1>4. all \in [Registrations' -> ChainStates]
    <2>1. chain \in Seq(ChainStates) /\ Len(chain) = Len(registry)
        BY SMT, <1>0, <1>3 DEF MapsInv
    <2>2. "over" \in ChainStates
        BY DEF ChainStates
    <2>3. all \in Seq(ChainStates) /\ Len(all) = r
        BY SMT, <2>1, <2>2
    <2> HIDE DEF all
    <2> QED BY SMT, <2>3, <1>3
<1> HIDE DEF all, job
<1>5. /\ timers' \in Maps' /\ entries' \in Maps' /\ jobs' \in Maps'
      /\ chain' \in [Registrations' -> ChainStates]
    <2>1. /\ timers \in [CronIds -> {0} \cup Registrations]
          /\ entries \in [CronIds -> {0} \cup Registrations]
          /\ jobs \in [CronIds -> {0} \cup Registrations]
        BY <1>0 DEF MapsInv, Maps
    <2>2. /\ \/ timers' = [timers EXCEPT ![id] = r] \/ timers' = [timers EXCEPT ![id] = 0]
          /\ \/ entries' = [entries EXCEPT ![id] = r] \/ entries' = [entries EXCEPT ![id] = 0]
          /\ \/ chain' = [all EXCEPT ![r] = "armed"] \/ chain' = [all EXCEPT ![r] = "lapsed"]
        BY DEF schedule, ArmTimer, Lapse, all
    <2>3. Maps' = [CronIds -> {0} \cup Registrations \cup {r}]
        BY <1>3 DEF Maps
    <2> HIDE DEF r
    <2>4. timers' \in [CronIds -> {0} \cup Registrations \cup {r}]
        BY <2>1, <2>2
    <2>5. entries' \in [CronIds -> {0} \cup Registrations \cup {r}]
        BY <2>1, <2>2
    <2>6. jobs' \in [CronIds -> {0} \cup Registrations \cup {r}]
        BY <2>1, <1>1
    <2>7. chain' \in [Registrations' -> ChainStates]
        BY <1>4, <2>2, <1>3 DEF ChainStates
    <2> QED BY <2>3, <2>4, <2>5, <2>6, <2>7
<1>6. MapsInv'
    <2>1. /\ Newer' = Newer \cup {r} /\ cronDisposed' \in Nat /\ cronDisposed' <= Len(registry')
        BY SMT, <1>0, <1>1, <1>3 DEF MapsInv, Newer
    <2>2. /\ \/ entries' = [entries EXCEPT ![id] = r] \/ entries' = [entries EXCEPT ![id] = 0]
          /\ entries \in Maps /\ jobs \in Maps
        BY <1>0 DEF schedule, ArmTimer, Lapse, MapsInv
    <2> HIDE DEF r
    <2>3. \A i \in CronIds : jobs'[i] \in {0} \cup Newer' /\ entries'[i] \in {0} \cup Newer'
        BY <1>0, <1>1, <2>1, <2>2 DEF MapsInv, Maps
    <2> QED BY <1>3, <1>5, <2>1, <2>3 DEF MapsInv
<1>8. Quiet
    <2>1. \A q \in Registrations : chain'[q] = chain[q]
        <3>1. chain \in Seq(ChainStates) /\ Len(chain) = Len(registry)
            BY SMT, <1>0, <1>3 DEF MapsInv
        <3>2. \A q \in Registrations : all[q] = chain[q] /\ q # r
            BY SMT, <1>3, <3>1 DEF all
        <3>3. \/ chain' = [all EXCEPT ![r] = "armed"] \/ chain' = [all EXCEPT ![r] = "lapsed"]
            BY DEF schedule, ArmTimer, Lapse, all
        <3>4. Registrations \subseteq DOMAIN all
            BY <1>3, <1>4
        <3> HIDE DEF r
        <3> QED BY <3>2, <3>3, <3>4
    <2> QED BY <1>1, <2>1 DEF Quiet
<1>7. Agree(running, queued, runs)'
    <2>1. r \notin Registrations
        BY SMT, <1>3
    <2>2. \A x \in runs : x.reg \in Registrations /\ x \in Runs
        BY <1>0 DEF Agree, Runs
    <2>3. Runs \subseteq Runs'
        BY <1>3 DEF Runs
    <2> HIDE DEF r
    <2>4. /\ running' \subseteq Registrations' /\ queued' \subseteq Registrations' /\ runs' \subseteq Runs'
        BY <1>0, <1>1, <1>3, <2>3 DEF Agree
    <2>5. ASSUME NEW q \in Registrations', registry'[q].overlap # "allow"
          PROVE  /\ q \in running <=> \E x \in runs : x.reg = q
                 /\ \A x, y \in runs : x.reg = q /\ y.reg = q => x = y
        <3>1. CASE q = r
            BY <1>0, <2>1, <2>2, <3>1 DEF Agree
        <3>2. CASE q \in Registrations
            BY <1>0, <1>3, <2>5, <3>2 DEF Agree
        <3> QED BY <1>3, <3>1, <3>2
    <2>6. \A q \in queued : \E x \in runs : x.reg = q
        BY <1>0 DEF Agree
    <2> QED BY <1>1, <2>4, <2>5, <2>6 DEF Agree
<1> QED BY <1>6, <1>7, <1>8 DEF CronInv

(* A step between two disposes that sets the maps to registrations there   *)
(* are, and gives no id a job or an entry of before the first, keeps their *)
(* invariant.                                                              *)
LEMMA SameRegistry ==
    ASSUME MapsInv, UNCHANGED <<registry, cronDisposed>>,
           chain' \in [Registrations -> ChainStates],
           jobs' \in Maps, entries' \in Maps, timers' \in Maps,
           \A id \in CronIds : jobs'[id] \in {0, jobs[id]} /\ entries'[id] \in {0, entries[id]}
    PROVE  MapsInv'
<1>1. Newer' = Newer /\ Registrations' = Registrations
    BY DEF Newer, Registrations
<1>2. \A id \in CronIds : jobs'[id] \in {0} \cup Newer' /\ entries'[id] \in {0} \cup Newer'
    BY <1>1 DEF MapsInv
<1>3. cronDisposed' \in Nat /\ cronDisposed' <= Len(registry')
    BY DEF MapsInv
<1> QED BY <1>1, <1>2, <1>3 DEF MapsInv, Maps

(* The driver's cancel arms no timer and leaves no entry of an id it is    *)
(* given.                                                                  *)
LEMMA CancelMaps ==
    ASSUME MapsInv, NEW ids \in SUBSET CronIds, DriverCancel(ids)
    PROVE  /\ chain' \in [Registrations -> ChainStates]
           /\ timers' \in Maps /\ entries' \in Maps
           /\ \A r \in Registrations : chain'[r] = "armed" => chain[r] = "armed"
           /\ \A id \in CronIds : /\ id \in ids => entries'[id] = 0
                                  /\ entries'[id] \in {0, entries[id]}
BY DEF MapsInv, Maps, DriverCancel, ChainStates

(* cancel keeps the invariant, before and after dispose.                   *)
LEMMA CancelKeeps ==
    ASSUME CronInv, NEW id \in CronIds, cancel(id)
    PROVE  CronInv' /\ Quiet
<1>0. MapsInv /\ Agree(running, queued, runs)
    BY DEF CronInv
<1>1. UNCHANGED <<registry, running, queued, runs, cronDisposed>>
    BY DEF cancel
<1>2. /\ DriverCancel({id}) /\ jobs' \in Maps
      /\ \A i \in CronIds : jobs'[i] \in {0, jobs[i]}
    BY <1>0 DEF cancel, MapsInv, Maps
<1>3. /\ chain' \in [Registrations -> ChainStates]
      /\ timers' \in Maps /\ entries' \in Maps
      /\ \A r \in Registrations : chain'[r] = "armed" => chain[r] = "armed"
      /\ \A i \in CronIds : entries'[i] \in {0, entries[i]}
    BY <1>0, <1>2, CancelMaps
<1>5. MapsInv'
    BY <1>0, <1>1, <1>2, <1>3, SameRegistry
<1>6. Agree(running, queued, runs)'
    BY <1>0, <1>1, QuietAgrees
<1> QED BY <1>1, <1>3, <1>5, <1>6 DEF CronInv, Quiet

(* dispose empties both maps of every id.                                  *)
LEMMA DisposeKeeps ==
    ASSUME CronInv, dispose
    PROVE  CronInv' /\ Quiet
<1>0. MapsInv /\ Agree(running, queued, runs)
    BY DEF CronInv
<1>1. cronDisposed' = Len(registry) /\ UNCHANGED <<registry, running, queued, runs>>
    BY DEF dispose
<1>2. DriverCancel(CronIds) /\ jobs' \in Maps /\ \A id \in CronIds : jobs'[id] = 0
    BY DEF dispose, Maps
<1>3. /\ chain' \in [Registrations -> ChainStates]
      /\ timers' \in Maps /\ entries' \in Maps
      /\ \A r \in Registrations : chain'[r] = "armed" => chain[r] = "armed"
      /\ \A id \in CronIds : entries'[id] = 0
    BY <1>0, <1>2, CancelMaps
<1>4. MapsInv'
    <2>1. Len(registry) \in Nat /\ Len(registry) <= Len(registry)
        BY SMT, <1>0 DEF MapsInv
    <2> QED BY <1>0, <1>1, <1>2, <1>3, <2>1 DEF MapsInv, Maps, Registrations
<1>5. Agree(running, queued, runs)'
    BY <1>0, <1>1, QuietAgrees
<1> QED BY <1>1, <1>3, <1>4, <1>5 DEF CronInv, Quiet

(* executeJob begins no run but one of the job that the id has now.        *)
LEMMA ExecuteIsNewer ==
    ASSUME MapsInv, NEW id \in CronIds, NEW by, NEW source, NEW flagged, NEW waiting, NEW begun,
           executeJob(id, Run(id, by, source), flagged, waiting, begun)
    PROVE  \A x \in runs' \ begun : x.reg \in Newer
<1>1. jobs[id] = 0 => Policy(id, flagged) = "return"
    BY DEF Policy
<1>2. jobs[id] # 0 => jobs[id] \in Newer
    BY DEF MapsInv
<1>3. \A x \in runs' \ begun : x = Run(id, by, source) /\ Policy(id, flagged) = "run"
    BY DEF executeJob
<1>4. Run(id, by, source).reg = jobs[id] /\ "run" # "return"
    BY DEF Run
<1> QED BY <1>1, <1>2, <1>3, <1>4

(* A timer that fires begins a run only if its id is registered.           *)
LEMMA FireKeeps ==
    ASSUME CronInv, NEW r \in Registrations, JobTimerFires(r)
    PROVE  CronInv' /\ Quiet
<1> DEFINE id == IdOf(r)
<1>0. MapsInv /\ Agree(running, queued, runs) /\ id \in CronIds
    BY Fields DEF CronInv
<1>1. /\ timers' = [timers EXCEPT ![id] = 0]
      /\ executeJob(id, Run(id, "timer", r), running, queued, runs)
      /\ UNCHANGED <<registry, jobs, entries, cronDisposed>>
      /\ \/ chain' = [chain EXCEPT ![r] = "awaiting"] \/ chain' = [chain EXCEPT ![r] = "settled"]
    BY DEF JobTimerFires
<1>2. Agree(running', queued', runs')
    BY <1>0, <1>1, ExecuteAgrees
<1>3. Agree(running, queued, runs)'
    BY <1>1, <1>2 DEF Agree, Registrations, Runs
<1> HIDE DEF id
<1>4. /\ chain' \in [Registrations -> ChainStates] /\ timers' \in Maps
      /\ jobs' \in Maps /\ entries' \in Maps
      /\ \A q \in Registrations : chain'[q] = "armed" => chain[q] = "armed"
    BY <1>0, <1>1 DEF MapsInv, Maps, ChainStates
<1>6. MapsInv'
    BY <1>0, <1>1, <1>4, SameRegistry
<1>7. \A x \in runs' \ runs : x.reg \in Newer
    BY <1>0, <1>1, ExecuteIsNewer
<1> QED BY <1>3, <1>4, <1>6, <1>7 DEF CronInv, Quiet

(* The end of a run begins another from the queue only if the id is still  *)
(* registered, and lets its timer's callback go on.                        *)
LEMMA EndKeeps ==
    ASSUME CronInv, NEW run \in runs, RunEnds(run)
    PROVE  CronInv' /\ Quiet
<1> DEFINE r == run.reg
           id == IdOf(r)
<1>0. MapsInv /\ Agree(running, queued, runs)
    BY DEF CronInv
<1>1. r \in Registrations /\ run.source \in Registrations /\ id \in CronIds
    BY <1>0, Fields DEF Agree, Runs
<1>2. /\ UNCHANGED <<registry, jobs, entries, timers, cronDisposed>>
      /\ chain' = [chain EXCEPT ![run.source] = "settled"] \/ chain' = chain
    BY DEF RunEnds, cronMaps
<1>3. Agree(running \ {r}, queued \ {r}, runs \ {run})
    BY <1>0, EndAgrees
<1>4. Agree(running', queued', runs') /\ \A x \in runs' \ runs : x.reg \in Newer
    <2>1. CASE r \in queued
        <3>1. executeJob(id, Run(id, "queue", r), running \ {r}, queued \ {r}, runs \ {run})
            BY <2>1 DEF RunEnds
        <3>2. Agree(running', queued', runs')
            BY <1>0, <1>1, <1>3, <3>1, ExecuteAgrees
        <3>3. \A x \in runs' \ (runs \ {run}) : x.reg \in Newer
            BY <1>0, <1>1, <3>1, ExecuteIsNewer
        <3> QED BY <3>2, <3>3
    <2>2. CASE r \notin queued
        <3>1. running' = running \ {r} /\ runs' = runs \ {run} /\ queued' = queued \ {r}
            BY <2>2 DEF RunEnds
        <3> QED BY <1>3, <3>1
    <2> QED BY <2>1, <2>2
<1>5. Agree(running, queued, runs)'
    BY <1>2, <1>4 DEF Agree, Registrations, Runs
<1> HIDE DEF id
<1>6. /\ chain' \in [Registrations -> ChainStates] /\ timers' \in Maps
      /\ jobs' \in Maps /\ entries' \in Maps
      /\ \A q \in Registrations : chain'[q] = "armed" => chain[q] = "armed"
    BY <1>0, <1>2 DEF MapsInv, Maps, ChainStates
<1>8. MapsInv'
    BY <1>0, <1>2, <1>6, SameRegistry
<1> QED BY <1>4, <1>5, <1>6, <1>8 DEF CronInv, Quiet

(* A callback that goes on arms its timer again only while its id has an   *)
(* entry.                                                                  *)
LEMMA GoOnKeeps ==
    ASSUME CronInv, NEW r \in Registrations, TimerGoesOn(r)
    PROVE  CronInv' /\ Quiet
<1> DEFINE id == IdOf(r)
<1>0. MapsInv /\ Agree(running, queued, runs) /\ id \in CronIds
    BY Fields DEF CronInv
<1>1. /\ UNCHANGED <<registry, jobs, running, queued, runs, cronDisposed>>
      /\ \/ timers' = timers \/ timers' = [timers EXCEPT ![id] = 0] \/ timers' = [timers EXCEPT ![id] = r]
      /\ \/ entries' = entries \/ entries' = [entries EXCEPT ![id] = 0]
      /\ \/ chain' = [chain EXCEPT ![r] = "armed"] /\ entries[id] # 0
         \/ chain' = [chain EXCEPT ![r] = "lapsed"] \/ chain' = [chain EXCEPT ![r] = "over"]
    BY DEF TimerGoesOn, ArmTimer, Lapse
<1> HIDE DEF id
<1>2. /\ chain' \in [Registrations -> ChainStates]
      /\ jobs' \in Maps /\ entries' \in Maps
    BY <1>0, <1>1 DEF MapsInv, Maps, ChainStates
<1>3. timers' \in Maps
    BY SMT, <1>0, <1>1 DEF MapsInv, Maps
<1>4. \A i \in CronIds : jobs'[i] \in {0, jobs[i]} /\ entries'[i] \in {0, entries[i]}
    BY <1>0, <1>1 DEF MapsInv, Maps
<1>5. MapsInv'
    BY <1>0, <1>1, <1>2, <1>3, <1>4, SameRegistry
<1>6. Agree(running, queued, runs)'
    BY <1>0, <1>1, QuietAgrees
<1>7. Quiet
    <2>1. \A q \in Registrations : chain'[q] = "armed" => chain[q] = "armed" \/ (q = r /\ entries[id] # 0)
        BY <1>0, <1>1 DEF MapsInv
    <2> QED BY <1>1, <2>1 DEF Quiet, id
<1> QED BY <1>5, <1>6, <1>7 DEF CronInv

-----------------------------------------------------------------------------
(* The invariant holds of a manager that has no job (the constructor).     *)
LEMMA InitInv == CronInit => CronInv
<1> SUFFICES ASSUME CronInit PROVE CronInv
    OBVIOUS
<1>1. MapsInv
    <2>1. registry = <<>> /\ chain = <<>> /\ cronDisposed = 0
        BY DEF CronInit
    <2>2. registry \in Seq(Jobs) /\ chain \in [Registrations -> ChainStates]
        BY SMT, <2>1 DEF Registrations
    <2>3. /\ jobs \in Maps /\ entries \in Maps /\ timers \in Maps
          /\ \A id \in CronIds : jobs[id] = 0 /\ entries[id] = 0
        BY DEF CronInit, Maps
    <2>4. cronDisposed \in Nat /\ cronDisposed <= Len(registry)
        BY SMT, <2>1
    <2> QED BY <2>2, <2>3, <2>4 DEF MapsInv
<1>2. Agree(running, queued, runs)
    BY DEF CronInit, Agree, Registrations
<1> QED BY <1>1, <1>2 DEF CronInv

(* Every call, timer and callback end of CronManager keeps the invariant   *)
(* and leaves quiet what dispose ended.                                    *)
LEMMA NextInv == CronInv /\ [CronNext]_cronVars => CronInv' /\ Quiet
<1> SUFFICES ASSUME CronInv, [CronNext]_cronVars PROVE CronInv' /\ Quiet
    OBVIOUS
<1>1. ASSUME NEW id \in CronIds, NEW kind \in {"cron", "date"}, NEW overlap \in {"allow", "skip", "queue"},
             schedule(id, kind, overlap)
      PROVE  CronInv' /\ Quiet
    BY <1>1, ScheduleKeeps
<1>2. ASSUME NEW id \in CronIds, cancel(id) PROVE CronInv' /\ Quiet
    BY <1>2, CancelKeeps
<1>3. CASE dispose
    BY <1>3, DisposeKeeps
<1>4. ASSUME NEW r \in Registrations, JobTimerFires(r) PROVE CronInv' /\ Quiet
    BY <1>4, FireKeeps
<1>5. ASSUME NEW r \in Registrations, TimerGoesOn(r) PROVE CronInv' /\ Quiet
    BY <1>5, GoOnKeeps
<1>6. ASSUME NEW run \in runs, RunEnds(run) PROVE CronInv' /\ Quiet
    BY <1>6, EndKeeps
<1>7. CASE UNCHANGED cronVars
    <2>1. MapsInv'
        BY <1>7 DEF CronInv, MapsInv, Maps, Newer, Registrations, cronVars, cronMaps
    <2>2. Agree(running, queued, runs)'
        BY <1>7, QuietAgrees DEF CronInv, cronVars
    <2>3. runs' = runs /\ chain' = chain
        BY <1>7 DEF cronVars
    <2> QED BY <2>1, <2>2, <2>3 DEF CronInv, Quiet
<1> QED BY <1>1, <1>2, <1>3, <1>4, <1>5, <1>6, <1>7 DEF CronNext

(* A registration that does not allow overlap never has two runs, and its  *)
(* flag says whether it has one, for any use of ids (executeJob).          *)
THEOREM JobsDoNotOverlap == CronSpec => []RunsDoNotOverlap
<1>1. CronInv => RunsDoNotOverlap
    <2> SUFFICES ASSUME CronInv, NEW r \in Registrations, registry[r].overlap # "allow"
                 PROVE  Cardinality(RunsOf(r)) = IF r \in running THEN 1 ELSE 0
        BY DEF RunsDoNotOverlap
    <2>1. /\ r \in running <=> RunsOf(r) # {}
          /\ \A x, y \in RunsOf(r) : x = y
        BY DEF CronInv, Agree, RunsOf
    <2>2. CASE r \in running
        <3>1. PICK x \in RunsOf(r) : TRUE
            BY <2>1, <2>2
        <3>2. RunsOf(r) = {x}
            BY <2>1, <3>1
        <3> QED BY <2>2, <3>2, FS_Singleton
    <2>3. CASE r \notin running
        BY <2>1, <2>3, FS_EmptySet
    <2> QED BY <2>2, <2>3
<1> QED BY <1>1, InitInv, NextInv, PTL DEF CronSpec

(* A run that was put off always has a run under way whose end begins it   *)
(* (the queue policy of executeJob and its finally block).                 *)
THEOREM QueuedRunsAreNotForgotten == CronSpec => []QueuedHasARun
<1>1. CronInv => QueuedHasARun
    BY DEF CronInv, Agree, QueuedHasARun, RunsOf
<1> QED BY <1>1, InitInv, NextInv, PTL DEF CronSpec

(* Both together: every registration keeps its overlap policy, whatever is *)
(* registered, cancelled or registered again (executeJob).                 *)
THEOREM OverlapPoliciesAreKept == CronSpec => []OverlapPolicyIsKept
<1>1. RunsDoNotOverlap /\ QueuedHasARun => OverlapPolicyIsKept
    BY DEF OverlapPolicyIsKept
<1> QED BY <1>1, JobsDoNotOverlap, QueuedRunsAreNotForgotten, PTL

-----------------------------------------------------------------------------
(* What RecurringGoesOn rests on.  The maps hold registrations of the id   *)
(* they are looked up by, a timer the map holds is set, and a run a timer  *)
(* began is the one its callback awaits.                                   *)
HomeInv ==
    /\ \A i \in CronIds : /\ jobs[i] # 0 => IdOf(jobs[i]) = i
                          /\ entries[i] # 0 => IdOf(entries[i]) = i
                          /\ timers[i] # 0 => IdOf(timers[i]) = i /\ chain[timers[i]] = "armed"
    /\ \A x \in runs : x.by = "timer" => chain[x.source] = "awaiting"
    /\ \A x, y \in runs : x.by = "timer" /\ y.by = "timer" /\ x.source = y.source => x = y

(* A registration that is the only one of its id, and what must then hold  *)
(* of a recurring one while it is the manager's job.                       *)
Sole(r) == \A q \in Registrations : IdOf(q) = IdOf(r) => q = r
Goes(r) ==
    \/ chain[r] = "lapsed"
    \/ /\ entries[IdOf(r)] = r
       /\ chain[r] \in {"armed", "awaiting", "settled"}
       /\ chain[r] = "armed" => timers[IdOf(r)] = r
Recurs(r) == Sole(r) /\ jobs[IdOf(r)] = r /\ registry[r].kind = "cron"
SoleInv == \A r \in Registrations : Recurs(r) => Goes(r)

DriverInv == CronInv /\ HomeInv /\ SoleInv

(* Nothing but schedule changes which registrations are the only ones of   *)
(* their ids.                                                              *)
LEMMA SameSole ==
    ASSUME UNCHANGED registry
    PROVE  /\ Registrations' = Registrations
           /\ \A r \in Registrations : IdOf(r)' = IdOf(r) /\ (Sole(r)' <=> Sole(r))
BY DEF Registrations, IdOf, Sole

(* schedule: the new registration is set up whole, and an older one of its *)
(* id is no longer the only one.                                           *)
LEMMA ScheduleGoesOn ==
    ASSUME DriverInv, NEW id \in CronIds, NEW kind \in {"cron", "date"},
           NEW overlap \in {"allow", "skip", "queue"}, schedule(id, kind, overlap)
    PROVE  HomeInv' /\ SoleInv'
<1> USE DEF IdOf
<1> DEFINE r == Len(registry) + 1
           job == [id |-> id, kind |-> kind, overlap |-> overlap]
<1>0. MapsInv /\ Agree(running, queued, runs) /\ HomeInv /\ SoleInv
    BY DEF DriverInv, CronInv
<1>1. /\ registry' = Append(registry, job) /\ jobs' = [jobs EXCEPT ![id] = r] /\ runs' = runs
    BY DEF schedule
<1>2. /\ Registrations = 1..Len(registry) /\ Len(registry) \in Nat /\ Registrations' = 1..r
      /\ \A q \in Registrations : registry'[q] = registry[q]
      /\ registry'[r] = job /\ job.id = id /\ job.kind = kind
    BY SMT, <1>0, <1>1 DEF MapsInv, Registrations
<1>3. /\ Registrations' = Registrations \cup {r} /\ r \notin Registrations /\ r # 0
    BY SMT, <1>2
<1>4. /\ \A q \in Registrations : IdOf(q)' = IdOf(q)
      /\ registry'[r].id = id
    BY <1>2
<1>5. /\ \A q \in Registrations : chain'[q] = chain[q]
      /\ \/ /\ chain'[r] = "armed" /\ timers' = [timers EXCEPT ![id] = r]
            /\ entries' = [entries EXCEPT ![id] = r]
         \/ /\ chain'[r] = "lapsed" /\ timers' = [timers EXCEPT ![id] = 0]
            /\ entries' = [entries EXCEPT ![id] = 0]
    <2> DEFINE all == Append(chain, "over")
    <2>1. chain \in Seq(ChainStates) /\ Len(chain) = Len(registry)
        BY SMT, <1>0, <1>2 DEF MapsInv
    <2>2. all \in [1..r -> ChainStates] /\ \A q \in Registrations : all[q] = chain[q]
        <3>1. "over" \in ChainStates
            BY DEF ChainStates
        <3>2. all \in Seq(ChainStates) /\ Len(all) = r
            BY SMT, <2>1, <3>1
        <3>3. \A q \in Registrations : all[q] = chain[q]
            BY SMT, <1>2, <2>1
        <3> HIDE DEF all
        <3> QED BY SMT, <3>2, <3>3
    <2>3. \/ /\ chain' = [all EXCEPT ![r] = "armed"] /\ timers' = [timers EXCEPT ![id] = r]
             /\ entries' = [entries EXCEPT ![id] = r]
          \/ /\ chain' = [all EXCEPT ![r] = "lapsed"] /\ timers' = [timers EXCEPT ![id] = 0]
             /\ entries' = [entries EXCEPT ![id] = 0]
        BY DEF schedule, ArmTimer, Lapse
    <2> HIDE DEF all
    <2>4. r \in 1..r /\ Registrations \subseteq 1..r
        BY SMT, <1>2
    <2> HIDE DEF r
    <2> QED BY <1>3, <2>2, <2>3, <2>4
<1>6. /\ jobs \in Maps /\ entries \in Maps /\ timers \in Maps
    BY <1>0 DEF MapsInv
<1> HIDE DEF r, job
<1>7. \A i \in CronIds : /\ jobs'[i] # 0 => registry'[jobs'[i]].id = i
                         /\ entries'[i] # 0 => registry'[entries'[i]].id = i
                         /\ timers'[i] # 0 => registry'[timers'[i]].id = i /\ chain'[timers'[i]] = "armed"
    <2> SUFFICES ASSUME NEW i \in CronIds
                 PROVE  /\ jobs'[i] # 0 => registry'[jobs'[i]].id = i
                        /\ entries'[i] # 0 => registry'[entries'[i]].id = i
                        /\ timers'[i] # 0 => registry'[timers'[i]].id = i /\ chain'[timers'[i]] = "armed"
        OBVIOUS
    <2>1. CASE i = id
        BY <1>1, <1>4, <1>5, <1>6, <2>1 DEF Maps
    <2>2. CASE i # id
        <3>1. jobs'[i] = jobs[i] /\ entries'[i] = entries[i] /\ timers'[i] = timers[i]
            BY <1>1, <1>5, <1>6, <2>2 DEF Maps
        <3>2. /\ jobs[i] # 0 => jobs[i] \in Registrations /\ IdOf(jobs[i]) = i
              /\ entries[i] # 0 => entries[i] \in Registrations /\ IdOf(entries[i]) = i
              /\ timers[i] # 0 => /\ timers[i] \in Registrations /\ IdOf(timers[i]) = i
                                  /\ chain[timers[i]] = "armed"
            BY SMT, <1>0, <1>6 DEF Maps, HomeInv
        <3> QED BY <1>4, <1>5, <3>1, <3>2
    <2> QED BY <2>1, <2>2
<1>8. /\ \A x \in runs' : x.by = "timer" => chain'[x.source] = "awaiting"
      /\ \A x, y \in runs' : x.by = "timer" /\ y.by = "timer" /\ x.source = y.source => x = y
    <2>1. \A x \in runs : x.source \in Registrations
        BY <1>0 DEF Agree, Runs
    <2> QED BY SMT, <1>0, <1>1, <1>5, <2>1 DEF HomeInv
<1>9. ASSUME NEW q \in Registrations', Recurs(q)' PROVE Goes(q)'
    <2>1. CASE q = r
        BY <1>4, <1>5, <1>6, <2>1 DEF Goes, Maps
    <2>2. CASE q \in Registrations /\ IdOf(q) # id
        <3>0. IdOf(q) \in CronIds
            BY <1>0, <2>2, Fields
        <3>1. Recurs(q)
            <4>1. Sole(q)
                BY <1>3, <1>4, <1>9, <2>2 DEF Recurs, Sole
            <4> QED BY <1>1, <1>2, <1>4, <1>6, <1>9, <2>2, <3>0, <4>1 DEF Recurs, Maps
        <3>2. /\ entries'[IdOf(q)] = entries[IdOf(q)] /\ timers'[IdOf(q)] = timers[IdOf(q)]
              /\ chain'[q] = chain[q]
            BY <1>5, <1>6, <2>2, <3>0 DEF Maps
        <3>3. Goes(q)
            BY <1>0, <2>2, <3>1 DEF SoleInv
        <3> QED BY <1>4, <2>2, <3>2, <3>3 DEF Goes
    <2>3. CASE q \in Registrations /\ IdOf(q) = id
        BY <1>3, <1>4, <1>9, <2>3 DEF Recurs, Sole
    <2> QED BY <1>3, <2>1, <2>2, <2>3
<1>10. HomeInv'
    BY <1>7, <1>8 DEF HomeInv
<1> QED BY <1>9, <1>10 DEF SoleInv

(* cancel and dispose: what they take from a driver they take whole, and   *)
(* only of the ids they are given.                                         *)
LEMMA CancelGoesOn ==
    ASSUME DriverInv, NEW ids \in SUBSET CronIds, DriverCancel(ids),
           jobs' = [i \in CronIds |-> IF i \in ids THEN 0 ELSE jobs[i]],
           UNCHANGED <<registry, runs>>
    PROVE  HomeInv' /\ SoleInv'
<1> USE DEF IdOf
<1>0. MapsInv /\ Agree(running, queued, runs) /\ HomeInv /\ SoleInv
    BY DEF DriverInv, CronInv
<1>1. /\ Registrations' = Registrations
      /\ \A r \in Registrations : IdOf(r)' = IdOf(r) /\ (Sole(r)' <=> Sole(r))
    BY SameSole
<1>2. /\ jobs \in Maps /\ entries \in Maps /\ timers \in Maps
    BY <1>0 DEF MapsInv
<1>3. \A i \in CronIds :
        /\ i \in ids => jobs'[i] = 0 /\ entries'[i] = 0 /\ timers'[i] = 0
        /\ i \notin ids => jobs'[i] = jobs[i] /\ entries'[i] = entries[i] /\ timers'[i] = timers[i]
    BY DEF DriverCancel
<1>4. ASSUME NEW r \in Registrations
      PROVE  chain'[r] = chain[r] \/ (chain[r] = "armed" /\ IdOf(r) \in ids)
    <2>1. chain'[r] = IF r \in {timers[i] : i \in ids} THEN "over" ELSE chain[r]
        BY DEF DriverCancel
    <2>2. ASSUME NEW i \in ids, r = timers[i] PROVE chain[r] = "armed" /\ IdOf(r) \in ids
        <3>1. r # 0
            BY <1>0, Fields
        <3> QED BY <1>0, <2>2, <3>1 DEF HomeInv
    <2> QED BY <2>1, <2>2
<1>5. \A i \in CronIds : /\ jobs'[i] # 0 => registry'[jobs'[i]].id = i
                         /\ entries'[i] # 0 => registry'[entries'[i]].id = i
                         /\ timers'[i] # 0 => registry'[timers'[i]].id = i /\ chain'[timers'[i]] = "armed"
    <2> SUFFICES ASSUME NEW i \in CronIds
                 PROVE  /\ jobs'[i] # 0 => registry'[jobs'[i]].id = i
                        /\ entries'[i] # 0 => registry'[entries'[i]].id = i
                        /\ timers'[i] # 0 => registry'[timers'[i]].id = i /\ chain'[timers'[i]] = "armed"
        OBVIOUS
    <2>1. /\ jobs[i] # 0 => jobs[i] \in Registrations /\ IdOf(jobs[i]) = i
          /\ entries[i] # 0 => entries[i] \in Registrations /\ IdOf(entries[i]) = i
          /\ timers[i] # 0 => /\ timers[i] \in Registrations /\ IdOf(timers[i]) = i
                              /\ chain[timers[i]] = "armed"
        BY SMT, <1>0, <1>2 DEF Maps, HomeInv
    <2> QED BY SMT, <1>1, <1>3, <1>4, <2>1
<1>6. /\ \A x \in runs' : x.by = "timer" => chain'[x.source] = "awaiting"
      /\ \A x, y \in runs' : x.by = "timer" /\ y.by = "timer" /\ x.source = y.source => x = y
    <2>1. \A x \in runs : x.source \in Registrations
        BY <1>0 DEF Agree, Runs
    <2>2. /\ \A x \in runs : x.by = "timer" => chain[x.source] = "awaiting"
          /\ \A x, y \in runs : x.by = "timer" /\ y.by = "timer" /\ x.source = y.source => x = y
        BY <1>0 DEF HomeInv
    <2> QED BY <1>4, <2>1, <2>2
<1>7. ASSUME NEW q \in Registrations, Recurs(q)' PROVE Goes(q)'
    <2>0. IdOf(q) \in CronIds /\ q # 0
        BY <1>0, Fields
    <2>1. IdOf(q) \notin ids /\ jobs[IdOf(q)] = q
        BY <1>1, <1>3, <1>7, <2>0 DEF Recurs
    <2>2. Recurs(q)
        BY <1>1, <1>7, <2>1 DEF Recurs
    <2>3. Goes(q)
        BY <1>0, <2>2 DEF SoleInv
    <2> QED BY <1>1, <1>3, <1>4, <2>0, <2>1, <2>3 DEF Goes
<1> QED BY <1>1, <1>5, <1>6, <1>7 DEF HomeInv, SoleInv

(* A step of the timer of one registration r, which leaves the jobs alone, *)
(* moves no other timer and keeps r going, keeps every recurring job going.*)
LEMMA TimerStep ==
    ASSUME DriverInv, NEW r \in Registrations, UNCHANGED <<registry, jobs>>,
           \A q \in Registrations \ {r} : chain'[q] = chain[q],
           \A i \in CronIds \ {IdOf(r)} : entries'[i] = entries[i] /\ timers'[i] = timers[i],
           entries'[IdOf(r)] \in {entries[IdOf(r)], 0},
           Recurs(r) => Goes(r)'
    PROVE  /\ SoleInv'
           /\ \A i \in CronIds : /\ jobs'[i] # 0 => registry'[jobs'[i]].id = i
                                 /\ entries'[i] # 0 => registry'[entries'[i]].id = i
           /\ \A i \in CronIds \ {IdOf(r)} :
                timers'[i] # 0 => registry'[timers'[i]].id = i /\ chain'[timers'[i]] = "armed"
<1> USE DEF IdOf
<1>0. MapsInv /\ HomeInv /\ SoleInv /\ IdOf(r) \in CronIds
    BY Fields DEF DriverInv, CronInv
<1>1. /\ Registrations' = Registrations
      /\ \A q \in Registrations : IdOf(q)' = IdOf(q) /\ (Sole(q)' <=> Sole(q))
    BY SameSole
<1>2. \A i \in CronIds :
        /\ jobs[i] # 0 => jobs[i] \in Registrations /\ IdOf(jobs[i]) = i
        /\ entries[i] # 0 => entries[i] \in Registrations /\ IdOf(entries[i]) = i
        /\ timers[i] # 0 => /\ timers[i] \in Registrations /\ IdOf(timers[i]) = i
                            /\ chain[timers[i]] = "armed"
    BY SMT, <1>0 DEF MapsInv, Maps, HomeInv
<1>3. \A i \in CronIds : /\ jobs'[i] # 0 => registry'[jobs'[i]].id = i
                         /\ entries'[i] # 0 => registry'[entries'[i]].id = i
    <2> SUFFICES ASSUME NEW i \in CronIds
                 PROVE  /\ jobs'[i] # 0 => registry'[jobs'[i]].id = i
                        /\ entries'[i] # 0 => registry'[entries'[i]].id = i
        OBVIOUS
    <2>1. jobs'[i] = jobs[i] /\ registry' = registry
        OBVIOUS
    <2>2. entries'[i] \in {entries[i], 0}
        <3>1. CASE i = IdOf(r)
            BY <3>1
        <3>2. CASE i # IdOf(r)
            BY <3>2
        <3> QED BY <3>1, <3>2
    <2> QED BY <1>2, <2>1, <2>2
<1>4. ASSUME NEW i \in CronIds \ {IdOf(r)}, timers'[i] # 0
      PROVE  registry'[timers'[i]].id = i /\ chain'[timers'[i]] = "armed"
    <2>1. timers'[i] = timers[i] /\ timers[i] \in Registrations \ {r}
        BY <1>2, <1>4
    <2> QED BY <1>1, <1>2, <1>4, <2>1
<1>5. ASSUME NEW q \in Registrations, Recurs(q)' PROVE Goes(q)'
    <2>1. Recurs(q)
        BY <1>1, <1>5 DEF Recurs
    <2>2. CASE q = r
        BY <2>1, <2>2
    <2>3. CASE q # r
        <3>1. IdOf(q) # IdOf(r) /\ IdOf(q) \in CronIds
            BY <1>0, <2>1, <2>3, Fields DEF Recurs, Sole
        <3>2. Goes(q)
            BY <1>0, <2>1 DEF SoleInv
        <3> QED BY <1>1, <2>3, <3>1, <3>2 DEF Goes
    <2> QED BY <2>2, <2>3
<1>6. SoleInv'
    BY <1>1, <1>5 DEF SoleInv
<1> QED BY <1>3, <1>4, <1>6

(* A timer that fires leaves its callback behind, which will set the next. *)
LEMMA FireGoesOn ==
    ASSUME DriverInv, NEW r \in Registrations, JobTimerFires(r)
    PROVE  HomeInv' /\ SoleInv'
<1> USE DEF IdOf
<1> DEFINE id == IdOf(r)
           run == Run(id, "timer", r)
<1>0. MapsInv /\ Agree(running, queued, runs) /\ HomeInv /\ SoleInv /\ id \in CronIds
    BY Fields DEF DriverInv, CronInv
<1>1. /\ chain[r] = "armed" /\ timers' = [timers EXCEPT ![id] = 0]
      /\ UNCHANGED <<registry, jobs, entries>>
      /\ chain' = [chain EXCEPT ![r] = IF runs' # runs THEN "awaiting" ELSE "settled"]
      /\ runs' = runs \/ runs' = runs \cup {run}
    BY DEF JobTimerFires, executeJob
<1>2. timers \in [CronIds -> {0} \cup Registrations] /\ chain \in [Registrations -> ChainStates]
    BY <1>0 DEF MapsInv, Maps
<1>3. /\ \A q \in Registrations \ {r} : chain'[q] = chain[q]
      /\ chain'[r] = IF runs' # runs THEN "awaiting" ELSE "settled"
      /\ timers'[id] = 0 /\ \A i \in CronIds \ {id} : timers'[i] = timers[i]
    BY <1>0, <1>1, <1>2
<1>4. run.by = "timer" /\ run.source = r
    BY DEF Run
<1>5. IdOf(r)' = IdOf(r)
    BY <1>1 DEF IdOf
<1>6. Recurs(r) => Goes(r)'
    <2>1. Recurs(r) => Goes(r)
        BY <1>0 DEF SoleInv
    <2> QED BY SMT, <1>1, <1>3, <1>5, <2>1 DEF Goes
<1>7. /\ SoleInv'
      /\ \A i \in CronIds : /\ jobs'[i] # 0 => registry'[jobs'[i]].id = i
                            /\ entries'[i] # 0 => registry'[entries'[i]].id = i
      /\ \A i \in CronIds \ {id} :
           timers'[i] # 0 => registry'[timers'[i]].id = i /\ chain'[timers'[i]] = "armed"
    BY <1>1, <1>3, <1>6, TimerStep
<1>8. \A x \in runs : x.source \in Registrations
    BY <1>0 DEF Agree, Runs
<1>9. /\ \A x \in runs : x.by = "timer" => chain[x.source] = "awaiting" /\ x.source # r
      /\ \A x, y \in runs : x.by = "timer" /\ y.by = "timer" /\ x.source = y.source => x = y
    BY <1>0, <1>1 DEF HomeInv
<1> HIDE DEF run, id
<1>10. run \notin runs
    BY <1>4, <1>9
<1>11. /\ \A x \in runs' : x.by = "timer" => chain'[x.source] = "awaiting"
       /\ \A x, y \in runs' : x.by = "timer" /\ y.by = "timer" /\ x.source = y.source => x = y
    <2>1. CASE runs' = runs
        BY <1>3, <1>8, <1>9, <2>1
    <2>2. CASE runs' = runs \cup {run}
        <3>1. chain'[r] = "awaiting"
            BY <1>3, <1>10, <2>2
        <3> QED BY SMT, <1>3, <1>4, <1>8, <1>9, <2>2, <3>1
    <2> QED BY <1>1, <2>1, <2>2
<1> QED BY <1>3, <1>7, <1>11 DEF HomeInv

(* The end of a run wakes the callback that awaits it and no other.        *)
LEMMA EndGoesOn ==
    ASSUME DriverInv, NEW run \in runs, RunEnds(run)
    PROVE  HomeInv' /\ SoleInv'
<1> USE DEF IdOf
<1>0. MapsInv /\ Agree(running, queued, runs) /\ HomeInv /\ SoleInv
    BY DEF DriverInv, CronInv
<1>1. \A x \in runs : x.source \in Registrations
    BY <1>0 DEF Agree, Runs
<1> DEFINE s == run.source
<1>2. /\ UNCHANGED <<registry, jobs, entries, timers>>
      /\ chain' = IF run.by = "timer" THEN [chain EXCEPT ![s] = "settled"] ELSE chain
    BY DEF RunEnds, cronMaps
<1>3. \A x \in runs' : x \in runs \ {run} \/ x.by = "queue"
    <2>1. CASE run.reg \in queued
        <3>1. runs' \subseteq (runs \ {run}) \cup {Run(IdOf(run.reg), "queue", run.reg)}
            BY <2>1 DEF RunEnds, executeJob
        <3>2. Run(IdOf(run.reg), "queue", run.reg).by = "queue"
            BY DEF Run
        <3> QED BY <3>1, <3>2
    <2>2. CASE run.reg \notin queued
        BY <2>2 DEF RunEnds
    <2> QED BY <2>1, <2>2
<1>4. /\ \A x \in runs : x.by = "timer" => chain[x.source] = "awaiting"
      /\ \A x, y \in runs : x.by = "timer" /\ y.by = "timer" /\ x.source = y.source => x = y
    BY <1>0 DEF HomeInv
<1>5. chain \in [Registrations -> ChainStates] /\ s \in Registrations
    BY <1>0, <1>1 DEF MapsInv
<1>6. /\ \A q \in Registrations \ {s} : chain'[q] = chain[q]
      /\ chain'[s] = IF run.by = "timer" THEN "settled" ELSE chain[s]
    BY <1>2, <1>5
<1>7. Recurs(s) => Goes(s)'
    <2>1. Recurs(s) => Goes(s)
        BY <1>0, <1>5 DEF SoleInv
    <2>2. IdOf(s)' = IdOf(s)
        BY <1>2 DEF IdOf
    <2> QED BY SMT, <1>2, <1>4, <1>6, <2>1, <2>2 DEF Goes
<1> HIDE DEF s
<1>8. /\ SoleInv'
      /\ \A i \in CronIds : /\ jobs'[i] # 0 => registry'[jobs'[i]].id = i
                            /\ entries'[i] # 0 => registry'[entries'[i]].id = i
    BY <1>2, <1>5, <1>6, <1>7, TimerStep
<1>9. ASSUME NEW i \in CronIds, timers'[i] # 0
      PROVE  registry'[timers'[i]].id = i /\ chain'[timers'[i]] = "armed"
    <2>1. timers'[i] = timers[i] /\ timers[i] \in Registrations
        BY <1>0, <1>2, <1>9 DEF MapsInv, Maps
    <2>2. IdOf(timers[i]) = i /\ chain[timers[i]] = "armed"
        BY <1>0, <1>2, <1>9 DEF HomeInv
    <2>3. chain'[timers[i]] = "armed"
        BY <1>4, <1>6, <2>1, <2>2 DEF s
    <2> QED BY <1>2, <2>1, <2>2, <2>3 DEF IdOf
<1>10. /\ \A x \in runs' : x.by = "timer" => chain'[x.source] = "awaiting"
       /\ \A x, y \in runs' : x.by = "timer" /\ y.by = "timer" /\ x.source = y.source => x = y
    <2>1. ASSUME NEW x \in runs', x.by = "timer"
          PROVE  x \in runs /\ x # run
        BY <1>3, <2>1
    <2>2. ASSUME NEW x \in runs', x.by = "timer"
          PROVE  chain'[x.source] = "awaiting"
        <3>1. x.source # s \/ run.by # "timer"
            BY <1>4, <2>1, <2>2 DEF s
        <3> QED BY <1>1, <1>4, <1>6, <2>1, <2>2, <3>1
    <2> QED BY <1>4, <2>1, <2>2
<1> QED BY <1>8, <1>9, <1>10 DEF HomeInv

(* The callback sets the next timer or the schedule has lapsed.            *)
LEMMA CallbackGoesOn ==
    ASSUME DriverInv, NEW r \in Registrations, TimerGoesOn(r)
    PROVE  HomeInv' /\ SoleInv'
<1> USE DEF IdOf
<1> DEFINE id == IdOf(r)
<1>0. MapsInv /\ Agree(running, queued, runs) /\ HomeInv /\ SoleInv /\ id \in CronIds /\ r # 0
    BY Fields DEF DriverInv, CronInv
<1>1. /\ UNCHANGED <<registry, jobs, runs>> /\ chain[r] = "settled"
      /\ \/ /\ timers' = [timers EXCEPT ![id] = r] /\ entries' = entries
            /\ chain' = [chain EXCEPT ![r] = "armed"]
         \/ /\ timers' = [timers EXCEPT ![id] = 0] /\ entries' = [entries EXCEPT ![id] = 0]
            /\ chain' = [chain EXCEPT ![r] = "lapsed"]
         \/ /\ timers' = timers /\ entries' = [entries EXCEPT ![id] = 0]
            /\ chain' = [chain EXCEPT ![r] = "over"]
            /\ registry[r].kind # "cron" \/ entries[id] = 0
    BY DEF TimerGoesOn, ArmTimer, Lapse
<1>2. /\ timers \in [CronIds -> {0} \cup Registrations] /\ chain \in [Registrations -> ChainStates]
      /\ entries \in [CronIds -> {0} \cup Registrations]
    BY <1>0 DEF MapsInv, Maps
<1>3. /\ \A q \in Registrations \ {r} : chain'[q] = chain[q]
      /\ \A i \in CronIds \ {id} : timers'[i] = timers[i] /\ entries'[i] = entries[i]
      /\ entries'[id] \in {entries[id], 0}
    BY SMT, <1>0, <1>1, <1>2
<1>4. \/ chain'[r] = "armed" /\ timers'[id] = r /\ entries'[id] = entries[id]
      \/ chain'[r] = "lapsed" /\ timers'[id] = 0
      \/ chain'[r] = "over" /\ timers'[id] = timers[id] /\ (registry[r].kind # "cron" \/ entries[id] = 0)
    BY SMT, <1>0, <1>1, <1>2
<1>5. IdOf(r)' = IdOf(r)
    BY <1>1 DEF IdOf
<1>6. Recurs(r) => Goes(r)'
    <2>1. Recurs(r) => entries[id] = r /\ registry[r].kind = "cron"
        BY <1>0, <1>1 DEF SoleInv, Goes, Recurs
    <2> QED BY <1>0, <1>4, <1>5, <2>1 DEF Goes
<1>7. /\ SoleInv'
      /\ \A i \in CronIds : /\ jobs'[i] # 0 => registry'[jobs'[i]].id = i
                            /\ entries'[i] # 0 => registry'[entries'[i]].id = i
      /\ \A i \in CronIds \ {id} :
           timers'[i] # 0 => registry'[timers'[i]].id = i /\ chain'[timers'[i]] = "armed"
    BY SMT, <1>1, <1>3, <1>6, TimerStep
<1>8. timers'[id] # 0 => registry'[timers'[id]].id = id /\ chain'[timers'[id]] = "armed"
    <2>1. timers[id] # 0 => /\ timers[id] \in Registrations \ {r} /\ IdOf(timers[id]) = id
                            /\ chain[timers[id]] = "armed"
        BY <1>0, <1>1, <1>2 DEF HomeInv
    <2>2. timers[id] # 0 => registry'[timers[id]].id = IdOf(timers[id])
        BY <2>1, <1>1
    <2>3. CASE timers'[id] = timers[id]
        BY <1>3, <2>1, <2>2, <2>3
    <2>4. CASE timers'[id] = r /\ chain'[r] = "armed"
        BY <1>5, <2>4
    <2> QED BY <1>4, <2>3, <2>4
<1>9. /\ \A x \in runs' : x.by = "timer" => chain'[x.source] = "awaiting"
      /\ \A x, y \in runs' : x.by = "timer" /\ y.by = "timer" /\ x.source = y.source => x = y
    <2>1. \A x \in runs : x.source \in Registrations
        BY <1>0 DEF Agree, Runs
    <2>2. /\ \A x \in runs : x.by = "timer" => chain[x.source] = "awaiting"
          /\ \A x, y \in runs : x.by = "timer" /\ y.by = "timer" /\ x.source = y.source => x = y
        BY <1>0 DEF HomeInv
    <2> QED BY <1>1, <1>3, <2>1, <2>2
<1> QED BY <1>0, <1>7, <1>8, <1>9 DEF HomeInv

(* Every step of the manager and its driver keeps every recurring job of   *)
(* an id that is used once going.                                          *)
LEMMA NextGoesOn == DriverInv /\ [CronNext]_cronVars => DriverInv'
<1> SUFFICES ASSUME DriverInv, [CronNext]_cronVars PROVE HomeInv' /\ SoleInv'
    BY NextInv DEF DriverInv
<1>0. CronInv /\ MapsInv
    BY DEF DriverInv, CronInv
<1>1. ASSUME NEW id \in CronIds, NEW kind \in {"cron", "date"}, NEW overlap \in {"allow", "skip", "queue"},
             schedule(id, kind, overlap)
      PROVE  HomeInv' /\ SoleInv'
    BY <1>1, ScheduleGoesOn
<1>2. ASSUME NEW id \in CronIds, cancel(id) PROVE HomeInv' /\ SoleInv'
    <2>1. jobs' = [i \in CronIds |-> IF i \in {id} THEN 0 ELSE jobs[i]]
        BY <1>0, <1>2 DEF cancel, MapsInv, Maps
    <2>2. DriverCancel({id}) /\ UNCHANGED <<registry, runs>>
        BY <1>2 DEF cancel
    <2> QED BY <2>1, <2>2, CancelGoesOn
<1>3. CASE dispose
    <2>1. jobs' = [i \in CronIds |-> IF i \in CronIds THEN 0 ELSE jobs[i]]
        BY <1>3 DEF dispose
    <2>2. DriverCancel(CronIds) /\ UNCHANGED <<registry, runs>>
        BY <1>3 DEF dispose
    <2> QED BY <2>1, <2>2, CancelGoesOn
<1>4. ASSUME NEW r \in Registrations, JobTimerFires(r) PROVE HomeInv' /\ SoleInv'
    BY <1>4, FireGoesOn
<1>5. ASSUME NEW r \in Registrations, TimerGoesOn(r) PROVE HomeInv' /\ SoleInv'
    BY <1>5, CallbackGoesOn
<1>6. ASSUME NEW run \in runs, RunEnds(run) PROVE HomeInv' /\ SoleInv'
    BY <1>6, EndGoesOn
<1>7. CASE UNCHANGED cronVars
    BY SMT, <1>7 DEF DriverInv, HomeInv, SoleInv, Recurs, Goes, Sole, IdOf, Registrations, cronVars, cronMaps
<1> QED BY <1>1, <1>2, <1>3, <1>4, <1>5, <1>6, <1>7 DEF CronNext

(* The constructor's empty maps satisfy it.                                *)
LEMMA DriverInitInv == CronInit => DriverInv
<1>1. CronInit => HomeInv /\ SoleInv
    BY SMT DEF CronInit, HomeInv, SoleInv, Registrations
<1> QED BY <1>1, InitInv DEF DriverInv

(* A recurring job whose id was registered once is never left in the       *)
(* manager without a timer cancel() finds or a callback that will set one, *)
(* unless its schedule has no next time (TimerScheduleDriver).             *)
THEOREM RecurringJobsGoOn == CronSpec => []RecurringGoesOn
<1>2. DriverInv => RecurringGoesOn
    <2> SUFFICES ASSUME DriverInv, NEW id \in CronIds, UsedOnce(id), jobs[id] # 0,
                        registry[jobs[id]].kind = "cron"
                 PROVE  \/ chain[jobs[id]] = "lapsed"
                        \/ /\ entries[id] = jobs[id]
                           /\ chain[jobs[id]] \in {"armed", "awaiting", "settled"}
                           /\ chain[jobs[id]] = "armed" => timers[id] = jobs[id]
        BY DEF RecurringGoesOn
    <2> DEFINE S == {r \in Registrations : IdOf(r) = id}
    <2>1. MapsInv /\ HomeInv /\ SoleInv
        BY DEF DriverInv, CronInv
    <2>2. jobs[id] \in S
        BY <2>1 DEF MapsInv, Maps, HomeInv
    <2>3. IsFiniteSet(S)
        <3>1. Registrations = 1..Len(registry) /\ Len(registry) \in Nat
            BY SMT, <2>1 DEF MapsInv, Registrations
        <3>2. IsFiniteSet(Registrations)
            BY SMT, <3>1, FS_Interval
        <3> QED BY <3>2, FS_Subset
    <2>4. PICK x : S = {x}
        BY <2>3, FS_Singleton DEF UsedOnce
    <2>5. Recurs(jobs[id])
        BY <2>1, <2>2, <2>4 DEF Recurs, Sole
    <2>6. Goes(jobs[id]) /\ IdOf(jobs[id]) = id
        BY <2>1, <2>2, <2>5 DEF SoleInv
    <2> QED BY <2>6 DEF Goes
<1> QED BY <1>2, DriverInitInv, NextGoesOn, PTL DEF CronSpec

(* What dispose ended stays ended, for any use of ids and any calls made   *)
(* afterwards: no job registered before it begins another run, and none of *)
(* its timers is set again unless its id was given to a new job            *)
(* (CronManager.dispose, TimerScheduleDriver.dispose).                     *)
THEOREM DisposeIsFinal == CronSpec => DisposedIsQuiet
<1> DEFINE Promise == \A r \in 1..cronDisposed :
             /\ \A run \in runs' \ runs : run.reg # r
             /\ chain'[r] = "armed" =>
                   chain[r] = "armed" \/ \E q \in Registrations : q > cronDisposed /\ IdOf(q) = IdOf(r)
<1>1. DriverInv /\ [CronNext]_cronVars => [Promise]_cronVars
    <2> SUFFICES ASSUME DriverInv, [CronNext]_cronVars, NEW r \in 1..cronDisposed
                 PROVE  /\ \A run \in runs' \ runs : run.reg # r
                        /\ chain'[r] = "armed" =>
                              chain[r] = "armed" \/ \E q \in Registrations : q > cronDisposed /\ IdOf(q) = IdOf(r)
        OBVIOUS
    <2>1. MapsInv /\ HomeInv /\ Quiet
        BY NextInv DEF DriverInv, CronInv
    <2>2. r \in Registrations /\ r \notin Newer
        BY SMT, <2>1 DEF MapsInv, Newer, Registrations
    <2>3. IdOf(r) \in CronIds
        BY <2>1, <2>2, Fields
    <2>4. ASSUME entries[IdOf(r)] # 0
          PROVE  \E q \in Registrations : q > cronDisposed /\ IdOf(q) = IdOf(r)
        <3>1. entries[IdOf(r)] \in Newer /\ IdOf(entries[IdOf(r)]) = IdOf(r)
            BY <2>1, <2>3, <2>4 DEF MapsInv, HomeInv
        <3> QED BY <3>1 DEF Newer
    <2> QED BY <2>1, <2>2, <2>4 DEF Quiet
<1> QED BY <1>1, DriverInitInv, NextGoesOn, PTL DEF CronSpec, DisposedIsQuiet

=============================================================================
