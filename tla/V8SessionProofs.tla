-------------------------- MODULE V8SessionProofs --------------------------
(***************************************************************************)
(* Slots are counted and answers to bridge calls are not lost, for any     *)
(* number of sessions and slots and any capacity of the channels.          *)
(***************************************************************************)
EXTENDS V8Session, TLAPS

\* Most leaves are first-order; the ones that need arithmetic or sequences say SMT.
USE Zenon

Places == {"none", "starting", "queued", "ended"} \cup HasSlot
GuestPlaces == {"script", "drain", "flush", "recv", "poll", "redrain", "handles"}
Running == Executing \ {"setup", "prepared", "init"}

\* The types of the state.
QueuesTyped ==
    /\ rx \in [V8Sessions -> Seq(V8Messages)] /\ setAside \in [V8Sessions -> Seq(V8Messages)]
    /\ deferred \in [V8Sessions -> Seq(V8Messages)] /\ frames \in [V8Sessions -> Seq(V8Messages)]
ThreadsTyped ==
    /\ thread \in [V8Sessions -> Places]
    /\ js \in [V8Sessions -> {"off", "on", "sync"}]
    /\ abort \in [V8Sessions -> {"none", "armed", "Terminated", "TimedOut"}]
    /\ timer \in [V8Sessions -> {"off", "on", "fired"}]
SetsTyped ==
    /\ isolate \subseteq V8Sessions /\ terminating \subseteq isolate
    /\ handles \subseteq V8Sessions /\ lastLoop \subseteq V8Sessions
CallsTyped ==
    /\ awaiting \in [V8Sessions -> Nat]
    /\ promises \in [V8Sessions -> SUBSET CallIds] /\ stale \in [V8Sessions -> SUBSET CallIds]

\* The host's side: who holds the manager's lock, and about which session.
HolderFits ==
    /\ \/ dispatching = NoHolder
       \/ /\ dispatching.step \in {"signal", "shut", "send"} /\ dispatching.s \in connected
          /\ dispatching.step = "send" => dispatching.m \in V8Messages
       \/ dispatching.step = "join" /\ dispatching.s \in V8Sessions \ connected
    /\ dispatches \in 0 .. MaxDispatches
    /\ doomed \subseteq connected /\ connected \subseteq V8Sessions

\* Call ids are given out one after the other.
CallsAreNumbered ==
    /\ \E n \in 0 .. MaxBridgeCalls : DOMAIN asker = 1 .. n
    /\ DOMAIN router \subseteq DOMAIN asker

\* A session: a guest is on the stack only where the thread runs it, ...
GuestIsPlaced(s) == js[s] # "off" => thread[s] \in GuestPlaces
\* ... an execution has an isolate, and its timer runs only while it does, ...
IsolateIsThere(s) ==
    /\ thread[s] \in Executing \ {"setup"} => s \in isolate
    /\ timer[s] = "on" => thread[s] \in Running
\* ... frames wait only while they are drained, ...
FramesWait(s) == frames[s] # <<>> => thread[s] \in {"drain", "redrain", "done"}
\* ... before its guest runs an execution has no promises of its own, ...
OnlyStale(s) == thread[s] \notin Running => promises[s] = stale[s]
\* ... a call is awaited in one way, ...
CallsDiffer(s) ==
    /\ stale[s] \subseteq promises[s] /\ promises[s] \subseteq DOMAIN asker
    /\ awaiting[s] \in DOMAIN asker \cup {0}
    /\ js[s] = "sync" => awaiting[s] \notin promises[s]
\* ... and a session that the manager does not have is one that is being joined.
IsJoined(s) ==
    s \in connected \/ thread[s] = "none" \/ (dispatching.step = "join" /\ dispatching.s = s)
HasRoomLeft(s) == Len(rx[s]) <= SessionChannel

Has(q, i) == \E k \in DOMAIN q : q[k] = Msg("BridgeResponse", i)
Comes(s, i) ==
    \/ OnItsWay(s, i) \/ s \notin connected \/ thread[s] = "done"
    \/ Has(deferred[s], i) \/ Has(frames[s], i)
AnswersCome(s) ==
    /\ js[s] = "sync" => OnItsWay(s, awaiting[s]) \/ s \notin connected
    /\ thread[s] \in Running => \A i \in promises[s] \ stale[s] : Comes(s, i)

SessionFits(s) ==
    /\ GuestIsPlaced(s) /\ IsolateIsThere(s) /\ FramesWait(s) /\ OnlyStale(s) /\ CallsDiffer(s)
    /\ IsJoined(s) /\ HasRoomLeft(s) /\ AnswersCome(s)

Typed == QueuesTyped /\ ThreadsTyped /\ SetsTyped /\ CallsTyped
V8Inv ==
    /\ Typed /\ HolderFits /\ CallsAreNumbered /\ SlotsAreHeld
    /\ \A s \in V8Sessions : SessionFits(s)

----------------------------------------------------------------------------
(* Queues, slots and the places of a thread.                               *)

\* Where a thread is, place by place.
LEMMA PlacesAre ==
    /\ HasSlot \subseteq Places /\ Executing \subseteq HasSlot /\ Running \subseteq Executing
    /\ GuestPlaces \subseteq Running
    /\ {"none", "starting", "queued", "ended"} \cap HasSlot = {}
    /\ {"none", "starting", "queued", "ended"} \subseteq Places
    /\ "idle" \in HasSlot /\ "idle" \notin Executing
    /\ {"setup", "prepared", "init"} \subseteq Executing \ Running
    /\ EventLoop \cup {"between", "done"} \subseteq Running
BY DEF Places, HasSlot, Executing, EventLoop, Running, GuestPlaces

\* Assigning to one argument of a function.
LEMMA Assigned ==
    ASSUME NEW S, NEW T, NEW f \in [S -> T], NEW s \in S, NEW x \in T
    PROVE  /\ [f EXCEPT ![s] = x] \in [S -> T] /\ [f EXCEPT ![s] = x][s] = x
           /\ \A t \in S \ {s} : [f EXCEPT ![s] = x][t] = f[t]
OBVIOUS

\* What a queue has after a message is put into it (tx.send, the deferred queue).
LEMMA HasAppended ==
    ASSUME NEW q \in Seq(V8Messages), NEW m \in V8Messages
    PROVE  /\ Append(q, m) \in Seq(V8Messages) /\ Len(Append(q, m)) = Len(q) + 1
           /\ \A i : Has(Append(q, m), i) <=> Has(q, i) \/ m = Msg("BridgeResponse", i)
<1>1. Append(q, m) \in Seq(V8Messages) /\ Len(Append(q, m)) = Len(q) + 1 /\ Len(q) \in Nat
  BY SMT
<1>2. DOMAIN Append(q, m) = DOMAIN q \cup {Len(q) + 1} /\ Append(q, m)[Len(q) + 1] = m
      /\ \A k \in DOMAIN q : Append(q, m)[k] = q[k]
  BY SMT
<1> QED
  BY <1>1, <1>2 DEF Has

\* What it has after its first message is taken (rx.recv, VecDeque::pop_front).
LEMMA HasTaken ==
    ASSUME NEW q \in Seq(V8Messages), q # <<>>
    PROVE  /\ Head(q) \in V8Messages /\ Tail(q) \in Seq(V8Messages) /\ Len(Tail(q)) = Len(q) - 1
           /\ \A i : Has(q, i) => Has(Tail(q), i) \/ Head(q) = Msg("BridgeResponse", i)
<1>1. Len(q) \in Nat \ {0} /\ DOMAIN q = 1 .. Len(q) /\ Head(q) = q[1]
  BY SMT
<1>2. Head(q) \in V8Messages /\ Tail(q) \in Seq(V8Messages) /\ Len(Tail(q)) = Len(q) - 1
  BY SMT, <1>1
<1>3. DOMAIN Tail(q) = 1 .. Len(q) - 1 /\ \A k \in 1 .. Len(q) - 1 : Tail(q)[k] = q[k + 1]
  BY SMT, <1>1, <1>2
<1>4. ASSUME NEW i, Has(q, i) PROVE Has(Tail(q), i) \/ Head(q) = Msg("BridgeResponse", i)
  <2>1. PICK k \in DOMAIN q : q[k] = Msg("BridgeResponse", i)
    BY <1>4 DEF Has
  <2>2. CASE k = 1
    BY <2>1, <2>2, <1>1
  <2>3. CASE k # 1
    <3>1. k - 1 \in 1 .. Len(q) - 1 /\ (k - 1) + 1 = k
      BY SMT, <2>1, <2>3, <1>1
    <3> QED
      BY <2>1, <3>1, <1>3 DEF Has
  <2> QED
    BY <2>2, <2>3
<1> QED
  BY <1>2, <1>4

Empty == <<>>
\* An empty queue has no answer.
LEMMA HasNone == Empty \in Seq(V8Messages) /\ Len(Empty) = 0 /\ \A i : ~Has(Empty, i)
BY SMT DEF Empty, Has

\* What the steps need to know of the sizes of sets. FiniteSetTheorems is instantiated, and shows
\* it, after the steps: the provers are slow where it is in scope.
SizesAdd ==
    /\ Cardinality({}) = 0 /\ \A n \in Nat : Cardinality(1 .. n) = n
    /\ \A S \in SUBSET V8Sessions :
         /\ Cardinality(S) \in Nat
         /\ \A s \in V8Sessions \ S : Cardinality(S \cup {s}) = Cardinality(S) + 1

SlotHolders == {s \in V8Sessions : thread[s] \in HasSlot}

\* A thread that moves keeps its slot or has none, ...
LEMMA SlotKept ==
    ASSUME SlotsAreHeld, slots' = slots,
           \A t \in V8Sessions : thread'[t] \in HasSlot <=> thread[t] \in HasSlot
    PROVE  SlotsAreHeld'
<1>1. SlotHolders' = SlotHolders
  BY DEF SlotHolders
<1>2. Cardinality(SlotHolders)' = Cardinality(SlotHolders)
  BY <1>1
<1>3. slots = Cardinality(SlotHolders) /\ slots <= MaxConcurrency
  BY DEF SlotsAreHeld, SlotHolders
<1>4. slots' = Cardinality(SlotHolders)' /\ slots' <= MaxConcurrency
  BY <1>2, <1>3
<1> QED
  BY <1>4 DEF SlotsAreHeld, SlotHolders

\* ... takes one when there is one, ...
LEMMA SlotTaken ==
    ASSUME SizesAdd, SlotsAreHeld, NEW s \in V8Sessions, thread[s] \notin HasSlot,
           thread'[s] \in HasSlot, \A t \in V8Sessions \ {s} : thread'[t] = thread[t],
           slots < MaxConcurrency, slots' = slots + 1
    PROVE  SlotsAreHeld'
<1>1. SlotHolders' = SlotHolders \cup {s} /\ s \notin SlotHolders /\ SlotHolders \subseteq V8Sessions
  BY SMT DEF SlotHolders
<1>2. Cardinality(SlotHolders') = Cardinality(SlotHolders) + 1 /\ Cardinality(SlotHolders) \in Nat
  BY <1>1 DEF SizesAdd
<1>3. slots = Cardinality(SlotHolders)
  BY DEF SlotsAreHeld, SlotHolders
<1>4. slots' = Cardinality(SlotHolders') /\ slots' <= MaxConcurrency
  BY SMT, <1>2, <1>3, V8Assumption
<1> QED
  BY <1>4 DEF SlotsAreHeld, SlotHolders

\* ... or gives it back.
LEMMA SlotGiven ==
    ASSUME SizesAdd, SlotsAreHeld, NEW s \in V8Sessions, thread[s] \in HasSlot,
           thread'[s] \notin HasSlot, \A t \in V8Sessions \ {s} : thread'[t] = thread[t],
           slots' = slots - 1
    PROVE  SlotsAreHeld'
<1>1. SlotHolders = SlotHolders' \cup {s} /\ s \notin SlotHolders' /\ SlotHolders' \subseteq V8Sessions
  BY SMT DEF SlotHolders
<1>2. Cardinality(SlotHolders) = Cardinality(SlotHolders') + 1 /\ Cardinality(SlotHolders') \in Nat
  BY <1>1 DEF SizesAdd
<1>3. slots = Cardinality(SlotHolders) /\ slots <= MaxConcurrency
  BY DEF SlotsAreHeld, SlotHolders
<1>4. slots' = Cardinality(SlotHolders') /\ slots' <= MaxConcurrency
  BY SMT, <1>2, <1>3, V8Assumption
<1> QED
  BY <1>4 DEF SlotsAreHeld, SlotHolders

----------------------------------------------------------------------------
(* Sessions that a step does not touch.                                    *)

Same(t) ==
    /\ rx'[t] = rx[t] /\ deferred'[t] = deferred[t] /\ frames'[t] = frames[t]
    /\ thread'[t] = thread[t] /\ js'[t] = js[t] /\ timer'[t] = timer[t]
    /\ awaiting'[t] = awaiting[t] /\ promises'[t] = promises[t] /\ stale'[t] = stale[t]
    /\ t \in isolate => t \in isolate'
CallsGrow ==
    /\ DOMAIN asker \subseteq DOMAIN asker' /\ DOMAIN router \subseteq DOMAIN router'
    /\ \A i \in DOMAIN router : router'[i] = router[i]
HostKeeps(t) ==
    /\ t \in connected' <=> t \in connected
    /\ \/ dispatching' = dispatching
       \/ ~(dispatching.step \in {"send", "join"} /\ dispatching.s = t)

\* An answer stays on its way while nobody takes it.
LEMMA WayKept ==
    ASSUME NEW t \in V8Sessions, NEW i, rx'[t] = rx[t], CallsGrow, HostKeeps(t), OnItsWay(t, i)
    PROVE  OnItsWay(t, i)'
<1>1. CASE i \in DOMAIN router /\ router[i] = t
  BY <1>1 DEF OnItsWay, CallsGrow
<1>2. CASE \E k \in DOMAIN rx[t] : rx[t][k] = Msg("BridgeResponse", i)
  <2>1. \E k \in DOMAIN rx'[t] : rx'[t][k] = Msg("BridgeResponse", i)
    BY <1>2
  <2> QED
    BY <2>1 DEF OnItsWay, Msg
<1>3. CASE dispatching.step = "send" /\ dispatching.s = t
             /\ dispatching.m = Msg("BridgeResponse", i)
  BY <1>3 DEF OnItsWay, HostKeeps, Msg
<1> QED
  BY <1>1, <1>2, <1>3 DEF OnItsWay

\* A session that a step leaves alone stays as it should be.
LEMMA AsideFits ==
    ASSUME NEW t \in V8Sessions, SessionFits(t), Same(t), CallsGrow, HostKeeps(t)
    PROVE  SessionFits(t)'
<1>1. GuestIsPlaced(t)' /\ IsolateIsThere(t)' /\ FramesWait(t)' /\ OnlyStale(t)' /\ HasRoomLeft(t)'
  BY DEF SessionFits, GuestIsPlaced, IsolateIsThere, FramesWait, OnlyStale, HasRoomLeft, Same
<1>2. CallsDiffer(t)'
  BY DEF SessionFits, CallsDiffer, Same, CallsGrow
<1>3. IsJoined(t)'
  BY DEF SessionFits, IsJoined, Same, HostKeeps
<1>4. ASSUME NEW i, Comes(t, i) PROVE Comes(t, i)'
  <2>1. OnItsWay(t, i) => OnItsWay(t, i)'
    BY WayKept DEF Same
  <2>2. Has(deferred[t], i) => Has(deferred[t], i)'
    BY DEF Has, Same, Msg
  <2>3. Has(frames[t], i) => Has(frames[t], i)'
    BY DEF Has, Same, Msg
  <2> QED
    BY <1>4, <2>1, <2>2, <2>3 DEF Comes, Same, HostKeeps
<1>5. js[t] = "sync" => OnItsWay(t, awaiting[t])' \/ t \notin connected'
  <2> SUFFICES ASSUME js[t] = "sync", t \in connected PROVE OnItsWay(t, awaiting[t])'
    BY DEF HostKeeps
  <2>1. OnItsWay(t, awaiting[t])
    BY DEF SessionFits, AnswersCome
  <2>2. \A i : OnItsWay(t, i) => OnItsWay(t, i)'
    BY WayKept DEF Same
  <2>3. PICK i : i = awaiting[t]
    OBVIOUS
  <2>4. OnItsWay(t, i)'
    BY <2>1, <2>2, <2>3
  <2>5. i = awaiting'[t]
    BY <2>3 DEF Same
  <2> QED
    BY <2>4, <2>5 DEF OnItsWay
<1>6. AnswersCome(t)'
  BY <1>4, <1>5 DEF SessionFits, AnswersCome, Same
<1> QED
  BY <1>1, <1>2, <1>3, <1>6 DEF SessionFits

----------------------------------------------------------------------------
(* Steps of one session's thread.                                          *)

Alone(s) ==
    /\ UNCHANGED hostVars /\ thread[s] # "none" /\ CallsGrow
    /\ \A t \in V8Sessions \ {s} : Same(t)

\* Such a step has to be looked at for its own session only.
LEMMA AloneFits ==
    ASSUME V8Inv, NEW s \in V8Sessions, Alone(s), Typed', CallsAreNumbered', SlotsAreHeld',
           GuestIsPlaced(s)', IsolateIsThere(s)', FramesWait(s)', OnlyStale(s)',
           CallsDiffer(s)', HasRoomLeft(s)', AnswersCome(s)'
    PROVE  V8Inv'
<1>1. HolderFits'
  BY DEF V8Inv, HolderFits, Alone, hostVars
<1>2. IsJoined(s)'
  <2>1. IsJoined(s)
    BY DEF V8Inv, SessionFits
  <2> QED
    BY <2>1 DEF IsJoined, Alone, hostVars
<1>3. ASSUME NEW t \in V8Sessions, t # s PROVE SessionFits(t)'
  <2>1. SessionFits(t) /\ Same(t) /\ CallsGrow /\ HostKeeps(t)
    BY <1>3 DEF V8Inv, Alone, HostKeeps, hostVars
  <2> QED
    BY <2>1, AsideFits
<1>4. SessionFits(s)'
  BY <1>2 DEF SessionFits
<1> QED
  BY <1>1, <1>3, <1>4 DEF V8Inv

\* A thread that moves without touching queues or calls.
Moves(s) ==
    /\ UNCHANGED <<hostVars, queueVars, callVars>> /\ thread[s] # "none"
    /\ \A t \in V8Sessions \ {s} :
         /\ thread'[t] = thread[t] /\ js'[t] = js[t] /\ timer'[t] = timer[t]
         /\ t \in isolate => t \in isolate'
Arrives(s) ==
    /\ js'[s] # "off" => thread'[s] \in GuestPlaces
    /\ thread'[s] \in Executing \ {"setup"} => s \in isolate'
    /\ timer'[s] = "on" => thread'[s] \in Running
    /\ frames[s] # <<>> => thread'[s] \in {"drain", "redrain", "done"}
    /\ thread'[s] \notin Running => thread[s] \notin Running
    /\ js'[s] = "sync" => js[s] = "sync"
    /\ thread[s] = "done" => thread'[s] = "done"

\* Such a step keeps the invariant.
LEMMA MovesFits ==
    ASSUME V8Inv, NEW s \in V8Sessions, Moves(s), Arrives(s), ThreadsTyped', SetsTyped',
           SlotsAreHeld'
    PROVE  V8Inv'
<1> USE DEF Moves, queueVars, callVars
<1>1. Typed'
  BY DEF V8Inv, Typed, QueuesTyped, CallsTyped
<1>2. CallsAreNumbered' /\ CallsGrow
  BY DEF V8Inv, CallsAreNumbered, CallsGrow
<1>3. Alone(s)
  BY <1>2 DEF Alone, Same
<1>4. SessionFits(s)
  BY DEF V8Inv
<1>5. GuestIsPlaced(s)' /\ IsolateIsThere(s)' /\ FramesWait(s)'
  BY DEF GuestIsPlaced, IsolateIsThere, FramesWait, Arrives
<1>6. OnlyStale(s)' /\ CallsDiffer(s)' /\ HasRoomLeft(s)'
  BY <1>4 DEF SessionFits, OnlyStale, CallsDiffer, HasRoomLeft, Arrives
<1>7. ASSUME NEW i PROVE /\ OnItsWay(s, i) => OnItsWay(s, i)'
                         /\ Comes(s, i) => Comes(s, i)'
  <2>1. OnItsWay(s, i) => OnItsWay(s, i)'
    <3>1. HostKeeps(s)
      BY DEF HostKeeps, hostVars
    <3> QED
      BY <3>1, <1>2, WayKept
  <2>2. Has(deferred[s], i) => Has(deferred[s], i)'
    BY DEF Has, Msg
  <2>3. Has(frames[s], i) => Has(frames[s], i)'
    BY DEF Has, Msg
  <2> QED
    BY <2>1, <2>2, <2>3 DEF Comes, Arrives, hostVars
<1>8. AnswersCome(s)'
  <2>1. js'[s] = "sync" => OnItsWay(s, awaiting[s])' \/ s \notin connected'
    <3> SUFFICES ASSUME js'[s] = "sync", s \in connected' PROVE OnItsWay(s, awaiting[s])'
      OBVIOUS
    <3>1. OnItsWay(s, awaiting[s])
      BY <1>4 DEF SessionFits, AnswersCome, Arrives, hostVars
    <3>2. PICK i : i = awaiting[s]
      OBVIOUS
    <3>3. OnItsWay(s, i)'
      BY <3>1, <3>2, <1>7
    <3>4. i = awaiting'[s]
      BY <3>2
    <3> QED
      BY <3>3, <3>4 DEF OnItsWay
  <2>2. thread'[s] \in Running => \A i \in promises'[s] \ stale'[s] : Comes(s, i)'
    BY <1>4, <1>7 DEF SessionFits, AnswersCome, OnlyStale
  <2> QED
    BY <2>1, <2>2 DEF AnswersCome
<1> QED
  BY <1>1, <1>2, <1>3, <1>5, <1>6, <1>8, AloneFits

\* A thread goes to a place: what is known of the places after that.
LEMMA Goes ==
    ASSUME V8Inv, NEW s \in V8Sessions, NEW x \in Places, At(s, x)
    PROVE  /\ thread' \in [V8Sessions -> Places] /\ thread'[s] = x
           /\ \A t \in V8Sessions \ {s} : thread'[t] = thread[t]
           /\ slots' = slots /\ (x \in HasSlot <=> thread[s] \in HasSlot) => SlotsAreHeld'
<1>1. thread \in [V8Sessions -> Places] /\ SlotsAreHeld
  BY DEF V8Inv, Typed, ThreadsTyped
<1>2. /\ thread' \in [V8Sessions -> Places] /\ thread'[s] = x
      /\ \A t \in V8Sessions \ {s} : thread'[t] = thread[t]
  BY <1>1, Assigned DEF At
<1> QED
  BY <1>1, <1>2, SlotKept

\* What the parts of the invariant say of one session.
LEMMA Facts ==
    ASSUME V8Inv, NEW s \in V8Sessions
    PROVE  /\ ThreadsTyped /\ SetsTyped /\ QueuesTyped /\ CallsTyped
           /\ thread[s] \in Places /\ js[s] \in {"off", "on", "sync"}
           /\ GuestIsPlaced(s) /\ IsolateIsThere(s) /\ FramesWait(s)
           /\ OnlyStale(s) /\ CallsDiffer(s) /\ HasRoomLeft(s) /\ AnswersCome(s) /\ IsJoined(s)
BY DEF V8Inv, Typed, ThreadsTyped, SessionFits

\* The thread starts (session_thread).
LEMMA StartThreadStep ==
    ASSUME SizesAdd, V8Inv, NEW s \in V8Sessions, StartThread(s) PROVE V8Inv'
<1> USE DEF StartThread
<1>1. PICK x \in {"idle", "queued"} :
        /\ At(s, x)
        /\ \/ x = "queued" /\ slots' = slots
           \/ x = "idle" /\ slots < MaxConcurrency /\ slots' = slots + 1
  BY DEF AcquireSlot, At
<1>2. x \in Places /\ "queued" \notin HasSlot /\ "starting" \notin HasSlot /\ "idle" \in HasSlot
      /\ "starting" \notin Executing /\ x \notin Executing /\ "starting" # "none"
  BY PlacesAre
<1>3. /\ thread' \in [V8Sessions -> Places] /\ thread'[s] = x
      /\ \A t \in V8Sessions \ {s} : thread'[t] = thread[t]
      /\ slots' = slots /\ (x \in HasSlot <=> thread[s] \in HasSlot) => SlotsAreHeld'
  BY <1>1, <1>2, Goes
<1>4. SlotsAreHeld'
  BY <1>1, <1>2, <1>3, SlotTaken DEF V8Inv
<1>5. ThreadsTyped' /\ SetsTyped'
  BY <1>3, Facts DEF ThreadsTyped, SetsTyped, abortVars, guestVars
<1>6. Moves(s)
  BY <1>2, <1>3 DEF Moves, abortVars
<1>7. Arrives(s)
  BY <1>2, <1>3, Facts, PlacesAre DEF Arrives, abortVars, GuestIsPlaced, IsolateIsThere, FramesWait
<1> QED
  BY <1>4, <1>5, <1>6, <1>7, MovesFits

\* What the rest of a step of a thread that has a slot leaves in order.
RestTyped(s) ==
    /\ js' \in [V8Sessions -> {"off", "on", "sync"}]
    /\ abort' \in [V8Sessions -> {"none", "armed", "Terminated", "TimedOut"}]
    /\ timer' \in [V8Sessions -> {"off", "on", "fired"}]
    /\ \A t \in V8Sessions \ {s} : js'[t] = js[t] /\ timer'[t] = timer[t]
                                   /\ (t \in isolate => t \in isolate')

\* A thread with a slot goes from one place to another.
LEMMA MovesOn ==
    ASSUME V8Inv, NEW s \in V8Sessions, NEW x \in HasSlot, thread[s] \in HasSlot, At(s, x),
           slots' = slots, UNCHANGED <<hostVars, queueVars, callVars>>,
           RestTyped(s), SetsTyped', Arrives(s)
    PROVE  V8Inv'
<1>1. x \in Places /\ thread[s] # "none"
  BY PlacesAre
<1>2. /\ thread' \in [V8Sessions -> Places] /\ thread'[s] = x
      /\ \A t \in V8Sessions \ {s} : thread'[t] = thread[t]
      /\ slots' = slots /\ (x \in HasSlot <=> thread[s] \in HasSlot) => SlotsAreHeld'
  BY <1>1, Goes
<1>3. ThreadsTyped' /\ SlotsAreHeld'
  BY <1>2 DEF ThreadsTyped, RestTyped
<1>4. Moves(s)
  BY <1>1, <1>2 DEF Moves, RestTyped
<1> QED
  BY <1>3, <1>4, MovesFits

\* An isolate is made and its handle published.
LEMMA PublishIsolateStep == ASSUME V8Inv, NEW s \in V8Sessions, PublishIsolate(s) PROVE V8Inv'
<1> USE DEF PublishIsolate, LoopAt
<1>1. "prepared" \in HasSlot /\ thread[s] \in HasSlot /\ At(s, "prepared") /\ slots' = slots
      /\ UNCHANGED <<hostVars, queueVars, callVars>>
  BY DEF HasSlot, Executing, EventLoop
<1>2. thread'[s] = "prepared"
  BY <1>1, PlacesAre, Goes
<1>3. RestTyped(s)
  BY Facts DEF RestTyped, ThreadsTyped, abortVars
<1>4. SetsTyped'
  BY Facts, <1>1, PlacesAre DEF SetsTyped, IsolateIsThere, Executing, EventLoop, abortVars, guestVars
<1>5. Arrives(s)
  BY <1>1, <1>2, Facts DEF Arrives, ThreadsTyped, GuestIsPlaced, IsolateIsThere, FramesWait,
     GuestPlaces, Running, Executing, EventLoop, abortVars
<1> QED
  BY <1>1, <1>3, <1>4, <1>5, MovesOn

\* The execution's abort channel is armed (arm_execution_abort).
LEMMA ArmStep == ASSUME V8Inv, NEW s \in V8Sessions, Arm(s) PROVE V8Inv'
<1> USE DEF Arm, LoopAt
<1>1. "init" \in HasSlot /\ thread[s] \in HasSlot /\ At(s, "init") /\ slots' = slots
      /\ UNCHANGED <<hostVars, queueVars, callVars>>
  BY DEF HasSlot, Executing, EventLoop
<1>2. thread'[s] = "init"
  BY <1>1, PlacesAre, Goes
<1>3. RestTyped(s)
  BY Facts DEF RestTyped, ThreadsTyped, abortVars
<1>4. SetsTyped'
  BY Facts, <1>1, PlacesAre DEF SetsTyped, IsolateIsThere, Executing, EventLoop, abortVars, guestVars
<1>5. Arrives(s)
  BY <1>1, <1>2, Facts DEF Arrives, ThreadsTyped, GuestIsPlaced, IsolateIsThere, FramesWait,
     GuestPlaces, Running, Executing, EventLoop, abortVars
<1> QED
  BY <1>1, <1>3, <1>4, <1>5, MovesOn

\* The init script fails.
LEMMA InitScriptFailsStep == ASSUME V8Inv, NEW s \in V8Sessions, InitScriptFails(s) PROVE V8Inv'
<1> USE DEF InitScriptFails, LoopAt
<1>1. "idle" \in HasSlot /\ thread[s] \in HasSlot /\ At(s, "idle") /\ slots' = slots
      /\ UNCHANGED <<hostVars, queueVars, callVars>>
  BY DEF HasSlot, Executing, EventLoop
<1>2. thread'[s] = "idle"
  BY <1>1, PlacesAre, Goes
<1>3. RestTyped(s)
  BY Facts DEF RestTyped, ThreadsTyped, abortVars
<1>4. SetsTyped'
  BY Facts, <1>1, PlacesAre DEF SetsTyped, IsolateIsThere, Executing, EventLoop, abortVars, guestVars
<1>5. Arrives(s)
  BY <1>1, <1>2, Facts DEF Arrives, ThreadsTyped, GuestIsPlaced, IsolateIsThere, FramesWait,
     GuestPlaces, Running, Executing, EventLoop, abortVars
<1> QED
  BY <1>1, <1>3, <1>4, <1>5, MovesOn

\* The init script has run and the guest's script starts.
LEMMA InitScriptRunsStep == ASSUME V8Inv, NEW s \in V8Sessions, InitScriptRuns(s) PROVE V8Inv'
<1> USE DEF InitScriptRuns, LoopAt
<1>1. "script" \in HasSlot /\ thread[s] \in HasSlot /\ At(s, "script") /\ slots' = slots
      /\ UNCHANGED <<hostVars, queueVars, callVars>>
  BY DEF HasSlot, Executing, EventLoop
<1>2. thread'[s] = "script"
  BY <1>1, PlacesAre, Goes
<1>3. RestTyped(s)
  BY Facts DEF RestTyped, ThreadsTyped, abortVars
<1>4. SetsTyped'
  BY Facts, <1>1, PlacesAre DEF SetsTyped, IsolateIsThere, Executing, EventLoop, abortVars, guestVars
<1>5. Arrives(s)
  BY <1>1, <1>2, Facts DEF Arrives, ThreadsTyped, GuestIsPlaced, IsolateIsThere, FramesWait,
     GuestPlaces, Running, Executing, EventLoop, abortVars
<1> QED
  BY <1>1, <1>3, <1>4, <1>5, MovesOn

\* The event loop finds its abort channel closed.
LEMMA LoopAbortsStep == ASSUME V8Inv, NEW s \in V8Sessions, LoopAborts(s) PROVE V8Inv'
<1> USE DEF LoopAborts, LoopAt
<1>1. "done" \in HasSlot /\ thread[s] \in HasSlot /\ At(s, "done") /\ slots' = slots
      /\ UNCHANGED <<hostVars, queueVars, callVars>>
  BY DEF HasSlot, Executing, EventLoop
<1>2. thread'[s] = "done"
  BY <1>1, PlacesAre, Goes
<1>3. RestTyped(s)
  BY Facts DEF RestTyped, ThreadsTyped, abortVars
<1>4. SetsTyped'
  BY Facts, <1>1, PlacesAre DEF SetsTyped, IsolateIsThere, Executing, EventLoop, abortVars, guestVars
<1>5. Arrives(s)
  BY <1>1, <1>2, Facts DEF Arrives, ThreadsTyped, GuestIsPlaced, IsolateIsThere, FramesWait,
     GuestPlaces, Running, Executing, EventLoop, abortVars
<1> QED
  BY <1>1, <1>3, <1>4, <1>5, MovesOn

\* Nothing came for a while: timers of the guest run.
LEMMA LoopPollsStep == ASSUME V8Inv, NEW s \in V8Sessions, LoopPolls(s) PROVE V8Inv'
<1> USE DEF LoopPolls, LoopAt
<1>1. "poll" \in HasSlot /\ thread[s] \in HasSlot /\ At(s, "poll") /\ slots' = slots
      /\ UNCHANGED <<hostVars, queueVars, callVars>>
  BY DEF HasSlot, Executing, EventLoop
<1>2. thread'[s] = "poll"
  BY <1>1, PlacesAre, Goes
<1>3. RestTyped(s)
  BY Facts DEF RestTyped, ThreadsTyped, abortVars
<1>4. SetsTyped'
  BY Facts, <1>1, PlacesAre DEF SetsTyped, IsolateIsThere, Executing, EventLoop, abortVars, guestVars
<1>5. Arrives(s)
  BY <1>1, <1>2, Facts DEF Arrives, ThreadsTyped, GuestIsPlaced, IsolateIsThere, FramesWait,
     GuestPlaces, Running, Executing, EventLoop, abortVars
<1> QED
  BY <1>1, <1>3, <1>4, <1>5, MovesOn

\* The isolate of the last execution is dropped, or the timer fires: the thread stays.
LEMMA DropIsolateStep == ASSUME V8Inv, NEW s \in V8Sessions, DropIsolate(s) PROVE V8Inv'
<1> USE DEF DropIsolate
<1>1. ThreadsTyped' /\ SetsTyped'
  BY Facts DEF ThreadsTyped, SetsTyped, guestVars
<1>2. Moves(s)
  BY DEF Moves
<1>3. Arrives(s)
  BY Facts DEF Arrives, GuestIsPlaced, IsolateIsThere, FramesWait
<1>4. SlotsAreHeld'
  BY SlotKept DEF V8Inv
<1> QED
  BY <1>1, <1>2, <1>3, <1>4, MovesFits

\* The deadline passes: the abort is raised and V8 told to terminate.
LEMMA TimerFiresStep == ASSUME V8Inv, NEW s \in V8Sessions, TimerFires(s) PROVE V8Inv'
<1> USE DEF TimerFires
<1>1. s \in isolate
  BY Facts, PlacesAre DEF IsolateIsThere
<1>2. abort' \in [V8Sessions -> {"none", "armed", "Terminated", "TimedOut"}]
  BY Facts DEF ThreadsTyped, signal_execution_abort
<1>3. ThreadsTyped' /\ SetsTyped'
  BY <1>1, <1>2, Facts DEF ThreadsTyped, SetsTyped, guestVars
<1>4. Moves(s)
  BY Facts, PlacesAre DEF Moves, ThreadsTyped, IsolateIsThere
<1>5. Arrives(s)
  BY Facts DEF Arrives, ThreadsTyped, GuestIsPlaced, IsolateIsThere, FramesWait
<1>6. SlotsAreHeld'
  BY SlotKept DEF V8Inv
<1> QED
  BY <1>3, <1>4, <1>5, <1>6, MovesFits

\* Where the thread goes when guest code returns: frames that are drained stay so.
LEMMA AfterGuestIs ==
    ASSUME NEW s, thread[s] \in GuestPlaces
    PROVE  /\ AfterGuest(s) \in HasSlot /\ AfterGuest(s) \in Running /\ AfterGuest(s) # "done"
           /\ thread[s] \in {"drain", "redrain"} => AfterGuest(s) = thread[s]
BY DEF GuestPlaces, AfterGuest, HasSlot, Running, Executing, EventLoop

\* Guest code returns.
LEMMA GuestReturnsStep == ASSUME V8Inv, NEW s \in V8Sessions, GuestReturns(s) PROVE V8Inv'
<1> USE DEF GuestReturns, LoopAt
<1>1. PICK x \in HasSlot :
        /\ At(s, x) /\ thread[s] \in HasSlot /\ slots' = slots
        /\ UNCHANGED <<hostVars, queueVars, callVars>>
        /\ x \in Running /\ (thread[s] \in {"drain", "redrain", "done"} => x = thread[s])
  BY SMT, Facts, AfterGuestIs, PlacesAre DEF GuestIsPlaced, GuestPlaces
<1>2. thread'[s] = x
  BY <1>1, PlacesAre, Goes
<1>3. RestTyped(s)
  BY <1>1, Facts DEF RestTyped, ThreadsTyped, abortVars
<1>4. SetsTyped'
  BY Facts DEF SetsTyped, guestVars, abortVars
<1>5. Arrives(s)
  BY <1>1, <1>2, Facts DEF Arrives, ThreadsTyped, GuestIsPlaced, IsolateIsThere, FramesWait,
     GuestPlaces, Running, Executing, EventLoop, abortVars
<1> QED
  BY <1>1, <1>3, <1>4, <1>5, MovesOn

\* Guest code ends with an exception or is terminated.
LEMMA GuestThrowsStep == ASSUME V8Inv, NEW s \in V8Sessions, GuestThrows(s) PROVE V8Inv'
<1> USE DEF GuestThrows, LoopAt
<1>1. PICK x \in HasSlot :
        /\ At(s, x) /\ thread[s] \in HasSlot /\ slots' = slots
        /\ UNCHANGED <<hostVars, queueVars, callVars>>
        /\ x \in Running
        /\ (thread[s] \in {"drain", "redrain", "done"} => x \in {thread[s], "done"})
        /\ (thread[s] # "done")
  <2>1. "done" \in HasSlot /\ "done" \in Running
    BY PlacesAre
  <2> QED
    BY SMT, <2>1, Facts, AfterGuestIs, PlacesAre DEF GuestIsPlaced, GuestPlaces
<1>2. thread'[s] = x
  BY <1>1, PlacesAre, Goes
<1>3. RestTyped(s)
  BY <1>1, Facts DEF RestTyped, ThreadsTyped, abortVars
<1>4. SetsTyped'
  BY Facts DEF SetsTyped, guestVars, abortVars
<1>5. Arrives(s)
  BY <1>1, <1>2, Facts DEF Arrives, ThreadsTyped, GuestIsPlaced, IsolateIsThere, FramesWait,
     GuestPlaces, Running, Executing, EventLoop, abortVars
<1> QED
  BY <1>1, <1>3, <1>4, <1>5, MovesOn

\* All is drained: the loop ends, waits for a command or lets microtasks run.
LEMMA LoopDrainedStep == ASSUME V8Inv, NEW s \in V8Sessions, LoopDrained(s) PROVE V8Inv'
<1> USE DEF LoopDrained, LoopAt
<1>1. PICK x \in HasSlot :
        /\ At(s, x) /\ thread[s] \in HasSlot /\ slots' = slots
        /\ UNCHANGED <<hostVars, queueVars, callVars>> /\ frames[s] = <<>>
        /\ x \in {"done", "between", "recv", "flush"}
        /\ \/ js' = js
           \/ x = "flush" /\ js' = [js EXCEPT ![s] = "on"]
  BY DEF LoopEnds, HasSlot, Executing, EventLoop
<1>2. thread'[s] = x
  BY <1>1, PlacesAre, Goes
<1>3. RestTyped(s)
  BY <1>1, Facts DEF RestTyped, ThreadsTyped, abortVars
<1>4. SetsTyped'
  BY Facts DEF SetsTyped, guestVars, abortVars
<1>5. Arrives(s)
  BY <1>1, <1>2, Facts DEF Arrives, ThreadsTyped, GuestIsPlaced, IsolateIsThere, FramesWait,
     GuestPlaces, Running, Executing, EventLoop, abortVars
<1> QED
  BY <1>1, <1>3, <1>4, <1>5, MovesOn

\* After the first loop the execution ends or waits for active handles.
LEMMA SecondLoopStep == ASSUME V8Inv, NEW s \in V8Sessions, SecondLoop(s) PROVE V8Inv'
<1> USE DEF SecondLoop, LoopAt
<1>1. PICK x \in HasSlot :
        /\ At(s, x) /\ thread[s] \in HasSlot /\ slots' = slots
        /\ UNCHANGED <<hostVars, queueVars, callVars>>
        /\ x \in {"done", "handles"}
        /\ \/ x = "done" /\ js' = js
           \/ x = "handles" /\ js' = [js EXCEPT ![s] = "on"]
  BY DEF HasSlot, Executing, EventLoop
<1>2. thread'[s] = x
  BY <1>1, PlacesAre, Goes
<1>3. RestTyped(s)
  BY <1>1, Facts DEF RestTyped, ThreadsTyped, abortVars
<1>4. SetsTyped'
  BY Facts DEF SetsTyped, guestVars, abortVars
<1>5. Arrives(s)
  BY <1>1, <1>2, Facts DEF Arrives, ThreadsTyped, GuestIsPlaced, IsolateIsThere, FramesWait,
     GuestPlaces, Running, Executing, EventLoop, abortVars
<1> QED
  BY <1>1, <1>3, <1>4, <1>5, MovesOn

----------------------------------------------------------------------------
(* The thread outside an execution.                                        *)

\* What a step that ends outside the guest's execution leaves for its session.
Rests(s) ==
    /\ UNCHANGED <<hostVars, router, asker>> /\ thread[s] # "none"
    /\ \A t \in V8Sessions \ {s} : Same(t)
    /\ js'[s] = "off" /\ timer'[s] # "on" /\ frames'[s] = <<>>
    /\ thread'[s] \notin Executing \ {"setup"}
    /\ promises'[s] = promises[s] /\ stale'[s] = promises[s] /\ awaiting'[s] = awaiting[s]
    /\ Len(rx'[s]) <= SessionChannel

\* Such a step keeps the invariant.
LEMMA RestsFits ==
    ASSUME V8Inv, NEW s \in V8Sessions, Rests(s), Typed', SlotsAreHeld'
    PROVE  V8Inv'
<1> USE DEF Rests
<1>1. CallsAreNumbered' /\ CallsGrow
  BY DEF V8Inv, CallsAreNumbered, CallsGrow
<1>2. Alone(s)
  BY <1>1 DEF Alone
<1>3. thread'[s] \notin Running
  BY PlacesAre DEF Running
<1>4. GuestIsPlaced(s)' /\ IsolateIsThere(s)' /\ FramesWait(s)' /\ OnlyStale(s)' /\ HasRoomLeft(s)'
  BY DEF GuestIsPlaced, IsolateIsThere, FramesWait, OnlyStale, HasRoomLeft
<1>5. CallsDiffer(s)' /\ AnswersCome(s)'
  BY <1>3, Facts DEF CallsDiffer, AnswersCome
<1> QED
  BY <1>1, <1>2, <1>4, <1>5, AloneFits

\* The slot loop, with commands set aside.
LEMMA WakeQueuedStep ==
    ASSUME SizesAdd, V8Inv, NEW s \in V8Sessions, WakeQueued(s) PROVE V8Inv'
<1> USE DEF WakeQueued
<1>1. PICK x \in {"idle", "queued", "ended"} :
        /\ At(s, x)
        /\ \/ x # "idle" /\ slots' = slots
           \/ x = "idle" /\ slots < MaxConcurrency /\ slots' = slots + 1
  BY DEF AcquireSlot, At
<1>2. x \in Places /\ "queued" \notin HasSlot /\ "ended" \notin HasSlot /\ "idle" \in HasSlot
      /\ x \notin Executing /\ "queued" \notin Executing
  BY PlacesAre
<1>3. /\ thread' \in [V8Sessions -> Places] /\ thread'[s] = x
      /\ \A t \in V8Sessions \ {s} : thread'[t] = thread[t]
      /\ slots' = slots /\ (x \in HasSlot <=> thread[s] \in HasSlot) => SlotsAreHeld'
  BY <1>1, <1>2, Goes
<1>4. SlotsAreHeld'
  BY <1>1, <1>2, <1>3, SlotTaken DEF V8Inv
<1>5. /\ rx' \in [V8Sessions -> Seq(V8Messages)] /\ setAside' \in [V8Sessions -> Seq(V8Messages)]
      /\ \A t \in V8Sessions \ {s} : rx'[t] = rx[t]
      /\ Len(rx'[s]) <= SessionChannel
  <2>1. rx \in [V8Sessions -> Seq(V8Messages)] /\ setAside \in [V8Sessions -> Seq(V8Messages)]
        /\ Len(rx[s]) <= SessionChannel /\ Len(rx[s]) \in Nat
    BY SMT, Facts DEF QueuesTyped, HasRoomLeft
  <2>0. \/ UNCHANGED <<rx, setAside>>
        \/ /\ rx[s] # <<>> /\ rx' = [rx EXCEPT ![s] = Tail(@)]
           /\ setAside' = [setAside EXCEPT ![s] = Append(@, Head(rx[s]))]
    OBVIOUS
  <2> HIDE DEF WakeQueued
  <2>2. CASE UNCHANGED <<rx, setAside>>
    BY <2>1, <2>2
  <2>3. CASE rx[s] # <<>> /\ rx' = [rx EXCEPT ![s] = Tail(@)]
             /\ setAside' = [setAside EXCEPT ![s] = Append(@, Head(rx[s]))]
    <3>1. /\ Head(rx[s]) \in V8Messages /\ Tail(rx[s]) \in Seq(V8Messages)
          /\ Len(Tail(rx[s])) = Len(rx[s]) - 1
      BY <2>1, <2>3, HasTaken
    <3>2. Append(setAside[s], Head(rx[s])) \in Seq(V8Messages)
      BY SMT, <2>1, <3>1
    <3>3. setAside' \in [V8Sessions -> Seq(V8Messages)]
      BY <2>1, <2>3, <3>2
    <3>4. /\ rx' \in [V8Sessions -> Seq(V8Messages)] /\ rx'[s] = Tail(rx[s])
          /\ \A t \in V8Sessions \ {s} : rx'[t] = rx[t]
      BY <2>1, <2>3, <3>1
    <3> QED
      BY SMT, <2>1, <3>1, <3>3, <3>4, V8Assumption
  <2> QED
    BY <2>0, <2>2, <2>3
<1>6. Typed'
  <2>1. QueuesTyped' /\ ThreadsTyped'
    BY <1>3, <1>5, Facts DEF QueuesTyped, ThreadsTyped, abortVars, guestVars, callVars
  <2>2. SetsTyped' /\ CallsTyped'
    BY Facts DEF SetsTyped, CallsTyped, abortVars, guestVars, callVars
  <2> QED
    BY <2>1, <2>2 DEF Typed
<1>7. Rests(s)
  <2>1. \A t \in V8Sessions \ {s} : Same(t)
    BY <1>3, <1>5 DEF Same, abortVars, callVars
  <2>2. js[s] = "off" /\ timer[s] # "on" /\ frames[s] = <<>> /\ promises[s] = stale[s]
    BY <1>2, Facts, PlacesAre DEF GuestIsPlaced, IsolateIsThere, FramesWait, OnlyStale
  <2> QED
    BY <1>2, <1>3, <1>5, <2>1, <2>2 DEF Rests, abortVars, callVars, hostVars
<1> QED
  BY <1>4, <1>6, <1>7, RestsFits

\* The thread takes its next command: it executes, goes on or ends.
LEMMA NextCommandStep ==
    ASSUME SizesAdd, V8Inv, NEW s \in V8Sessions, NextCommand(s) PROVE V8Inv'
<1> USE DEF NextCommand
<1>1. PICK x \in {"idle", "setup", "ended"} :
        /\ At(s, x)
        /\ \/ x # "ended" /\ slots' = slots /\ isolate' = isolate /\ terminating' = terminating
           \/ /\ x = "ended" /\ slots' = slots - 1
              /\ isolate' = isolate \ {s} /\ terminating' = terminating \ {s}
  BY DEF ReleaseSlot, At
<1>2. x \in Places /\ "idle" \in HasSlot /\ "setup" \in HasSlot /\ "ended" \notin HasSlot
      /\ x \notin Executing \ {"setup"} /\ "idle" \notin Executing
  BY PlacesAre
<1>3. /\ thread' \in [V8Sessions -> Places] /\ thread'[s] = x
      /\ \A t \in V8Sessions \ {s} : thread'[t] = thread[t]
      /\ slots' = slots /\ (x \in HasSlot <=> thread[s] \in HasSlot) => SlotsAreHeld'
  BY <1>1, <1>2, Goes
<1>4. SlotsAreHeld'
  BY <1>1, <1>2, <1>3, SlotGiven DEF V8Inv
<1>5. /\ rx' \in [V8Sessions -> Seq(V8Messages)] /\ setAside' \in [V8Sessions -> Seq(V8Messages)]
      /\ \A t \in V8Sessions \ {s} : rx'[t] = rx[t]
      /\ Len(rx'[s]) <= SessionChannel
  <2>1. rx \in [V8Sessions -> Seq(V8Messages)] /\ setAside \in [V8Sessions -> Seq(V8Messages)]
        /\ Len(rx[s]) <= SessionChannel /\ Len(rx[s]) \in Nat
    BY SMT, Facts DEF QueuesTyped, HasRoomLeft
  <2>2. setAside[s] # <<>> => Tail(setAside[s]) \in Seq(V8Messages)
    BY <2>1, HasTaken
  <2>3. rx[s] # <<>> => /\ Tail(rx[s]) \in Seq(V8Messages) /\ Len(Tail(rx[s])) = Len(rx[s]) - 1
    BY <2>1, HasTaken
  <2>4. setAside' = setAside \/ (setAside[s] # <<>> /\ setAside' = [setAside EXCEPT ![s] = Tail(@)])
    OBVIOUS
  <2>5. rx' = rx \/ (rx[s] # <<>> /\ rx' = [rx EXCEPT ![s] = Tail(@)])
    OBVIOUS
  <2>6. setAside' \in [V8Sessions -> Seq(V8Messages)]
    BY <2>1, <2>2, <2>4
  <2> QED
    BY SMT, <2>1, <2>3, <2>5, <2>6, V8Assumption
<1>6. Typed'
  BY <1>1, <1>3, <1>5, Facts DEF Typed, QueuesTyped, ThreadsTyped, SetsTyped, CallsTyped,
     guestVars, callVars
<1>7. Rests(s)
  <2>1. \A t \in V8Sessions \ {s} : Same(t)
    BY <1>1, <1>3, <1>5 DEF Same, callVars
  <2>2. js[s] = "off" /\ timer[s] # "on" /\ frames[s] = <<>> /\ promises[s] = stale[s]
    BY <1>2, Facts, PlacesAre DEF GuestIsPlaced, IsolateIsThere, FramesWait, OnlyStale
  <2> QED
    BY <1>2, <1>3, <1>5, <2>1, <2>2 DEF Rests, callVars, hostVars
<1> QED
  BY <1>4, <1>6, <1>7, RestsFits

\* The result of an execution is sent.
LEMMA ReportStep == ASSUME V8Inv, NEW s \in V8Sessions, Report(s) PROVE V8Inv'
<1> USE DEF Report
<1>1. "idle" \in Places /\ "idle" \in HasSlot /\ "done" \in HasSlot /\ "idle" \notin Executing
      /\ "done" \notin GuestPlaces
  BY PlacesAre DEF GuestPlaces
<1>2. /\ thread' \in [V8Sessions -> Places] /\ thread'[s] = "idle"
      /\ \A t \in V8Sessions \ {s} : thread'[t] = thread[t]
      /\ SlotsAreHeld'
  BY <1>1, Goes
<1>3. Typed'
  <2>1. QueuesTyped'
    BY Facts, HasNone DEF QueuesTyped, Empty
  <2> QED
    BY <1>2, <2>1, Facts DEF Typed, ThreadsTyped, SetsTyped, CallsTyped
<1>4. Rests(s)
  <2>1. \A t \in V8Sessions \ {s} : Same(t)
    BY <1>2, Facts DEF Same, QueuesTyped, ThreadsTyped, CallsTyped
  <2>2. js[s] = "off" /\ Len(rx[s]) <= SessionChannel
    BY <1>1, Facts DEF GuestIsPlaced, HasRoomLeft
  <2>3. timer'[s] = "off" /\ frames'[s] = <<>> /\ stale'[s] = promises[s]
    BY Facts DEF QueuesTyped, ThreadsTyped, CallsTyped
  <2> QED
    BY <1>1, <1>2, <2>1, <2>2, <2>3 DEF Rests, hostVars
<1> QED
  BY <1>2, <1>3, <1>4, RestsFits

----------------------------------------------------------------------------
(* Bridge calls.                                                           *)

\* An answer that is on its way stays so unless it is taken from the channel.
LEMMA StaysOnItsWay ==
    ASSUME NEW s \in V8Sessions, NEW i, UNCHANGED hostVars, CallsGrow,
           Has(rx[s], i) => Has(rx'[s], i), OnItsWay(s, i)
    PROVE  OnItsWay(s, i)'
<1>1. CASE i \in DOMAIN router /\ router[i] = s
  BY <1>1 DEF OnItsWay, CallsGrow
<1>2. CASE Has(rx[s], i)
  <2>1. \E k \in DOMAIN rx'[s] : rx'[s][k] = Msg("BridgeResponse", i)
    BY <1>2 DEF Has
  <2> QED
    BY <2>1 DEF OnItsWay, Msg
<1>3. CASE dispatching.step = "send" /\ dispatching.s = s
             /\ dispatching.m = Msg("BridgeResponse", i)
  BY <1>3 DEF OnItsWay, hostVars, Msg
<1> QED
  BY <1>1, <1>2, <1>3 DEF OnItsWay, Has

\* A new call has an id that no call had, and the router names its session.
LEMMA NewCall ==
    ASSUME SizesAdd, V8Inv, NEW s \in V8Sessions, NEW i, i = NewCallId, CanCall(s),
           RegisterCall(s, i)
    PROVE  /\ i \in CallIds /\ i \notin DOMAIN asker /\ i # 0
           /\ DOMAIN asker' = DOMAIN asker \cup {i} /\ CallsAreNumbered' /\ CallsGrow
           /\ OnItsWay(s, i)'
<1>1. PICK n \in 0 .. MaxBridgeCalls : DOMAIN asker = 1 .. n
  BY DEF V8Inv, CallsAreNumbered
<1>2. Cardinality(DOMAIN asker) = n
  BY SMT, <1>1, V8Assumption DEF SizesAdd
<1>3. i = n + 1 /\ n < MaxBridgeCalls /\ n \in Nat
  BY SMT, <1>2, V8Assumption DEF NewCallId, CanCall
<1>4. i \in CallIds /\ i \notin DOMAIN asker /\ i # 0 /\ i \in 0 .. MaxBridgeCalls
  BY SMT, <1>1, <1>3, V8Assumption DEF CallIds
<1>5. DOMAIN asker' = DOMAIN asker \cup {i} /\ DOMAIN router' = DOMAIN router \cup {i}
      /\ router'[i] = s /\ \A k \in DOMAIN router \ {i} : router'[k] = router[k]
  BY DEF RegisterCall
<1>6. DOMAIN router \subseteq DOMAIN asker
  BY DEF V8Inv, CallsAreNumbered
<1>7. DOMAIN asker' = 1 .. i
  BY SMT, <1>1, <1>3, <1>5
<1>8. CallsAreNumbered'
  BY <1>4, <1>5, <1>6, <1>7 DEF CallsAreNumbered
<1>9. CallsGrow
  BY <1>4, <1>5, <1>6 DEF CallsGrow
<1> QED
  BY <1>4, <1>5, <1>8, <1>9 DEF OnItsWay

\* The guest makes a synchronous call and blocks.
LEMMA sync_callStep ==
    ASSUME SizesAdd, V8Inv, NEW s \in V8Sessions, sync_call(s) PROVE V8Inv'
<1> USE DEF sync_call, queueVars
<1>1. PICK i : i = NewCallId /\ RegisterCall(s, i) /\ awaiting' = [awaiting EXCEPT ![s] = i]
  OBVIOUS
<1>2. /\ i \in CallIds /\ i \notin DOMAIN asker /\ i # 0
      /\ DOMAIN asker' = DOMAIN asker \cup {i} /\ CallsAreNumbered' /\ CallsGrow
      /\ OnItsWay(s, i)'
  BY <1>1, NewCall
<1>3. /\ awaiting' \in [V8Sessions -> Nat] /\ awaiting'[s] = i
      /\ \A t \in V8Sessions \ {s} : awaiting'[t] = awaiting[t]
  BY SMT, <1>1, <1>2, Facts DEF CallsTyped, CallIds
<1>4. /\ js' \in [V8Sessions -> {"off", "on", "sync"}] /\ js'[s] = "sync"
      /\ \A t \in V8Sessions \ {s} : js'[t] = js[t]
  BY Facts DEF ThreadsTyped
<1>5. Typed' /\ SlotsAreHeld'
  <2>1. SlotsAreHeld'
    BY SlotKept DEF V8Inv
  <2> QED
    BY <1>3, <1>4, <2>1, Facts DEF Typed, QueuesTyped, ThreadsTyped, SetsTyped, CallsTyped,
       abortVars, guestVars
<1>6. js[s] = "on" /\ thread[s] \in GuestPlaces /\ thread[s] # "none"
  BY Facts DEF CanCall, GuestIsPlaced, GuestPlaces
<1>7. Alone(s)
  BY <1>2, <1>3, <1>4, <1>6 DEF Alone, Same, abortVars
<1>8. GuestIsPlaced(s)' /\ IsolateIsThere(s)' /\ FramesWait(s)' /\ OnlyStale(s)' /\ HasRoomLeft(s)'
  BY <1>6, Facts DEF GuestIsPlaced, IsolateIsThere, FramesWait, OnlyStale, HasRoomLeft, abortVars
<1>9. CallsDiffer(s)'
  BY <1>2, <1>3, Facts DEF CallsDiffer
<1>10. AnswersCome(s)'
  <2>1. OnItsWay(s, awaiting[s])'
    BY <1>2, <1>3 DEF OnItsWay
  <2>2. ASSUME NEW j, Comes(s, j) PROVE Comes(s, j)'
    <3>1. OnItsWay(s, j) => OnItsWay(s, j)'
      BY <1>2, StaysOnItsWay
    <3> QED
      BY <2>2, <3>1 DEF Comes, Has, Msg, hostVars
  <2> QED
    BY <2>1, <2>2, Facts DEF AnswersCome
<1> QED
  BY <1>2, <1>5, <1>7, <1>8, <1>9, <1>10, AloneFits

\* The guest makes an asynchronous call and gets a promise.
LEMMA async_sendStep ==
    ASSUME SizesAdd, V8Inv, NEW s \in V8Sessions, async_send(s) PROVE V8Inv'
<1> USE DEF async_send, queueVars
<1>1. PICK i : /\ i = NewCallId /\ RegisterCall(s, i)
               /\ promises' = [promises EXCEPT ![s] = promises[s] \cup {i}]
  OBVIOUS
<1>2. /\ i \in CallIds /\ i \notin DOMAIN asker /\ i # 0
      /\ DOMAIN asker' = DOMAIN asker \cup {i} /\ CallsAreNumbered' /\ CallsGrow
      /\ OnItsWay(s, i)'
  BY <1>1, NewCall
<1>3. /\ promises' \in [V8Sessions -> SUBSET CallIds] /\ promises'[s] = promises[s] \cup {i}
      /\ \A t \in V8Sessions \ {s} : promises'[t] = promises[t]
  <2>1. promises[s] \cup {i} \in SUBSET CallIds /\ promises \in [V8Sessions -> SUBSET CallIds]
    BY <1>2, Facts DEF CallsTyped
  <2> QED
    BY SMT, <1>1, <2>1, Assigned
<1>4. Typed' /\ SlotsAreHeld'
  <2>1. SlotsAreHeld'
    BY SlotKept DEF V8Inv
  <2> QED
    BY <1>3, <2>1, Facts DEF Typed, QueuesTyped, ThreadsTyped, SetsTyped, CallsTyped,
       abortVars, guestVars
<1>5. js[s] = "on" /\ thread[s] \in GuestPlaces /\ thread[s] # "none" /\ thread[s] \in Running
  BY Facts, PlacesAre DEF CanCall, GuestIsPlaced, GuestPlaces
<1>6. Alone(s)
  BY <1>2, <1>3, <1>5 DEF Alone, Same, abortVars
<1>7. GuestIsPlaced(s)' /\ IsolateIsThere(s)' /\ FramesWait(s)' /\ OnlyStale(s)' /\ HasRoomLeft(s)'
  BY <1>5, Facts DEF GuestIsPlaced, IsolateIsThere, FramesWait, OnlyStale, HasRoomLeft, abortVars
<1>8. CallsDiffer(s)'
  BY <1>2, <1>3, <1>5, Facts DEF CallsDiffer
<1>9. AnswersCome(s)'
  <2>1. Comes(s, i)'
    BY <1>2 DEF Comes
  <2>2. ASSUME NEW j, Comes(s, j) PROVE Comes(s, j)'
    <3>1. OnItsWay(s, j) => OnItsWay(s, j)'
      BY <1>2, StaysOnItsWay
    <3> QED
      BY <2>2, <3>1 DEF Comes, Has, Msg, hostVars
  <2> QED
    BY <1>3, <1>5, <2>1, <2>2, Facts DEF AnswersCome
<1> QED
  BY <1>2, <1>4, <1>6, <1>7, <1>8, <1>9, AloneFits

\* A synchronous call returns without an answer.
LEMMA SyncFailsStep == ASSUME V8Inv, NEW s \in V8Sessions, SyncFails(s) PROVE V8Inv'
<1> USE DEF SyncFails, SyncReturns, queueVars
<1>1. /\ awaiting' \in [V8Sessions -> Nat] /\ awaiting'[s] = 0
      /\ \A t \in V8Sessions \ {s} : awaiting'[t] = awaiting[t]
  BY Facts DEF CallsTyped
<1>2. /\ js' \in [V8Sessions -> {"off", "on", "sync"}] /\ js'[s] = "on"
      /\ \A t \in V8Sessions \ {s} : js'[t] = js[t]
  BY Facts DEF ThreadsTyped
<1>3. Typed' /\ SlotsAreHeld'
  <2>1. SlotsAreHeld'
    BY SlotKept DEF V8Inv
  <2> QED
    BY <1>1, <1>2, <2>1, Facts DEF Typed, QueuesTyped, ThreadsTyped, SetsTyped, CallsTyped,
       abortVars, guestVars
<1>4. thread[s] \in GuestPlaces /\ thread[s] # "none"
  BY Facts DEF GuestIsPlaced, GuestPlaces
<1>5. CallsAreNumbered' /\ CallsGrow
  BY DEF V8Inv, CallsAreNumbered, CallsGrow
<1>6. Alone(s)
  BY <1>1, <1>2, <1>4, <1>5 DEF Alone, Same, abortVars
<1>7. GuestIsPlaced(s)' /\ IsolateIsThere(s)' /\ FramesWait(s)' /\ OnlyStale(s)' /\ HasRoomLeft(s)'
  BY <1>4, Facts DEF GuestIsPlaced, IsolateIsThere, FramesWait, OnlyStale, HasRoomLeft, abortVars
<1>8. CallsDiffer(s)'
  BY <1>1, <1>2, Facts DEF CallsDiffer
<1>9. AnswersCome(s)'
  <2>1. ASSUME NEW j, Comes(s, j) PROVE Comes(s, j)'
    <3>1. OnItsWay(s, j) => OnItsWay(s, j)'
      BY <1>5, StaysOnItsWay
    <3> QED
      BY <2>1, <3>1 DEF Comes, Has, Msg, hostVars
  <2> QED
    BY <1>2, <2>1, Facts DEF AnswersCome
<1> QED
  BY <1>3, <1>5, <1>6, <1>7, <1>8, <1>9, AloneFits

\* A synchronous call reads the channel: its answer, or what it leaves for the event loop.
LEMMA SyncReceivesStep == ASSUME V8Inv, NEW s \in V8Sessions, SyncReceives(s) PROVE V8Inv'
<1> USE DEF SyncReceives
<1>1. PICK m, c : m = Head(rx[s]) /\ c = awaiting[s]
  OBVIOUS
<1>2. /\ rx[s] \in Seq(V8Messages) /\ rx \in [V8Sessions -> Seq(V8Messages)]
      /\ deferred[s] \in Seq(V8Messages) /\ deferred \in [V8Sessions -> Seq(V8Messages)]
      /\ awaiting \in [V8Sessions -> Nat] /\ js \in [V8Sessions -> {"off", "on", "sync"}]
  BY Facts DEF QueuesTyped, CallsTyped, ThreadsTyped
<1>3. /\ m \in V8Messages /\ Tail(rx[s]) \in Seq(V8Messages) /\ Len(Tail(rx[s])) = Len(rx[s]) - 1
      /\ \A i : Has(rx[s], i) => Has(Tail(rx[s]), i) \/ m = Msg("BridgeResponse", i)
  BY <1>1, <1>2, HasTaken
<1>4. /\ Append(deferred[s], m) \in Seq(V8Messages)
      /\ \A i : Has(Append(deferred[s], m), i) <=> Has(deferred[s], i) \/ m = Msg("BridgeResponse", i)
  BY <1>2, <1>3, HasAppended
<1>5. /\ rx' \in [V8Sessions -> Seq(V8Messages)] /\ rx'[s] = Tail(rx[s])
      /\ \A t \in V8Sessions \ {s} : rx'[t] = rx[t]
  BY <1>2, <1>3
<1>6. \/ /\ m = Msg("BridgeResponse", c) \/ m = Shutdown
         /\ deferred' = deferred
         /\ js' = [js EXCEPT ![s] = "on"] /\ awaiting' = [awaiting EXCEPT ![s] = 0]
      \/ /\ m # Msg("BridgeResponse", c) /\ js' = js /\ awaiting' = awaiting
         /\ deferred' = [deferred EXCEPT ![s] = Append(deferred[s], m)]
  BY <1>1 DEF SyncReturns, Defer
<1>7. /\ deferred' \in [V8Sessions -> Seq(V8Messages)]
      /\ \A t \in V8Sessions \ {s} : deferred'[t] = deferred[t]
      /\ \A i : Has(deferred[s], i) => Has(deferred'[s], i)
      /\ m = Msg("BridgeResponse", c) \/ m = Shutdown
           \/ \A i : m = Msg("BridgeResponse", i) => Has(deferred'[s], i)
  BY <1>2, <1>4, <1>6
<1>8. /\ js' \in [V8Sessions -> {"off", "on", "sync"}] /\ awaiting' \in [V8Sessions -> Nat]
      /\ \A t \in V8Sessions \ {s} : js'[t] = js[t] /\ awaiting'[t] = awaiting[t]
      /\ \/ js'[s] = "on" /\ awaiting'[s] = 0
         \/ js'[s] = "sync" /\ awaiting'[s] = c /\ m # Msg("BridgeResponse", c)
  <2>1. CASE js' = [js EXCEPT ![s] = "on"] /\ awaiting' = [awaiting EXCEPT ![s] = 0]
    BY <1>2, <2>1
  <2>2. CASE m # Msg("BridgeResponse", c) /\ js' = js /\ awaiting' = awaiting
    BY <1>1, <1>2, <2>2
  <2> QED
    BY <1>6, <2>1, <2>2
<1>9. Typed' /\ SlotsAreHeld'
  <2>1. SlotsAreHeld'
    BY SlotKept DEF V8Inv
  <2> QED
    BY <1>5, <1>7, <1>8, <2>1, Facts DEF Typed, QueuesTyped, ThreadsTyped, SetsTyped, CallsTyped,
       abortVars, guestVars
<1>10. thread[s] \in GuestPlaces /\ thread[s] # "none" /\ thread[s] # "done"
  BY Facts DEF GuestIsPlaced, GuestPlaces
<1>11. CallsAreNumbered' /\ CallsGrow
  BY DEF V8Inv, CallsAreNumbered, CallsGrow
<1>12. Alone(s)
  BY <1>5, <1>7, <1>8, <1>10, <1>11 DEF Alone, Same, abortVars
<1>13. GuestIsPlaced(s)' /\ IsolateIsThere(s)' /\ FramesWait(s)' /\ OnlyStale(s)'
  BY <1>10, Facts DEF GuestIsPlaced, IsolateIsThere, FramesWait, OnlyStale, abortVars
<1>14. HasRoomLeft(s)'
  <2>1. Len(rx[s]) <= SessionChannel /\ Len(rx[s]) \in Nat
    BY SMT, <1>2, Facts DEF HasRoomLeft
  <2> QED
    BY SMT, <1>3, <1>5, <2>1, V8Assumption DEF HasRoomLeft
<1>15. CallsDiffer(s)'
  BY <1>1, <1>8, Facts DEF CallsDiffer
<1>16. AnswersCome(s)'
  <2>1. c \notin promises[s] /\ (OnItsWay(s, c) \/ s \notin connected)
    BY <1>1, Facts DEF CallsDiffer, AnswersCome
  <2>2. \A i : OnItsWay(s, i) /\ m # Msg("BridgeResponse", i) => OnItsWay(s, i)'
    BY <1>3, <1>5, <1>11, StaysOnItsWay
  <2>3. js'[s] = "sync" => OnItsWay(s, awaiting[s])' \/ s \notin connected'
    <3>1. ASSUME js'[s] = "sync", s \in connected PROVE OnItsWay(s, awaiting[s])'
      <4>1. OnItsWay(s, c)'
        BY <1>8, <2>1, <2>2, <3>1
      <4>2. c = awaiting'[s]
        BY <1>8, <3>1
      <4> QED
        BY <4>1, <4>2 DEF OnItsWay
    <3> QED
      BY <3>1 DEF hostVars
  <2>4. ASSUME NEW j \in promises[s], Comes(s, j) PROVE Comes(s, j)'
    <3>1. m = Msg("BridgeResponse", j) => Has(deferred'[s], j)
      <4>1. m = Msg("BridgeResponse", j) => m # Msg("BridgeResponse", c) /\ m # Shutdown
        BY SMT, <2>1 DEF Msg, Shutdown
      <4> QED
        BY <4>1, <1>7
    <3>2. Has(deferred'[s], j) => Comes(s, j)'
      BY DEF Comes, Has, Msg
    <3>3. CASE OnItsWay(s, j)
      BY <3>1, <3>2, <3>3, <2>2 DEF Comes
    <3>4. CASE Has(deferred[s], j)
      BY <3>2, <3>4, <1>7
    <3> QED
      BY <2>4, <3>3, <3>4, <1>10 DEF Comes, Has, Msg, hostVars
  <2>5. thread'[s] \in Running => \A j \in promises'[s] \ stale'[s] : Comes(s, j)'
    BY <2>4, Facts DEF AnswersCome
  <2> QED
    BY <2>3, <2>5 DEF AnswersCome
<1> QED
  BY <1>9, <1>11, <1>12, <1>13, <1>14, <1>15, <1>16, AloneFits

----------------------------------------------------------------------------
(* The event loop.                                                         *)

\* The loop's condition: what was deferred becomes the frames that are drained.
LEMMA LoopTopStep == ASSUME V8Inv, NEW s \in V8Sessions, LoopTop(s) PROVE V8Inv'
<1> USE DEF LoopTop, LoopAt
<1>1. /\ deferred \in [V8Sessions -> Seq(V8Messages)] /\ frames \in [V8Sessions -> Seq(V8Messages)]
      /\ Empty \in Seq(V8Messages) /\ frames[s] = Empty /\ deferred[s] \in Seq(V8Messages)
  BY Facts, HasNone DEF QueuesTyped, FramesWait, Empty
<1>2. PICK x \in HasSlot :
        /\ At(s, x)
        /\ \/ /\ x \in {"drain", "redrain"}
              /\ frames' = [frames EXCEPT ![s] = deferred[s]]
              /\ deferred' = [deferred EXCEPT ![s] = Empty]
           \/ /\ x \in {"done", "between"} /\ frames' = frames /\ deferred' = deferred
  BY DEF LoopEnds, HasSlot, Executing, EventLoop, Empty
<1>3. thread[s] \in HasSlot /\ x \in Places /\ x \in Running /\ thread[s] \in Running
      /\ thread[s] # "none" /\ thread[s] # "done"
  BY <1>2, PlacesAre DEF HasSlot, Running, Executing, EventLoop
<1>4. /\ thread' \in [V8Sessions -> Places] /\ thread'[s] = x
      /\ \A t \in V8Sessions \ {s} : thread'[t] = thread[t]
      /\ SlotsAreHeld'
  BY <1>2, <1>3, Goes
<1>5. /\ deferred' \in [V8Sessions -> Seq(V8Messages)] /\ frames' \in [V8Sessions -> Seq(V8Messages)]
      /\ \A t \in V8Sessions \ {s} : deferred'[t] = deferred[t] /\ frames'[t] = frames[t]
      /\ frames'[s] \in {deferred[s], Empty}
      /\ frames'[s] = deferred[s] \/ deferred'[s] = deferred[s]
      /\ frames'[s] # Empty => x \in {"drain", "redrain"}
  <2>1. CASE /\ x \in {"drain", "redrain"}
             /\ frames' = [frames EXCEPT ![s] = deferred[s]]
             /\ deferred' = [deferred EXCEPT ![s] = Empty]
    BY <1>1, <2>1
  <2>2. CASE frames' = frames /\ deferred' = deferred
    BY <1>1, <2>2
  <2> QED
    BY <1>2, <2>1, <2>2
<1>6. Typed'
  BY <1>4, <1>5, Facts DEF Typed, QueuesTyped, ThreadsTyped, SetsTyped, CallsTyped, abortVars,
     guestVars, callVars
<1>7. CallsAreNumbered' /\ CallsGrow
  BY DEF V8Inv, CallsAreNumbered, CallsGrow, callVars
<1>8. Alone(s)
  BY <1>3, <1>4, <1>5, <1>7 DEF Alone, Same, abortVars, callVars
<1>9. GuestIsPlaced(s)' /\ IsolateIsThere(s)' /\ OnlyStale(s)' /\ HasRoomLeft(s)' /\ CallsDiffer(s)'
  BY <1>3, <1>4, Facts, PlacesAre DEF GuestIsPlaced, IsolateIsThere, OnlyStale, HasRoomLeft,
     CallsDiffer, abortVars, callVars, Running
<1>10. FramesWait(s)'
  BY <1>4, <1>5 DEF FramesWait, Empty
<1>11. AnswersCome(s)'
  <2>1. ASSUME NEW j, Comes(s, j) PROVE Comes(s, j)'
    <3>1. OnItsWay(s, j) => OnItsWay(s, j)'
      BY <1>7, StaysOnItsWay
    <3>2. ~Has(frames[s], j)
      BY <1>1, HasNone
    <3>3. Has(deferred[s], j) => Has(deferred'[s], j) \/ Has(frames'[s], j)
      BY <1>5
    <3>4. Has(deferred'[s], j) \/ Has(frames'[s], j) => Comes(s, j)'
      BY DEF Comes, Has, Msg
    <3>5. OnItsWay(s, j)' \/ s \notin connected' => Comes(s, j)'
      BY DEF Comes
    <3>6. s \notin connected => s \notin connected'
      BY DEF hostVars
    <3> QED
      BY <1>3, <2>1, <3>1, <3>2, <3>3, <3>4, <3>5, <3>6 DEF Comes
  <2> QED
    BY <1>3, <2>1, Facts DEF AnswersCome, callVars
<1> QED
  BY <1>4, <1>6, <1>7, <1>8, <1>9, <1>10, <1>11, AloneFits

\* What a dispatched frame does to its session: the guest runs, the loop is done or goes on, and
\* if the frame answers a call then no promise waits for it any more.
Relayed(s, f) ==
    /\ thread' \in [V8Sessions -> Places] /\ thread'[s] \in Running
    /\ thread'[s] \in {thread[s], "done"} \/ (thread[s] = "recv" /\ thread'[s] = "top")
    /\ js' \in [V8Sessions -> {"off", "on", "sync"}]
    /\ js'[s] = "off" \/ (js'[s] = "on" /\ thread'[s] = thread[s])
    /\ terminating' \subseteq isolate
    /\ promises' \in [V8Sessions -> SUBSET CallIds] /\ stale' \in [V8Sessions -> SUBSET CallIds]
    /\ stale'[s] \subseteq promises'[s] /\ promises'[s] \subseteq promises[s]
    /\ promises'[s] \ stale'[s] \subseteq promises[s] \ stale[s]
    /\ \A i : f = Msg("BridgeResponse", i) => i \notin promises'[s]
    /\ \A t \in V8Sessions \ {s} : /\ thread'[t] = thread[t] /\ js'[t] = js[t]
                                   /\ promises'[t] = promises[t] /\ stale'[t] = stale[t]

\* dispatch_event_loop_frame does that, whichever way the guest's code returns.
LEMMA DispatchRelays ==
    ASSUME V8Inv, NEW s \in V8Sessions, NEW f \in V8Messages, DispatchFrame(s, f),
           thread[s] \in {"drain", "redrain", "recv"}, js[s] = "off"
    PROVE  Relayed(s, f)
<1>1. /\ thread \in [V8Sessions -> Places] /\ js \in [V8Sessions -> {"off", "on", "sync"}]
      /\ promises \in [V8Sessions -> SUBSET CallIds] /\ stale \in [V8Sessions -> SUBSET CallIds]
      /\ terminating \subseteq isolate /\ stale[s] \subseteq promises[s] /\ s \in isolate
      /\ thread[s] \in Running
  BY Facts DEF ThreadsTyped, CallsTyped, SetsTyped, CallsDiffer, IsolateIsThere, Running, Executing,
     EventLoop
<1>2. CASE f.kind = "BridgeResponse" /\ f.n \in promises[s]
  <2>1. /\ promises' = [promises EXCEPT ![s] = promises[s] \ {f.n}]
        /\ stale' = [stale EXCEPT ![s] = stale[s] \ {f.n}]
        /\ js' = [js EXCEPT ![s] = "on"] /\ UNCHANGED <<thread, terminating>>
    BY <1>2 DEF DispatchFrame
  <2>2. /\ promises' \in [V8Sessions -> SUBSET CallIds] /\ promises'[s] = promises[s] \ {f.n}
        /\ \A t \in V8Sessions \ {s} : promises'[t] = promises[t]
    BY <1>1, <2>1
  <2>3. /\ stale' \in [V8Sessions -> SUBSET CallIds] /\ stale'[s] = stale[s] \ {f.n}
        /\ \A t \in V8Sessions \ {s} : stale'[t] = stale[t]
    BY <1>1, <2>1
  <2>4. /\ js' \in [V8Sessions -> {"off", "on", "sync"}] /\ js'[s] = "on"
        /\ \A t \in V8Sessions \ {s} : js'[t] = js[t]
    BY <1>1, <2>1
  <2>5. \A i : f = Msg("BridgeResponse", i) => i = f.n
    BY SMT DEF Msg
  <2> QED
    BY <1>1, <2>1, <2>2, <2>3, <2>4, <2>5 DEF Relayed
<1>3. CASE ~(f.kind = "BridgeResponse" /\ f.n \in promises[s])
  <2>1. \A i : f = Msg("BridgeResponse", i) => i \notin promises[s]
    BY SMT, <1>3 DEF Msg
  <2>2. PICK x \in {thread[s], "done", "top"} :
          /\ x = "top" => thread[s] = "recv"
          /\ (thread' = thread /\ x = thread[s]) \/ At(s, x)
          /\ \/ js' = js /\ terminating' \in {terminating, terminating \cup {s}}
             \/ /\ js' = [js EXCEPT ![s] = "on"] /\ x = thread[s]
                /\ terminating' = terminating
          /\ promises' = promises /\ stale' = stale
    BY <1>3 DEF DispatchFrame, AfterFrame
  <2>3. x \in Places /\ x \in Running
    BY <1>1, <2>2, PlacesAre DEF Running, Executing, EventLoop
  <2>4. /\ thread' \in [V8Sessions -> Places] /\ thread'[s] = x
        /\ \A t \in V8Sessions \ {s} : thread'[t] = thread[t]
    BY SMT, <1>1, <2>2, <2>3, Assigned DEF At
  <2>5. /\ js' \in [V8Sessions -> {"off", "on", "sync"}]
        /\ js'[s] = "off" \/ (js'[s] = "on" /\ x = thread[s])
        /\ \A t \in V8Sessions \ {s} : js'[t] = js[t]
    BY <1>1, <2>2
  <2>6. terminating' \subseteq isolate
    BY <1>1, <2>2
  <2> QED
    BY <1>1, <2>1, <2>2, <2>3, <2>4, <2>5, <2>6 DEF Relayed
<1> QED
  BY <1>2, <1>3

\* What a step of the loop that dispatches a frame leaves to be shown: which queue it was in.
LEMMA RelayedFits ==
    ASSUME V8Inv, NEW s \in V8Sessions, NEW f, Relayed(s, f), QueuesTyped', SetsTyped',
           UNCHANGED <<hostVars, abort, timer, isolate, slots, router, asker, awaiting>>,
           \A t \in V8Sessions \ {s} :
             rx'[t] = rx[t] /\ frames'[t] = frames[t] /\ deferred'[t] = deferred[t],
           thread[s] \in {"drain", "redrain", "recv"},
           frames'[s] # <<>> => thread[s] # "recv", Len(rx'[s]) <= SessionChannel,
           \A j : f # Msg("BridgeResponse", j) =>
             /\ Has(rx[s], j) => Has(rx'[s], j)
             /\ Has(deferred[s], j) => Has(deferred'[s], j)
             /\ Has(frames[s], j) => Has(frames'[s], j)
    PROVE  V8Inv'
<1> USE DEF Relayed
<1>1. Typed'
  BY Facts DEF Typed, ThreadsTyped, CallsTyped
<1>2. SlotsAreHeld'
  <2>1. thread[s] \in HasSlot /\ thread'[s] \in HasSlot
    BY PlacesAre DEF HasSlot, Executing, EventLoop
  <2> QED
    BY <2>1, SlotKept DEF V8Inv
<1>3. CallsAreNumbered' /\ CallsGrow
  BY DEF V8Inv, CallsAreNumbered, CallsGrow
<1>4. Alone(s)
  BY <1>3 DEF Alone, Same
<1>5. thread[s] \in GuestPlaces /\ thread[s] \in Running
  BY DEF GuestPlaces, Running, Executing, EventLoop
<1>6. GuestIsPlaced(s)' /\ IsolateIsThere(s)' /\ OnlyStale(s)' /\ HasRoomLeft(s)'
  BY <1>5, Facts DEF GuestIsPlaced, IsolateIsThere, OnlyStale, HasRoomLeft, Running
<1>7. FramesWait(s)'
  BY DEF FramesWait
<1>8. CallsDiffer(s)'
  BY Facts DEF CallsDiffer
<1>9. AnswersCome(s)'
  <2>1. ASSUME NEW j \in promises'[s], Comes(s, j) PROVE Comes(s, j)'
    <3>1. f # Msg("BridgeResponse", j)
      BY <2>1
    <3>2. OnItsWay(s, j) => OnItsWay(s, j)'
      BY <1>3, <3>1, StaysOnItsWay
    <3>3. Has(deferred'[s], j) \/ Has(frames'[s], j) => Comes(s, j)'
      BY DEF Comes, Has, Msg
    <3>4. OnItsWay(s, j)' \/ s \notin connected' => Comes(s, j)'
      BY DEF Comes
    <3> QED
      BY <2>1, <3>1, <3>2, <3>3, <3>4 DEF Comes, hostVars
  <2> QED
    BY <1>5, <2>1, Facts DEF AnswersCome
<1> QED
  BY <1>1, <1>2, <1>3, <1>4, <1>6, <1>7, <1>8, <1>9, AloneFits

\* A frame that was drained is dispatched.
LEMMA LoopDispatchesStep == ASSUME V8Inv, NEW s \in V8Sessions, LoopDispatches(s) PROVE V8Inv'
<1> USE DEF LoopDispatches, LoopAt
<1>1. PICK f : f = Head(frames[s])
  OBVIOUS
<1>2. frames \in [V8Sessions -> Seq(V8Messages)] /\ frames[s] \in Seq(V8Messages)
  BY Facts DEF QueuesTyped
<1>3. /\ f \in V8Messages /\ Tail(frames[s]) \in Seq(V8Messages)
      /\ \A i : Has(frames[s], i) => Has(Tail(frames[s]), i) \/ f = Msg("BridgeResponse", i)
  BY <1>1, <1>2, HasTaken
<1>4. /\ frames' \in [V8Sessions -> Seq(V8Messages)] /\ frames'[s] = Tail(frames[s])
      /\ \A t \in V8Sessions \ {s} : frames'[t] = frames[t]
  BY <1>2, <1>3
<1>5. Relayed(s, f)
  BY <1>1, <1>3, DispatchRelays
<1>6. QueuesTyped' /\ SetsTyped'
  BY <1>4, <1>5, Facts DEF QueuesTyped, SetsTyped, Relayed
<1>7. Len(rx'[s]) <= SessionChannel
  BY Facts DEF HasRoomLeft
<1>8. \A j : f # Msg("BridgeResponse", j) =>
             /\ Has(rx[s], j) => Has(rx'[s], j)
             /\ Has(deferred[s], j) => Has(deferred'[s], j)
             /\ Has(frames[s], j) => Has(frames'[s], j)
  BY <1>3, <1>4
<1>9. /\ UNCHANGED <<hostVars, abort, timer, isolate, slots, router, asker, awaiting>>
      /\ \A t \in V8Sessions \ {s} :
             rx'[t] = rx[t] /\ frames'[t] = frames[t] /\ deferred'[t] = deferred[t]
      /\ thread[s] \in {"drain", "redrain", "recv"} /\ thread[s] # "recv"
  BY <1>4
<1> QED
  BY <1>5, <1>6, <1>7, <1>8, <1>9, RelayedFits

\* The loop takes a command from the channel: it stops or dispatches it.
LEMMA LoopReceivesStep == ASSUME V8Inv, NEW s \in V8Sessions, LoopReceives(s) PROVE V8Inv'
<1> USE DEF LoopReceives, LoopAt
<1>1. PICK f : f = Head(rx[s])
  OBVIOUS
<1>2. rx \in [V8Sessions -> Seq(V8Messages)] /\ rx[s] \in Seq(V8Messages)
  BY Facts DEF QueuesTyped
<1>3. /\ f \in V8Messages /\ Tail(rx[s]) \in Seq(V8Messages) /\ Len(Tail(rx[s])) = Len(rx[s]) - 1
      /\ \A i : Has(rx[s], i) => Has(Tail(rx[s]), i) \/ f = Msg("BridgeResponse", i)
  BY <1>1, <1>2, HasTaken
<1>4. /\ rx' \in [V8Sessions -> Seq(V8Messages)] /\ rx'[s] = Tail(rx[s])
      /\ \A t \in V8Sessions \ {s} : rx'[t] = rx[t]
  BY <1>2, <1>3
<1>5. Relayed(s, f)
  <2>1. CASE f # Shutdown
    BY <1>1, <1>3, <2>1, DispatchRelays
  <2>2. CASE f = Shutdown
    <3>1. /\ At(s, "done") /\ UNCHANGED <<promises, stale, js, terminating>>
      BY <1>1, <2>2
    <3>2. "done" \in Places /\ "done" \in Running
      BY PlacesAre
    <3>3. /\ thread' \in [V8Sessions -> Places] /\ thread'[s] = "done"
          /\ \A t \in V8Sessions \ {s} : thread'[t] = thread[t]
      BY <3>1, <3>2, Goes
    <3>4. \A i : f # Msg("BridgeResponse", i)
      BY <2>2 DEF Shutdown, Msg
    <3> QED
      BY <3>1, <3>2, <3>3, <3>4, Facts DEF Relayed, ThreadsTyped, SetsTyped, CallsTyped, CallsDiffer
  <2> QED
    BY <2>1, <2>2
<1>6. QueuesTyped' /\ SetsTyped'
  BY <1>4, <1>5, Facts DEF QueuesTyped, SetsTyped, Relayed
<1>7. Len(rx'[s]) <= SessionChannel
  <2>1. Len(rx[s]) <= SessionChannel /\ Len(rx[s]) \in Nat
    BY SMT, <1>2, Facts DEF HasRoomLeft
  <2> QED
    BY SMT, <1>3, <1>4, <2>1, V8Assumption
<1>8. \A j : f # Msg("BridgeResponse", j) =>
             /\ Has(rx[s], j) => Has(rx'[s], j)
             /\ Has(deferred[s], j) => Has(deferred'[s], j)
             /\ Has(frames[s], j) => Has(frames'[s], j)
  BY <1>3, <1>4
<1>9. frames'[s] = <<>>
  BY Facts DEF FramesWait
<1>10. /\ UNCHANGED <<hostVars, abort, timer, isolate, slots, router, asker, awaiting>>
       /\ \A t \in V8Sessions \ {s} :
             rx'[t] = rx[t] /\ frames'[t] = frames[t] /\ deferred'[t] = deferred[t]
       /\ thread[s] \in {"drain", "redrain", "recv"}
  BY <1>4
<1> QED
  BY <1>5, <1>6, <1>7, <1>8, <1>9, <1>10, RelayedFits

----------------------------------------------------------------------------
(* The host.                                                               *)

\* A dispatch begins with the lock free.
LEMMA Unlocked ==
    ASSUME V8Inv, Dispatch
    PROVE  /\ dispatching.step = "unlocked" /\ dispatches' \in 0 .. MaxDispatches
           /\ dispatches + 1 \in 1 .. MaxDispatches
           /\ doomed \subseteq connected /\ connected \subseteq V8Sessions
BY SMT, V8Assumption DEF V8Inv, HolderFits, Dispatch, NoHolder

\* A session whose thread a step of the host leaves alone.
Untouched(t) ==
    /\ deferred'[t] = deferred[t] /\ frames'[t] = frames[t]
    /\ thread'[t] = thread[t] /\ js'[t] = js[t] /\ timer'[t] = timer[t]
    /\ awaiting'[t] = awaiting[t] /\ promises'[t] = promises[t] /\ stale'[t] = stale[t]
    /\ isolate' = isolate /\ asker' = asker
    /\ t \in connected' => t \in connected

\* It still fits, if the answers that were on their way still are.
LEMMA UntouchedFits ==
    ASSUME NEW t \in V8Sessions, SessionFits(t), Untouched(t), IsJoined(t)', HasRoomLeft(t)',
           \A i : OnItsWay(t, i) => OnItsWay(t, i)' \/ t \notin connected'
    PROVE  SessionFits(t)'
<1>1. GuestIsPlaced(t)' /\ IsolateIsThere(t)' /\ FramesWait(t)' /\ OnlyStale(t)' /\ CallsDiffer(t)'
  BY DEF SessionFits, GuestIsPlaced, IsolateIsThere, FramesWait, OnlyStale, CallsDiffer, Untouched
<1>2. ASSUME NEW i, Comes(t, i) PROVE Comes(t, i)'
  <2>1. Has(deferred[t], i) => Has(deferred[t], i)'
    BY DEF Has, Untouched, Msg
  <2>2. Has(frames[t], i) => Has(frames[t], i)'
    BY DEF Has, Untouched, Msg
  <2> QED
    BY <1>2, <2>1, <2>2 DEF Comes, Untouched
<1>3. js[t] = "sync" => OnItsWay(t, awaiting[t])' \/ t \notin connected'
  <2> SUFFICES ASSUME js[t] = "sync", t \in connected' PROVE OnItsWay(t, awaiting[t])'
    OBVIOUS
  <2>1. PICK i : i = awaiting[t]
    OBVIOUS
  <2>2. OnItsWay(t, i)
    BY <2>1 DEF SessionFits, AnswersCome, Untouched
  <2>3. OnItsWay(t, i)'
    BY <2>2
  <2>4. i = awaiting'[t]
    BY <2>1 DEF Untouched
  <2> QED
    BY <2>3, <2>4 DEF OnItsWay
<1>4. AnswersCome(t)'
  BY <1>2, <1>3 DEF SessionFits, AnswersCome, Untouched
<1> QED
  BY <1>1, <1>4 DEF SessionFits

\* create_session: a session that is not in the map has no thread left.
LEMMA create_sessionStep == ASSUME V8Inv, NEW s \in V8Sessions, create_session(s) PROVE V8Inv'
<1> USE DEF create_session
<1>1. /\ dispatching.step = "unlocked" /\ dispatches' \in 0 .. MaxDispatches
      /\ doomed \subseteq connected /\ connected \subseteq V8Sessions
  BY Unlocked
<1>2. thread[s] = "none"
  BY <1>1, Facts DEF IsJoined
<1>3. At(s, "starting") /\ "starting" \in Places /\ "starting" \notin HasSlot
      /\ "none" \notin HasSlot /\ "starting" \notin Executing
  BY PlacesAre DEF At
<1>4. /\ thread' \in [V8Sessions -> Places] /\ thread'[s] = "starting"
      /\ \A t \in V8Sessions \ {s} : thread'[t] = thread[t]
      /\ SlotsAreHeld'
  BY <1>2, <1>3, Goes
<1>5. /\ rx' \in [V8Sessions -> Seq(V8Messages)] /\ rx'[s] = Empty
      /\ \A t \in V8Sessions \ {s} : rx'[t] = rx[t]
  BY Facts, HasNone DEF QueuesTyped, Empty
<1>6. Typed' /\ HolderFits' /\ CallsAreNumbered'
  <2>1. Typed'
    BY <1>4, <1>5, Facts DEF Typed, QueuesTyped, ThreadsTyped, SetsTyped, CallsTyped, abortVars,
       guestVars, callVars
  <2>2. HolderFits'
    BY <1>1 DEF HolderFits, Dispatch
  <2>3. CallsAreNumbered'
    BY DEF V8Inv, CallsAreNumbered, callVars
  <2> QED
    BY <2>1, <2>2, <2>3
<1>7. ASSUME NEW t \in V8Sessions, t # s PROVE SessionFits(t)'
  <2>1. Same(t) /\ CallsGrow /\ HostKeeps(t)
    BY <1>4, <1>5, <1>7 DEF Same, CallsGrow, HostKeeps, abortVars, callVars
  <2>2. SessionFits(t)
    BY DEF V8Inv
  <2> QED
    BY <2>1, <2>2, AsideFits
<1>8. SessionFits(s)'
  <2>1. js[s] = "off" /\ timer[s] # "on" /\ frames[s] = <<>> /\ promises[s] = stale[s]
    BY <1>2, <1>3, Facts, PlacesAre DEF GuestIsPlaced, IsolateIsThere, FramesWait, OnlyStale
  <2>2. "starting" \notin Running
    BY <1>3, PlacesAre
  <2>3. GuestIsPlaced(s)' /\ IsolateIsThere(s)' /\ FramesWait(s)' /\ OnlyStale(s)'
    BY <1>3, <1>4, <2>1 DEF GuestIsPlaced, IsolateIsThere, FramesWait, OnlyStale, abortVars, callVars
  <2>4. CallsDiffer(s)' /\ AnswersCome(s)'
    BY <1>4, <2>1, <2>2, Facts DEF CallsDiffer, AnswersCome, callVars
  <2>5. HasRoomLeft(s)'
    BY SMT, <1>5, HasNone, V8Assumption DEF HasRoomLeft
  <2>6. IsJoined(s)'
    BY DEF IsJoined
  <2> QED
    BY <2>3, <2>4, <2>5, <2>6 DEF SessionFits
<1> QED
  BY <1>4, <1>6, <1>7, <1>8 DEF V8Inv

\* A send to a session's channel: the message is in it, or its sender waits with it.
LEMMA Sends ==
    ASSUME V8Inv, NEW s \in connected, NEW m \in V8Messages, dispatching.step = "unlocked",
           SendOrBlock(s, m)
    PROVE  /\ rx' \in [V8Sessions -> Seq(V8Messages)]
           /\ \A t \in V8Sessions : Len(rx'[t]) <= SessionChannel
           /\ \A t \in V8Sessions : \A i : Has(rx[t], i) => Has(rx'[t], i)
           /\ \A i : m = Msg("BridgeResponse", i) => OnItsWay(s, i)'
           /\ \/ dispatching' = NoHolder
              \/ dispatching'.step = "send" /\ dispatching'.s = s /\ dispatching'.m = m
<1>1. s \in V8Sessions
  BY DEF V8Inv, HolderFits
<1>2. rx \in [V8Sessions -> Seq(V8Messages)] /\ rx[s] \in Seq(V8Messages)
  BY <1>1, Facts DEF QueuesTyped
<1>3. \A t \in V8Sessions : Len(rx[t]) <= SessionChannel
  BY Facts DEF HasRoomLeft
<1>4. CASE Len(rx[s]) < SessionChannel
  <2>1. rx' = [rx EXCEPT ![s] = Append(rx[s], m)] /\ dispatching' = NoHolder
    BY <1>4 DEF SendOrBlock
  <2>2. /\ Append(rx[s], m) \in Seq(V8Messages) /\ Len(Append(rx[s], m)) = Len(rx[s]) + 1
        /\ \A i : Has(Append(rx[s], m), i) <=> Has(rx[s], i) \/ m = Msg("BridgeResponse", i)
    BY <1>2, HasAppended
  <2>3. /\ rx' \in [V8Sessions -> Seq(V8Messages)] /\ rx'[s] = Append(rx[s], m)
        /\ \A t \in V8Sessions \ {s} : rx'[t] = rx[t]
    BY <1>1, <1>2, <2>1, <2>2
  <2>4. Len(rx'[s]) <= SessionChannel
    BY SMT, <1>2, <1>4, <2>2, <2>3, V8Assumption
  <2>5. ASSUME NEW i, m = Msg("BridgeResponse", i) PROVE OnItsWay(s, i)'
    <3>1. Has(rx'[s], i)
      BY <2>2, <2>3, <2>5
    <3> QED
      BY <3>1 DEF OnItsWay, Has, Msg
  <2> QED
    BY <1>3, <2>1, <2>2, <2>3, <2>4, <2>5
<1>5. CASE ~(Len(rx[s]) < SessionChannel)
  <2>1. rx' = rx /\ dispatching' = [step |-> "send", s |-> s, m |-> m]
    BY <1>5 DEF SendOrBlock
  <2>2. ASSUME NEW i, m = Msg("BridgeResponse", i) PROVE OnItsWay(s, i)'
    BY <2>1, <2>2 DEF OnItsWay, Msg
  <2> QED
    BY <1>2, <1>3, <2>1, <2>2
<1> QED
  BY <1>4, <1>5

\* send_to_session
LEMMA send_to_sessionStep ==
    ASSUME V8Inv, NEW s \in V8Sessions, NEW m \in V8Messages, send_to_session(s, m)
    PROVE  V8Inv'
<1> USE DEF send_to_session
<1>1. /\ dispatching.step = "unlocked" /\ dispatches' \in 0 .. MaxDispatches
      /\ doomed \subseteq connected /\ connected \subseteq V8Sessions
  BY Unlocked
<1>2. /\ rx' \in [V8Sessions -> Seq(V8Messages)]
      /\ \A t \in V8Sessions : Len(rx'[t]) <= SessionChannel
      /\ \A t \in V8Sessions : \A i : Has(rx[t], i) => Has(rx'[t], i)
      /\ \/ dispatching' = NoHolder
         \/ dispatching'.step = "send" /\ dispatching'.s = s /\ dispatching'.m = m
  BY <1>1, Sends
<1>3. Typed' /\ HolderFits' /\ CallsAreNumbered' /\ SlotsAreHeld'
  <2>1. Typed'
    BY <1>2, Facts DEF Typed, QueuesTyped, ThreadsTyped, SetsTyped, CallsTyped, abortVars,
       guestVars, callVars
  <2>2. HolderFits'
    BY <1>1, <1>2 DEF HolderFits
  <2>3. CallsAreNumbered'
    BY DEF V8Inv, CallsAreNumbered, callVars
  <2>4. SlotsAreHeld'
    BY SlotKept DEF V8Inv
  <2> QED
    BY <2>1, <2>2, <2>3, <2>4
<1>4. ASSUME NEW t \in V8Sessions PROVE SessionFits(t)'
  <2>1. SessionFits(t)
    BY DEF V8Inv
  <2>2. Untouched(t)
    BY DEF Untouched, abortVars, callVars
  <2>3. IsJoined(t)' /\ HasRoomLeft(t)'
    BY <1>1, <1>2, <2>1 DEF SessionFits, IsJoined, HasRoomLeft
  <2>4. ASSUME NEW i, OnItsWay(t, i) PROVE OnItsWay(t, i)'
    <3>1. \/ i \in DOMAIN router /\ router[i] = t
          \/ Has(rx[t], i)
      BY <1>1, <2>4 DEF OnItsWay, Has
    <3>2. \/ i \in DOMAIN router' /\ router'[i] = t
          \/ Has(rx'[t], i)
      BY <1>2, <3>1 DEF callVars
    <3> QED
      BY <3>2 DEF OnItsWay, Has, Msg
  <2> QED
    BY <2>1, <2>2, <2>3, <2>4, UntouchedFits
<1> QED
  BY <1>3, <1>4 DEF V8Inv

\* An answer is sent to the session that the router names.
LEMMA SendBridgeResponseStep ==
    ASSUME V8Inv, NEW k \in CallIds, SendBridgeResponse(k)
    PROVE  V8Inv'
<1> USE DEF SendBridgeResponse
<1>1. PICK s, m : s = router[k] /\ m = Msg("BridgeResponse", k)
  OBVIOUS
<1>2. /\ dispatching.step = "unlocked" /\ dispatches' \in 0 .. MaxDispatches
      /\ doomed \subseteq connected /\ connected \subseteq V8Sessions /\ dispatching = NoHolder
      /\ m \in V8Messages
  BY <1>1, Unlocked DEF Dispatch, V8Messages
<1>3. rx \in [V8Sessions -> Seq(V8Messages)] /\ \A t \in V8Sessions : Len(rx[t]) <= SessionChannel
  BY Facts DEF QueuesTyped, HasRoomLeft, V8Inv, Typed
<1>4. /\ rx' \in [V8Sessions -> Seq(V8Messages)]
      /\ \A t \in V8Sessions : Len(rx'[t]) <= SessionChannel
      /\ \A t \in V8Sessions : \A i : Has(rx[t], i) => Has(rx'[t], i)
      /\ s \in connected => OnItsWay(s, k)'
      /\ \/ dispatching' = NoHolder
         \/ /\ dispatching'.step = "send" /\ dispatching'.s \in connected
            /\ dispatching'.m \in V8Messages
  <2>1. CASE s \in connected
    <3>1. SendOrBlock(s, m)
      BY <1>1, <2>1
    <3> QED
      BY <1>1, <1>2, <2>1, <3>1, Sends
  <2>2. CASE s \notin connected
    <3>1. UNCHANGED <<rx, dispatching>>
      BY <1>1, <2>2
    <3> QED
      BY <1>2, <1>3, <2>2, <3>1
  <2> QED
    BY <2>1, <2>2
<1>5. /\ DOMAIN router' = DOMAIN router \ {k}
      /\ \A i \in DOMAIN router \ {k} : router'[i] = router[i]
  OBVIOUS
<1>6. Typed' /\ HolderFits' /\ CallsAreNumbered' /\ SlotsAreHeld'
  <2>1. Typed'
    BY <1>4, Facts DEF V8Inv, Typed, QueuesTyped, ThreadsTyped, SetsTyped, CallsTyped, abortVars,
       guestVars
  <2>2. HolderFits'
    BY <1>2, <1>4 DEF HolderFits
  <2>3. CallsAreNumbered'
    BY <1>5 DEF V8Inv, CallsAreNumbered
  <2>4. SlotsAreHeld'
    BY SlotKept DEF V8Inv
  <2> QED
    BY <2>1, <2>2, <2>3, <2>4
<1>7. ASSUME NEW t \in V8Sessions PROVE SessionFits(t)'
  <2>1. SessionFits(t)
    BY DEF V8Inv
  <2>2. Untouched(t)
    BY DEF Untouched, abortVars
  <2>3. IsJoined(t)' /\ HasRoomLeft(t)'
    BY <1>2, <1>4, <2>1 DEF SessionFits, IsJoined, HasRoomLeft
  <2>4. ASSUME NEW i, OnItsWay(t, i) PROVE OnItsWay(t, i)' \/ t \notin connected'
    <3>1. \/ i \in DOMAIN router /\ router[i] = t
          \/ Has(rx[t], i)
      BY <1>2, <2>4 DEF OnItsWay, Has
    <3>2. CASE i = k /\ t = s
      <4>1. t \notin connected \/ OnItsWay(s, k)'
        BY <1>4, <3>2
      <4> QED
        BY <3>2, <4>1 DEF OnItsWay
    <3>3. CASE ~(i = k /\ t = s)
      <4>1. \/ i \in DOMAIN router' /\ router'[i] = t
            \/ Has(rx'[t], i)
        BY <1>1, <1>4, <1>5, <3>1, <3>3
      <4> QED
        BY <4>1 DEF OnItsWay, Has, Msg
    <3> QED
      BY <3>2, <3>3
  <2> QED
    BY <2>1, <2>2, <2>3, <2>4, UntouchedFits
<1> QED
  BY <1>6, <1>7 DEF V8Inv

\* A step of the host that only touches the lock and the termination of an isolate.
LEMMA HolderStep ==
    ASSUME V8Inv, HolderFits', terminating' \subseteq isolate,
           abort' \in [V8Sessions -> {"none", "armed", "Terminated", "TimedOut"}],
           UNCHANGED <<connected, queueVars, thread, js, slots, isolate, timer, guestVars, callVars>>,
           dispatching.step \notin {"send", "join"}
    PROVE  V8Inv'
<1>1. Typed' /\ CallsAreNumbered' /\ SlotsAreHeld'
  <2>1. Typed'
    BY DEF V8Inv, Typed, QueuesTyped, ThreadsTyped, SetsTyped, CallsTyped, queueVars, guestVars, callVars
  <2>2. CallsAreNumbered'
    BY DEF V8Inv, CallsAreNumbered, callVars
  <2>3. SlotsAreHeld'
    BY SlotKept DEF V8Inv
  <2> QED
    BY <2>1, <2>2, <2>3
<1>2. ASSUME NEW t \in V8Sessions PROVE SessionFits(t)'
  <2>1. Same(t) /\ CallsGrow /\ HostKeeps(t)
    BY DEF Same, CallsGrow, HostKeeps, queueVars, callVars
  <2>2. SessionFits(t)
    BY DEF V8Inv
  <2> QED
    BY <2>1, <2>2, AsideFits
<1> QED
  BY <1>1, <1>2 DEF V8Inv

\* terminate and destroy begin.
LEMMA TerminateStep ==
    ASSUME V8Inv, NEW s \in V8Sessions, NEW step \in {"signal", "shut"}, BeginTermination(s, step),
           doomed' \in {doomed, doomed \cup {s}}
    PROVE  V8Inv'
<1> USE DEF BeginTermination
<1>1. /\ dispatching.step = "unlocked" /\ dispatches' \in 0 .. MaxDispatches
      /\ doomed \subseteq connected /\ connected \subseteq V8Sessions
  BY Unlocked
<1>2. dispatching'.step = step /\ dispatching'.s = s
  OBVIOUS
<1>3. HolderFits'
  BY <1>1, <1>2 DEF HolderFits
<1>4. terminating' \subseteq isolate
  BY Facts DEF SetsTyped
<1>5. abort' \in [V8Sessions -> {"none", "armed", "Terminated", "TimedOut"}]
  BY Facts DEF ThreadsTyped
<1> QED
  BY <1>1, <1>3, <1>4, <1>5, HolderStep

\* signal_execution_abort
LEMMA SignalStep == ASSUME V8Inv, Signal PROVE V8Inv'
<1> USE DEF Signal
<1>1. PICK s : s = dispatching.s
  OBVIOUS
<1>2. /\ s \in connected /\ s \in V8Sessions /\ dispatches \in 0 .. MaxDispatches
      /\ doomed \subseteq connected /\ connected \subseteq V8Sessions
  BY SMT, <1>1 DEF V8Inv, HolderFits, NoHolder
<1>3. dispatching'.step = "send" /\ dispatching'.s = s /\ dispatching'.m \in V8Messages
  BY <1>1 DEF V8Messages
<1>4. HolderFits'
  BY <1>2, <1>3 DEF HolderFits
<1>5. terminating' \subseteq isolate
  BY <1>2, Facts DEF SetsTyped
<1>6. abort' \in [V8Sessions -> {"none", "armed", "Terminated", "TimedOut"}]
  BY <1>2, Facts DEF ThreadsTyped, signal_execution_abort
<1> QED
  BY <1>4, <1>5, <1>6, HolderStep

\* The send gets room; after a Shutdown the entry goes and the thread is joined.
LEMMA SendEndsStep == ASSUME V8Inv, SendEnds PROVE V8Inv'
<1> USE DEF SendEnds
<1>1. PICK s, m : s = dispatching.s /\ m = dispatching.m
  OBVIOUS
<1>2. /\ s \in connected /\ s \in V8Sessions /\ m \in V8Messages /\ dispatches \in 0 .. MaxDispatches
      /\ doomed \subseteq connected /\ connected \subseteq V8Sessions
  BY SMT, <1>1 DEF V8Inv, HolderFits, NoHolder
<1>3. rx \in [V8Sessions -> Seq(V8Messages)] /\ rx[s] \in Seq(V8Messages)
      /\ Len(rx[s]) < SessionChannel /\ rx' = [rx EXCEPT ![s] = Append(rx[s], m)]
  BY <1>1, <1>2, Facts DEF QueuesTyped
<1>4. /\ Append(rx[s], m) \in Seq(V8Messages) /\ Len(Append(rx[s], m)) = Len(rx[s]) + 1
      /\ \A i : Has(Append(rx[s], m), i) <=> Has(rx[s], i) \/ m = Msg("BridgeResponse", i)
  BY <1>2, <1>3, HasAppended
<1>5. /\ rx' \in [V8Sessions -> Seq(V8Messages)] /\ rx'[s] = Append(rx[s], m)
      /\ \A t \in V8Sessions \ {s} : rx'[t] = rx[t]
  BY SMT, <1>2, <1>3, <1>4
<1>6. \/ /\ dispatching'.step = "join" /\ dispatching'.s = s
         /\ connected' = connected \ {s} /\ doomed' = doomed \ {s}
      \/ dispatching' = NoHolder /\ connected' = connected /\ doomed' = doomed
  BY SMT, <1>1 DEF DropSender
<1>7. Typed' /\ HolderFits' /\ CallsAreNumbered' /\ SlotsAreHeld'
  <2>1. Typed'
    BY <1>2, <1>5, Facts DEF Typed, QueuesTyped, ThreadsTyped, SetsTyped, CallsTyped, abortVars,
       guestVars, callVars
  <2>2. HolderFits'
    BY <1>2, <1>6 DEF HolderFits
  <2>3. CallsAreNumbered'
    BY DEF V8Inv, CallsAreNumbered, callVars
  <2>4. SlotsAreHeld'
    BY SlotKept DEF V8Inv
  <2> QED
    BY <2>1, <2>2, <2>3, <2>4
<1>8. ASSUME NEW t \in V8Sessions, t # s PROVE SessionFits(t)'
  <2>1. Same(t) /\ CallsGrow /\ HostKeeps(t)
    BY <1>1, <1>5, <1>6, <1>8 DEF Same, CallsGrow, HostKeeps, abortVars, callVars
  <2>2. SessionFits(t)
    BY DEF V8Inv
  <2> QED
    BY <2>1, <2>2, AsideFits
<1>9. SessionFits(s)'
  <2>1. SessionFits(s)
    BY <1>2 DEF V8Inv
  <2>2. Untouched(s)
    BY <1>2 DEF Untouched, abortVars, callVars
  <2>3. IsJoined(s)'
    BY <1>2, <1>6 DEF IsJoined
  <2>4. HasRoomLeft(s)'
    BY SMT, <1>3, <1>4, <1>5, V8Assumption DEF HasRoomLeft
  <2>5. ASSUME NEW i, OnItsWay(s, i) PROVE OnItsWay(s, i)'
    <3>1. \/ i \in DOMAIN router /\ router[i] = s
          \/ Has(rx[s], i) \/ m = Msg("BridgeResponse", i)
      BY <1>1, <2>5 DEF OnItsWay, Has
    <3>2. \/ i \in DOMAIN router' /\ router'[i] = s
          \/ Has(rx'[s], i)
      BY <1>4, <1>5, <3>1 DEF callVars
    <3> QED
      BY <3>2 DEF OnItsWay, Has, Msg
  <2> QED
    BY <1>2, <2>1, <2>2, <2>3, <2>4, <2>5, UntouchedFits
<1> QED
  BY <1>7, <1>8, <1>9 DEF V8Inv

\* The thread is joined: nothing of the session is left.
LEMMA JoinStep == ASSUME V8Inv, Join PROVE V8Inv'
<1> USE DEF Join
<1>1. PICK s : s = dispatching.s
  OBVIOUS
<1>2. /\ s \notin connected /\ s \in V8Sessions /\ dispatches \in 0 .. MaxDispatches
      /\ doomed \subseteq connected /\ connected \subseteq V8Sessions /\ thread[s] = "ended"
  BY SMT, <1>1 DEF V8Inv, HolderFits, NoHolder
<1>3. At(s, "none") /\ "none" \in Places /\ "none" \notin HasSlot /\ "ended" \notin HasSlot
      /\ "none" \notin Executing /\ "ended" \notin Executing
  BY <1>1, PlacesAre DEF At
<1>4. /\ thread' \in [V8Sessions -> Places] /\ thread'[s] = "none"
      /\ \A t \in V8Sessions \ {s} : thread'[t] = thread[t]
      /\ SlotsAreHeld'
  BY SMT, <1>2, <1>3, Goes
<1>5. /\ rx' \in [V8Sessions -> Seq(V8Messages)] /\ rx'[s] = Empty
      /\ setAside' \in [V8Sessions -> Seq(V8Messages)]
      /\ \A t \in V8Sessions \ {s} : rx'[t] = rx[t]
  BY <1>1, <1>2, Facts, HasNone DEF QueuesTyped, Empty
<1>6. /\ promises' \in [V8Sessions -> SUBSET CallIds] /\ stale' \in [V8Sessions -> SUBSET CallIds]
      /\ promises'[s] = {} /\ stale'[s] = {}
      /\ \A t \in V8Sessions \ {s} : promises'[t] = promises[t] /\ stale'[t] = stale[t]
  BY <1>1, <1>2, Facts DEF CallsTyped
<1>7. Typed' /\ HolderFits' /\ CallsAreNumbered'
  <2>1. Typed'
    BY <1>2, <1>4, <1>5, <1>6, Facts DEF Typed, QueuesTyped, ThreadsTyped, SetsTyped, CallsTyped,
       abortVars, guestVars
  <2>2. HolderFits'
    BY <1>2 DEF HolderFits
  <2>3. CallsAreNumbered'
    BY DEF V8Inv, CallsAreNumbered
  <2> QED
    BY <2>1, <2>2, <2>3
<1>8. ASSUME NEW t \in V8Sessions, t # s PROVE SessionFits(t)'
  <2>1. Same(t) /\ CallsGrow /\ HostKeeps(t)
    BY <1>1, <1>4, <1>5, <1>6, <1>8 DEF Same, CallsGrow, HostKeeps, abortVars
  <2>2. SessionFits(t)
    BY DEF V8Inv
  <2> QED
    BY <2>1, <2>2, AsideFits
<1>9. SessionFits(s)'
  <2>1. js[s] = "off" /\ timer[s] # "on" /\ frames[s] = <<>>
    BY <1>2, <1>3, Facts, PlacesAre DEF GuestIsPlaced, IsolateIsThere, FramesWait
  <2>2. "none" \notin Running
    BY <1>3, PlacesAre
  <2>3. GuestIsPlaced(s)' /\ IsolateIsThere(s)' /\ FramesWait(s)' /\ OnlyStale(s)'
    BY <1>3, <1>4, <1>6, <2>1 DEF GuestIsPlaced, IsolateIsThere, FramesWait, OnlyStale, abortVars
  <2>4. CallsDiffer(s)' /\ AnswersCome(s)'
    BY <1>2, <1>4, <1>6, <2>1, <2>2, Facts DEF CallsDiffer, AnswersCome
  <2>5. HasRoomLeft(s)' /\ IsJoined(s)'
    BY SMT, <1>4, <1>5, HasNone, V8Assumption DEF HasRoomLeft, IsJoined
  <2> QED
    BY <2>3, <2>4, <2>5 DEF SessionFits
<1> QED
  BY <1>4, <1>7, <1>8, <1>9 DEF V8Inv

----------------------------------------------------------------------------

\* Nothing has been created yet.
LEMMA V8Starts == ASSUME SizesAdd PROVE V8Init => V8Inv
<1> SUFFICES ASSUME V8Init PROVE V8Inv
  OBVIOUS
<1> USE DEF V8Init
<1>1. "none" \in Places /\ "none" \notin HasSlot /\ "none" \notin Executing /\ "none" \notin Running
  BY PlacesAre
<1>2. Typed
  <2>1. QueuesTyped
    BY HasNone DEF QueuesTyped, Empty
  <2>2. ThreadsTyped /\ SetsTyped /\ CallsTyped
    BY <1>1 DEF ThreadsTyped, SetsTyped, CallsTyped
  <2> QED
    BY <2>1, <2>2 DEF Typed
<1>3. HolderFits
  BY SMT, V8Assumption DEF HolderFits
<1>4. CallsAreNumbered
  <2>1. DOMAIN asker = 1 .. 0 /\ DOMAIN router = {}
    BY SMT
  <2>2. 0 \in 0 .. MaxBridgeCalls
    BY SMT, V8Assumption
  <2> QED
    BY <2>1, <2>2 DEF CallsAreNumbered
<1>5. SlotsAreHeld
  <2>1. SlotHolders = {}
    BY <1>1 DEF SlotHolders
  <2>2. Cardinality(SlotHolders) = 0 /\ slots = 0 /\ 0 <= MaxConcurrency
    BY SMT, <2>1, V8Assumption DEF SizesAdd
  <2> QED
    BY <2>2 DEF SlotsAreHeld, SlotHolders
<1>6. ASSUME NEW s \in V8Sessions PROVE SessionFits(s)
  <2>1. GuestIsPlaced(s) /\ IsolateIsThere(s) /\ FramesWait(s) /\ OnlyStale(s) /\ IsJoined(s)
    BY <1>1 DEF GuestIsPlaced, IsolateIsThere, FramesWait, OnlyStale, IsJoined
  <2>2. CallsDiffer(s) /\ AnswersCome(s)
    BY <1>1 DEF CallsDiffer, AnswersCome
  <2>3. HasRoomLeft(s)
    BY SMT, HasNone, V8Assumption DEF HasRoomLeft, Empty
  <2> QED
    BY <2>1, <2>2, <2>3 DEF SessionFits
<1> QED
  BY <1>2, <1>3, <1>4, <1>5, <1>6 DEF V8Inv

\* Every step of the host, of the threads and of the guests keeps the invariant.
LEMMA V8Step == ASSUME SizesAdd PROVE V8Inv /\ [V8Next]_v8Vars => V8Inv'
<1> SUFFICES ASSUME V8Inv, [V8Next]_v8Vars PROVE V8Inv'
  OBVIOUS
<1>1. ASSUME NEW s \in V8Sessions, create_session(s) \/ send_to_session(s, Execute)
             \/ send_to_session(s, Msg("StreamEvent", dispatches + 1))
             \/ TerminateSession(s) \/ TerminateToDestroy(s) \/ destroy_session(s)
      PROVE  V8Inv'
  <2>1. Execute \in V8Messages
    BY DEF V8Messages
  <2>2. send_to_session(s, Msg("StreamEvent", dispatches + 1))
          => Msg("StreamEvent", dispatches + 1) \in V8Messages
    BY Unlocked DEF V8Messages, send_to_session
  <2>3. TerminateSession(s) \/ TerminateToDestroy(s) => V8Inv'
    BY TerminateStep DEF TerminateSession, TerminateToDestroy
  <2>4. destroy_session(s) => V8Inv'
    BY TerminateStep DEF destroy_session
  <2>5. send_to_session(s, Msg("StreamEvent", dispatches + 1)) => V8Inv'
    <3>1. ASSUME NEW m \in V8Messages, send_to_session(s, m) PROVE V8Inv'
      BY <3>1, send_to_sessionStep
    <3>2. SUFFICES ASSUME send_to_session(s, Msg("StreamEvent", dispatches + 1)) PROVE V8Inv'
      OBVIOUS
    <3>3. PICK m \in V8Messages : m = Msg("StreamEvent", dispatches + 1)
      BY <2>2, <3>2
    <3>4. send_to_session(s, m)
      BY <3>2, <3>3
    <3> QED
      BY <3>1, <3>4
  <2> QED
    BY <1>1, <2>1, <2>3, <2>4, <2>5, create_sessionStep, send_to_sessionStep
<1>2. ASSUME NEW s \in V8Sessions, ThreadStep(s) PROVE V8Inv'
  <2>1. StartThread(s) \/ WakeQueued(s) \/ NextCommand(s) \/ PublishIsolate(s) \/ Arm(s)
          \/ Report(s) => V8Inv'
    BY StartThreadStep, WakeQueuedStep, NextCommandStep, PublishIsolateStep, ArmStep, ReportStep
  <2>2. SyncReceives(s) \/ SyncFails(s) => V8Inv'
    BY SyncReceivesStep, SyncFailsStep
  <2>3. LoopTop(s) \/ LoopDispatches(s) \/ LoopDrained(s) \/ LoopReceives(s) \/ SecondLoop(s)
          => V8Inv'
    BY LoopTopStep, LoopDispatchesStep, LoopDrainedStep, LoopReceivesStep, SecondLoopStep
  <2> QED
    BY <1>2, <2>1, <2>2, <2>3 DEF ThreadStep
<1>3. ASSUME NEW s \in V8Sessions, DropIsolate(s) \/ InitScriptEnds(s) \/ TimerFires(s)
             \/ GuestStep(s) \/ LoopAborts(s) \/ LoopPolls(s)
      PROVE  V8Inv'
  <2>1. InitScriptEnds(s) => V8Inv'
    BY InitScriptFailsStep, InitScriptRunsStep DEF InitScriptEnds
  <2>2. GuestStep(s) => V8Inv'
    BY sync_callStep, async_sendStep, GuestReturnsStep, GuestThrowsStep DEF GuestStep
  <2>3. DropIsolate(s) \/ TimerFires(s) \/ LoopAborts(s) \/ LoopPolls(s) => V8Inv'
    BY DropIsolateStep, TimerFiresStep, LoopAbortsStep, LoopPollsStep
  <2> QED
    BY <1>3, <2>1, <2>2, <2>3
<1>4. ASSUME NEW i \in CallIds, SendBridgeResponse(i) PROVE V8Inv'
  BY <1>4, SendBridgeResponseStep
<1>5. ASSUME HostStep PROVE V8Inv'
  BY <1>5, SignalStep, SendEndsStep, JoinStep DEF HostStep
<1>6. ASSUME UNCHANGED v8Vars PROVE V8Inv'
  <2>1. \A t \in V8Sessions : SessionFits(t)'
    <3> SUFFICES ASSUME NEW t \in V8Sessions PROVE SessionFits(t)'
      OBVIOUS
    <3>1. Same(t) /\ CallsGrow /\ HostKeeps(t)
      BY <1>6 DEF Same, CallsGrow, HostKeeps, v8Vars
    <3> QED
      BY <3>1, AsideFits DEF V8Inv
  <2>2. Typed' /\ HolderFits' /\ CallsAreNumbered'
    BY <1>6 DEF V8Inv, Typed, QueuesTyped, ThreadsTyped, SetsTyped, CallsTyped, HolderFits,
       CallsAreNumbered, v8Vars
  <2>3. SlotsAreHeld'
    BY <1>6, SlotKept DEF V8Inv, v8Vars
  <2> QED
    BY <2>1, <2>2, <2>3 DEF V8Inv
<1> QED
  BY <1>1, <1>2, <1>3, <1>4, <1>5, <1>6 DEF V8Next

\* The invariant says what the run checks.
LEMMA V8Shows == ASSUME SizesAdd PROVE V8Inv => V8SessionsAreSound
<1> SUFFICES ASSUME V8Inv PROVE V8SessionsAreSound
  OBVIOUS
<1>1. V8TypeOK
  <2>1. dispatching.step \in {"unlocked", "signal", "shut", "send", "join"}
        /\ (dispatching # NoHolder => dispatching.s \in V8Sessions)
        /\ dispatches \in 0 .. MaxDispatches
        /\ doomed \subseteq connected /\ connected \subseteq V8Sessions
    BY SMT DEF V8Inv, HolderFits, NoHolder
  <2>2. ASSUME NEW s \in V8Sessions
        PROVE  /\ rx[s] \in Seq(V8Messages) /\ Len(rx[s]) <= SessionChannel
               /\ setAside[s] \in Seq(V8Messages) /\ deferred[s] \in Seq(V8Messages)
               /\ frames[s] \in Seq(V8Messages)
               /\ thread[s] \in {"none", "starting", "queued", "ended"} \cup HasSlot
               /\ js[s] \in {"off", "on", "sync"}
               /\ abort[s] \in {"none", "armed", "Terminated", "TimedOut"}
               /\ timer[s] \in {"off", "on", "fired"}
               /\ awaiting[s] \in 0 .. MaxBridgeCalls
               /\ promises[s] \subseteq CallIds /\ stale[s] \subseteq promises[s]
    <3>1. DOMAIN asker \cup {0} \subseteq 0 .. MaxBridgeCalls
      BY SMT, V8Assumption DEF V8Inv, CallsAreNumbered
    <3>2. awaiting[s] \in 0 .. MaxBridgeCalls /\ Len(rx[s]) <= SessionChannel
          /\ stale[s] \subseteq promises[s]
      BY <3>1, Facts DEF CallsDiffer, HasRoomLeft
    <3> QED
      BY <3>2, Facts DEF QueuesTyped, ThreadsTyped, CallsTyped, Places
  <2>3. slots \in Nat
    <3>1. SlotHolders \subseteq V8Sessions
      BY DEF SlotHolders
    <3>2. Cardinality(SlotHolders) \in Nat
      BY <3>1 DEF SizesAdd
    <3> QED
      BY <3>2 DEF V8Inv, SlotsAreHeld, SlotHolders
  <2>4. SetsTyped /\ DOMAIN router \subseteq DOMAIN asker
    BY DEF V8Inv, Typed, CallsAreNumbered
  <2> QED
    BY <2>1, <2>2, <2>3, <2>4 DEF V8TypeOK, SetsTyped
<1>2. ASSUME NEW s \in V8Sessions, thread[s] \in Executing
      PROVE  /\ js[s] = "sync" => OnItsWay(s, awaiting[s]) \/ s \notin connected
             /\ \A i \in promises[s] \ stale[s] :
                  \/ OnItsWay(s, i) \/ s \notin connected
                  \/ \E q \in {deferred[s], frames[s]} :
                       \E k \in DOMAIN q : q[k] = Msg("BridgeResponse", i)
                  \/ thread[s] = "done"
  <2>1. \A i \in promises[s] \ stale[s] : Comes(s, i)
    BY Facts DEF AnswersCome, OnlyStale
  <2>2. \A i : Has(deferred[s], i) \/ Has(frames[s], i)
                 => \E q \in {deferred[s], frames[s]} :
                       \E k \in DOMAIN q : q[k] = Msg("BridgeResponse", i)
    BY DEF Has
  <2> QED
    BY <2>1, <2>2, Facts DEF AnswersCome, Comes
<1> QED
  BY <1>1, <1>2 DEF V8Inv, V8SessionsAreSound, AnswersAreNotLost

----------------------------------------------------------------------------
INSTANCE FiniteSetTheorems

\* The sizes of finite sets (V8Sessions is finite, V8Assumption) add up.
LEMMA SizesDoAdd == SizesAdd
<1>1. Cardinality({}) = 0
  BY FS_EmptySet
<1>2. ASSUME NEW n \in Nat PROVE Cardinality(1 .. n) = n
  BY SMT, FS_Interval
<1>3. ASSUME NEW S \in SUBSET V8Sessions PROVE IsFiniteSet(S)
  BY FS_Subset, V8Assumption
<1>4. ASSUME NEW S \in SUBSET V8Sessions PROVE Cardinality(S) \in Nat
  BY <1>3, FS_CardinalityType
<1>5. ASSUME NEW S \in SUBSET V8Sessions, NEW s \in V8Sessions \ S
      PROVE  Cardinality(S \cup {s}) = Cardinality(S) + 1
  BY <1>3, FS_AddElement
<1> QED
  BY <1>1, <1>2, <1>4, <1>5 DEF SizesAdd

\* Slots and answers of the V8 sessions are kept, for any number of sessions, any max_concurrency
\* and any capacity of a channel: the slot count is the number of threads that hold one and never
\* over the limit, and while a guest waits for a bridge call the host still has the call to answer
\* or the answer is where the waiter reads it (session_thread, dispatch, run_event_loop).
THEOREM SessionsStaySound == V8Spec => []V8SessionsAreSound
<1>1. (V8Init => V8Inv) /\ (V8Inv /\ [V8Next]_v8Vars => V8Inv') /\ (V8Inv => V8SessionsAreSound)
  BY SizesDoAdd, V8Starts, V8Step, V8Shows
<1> QED
  BY <1>1, PTL DEF V8Spec
=============================================================================
