--------------------------- MODULE SidecarLinkProofs ---------------------------
(***************************************************************************)
(* Theorems about SidecarLink, for any number of requests, callbacks,      *)
(* events and waits and any capacity of the event buffer: requests and     *)
(* callbacks first, then events, then what both ends of the link keep.     *)
(***************************************************************************)
EXTENDS SidecarLink, TLAPS

\* Most leaves are first-order; the ones that need arithmetic or sequences say SMT.
USE Zenon

UpFrames   == [type : {"response", "sidecar_request", "event"}, id : Nat]
DownFrames == [type : {"request", "sidecar_response"}, id : Nat]
LoopFrames == [type : {"request", "sidecar_response", "eof"}, id : Nat]

\* The ids of the frames of a type in a pipe, and that none of them is there twice, or that
\* they rise.
IdsOf(q, t)  == {q[i].id : i \in {j \in DOMAIN q : q[j].type = t}}
Once(q, t)   == \A i, j \in DOMAIN q : q[i].type = t /\ q[j].type = t /\ q[i].id = q[j].id => i = j
Rising(q, t) == \A i, j \in DOMAIN q : q[i].type = t /\ q[j].type = t /\ i < j => q[i].id < q[j].id

\* The same of a sequence of events or waits.
In(s)        == {s[i] : i \in DOMAIN s}
Distinct(s)  == \A i, j \in DOMAIN s : s[i] = s[j] => i = j
Ascending(s) == \A i, j \in DOMAIN s : i < j => s[i] < s[j]

Asked   == IdsOf(toClient, "sidecar_request")
Replied == IdsOf(toSidecar, "sidecar_response")
Late    == IdsOf(inbox, "sidecar_response")
Coming  == IdsOf(toClient, "event")

Pipes == toClient \in Seq(UpFrames) /\ toSidecar \in Seq(DownFrames) /\ inbox \in Seq(LoopFrames)

\* Requests: what is pending was issued, and what is served was a request.
RequestsInv ==
    /\ nextRequestId \in 1 .. MaxRequests + 1 /\ pendingResponses \subseteq 1 .. nextRequestId - 1
    /\ awaitedBy \in [RequestIds -> 0 .. callbacks] /\ callbacks \in Nat
    /\ serving \in RequestIds \cup {0}
    /\ IdsOf(toSidecar, "request") \subseteq RequestIds /\ IdsOf(inbox, "request") \subseteq RequestIds
    /\ disposal \in {"none", "draining", "done"}
    /\ mainLoop \in {"running", "stopped", "failed", "killed"}

\* Waits: the queue holds each wait under way once, and none once the client has failed.
WaitsInv ==
    /\ eventWaiters \in Seq(EventWaits) /\ Distinct(eventWaiters)
    /\ wanted \in [EventWaits -> EventKinds \cup {"none"}]
    /\ \A w \in EventWaits : w \in In(eventWaiters) <=> wanted[w] # "none"
    /\ closed \in {"none", "exited", "overflow", "write", "disposed"}
    /\ ClosedClientIsSettled

\* Callbacks: a call is at one place of its way down and up, and an invoke that waits has its
\* waiter in the map until the answer is taken out of the pipe.
CallPlaces ==
    /\ callbacks \in Nat /\ accepting \in 0 .. callbacks
    /\ Asked \cup handling \cup Replied \cup Late \cup invoking \subseteq 1 .. callbacks
    /\ Asked \cap handling = {} /\ Asked \cap Replied = {} /\ handling \cap Replied = {}
    /\ waiters \cup answered \subseteq invoking
    /\ invoking \subseteq waiters \cup answered \cup {accepting}
    /\ (answered \cup {accepting}) \cap (Asked \cup handling \cup Replied) = {}
    /\ Late \cap invoking = {}
    /\ onMain # 0 => onMain \in invoking

CallsInv ==
    /\ Once(toClient, "sidecar_request") /\ Once(toSidecar, "sidecar_response")
    /\ CallPlaces

\* Events: where event e is, unless it was dropped or lost.
Kept(e) == e \in Coming \/ e \in In(bufferedEvents) \/ e \in In(received[emitted[e]])

EventTypes ==
    /\ emitted \in Seq(EventKinds)
    /\ bufferedEvents \in Seq(1 .. Len(emitted)) /\ Len(bufferedEvents) <= eventBufferCapacity
    /\ received \in [EventKinds -> Seq(1 .. Len(emitted))]
    /\ Coming \subseteq 1 .. Len(emitted)

\* What is on the way is later than what has arrived; of a kind, what is buffered is later than
\* what was handed out, and nothing is buffered that a wait would take.
ComingIsLast ==
    \A x \in Coming : /\ \A y \in In(bufferedEvents) : y < x
                      /\ \A k \in EventKinds : \A y \in In(received[k]) : y < x

KindsInOrder ==
    \A k \in EventKinds :
       /\ Ascending(received[k])
       /\ \A y \in In(received[k]) : emitted[y] = k
       /\ \A y \in In(received[k]), x \in In(bufferedEvents) : emitted[x] = k => y < x

NoneIsWanted == \A w \in EventWaits, x \in In(bufferedEvents) : wanted[w] # emitted[x]

\* While the client has not failed only an exit loses events, and then the last ones.
Lost(e) == ~Running /\ \A x \in 1 .. Len(emitted) : Kept(x) => x < e
NoneIsLost == closed = "none" => \A e \in 1 .. Len(emitted) : Kept(e) \/ Lost(e)

NoneIsPassedOver ==
    closed \in {"none", "overflow"} =>
       \A k \in EventKinds : \A y \in In(received[k]) : \A e \in 1 .. y :
          emitted[e] = k => e \in In(received[k])

EventsInv ==
    /\ EventTypes /\ Ascending(bufferedEvents) /\ Rising(toClient, "event")
    /\ ComingIsLast /\ KindsInOrder /\ NoneIsWanted /\ NoneIsLost /\ NoneIsPassedOver

LinkInv == Pipes /\ RequestsInv /\ WaitsInv /\ CallsInv /\ EventsInv

--------------------------------------------------------------------------------
(* Sequences of frames. *)

\* A frame is put at the end of a pipe.
LEMMA AppendIds ==
    ASSUME NEW F, NEW q \in Seq(F), NEW f \in F, NEW t
    PROVE  /\ Append(q, f) \in Seq(F)
           /\ IdsOf(Append(q, f), t) = IdsOf(q, t) \cup (IF f.type = t THEN {f.id} ELSE {})
           /\ Once(q, t) /\ (f.type = t => f.id \notin IdsOf(q, t)) => Once(Append(q, f), t)
           /\ Rising(q, t) /\ (f.type = t => \A x \in IdsOf(q, t) : x < f.id)
                 => Rising(Append(q, f), t)
<1> DEFINE r == Append(q, f)
<1>1. /\ r \in Seq(F) /\ DOMAIN q = 1 .. Len(q) /\ DOMAIN r = 1 .. Len(q) + 1 /\ Len(q) \in Nat
      /\ r[Len(q) + 1] = f
  BY SMT
<1>2. \A i \in DOMAIN q : r[i] = q[i]
  BY SMT
<1>3. \A i \in DOMAIN r : i \in DOMAIN q \/ i = Len(q) + 1
  BY SMT, <1>1
<1> HIDE DEF r
<1>4. IdsOf(r, t) = IdsOf(q, t) \cup (IF f.type = t THEN {f.id} ELSE {})
  <2>1. ASSUME NEW x \in IdsOf(r, t) PROVE x \in IdsOf(q, t) \cup (IF f.type = t THEN {f.id} ELSE {})
    BY <2>1, <1>1, <1>2, <1>3 DEF IdsOf
  <2>2. ASSUME NEW x \in IdsOf(q, t) PROVE x \in IdsOf(r, t)
    <3>1. PICK i \in DOMAIN q : q[i].type = t /\ x = q[i].id
      BY <2>2 DEF IdsOf
    <3>2. i \in DOMAIN r /\ r[i] = q[i]
      BY SMT, <1>1, <1>2
    <3> QED BY <3>1, <3>2 DEF IdsOf
  <2>3. ASSUME f.type = t PROVE f.id \in IdsOf(r, t)
    <3>1. Len(q) + 1 \in DOMAIN r
      BY SMT, <1>1
    <3> QED BY <3>1, <2>3, <1>1 DEF IdsOf
  <2> QED BY <2>1, <2>2, <2>3
<1>5. ASSUME Once(q, t), f.type = t => f.id \notin IdsOf(q, t) PROVE Once(r, t)
  BY SMT, <1>1, <1>2, <1>3, <1>5 DEF Once, IdsOf
<1>6. ASSUME Rising(q, t), f.type = t => \A x \in IdsOf(q, t) : x < f.id PROVE Rising(r, t)
  BY SMT, <1>1, <1>2, <1>3, <1>6 DEF Rising, IdsOf
<1> QED BY <1>1, <1>4, <1>5, <1>6 DEF r

\* A frame of another type is put there.
LEMMA AppendOther ==
    ASSUME NEW F, NEW q \in Seq(F), NEW f \in F, NEW t, f.type # t
    PROVE  /\ IdsOf(Append(q, f), t) = IdsOf(q, t)
           /\ Once(q, t) => Once(Append(q, f), t)
           /\ Rising(q, t) => Rising(Append(q, f), t)
<1>1. IdsOf(Append(q, f), t) = IdsOf(q, t) \cup (IF f.type = t THEN {f.id} ELSE {})
  BY SMT, AppendIds
<1>2. Once(q, t) => Once(Append(q, f), t)
  BY AppendIds
<1>3. Rising(q, t) => Rising(Append(q, f), t)
  BY AppendIds
<1> QED BY <1>1, <1>2, <1>3

\* A frame is taken from the head of a pipe.
LEMMA TailIds ==
    ASSUME NEW F, NEW q \in Seq(F), q # <<>>, NEW t
    PROVE  /\ Tail(q) \in Seq(F) /\ Head(q) \in F
           /\ IdsOf(q, t) = IdsOf(Tail(q), t) \cup (IF Head(q).type = t THEN {Head(q).id} ELSE {})
           /\ Once(q, t) => /\ Once(Tail(q), t)
                            /\ Head(q).type = t => Head(q).id \notin IdsOf(Tail(q), t)
           /\ Rising(q, t) => /\ Rising(Tail(q), t)
                              /\ Head(q).type = t => \A x \in IdsOf(Tail(q), t) : Head(q).id < x
<1> DEFINE r == Tail(q)
<1>1. /\ r \in Seq(F) /\ DOMAIN q = 1 .. Len(q) /\ DOMAIN r = 1 .. Len(q) - 1 /\ Len(q) \in Nat \ {0}
      /\ Head(q) = q[1] /\ Head(q) \in F
  BY SMT
<1>2. \A i \in DOMAIN r : r[i] = q[i + 1]
  BY SMT
<1> HIDE DEF r
<1>3. \A i \in DOMAIN q : i = 1 \/ (i - 1 \in DOMAIN r /\ r[i - 1] = q[i])
  BY SMT, <1>1, <1>2
<1>4. \A i \in DOMAIN r : i + 1 \in DOMAIN q /\ i + 1 # 1
  BY SMT, <1>1
<1>5. IdsOf(q, t) = IdsOf(r, t) \cup (IF Head(q).type = t THEN {Head(q).id} ELSE {})
  <2>1. ASSUME NEW x \in IdsOf(q, t)
        PROVE x \in IdsOf(r, t) \cup (IF Head(q).type = t THEN {Head(q).id} ELSE {})
    BY SMT, <2>1, <1>1, <1>3 DEF IdsOf
  <2>2. ASSUME NEW x \in IdsOf(r, t) PROVE x \in IdsOf(q, t)
    <3>1. PICK i \in DOMAIN r : r[i].type = t /\ x = r[i].id
      BY <2>2 DEF IdsOf
    <3>2. i + 1 \in DOMAIN q /\ q[i + 1] = r[i]
      BY <1>2, <1>4
    <3> QED BY <3>1, <3>2 DEF IdsOf
  <2>3. ASSUME Head(q).type = t PROVE Head(q).id \in IdsOf(q, t)
    <3>1. 1 \in DOMAIN q
      BY SMT, <1>1
    <3> QED BY <3>1, <2>3, <1>1 DEF IdsOf
  <2> QED BY <2>1, <2>2, <2>3
<1>6. ASSUME Once(q, t)
      PROVE  Once(r, t) /\ (Head(q).type = t => Head(q).id \notin IdsOf(r, t))
  <2>1. Once(r, t)
    BY SMT, <1>1, <1>2, <1>4, <1>6 DEF Once
  <2>2. ASSUME Head(q).type = t, Head(q).id \in IdsOf(r, t) PROVE FALSE
    <3>1. PICK i \in DOMAIN r : r[i].type = t /\ r[i].id = Head(q).id
      BY <2>2 DEF IdsOf
    <3>2. i + 1 \in DOMAIN q /\ q[i + 1] = r[i] /\ 1 \in DOMAIN q /\ i + 1 # 1
      BY SMT, <1>1, <1>2, <1>4
    <3> QED BY <3>1, <3>2, <2>2, <1>1, <1>6 DEF Once
  <2> QED BY <2>1, <2>2
<1>7. ASSUME Rising(q, t)
      PROVE  Rising(r, t) /\ (Head(q).type = t => \A x \in IdsOf(r, t) : Head(q).id < x)
  <2>1. Rising(r, t)
    <3>1. \A i, j \in DOMAIN r : i < j => i + 1 < j + 1
      BY SMT, <1>1
    <3> QED BY <3>1, <1>2, <1>4, <1>7 DEF Rising
  <2>2. ASSUME Head(q).type = t, NEW x \in IdsOf(r, t) PROVE Head(q).id < x
    <3>1. PICK i \in DOMAIN r : r[i].type = t /\ r[i].id = x
      BY <2>2 DEF IdsOf
    <3>2. i + 1 \in DOMAIN q /\ q[i + 1] = r[i] /\ 1 \in DOMAIN q /\ 1 < i + 1
      BY SMT, <1>1, <1>2, <1>4
    <3> QED BY <3>1, <3>2, <2>2, <1>1, <1>7 DEF Rising
  <2> QED BY <2>1, <2>2
<1> QED BY <1>1, <1>5, <1>6, <1>7 DEF r

\* An exit cuts a pipe off: what is lost is later than what is left.
LEMMA PrefixIds ==
    ASSUME NEW F, NEW q \in Seq(F), NEW n \in 0 .. Len(q), NEW t
    PROVE  /\ SubSeq(q, 1, n) \in Seq(F)
           /\ IdsOf(SubSeq(q, 1, n), t) \subseteq IdsOf(q, t)
           /\ Once(q, t) => Once(SubSeq(q, 1, n), t)
           /\ Rising(q, t) =>
                 /\ Rising(SubSeq(q, 1, n), t)
                 /\ \A x \in IdsOf(q, t) \ IdsOf(SubSeq(q, 1, n), t) :
                       \A y \in IdsOf(SubSeq(q, 1, n), t) : y < x
<1> DEFINE r == SubSeq(q, 1, n)
<1>1. /\ r \in Seq(F) /\ DOMAIN q = 1 .. Len(q) /\ DOMAIN r = 1 .. n /\ n \in Nat /\ Len(q) \in Nat
      /\ n <= Len(q)
  BY SMT
<1>2. \A i \in DOMAIN r : r[i] = q[i]
  BY SMT
<1> HIDE DEF r
<1>3. \A i \in DOMAIN r : i \in DOMAIN q
  BY SMT, <1>1
<1>4. IdsOf(r, t) \subseteq IdsOf(q, t)
  BY <1>2, <1>3 DEF IdsOf
<1>5. Once(q, t) => Once(r, t)
  BY <1>2, <1>3 DEF Once
<1>6. Rising(q, t) => Rising(r, t)
  BY <1>2, <1>3 DEF Rising
<1>7. ASSUME Rising(q, t), NEW x \in IdsOf(q, t) \ IdsOf(r, t), NEW y \in IdsOf(r, t) PROVE y < x
  <2>1. PICK i \in DOMAIN q : q[i].type = t /\ x = q[i].id
    BY <1>7 DEF IdsOf
  <2>2. PICK j \in DOMAIN r : r[j].type = t /\ y = r[j].id
    BY <1>7 DEF IdsOf
  <2>3. i \notin DOMAIN r
    BY <2>1, <1>2, <1>7 DEF IdsOf
  <2>4. j < i /\ j \in DOMAIN q /\ q[j] = r[j]
    BY SMT, <2>3, <1>1, <1>2
  <2> QED BY <2>1, <2>2, <2>4, <1>7 DEF Rising
<1> QED BY <1>1, <1>4, <1>5, <1>6, <1>7 DEF r

\* Nothing is in an empty pipe.
LEMMA EmptyIds == ASSUME NEW F, NEW t PROVE <<>> \in Seq(F) /\ IdsOf(<<>>, t) = {} /\ Once(<<>>, t)
  BY SMT DEF IdsOf, Once

(* Sequences of events and of waits. *)

\* An event or a wait is put at the end.
LEMMA AppendIn ==
    ASSUME NEW S, NEW s \in Seq(S), NEW e \in S
    PROVE  /\ Append(s, e) \in Seq(S) /\ Len(Append(s, e)) = Len(s) + 1
           /\ In(Append(s, e)) = In(s) \cup {e}
           /\ Distinct(s) /\ e \notin In(s) => Distinct(Append(s, e))
           /\ Ascending(s) /\ (\A y \in In(s) : y < e) => Ascending(Append(s, e))
<1> DEFINE r == Append(s, e)
<1>1. /\ r \in Seq(S) /\ DOMAIN s = 1 .. Len(s) /\ DOMAIN r = 1 .. Len(s) + 1 /\ Len(s) \in Nat
      /\ r[Len(s) + 1] = e /\ Len(r) = Len(s) + 1
  BY SMT
<1>2. \A i \in DOMAIN s : r[i] = s[i]
  BY SMT
<1>3. \A i \in DOMAIN r : i \in DOMAIN s \/ i = Len(s) + 1
  BY SMT, <1>1
<1> HIDE DEF r
<1>4. In(r) = In(s) \cup {e}
  <2>1. \A x \in In(r) : x \in In(s) \cup {e}
    BY <1>1, <1>2, <1>3 DEF In
  <2>2. \A x \in In(s) : x \in In(r)
    <3>1. \A i \in DOMAIN s : i \in DOMAIN r
      BY SMT, <1>1
    <3> QED BY <3>1, <1>2 DEF In
  <2>3. e \in In(r)
    <3>1. Len(s) + 1 \in DOMAIN r
      BY SMT, <1>1
    <3> QED BY <3>1, <1>1 DEF In
  <2> QED BY <2>1, <2>2, <2>3
<1>5. ASSUME Distinct(s), e \notin In(s) PROVE Distinct(r)
  BY <1>1, <1>2, <1>3, <1>5 DEF Distinct, In
<1>6. ASSUME Ascending(s), \A y \in In(s) : y < e PROVE Ascending(r)
  BY SMT, <1>1, <1>2, <1>3, <1>6 DEF Ascending, In
<1> QED BY <1>1, <1>4, <1>5, <1>6 DEF r

\* What is left when an entry is taken out.
LEMMA Removed ==
    ASSUME NEW S, NEW s \in Seq(S), NEW i \in 1 .. Len(s)
    PROVE  /\ Deleted(s, i) \in Seq(S) /\ Len(Deleted(s, i)) = Len(s) - 1
           /\ \A j \in 1 .. Len(s) - 1 : Deleted(s, i)[j] = IF j < i THEN s[j] ELSE s[j + 1]
<1> DEFINE u == SubSeq(s, 1, i - 1)
           v == SubSeq(s, i + 1, Len(s))
<1>1. Len(s) \in Nat /\ i \in Nat
  BY SMT
<1>2. u \in Seq(S) /\ Len(u) = i - 1 /\ \A j \in 1 .. i - 1 : u[j] = s[j]
  BY SMT, <1>1
<1>3. v \in Seq(S) /\ Len(v) = Len(s) - i /\ \A j \in 1 .. Len(s) - i : v[j] = s[i + j]
  BY SMT, <1>1
<1> HIDE DEF u, v
<1>4. /\ u \o v \in Seq(S) /\ Len(u \o v) = Len(u) + Len(v)
      /\ \A j \in 1 .. Len(u) + Len(v) : (u \o v)[j] = IF j <= Len(u) THEN u[j] ELSE v[j - Len(u)]
  <2>1. u \in Seq(S) /\ v \in Seq(S)
    BY <1>2, <1>3
  <2> QED BY SMT, <2>1
<1>5. Len(u \o v) = Len(s) - 1
  BY SMT, <1>1, <1>2, <1>3, <1>4
<1>6. ASSUME NEW j \in 1 .. Len(s) - 1 PROVE (u \o v)[j] = IF j < i THEN s[j] ELSE s[j + 1]
  <2>1. j \in 1 .. Len(u) + Len(v)
    BY SMT, <1>1, <1>2, <1>3
  <2>2. CASE j < i
    BY SMT, <2>1, <2>2, <1>1, <1>2, <1>4
  <2>3. CASE ~(j < i)
    <3>1. j - (i - 1) \in 1 .. Len(s) - i /\ i + (j - (i - 1)) = j + 1 /\ ~(j <= i - 1)
      BY SMT, <2>3, <1>1
    <3>2. v[j - (i - 1)] = s[j + 1]
      BY <3>1, <1>3
    <3> QED BY <2>1, <2>3, <3>1, <3>2, <1>2, <1>4
  <2> QED BY <2>2, <2>3
<1> QED BY <1>4, <1>5, <1>6 DEF Deleted, u, v

\* An event or a wait is taken out.
LEMMA DeleteIn ==
    ASSUME NEW S, NEW s \in Seq(S), NEW i \in DOMAIN s
    PROVE  /\ Deleted(s, i) \in Seq(S) /\ Len(Deleted(s, i)) = Len(s) - 1
           /\ In(s) = In(Deleted(s, i)) \cup {s[i]}
           /\ Distinct(s) => Distinct(Deleted(s, i)) /\ s[i] \notin In(Deleted(s, i))
<1> DEFINE r == Deleted(s, i)
<1>1. /\ DOMAIN s = 1 .. Len(s) /\ Len(s) \in Nat \ {0} /\ i \in 1 .. Len(s)
      /\ r \in Seq(S) /\ Len(r) = Len(s) - 1
  BY SMT, Removed
<1>2. \A j \in 1 .. Len(s) - 1 : r[j] = IF j < i THEN s[j] ELSE s[j + 1]
  BY <1>1, Removed
<1> HIDE DEF r
<1>a. DOMAIN r = 1 .. Len(s) - 1
  BY SMT, <1>1
<1> DEFINE from(j) == IF j < i THEN j ELSE j + 1
           to(j)   == IF j < i THEN j ELSE j - 1
<1>3. \A j \in DOMAIN r : from(j) \in DOMAIN s /\ from(j) # i /\ r[j] = s[from(j)]
  BY SMT, <1>1, <1>2, <1>a
<1>4. \A j \in DOMAIN s : j # i => to(j) \in DOMAIN r /\ r[to(j)] = s[j]
  BY SMT, <1>1, <1>2, <1>a
<1>5. \A j, l \in DOMAIN r : from(j) = from(l) => j = l
  BY SMT, <1>1, <1>a
<1> HIDE DEF from, to
<1>6. In(s) = In(r) \cup {s[i]}
  BY SMT, <1>3, <1>4 DEF In
<1>7. ASSUME Distinct(s) PROVE Distinct(r) /\ s[i] \notin In(r)
  BY SMT, <1>3, <1>5, <1>7 DEF Distinct, In
<1> QED BY <1>1, <1>6, <1>7 DEF r

\* Taking an event out of a buffer in ascending order leaves it in that order.
LEMMA DeleteAscending ==
    ASSUME NEW S, S \subseteq Nat, NEW s \in Seq(S), NEW i \in DOMAIN s, Ascending(s)
    PROVE  /\ Ascending(Deleted(s, i)) /\ s[i] \notin In(Deleted(s, i))
           /\ \A j \in DOMAIN s : i <= j => s[i] <= s[j]
<1> DEFINE r == Deleted(s, i)
<1>1. /\ DOMAIN s = 1 .. Len(s) /\ Len(s) \in Nat \ {0} /\ i \in 1 .. Len(s)
      /\ r \in Seq(S) /\ Len(r) = Len(s) - 1
  BY SMT, Removed
<1>b. \A j \in DOMAIN s : j \in Nat /\ s[j] \in Nat
  <2>1. \A j \in DOMAIN s : s[j] \in S
    BY SMT
  <2>2. \A j \in DOMAIN s : s[j] \in Nat
    BY <2>1
  <2>3. DOMAIN s \subseteq Nat
    BY SMT, <1>1
  <2> QED BY <2>2, <2>3
<1>2. \A j \in 1 .. Len(s) - 1 : r[j] = IF j < i THEN s[j] ELSE s[j + 1]
  BY <1>1, Removed
<1> HIDE DEF r
<1>a. DOMAIN r = 1 .. Len(s) - 1
  BY SMT, <1>1
<1> DEFINE from(j) == IF j < i THEN j ELSE j + 1
<1>3. \A j \in DOMAIN r : from(j) \in DOMAIN s /\ from(j) # i /\ r[j] = s[from(j)]
  BY SMT, <1>1, <1>2, <1>a
<1>4. \A j, l \in DOMAIN r : j < l => from(j) < from(l)
  BY SMT, <1>1, <1>a
<1> HIDE DEF from
<1>5. Ascending(r)
  BY <1>3, <1>4 DEF Ascending
<1>6. \A j, l \in DOMAIN s : s[j] = s[l] => j = l
  BY SMT, <1>b DEF Ascending
<1>7. s[i] \notin In(r)
  BY SMT, <1>3, <1>6 DEF In
<1>8. \A j \in DOMAIN s : i <= j => s[i] <= s[j]
  BY SMT, <1>b DEF Ascending
<1> QED BY <1>5, <1>7, <1>8 DEF r

--------------------------------------------------------------------------------
(* What the steps do to the pipes. *)

\* The process ends.
LEMMA ExitPipes ==
    ASSUME Pipes, toSidecar' = <<>>, NEW how, Exit(how)
    PROVE  Pipes'
  BY SMT, PrefixIds, EmptyIds DEF Pipes, Exit

\* Every step keeps frames of the right types in each pipe.
LEMMA PipesNext == ASSUME LinkInv, LinkNext PROVE Pipes'
<1> USE DEF LinkInv
<1>0. /\ Pipes
      /\ nextRequestId \in Nat /\ serving \in Nat /\ callbacks \in Nat /\ handling \subseteq Nat
  BY SMT DEF RequestsInv, CallsInv, CallPlaces, RequestIds
<1>1. ASSUME NEW h, SendRequest(h) PROVE Pipes'
  <2>1. Frame("request", nextRequestId) \in DownFrames
    BY <1>0 DEF Frame, DownFrames
  <2>2. Append(toSidecar, Frame("request", nextRequestId)) \in Seq(DownFrames)
    BY <2>1, <1>0, AppendIds DEF Pipes
  <2> QED BY <2>2, <1>0, <1>1 DEF SendRequest, Pipes, sidecarVars, readerVars
<1>2. ASSUME NEW n, RequestTimesOut(n) PROVE Pipes'
  BY <1>0, <1>2 DEF RequestTimesOut, Pipes, sidecarVars, readerVars
<1>3. CASE DrainFrame
  BY <1>0, <1>3, TailIds DEF DrainFrame, Pipes, sidecarVars, readerVars
<1>4. CASE SeeExit \/ DisposeReturns \/ Dispose
  BY <1>0, <1>4 DEF SeeExit, DisposeReturns, Dispose, Pipes, sidecarVars, readerVars
<1>5. ASSUME NEW h \in CallbackIds, HandlerAnswers(h) PROVE Pipes'
  <2>1. Frame("sidecar_response", h) \in DownFrames
    BY SMT, LinkAssumption DEF Frame, DownFrames, CallbackIds
  <2>2. Append(toSidecar, Frame("sidecar_response", h)) \in Seq(DownFrames)
    BY <2>1, <1>0, AppendIds DEF Pipes
  <2> QED BY <2>2, <1>0, <1>5 DEF HandlerAnswers, Pipes, sidecarVars, readerVars
<1>6. ASSUME NEW h, InvokeEnds(h) PROVE Pipes'
  BY <1>0, <1>6 DEF InvokeEnds, Pipes, readerVars
<1>7. ASSUME NEW w, NEW k, WaitForEvent(w, k) \/ WaitGivesUp(w) PROVE Pipes'
  BY <1>0, <1>7 DEF WaitForEvent, WaitGivesUp, Pipes, sidecarVars, readerVars
<1>8. CASE Die
  BY <1>0, <1>8, ExitPipes DEF Die
<1>9. CASE ReadFrame
  <2>1. Head(toSidecar) \in LoopFrames /\ Tail(toSidecar) \in Seq(DownFrames)
    <3>1. toSidecar # <<>> /\ toSidecar \in Seq(DownFrames)
      BY <1>0, <1>9 DEF ReadFrame, Pipes
    <3>2. Head(toSidecar) \in DownFrames /\ Tail(toSidecar) \in Seq(DownFrames)
      BY <3>1, TailIds
    <3> QED BY <3>2 DEF DownFrames, LoopFrames
  <2>2. Append(inbox, Head(toSidecar)) \in Seq(LoopFrames)
    BY <2>1, <1>0, AppendIds DEF Pipes
  <2> QED BY <2>1, <2>2, <1>0, <1>9 DEF ReadFrame, Pipes
<1>10. CASE HandOver
  BY <1>0, <1>10 DEF HandOver, Pipes
<1>11. CASE ReadEof
  <2>1. Frame("eof", 0) \in LoopFrames
    BY DEF Frame, LoopFrames
  <2> QED BY <2>1, <1>0, <1>11, AppendIds DEF ReadEof, Pipes
<1>12. CASE TakeFrame
  <2>1. CASE Head(inbox).type = "request"
    <3>1. inbox # <<>> /\ inbox' = Tail(inbox) /\ UNCHANGED <<toSidecar, toClient>>
      BY <2>1, <1>12 DEF TakeFrame
    <3>2. Tail(inbox) \in Seq(LoopFrames)
      BY <3>1, <1>0, TailIds DEF Pipes
    <3> QED BY <3>1, <3>2, <1>0 DEF Pipes
  <2>2. CASE Head(inbox).type # "request"
    BY <2>2, <1>0, <1>12, ExitPipes DEF TakeFrame
  <2> QED BY <2>1, <2>2
<1>13. CASE Respond
  <2>1. Frame("response", serving) \in UpFrames
    BY <1>0 DEF Frame, UpFrames
  <2> QED BY <2>1, <1>0, <1>13, AppendIds DEF Respond, Pipes, readerVars
<1>14. ASSUME NEW k, EmitEvent(k) PROVE Pipes'
  <2>1. Frame("event", Len(emitted) + 1) \in UpFrames
    BY SMT DEF Frame, UpFrames, EventsInv, EventTypes
  <2> QED BY <2>1, <1>0, <1>14, AppendIds DEF EmitEvent, Pipes, readerVars
<1>15. CASE InvokeOnMain \/ InvokeOnThread
  <2>1. Frame("sidecar_request", callbacks + 1) \in UpFrames
    BY SMT, <1>0 DEF Frame, UpFrames
  <2>2. Append(toClient, Frame("sidecar_request", callbacks + 1)) \in Seq(UpFrames)
    BY <2>1, <1>0, AppendIds DEF Pipes
  <2>3. /\ toClient' = Append(toClient, Frame("sidecar_request", callbacks + 1))
        /\ UNCHANGED <<toSidecar, inbox>>
    BY <1>15 DEF InvokeOnMain, InvokeOnThread, SendCallback, readerVars
  <2> QED BY <2>2, <2>3, <1>0 DEF Pipes
<1> QED BY <1>1, <1>2, <1>3, <1>4, <1>5, <1>6, <1>7, <1>8, <1>9, <1>10, <1>11, <1>12, <1>13,
           <1>14, <1>15 DEF LinkNext, ClientStep, ReaderStep, LoopStep

--------------------------------------------------------------------------------
(* Requests. *)

\* Every step keeps the client's table of requests within the ids it has issued.
LEMMA RequestsNext == ASSUME LinkInv, LinkNext PROVE RequestsInv'
<1> USE DEF LinkInv, RequestsInv
<1>0. /\ MaxRequests \in Nat /\ RequestIds = 1 .. MaxRequests /\ callbacks \in Nat
      /\ nextRequestId \in 1 .. MaxRequests + 1 /\ pendingResponses \subseteq 1 .. nextRequestId - 1
      /\ awaitedBy \in [RequestIds -> 0 .. callbacks]
  BY LinkAssumption DEF RequestIds
<1>a. toSidecar \in Seq(DownFrames) /\ inbox \in Seq(LoopFrames)
  BY DEF Pipes
<1>1. ASSUME NEW h \in CallbackIds \cup {0}, SendRequest(h) PROVE RequestsInv'
  <2>1. h \in 0 .. callbacks
    <3>1. handling \subseteq 1 .. callbacks
      BY DEF CallsInv, CallPlaces
    <3>2. h = 0 \/ h \in handling
      BY <1>1 DEF SendRequest
    <3>3. h \in 1 .. callbacks => h \in 0 .. callbacks
      BY SMT, <1>0
    <3>4. 0 \in 0 .. callbacks
      BY SMT, <1>0
    <3> QED BY <3>1, <3>2, <3>3, <3>4
  <2>2. nextRequestId \in RequestIds
    BY <1>1 DEF SendRequest
  <2>3. /\ nextRequestId' \in 1 .. MaxRequests + 1 /\ pendingResponses' \subseteq 1 .. nextRequestId' - 1
        /\ awaitedBy' \in [RequestIds -> 0 .. callbacks]
    <3>1. nextRequestId' = nextRequestId + 1
      BY <1>1 DEF SendRequest
    <3>2. /\ pendingResponses' \subseteq pendingResponses \cup {nextRequestId}
          /\ awaitedBy' = awaitedBy \/ awaitedBy' = [awaitedBy EXCEPT ![nextRequestId] = h]
      BY <1>1 DEF SendRequest
    <3>3. pendingResponses' \subseteq 1 .. nextRequestId' - 1 /\ nextRequestId' \in 1 .. MaxRequests + 1
      BY SMT, <3>1, <3>2, <2>2, <1>0
    <3>4. awaitedBy' \in [RequestIds -> 0 .. callbacks]
      BY <3>2, <2>1, <2>2, <1>0
    <3> QED BY <3>3, <3>4
  <2>4. IdsOf(toSidecar', "request") \subseteq RequestIds
    <3>1. CASE toSidecar' = Append(toSidecar, Frame("request", nextRequestId))
      <4>1. Frame("request", nextRequestId) \in DownFrames
            /\ Frame("request", nextRequestId).id = nextRequestId
        BY SMT, <2>2, <1>0 DEF Frame, DownFrames
      <4>2. IdsOf(toSidecar', "request") \subseteq IdsOf(toSidecar, "request") \cup {nextRequestId}
        BY SMT, <4>1, <3>1, <1>a, AppendIds
      <4> QED BY <4>2, <2>2
    <3>2. CASE toSidecar' = toSidecar
      BY <3>2
    <3> QED BY <3>1, <3>2, <1>1 DEF SendRequest
  <2> QED BY <2>3, <2>4, <1>1 DEF SendRequest, sidecarVars, readerVars, loopVars, callbackVars
<1>2. ASSUME NEW n, RequestTimesOut(n) PROVE RequestsInv'
  BY <1>2 DEF RequestTimesOut, sidecarVars, readerVars, loopVars, callbackVars
<1>3. CASE DrainFrame
  <2>1. pendingResponses' \subseteq pendingResponses
    <3> DEFINE f == Head(toClient)
    <3>1. f.type \in {"response", "sidecar_request", "event"}
      <4>1. f \in UpFrames
        BY <1>3, TailIds DEF DrainFrame, Pipes
      <4> QED BY <4>1 DEF UpFrames
    <3>2. ASSUME NEW e, DispatchEvent(e) PROVE pendingResponses' \subseteq pendingResponses
      BY <3>2 DEF DispatchEvent, BufferEvent, FailPermanently
    <3>3. \/ pendingResponses' \subseteq pendingResponses
          \/ DispatchEvent(f.id)
      BY <3>1, <1>3 DEF DrainFrame
    <3> QED BY <3>2, <3>3
  <2> QED BY <2>1, <1>3 DEF DrainFrame, sidecarVars, readerVars, loopVars, callbackVars
<1>4. CASE SeeExit \/ DisposeReturns \/ Dispose
  <2>1. pendingResponses' \subseteq pendingResponses
    BY <1>4 DEF SeeExit, DisposeReturns, Dispose, FailPermanently
  <2> QED BY <2>1, <1>4
          DEF SeeExit, DisposeReturns, Dispose, sidecarVars, readerVars, loopVars, callbackVars
<1>5. ASSUME NEW h \in CallbackIds, HandlerAnswers(h) PROVE RequestsInv'
  <2>1. pendingResponses' \subseteq pendingResponses
    BY <1>5 DEF HandlerAnswers, FailPermanently
  <2>2. IdsOf(toSidecar', "request") = IdsOf(toSidecar, "request")
    <3>1. CASE toSidecar' = Append(toSidecar, Frame("sidecar_response", h))
      <4>1. Frame("sidecar_response", h) \in DownFrames
            /\ Frame("sidecar_response", h).type # "request"
        BY SMT, LinkAssumption DEF Frame, DownFrames, CallbackIds
      <4> QED BY SMT, <4>1, <3>1, <1>a, AppendOther
    <3>2. CASE toSidecar' = toSidecar
      BY <3>2
    <3> QED BY <3>1, <3>2, <1>5 DEF HandlerAnswers
  <2> QED BY <2>1, <2>2, <1>5 DEF HandlerAnswers, sidecarVars, readerVars, loopVars, callbackVars
<1>6. ASSUME NEW h, InvokeEnds(h) PROVE RequestsInv'
  BY <1>6 DEF InvokeEnds, clientVars, readerVars, loopVars
<1>7. ASSUME NEW w, NEW k, WaitForEvent(w, k) \/ WaitGivesUp(w) PROVE RequestsInv'
  BY <1>7 DEF WaitForEvent, WaitGivesUp, clientVars, sidecarVars, readerVars, loopVars, callbackVars
<1>8. CASE Die
  BY <1>8, EmptyIds DEF Die, Exit, clientVars
<1>9. CASE ReadFrame
  <2> DEFINE f == Head(toSidecar)
  <2>1. /\ toSidecar # <<>> /\ f \in DownFrames /\ toSidecar' = Tail(toSidecar)
        /\ IdsOf(toSidecar, "request")
             = IdsOf(Tail(toSidecar), "request") \cup (IF f.type = "request" THEN {f.id} ELSE {})
    BY SMT, <1>9, TailIds DEF ReadFrame, Pipes
  <2>2. IdsOf(inbox', "request") \subseteq RequestIds
    <3>1. f \in LoopFrames
      BY <2>1 DEF DownFrames, LoopFrames
    <3>2. CASE inbox' = inbox
      BY <3>2
    <3>3. CASE inbox' = Append(inbox, f)
      <4> HIDE DEF f
      <4>1. IdsOf(inbox', "request")
              = IdsOf(inbox, "request") \cup (IF f.type = "request" THEN {f.id} ELSE {})
        BY SMT, <3>1, <3>3, AppendIds DEF Pipes
      <4> QED BY <4>1, <2>1
    <3> QED BY <3>2, <3>3, <1>9 DEF ReadFrame
  <2> QED BY <2>1, <2>2, <1>9 DEF ReadFrame, clientVars, loopVars
<1>10. CASE HandOver
  BY <1>10 DEF HandOver, clientVars, loopVars
<1>11. CASE ReadEof
  <2>1. Frame("eof", 0) \in LoopFrames /\ Frame("eof", 0).type # "request"
    BY DEF Frame, LoopFrames
  <2>2. IdsOf(inbox', "request") = IdsOf(inbox, "request")
    <3>1. inbox' = Append(inbox, Frame("eof", 0))
      BY <1>11 DEF ReadEof
    <3> QED BY <2>1, <3>1, <1>a, AppendOther
  <2> QED BY <2>2, <1>11 DEF ReadEof, clientVars, loopVars, callbackVars
<1>12. CASE TakeFrame
  <2>1. CASE Head(inbox).type = "request"
    <3>1. Head(inbox).id \in RequestIds /\ IdsOf(Tail(inbox), "request") \subseteq RequestIds
      BY SMT, <2>1, <1>12, TailIds DEF TakeFrame, Pipes
    <3> QED BY <3>1, <2>1, <1>12 DEF TakeFrame, clientVars
  <2>2. CASE Head(inbox).type # "request"
    BY <2>2, <1>12, EmptyIds DEF TakeFrame, Exit, clientVars
  <2> QED BY <2>1, <2>2
<1>13. CASE Respond
  BY <1>13 DEF Respond, clientVars, readerVars, callbackVars
<1>14. ASSUME NEW k, EmitEvent(k) PROVE RequestsInv'
  BY <1>14 DEF EmitEvent, clientVars, readerVars, callbackVars
<1>15. CASE InvokeOnMain \/ InvokeOnThread
  <2>1. callbacks' = callbacks + 1 /\ awaitedBy' = awaitedBy
    BY <1>15 DEF InvokeOnMain, InvokeOnThread, SendCallback, clientVars
  <2>2. awaitedBy' \in [RequestIds -> 0 .. callbacks'] /\ callbacks' \in Nat
    BY SMT, <2>1
  <2> QED BY <2>2, <1>15
          DEF InvokeOnMain, InvokeOnThread, clientVars, readerVars, loopVars
<1> QED BY <1>1, <1>2, <1>3, <1>4, <1>5, <1>6, <1>7, <1>8, <1>9, <1>10, <1>11, <1>12, <1>13,
           <1>14, <1>15 DEF LinkNext, ClientStep, ReaderStep, LoopStep

--------------------------------------------------------------------------------
(* Waits. *)

\* failPermanently leaves no wait behind.
LEMMA FailWaits ==
    ASSUME WaitsInv, NEW error \in {"exited", "overflow", "write", "disposed"}, FailPermanently(error)
    PROVE  /\ WaitsInv' /\ pendingResponses' \subseteq pendingResponses
           /\ closed' = closed \/ (closed = "none" /\ closed' = error)
           /\ \A w \in EventWaits : wanted'[w] \in {wanted[w], "none"}
<1>1. CASE closed = "none"
  <2>1. /\ closed' = error /\ pendingResponses' = {} /\ eventWaiters' = <<>>
        /\ wanted' = [w \in EventWaits |-> IF \E i \in DOMAIN eventWaiters : eventWaiters[i] = w
                                          THEN "none" ELSE wanted[w]]
    BY <1>1 DEF FailPermanently, RejectWaiters
  <2>2. \A w \in EventWaits : (\E i \in DOMAIN eventWaiters : eventWaiters[i] = w)
                                <=> w \in In(eventWaiters)
    BY DEF In
  <2>3. \A w \in EventWaits : wanted'[w] = "none"
    BY <2>1, <2>2 DEF WaitsInv
  <2>4. In(eventWaiters') = {} /\ Distinct(eventWaiters') /\ eventWaiters' \in Seq(EventWaits)
    BY SMT, <2>1 DEF In, Distinct
  <2>5. wanted' \in [EventWaits -> EventKinds \cup {"none"}]
    BY <2>1 DEF WaitsInv
  <2> QED BY <2>1, <2>3, <2>4, <2>5, <1>1 DEF WaitsInv, ClosedClientIsSettled
<1>2. CASE closed # "none"
  <2>1. UNCHANGED <<closed, pendingResponses, eventWaiters, wanted>>
    BY <1>2 DEF FailPermanently
  <2>2. In(eventWaiters') = In(eventWaiters) /\ (Distinct(eventWaiters') <=> Distinct(eventWaiters))
    BY <2>1
  <2> QED BY <2>1, <2>2 DEF WaitsInv, ClosedClientIsSettled
<1> QED BY <1>1, <1>2

\* The end of one wait.
LEMMA EndWaits ==
    ASSUME WaitsInv, NEW i \in DOMAIN eventWaiters, EndWait(i),
           UNCHANGED <<closed, pendingResponses>>
    PROVE  WaitsInv' /\ closed = "none" /\ \A w \in EventWaits : wanted'[w] \in {wanted[w], "none"}
<1> DEFINE v == eventWaiters[i]
<1>1. /\ eventWaiters \in Seq(EventWaits) /\ v \in EventWaits
      /\ wanted' = [wanted EXCEPT ![v] = "none"] /\ eventWaiters' = Deleted(eventWaiters, i)
      /\ wanted \in [EventWaits -> EventKinds \cup {"none"}]
      /\ closed = "none"
  BY SMT DEF WaitsInv, EndWait, ClosedClientIsSettled
<1>2. /\ eventWaiters' \in Seq(EventWaits) /\ Distinct(eventWaiters')
      /\ In(eventWaiters) = In(eventWaiters') \cup {v} /\ v \notin In(eventWaiters')
  BY SMT, <1>1, DeleteIn DEF WaitsInv
<1> HIDE DEF v
<1>3. \A w \in EventWaits : wanted'[w] = IF w = v THEN "none" ELSE wanted[w]
  BY <1>1
<1>4. wanted' \in [EventWaits -> EventKinds \cup {"none"}]
  BY <1>1
<1>5. \A w \in EventWaits : w \in In(eventWaiters') <=> wanted'[w] # "none"
  BY <1>2, <1>3 DEF WaitsInv
<1> QED BY <1>1, <1>2, <1>3, <1>4, <1>5 DEF WaitsInv, ClosedClientIsSettled

\* Nothing that waits depend on changes but for requests that settle.
LEMMA QuietWaits ==
    ASSUME WaitsInv, UNCHANGED <<eventWaiters, wanted, closed>>,
           pendingResponses' \subseteq pendingResponses \/ closed = "none"
    PROVE  WaitsInv'
<1>1. In(eventWaiters') = In(eventWaiters) /\ (Distinct(eventWaiters') <=> Distinct(eventWaiters))
  OBVIOUS
<1> QED BY <1>1 DEF WaitsInv, ClosedClientIsSettled

\* What dispatchEvent does to the waits.
LEMMA DispatchWaits ==
    ASSUME WaitsInv, NEW e, DispatchEvent(e)
    PROVE  WaitsInv' /\ \A w \in EventWaits : wanted'[w] \in {wanted[w], "none"}
<1>1. CASE BufferEvent(e)
  <2>1. CASE FailPermanently("overflow")
    BY <2>1, FailWaits
  <2>2. CASE UNCHANGED <<closed, pendingResponses, eventWaiters, wanted>>
    BY <2>2, QuietWaits DEF WaitsInv
  <2> QED BY <2>1, <2>2, <1>1 DEF BufferEvent
<1>2. CASE ~BufferEvent(e)
  <2>1. PICK i \in WaitsFor(emitted[e]) : EndWait(i) /\ UNCHANGED <<closed, pendingResponses>>
    BY <1>2 DEF DispatchEvent
  <2> QED BY <2>1, EndWaits DEF WaitsFor
<1> QED BY <1>1, <1>2

\* Every step keeps the queue of waits right, and a failed client without any.
LEMMA WaitsNext == ASSUME LinkInv, LinkNext PROVE WaitsInv'
<1> USE DEF LinkInv
<1>1. ASSUME NEW h, SendRequest(h) PROVE WaitsInv'
  BY <1>1, QuietWaits DEF SendRequest, eventVars
<1>2. ASSUME NEW n, RequestTimesOut(n) PROVE WaitsInv'
  BY <1>2, QuietWaits DEF RequestTimesOut, eventVars
<1>3. CASE DrainFrame
  <2> DEFINE f == Head(toClient)
  <2>1. f.type \in {"response", "sidecar_request", "event"}
    <3>1. toClient \in Seq(UpFrames) /\ toClient # <<>>
      BY <1>3 DEF DrainFrame, Pipes
    <3>2. Head(toClient) \in UpFrames
      BY <3>1, TailIds
    <3> QED BY <3>2 DEF UpFrames
  <2>2. CASE f.type = "event"
    BY <2>2, <1>3, DispatchWaits DEF DrainFrame
  <2>3. CASE f.type = "response"
    BY <2>3, <1>3, QuietWaits DEF DrainFrame, eventVars
  <2>4. CASE f.type = "sidecar_request"
    BY <2>4, <1>3, QuietWaits DEF DrainFrame, eventVars
  <2> QED BY <2>1, <2>2, <2>3, <2>4
<1>4. CASE SeeExit \/ Dispose
  BY <1>4, FailWaits DEF SeeExit, Dispose
<1>5. CASE DisposeReturns
  BY <1>5, QuietWaits DEF DisposeReturns, eventVars
<1>6. ASSUME NEW h, HandlerAnswers(h) PROVE WaitsInv'
  <2>1. CASE FailPermanently("write")
    BY <2>1, FailWaits
  <2>2. CASE UNCHANGED <<closed, pendingResponses, eventWaiters, wanted>>
    BY <2>2, QuietWaits
  <2> QED BY <2>1, <2>2, <1>6 DEF HandlerAnswers
<1>7. ASSUME NEW w \in EventWaits, NEW k \in EventKinds, WaitForEvent(w, k) PROVE WaitsInv'
  <2>0. wanted[w] = "none" /\ UNCHANGED <<closed, pendingResponses>>
    BY <1>7 DEF WaitForEvent, clientVars
  <2>1. CASE UNCHANGED <<eventWaiters, wanted>>
    BY <2>0, <2>1, QuietWaits
  <2>2. CASE closed = "none" /\ eventWaiters' = Append(eventWaiters, w) /\ wanted' = [wanted EXCEPT ![w] = k]
    <3>1. w \notin In(eventWaiters) /\ k # "none"
      BY <2>0, LinkAssumption DEF WaitsInv
    <3>2. /\ eventWaiters' \in Seq(EventWaits) /\ Distinct(eventWaiters')
          /\ In(eventWaiters') = In(eventWaiters) \cup {w}
      BY SMT, <3>1, <2>2, AppendIn DEF WaitsInv
    <3>3. /\ wanted' \in [EventWaits -> EventKinds \cup {"none"}]
          /\ \A v \in EventWaits : wanted'[v] = IF v = w THEN k ELSE wanted[v]
      BY <2>2 DEF WaitsInv
    <3>4. \A v \in EventWaits : v \in In(eventWaiters') <=> wanted'[v] # "none"
      BY <3>1, <3>2, <3>3 DEF WaitsInv
    <3> QED BY <3>2, <3>3, <3>4, <2>0, <2>2 DEF WaitsInv, ClosedClientIsSettled
  <2> QED BY <2>1, <2>2, <1>7 DEF WaitForEvent
<1>8. ASSUME NEW w, WaitGivesUp(w) PROVE WaitsInv'
  BY <1>8, EndWaits DEF WaitGivesUp, clientVars
<1>9. CASE Die \/ ReadFrame \/ HandOver \/ ReadEof \/ TakeFrame \/ Respond \/ InvokeOnMain
           \/ InvokeOnThread
  BY <1>9, QuietWaits DEF Die, ReadFrame, HandOver, ReadEof, TakeFrame, Respond, InvokeOnMain,
                          InvokeOnThread, clientVars, eventVars
<1>10. ASSUME NEW x, EmitEvent(x) \/ InvokeEnds(x) PROVE WaitsInv'
  BY <1>10, QuietWaits DEF EmitEvent, InvokeEnds, clientVars, eventVars
<1> QED BY <1>1, <1>2, <1>3, <1>4, <1>5, <1>6, <1>7, <1>8, <1>9, <1>10
        DEF LinkNext, ClientStep, ReaderStep, LoopStep

--------------------------------------------------------------------------------
(* Callbacks. *)

\* Frames of other types come and go.
LEMMA QuietCalls ==
    ASSUME CallsInv, Asked' = Asked, Replied' = Replied, Late' = Late,
           Once(toClient', "sidecar_request"), Once(toSidecar', "sidecar_response"),
           UNCHANGED <<handling, callbackVars, accepting>>
    PROVE  CallsInv'
  BY DEF CallsInv, CallPlaces, callbackVars

\* The process ends, and nobody is left waiting in it.
LEMMA ExitCalls ==
    ASSUME Pipes, CallsInv, NEW how, Exit(how), toSidecar' = <<>>, UNCHANGED <<handling, callbacks>>
    PROVE  CallsInv'
<1>1. Asked' \subseteq Asked /\ Once(toClient', "sidecar_request")
  BY PrefixIds DEF Pipes, CallsInv, Exit, Asked
<1>2. Replied' = {} /\ Late' = {} /\ Once(toSidecar', "sidecar_response")
  BY EmptyIds DEF Exit, Replied, Late
<1>3. CallPlaces'
  BY SMT, <1>1, <1>2 DEF CallsInv, CallPlaces, Exit
<1> QED BY <1>1, <1>2, <1>3 DEF CallsInv

\* The client takes a frame from the pipe.
LEMMA DrainCalls == ASSUME LinkInv, DrainFrame PROVE CallsInv'
<1> DEFINE f == Head(toClient)
<1>1. /\ f \in UpFrames /\ toClient' = Tail(toClient)
      /\ Asked = Asked' \cup (IF f.type = "sidecar_request" THEN {f.id} ELSE {})
      /\ Once(toClient', "sidecar_request")
      /\ f.type = "sidecar_request" => f.id \notin Asked'
  <2>1. toClient \in Seq(UpFrames) /\ toClient # <<>> /\ toClient' = Tail(toClient)
    BY DEF DrainFrame, LinkInv, Pipes
  <2>2. Once(toClient, "sidecar_request")
    BY DEF LinkInv, CallsInv
  <2> QED BY SMT, <2>1, <2>2, TailIds DEF Asked
<1>2. /\ toSidecar' = toSidecar /\ inbox' = inbox
      /\ UNCHANGED <<waiters, invoking, answered, onMain, callbacks, accepting>>
  BY DEF DrainFrame, sidecarVars, readerVars, callbackVars
<1>3. Replied' = Replied /\ Late' = Late /\ Once(toSidecar', "sidecar_response")
  BY <1>2 DEF Replied, Late, LinkInv, CallsInv
<1>4. CASE f.type = "sidecar_request"
  <2>1. handling' = handling \cup {f.id}
    BY <1>4 DEF DrainFrame
  <2> HIDE DEF f
  <2>2. CallPlaces'
    BY <1>1, <1>2, <1>3, <1>4, <2>1 DEF CallPlaces, LinkInv, CallsInv
  <2> QED BY <2>2, <1>1, <1>3 DEF CallsInv
<1>5. CASE f.type # "sidecar_request"
  <2>1. handling' = handling
    <3>1. f.type \in {"response", "event"}
      BY <1>1, <1>5 DEF UpFrames
    <3> QED BY <3>1 DEF DrainFrame
  <2> QED BY <2>1, <1>1, <1>2, <1>3, <1>5, QuietCalls DEF callbackVars, LinkInv
<1> QED BY <1>4, <1>5

\* A handler of the host answers.
LEMMA AnswerCalls == ASSUME LinkInv, NEW h \in CallbackIds, HandlerAnswers(h) PROVE CallsInv'
<1>1. /\ h \in handling /\ handling' = handling \ {h} /\ toClient' = toClient /\ inbox' = inbox
      /\ UNCHANGED <<waiters, invoking, answered, onMain, callbacks, accepting>>
  BY DEF HandlerAnswers, sidecarVars, readerVars, callbackVars
<1>2. Asked' = Asked /\ Late' = Late /\ Once(toClient', "sidecar_request")
  BY <1>1 DEF Asked, Late, LinkInv, CallsInv
<1>3. CASE toSidecar' = Append(toSidecar, Frame("sidecar_response", h))
  <2>1. /\ Frame("sidecar_response", h) \in DownFrames
        /\ Frame("sidecar_response", h).type = "sidecar_response" /\ Frame("sidecar_response", h).id = h
    BY SMT, LinkAssumption DEF Frame, DownFrames, CallbackIds
  <2>2. h \notin Replied
    BY <1>1 DEF LinkInv, CallsInv, CallPlaces
  <2>3. Replied' = Replied \cup {h} /\ Once(toSidecar', "sidecar_response")
    BY SMT, <2>1, <2>2, <1>3, AppendIds DEF Replied, LinkInv, Pipes, CallsInv
  <2>4. CallPlaces'
    BY SMT, <2>3, <1>1, <1>2 DEF CallPlaces, LinkInv, CallsInv
  <2> QED BY <2>3, <2>4, <1>2 DEF CallsInv
<1>4. CASE toSidecar' = toSidecar
  <2>1. Replied' = Replied /\ Once(toSidecar', "sidecar_response")
    BY <1>4 DEF Replied, LinkInv, CallsInv
  <2>2. CallPlaces'
    BY SMT, <2>1, <1>1, <1>2 DEF CallPlaces, LinkInv, CallsInv
  <2> QED BY <2>1, <2>2, <1>2 DEF CallsInv
<1> QED BY <1>3, <1>4 DEF HandlerAnswers

\* The reader thread takes a frame: the answer of a call that waits is in the map, so what goes
\* to the run loop is an answer of a call that is over.
LEMMA ReadCalls == ASSUME LinkInv, ReadFrame PROVE CallsInv'
<1> DEFINE f == Head(toSidecar)
<1>1. /\ f \in DownFrames /\ toSidecar' = Tail(toSidecar)
      /\ Replied = Replied' \cup (IF f.type = "sidecar_response" THEN {f.id} ELSE {})
      /\ Once(toSidecar', "sidecar_response")
      /\ f.type = "sidecar_response" => f.id \notin Replied'
  <2>1. toSidecar \in Seq(DownFrames) /\ toSidecar # <<>> /\ toSidecar' = Tail(toSidecar)
    BY DEF ReadFrame, LinkInv, Pipes
  <2>2. Once(toSidecar, "sidecar_response")
    BY DEF LinkInv, CallsInv
  <2> QED BY SMT, <2>1, <2>2, TailIds DEF Replied
<1>2. toClient' = toClient /\ UNCHANGED <<handling, invoking, answered, onMain, callbacks>> /\ accepting = 0
  BY DEF ReadFrame, clientVars
<1>3. Asked' = Asked /\ Once(toClient', "sidecar_request")
  BY <1>2 DEF Asked, LinkInv, CallsInv
<1>4. CASE f.type = "sidecar_response" /\ f.id \in waiters
  <2>1. accepting' = f.id /\ waiters' = waiters \ {f.id} /\ inbox' = inbox
    BY <1>4 DEF ReadFrame
  <2>2. Late' = Late
    BY <2>1 DEF Late
  <2> HIDE DEF f
  <2>3. CallPlaces'
    BY SMT, <2>1, <2>2, <1>1, <1>2, <1>3, <1>4 DEF CallPlaces, LinkInv, CallsInv
  <2> QED BY <2>3, <1>1, <1>3 DEF CallsInv
<1>5. CASE ~(f.type = "sidecar_response" /\ f.id \in waiters)
  <2>1. UNCHANGED <<accepting, waiters>> /\ inbox' = Append(inbox, f)
    BY <1>5 DEF ReadFrame
  <2>2. Late' = Late \cup (IF f.type = "sidecar_response" THEN {f.id} ELSE {})
    <3>1. f \in LoopFrames
      BY <1>1 DEF DownFrames, LoopFrames
    <3> HIDE DEF f
    <3> QED BY SMT, <3>1, <2>1, AppendIds DEF Late, LinkInv, Pipes
  <2> HIDE DEF f
  <2>3. CallPlaces'
    BY SMT, <2>1, <2>2, <1>1, <1>2, <1>3, <1>5 DEF CallPlaces, LinkInv, CallsInv
  <2> QED BY <2>3, <1>1, <1>3 DEF CallsInv
<1> QED BY <1>4, <1>5

\* The sidecar calls back with a new id.
LEMMA SendCalls ==
    ASSUME LinkInv, SendCallback, UNCHANGED <<handling, toSidecar, inbox, accepting, answered>>,
           onMain' \in {onMain, callbacks'}
    PROVE  CallsInv'
<1> DEFINE c == callbacks + 1
<1>1. callbacks \in Nat /\ callbacks' = c /\ waiters' = waiters \cup {c} /\ invoking' = invoking \cup {c}
  BY DEF LinkInv, CallsInv, CallPlaces, SendCallback
<1>2. c \notin Asked /\ c \notin handling /\ c \notin Replied /\ c \notin Late
  BY SMT, <1>1 DEF LinkInv, CallsInv, CallPlaces
<1>3. Asked' = Asked \cup {c} /\ Once(toClient', "sidecar_request")
  <2>1. /\ Frame("sidecar_request", c) \in UpFrames
        /\ Frame("sidecar_request", c).type = "sidecar_request" /\ Frame("sidecar_request", c).id = c
    BY SMT, <1>1 DEF Frame, UpFrames
  <2>2. toClient' = Append(toClient, Frame("sidecar_request", c))
    BY <1>1 DEF SendCallback
  <2> QED BY SMT, <2>1, <2>2, <1>2, AppendIds DEF Asked, LinkInv, Pipes, CallsInv
<1>4. Replied' = Replied /\ Late' = Late /\ Once(toSidecar', "sidecar_response")
  BY DEF Replied, Late, LinkInv, CallsInv
<1>5. accepting \in 0 .. callbacks /\ c \notin invoking
  BY SMT, <1>1 DEF LinkInv, CallsInv, CallPlaces
<1>6. Asked \cup handling \cup Replied \cup Late \cup invoking \subseteq 1 .. callbacks
  BY DEF LinkInv, CallsInv, CallPlaces
<1>7. /\ callbacks' \in Nat /\ accepting' \in 0 .. callbacks'
      /\ Asked' \cup handling' \cup Replied' \cup Late' \cup invoking' \subseteq 1 .. callbacks'
  BY SMT, <1>1, <1>3, <1>4, <1>5, <1>6
<1>8. c # accepting /\ c \notin answered
  BY SMT, <1>1, <1>5 DEF LinkInv, CallsInv, CallPlaces
<1> HIDE DEF c
<1>9. CallPlaces'
  BY SMT, <1>1, <1>2, <1>3, <1>4, <1>7, <1>8 DEF CallPlaces, LinkInv, CallsInv
<1> QED BY <1>3, <1>4, <1>9 DEF CallsInv

\* Every step keeps the callbacks at their places.
LEMMA CallsNext == ASSUME LinkInv, LinkNext PROVE CallsInv'
<1> USE DEF LinkInv
<1>0. Pipes /\ CallsInv
  OBVIOUS
<1>1. ASSUME NEW h, SendRequest(h) PROVE CallsInv'
  <2>1. Replied' = Replied /\ Once(toSidecar', "sidecar_response")
    <3>1. CASE toSidecar' = Append(toSidecar, Frame("request", nextRequestId))
      <4>1. Frame("request", nextRequestId) \in DownFrames
            /\ Frame("request", nextRequestId).type # "sidecar_response"
        BY SMT DEF Frame, DownFrames, RequestsInv
      <4>2. toSidecar \in Seq(DownFrames) /\ Once(toSidecar, "sidecar_response")
        BY <1>0 DEF Pipes, CallsInv
      <4> QED BY <4>1, <4>2, <3>1, AppendOther DEF Replied
    <3>2. CASE toSidecar' = toSidecar
      BY <3>2 DEF Replied, CallsInv
    <3> QED BY <3>1, <3>2, <1>1 DEF SendRequest
  <2>2. UNCHANGED <<handling, toClient, inbox, accepting, callbackVars>>
    BY <1>1 DEF SendRequest, sidecarVars, readerVars
  <2> QED BY <2>1, <2>2, QuietCalls DEF Asked, Late, CallsInv
<1>2. ASSUME NEW n, RequestTimesOut(n) PROVE CallsInv'
  BY <1>2, QuietCalls DEF RequestTimesOut, sidecarVars, readerVars, Asked, Replied, Late, CallsInv
<1>3. CASE SeeExit \/ DisposeReturns \/ Dispose
  BY <1>3, QuietCalls DEF SeeExit, DisposeReturns, Dispose, sidecarVars, readerVars, Asked, Replied,
                          Late, CallsInv
<1>4. ASSUME NEW w, NEW k, WaitForEvent(w, k) \/ WaitGivesUp(w) PROVE CallsInv'
  BY <1>4, QuietCalls DEF WaitForEvent, WaitGivesUp, clientVars, sidecarVars, readerVars, Asked,
                          Replied, Late, CallsInv
<1>5. ASSUME NEW h, InvokeEnds(h) PROVE CallsInv'
  <2>1. /\ Asked' = Asked /\ Replied' = Replied /\ Late' = Late
        /\ UNCHANGED <<handling, callbacks, accepting, toClient, toSidecar>>
    BY <1>5 DEF InvokeEnds, clientVars, readerVars, Asked, Replied, Late
  <2>2. CallPlaces'
    BY <2>1, <1>5 DEF InvokeEnds, CallsInv, CallPlaces
  <2> QED BY <2>1, <2>2 DEF CallsInv
<1>6. CASE Die
  BY <1>6, ExitCalls DEF Die, clientVars
<1>7. CASE HandOver
  <2>1. /\ Asked' = Asked /\ Replied' = Replied /\ Late' = Late
        /\ UNCHANGED <<handling, callbacks, waiters, invoking, onMain, toClient, toSidecar>>
    BY <1>7 DEF HandOver, clientVars, Asked, Replied, Late
  <2>2. CallPlaces'
    BY SMT, <2>1, <1>7 DEF HandOver, CallsInv, CallPlaces
  <2> QED BY <2>1, <2>2 DEF CallsInv
<1>8. CASE ReadEof
  <2>1. Frame("eof", 0) \in LoopFrames /\ Frame("eof", 0).type # "sidecar_response"
    BY DEF Frame, LoopFrames
  <2>2. Late' = Late
    <3>1. inbox \in Seq(LoopFrames) /\ inbox' = Append(inbox, Frame("eof", 0))
      BY <1>0, <1>8 DEF ReadEof, Pipes
    <3> QED BY <2>1, <3>1, AppendOther DEF Late
  <2> QED BY <2>2, <1>8, QuietCalls DEF ReadEof, clientVars, Asked, Replied, CallsInv
<1>9. CASE TakeFrame
  <2>1. CASE Head(inbox).type = "request"
    <3>1. inbox \in Seq(LoopFrames) /\ inbox # <<>> /\ inbox' = Tail(inbox)
      BY <2>1, <1>9 DEF TakeFrame, Pipes
    <3>2. Late' = Late
      <4>1. Head(inbox).type # "sidecar_response"
        BY <2>1
      <4>2. IdsOf(inbox, "sidecar_response")
              = IdsOf(Tail(inbox), "sidecar_response")
                  \cup (IF Head(inbox).type = "sidecar_response" THEN {Head(inbox).id} ELSE {})
        BY <3>1, TailIds
      <4> QED BY <3>1, <4>1, <4>2 DEF Late
    <3> QED BY <3>2, <2>1, <1>9, QuietCalls
            DEF TakeFrame, clientVars, callbackVars, Asked, Replied, CallsInv
  <2>2. CASE Head(inbox).type # "request"
    BY <2>2, <1>9, ExitCalls DEF TakeFrame, clientVars
  <2> QED BY <2>1, <2>2
<1>10. ASSUME NEW f \in UpFrames, f.type # "sidecar_request", toClient' = Append(toClient, f),
              UNCHANGED <<handling, toSidecar, inbox, accepting, callbackVars>>
       PROVE  CallsInv'
  <2>1. Asked' = Asked /\ Once(toClient', "sidecar_request")
    <3>1. toClient \in Seq(UpFrames) /\ Once(toClient, "sidecar_request")
      BY <1>0 DEF Pipes, CallsInv
    <3> QED BY <3>1, <1>10, AppendOther DEF Asked
  <2> QED BY <2>1, <1>10, QuietCalls DEF Replied, Late, CallsInv
<1>11. CASE Respond
  <2>1. Frame("response", serving) \in UpFrames /\ Frame("response", serving).type # "sidecar_request"
    BY SMT DEF Frame, UpFrames, RequestsInv, RequestIds
  <2> QED BY <2>1, <1>10, <1>11 DEF Respond, clientVars, readerVars
<1>12. ASSUME NEW k, EmitEvent(k) PROVE CallsInv'
  <2>1. /\ Frame("event", Len(emitted) + 1) \in UpFrames
        /\ Frame("event", Len(emitted) + 1).type # "sidecar_request"
    BY SMT DEF Frame, UpFrames, EventsInv, EventTypes
  <2> QED BY <2>1, <1>10, <1>12 DEF EmitEvent, clientVars, readerVars
<1>13. CASE InvokeOnMain \/ InvokeOnThread
  BY <1>13, SendCalls DEF InvokeOnMain, InvokeOnThread, clientVars, readerVars
<1> QED BY <1>1, <1>2, <1>3, <1>4, <1>5, <1>6, <1>7, <1>8, <1>9, <1>11, <1>12, <1>13, DrainCalls,
           AnswerCalls, ReadCalls DEF LinkNext, ClientStep, ReaderStep, LoopStep

-----------------------------------------------------------------------------
(* The events.                                                             *)

\* The elements of the sequences of events are numbers of events.
LEMMA EventNumbers ==
    ASSUME EventTypes
    PROVE  /\ Len(emitted) \in Nat /\ DOMAIN emitted = 1 .. Len(emitted)
           /\ \A e \in 1 .. Len(emitted) : emitted[e] \in EventKinds
           /\ In(bufferedEvents) \subseteq 1 .. Len(emitted)
           /\ \A k \in EventKinds : In(received[k]) \subseteq 1 .. Len(emitted)
<1>1. Len(emitted) \in Nat /\ DOMAIN emitted = 1 .. Len(emitted)
      /\ \A e \in 1 .. Len(emitted) : emitted[e] \in EventKinds
  BY SMT DEF EventTypes
<1>2. \A s \in Seq(1 .. Len(emitted)) : In(s) \subseteq 1 .. Len(emitted)
  BY SMT DEF In
<1>3. \A k \in EventKinds : received[k] \in Seq(1 .. Len(emitted))
  BY DEF EventTypes
<1> QED BY <1>1, <1>2, <1>3 DEF EventTypes

\* Whatever moves events about without losing one keeps them.
LEMMA StillKept ==
    ASSUME NoneIsLost, UNCHANGED <<emitted, mainLoop>>, closed' = "none" => closed = "none",
           \A x \in 1 .. Len(emitted) : Kept(x)' <=> Kept(x)
    PROVE  NoneIsLost'
<1>1. ASSUME closed' = "none", NEW x \in 1 .. Len(emitted) PROVE Kept(x)' \/ Lost(x)'
  <2>1. Kept(x) \/ Lost(x)
    BY <1>1 DEF NoneIsLost
  <2>2. Lost(x) => Lost(x)'
    BY DEF Lost, Running
  <2> QED BY <2>1, <2>2
<1> QED BY <1>1 DEF NoneIsLost

\* Nothing happens to events but that waits end and the client fails.
LEMMA QuietEvents ==
    ASSUME EventsInv, UNCHANGED <<emitted, bufferedEvents, received, mainLoop>>, Coming' = Coming,
           Rising(toClient', "event"),
           \A w \in EventWaits : wanted'[w] \in {wanted[w], "none"},
           closed' = closed \/ closed = "none"
    PROVE  EventsInv'
<1>0. /\ EventTypes /\ Ascending(bufferedEvents) /\ ComingIsLast /\ KindsInOrder /\ NoneIsWanted
      /\ NoneIsLost /\ NoneIsPassedOver
  BY DEF EventsInv
<1>1. EventTypes'
  BY <1>0 DEF EventTypes
<1>2. NoneIsWanted'
  <2>1. \A x \in In(bufferedEvents) : emitted[x] \in EventKinds
    BY <1>0, EventNumbers
  <2> QED BY <2>1, <1>0, LinkAssumption DEF NoneIsWanted
<1>3. ComingIsLast' /\ KindsInOrder'
  BY <1>0 DEF ComingIsLast, KindsInOrder
<1>4. \A x : Kept(x)' <=> Kept(x)
  BY DEF Kept
<1>5. NoneIsLost'
  BY <1>0, <1>4, StillKept
<1>6. NoneIsPassedOver'
  BY <1>0 DEF NoneIsPassedOver
<1> QED BY <1>0, <1>1, <1>2, <1>3, <1>5, <1>6 DEF EventsInv

\* The process ends: the tail of the pipe that is lost is later than all that is left.
LEMMA ExitEvents ==
    ASSUME Pipes, EventsInv, Running, NEW how \in {"stopped", "failed", "killed"}, Exit(how),
           UNCHANGED <<eventVars, emitted, closed>>
    PROVE  EventsInv'
<1>0. /\ EventTypes /\ Ascending(bufferedEvents) /\ Rising(toClient, "event") /\ ComingIsLast
      /\ KindsInOrder /\ NoneIsWanted /\ NoneIsLost /\ NoneIsPassedOver
  BY DEF EventsInv
<1>1. PICK n \in 0 .. Len(toClient) : toClient' = SubSeq(toClient, 1, n)
  BY DEF Exit
<1>2. /\ Coming' \subseteq Coming /\ Rising(toClient', "event")
      /\ \A x \in Coming \ Coming' : \A y \in Coming' : y < x
  BY <1>0, <1>1, PrefixIds DEF Coming, Pipes
<1>3. UNCHANGED <<bufferedEvents, wanted, received, emitted, closed>> /\ ~Running'
  BY DEF eventVars, Exit, Running
<1>4. EventTypes' /\ Ascending(bufferedEvents') /\ NoneIsWanted'
  BY <1>0, <1>2, <1>3 DEF EventTypes, NoneIsWanted
<1>5. ComingIsLast' /\ KindsInOrder' /\ NoneIsPassedOver'
  BY <1>0, <1>2, <1>3 DEF ComingIsLast, KindsInOrder, NoneIsPassedOver
<1>6. NoneIsLost'
  <2>1. ASSUME closed' = "none", NEW e \in 1 .. Len(emitted), ~Kept(e)',
               NEW x \in 1 .. Len(emitted), Kept(x)'
        PROVE  x < e
    <3>1. Kept(e)
      BY <2>1, <1>0, <1>3 DEF NoneIsLost, Lost
    <3>2. e \in Coming /\ e \notin Coming'
      BY <3>1, <2>1, <1>3 DEF Kept
    <3>3. x \in Coming' \/ x \in In(bufferedEvents) \/ x \in In(received[emitted[x]])
      BY <2>1, <1>3 DEF Kept
    <3>4. emitted[x] \in EventKinds
      BY <1>0, EventNumbers
    <3> QED BY <3>2, <3>3, <3>4, <1>0, <1>2 DEF ComingIsLast
  <2> QED BY <2>1, <1>3 DEF NoneIsLost, Lost
<1> QED BY <1>2, <1>4, <1>5, <1>6 DEF EventsInv

\* An event is emitted.
LEMMA EmitEvents == ASSUME LinkInv, NEW k \in EventKinds, EmitEvent(k) PROVE EventsInv'
<1>0. /\ EventTypes /\ Ascending(bufferedEvents) /\ Rising(toClient, "event") /\ ComingIsLast
      /\ KindsInOrder /\ NoneIsWanted /\ NoneIsLost /\ NoneIsPassedOver
  BY DEF LinkInv, EventsInv
<1>1. Len(emitted) \in Nat /\ emitted \in Seq(EventKinds)
  BY SMT, <1>0 DEF EventTypes
<1>2. PICK n \in Nat : n = Len(emitted) + 1
  BY SMT, <1>1
<1>3. /\ emitted' = Append(emitted, k) /\ UNCHANGED <<bufferedEvents, wanted, received, closed>>
      /\ toClient' = Append(toClient, Frame("event", n)) /\ Running /\ mainLoop' = mainLoop
  BY <1>2 DEF EmitEvent, eventVars, clientVars
<1>4. /\ emitted' \in Seq(EventKinds) /\ Len(emitted') = n /\ emitted'[n] = k
      /\ \A e \in 1 .. Len(emitted) : emitted'[e] = emitted[e]
  BY SMT, <1>1, <1>2, <1>3
<1>5. /\ 1 .. Len(emitted) \subseteq 1 .. n /\ n \in 1 .. n
      /\ \A e \in 1 .. n : e = n \/ e \in 1 .. Len(emitted)
      /\ \A x \in 1 .. Len(emitted) : x < n
  BY SMT, <1>1, <1>2
<1>6. /\ In(bufferedEvents) \subseteq 1 .. Len(emitted)
      /\ \A j \in EventKinds : In(received[j]) \subseteq 1 .. Len(emitted)
      /\ \A e \in 1 .. Len(emitted) : emitted[e] \in EventKinds
      /\ Coming \subseteq 1 .. Len(emitted)
  <2>1. Coming \subseteq 1 .. Len(emitted)
    BY <1>0 DEF EventTypes
  <2> QED BY <2>1, <1>0, EventNumbers
<1>7. Coming' = Coming \cup {n} /\ Rising(toClient', "event")
  <2>1. Frame("event", n) \in UpFrames /\ Frame("event", n).type = "event" /\ Frame("event", n).id = n
    BY DEF Frame, UpFrames
  <2>2. \A x \in Coming : x < n
    BY <1>5, <1>6
  <2>3. toClient \in Seq(UpFrames)
    BY DEF LinkInv, Pipes
  <2> QED BY SMT, <2>1, <2>2, <2>3, <1>0, <1>3, AppendIds DEF Coming
<1>8. EventTypes'
  <2>1. \A s \in Seq(1 .. Len(emitted)) : s \in Seq(1 .. n)
    BY SMT, <1>1, <1>2
  <2>2. bufferedEvents \in Seq(1 .. n) /\ received \in [EventKinds -> Seq(1 .. n)]
    BY <2>1, <1>0 DEF EventTypes
  <2>3. Coming' \subseteq 1 .. n
    BY <1>5, <1>6, <1>7
  <2>4. Len(bufferedEvents) <= eventBufferCapacity
    BY <1>0 DEF EventTypes
  <2> QED BY <2>2, <2>3, <2>4, <1>3, <1>4 DEF EventTypes
<1>9. ComingIsLast'
  <2>1. ASSUME NEW x \in Coming'
        PROVE  /\ \A y \in In(bufferedEvents) : y < x
               /\ \A j \in EventKinds : \A y \in In(received[j]) : y < x
    <3>1. CASE x \in Coming
      BY <3>1, <1>0 DEF ComingIsLast
    <3>2. CASE x = n
      BY <3>2, <1>5, <1>6
    <3> QED BY <3>1, <3>2, <2>1, <1>7
  <2> QED BY <2>1, <1>3 DEF ComingIsLast
<1>10. /\ \A x \in In(bufferedEvents) : emitted'[x] = emitted[x]
       /\ \A j \in EventKinds : \A y \in In(received[j]) : emitted'[y] = emitted[y]
  BY <1>4, <1>6
<1>11. NoneIsWanted'
  BY <1>0, <1>3, <1>10 DEF NoneIsWanted
<1>12. KindsInOrder'
  <2>1. ASSUME NEW j \in EventKinds
        PROVE  /\ Ascending(received[j])
               /\ \A y \in In(received[j]) : emitted'[y] = j
               /\ \A y \in In(received[j]), x \in In(bufferedEvents) : emitted'[x] = j => y < x
    BY <1>0, <1>10 DEF KindsInOrder
  <2> QED BY <2>1, <1>3 DEF KindsInOrder
<1>13. NoneIsLost'
  <2>1. ASSUME closed = "none", NEW e \in 1 .. n PROVE Kept(e)'
    <3>1. CASE e = n
      BY <3>1, <1>7 DEF Kept
    <3>2. CASE e \in 1 .. Len(emitted)
      <4>1. Kept(e)
        BY <3>2, <2>1, <1>0, <1>3 DEF NoneIsLost, Lost
      <4> QED BY <4>1, <3>2, <1>3, <1>4, <1>7 DEF Kept
    <3> QED BY <3>1, <3>2, <1>5
  <2> QED BY <2>1, <1>3, <1>4 DEF NoneIsLost
<1>14. NoneIsPassedOver'
  <2>1. ASSUME closed \in {"none", "overflow"}, NEW j \in EventKinds, NEW y \in In(received[j]),
               NEW e \in 1 .. y, emitted'[e] = j
        PROVE  e \in In(received[j])
    <3>1. y \in 1 .. Len(emitted)
      BY <1>6
    <3>2. e \in 1 .. Len(emitted)
      BY SMT, <3>1, <1>1
    <3>3. emitted[e] = j
      BY <3>2, <2>1, <1>4
    <3> QED BY <3>3, <2>1, <1>0 DEF NoneIsPassedOver
  <2> QED BY <2>1, <1>3 DEF NoneIsPassedOver
<1> QED BY <1>0, <1>3, <1>7, <1>8, <1>9, <1>11, <1>12, <1>13, <1>14 DEF EventsInv

\* Event e, in the pipe or in the buffer until now, is handed out.
HandsOut(k, e) ==
    /\ emitted[e] = k /\ received' = [received EXCEPT ![k] = Append(@, e)]
    /\ UNCHANGED <<emitted, closed, mainLoop>> /\ closed # "overflow"
    /\ bufferedEvents' \in Seq(1 .. Len(emitted)) /\ Len(bufferedEvents') <= eventBufferCapacity
    /\ Ascending(bufferedEvents') /\ Rising(toClient', "event")
    /\ Coming' \subseteq Coming /\ In(bufferedEvents') \subseteq In(bufferedEvents)
    /\ Coming \cup In(bufferedEvents) = Coming' \cup In(bufferedEvents') \cup {e}
    /\ \A y \in In(received[k]) : y < e
    /\ \A x \in Coming' : e < x
    /\ \A x \in In(bufferedEvents') : emitted[x] = k => e < x
    /\ \A w \in EventWaits : wanted'[w] \in {wanted[w], "none"}

\* Nothing of its kind is passed over.
LEMMA HandOut ==
    ASSUME EventsInv, NEW k \in EventKinds, NEW e \in 1 .. Len(emitted), HandsOut(k, e)
    PROVE  EventsInv'
<1>0. /\ EventTypes /\ ComingIsLast /\ KindsInOrder /\ NoneIsWanted /\ NoneIsLost /\ NoneIsPassedOver
  BY DEF EventsInv
<1>1. /\ received' = [received EXCEPT ![k] = Append(@, e)] /\ emitted[e] = k
      /\ UNCHANGED <<emitted, closed, mainLoop>>
  BY DEF HandsOut
<1>2. /\ bufferedEvents' \in Seq(1 .. Len(emitted)) /\ Len(bufferedEvents') <= eventBufferCapacity
      /\ Ascending(bufferedEvents') /\ Rising(toClient', "event")
  BY DEF HandsOut
<1>3. /\ Coming' \subseteq Coming /\ In(bufferedEvents') \subseteq In(bufferedEvents)
      /\ Coming \cup In(bufferedEvents) = Coming' \cup In(bufferedEvents') \cup {e}
  BY DEF HandsOut
<1>4. /\ \A y \in In(received[k]) : y < e
      /\ \A x \in Coming' : e < x
      /\ \A x \in In(bufferedEvents') : emitted[x] = k => e < x
  BY DEF HandsOut
<1>5. \A w \in EventWaits : wanted'[w] \in {wanted[w], "none"}
  BY DEF HandsOut
<1>6. /\ Len(emitted) \in Nat /\ received[k] \in Seq(1 .. Len(emitted))
      /\ received'[k] = Append(received[k], e)
      /\ \A j \in EventKinds \ {k} : received'[j] = received[j]
  BY SMT, <1>0, <1>1 DEF EventTypes
<1>7. Ascending(received[k])
  BY <1>0 DEF KindsInOrder
<1>8. /\ received'[k] \in Seq(1 .. Len(emitted)) /\ In(received'[k]) = In(received[k]) \cup {e}
      /\ Ascending(received'[k])
  BY SMT, <1>4, <1>6, <1>7, AppendIn
<1>9. ASSUME NEW j \in EventKinds
      PROVE  /\ Ascending(received'[j]) /\ In(received[j]) \subseteq In(received'[j])
             /\ \A y \in In(received'[j]) : y \in In(received[j]) \/ (j = k /\ y = e)
  <2>1. CASE j = k
    BY <2>1, <1>8
  <2>2. CASE j # k
    BY <2>2, <1>0, <1>6 DEF KindsInOrder
  <2> QED BY <2>1, <2>2
<1>10. EventTypes'
  <2>1. received' \in [EventKinds -> Seq(1 .. Len(emitted))]
    BY <1>0, <1>1, <1>6, <1>8 DEF EventTypes
  <2>2. Coming' \subseteq 1 .. Len(emitted) /\ emitted \in Seq(EventKinds)
    BY <1>0, <1>3 DEF EventTypes
  <2> QED BY <2>1, <2>2, <1>1, <1>2 DEF EventTypes
<1>11. ComingIsLast'
  <2>1. ASSUME NEW x \in Coming', NEW y \in In(bufferedEvents') PROVE y < x
    BY <1>0, <1>3 DEF ComingIsLast
  <2>2. ASSUME NEW x \in Coming', NEW j \in EventKinds, NEW y \in In(received'[j]) PROVE y < x
    <3>1. CASE y \in In(received[j])
      BY <3>1, <1>0, <1>3 DEF ComingIsLast
    <3>2. CASE y = e
      BY <3>2, <1>4
    <3> QED BY <3>1, <3>2, <1>9
  <2> QED BY <2>1, <2>2 DEF ComingIsLast
<1>12. KindsInOrder'
  <2>1. ASSUME NEW j \in EventKinds, NEW y \in In(received'[j])
        PROVE  emitted[y] = j /\ \A x \in In(bufferedEvents') : emitted[x] = j => y < x
    <3>1. CASE y \in In(received[j])
      BY <3>1, <1>0, <1>3 DEF KindsInOrder
    <3>2. CASE j = k /\ y = e
      BY <3>2, <1>1, <1>4
    <3> QED BY <3>1, <3>2, <1>9
  <2> QED BY <2>1, <1>1, <1>9 DEF KindsInOrder
<1>13. NoneIsWanted'
  <2>1. ASSUME NEW w \in EventWaits, NEW x \in In(bufferedEvents') PROVE wanted'[w] # emitted[x]
    <3>1. x \in In(bufferedEvents) /\ wanted'[w] \in {wanted[w], "none"}
      BY <1>3, <1>5
    <3>2. wanted[w] # emitted[x]
      BY <3>1, <1>0 DEF NoneIsWanted
    <3>3. emitted[x] \in EventKinds
      BY <3>1, <1>0, EventNumbers
    <3> QED BY <3>1, <3>2, <3>3, LinkAssumption
  <2> QED BY <2>1, <1>1 DEF NoneIsWanted
<1>14. ASSUME NEW x \in 1 .. Len(emitted) PROVE Kept(x)' <=> Kept(x)
  <2>1. PICK j \in EventKinds : j = emitted[x]
    BY <1>0, EventNumbers
  <2>2. Kept(x) <=> x \in Coming \cup In(bufferedEvents) \cup In(received[j])
    BY <2>1 DEF Kept
  <2>3. Kept(x)' <=> x \in Coming' \cup In(bufferedEvents') \cup In(received'[j])
    BY <2>1, <1>1 DEF Kept
  <2>4. In(received'[j]) = In(received[j]) \cup (IF j = k THEN {e} ELSE {})
    BY <1>6, <1>8
  <2>5. x = e => j = k
    BY <2>1, <1>1
  <2> QED BY <2>2, <2>3, <2>4, <2>5, <1>3
<1>15. NoneIsLost'
  BY <1>0, <1>1, <1>14, StillKept
<1>16. NoneIsPassedOver'
  <2>1. ASSUME closed \in {"none", "overflow"}, NEW j \in EventKinds, NEW y \in In(received'[j]),
               NEW x \in 1 .. y, emitted[x] = j
        PROVE  x \in In(received'[j])
    <3>1. CASE y \in In(received[j])
      <4>1. x \in In(received[j])
        BY <3>1, <2>1, <1>0 DEF NoneIsPassedOver
      <4> QED BY <4>1, <1>9
    <3>2. CASE j = k /\ y = e
      <4>0. closed = "none"
        BY <2>1 DEF HandsOut
      <4>1. x \in 1 .. Len(emitted) /\ ~(e < x)
        BY SMT, <3>2, <1>6
      <4>2. Kept(e) /\ (Kept(x) \/ Lost(x))
        BY <4>0, <4>1, <1>0, <1>3 DEF Kept, NoneIsLost
      <4>3. Kept(x)
        BY <4>1, <4>2 DEF Lost
      <4>4. x \in Coming' \cup In(bufferedEvents') \cup {e} \/ x \in In(received[k])
        BY <4>3, <3>2, <2>1, <1>3 DEF Kept
      <4> QED BY <4>1, <4>4, <3>2, <2>1, <1>4, <1>8
    <3> QED BY <3>1, <3>2, <1>9
  <2> QED BY <2>1, <1>1 DEF NoneIsPassedOver
<1> QED BY <1>2, <1>10, <1>11, <1>12, <1>13, <1>15, <1>16 DEF EventsInv

\* An event arrives and no wait takes it: it is buffered, or the client fails.
LEMMA BufferEvents ==
    ASSUME EventsInv, WaitsInv, NEW e \in Coming, BufferEvent(e), WaitsFor(emitted[e]) = {},
           UNCHANGED <<emitted, mainLoop>>, Coming = Coming' \cup {e}, Rising(toClient', "event"),
           \A x \in Coming' : e < x
    PROVE  EventsInv'
<1>0. /\ EventTypes /\ Ascending(bufferedEvents) /\ ComingIsLast /\ KindsInOrder /\ NoneIsWanted
      /\ NoneIsLost /\ NoneIsPassedOver
  BY DEF EventsInv
<1>1. e \in 1 .. Len(emitted) /\ emitted[e] \in EventKinds /\ Coming' \subseteq 1 .. Len(emitted)
  <2>1. Coming \subseteq 1 .. Len(emitted)
    BY <1>0 DEF EventTypes
  <2> QED BY <2>1, <1>0, EventNumbers
<1>2. /\ \A y \in In(bufferedEvents) : y < e
      /\ \A j \in EventKinds : \A y \in In(received[j]) : y < e
  BY <1>0 DEF ComingIsLast
<1>3. /\ bufferedEvents \in Seq(1 .. Len(emitted)) /\ Len(bufferedEvents) <= eventBufferCapacity
      /\ received \in [EventKinds -> Seq(1 .. Len(emitted))] /\ emitted \in Seq(EventKinds)
  BY <1>0 DEF EventTypes
<1>4. CASE Len(bufferedEvents) >= eventBufferCapacity
  <2>1. FailPermanently("overflow") /\ UNCHANGED <<bufferedEvents, received>>
    BY <1>4 DEF BufferEvent
  <2>2. /\ closed' = closed \/ (closed = "none" /\ closed' = "overflow")
        /\ \A w \in EventWaits : wanted'[w] \in {wanted[w], "none"}
    BY <2>1, FailWaits
  <2>3. closed' # "none"
    BY <2>1 DEF FailPermanently
  <2>4. EventTypes'
    BY <2>1, <1>1, <1>3 DEF EventTypes
  <2>5. ComingIsLast' /\ KindsInOrder'
    BY <2>1, <1>0 DEF ComingIsLast, KindsInOrder
  <2>6. NoneIsWanted'
    <3>1. \A x \in In(bufferedEvents) : emitted[x] \in EventKinds
      BY <1>0, EventNumbers
    <3> QED BY <3>1, <2>1, <2>2, <1>0, LinkAssumption DEF NoneIsWanted
  <2>7. NoneIsLost' /\ NoneIsPassedOver'
    BY <2>1, <2>2, <2>3, <1>0 DEF NoneIsLost, NoneIsPassedOver
  <2> QED BY <2>1, <2>4, <2>5, <2>6, <2>7, <1>0 DEF EventsInv
<1>5. CASE ~(Len(bufferedEvents) >= eventBufferCapacity)
  <2>1. bufferedEvents' = Append(bufferedEvents, e) /\ UNCHANGED <<closed, wanted, received>>
    BY <1>5 DEF BufferEvent
  <2>2. /\ bufferedEvents' \in Seq(1 .. Len(emitted)) /\ Len(bufferedEvents') = Len(bufferedEvents) + 1
        /\ In(bufferedEvents') = In(bufferedEvents) \cup {e} /\ Ascending(bufferedEvents')
    BY SMT, <2>1, <1>0, <1>1, <1>2, <1>3, AppendIn
  <2>3. Len(bufferedEvents') <= eventBufferCapacity
    BY SMT, <2>2, <1>3, <1>5, LinkAssumption
  <2>4. EventTypes'
    BY <2>1, <2>2, <2>3, <1>1, <1>3 DEF EventTypes
  <2>5. ComingIsLast'
    <3>1. ASSUME NEW x \in Coming'
          PROVE  /\ \A y \in In(bufferedEvents') : y < x
                 /\ \A j \in EventKinds : \A y \in In(received[j]) : y < x
      BY <2>2, <1>0 DEF ComingIsLast
    <3> QED BY <3>1, <2>1 DEF ComingIsLast
  <2>6. KindsInOrder'
    <3>1. ASSUME NEW j \in EventKinds, NEW y \in In(received[j]), NEW x \in In(bufferedEvents'),
                 emitted[x] = j
          PROVE  y < x
      <4>1. CASE x = e
        BY <4>1, <1>2
      <4>2. CASE x \in In(bufferedEvents)
        BY <4>2, <3>1, <1>0 DEF KindsInOrder
      <4> QED BY <4>1, <4>2, <2>2
    <3> QED BY <3>1, <2>1, <1>0 DEF KindsInOrder
  <2>7. \A w \in EventWaits : wanted[w] # emitted[e]
    <3>1. ASSUME NEW w \in EventWaits, wanted[w] = emitted[e] PROVE FALSE
      <4>1. w \in In(eventWaiters)
        BY <3>1, <1>1, LinkAssumption DEF WaitsInv
      <4>2. PICK i \in DOMAIN eventWaiters : eventWaiters[i] = w
        BY <4>1 DEF In
      <4> QED BY <4>2, <3>1 DEF WaitsFor
    <3> QED BY <3>1
  <2>8. NoneIsWanted'
    BY <2>1, <2>2, <2>7, <1>0 DEF NoneIsWanted
  <2>9. ASSUME NEW x \in 1 .. Len(emitted) PROVE Kept(x)' <=> Kept(x)
    <3>1. Kept(x) <=> x \in Coming' \cup {e} \cup In(bufferedEvents) \cup In(received[emitted[x]])
      BY DEF Kept
    <3>2. Kept(x)' <=> x \in Coming' \cup In(bufferedEvents') \cup In(received[emitted[x]])
      BY <2>1 DEF Kept
    <3> QED BY <3>1, <3>2, <2>2
  <2>10. NoneIsLost'
    BY <2>1, <2>9, <1>0, StillKept
  <2>11. NoneIsPassedOver'
    BY <2>1, <1>0 DEF NoneIsPassedOver
  <2> QED BY <2>2, <2>4, <2>5, <2>6, <2>8, <2>10, <2>11 DEF EventsInv
<1> QED BY <1>4, <1>5

\* An event arrives and a wait takes it.
LEMMA WaitTakesEvent ==
    ASSUME EventsInv, WaitsInv, NEW e \in Coming, NEW i \in WaitsFor(emitted[e]), EndWait(i),
           received' = [received EXCEPT ![emitted[e]] = Append(@, e)],
           UNCHANGED <<closed, pendingResponses, bufferedEvents, emitted, mainLoop>>,
           Coming = Coming' \cup {e}, Rising(toClient', "event"), \A x \in Coming' : e < x
    PROVE  EventsInv'
<1>0. /\ EventTypes /\ Ascending(bufferedEvents) /\ ComingIsLast /\ NoneIsWanted
  BY DEF EventsInv
<1>1. e \in 1 .. Len(emitted)
  BY <1>0 DEF EventTypes
<1>2. PICK k \in EventKinds : k = emitted[e]
  BY <1>0, <1>1, EventNumbers
<1>3. i \in DOMAIN eventWaiters /\ wanted[eventWaiters[i]] = k
  BY <1>2 DEF WaitsFor
<1>4. closed = "none" /\ \A w \in EventWaits : wanted'[w] \in {wanted[w], "none"}
  BY <1>3, EndWaits
<1>5. \A x \in In(bufferedEvents) : emitted[x] # k
  <2>1. eventWaiters[i] \in EventWaits
    BY SMT, <1>3 DEF WaitsInv
  <2> QED BY <2>1, <1>0, <1>3 DEF NoneIsWanted
<1>6. \A y \in In(received[k]) : y < e
  BY <1>0 DEF ComingIsLast
<1>7. bufferedEvents' \in Seq(1 .. Len(emitted)) /\ Len(bufferedEvents') <= eventBufferCapacity
  BY <1>0 DEF EventTypes
<1>8. received' = [received EXCEPT ![k] = Append(@, e)]
  BY <1>2
<1>9. /\ Coming' \subseteq Coming /\ In(bufferedEvents') = In(bufferedEvents)
      /\ Coming \cup In(bufferedEvents) = Coming' \cup In(bufferedEvents') \cup {e}
  OBVIOUS
<1>10. HandsOut(k, e)
  BY <1>0, <1>2, <1>4, <1>5, <1>6, <1>7, <1>8, <1>9 DEF HandsOut
<1> QED BY <1>1, <1>10, HandOut

\* The client takes a frame from the pipe.
LEMMA DrainEvents == ASSUME LinkInv, DrainFrame PROVE EventsInv'
<1>0. EventsInv /\ EventTypes /\ WaitsInv /\ UNCHANGED <<emitted, mainLoop>>
  BY DEF LinkInv, EventsInv, DrainFrame, sidecarVars, loopVars
<1>1. toClient \in Seq(UpFrames) /\ toClient # <<>> /\ toClient' = Tail(toClient)
  BY DEF DrainFrame, LinkInv, Pipes
<1>2. PICK f \in UpFrames : f = Head(toClient)
  BY SMT, <1>1
<1>3. /\ Rising(toClient', "event")
      /\ Coming = Coming' \cup (IF f.type = "event" THEN {f.id} ELSE {})
      /\ f.type = "event" => \A x \in Coming' : f.id < x
  <2>1. Rising(toClient, "event")
    BY <1>0 DEF EventsInv
  <2> QED BY SMT, <2>1, <1>1, <1>2, TailIds DEF Coming
<1>4. CASE f.type # "event"
  <2>1. f.type \in {"response", "sidecar_request"}
    BY <1>4 DEF UpFrames
  <2>2. UNCHANGED eventVars /\ closed' = closed
    BY <2>1, <1>2 DEF DrainFrame
  <2>3. UNCHANGED <<bufferedEvents, received, wanted>>
    BY <2>2 DEF eventVars
  <2> QED BY <2>2, <2>3, <1>0, <1>3, <1>4, QuietEvents
<1>5. CASE f.type = "event"
  <2>1. PICK e \in Coming : e = f.id
    BY <1>3, <1>5
  <2>2. DispatchEvent(e)
    BY <2>1, <1>2, <1>5 DEF DrainFrame
  <2>3. Coming = Coming' \cup {e} /\ \A x \in Coming' : e < x
    BY <2>1, <1>3, <1>5
  <2>4. CASE WaitsFor(emitted[e]) = {} /\ BufferEvent(e)
    BY <2>3, <2>4, <1>0, <1>3, BufferEvents
  <2>5. CASE \E i \in WaitsFor(emitted[e]) :
               /\ EndWait(i) /\ received' = [received EXCEPT ![emitted[e]] = Append(@, e)]
               /\ UNCHANGED <<closed, pendingResponses, bufferedEvents>>
    <3>1. PICK i \in WaitsFor(emitted[e]) :
               /\ EndWait(i) /\ received' = [received EXCEPT ![emitted[e]] = Append(@, e)]
               /\ UNCHANGED <<closed, pendingResponses, bufferedEvents>>
      BY <2>5
    <3> QED BY <3>1, <2>3, <1>0, <1>3, WaitTakesEvent
  <2> QED BY <2>2, <2>4, <2>5 DEF DispatchEvent
<1> QED BY <1>4, <1>5

\* waitForEvent takes the oldest event of the kind, or waits when there is none.
LEMMA WaitEvents ==
    ASSUME LinkInv, NEW w \in EventWaits, NEW k \in EventKinds, WaitForEvent(w, k)
    PROVE  EventsInv'
<1>0. EventsInv /\ EventTypes /\ Ascending(bufferedEvents) /\ Rising(toClient, "event") /\ WaitsInv
      /\ ComingIsLast /\ KindsInOrder /\ NoneIsWanted /\ NoneIsLost /\ NoneIsPassedOver
  BY DEF LinkInv, EventsInv
<1>1. UNCHANGED <<emitted, mainLoop, closed, toClient>> /\ closed # "overflow"
  BY DEF WaitForEvent, clientVars, sidecarVars, loopVars
<1>2. Coming' = Coming /\ Rising(toClient', "event")
  BY <1>0, <1>1 DEF Coming
<1>3. CASE BufferedOf(k) # {}
  <2>1. PICK i \in DOMAIN bufferedEvents :
          /\ FirstBuffered(k, i) /\ bufferedEvents' = Deleted(bufferedEvents, i)
          /\ received' = [received EXCEPT ![k] = Append(@, bufferedEvents[i])]
          /\ UNCHANGED <<eventWaiters, wanted>>
    BY <1>3 DEF WaitForEvent
  <2>2. /\ bufferedEvents \in Seq(1 .. Len(emitted)) /\ 1 .. Len(emitted) \subseteq Nat
        /\ Len(bufferedEvents) \in Nat /\ Len(bufferedEvents) <= eventBufferCapacity
    BY SMT, <1>0, EventNumbers DEF EventTypes
  <2>3. PICK e \in 1 .. Len(emitted) : e = bufferedEvents[i]
    BY SMT, <2>2
  <2>4. e \in In(bufferedEvents)
    BY <2>3 DEF In
  <2>5. emitted[e] = k /\ \A j \in DOMAIN bufferedEvents : emitted[bufferedEvents[j]] = k => i <= j
    BY <2>1, <2>3 DEF FirstBuffered, BufferedOf
  <2>6. /\ bufferedEvents' \in Seq(1 .. Len(emitted)) /\ Len(bufferedEvents') = Len(bufferedEvents) - 1
        /\ In(bufferedEvents) = In(bufferedEvents') \cup {e}
    BY <2>1, <2>2, <2>3, DeleteIn
  <2>7. /\ Ascending(bufferedEvents') /\ e \notin In(bufferedEvents')
        /\ \A j \in DOMAIN bufferedEvents : i <= j => e <= bufferedEvents[j]
    BY <2>1, <2>2, <2>3, <1>0, DeleteAscending
  <2>8. Len(bufferedEvents') <= eventBufferCapacity
    BY SMT, <2>2, <2>6, LinkAssumption
  <2>9. \A x \in In(bufferedEvents') : emitted[x] = k => e < x
    <3>1. ASSUME NEW x \in In(bufferedEvents'), emitted[x] = k PROVE e < x
      <4>1. x \in In(bufferedEvents) /\ x # e
        BY <3>1, <2>6, <2>7
      <4>2. PICK j \in DOMAIN bufferedEvents : x = bufferedEvents[j]
        BY <4>1 DEF In
      <4>3. e <= x
        BY <4>2, <3>1, <2>5, <2>7
      <4>4. x \in Nat /\ e \in Nat
        BY SMT, <4>2, <2>2
      <4> QED BY SMT, <4>1, <4>3, <4>4
    <3> QED BY <3>1
  <2>10. \A y \in In(received[k]) : y < e
    BY <2>4, <2>5, <1>0 DEF KindsInOrder
  <2>11. \A x \in Coming' : e < x
    BY <2>4, <1>0, <1>2 DEF ComingIsLast
  <2>12. received' = [received EXCEPT ![k] = Append(@, e)] /\ wanted' = wanted
    BY <2>1, <2>3
  <2>13. /\ Coming' \subseteq Coming /\ In(bufferedEvents') \subseteq In(bufferedEvents)
         /\ Coming \cup In(bufferedEvents) = Coming' \cup In(bufferedEvents') \cup {e}
    BY <2>6, <1>2
  <2>14. HandsOut(k, e)
    BY <2>5, <2>6, <2>7, <2>8, <2>9, <2>10, <2>11, <2>12, <2>13, <1>1, <1>2 DEF HandsOut
  <2> QED BY <2>14, <1>0, HandOut
<1>4. CASE BufferedOf(k) = {}
  <2>1. UNCHANGED <<bufferedEvents, received>> /\ wanted' = [wanted EXCEPT ![w] = k]
    BY <1>4 DEF WaitForEvent, FirstBuffered
  <2>2. \A x \in In(bufferedEvents) : emitted[x] # k
    BY <1>4 DEF BufferedOf, In
  <2>3. \A v \in EventWaits : wanted'[v] = IF v = w THEN k ELSE wanted[v]
    BY <2>1, <1>0 DEF WaitsInv
  <2>4. EventTypes' /\ Ascending(bufferedEvents')
    BY <2>1, <1>0, <1>1, <1>2 DEF EventTypes
  <2>5. ComingIsLast' /\ KindsInOrder' /\ NoneIsPassedOver'
    BY <2>1, <1>0, <1>1, <1>2 DEF ComingIsLast, KindsInOrder, NoneIsPassedOver
  <2>6. NoneIsWanted'
    BY SMT, <2>1, <2>2, <2>3, <1>0, <1>1 DEF NoneIsWanted
  <2>7. \A x : Kept(x)' <=> Kept(x)
    BY <2>1, <1>1, <1>2 DEF Kept
  <2>8. NoneIsLost'
    BY <2>7, <1>0, <1>1, StillKept
  <2> QED BY <2>4, <2>5, <2>6, <2>8, <1>2 DEF EventsInv
<1> QED BY <1>3, <1>4

\* Every step keeps events in order and, until the client fails, all of them.
LEMMA EventsNext == ASSUME LinkInv, LinkNext PROVE EventsInv'
<1>0. EventsInv /\ WaitsInv /\ Pipes /\ Rising(toClient, "event")
  BY DEF LinkInv, EventsInv
<1>1. ASSUME UNCHANGED <<emitted, mainLoop, toClient, bufferedEvents, received>>,
             \A w \in EventWaits : wanted'[w] \in {wanted[w], "none"},
             closed' = closed \/ closed = "none"
      PROVE  EventsInv'
  BY <1>0, <1>1, QuietEvents DEF Coming
<1>2. ASSUME NEW error \in {"exited", "overflow", "write", "disposed"}, FailPermanently(error),
             UNCHANGED <<emitted, mainLoop, toClient, bufferedEvents, received>>
      PROVE  EventsInv'
  BY <1>0, <1>1, <1>2, FailWaits
<1>3. ASSUME NEW h, SendRequest(h) PROVE EventsInv'
  BY <1>1, <1>3 DEF SendRequest, eventVars, sidecarVars, loopVars
<1>4. ASSUME NEW n, RequestTimesOut(n) PROVE EventsInv'
  BY <1>1, <1>4 DEF RequestTimesOut, eventVars, sidecarVars, loopVars
<1>5. CASE SeeExit \/ Dispose
  BY <1>2, <1>5 DEF SeeExit, Dispose, sidecarVars, loopVars
<1>6. CASE DisposeReturns
  BY <1>1, <1>6 DEF DisposeReturns, eventVars, sidecarVars, loopVars
<1>7. ASSUME NEW h, HandlerAnswers(h) PROVE EventsInv'
  <2>1. UNCHANGED <<emitted, mainLoop, toClient, bufferedEvents, received>>
    BY <1>7 DEF HandlerAnswers, sidecarVars, loopVars
  <2>2. FailPermanently("write") \/ UNCHANGED <<closed, wanted>>
    BY <1>7 DEF HandlerAnswers
  <2> QED BY <2>1, <2>2, <1>1, <1>2
<1>8. ASSUME NEW w, WaitGivesUp(w) PROVE EventsInv'
  <2>1. PICK i \in DOMAIN eventWaiters : EndWait(i)
    BY <1>8 DEF WaitGivesUp
  <2>2. UNCHANGED <<closed, pendingResponses, emitted, mainLoop, toClient, bufferedEvents, received>>
    BY <1>8 DEF WaitGivesUp, clientVars, sidecarVars, loopVars
  <2> QED BY <2>1, <2>2, <1>0, <1>1, EndWaits
<1>9. CASE Die
  BY <1>0, <1>9, ExitEvents DEF Die, clientVars
<1>10. CASE ReadFrame \/ HandOver \/ ReadEof
  BY <1>1, <1>10 DEF ReadFrame, HandOver, ReadEof, clientVars, eventVars, loopVars
<1>11. CASE TakeFrame
  <2>1. UNCHANGED <<clientVars, eventVars, emitted>> /\ Running
    BY <1>11 DEF TakeFrame
  <2>2. CASE Head(inbox).type = "request"
    BY <2>1, <2>2, <1>1, <1>11 DEF TakeFrame, clientVars, eventVars
  <2>3. CASE Head(inbox).type # "request"
    <3>1. Exit("stopped") \/ Exit("failed")
      BY <2>3, <1>11 DEF TakeFrame
    <3> QED BY <3>1, <2>1, <1>0, ExitEvents DEF clientVars
  <2> QED BY <2>2, <2>3
<1>12. ASSUME NEW f \in UpFrames, f.type # "event", toClient' = Append(toClient, f),
              UNCHANGED <<emitted, mainLoop, bufferedEvents, received, wanted, closed>>
       PROVE  EventsInv'
  <2>1. Coming' = Coming /\ Rising(toClient', "event")
    <3>1. toClient \in Seq(UpFrames)
      BY <1>0 DEF Pipes
    <3> QED BY <3>1, <1>0, <1>12, AppendOther DEF Coming
  <2> QED BY <2>1, <1>0, <1>12, QuietEvents
<1>13. CASE Respond
  <2>1. Frame("response", serving) \in UpFrames /\ Frame("response", serving).type # "event"
    BY SMT DEF Frame, UpFrames, LinkInv, RequestsInv, RequestIds
  <2> QED BY <2>1, <1>12, <1>13 DEF Respond, clientVars, eventVars
<1>14. CASE InvokeOnMain \/ InvokeOnThread
  <2>1. /\ Frame("sidecar_request", callbacks + 1) \in UpFrames
        /\ Frame("sidecar_request", callbacks + 1).type # "event"
    BY SMT DEF Frame, UpFrames, LinkInv, RequestsInv
  <2> QED BY <2>1, <1>12, <1>14
          DEF InvokeOnMain, InvokeOnThread, SendCallback, clientVars, eventVars, loopVars
<1>15. ASSUME NEW h, InvokeEnds(h) PROVE EventsInv'
  BY <1>1, <1>15 DEF InvokeEnds, clientVars, eventVars, loopVars
<1> QED BY <1>3, <1>4, <1>5, <1>6, <1>7, <1>8, <1>9, <1>10, <1>11, <1>13, <1>14, <1>15, DrainEvents,
           WaitEvents, EmitEvents DEF LinkNext, ClientStep, ReaderStep, LoopStep

--------------------------------------------------------------------------------
\* The invariant holds initially and every step keeps it.
LEMMA LinkInductive == LinkInit /\ [][LinkNext]_linkVars => []LinkInv
<1>1. LinkInit => LinkInv
  <2> SUFFICES ASSUME LinkInit PROVE LinkInv
    OBVIOUS
  <2> USE DEF LinkInit
  <2>1. /\ Asked = {} /\ Replied = {} /\ Late = {} /\ Coming = {} /\ Pipes
        /\ IdsOf(toSidecar, "request") = {} /\ IdsOf(inbox, "request") = {}
        /\ Once(toClient, "sidecar_request") /\ Once(toSidecar, "sidecar_response")
    BY EmptyIds DEF Asked, Replied, Late, Coming, Pipes
  <2>2. /\ Rising(toClient, "event") /\ In(<<>>) = {} /\ Distinct(<<>>) /\ Ascending(<<>>)
    BY SMT DEF Rising, In, Distinct, Ascending
  <2>3. RequestsInv
    BY SMT, <2>1, LinkAssumption DEF RequestsInv
  <2>4. WaitsInv
    BY SMT, <2>2 DEF WaitsInv, ClosedClientIsSettled
  <2>5. CallsInv
    BY SMT, <2>1 DEF CallsInv, CallPlaces
  <2>6. EventTypes /\ Ascending(bufferedEvents)
    BY SMT, <2>1, <2>2, LinkAssumption DEF EventTypes
  <2>7. /\ ComingIsLast /\ KindsInOrder /\ NoneIsWanted /\ NoneIsLost /\ NoneIsPassedOver
    BY SMT, <2>1, <2>2 DEF ComingIsLast, KindsInOrder, NoneIsWanted, NoneIsLost, NoneIsPassedOver
  <2> QED BY <2>1, <2>2, <2>3, <2>4, <2>5, <2>6, <2>7 DEF LinkInv, EventsInv
<1>2. LinkInv /\ [LinkNext]_linkVars => LinkInv'
  <2> SUFFICES ASSUME LinkInv, [LinkNext]_linkVars PROVE LinkInv'
    OBVIOUS
  <2>1. CASE LinkNext
    BY <2>1, PipesNext, RequestsNext, WaitsNext, CallsNext, EventsNext DEF LinkInv
  <2>2. CASE UNCHANGED linkVars
    <3>1. UNCHANGED <<clientVars, eventVars, toSidecar, toClient, stdinEnded, sidecarVars>>
      BY <2>2 DEF linkVars
    <3>2. UNCHANGED <<readerVars, loopVars, callbackVars>>
      BY <3>1 DEF sidecarVars
    <3> USE <3>1, <3>2 DEF clientVars, eventVars, readerVars, loopVars, callbackVars, LinkInv
    <3>3. Pipes' /\ RequestsInv'
      BY DEF Pipes, RequestsInv
    <3>4. WaitsInv'
      BY QuietWaits
    <3>5. CallsInv'
      BY QuietCalls DEF Asked, Replied, Late, CallsInv
    <3>6. EventsInv'
      BY QuietEvents DEF Coming, EventsInv
    <3> QED BY <3>3, <3>4, <3>5, <3>6
  <2> QED BY <2>1, <2>2
<1> QED BY <1>1, <1>2, PTL

\* Both ends of the link stay sound in every behaviour (protocol client, reader thread, run
\* loop): a client that has failed has nobody waiting in it, events of a kind arrive in order and,
\* until it fails for another reason than a full buffer, none is passed over, and no answer of a
\* call that still waits reaches the run loop, where it would end the process.
THEOREM LinkStaysSound == LinkSpec => []LinkIsSound
<1>1. LinkInv => LinkIsSound
  <2> SUFFICES ASSUME LinkInv PROVE LinkIsSound
    OBVIOUS
  <2>1. {eventWaiters[i] : i \in DOMAIN eventWaiters} = {w \in EventWaits : wanted[w] # "none"}
    <3>1. In(eventWaiters) \subseteq EventWaits
      BY SMT DEF In, LinkInv, WaitsInv
    <3>2. In(eventWaiters) = {w \in EventWaits : wanted[w] # "none"}
      BY <3>1 DEF LinkInv, WaitsInv
    <3> QED BY <3>2 DEF In
  <2>2. LinkTypeOK
    <3>1. handling \subseteq 1 .. callbacks /\ invoking \subseteq 1 .. callbacks
          /\ waiters \cup answered \subseteq invoking /\ (onMain # 0 => onMain \in invoking)
      BY DEF LinkInv, CallsInv, CallPlaces
    <3>2. /\ bufferedEvents \in Seq(1 .. Len(emitted)) /\ Len(bufferedEvents) <= eventBufferCapacity
          /\ emitted \in Seq(EventKinds)
      BY DEF LinkInv, EventsInv, EventTypes
    <3> QED BY <2>1, <3>1, <3>2 DEF LinkTypeOK, LinkInv, RequestsInv, WaitsInv
  <2>3. ClosedClientIsSettled
    BY DEF LinkInv, WaitsInv
  <2>4. EventsArriveInOrder
    <3> SUFFICES ASSUME NEW k \in EventKinds
                 PROVE  /\ \A i \in DOMAIN received[k] :
                              /\ emitted[received[k][i]] = k
                              /\ \A j \in 1 .. i - 1 : received[k][j] < received[k][i]
                        /\ closed \in {"none", "overflow"} =>
                              \A i \in DOMAIN received[k] : \A e \in 1 .. received[k][i] :
                                 emitted[e] = k => \E j \in DOMAIN received[k] : received[k][j] = e
      BY DEF EventsArriveInOrder
    <3>1. received[k] \in Seq(1 .. Len(emitted))
      BY DEF LinkInv, EventsInv, EventTypes
    <3>2. \A i \in DOMAIN received[k] : i \in Nat /\ \A j \in 1 .. i - 1 : j \in DOMAIN received[k] /\ j < i
      BY SMT, <3>1
    <3>3. \A i \in DOMAIN received[k] : received[k][i] \in In(received[k])
      BY DEF In
    <3>4. \A e \in In(received[k]) : \E j \in DOMAIN received[k] : received[k][j] = e
      BY DEF In
    <3>5. Ascending(received[k]) /\ \A y \in In(received[k]) : emitted[y] = k
      BY DEF LinkInv, EventsInv, KindsInOrder
    <3>6. closed \in {"none", "overflow"} =>
            \A y \in In(received[k]) : \A e \in 1 .. y : emitted[e] = k => e \in In(received[k])
      BY DEF LinkInv, EventsInv, NoneIsPassedOver
    <3>7. \A i \in DOMAIN received[k] :
            /\ emitted[received[k][i]] = k
            /\ \A j \in 1 .. i - 1 : received[k][j] < received[k][i]
      BY <3>2, <3>3, <3>5 DEF Ascending
    <3> QED BY <3>3, <3>4, <3>6, <3>7
  <2>5. OnlyLateAnswersReachTheLoop
    <3>1. Late \cap invoking = {}
      BY DEF LinkInv, CallsInv, CallPlaces
    <3> QED BY <3>1 DEF OnlyLateAnswersReachTheLoop, Late, IdsOf
  <2> QED BY <2>2, <2>3, <2>4, <2>5 DEF LinkIsSound
<1> QED BY <1>1, LinkInductive, PTL DEF LinkSpec
================================================================================
