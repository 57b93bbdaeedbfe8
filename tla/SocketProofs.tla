---------------------------- MODULE SocketProofs ----------------------------
(***************************************************************************)
(* Proofs about SocketTable, for any processes, addresses, limits and      *)
(* bounds: the tables of sockets stay sound, and each direction of a       *)
(* connection is a byte channel.                                           *)
(***************************************************************************)
EXTENDS SocketTable, TLAPS

\* Most leaves are first-order; the ones that need arithmetic or sequences say SMT.
USE Zenon

Ids == {s \in SocketIds : s < next_socket_id}
Addresses == InetAddresses \cup UnixPaths
States == {"Created", "Bound", "Listening", "Connected"}

SockRecords ==
    [owner : SockPids, spec : Specs, st : States, local : Addresses \cup {"none"}, conn : BOOLEAN,
     peer : SocketIds \cup {NoPeer}, buf : Seq(Nat), rdShut : BOOLEAN, wrShut : BOOLEAN,
     peerWrShut : BOOLEAN, backlog : Nat, pending : Seq(SocketIds \cup {NoPeer}),
     queue : Seq(Addresses \cup {"none"}), reuse : SUBSET {"addr", "port"}, groups : SUBSET Groups]

\* What a record says by itself: only a connection has a peer, data and sides that are shut, only
\* a listener has a queue, and a socket has an address when bind gave it one.
Sane(r) ==
    /\ r \in SockRecords
    /\ r.conn <=> r.st = "Connected"
    /\ r.st # "Connected" =>
          r.peer = NoPeer /\ r.buf = <<>> /\ ~r.rdShut /\ ~r.wrShut /\ ~r.peerWrShut
    /\ r.st # "Listening" => r.pending = <<>>
    /\ Len(r.pending) <= r.backlog
    /\ r.st = "Created" => r.local = "none"
    /\ r.st \in {"Bound", "Listening"} => r.local \in Addresses
    /\ r.spec = "udp" => r.st \in {"Created", "Bound"} /\ r.local \in InetAddresses \cup {"none"}

RecordFits(s) ==
    /\ Sane(sockets[s]) /\ sockets[s].peer # s
    /\ sockets[s].st # "Connected" => s \in given
    /\ life[sockets[s].owner] # "waited"
RecordsFit == \A s \in DOMAIN sockets : RecordFits(s)

TablesFit ==
    /\ next_socket_id \in 1 .. MaxSocketIds + 1 /\ DOMAIN sockets \subseteq Ids
    /\ by_owner \in [SockPids -> SUBSET SocketIds]
    /\ DOMAIN bound_streams \subseteq Addresses
    /\ bound_inet_datagrams \in [InetAddresses -> SUBSET SocketIds]
    /\ multicast_groups \in [Groups -> SUBSET SocketIds]
    /\ life \in [SockPids -> {"running", "closing", "exited", "waited"}]

WithinBounds ==
    Cardinality(DOMAIN sockets) <= max_sockets /\ Cardinality(Connections) <= max_connections

\* Who is queued for a listener is a connection of its owner, and is queued once; no connection
\* that nobody was told of is outside the queues.
QueuedFit ==
    \A l \in DOMAIN sockets : \A i \in DOMAIN sockets[l].pending :
        LET x == sockets[l].pending[i]
        IN  x # NoPeer =>
              /\ x \in Ids
              /\ x \in DOMAIN sockets =>
                    sockets[x].st = "Connected" /\ sockets[x].owner = sockets[l].owner
QueuedOnce ==
    \A k, l \in DOMAIN sockets :
        \A i \in DOMAIN sockets[k].pending, j \in DOMAIN sockets[l].pending :
            sockets[k].pending[i] = sockets[l].pending[j] /\ sockets[k].pending[i] # NoPeer
                => k = l /\ i = j
NoneIsForgotten == \A s \in Connections \ given : \E l \in DOMAIN sockets : s \in PendingAt(l)

Queues == QueuedFit /\ QueuedOnce /\ NoneIsForgotten

\* The bytes of a socket: none before it is connected.
BytesFit ==
    /\ sentTo \in [SocketIds -> Nat] /\ readBy \in [SocketIds -> Nat]
    /\ \A s \in SocketIds :
          /\ readBy[s] <= sentTo[s]
          /\ s \notin Ids \/ s \in DOMAIN sockets \ Connections => sentTo[s] = 0
    /\ StreamKeepsBytes

\* Who was told of the end had read everything and will get no more.
EndsFit ==
    /\ sawEof \subseteq Ids
    /\ \A s \in sawEof : /\ readBy[s] = sentTo[s]
                         /\ s \in DOMAIN sockets => sockets[s].conn /\ PeerIsDone(s)

SocketInv ==
    /\ TablesFit /\ RecordsFit /\ WithinBounds
    /\ PeersAreMutual /\ IndexesAreExact /\ NoTwoHoldAnAddress
    /\ Queues /\ BytesFit /\ EndsFit

\* Nothing more is sent to s, and that stays so.
Done(s) ==
    s < next_socket_id /\ (s \notin DOMAIN sockets \/ (sockets[s].conn /\ PeerIsDone(s)))
EndsStay == \A s \in SocketIds : Done(s) => Done(s)'

\* Every direction of a connection makes a step of a channel, or none.
ChannelStep(s) == [SocketChannel(s)!Next]_(SocketChannel(s)!vars)
Channels == \A s \in SocketIds : ChannelStep(s)

-----------------------------------------------------------------------------
(* Steps that remove no socket, and what they leave of the invariant when  *)
(* they leave some of the fields alone.                                    *)

Added == DOMAIN sockets' \ DOMAIN sockets

Grows ==
    /\ next_socket_id \in Nat /\ DOMAIN sockets \subseteq Ids /\ Added \subseteq SocketIds
    /\ DOMAIN sockets \subseteq DOMAIN sockets'
    /\ \/ next_socket_id' = next_socket_id /\ Added = {}
       \/ next_socket_id' = next_socket_id + 1 /\ Added = {next_socket_id}

\* Each part of the invariant looks at some of the fields.
SamePeers(r, q) ==
    /\ r.peer = q.peer /\ r.wrShut = q.wrShut /\ r.peerWrShut = q.peerWrShut
    /\ r.st = "Connected" <=> q.st = "Connected"
SameEnds(r, q) == q.conn => r.conn /\ r.peer = q.peer /\ (q.peerWrShut => r.peerWrShut)
SameNames(r, q) ==
    /\ r.owner = q.owner /\ r.spec = q.spec /\ r.local = q.local /\ r.groups = q.groups
    /\ r.st \in {"Bound", "Listening"} => q.st \in {"Bound", "Listening"}
SameQueue(r, q) ==
    r.owner = q.owner /\ r.pending = q.pending /\ (q.st = "Connected" => r.st = "Connected")
SameBytes(r, q) ==
    r.rdShut = q.rdShut /\ r.buf = q.buf /\ (q.st = "Connected" => r.st = "Connected")

\* A step that moves no byte of s and does not open what was done.
LEMMA Rests ==
    ASSUME NEW s, sentTo'[s] = sentTo[s], readBy'[s] = readBy[s], s \in sawEof' <=> s \in sawEof,
           Done(s) => Done(s)'
    PROVE  ChannelStep(s)
<1>1. (s \in sawEof)' = (s \in sawEof)
  BY SMT
<1>2. CASE Done(s)' = Done(s)
  BY <1>1, <1>2 DEF ChannelStep, SocketChannel!vars, Done
<1>3. CASE Done(s)' = TRUE
  BY <1>1, <1>3 DEF ChannelStep, SocketChannel!Next, SocketChannel!Close, Done
<1> QED
  BY <1>2, <1>3 DEF Done

LEMMA AllRest == ASSUME EndsStay, UNCHANGED historyVars PROVE Channels
BY Rests DEF EndsStay, Channels, historyVars

\* What every step that removes nothing leaves of the identifiers.
LEMMA IdsGrow ==
    ASSUME Grows
    PROVE  /\ Ids \subseteq Ids' /\ DOMAIN sockets' \subseteq Ids' /\ 0 \notin DOMAIN sockets'
           /\ DOMAIN sockets' = DOMAIN sockets \cup Added
           /\ \A x \in Ids : x \in DOMAIN sockets' => x \in DOMAIN sockets
           /\ \A x \in Added : x \notin Ids
<1>1. DOMAIN sockets' = DOMAIN sockets \cup Added
  BY DEF Grows, Added
<1>2. \A x \in Added : x = next_socket_id /\ next_socket_id' = next_socket_id + 1
  BY DEF Grows
<1>3. \A x \in SocketIds : x \in Nat /\ x # 0
  BY SMT, SocketAssumption DEF SocketIds
<1>4. Ids \subseteq Ids' /\ \A x \in Added : x \notin Ids /\ x \in Ids'
  <2>1. next_socket_id \in Nat /\ next_socket_id' \in Nat /\ next_socket_id <= next_socket_id'
    BY SMT DEF Grows
  <2>2. Ids \subseteq Ids'
    BY SMT, <2>1, <1>3 DEF Ids
  <2>3. ASSUME NEW x \in Added PROVE x \notin Ids /\ x \in Ids'
    BY SMT, <1>2, <1>3, <2>1 DEF Ids, Grows
  <2> QED
    BY <2>2, <2>3
<1>5. 0 \notin Ids'
  BY <1>3 DEF Ids
<1> QED
  BY <1>1, <1>4, <1>5 DEF Grows

\* The two ends of every connection still name each other.
LEMMA PeersKept ==
    ASSUME PeersAreMutual, Grows, given \subseteq given',
           \A t \in DOMAIN sockets : SamePeers(sockets'[t], sockets[t]),
           \A t \in Added : sockets'[t].st = "Connected" => sockets'[t].peer = NoPeer /\ t \in given'
    PROVE  PeersAreMutual'
<1>1. DOMAIN sockets' = DOMAIN sockets \cup Added
  BY IdsGrow
<1>2. Connections \subseteq Connections'
        /\ \A t \in Connections' : t \in Connections \/ t \in Added
  BY <1>1 DEF SamePeers, Connections
<1>3. ASSUME NEW t \in Connections
      PROVE  IF sockets'[t].peer = NoPeer
             THEN sockets'[t].peerWrShut \/ t \in given'
             ELSE /\ sockets'[t].peer \in Connections'
                  /\ sockets'[sockets'[t].peer].peer = t
                  /\ sockets'[t].peerWrShut = sockets'[sockets'[t].peer].wrShut
  <2>1. t \in DOMAIN sockets /\ (sockets[t].peer \in Connections => sockets[t].peer \in DOMAIN sockets)
    BY DEF Connections
  <2>2. SamePeers(sockets'[t], sockets[t])
        /\ (sockets[t].peer \in DOMAIN sockets
              => SamePeers(sockets'[sockets[t].peer], sockets[sockets[t].peer]))
    BY <2>1
  <2> QED
    BY SMT, <1>2, <2>1, <2>2 DEF PeersAreMutual, SamePeers
<1> QED
  BY <1>2, <1>3 DEF PeersAreMutual, Connections

\* What was done stays done, so who was told of the end is not to be told otherwise.
LEMMA EndsKept ==
    ASSUME EndsFit, PeersAreMutual, RecordsFit, Grows, sawEof' = sawEof,
           \A t \in DOMAIN sockets : SameEnds(sockets'[t], sockets[t]),
           \A t \in sawEof : readBy'[t] = readBy[t] /\ sentTo'[t] = sentTo[t]
    PROVE  EndsFit' /\ EndsStay
<1>1. ASSUME NEW s \in SocketIds, Done(s) PROVE Done(s)'
  <2>0. s \in Ids /\ s < next_socket_id'
    BY <1>1, IdsGrow DEF Done, Ids
  <2>1. CASE s \notin DOMAIN sockets
    BY <2>0, <2>1, IdsGrow DEF Done
  <2>2. CASE s \in DOMAIN sockets
    <3>1. sockets[s].conn /\ PeerIsDone(s)
      BY <1>1, <2>2 DEF Done
    <3>2. s \in Connections
      BY <2>2, <3>1 DEF RecordsFit, RecordFits, Sane, Connections
    <3>3. sockets[s].peer \notin DOMAIN sockets => sockets[s].peer = 0
      BY <3>2 DEF PeersAreMutual, Connections, NoPeer
    <3>4. sockets'[s].conn /\ sockets'[s].peer = sockets[s].peer
          /\ (sockets[s].peerWrShut => sockets'[s].peerWrShut)
      BY <2>2, <3>1 DEF SameEnds
    <3> QED
      BY <2>0, <3>1, <3>3, <3>4, IdsGrow DEF PeerIsDone, Done
  <2> QED
    BY <2>1, <2>2
<1>2. ASSUME NEW s \in sawEof, s \in DOMAIN sockets' PROVE sockets'[s].conn /\ PeerIsDone(s)'
  <2>1. s \in DOMAIN sockets /\ sockets[s].conn /\ PeerIsDone(s) /\ s \in SocketIds /\ s < next_socket_id
    BY <1>2, IdsGrow DEF EndsFit, Ids
  <2> QED
    BY <1>1, <1>2, <2>1 DEF Done
<1> QED
  BY <1>1, <1>2, IdsGrow DEF EndsFit, EndsStay

\* The indexes are still exact.
LEMMA NamesKept ==
    ASSUME IndexesAreExact, Grows, UNCHANGED sockTables,
           \A t \in DOMAIN sockets : SameNames(sockets'[t], sockets[t]),
           \A t \in Added : /\ sockets'[t].st \notin {"Bound", "Listening"} /\ sockets'[t].groups = {}
                            /\ sockets'[t].spec = "udp" => sockets'[t].local \notin InetAddresses,
           \A p \in SockPids : by_owner'[p] = by_owner[p] \cup {t \in Added : sockets'[t].owner = p}
    PROVE  IndexesAreExact'
<1> USE DEF SameNames
<1>1. bound_streams' = bound_streams
      /\ bound_inet_datagrams' = bound_inet_datagrams /\ multicast_groups' = multicast_groups
  BY DEF sockTables
<1>2. DOMAIN sockets' = DOMAIN sockets \cup Added
  BY IdsGrow
<1>3. ASSUME NEW p \in SockPids
      PROVE  by_owner'[p] = {s \in DOMAIN sockets' : sockets'[s].owner = p}
  BY SMT, <1>2 DEF IndexesAreExact
<1>4. ASSUME NEW a \in DOMAIN bound_streams
      PROVE  bound_streams[a] \in DOMAIN sockets' /\ sockets'[bound_streams[a]].local = a
  BY <1>2 DEF IndexesAreExact
<1>5. ASSUME NEW s \in DOMAIN sockets', sockets'[s].st \in {"Bound", "Listening"},
             sockets'[s].spec # "udp"
      PROVE  sockets'[s].local \in DOMAIN bound_streams /\ bound_streams[sockets'[s].local] = s
  BY SMT, <1>2, <1>5 DEF IndexesAreExact
<1>6. ASSUME NEW a \in InetAddresses
      PROVE  bound_inet_datagrams[a]
                = {s \in DOMAIN sockets' : sockets'[s].spec = "udp" /\ sockets'[s].local = a}
  BY SMT, <1>2 DEF IndexesAreExact
<1>7. ASSUME NEW g \in Groups
      PROVE  multicast_groups[g] = {s \in DOMAIN sockets' : g \in sockets'[s].groups}
  BY SMT, <1>2 DEF IndexesAreExact
<1> QED
  BY <1>1, <1>3, <1>4, <1>5, <1>6, <1>7 DEF IndexesAreExact

\* Every connection still waits where it waited.
LEMMA QueuesKept ==
    ASSUME Queues, Grows, Connections' \ given' \subseteq Connections \ given,
           \A t \in DOMAIN sockets : SameQueue(sockets'[t], sockets[t]),
           \A t \in Added : sockets'[t].pending = <<>>
    PROVE  Queues'
<1> USE DEF SameQueue
<1>1. DOMAIN sockets' = DOMAIN sockets \cup Added
  BY IdsGrow
<1>2. \A l \in DOMAIN sockets' : \A i \in DOMAIN sockets'[l].pending :
           l \in DOMAIN sockets /\ i \in DOMAIN sockets[l].pending
           /\ sockets'[l].pending[i] = sockets[l].pending[i] /\ sockets'[l].owner = sockets[l].owner
  BY SMT, <1>1
<1>3. QueuedFit'
  <2> SUFFICES ASSUME NEW l \in DOMAIN sockets', NEW i \in DOMAIN sockets'[l].pending,
                      sockets'[l].pending[i] # NoPeer
               PROVE  /\ sockets'[l].pending[i] \in Ids'
                      /\ sockets'[l].pending[i] \in DOMAIN sockets' =>
                            /\ sockets'[sockets'[l].pending[i]].st = "Connected"
                            /\ sockets'[sockets'[l].pending[i]].owner = sockets'[l].owner
    BY DEF QueuedFit
  <2> DEFINE x == sockets[l].pending[i]
  <2>1. /\ x \in Ids /\ sockets'[l].pending[i] = x /\ sockets'[l].owner = sockets[l].owner
        /\ x \in DOMAIN sockets => sockets[x].st = "Connected" /\ sockets[x].owner = sockets[l].owner
    BY SMT, <1>2 DEF Queues, QueuedFit
  <2>2. x \in Ids' /\ (x \in DOMAIN sockets' => x \in DOMAIN sockets)
    BY <2>1, IdsGrow
  <2> QED
    BY <2>1, <2>2
<1>4. QueuedOnce'
  BY SMT, <1>2 DEF Queues, QueuedOnce
<1>5. NoneIsForgotten'
  <2> SUFFICES ASSUME NEW s \in Connections' \ given'
               PROVE  \E l \in DOMAIN sockets' : s \in PendingAt(l)'
    BY DEF NoneIsForgotten
  <2>1. PICK l \in DOMAIN sockets : s \in PendingAt(l)
    BY DEF Queues, NoneIsForgotten
  <2>2. PendingAt(l)' = PendingAt(l) /\ l \in DOMAIN sockets'
    BY <1>1 DEF PendingAt
  <2> QED
    BY <2>1, <2>2
<1> QED
  BY <1>3, <1>4, <1>5 DEF Queues

\* Every byte is still where it was, and a new connection has none.
LEMMA BytesKept ==
    ASSUME BytesFit, RecordsFit, Grows, sentTo' = sentTo, readBy' = readBy,
           \A t \in DOMAIN sockets : SameBytes(sockets'[t], sockets[t]),
           \A t \in Added : sockets'[t].buf = <<>>
    PROVE  BytesFit'
<1>1. DOMAIN sockets' = DOMAIN sockets \cup Added
  BY IdsGrow
<1>2. Connections \subseteq Connections'
  BY <1>1 DEF SameBytes, Connections
<1>3. ASSUME NEW s \in SocketIds, s \notin Ids' \/ s \in DOMAIN sockets' \ Connections'
      PROVE  sentTo'[s] = 0
  BY <1>1, <1>2, <1>3, IdsGrow DEF BytesFit
<1>4. ASSUME NEW s \in Connections', ~sockets'[s].rdShut
      PROVE  sockets'[s].buf = [i \in 1 .. sentTo'[s] - readBy'[s] |-> readBy'[s] + i]
  <2>1. CASE s \in Connections
    BY <1>4, <2>1 DEF BytesFit, StreamKeepsBytes, SameBytes, Connections
  <2>2. CASE s \notin Connections
    <3>1. s \in SocketIds /\ (s \notin Ids \/ s \in DOMAIN sockets \ Connections)
          /\ sockets'[s].buf = <<>>
      <4>1. s \in DOMAIN sockets' /\ (s \in Added \/ s \in DOMAIN sockets)
        BY <1>1 DEF Connections
      <4>2. s \in SocketIds
        BY <4>1, IdsGrow DEF Ids
      <4>3. s \in DOMAIN sockets => sockets[s].buf = <<>>
        BY <2>2 DEF RecordsFit, RecordFits, Sane, Connections
      <4> QED
        BY <2>2, <4>1, <4>2, <4>3, IdsGrow DEF SameBytes
    <3>2. sentTo[s] = 0 /\ readBy[s] = 0
      BY SMT, <3>1 DEF BytesFit
    <3>3. [i \in 1 .. 0 - 0 |-> 0 + i] = <<>>
      BY SMT
    <3> QED
      BY <3>1, <3>2, <3>3
  <2> QED
    BY <2>1, <2>2
<1> QED
  BY <1>3, <1>4 DEF BytesFit, StreamKeepsBytes

-----------------------------------------------------------------------------
(* Records: what the calls make of one.                                    *)

\* A new record.
LEMMA SaneNew ==
    ASSUME NEW pid \in SockPids, NEW spec \in Specs, NEW local \in Addresses \cup {"none"},
           NEW peer \in SocketIds \cup {NoPeer}, NEW st \in {"Created", "Connected"},
           st = "Created" => local = "none" /\ peer = NoPeer, spec = "udp" => st = "Created"
    PROVE  Sane(Record(pid, spec, st, local, peer))
<1>1. Record(pid, spec, st, local, peer) \in SockRecords
  BY SMT DEF Record, SockRecords, States
<1>2. Len(<<>>) <= 0
  BY SMT
<1> QED
  BY <1>1, <1>2 DEF Sane, Record

\* The fields of a record but the one that a call edits.
AllSame(r, q) ==
    SamePeers(r, q) /\ SameEnds(r, q) /\ SameNames(r, q) /\ SameQueue(r, q) /\ SameBytes(r, q)

\* Options and datagrams.
LEMMA SaneReuse ==
    ASSUME NEW r, Sane(r), NEW x \in SUBSET {"addr", "port"}, NEW q, q = [r EXCEPT !.reuse = x]
    PROVE  Sane(q) /\ AllSame(q, r)
<1>1. Sane(q)
  BY DEF Sane, SockRecords
<1>2. r \in SockRecords
  BY DEF Sane
<1> QED
  BY <1>1, <1>2, SMT DEF SockRecords, AllSame, SamePeers, SameEnds, SameNames, SameQueue, SameBytes
LEMMA SaneDatagrams ==
    ASSUME NEW r, Sane(r), NEW x \in Seq(Addresses \cup {"none"}), NEW q, q = [r EXCEPT !.queue = x]
    PROVE  Sane(q) /\ AllSame(q, r)
<1>1. Sane(q)
  BY DEF Sane, SockRecords
<1>2. r \in SockRecords
  BY DEF Sane
<1> QED
  BY <1>1, <1>2, SMT DEF SockRecords, AllSame, SamePeers, SameEnds, SameNames, SameQueue, SameBytes

\* Memberships.
LEMMA SaneGroups ==
    ASSUME NEW r, Sane(r), NEW x \in SUBSET Groups, NEW q, q = [r EXCEPT !.groups = x]
    PROVE  /\ Sane(q) /\ SamePeers(q, r) /\ SameEnds(q, r) /\ SameQueue(q, r) /\ SameBytes(q, r)
           /\ q.groups = x /\ q.spec = r.spec /\ q.local = r.local /\ q.st = r.st
<1>1. Sane(q)
  BY DEF Sane, SockRecords
<1>2. r \in SockRecords
  BY DEF Sane
<1> QED
  BY <1>1, <1>2, SMT DEF SockRecords, SamePeers, SameEnds, SameQueue, SameBytes

\* A socket gets its address.
AsBound(r, a) == [r EXCEPT !.st = "Bound", !.local = a]
LEMMA SaneBound ==
    ASSUME NEW r, Sane(r), r.st = "Created", NEW a \in Addresses, r.spec # "udp" \/ a \in InetAddresses,
           NEW q, q = AsBound(r, a)
    PROVE  /\ Sane(q) /\ SamePeers(q, r) /\ SameEnds(q, r) /\ SameQueue(q, r) /\ SameBytes(q, r)
           /\ q.groups = r.groups /\ q.spec = r.spec /\ q.local = a /\ q.st = "Bound"
<1>1. Sane(q)
  BY DEF Sane, SockRecords, States, AsBound
<1> QED
  BY <1>1, SMT DEF AsBound, Sane, SockRecords, SamePeers, SameEnds, SameQueue, SameBytes

\* A socket becomes a listener, and its queue changes.
LEMMA SaneListening ==
    ASSUME NEW r, Sane(r), r.st = "Bound", r.spec # "udp", NEW n \in Nat,
           NEW q, q = [r EXCEPT !.st = "Listening", !.backlog = n]
    PROVE  Sane(q) /\ AllSame(q, r)
<1>1. Len(<<>>) <= n
  BY SMT
<1>2. Sane(q)
  BY <1>1 DEF Sane, SockRecords, States
<1> QED
  BY <1>2, SMT DEF Sane, SockRecords, AllSame, SamePeers, SameEnds, SameNames, SameQueue, SameBytes
LEMMA SanePending ==
    ASSUME NEW r, Sane(r), r.st = "Listening", NEW x \in Seq(SocketIds \cup {NoPeer}),
           Len(x) <= r.backlog, NEW q, q = [r EXCEPT !.pending = x]
    PROVE  /\ Sane(q) /\ SamePeers(q, r) /\ SameEnds(q, r) /\ SameNames(q, r) /\ SameBytes(q, r)
           /\ q.pending = x /\ q.st = r.st
<1>1. Sane(q)
  BY DEF Sane, SockRecords
<1>2. r \in SockRecords
  BY DEF Sane
<1> QED
  BY <1>1, <1>2, SMT DEF SockRecords, SamePeers, SameEnds, SameNames, SameBytes

\* A socket becomes a connection.
Unused(r) == Sane(r) /\ r.st \in {"Created", "Bound"} /\ r.spec # "udp"
Attached(q, r, x) ==
    /\ Sane(q) /\ SameEnds(q, r) /\ SameNames(q, r) /\ SameQueue(q, r) /\ SameBytes(q, r)
    /\ q.st = "Connected" /\ q.peer = x /\ q.wrShut = FALSE /\ q.peerWrShut = FALSE
LEMMA SaneConnected ==
    ASSUME NEW r, Unused(r), NEW x \in SocketIds PROVE Attached(ConnectedTo(r, x), r, x)
<1> DEFINE q == ConnectedTo(r, x)
<1>1. Sane(q)
  BY DEF Unused, Sane, SockRecords, States, ConnectedTo
<1>2. /\ SameEnds(q, r) /\ SameNames(q, r) /\ SameQueue(q, r) /\ SameBytes(q, r)
      /\ q.st = "Connected" /\ q.peer = x /\ q.wrShut = FALSE /\ q.peerWrShut = FALSE
  BY SMT DEF ConnectedTo, Unused, Sane, SockRecords, SameEnds, SameNames, SameQueue, SameBytes
<1> QED
  BY <1>1, <1>2 DEF Attached

\* A connection gets or gives bytes, is shut or loses its peer.
LEMMA SaneBytes ==
    ASSUME NEW r, Sane(r), r.st = "Connected", NEW x \in Seq(Nat), NEW q, q = [r EXCEPT !.buf = x]
    PROVE  /\ Sane(q) /\ SamePeers(q, r) /\ SameEnds(q, r) /\ SameNames(q, r) /\ SameQueue(q, r)
           /\ q.buf = x /\ q.rdShut = r.rdShut
<1>1. Sane(q)
  BY DEF Sane, SockRecords
<1>2. r \in SockRecords
  BY DEF Sane
<1> QED
  BY <1>1, <1>2, SMT DEF SockRecords, SamePeers, SameEnds, SameNames, SameQueue
AsShut(r, d, w, x) == [r EXCEPT !.rdShut = d, !.wrShut = w, !.buf = x]
ShutFrom(q, r, d, w, x) ==
    /\ Sane(q) /\ SameEnds(q, r) /\ SameNames(q, r) /\ SameQueue(q, r)
    /\ q.peer = r.peer /\ q.st = "Connected" /\ q.peerWrShut = r.peerWrShut
    /\ q.buf = x /\ q.rdShut = d /\ q.wrShut = w
LEMMA SaneShut ==
    ASSUME NEW r, Sane(r), r.st = "Connected", NEW x \in Seq(Nat), NEW d \in BOOLEAN, NEW w \in BOOLEAN
    PROVE  ShutFrom(AsShut(r, d, w, x), r, d, w, x)
<1> DEFINE q == AsShut(r, d, w, x)
<1>1. Sane(q)
  BY DEF AsShut, Sane, SockRecords
<1>2. /\ SameEnds(q, r) /\ SameNames(q, r) /\ SameQueue(q, r)
      /\ q.peer = r.peer /\ q.st = "Connected" /\ q.peerWrShut = r.peerWrShut
      /\ q.buf = x /\ q.rdShut = d /\ q.wrShut = w
  BY SMT DEF AsShut, Sane, SockRecords, SameEnds, SameNames, SameQueue
<1> QED
  BY <1>1, <1>2 DEF ShutFrom
LEMMA SanePeerShut ==
    ASSUME NEW r, Sane(r), r.st = "Connected", NEW q, q = [r EXCEPT !.peerWrShut = TRUE]
    PROVE  /\ Sane(q) /\ SameEnds(q, r) /\ SameNames(q, r) /\ SameQueue(q, r) /\ SameBytes(q, r)
           /\ q.peer = r.peer /\ q.st = "Connected" /\ q.wrShut = r.wrShut /\ q.peerWrShut
<1>1. Sane(q)
  BY DEF Sane, SockRecords
<1>2. r \in SockRecords
  BY DEF Sane
<1> QED
  BY <1>1, <1>2, SMT DEF SockRecords, SameEnds, SameNames, SameQueue, SameBytes

-----------------------------------------------------------------------------
(* Steps that change no socket but some.                                   *)

\* The other sockets are as they were.
But(C) == DOMAIN sockets' = DOMAIN sockets /\ \A t \in DOMAIN sockets \ C : sockets'[t] = sockets[t]

\* A step that neither adds nor removes a socket.
LEMMA SameGrows ==
    ASSUME TablesFit, DOMAIN sockets' = DOMAIN sockets, next_socket_id' = next_socket_id
    PROVE  Grows /\ Added = {}
<1>1. next_socket_id \in Nat
  BY SMT, SocketAssumption DEF TablesFit
<1> QED
  BY <1>1 DEF Grows, Added, TablesFit

\* The limits are kept when no socket becomes a connection.
LEMMA BoundsKept ==
    ASSUME WithinBounds, DOMAIN sockets' = DOMAIN sockets,
           \A t \in DOMAIN sockets : sockets'[t].st = "Connected" <=> sockets[t].st = "Connected"
    PROVE  WithinBounds' /\ Connections' = Connections
<1>1. Connections' = Connections
  BY SMT DEF Connections
<1>2. Cardinality(Connections') = Cardinality(Connections)
  BY <1>1
<1>3. Cardinality(DOMAIN sockets') = Cardinality(DOMAIN sockets)
  OBVIOUS
<1> QED
  BY <1>1, <1>2, <1>3 DEF WithinBounds

\* The records that change fit, so all do.
LEMMA RecordsKept ==
    ASSUME RecordsFit, given \subseteq given', life' = life,
           \A t \in DOMAIN sockets' :
               (t \in DOMAIN sockets /\ sockets'[t] = sockets[t]) \/ RecordFits(t)'
    PROVE  RecordsFit'
BY DEF RecordsFit, RecordFits

\* The socket of a call.
LEMMA Opened ==
    ASSUME SocketInv, NEW pid \in SockPids, NEW s, Owned(s, pid)
    PROVE  /\ s \in DOMAIN sockets /\ s \in Ids /\ s \in SocketIds /\ RecordFits(s)
           /\ sockets[s].owner = pid /\ life[pid] # "waited"
<1>1. s \in DOMAIN sockets /\ sockets[s].owner = pid /\ life[pid] # "waited"
  BY DEF Owned, Drives
<1> QED
  BY <1>1 DEF SocketInv, TablesFit, RecordsFit, Ids

\* A call that changes nothing that the invariant relates between sockets.
LEMMA Quiet ==
    ASSUME SocketInv, UNCHANGED <<by_owner, sockTables, next_socket_id, life, given, historyVars>>,
           NEW s \in DOMAIN sockets, But({s}), Sane(sockets'[s]),
           AllSame(sockets'[s], sockets[s])
    PROVE  SocketInv' /\ EndsStay
<1>1. Grows /\ Added = {} /\ DOMAIN sockets' = DOMAIN sockets
  BY SameGrows DEF SocketInv, But
<1>2. ASSUME NEW t \in DOMAIN sockets
      PROVE  /\ SamePeers(sockets'[t], sockets[t]) /\ SameEnds(sockets'[t], sockets[t])
             /\ SameNames(sockets'[t], sockets[t]) /\ SameQueue(sockets'[t], sockets[t])
             /\ SameBytes(sockets'[t], sockets[t])
  BY DEF But, AllSame, SamePeers, SameEnds, SameNames, SameQueue, SameBytes
<1>3. UNCHANGED <<given, sawEof, readBy, sentTo, life, sockTables, by_owner>>
  BY DEF historyVars
<1>4. WithinBounds' /\ Connections' = Connections
  BY <1>1, <1>2, BoundsKept DEF SocketInv, SamePeers
<1>5. PeersAreMutual'
  BY <1>1, <1>2, <1>3, PeersKept DEF SocketInv
<1>6. EndsFit' /\ EndsStay
  BY <1>1, <1>2, <1>3, EndsKept DEF SocketInv
<1>7. IndexesAreExact'
  BY <1>1, <1>2, <1>3, NamesKept DEF SocketInv
<1>8. Queues'
  BY <1>1, <1>2, <1>3, <1>4, QueuesKept DEF SocketInv
<1>9. BytesFit'
  BY <1>1, <1>2, <1>3, BytesKept DEF SocketInv
<1>10. RecordsFit'
  <2>1. RecordFits(s)'
    BY <1>2, <1>3 DEF SocketInv, RecordsFit, RecordFits, SamePeers, SameNames
  <2> QED
    BY <1>1, <1>3, <2>1, RecordsKept DEF SocketInv, But
<1>11. TablesFit' /\ NoTwoHoldAnAddress'
  BY <1>1, <1>3 DEF SocketInv, TablesFit, NoTwoHoldAnAddress, sockTables, Ids
<1> QED
  BY <1>4, <1>5, <1>6, <1>7, <1>8, <1>9, <1>10, <1>11 DEF SocketInv

\* set_datagram_socket_option.
LEMMA set_datagram_optionStep ==
    ASSUME SocketInv, NEW pid \in SockPids, NEW s, NEW r \in SUBSET {"addr", "port"},
           set_datagram_option(pid, s, r)
    PROVE  SocketInv' /\ EndsStay
<1>1. s \in DOMAIN sockets /\ RecordFits(s)
  BY Opened DEF set_datagram_option
<1>2. But({s}) /\ sockets'[s] = [sockets[s] EXCEPT !.reuse = r]
  BY <1>1 DEF set_datagram_option, But
<1>3. UNCHANGED <<by_owner, sockTables, next_socket_id, life, given, historyVars>>
  BY DEF set_datagram_option
<1>4. Sane(sockets'[s]) /\ AllSame(sockets'[s], sockets[s])
  BY <1>1, <1>2, SaneReuse DEF RecordFits
<1> QED
  BY <1>1, <1>2, <1>3, <1>4, Quiet

\* recv_datagram.
LEMMA recv_datagramStep ==
    ASSUME SocketInv, NEW pid \in SockPids, NEW s, recv_datagram(pid, s) PROVE SocketInv' /\ EndsStay
<1>1. s \in DOMAIN sockets /\ RecordFits(s)
  BY Opened DEF recv_datagram
<1>2. But({s}) /\ sockets'[s] = [sockets[s] EXCEPT !.queue = Tail(sockets[s].queue)]
  BY <1>1 DEF recv_datagram, But
<1>3. UNCHANGED <<by_owner, sockTables, next_socket_id, life, given, historyVars>>
  BY DEF recv_datagram
<1>4. Tail(sockets[s].queue) \in Seq(Addresses \cup {"none"})
  <2>1. sockets[s].queue \in Seq(Addresses \cup {"none"}) /\ sockets[s].queue # <<>>
    BY <1>1 DEF recv_datagram, RecordFits, Sane, SockRecords
  <2> QED
    BY <2>1, SMT
<1>5. Sane(sockets'[s]) /\ AllSame(sockets'[s], sockets[s])
  BY <1>1, <1>2, <1>4, SaneDatagrams DEF RecordFits
<1> QED
  BY <1>1, <1>2, <1>3, <1>5, Quiet

\* A step that changes nothing.
LEMMA NothingStep == ASSUME SocketInv, UNCHANGED sockVars PROVE SocketInv' /\ EndsStay
<1> USE DEF sockVars, sockTables
<1>1. TablesFit' /\ RecordsFit' /\ WithinBounds' /\ NoTwoHoldAnAddress'
  BY DEF SocketInv, TablesFit, RecordsFit, RecordFits, WithinBounds, NoTwoHoldAnAddress, Ids,
     Connections
<1>2. PeersAreMutual' /\ IndexesAreExact'
  BY DEF SocketInv, PeersAreMutual, IndexesAreExact, Connections
<1>3. Queues'
  <2>1. Grows /\ Added = {} /\ Connections' = Connections
    BY SameGrows DEF SocketInv, Connections
  <2> QED
    BY <2>1, QueuesKept DEF SocketInv, SameQueue
<1>4. BytesFit' /\ EndsFit'
  <2>1. BytesFit'
    BY SMT DEF SocketInv, BytesFit, StreamKeepsBytes, Connections, Ids
  <2>2. EndsFit'
    BY DEF SocketInv, EndsFit, PeerIsDone, Ids
  <2> QED
    BY <2>1, <2>2
<1>5. EndsStay
  BY DEF EndsStay, Done, PeerIsDone
<1> QED
  BY <1>1, <1>2, <1>3, <1>4, <1>5 DEF SocketInv

\* send_to_bound_udp_socket.
LEMMA send_toStep ==
    ASSUME SocketInv, NEW pid \in SockPids, NEW s, NEW a, send_to(pid, s, a) PROVE SocketInv' /\ EndsStay
<1>1. s \in DOMAIN sockets /\ RecordFits(s)
  BY Opened DEF send_to
<1>2. PICK t : /\ Len(sockets[t].queue) < MaxDatagrams
               /\ sockets' = [sockets EXCEPT ![t].queue = Append(@, sockets[s].local)]
  BY DEF send_to
<1>3. UNCHANGED <<by_owner, sockTables, next_socket_id, life, given, historyVars>>
  BY DEF send_to
<1>4. CASE t \in DOMAIN sockets
  <2>1. But({t}) /\ RecordFits(t)
        /\ sockets'[t] = [sockets[t] EXCEPT !.queue = Append(sockets[t].queue, sockets[s].local)]
    BY <1>2, <1>4 DEF But, SocketInv, RecordsFit
  <2>2. Append(sockets[t].queue, sockets[s].local) \in Seq(Addresses \cup {"none"})
    <3>1. sockets[t].queue \in Seq(Addresses \cup {"none"}) /\ sockets[s].local \in Addresses \cup {"none"}
      BY <1>1, <2>1 DEF RecordFits, Sane, SockRecords
    <3> QED
      BY <3>1, SMT
  <2>3. Sane(sockets'[t]) /\ AllSame(sockets'[t], sockets[t])
    BY <2>1, <2>2, SaneDatagrams DEF RecordFits
  <2> QED
    BY <1>3, <1>4, <2>1, <2>3, Quiet
<1>5. CASE t \notin DOMAIN sockets
  <2>1. But({s}) /\ sockets'[s] = sockets[s]
    BY <1>1, <1>2, <1>5 DEF But
  <2>2. Sane(sockets'[s]) /\ AllSame(sockets'[s], sockets[s])
    BY <1>1, <2>1 DEF RecordFits, AllSame, SamePeers, SameEnds, SameNames, SameQueue, SameBytes
  <2> QED
    BY <1>1, <1>3, <2>1, <2>2, Quiet
<1> QED
  BY <1>4, <1>5

\* listen.
LEMMA listenStep ==
    ASSUME SocketInv, NEW pid \in SockPids, NEW s, NEW n \in Nat, listen(pid, s, n) PROVE SocketInv' /\ EndsStay
<1>1. s \in DOMAIN sockets /\ RecordFits(s) /\ sockets[s].st = "Bound" /\ sockets[s].spec # "udp"
  BY Opened DEF listen, Streams
<1>2. But({s}) /\ sockets'[s] = [sockets[s] EXCEPT !.st = "Listening", !.backlog = n]
  BY <1>1 DEF listen, But
<1>3. UNCHANGED <<by_owner, sockTables, next_socket_id, life, given, historyVars>>
  BY DEF listen
<1>4. Sane(sockets'[s]) /\ AllSame(sockets'[s], sockets[s])
  BY <1>1, <1>2, SaneListening DEF RecordFits
<1> QED
  BY <1>1, <1>2, <1>3, <1>4, Quiet

\* A call that only gives a socket a name or a group, and enters it in the tables.
LEMMA Named ==
    ASSUME SocketInv, UNCHANGED <<by_owner, next_socket_id, life, given, historyVars>>,
           NEW s \in DOMAIN sockets, But({s}), Sane(sockets'[s]), sockets'[s].owner = sockets[s].owner,
           SamePeers(sockets'[s], sockets[s]), SameEnds(sockets'[s], sockets[s]),
           SameQueue(sockets'[s], sockets[s]), SameBytes(sockets'[s], sockets[s]),
           IndexesAreExact', TablesFit', NoTwoHoldAnAddress'
    PROVE  SocketInv' /\ EndsStay
<1>1. Grows /\ Added = {} /\ DOMAIN sockets' = DOMAIN sockets
  BY SameGrows DEF SocketInv, But
<1>2. ASSUME NEW t \in DOMAIN sockets
      PROVE  /\ SamePeers(sockets'[t], sockets[t]) /\ SameEnds(sockets'[t], sockets[t])
             /\ SameQueue(sockets'[t], sockets[t]) /\ SameBytes(sockets'[t], sockets[t])
  BY DEF But, SamePeers, SameEnds, SameQueue, SameBytes
<1>3. UNCHANGED <<given, sawEof, readBy, sentTo, life>>
  BY DEF historyVars
<1>4. WithinBounds' /\ Connections' = Connections
  BY <1>1, <1>2, BoundsKept DEF SocketInv, SamePeers
<1>5. PeersAreMutual' /\ EndsFit' /\ EndsStay
  BY <1>1, <1>2, <1>3, PeersKept, EndsKept DEF SocketInv
<1>6. Queues'
  BY <1>1, <1>2, <1>3, <1>4, QueuesKept DEF SocketInv
<1>7. BytesFit'
  BY <1>1, <1>2, <1>3, BytesKept DEF SocketInv
<1>8. RecordsFit'
  <2>1. RecordFits(s)'
    BY <1>3 DEF SocketInv, RecordsFit, RecordFits, SamePeers
  <2> QED
    BY <1>1, <1>3, <2>1, RecordsKept DEF SocketInv, But
<1> QED
  BY <1>4, <1>5, <1>6, <1>7, <1>8 DEF SocketInv

\* add_multicast_membership and drop_multicast_membership.
LEMMA set_membershipStep ==
    ASSUME SocketInv, NEW pid \in SockPids, NEW s, NEW g \in Groups, NEW m \in BOOLEAN,
           set_membership(pid, s, g, m)
    PROVE  SocketInv' /\ EndsStay
<1> DEFINE x == IF m THEN sockets[s].groups \cup {g} ELSE sockets[s].groups \ {g}
           y == IF m THEN multicast_groups[g] \cup {s} ELSE multicast_groups[g] \ {s}
<1>1. s \in DOMAIN sockets /\ RecordFits(s) /\ s \in SocketIds
  BY Opened DEF set_membership
<1>2. But({s}) /\ sockets'[s] = [sockets[s] EXCEPT !.groups = x]
  BY <1>1 DEF set_membership, But
<1>3. UNCHANGED <<by_owner, bound_streams, bound_inet_datagrams, next_socket_id, life, given, historyVars>>
  BY DEF set_membership
<1>4. x \in SUBSET Groups
  BY <1>1 DEF RecordFits, Sane, SockRecords
<1>5. /\ Sane(sockets'[s])
      /\ SamePeers(sockets'[s], sockets[s]) /\ SameEnds(sockets'[s], sockets[s])
      /\ SameQueue(sockets'[s], sockets[s]) /\ SameBytes(sockets'[s], sockets[s])
      /\ sockets'[s].groups = x /\ sockets'[s].spec = sockets[s].spec
      /\ sockets'[s].local = sockets[s].local /\ sockets'[s].st = sockets[s].st
  <2> HIDE DEF x
  <2> QED
    BY SMT, <1>1, <1>2, <1>4, SaneGroups DEF RecordFits
<1>6. multicast_groups' = [multicast_groups EXCEPT ![g] = y] /\ multicast_groups \in [Groups -> SUBSET SocketIds]
  BY DEF set_membership, SocketInv, TablesFit
<1>7. multicast_groups'[g] = y /\ \A h \in Groups \ {g} : multicast_groups'[h] = multicast_groups[h]
  BY <1>6
<1>8. TablesFit'
  <2>1. y \in SUBSET SocketIds
    BY <1>1, <1>6
  <2>2. multicast_groups' \in [Groups -> SUBSET SocketIds]
    BY <1>6, <2>1
  <2> QED
    BY <1>2, <1>3, <2>2 DEF SocketInv, TablesFit, Ids, But
<1>9. IndexesAreExact'
  <2>1. /\ DOMAIN sockets' = DOMAIN sockets /\ IndexesAreExact
        /\ \A t \in DOMAIN sockets :
              /\ sockets'[t].owner = sockets[t].owner /\ sockets'[t].st = sockets[t].st
              /\ sockets'[t].spec = sockets[t].spec /\ sockets'[t].local = sockets[t].local
              /\ \A h \in Groups \ {g} : h \in sockets'[t].groups <=> h \in sockets[t].groups
              /\ t # s => sockets'[t] = sockets[t]
    BY <1>2, <1>5 DEF SocketInv, But, SameQueue
  <2>2. ASSUME NEW h \in Groups
        PROVE  multicast_groups'[h] = {t \in DOMAIN sockets' : h \in sockets'[t].groups}
    <3>1. CASE h = g
      <4>1. multicast_groups[g] = {t \in DOMAIN sockets : g \in sockets[t].groups}
        BY <2>1 DEF IndexesAreExact
      <4>2. g \in sockets'[s].groups <=> m
        BY <1>5
      <4>3. y = {t \in DOMAIN sockets : IF t = s THEN m ELSE g \in sockets[t].groups}
        BY <1>1, <4>1
      <4> QED
        BY <1>7, <2>1, <3>1, <4>2, <4>3
    <3>2. CASE h # g
      BY SMT, <1>7, <2>1, <3>2 DEF IndexesAreExact
    <3> QED
      BY <3>1, <3>2
  <2> QED
    BY SMT, <1>3, <2>1, <2>2 DEF IndexesAreExact
<1>10. NoTwoHoldAnAddress'
  BY <1>3 DEF SocketInv, NoTwoHoldAnAddress
<1> HIDE DEF x, y
<1> QED
  BY <1>1, <1>2, <1>3, <1>5, <1>8, <1>9, <1>10, Named DEF SameQueue

\* bind_inet and bind_unix.
LEMMA bindStep ==
    ASSUME SocketInv, NEW pid \in SockPids, NEW s, NEW a, bind(pid, s, a) PROVE SocketInv' /\ EndsStay
<1>1. s \in DOMAIN sockets /\ RecordFits(s) /\ s \in SocketIds /\ sockets[s].st = "Created"
      /\ a \in Addresses /\ (sockets[s].spec = "udp" => a \in InetAddresses) /\ ~Conflicts(s, a)
      /\ sockets[s].spec \in {"tcp", "unix", "udp"} /\ sockets[s].local = "none"
      /\ (sockets[s].spec = "unix" => a \in UnixPaths)
  <2>1. Owned(s, pid) /\ sockets[s].st = "Created" /\ ~Conflicts(s, a)
        /\ a \in IF sockets[s].spec = "unix" THEN UnixPaths ELSE InetAddresses
    BY DEF bind
  <2>2. s \in DOMAIN sockets /\ RecordFits(s) /\ s \in SocketIds
    BY <2>1, Opened
  <2>3. sockets[s].spec \in Specs /\ sockets[s].local = "none"
    BY <2>1, <2>2 DEF RecordFits, Sane, SockRecords
  <2>4. (sockets[s].spec = "udp" => a \in InetAddresses) /\ (sockets[s].spec = "unix" => a \in UnixPaths)
        /\ a \in Addresses
    BY <2>1 DEF Addresses
  <2> QED
    BY <2>1, <2>2, <2>3, <2>4, SocketAssumption
<1>2. But({s}) /\ sockets'[s] = [sockets[s] EXCEPT !.st = "Bound", !.local = a]
  BY <1>1 DEF bind, But
<1>3. UNCHANGED <<by_owner, multicast_groups, next_socket_id, life, given, historyVars>>
  BY DEF bind
<1>4. /\ Sane(sockets'[s])
      /\ SamePeers(sockets'[s], sockets[s]) /\ SameEnds(sockets'[s], sockets[s])
      /\ SameQueue(sockets'[s], sockets[s]) /\ SameBytes(sockets'[s], sockets[s])
      /\ sockets'[s].groups = sockets[s].groups /\ sockets'[s].spec = sockets[s].spec
      /\ sockets'[s].local = a /\ sockets'[s].st = "Bound"
  <2>1. Sane(sockets[s]) /\ sockets'[s] = AsBound(sockets[s], a)
        /\ (sockets[s].spec # "udp" \/ a \in InetAddresses)
    BY <1>1, <1>2 DEF RecordFits, AsBound
  <2> QED
    BY SMT, <1>1, <2>1, SaneBound
<1>5. /\ DOMAIN sockets' = DOMAIN sockets /\ TablesFit /\ IndexesAreExact /\ NoTwoHoldAnAddress
      /\ \A t \in DOMAIN sockets :
            /\ sockets'[t].owner = sockets[t].owner /\ sockets'[t].spec = sockets[t].spec
            /\ sockets'[t].groups = sockets[t].groups
            /\ t # s => sockets'[t] = sockets[t]
  BY <1>2, <1>4 DEF SocketInv, But, SameQueue
<1>6. \A b \in DOMAIN bound_streams : bound_streams[b] \in DOMAIN sockets \ {s} /\ b # "none"
  BY SMT, <1>1, <1>5, SocketAssumption DEF IndexesAreExact, TablesFit, Addresses
<1>7. /\ \A p \in SockPids : by_owner'[p] = {t \in DOMAIN sockets' : sockets'[t].owner = p}
      /\ \A g \in Groups : multicast_groups'[g] = {t \in DOMAIN sockets' : g \in sockets'[t].groups}
  BY SMT, <1>3, <1>5 DEF IndexesAreExact
<1>8. CASE sockets[s].spec = "udp"
  <2>1. bound_inet_datagrams' = [bound_inet_datagrams EXCEPT ![a] = bound_inet_datagrams[a] \cup {s}]
        /\ bound_streams' = bound_streams
    BY <1>8 DEF bind
  <2>2. bound_inet_datagrams \in [InetAddresses -> SUBSET SocketIds] /\ a \in InetAddresses
    BY <1>1, <1>5, <1>8 DEF TablesFit
  <2>3. bound_inet_datagrams' \in [InetAddresses -> SUBSET SocketIds]
        /\ bound_inet_datagrams'[a] = bound_inet_datagrams[a] \cup {s}
        /\ \A b \in InetAddresses \ {a} : bound_inet_datagrams'[b] = bound_inet_datagrams[b]
    BY <1>1, <2>1, <2>2
  <2>4. TablesFit' /\ NoTwoHoldAnAddress'
    BY <1>3, <1>5, <2>1, <2>3 DEF TablesFit, Ids, NoTwoHoldAnAddress
  <2>5. ASSUME NEW b \in InetAddresses
        PROVE  bound_inet_datagrams'[b]
                  = {t \in DOMAIN sockets' : sockets'[t].spec = "udp" /\ sockets'[t].local = b}
    <3>1. bound_inet_datagrams[b]
             = {t \in DOMAIN sockets : sockets[t].spec = "udp" /\ sockets[t].local = b} /\ b # "none"
      BY <1>5, SocketAssumption DEF IndexesAreExact
    <3> QED
      BY SMT, <1>1, <1>4, <1>5, <1>8, <2>3, <3>1
  <2>6. IndexesAreExact'
    BY SMT, <1>1, <1>4, <1>5, <1>6, <1>7, <1>8, <2>1, <2>5 DEF IndexesAreExact
  <2> QED
    BY <1>1, <1>2, <1>3, <1>4, <2>4, <2>6, Named DEF SameQueue
<1>9. CASE sockets[s].spec # "udp"
  <2>1. bound_streams' = With(bound_streams, a, s) /\ bound_inet_datagrams' = bound_inet_datagrams
    BY <1>9 DEF bind
  <2>2. DOMAIN bound_streams' = DOMAIN bound_streams \cup {a} /\ bound_streams'[a] = s
        /\ \A b \in DOMAIN bound_streams \ {a} : bound_streams'[b] = bound_streams[b]
    BY <2>1 DEF With
  <2>3. \A b \in DOMAIN bound_streams : b # a /\ (sockets[s].spec = "tcp" => ~Overlap(a, b))
    BY <1>1, <1>6, <1>9 DEF Conflicts, Overlap
  <2>4. NoTwoHoldAnAddress'
    <3>1. CASE sockets[s].spec = "tcp"
      BY SMT, <1>5, <2>2, <2>3, <3>1 DEF NoTwoHoldAnAddress, Overlap
    <3>2. CASE sockets[s].spec = "unix"
      BY <1>1, <1>5, <2>2, <3>2, SocketAssumption DEF NoTwoHoldAnAddress
    <3> QED
      BY <1>1, <1>9, <3>1, <3>2
  <2>5. TablesFit'
    BY <1>1, <1>3, <1>5, <2>1, <2>2 DEF TablesFit, Ids
  <2>6. ASSUME NEW b \in InetAddresses
        PROVE  bound_inet_datagrams[b]
                  = {t \in DOMAIN sockets' : sockets'[t].spec = "udp" /\ sockets'[t].local = b}
    BY SMT, <1>5, <1>9 DEF IndexesAreExact
  <2>7. ASSUME NEW b \in DOMAIN bound_streams'
        PROVE  bound_streams'[b] \in DOMAIN sockets' /\ sockets'[bound_streams'[b]].local = b
    BY SMT, <1>1, <1>4, <1>5, <1>6, <2>2 DEF IndexesAreExact
  <2>8. ASSUME NEW t \in DOMAIN sockets', sockets'[t].st \in {"Bound", "Listening"}, sockets'[t].spec # "udp"
        PROVE  sockets'[t].local \in DOMAIN bound_streams' /\ bound_streams'[sockets'[t].local] = t
    BY SMT, <1>1, <1>4, <1>5, <2>2, <2>3, <2>8 DEF IndexesAreExact
  <2>9. IndexesAreExact'
    BY <1>7, <2>1, <2>6, <2>7, <2>8 DEF IndexesAreExact
  <2> QED
    BY <1>1, <1>2, <1>3, <1>4, <2>4, <2>5, <2>9, Named DEF SameQueue
<1> QED
  BY <1>8, <1>9

-----------------------------------------------------------------------------
(* Queues of connections.                                                  *)

\* What Append and Tail do to a queue.
LEMMA Longer ==
    ASSUME NEW S, NEW p \in Seq(S), NEW x \in S, NEW q, q = Append(p, x)
    PROVE  /\ q \in Seq(S) /\ Len(q) = Len(p) + 1
           /\ \A i \in DOMAIN p : i \in DOMAIN q /\ q[i] = p[i]
           /\ \A i \in DOMAIN q : /\ i \in Nat
                                  /\ \/ i \in DOMAIN p /\ q[i] = p[i]
                                     \/ i = Len(p) + 1 /\ q[i] = x
           /\ Len(p) + 1 \in DOMAIN q /\ q[Len(p) + 1] = x
<1>1. /\ q \in Seq(S) /\ Len(q) = Len(p) + 1 /\ Len(p) \in Nat /\ q[Len(p) + 1] = x
      /\ \A i \in 1 .. Len(p) : q[i] = p[i]
  BY SMT
<1>2. DOMAIN p = 1 .. Len(p) /\ DOMAIN q = 1 .. Len(p) + 1
  BY SMT, <1>1
<1>3. \A i \in DOMAIN q : i \in Nat /\ (i \in DOMAIN p \/ i = Len(p) + 1)
  BY SMT, <1>1, <1>2
<1>4. DOMAIN p \subseteq DOMAIN q /\ Len(p) + 1 \in DOMAIN q
  BY SMT, <1>1, <1>2
<1> QED
  BY <1>1, <1>2, <1>3, <1>4
Shortened(p, q) ==
    /\ Len(q) <= Len(p) /\ Head(p) = p[1]
    /\ \A i \in DOMAIN q : i \in Nat /\ i + 1 \in DOMAIN p /\ q[i] = p[i + 1]
    /\ \A i \in DOMAIN p : i = 1 \/ (\E j \in DOMAIN q : q[j] = p[i])
LEMMA Shorter ==
    ASSUME NEW S, NEW p \in Seq(S), p # <<>>, NEW q, q = Tail(p)
    PROVE  q \in Seq(S) /\ Head(p) \in S /\ Shortened(p, q)
<1>1. /\ q \in Seq(S) /\ Len(q) = Len(p) - 1 /\ Len(p) \in Nat \ {0} /\ p[1] \in S /\ Head(p) = p[1]
      /\ \A i \in 1 .. Len(q) : q[i] = p[i + 1]
  BY SMT
<1>2. DOMAIN p = 1 .. Len(p) /\ DOMAIN q = 1 .. Len(q)
  BY SMT, <1>1
<1>3. ASSUME NEW i \in DOMAIN p, i # 1 PROVE i - 1 \in DOMAIN q /\ q[i - 1] = p[i]
  BY SMT, <1>1, <1>2, <1>3
<1>4. \A i \in DOMAIN q : i \in Nat /\ i + 1 \in DOMAIN p /\ q[i] = p[i + 1]
  BY SMT, <1>1, <1>2
<1>5. Len(q) <= Len(p)
  BY SMT, <1>1
<1> QED
  BY <1>1, <1>3, <1>4, <1>5 DEF Shortened

\* Entry i of a queue is an old one, of the queue of l the one d places further on, or is entry n
\* of the queue of l and a new connection.
Moved(l, d, n) ==
    \A k \in DOMAIN sockets' : \A i \in DOMAIN sockets'[k].pending :
        sockets'[k].pending[i] # NoPeer =>
           /\ i \in Nat /\ k \in DOMAIN sockets
           /\ \/ /\ (IF k = l THEN i + d ELSE i) \in DOMAIN sockets[k].pending
                 /\ sockets'[k].pending[i] = sockets[k].pending[IF k = l THEN i + d ELSE i]
              \/ /\ k = l /\ i = n /\ sockets'[k].pending[i] \in Added
                 /\ sockets'[sockets'[k].pending[i]].st = "Connected"
                 /\ sockets'[sockets'[k].pending[i]].owner = sockets'[k].owner
Remain ==
    \A t \in DOMAIN sockets : /\ sockets'[t].owner = sockets[t].owner
                              /\ sockets[t].st = "Connected" => sockets'[t].st = "Connected"

\* A queue may lose its first entries or get a new socket at the end.
LEMMA QueuesMove ==
    ASSUME Queues, Grows, NEW l, NEW d \in Nat, NEW n, Remain, Moved(l, d, n)
    PROVE  QueuedFit' /\ QueuedOnce'
<1>1. /\ DOMAIN sockets' = DOMAIN sockets \cup Added /\ Ids \subseteq Ids' /\ DOMAIN sockets' \subseteq Ids'
      /\ \A x \in Ids : x \in DOMAIN sockets' => x \in DOMAIN sockets
      /\ \A x \in Added : x \notin Ids
  BY IdsGrow
<1>2. \A k \in DOMAIN sockets : \A i \in DOMAIN sockets[k].pending :
          sockets[k].pending[i] # NoPeer =>
             /\ sockets[k].pending[i] \in Ids
             /\ sockets[k].pending[i] \in DOMAIN sockets =>
                   /\ sockets[sockets[k].pending[i]].st = "Connected"
                   /\ sockets[sockets[k].pending[i]].owner = sockets[k].owner
  BY DEF Queues, QueuedFit
<1>3. ASSUME NEW k \in DOMAIN sockets', NEW i \in DOMAIN sockets'[k].pending,
             NEW x, x = sockets'[k].pending[i], x # NoPeer
      PROVE  /\ k \in DOMAIN sockets /\ i \in Nat
             /\ x \in Added =>
                   k = l /\ i = n /\ sockets'[x].st = "Connected" /\ sockets'[x].owner = sockets'[k].owner
             /\ x \notin Added =>
                   /\ (IF k = l THEN i + d ELSE i) \in DOMAIN sockets[k].pending
                   /\ x = sockets[k].pending[IF k = l THEN i + d ELSE i]
  <2>1. \A j \in DOMAIN sockets[k].pending : k \in DOMAIN sockets /\ sockets[k].pending[j] = x => x \notin Added
    BY <1>1, <1>2, <1>3
  <2> QED
    BY <1>3, <2>1 DEF Moved
<1>4. QueuedFit'
  <2> SUFFICES ASSUME NEW k \in DOMAIN sockets', NEW i \in DOMAIN sockets'[k].pending,
                      NEW x, x = sockets'[k].pending[i], x # NoPeer
               PROVE  /\ x \in Ids'
                      /\ x \in DOMAIN sockets' =>
                            sockets'[x].st = "Connected" /\ sockets'[x].owner = sockets'[k].owner
    BY SMT DEF QueuedFit
  <2>1. CASE x \in Added
    BY SMT, <1>1, <1>3, <2>1
  <2>2. CASE x \notin Added
    <3>1. k \in DOMAIN sockets /\ x \in Ids /\ (x \in DOMAIN sockets =>
                sockets[x].st = "Connected" /\ sockets[x].owner = sockets[k].owner)
      BY SMT, <1>2, <1>3, <2>2
    <3> QED
      BY <1>1, <3>1 DEF Remain
  <2> QED
    BY <2>1, <2>2
<1>5. QueuedOnce'
  <2>0. SUFFICES ASSUME NEW k \in DOMAIN sockets', NEW m \in DOMAIN sockets',
                      NEW i \in DOMAIN sockets'[k].pending, NEW j \in DOMAIN sockets'[m].pending,
                      NEW x, x = sockets'[k].pending[i], x = sockets'[m].pending[j], x # NoPeer
               PROVE  k = m /\ i = j
    BY SMT DEF QueuedOnce
  <2>1. CASE x \in Added
    <3>1. k = l /\ i = n
      BY ONLY <1>3, <2>0, <2>1
    <3>2. m = l /\ j = n
      BY ONLY <1>3, <2>0, <2>1
    <3> QED
      BY <3>1, <3>2
  <2>2. CASE x \notin Added
    <3> DEFINE a == IF k = l THEN i + d ELSE i
               b == IF m = l THEN j + d ELSE j
    <3>1. i \in Nat /\ j \in Nat /\ k \in DOMAIN sockets /\ m \in DOMAIN sockets
          /\ a \in DOMAIN sockets[k].pending /\ b \in DOMAIN sockets[m].pending
          /\ x = sockets[k].pending[a] /\ x = sockets[m].pending[b]
      BY ZenonT(30), <1>3, <2>0, <2>2
    <3>2. k = m /\ a = b
      <4> HIDE DEF a, b
      <4>1. sockets[k].pending[a] = sockets[m].pending[b] /\ sockets[k].pending[a] # NoPeer
        BY <2>0, <3>1
      <4>2. QueuedOnce
        BY DEF Queues
      <4> QED
        BY ONLY <3>1, <4>1, <4>2 DEF QueuedOnce
    <3> QED
      BY SMT, <3>1, <3>2
  <2> QED
    BY <2>1, <2>2
<1> QED
  BY <1>4, <1>5

\* A call that only changes a queue, or who was told of a socket.
LEMMA Requeued ==
    ASSUME SocketInv, UNCHANGED <<by_owner, sockTables, next_socket_id, life, historyVars>>,
           given \subseteq given', NEW s \in DOMAIN sockets, But({s}), Sane(sockets'[s]),
           SamePeers(sockets'[s], sockets[s]), SameEnds(sockets'[s], sockets[s]),
           SameNames(sockets'[s], sockets[s]), SameBytes(sockets'[s], sockets[s]), Queues'
    PROVE  SocketInv' /\ EndsStay
<1>1. Grows /\ Added = {} /\ DOMAIN sockets' = DOMAIN sockets
  BY SameGrows DEF SocketInv, But
<1>2. ASSUME NEW t \in DOMAIN sockets
      PROVE  /\ SamePeers(sockets'[t], sockets[t]) /\ SameEnds(sockets'[t], sockets[t])
             /\ SameNames(sockets'[t], sockets[t]) /\ SameBytes(sockets'[t], sockets[t])
  BY DEF But, SamePeers, SameEnds, SameNames, SameBytes
<1>3. UNCHANGED <<sawEof, readBy, sentTo, life, sockTables, by_owner>>
  BY DEF historyVars
<1>4. WithinBounds' /\ Connections' = Connections
  BY <1>1, <1>2, BoundsKept DEF SocketInv, SamePeers
<1>5. PeersAreMutual'
  BY <1>1, <1>2, <1>3, PeersKept DEF SocketInv
<1>6. EndsFit' /\ EndsStay
  BY <1>1, <1>2, <1>3, EndsKept DEF SocketInv
<1>7. IndexesAreExact'
  BY <1>1, <1>2, <1>3, NamesKept DEF SocketInv
<1>8. BytesFit'
  BY <1>1, <1>2, <1>3, BytesKept DEF SocketInv
<1>9. RecordsFit'
  <2>1. RecordFits(s)'
    BY <1>2, <1>3 DEF SocketInv, RecordsFit, RecordFits, SamePeers, SameNames
  <2> QED
    BY <1>1, <1>3, <2>1, RecordsKept DEF SocketInv, But
<1>10. TablesFit' /\ NoTwoHoldAnAddress'
  BY <1>1, <1>3 DEF SocketInv, TablesFit, NoTwoHoldAnAddress, sockTables, Ids
<1> QED
  BY <1>4, <1>5, <1>6, <1>7, <1>8, <1>9, <1>10 DEF SocketInv

\* The positions of a queue are numbers.
LEMMA Positions ==
    ASSUME RecordsFit, NEW k \in DOMAIN sockets
    PROVE  sockets[k].pending \in Seq(SocketIds \cup {NoPeer}) /\ \A i \in DOMAIN sockets[k].pending : i \in Nat
<1>1. sockets[k].pending \in Seq(SocketIds \cup {NoPeer})
  BY DEF RecordsFit, RecordFits, Sane, SockRecords
<1>2. \A i \in DOMAIN sockets[k].pending : i \in Nat
  BY SMT, <1>1
<1> QED
  BY <1>1, <1>2

\* A connection is put at the end of a listener's queue.
LEMMA QueueLonger ==
    ASSUME RecordsFit, Queues, Grows, NEW l \in DOMAIN sockets, NEW x \in SocketIds \cup {NoPeer},
           sockets'[l].pending = Append(sockets[l].pending, x),
           x # NoPeer => x \in Added /\ sockets'[x].st = "Connected" /\ sockets'[x].owner = sockets'[l].owner,
           \A t \in DOMAIN sockets : /\ sockets'[t].owner = sockets[t].owner
                                     /\ sockets[t].st = "Connected" => sockets'[t].st = "Connected"
                                     /\ t # l => sockets'[t].pending = sockets[t].pending,
           \A t \in Added : sockets'[t].pending = <<>>
    PROVE  /\ QueuedFit' /\ QueuedOnce' /\ x \in PendingAt(l)'
           /\ \A k \in DOMAIN sockets : PendingAt(k) \subseteq PendingAt(k)'
<1> DEFINE p == sockets[l].pending
           q == sockets'[l].pending
<1>1. p \in Seq(SocketIds \cup {NoPeer}) /\ q = Append(p, x)
  BY Positions
<1>2. /\ \A i \in DOMAIN p : i \in DOMAIN q /\ q[i] = p[i]
      /\ \A i \in DOMAIN q : /\ i \in Nat
                             /\ \/ i \in DOMAIN p /\ q[i] = p[i]
                                \/ i = Len(p) + 1 /\ q[i] = x
      /\ Len(p) + 1 \in DOMAIN q /\ q[Len(p) + 1] = x
  <2> HIDE DEF p, q
  <2> QED
    BY ONLY <1>1, Longer
<1>3. ASSUME NEW k \in DOMAIN sockets', NEW i \in DOMAIN sockets'[k].pending, sockets'[k].pending[i] # NoPeer
      PROVE  /\ i \in Nat /\ k \in DOMAIN sockets
             /\ \/ /\ (IF k = l THEN i + 0 ELSE i) \in DOMAIN sockets[k].pending
                   /\ sockets'[k].pending[i] = sockets[k].pending[IF k = l THEN i + 0 ELSE i]
                \/ /\ k = l /\ i = Len(p) + 1 /\ sockets'[k].pending[i] \in Added
                   /\ sockets'[sockets'[k].pending[i]].st = "Connected"
                   /\ sockets'[sockets'[k].pending[i]].owner = sockets'[k].owner
  <2>1. k \in DOMAIN sockets
    <3>1. DOMAIN <<>> = {}
      BY SMT
    <3> QED
      BY <3>1, IdsGrow
  <2>2. CASE k = l
    <3>1. i \in Nat /\ i + 0 = i
      BY SMT, <1>2, <2>2
    <3> QED
      BY <1>2, <1>3, <2>1, <2>2, <3>1
  <2>3. CASE k # l
    BY <2>1, <2>3, Positions
  <2> QED
    BY <2>2, <2>3
<1>4. QueuedFit' /\ QueuedOnce'
  <2>1. 0 \in Nat
    BY SMT
  <2>2. Moved(l, 0, Len(p) + 1)
    BY <1>3 DEF Moved
  <2>3. Remain
    BY DEF Remain
  <2> QED
    BY <2>1, <2>2, <2>3, QueuesMove
<1>5. x \in PendingAt(l)'
  BY <1>2 DEF PendingAt
<1>6. ASSUME NEW k \in DOMAIN sockets PROVE PendingAt(k) \subseteq PendingAt(k)'
  <2>1. CASE k = l
    BY SMT, <1>2, <2>1 DEF PendingAt
  <2>2. CASE k # l
    BY <2>2 DEF PendingAt
  <2> QED
    BY <2>1, <2>2
<1> QED
  BY <1>4, <1>5, <1>6

\* The first connection is taken from a listener's queue.
LEMMA QueueShorter ==
    ASSUME RecordsFit, Queues, Grows, NEW l \in DOMAIN sockets, sockets[l].pending # <<>>,
           sockets'[l].pending = Tail(sockets[l].pending),
           \A t \in DOMAIN sockets : /\ sockets'[t].owner = sockets[t].owner
                                     /\ sockets[t].st = "Connected" => sockets'[t].st = "Connected"
                                     /\ t # l => sockets'[t].pending = sockets[t].pending,
           \A t \in Added : sockets'[t].pending = <<>>
    PROVE  /\ QueuedFit' /\ QueuedOnce'
           /\ \A k \in DOMAIN sockets : PendingAt(k) \subseteq PendingAt(k)' \cup {Head(sockets[l].pending)}
<1> DEFINE p == sockets[l].pending
           q == sockets'[l].pending
<1>1. p \in Seq(SocketIds \cup {NoPeer}) /\ q = Tail(p) /\ p # <<>>
  BY Positions
<1>2. /\ \A i \in DOMAIN q : i \in Nat /\ i + 1 \in DOMAIN p /\ q[i] = p[i + 1]
      /\ \A i \in DOMAIN p : i = 1 \/ (\E j \in DOMAIN q : q[j] = p[i])
      /\ Head(p) = p[1]
  <2> HIDE DEF p, q
  <2>1. Shortened(p, q)
    BY ONLY <1>1, Shorter
  <2> QED
    BY <2>1 DEF Shortened
<1>3. ASSUME NEW k \in DOMAIN sockets', NEW i \in DOMAIN sockets'[k].pending
      PROVE  /\ i \in Nat /\ k \in DOMAIN sockets
             /\ (IF k = l THEN i + 1 ELSE i) \in DOMAIN sockets[k].pending
             /\ sockets'[k].pending[i] = sockets[k].pending[IF k = l THEN i + 1 ELSE i]
  <2>1. k \in DOMAIN sockets
    <3>1. DOMAIN <<>> = {}
      BY SMT
    <3> QED
      BY <3>1, IdsGrow
  <2>2. CASE k = l
    BY <1>2, <2>1, <2>2
  <2>3. CASE k # l
    BY <2>1, <2>3, Positions
  <2> QED
    BY <2>2, <2>3
<1>4. QueuedFit' /\ QueuedOnce'
  <2>1. 1 \in Nat
    BY SMT
  <2>2. Moved(l, 1, 0)
    BY <1>3 DEF Moved
  <2>3. Remain
    BY DEF Remain
  <2> QED
    BY <2>1, <2>2, <2>3, QueuesMove
<1>5. ASSUME NEW k \in DOMAIN sockets PROVE PendingAt(k) \subseteq PendingAt(k)' \cup {Head(sockets[l].pending)}
  <2>1. CASE k = l
    <3>1. ASSUME NEW i \in DOMAIN p PROVE p[i] \in PendingAt(l)' \/ p[i] = Head(p)
      BY <1>2 DEF PendingAt
    <3>2. PendingAt(l) = {p[i] : i \in DOMAIN p}
      BY DEF PendingAt
    <3> QED
      BY <2>1, <3>1, <3>2
  <2>2. CASE k # l
    BY SMT, <2>2 DEF PendingAt
  <2> QED
    BY <2>1, <2>2
<1> QED
  BY <1>4, <1>5

\* enqueue_incoming_tcp_connection.
LEMMA enqueueStep ==
    ASSUME SocketInv, NEW pid \in SockPids, NEW l, enqueue_incoming_tcp_connection(pid, l) PROVE SocketInv' /\ EndsStay
<1> DEFINE p == sockets[l].pending
           x == Append(p, NoPeer)
<1>1. l \in DOMAIN sockets /\ Sane(sockets[l]) /\ sockets[l].st = "Listening" /\ Len(p) < sockets[l].backlog
  BY Opened DEF enqueue_incoming_tcp_connection, HasRoom, RecordFits
<1>2. But({l}) /\ sockets'[l] = [sockets[l] EXCEPT !.pending = x]
  BY <1>1 DEF enqueue_incoming_tcp_connection, But
<1>3. UNCHANGED <<by_owner, sockTables, next_socket_id, life, given, historyVars>>
  BY DEF enqueue_incoming_tcp_connection
<1>4. p \in Seq(SocketIds \cup {NoPeer}) /\ sockets[l].backlog \in Nat
  BY <1>1 DEF Sane, SockRecords
<1>5. x \in Seq(SocketIds \cup {NoPeer}) /\ Len(x) <= sockets[l].backlog
  BY SMT, <1>1, <1>4
<1>6. /\ Sane(sockets'[l]) /\ SamePeers(sockets'[l], sockets[l]) /\ SameEnds(sockets'[l], sockets[l])
      /\ SameNames(sockets'[l], sockets[l]) /\ SameBytes(sockets'[l], sockets[l])
      /\ sockets'[l].pending = x /\ sockets'[l].st = sockets[l].st
  <2> HIDE DEF x
  <2> QED
    BY SMT, <1>1, <1>2, <1>5, SanePending
<1>7. Grows /\ Added = {} /\ DOMAIN sockets' = DOMAIN sockets
  BY <1>2, <1>3, SameGrows DEF SocketInv, But
<1>8. \A t \in DOMAIN sockets : /\ sockets'[t].owner = sockets[t].owner /\ sockets'[t].st = sockets[t].st
                                /\ t # l => sockets'[t] = sockets[t]
  BY <1>2, <1>6 DEF But, SameNames
<1>9. QueuedFit' /\ QueuedOnce' /\ \A k \in DOMAIN sockets : PendingAt(k) \subseteq PendingAt(k)'
  <2>1. NoPeer \in SocketIds \cup {NoPeer}
    OBVIOUS
  <2> QED
    BY <1>1, <1>6, <1>7, <1>8, <2>1, QueueLonger DEF SocketInv
<1>10. NoneIsForgotten'
  <2>1. Connections' = Connections /\ given' = given
    BY SMT, <1>3, <1>7, <1>8 DEF Connections
  <2> QED
    BY <1>7, <1>9, <2>1 DEF SocketInv, Queues, NoneIsForgotten
<1> QED
  BY <1>1, <1>2, <1>3, <1>6, <1>9, <1>10, Requeued DEF Queues

-----------------------------------------------------------------------------
(* Steps that add a socket.                                                *)

\* The sizes of sets of sockets.
SizesFit ==
    /\ \A S \in SUBSET SocketIds : Cardinality(S) \in Nat
    /\ \A S \in SUBSET SocketIds : \A x \in SocketIds : Cardinality(S \cup {x}) <= Cardinality(S) + 1
    /\ \A S \in SUBSET SocketIds : \A T \in SUBSET S : Cardinality(T) <= Cardinality(S)

Joins(p) ==
    /\ DOMAIN sockets' = DOMAIN sockets \cup {next_socket_id} /\ next_socket_id \in SocketIds
    /\ next_socket_id' = next_socket_id + 1
    /\ by_owner' = [by_owner EXCEPT ![p] = by_owner[p] \cup {next_socket_id}]
    /\ UNCHANGED <<sockTables, life, historyVars>>

\* The new identifier, and the indexes that are not names.
LEMMA NewGrows ==
    ASSUME TablesFit, NEW p \in SockPids, Joins(p)
    PROVE  /\ Grows /\ Added = {next_socket_id} /\ TablesFit'
           /\ next_socket_id \notin DOMAIN sockets /\ next_socket_id \notin Ids
           /\ \A q \in SockPids : by_owner'[q] = by_owner[q] \cup {t \in Added : p = q}
<1>1. next_socket_id \in Nat /\ next_socket_id \notin Ids
  BY SMT, SocketAssumption DEF TablesFit, Ids
<1>2. Grows /\ Added = {next_socket_id} /\ next_socket_id \notin DOMAIN sockets
  BY <1>1 DEF Joins, Grows, Added, TablesFit
<1>3. by_owner \in [SockPids -> SUBSET SocketIds] /\ next_socket_id \in SocketIds
      /\ by_owner' = [by_owner EXCEPT ![p] = by_owner[p] \cup {next_socket_id}]
  BY DEF TablesFit, Joins
<1>4. by_owner' \in [SockPids -> SUBSET SocketIds]
      /\ by_owner'[p] = by_owner[p] \cup {next_socket_id}
      /\ \A q \in SockPids \ {p} : by_owner'[q] = by_owner[q]
  BY <1>3
<1>5. \A q \in SockPids : by_owner'[q] = by_owner[q] \cup {t \in Added : p = q}
  BY <1>2, <1>4
<1>6. DOMAIN sockets' \subseteq Ids'
  BY <1>2, IdsGrow
<1>7. next_socket_id' \in 1 .. MaxSocketIds + 1
  BY SMT, SocketAssumption DEF Joins, SocketIds
<1>8. TablesFit'
  BY <1>4, <1>6, <1>7 DEF TablesFit, Joins, sockTables
<1> QED
  BY <1>1, <1>2, <1>5, <1>8

\* socket_create, and accept of a connection from outside: the new socket has no peer, and a
\* process is told of it.
LEMMA Arrives ==
    ASSUME SocketInv, SizesFit, NEW p \in SockPids, Joins(p), given' = given \cup {next_socket_id},
           WithinLimits(1, IF sockets'[next_socket_id].st = "Connected" THEN 1 ELSE 0),
           Sane(sockets'[next_socket_id]), life[p] # "waited",
           sockets'[next_socket_id].owner = p, sockets'[next_socket_id].peer = NoPeer,
           sockets'[next_socket_id].buf = <<>>, sockets'[next_socket_id].groups = {},
           sockets'[next_socket_id].st \notin {"Bound", "Listening"},
           \A t \in DOMAIN sockets :
               /\ Sane(sockets'[t]) /\ SamePeers(sockets'[t], sockets[t])
               /\ SameEnds(sockets'[t], sockets[t]) /\ SameNames(sockets'[t], sockets[t])
               /\ SameBytes(sockets'[t], sockets[t]),
           Queues'
    PROVE  SocketInv' /\ EndsStay
<1> DEFINE new == next_socket_id
<1>1. /\ Grows /\ Added = {new} /\ TablesFit' /\ new \notin DOMAIN sockets
      /\ DOMAIN sockets' = DOMAIN sockets \cup {new} /\ new \in SocketIds
      /\ \A q \in SockPids : by_owner'[q] = by_owner[q] \cup {t \in Added : p = q}
  BY NewGrows DEF SocketInv, Joins
<1>2. UNCHANGED <<sawEof, readBy, sentTo, life, sockTables>>
  BY DEF historyVars, Joins
<1>3. PeersAreMutual'
  BY <1>1, PeersKept DEF SocketInv
<1>4. EndsFit' /\ EndsStay
  BY <1>1, <1>2, EndsKept DEF SocketInv
<1>5. BytesFit'
  BY <1>1, <1>2, BytesKept DEF SocketInv
<1>6. IndexesAreExact'
  <2>1. sockets'[new].spec = "udp" => sockets'[new].local \notin InetAddresses
    BY SocketAssumption DEF Sane
  <2>2. \A q \in SockPids : by_owner'[q] = by_owner[q] \cup {t \in Added : sockets'[t].owner = q}
    BY <1>1
  <2> QED
    BY <1>1, <1>2, <2>1, <2>2, NamesKept DEF SocketInv
<1>7. RecordsFit'
  <2> SUFFICES ASSUME NEW t \in DOMAIN sockets' PROVE RecordFits(t)'
    BY DEF RecordsFit
  <2>1. CASE t = new
    <3>1. t # NoPeer
      BY SMT, <1>1, <2>1 DEF SocketIds, NoPeer
    <3> QED
      BY <1>2, <2>1, <3>1 DEF RecordFits
  <2>2. CASE t \in DOMAIN sockets
    BY <1>2, <2>2 DEF SocketInv, RecordsFit, RecordFits, SamePeers, SameNames
  <2> QED
    BY <1>1, <2>1, <2>2
<1>8. WithinBounds'
  <2>1. DOMAIN sockets \in SUBSET SocketIds /\ Connections \in SUBSET SocketIds
    BY DEF SocketInv, TablesFit, Ids, Connections
  <2>2. Cardinality(DOMAIN sockets') <= max_sockets
    <3>1. Cardinality(DOMAIN sockets') <= Cardinality(DOMAIN sockets) + 1 /\ Cardinality(DOMAIN sockets) \in Nat
      BY <1>1, <2>1 DEF SizesFit
    <3>2. Cardinality(DOMAIN sockets') \in Nat
      <4>1. DOMAIN sockets' \in SUBSET SocketIds
        BY <1>1, <2>1
      <4> QED
        BY <4>1 DEF SizesFit
    <3>3. Cardinality(DOMAIN sockets) < max_sockets
      BY SMT DEF WithinLimits
    <3> QED
      BY SMT, <3>1, <3>2, <3>3, SocketAssumption
  <2>3. CASE sockets'[new].st = "Connected"
    <3>1. Connections' = Connections \cup {new}
      BY SMT, <1>1, <2>3 DEF Connections, SamePeers
    <3>2. Cardinality(Connections') <= Cardinality(Connections) + 1 /\ Cardinality(Connections) \in Nat
          /\ Cardinality(Connections') \in Nat
      <4>1. Connections' \in SUBSET SocketIds
        BY <1>1, <2>1, <3>1
      <4> QED
        BY <1>1, <2>1, <3>1, <4>1 DEF SizesFit
    <3>3. Cardinality(Connections) + 1 <= max_connections
      BY SMT, <2>3 DEF WithinLimits
    <3> QED
      BY SMT, <2>2, <3>2, <3>3, SocketAssumption DEF WithinBounds
  <2>4. CASE sockets'[new].st # "Connected"
    <3>1. Connections' = Connections
      BY SMT, <1>1, <2>4 DEF Connections, SamePeers
    <3> QED
      BY <2>2, <3>1 DEF WithinBounds, SocketInv
  <2> QED
    BY <2>3, <2>4
<1>9. NoTwoHoldAnAddress'
  BY <1>2 DEF SocketInv, NoTwoHoldAnAddress, sockTables
<1> QED
  BY <1>1, <1>3, <1>4, <1>5, <1>6, <1>7, <1>8, <1>9 DEF SocketInv

\* socket_create.
LEMMA socket_createStep ==
    ASSUME SocketInv, SizesFit, NEW pid \in SockPids, NEW spec \in Specs, socket_create(pid, spec)
    PROVE  SocketInv' /\ EndsStay
<1> DEFINE new == next_socket_id
           r == Record(pid, spec, "Created", "none", NoPeer)
<1>1. sockets' = With(sockets, new, r) /\ given' = given \cup {new} /\ WithinLimits(1, 0)
      /\ life[pid] # "waited" /\ new \in SocketIds
  BY DEF socket_create, Drives
<1>2. DOMAIN sockets' = DOMAIN sockets \cup {new}
  BY <1>1 DEF With
<1>3. Joins(pid)
  BY <1>2 DEF Joins, socket_create
<1>4. Grows /\ Added = {new} /\ new \notin DOMAIN sockets
  BY <1>3, NewGrows DEF SocketInv
<1>5. sockets'[new] = r /\ \A t \in DOMAIN sockets : sockets'[t] = sockets[t]
  BY <1>1, <1>4 DEF With
<1>6. Sane(r)
  BY SaneNew
<1>7. /\ r.owner = pid /\ r.peer = NoPeer /\ r.buf = <<>> /\ r.groups = {} /\ r.st = "Created"
      /\ r.pending = <<>>
  BY DEF Record
<1>8. \A t \in DOMAIN sockets :
          /\ Sane(sockets'[t]) /\ SamePeers(sockets'[t], sockets[t])
          /\ SameEnds(sockets'[t], sockets[t]) /\ SameNames(sockets'[t], sockets[t])
          /\ SameBytes(sockets'[t], sockets[t]) /\ SameQueue(sockets'[t], sockets[t])
  BY <1>5 DEF SocketInv, RecordsFit, RecordFits, SamePeers, SameEnds, SameNames, SameBytes, SameQueue
<1>9. Queues'
  <2>1. Connections' \ given' \subseteq Connections \ given
    BY <1>1, <1>2, <1>5, <1>7 DEF Connections
  <2> QED
    BY <1>4, <1>5, <1>7, <1>8, <2>1, QueuesKept DEF SocketInv
<1> HIDE DEF r
<1> QED
  BY <1>1, <1>3, <1>5, <1>6, <1>7, <1>8, <1>9, Arrives

\* accept.
LEMMA acceptStep ==
    ASSUME SocketInv, SizesFit, NEW pid \in SockPids, NEW l, accept(pid, l) PROVE SocketInv' /\ EndsStay
<1> DEFINE p == sockets[l].pending
           x == Tail(p)
           first == Head(p)
           rest == [sockets EXCEPT ![l].pending = x]
           new == next_socket_id
           r == Record(pid, sockets[l].spec, "Connected", sockets[l].local, NoPeer)
<1>1. l \in DOMAIN sockets /\ Sane(sockets[l]) /\ sockets[l].st = "Listening" /\ p # <<>>
      /\ life[pid] # "waited" /\ sockets[l].owner = pid /\ WithinLimits(1, 1)
      /\ UNCHANGED <<sockTables, life, historyVars>>
  BY Opened DEF accept, RecordFits
<1>2. p \in Seq(SocketIds \cup {NoPeer}) /\ sockets[l].backlog \in Nat /\ Len(p) <= sockets[l].backlog
      /\ sockets[l].spec \in Specs /\ sockets[l].local \in Addresses /\ sockets[l].spec # "udp"
  BY <1>1 DEF Sane, SockRecords
<1>3. x \in Seq(SocketIds \cup {NoPeer}) /\ Len(x) <= sockets[l].backlog
  BY SMT, <1>1, <1>2
<1>4. DOMAIN rest = DOMAIN sockets /\ rest[l] = [sockets[l] EXCEPT !.pending = x]
      /\ \A t \in DOMAIN sockets \ {l} : rest[t] = sockets[t]
  BY <1>1
<1>5. /\ Sane(rest[l]) /\ SamePeers(rest[l], sockets[l]) /\ SameEnds(rest[l], sockets[l])
      /\ SameNames(rest[l], sockets[l]) /\ SameBytes(rest[l], sockets[l])
      /\ rest[l].pending = x /\ rest[l].st = sockets[l].st
  <2> HIDE DEF x, rest
  <2> QED
    BY SMT, <1>1, <1>3, <1>4, SanePending
<1>6. ASSUME NEW t \in DOMAIN sockets
      PROVE  /\ Sane(rest[t]) /\ SamePeers(rest[t], sockets[t]) /\ SameEnds(rest[t], sockets[t])
             /\ SameNames(rest[t], sockets[t]) /\ SameBytes(rest[t], sockets[t])
             /\ rest[t].owner = sockets[t].owner /\ rest[t].st = sockets[t].st
             /\ t # l => rest[t].pending = sockets[t].pending
  <2> HIDE DEF rest
  <2>1. CASE t = l
    BY <1>5, <2>1 DEF SameNames
  <2>2. CASE t # l
    BY <1>4, <2>2 DEF SocketInv, RecordsFit, RecordFits, SamePeers, SameEnds, SameNames, SameBytes
  <2> QED
    BY <2>1, <2>2
<1>7. CASE first # NoPeer
  <2>1. sockets' = rest /\ given' = given \cup ({first} \cap DOMAIN sockets)
        /\ UNCHANGED <<by_owner, next_socket_id>>
    BY <1>7 DEF accept
  <2> HIDE DEF rest
  <2>2. But({l}) /\ DOMAIN sockets' = DOMAIN sockets
    BY <1>4, <2>1 DEF But
  <2>3. Grows /\ Added = {}
    BY <2>1, <2>2, SameGrows DEF SocketInv
  <2>4. QueuedFit' /\ QueuedOnce' /\ \A k \in DOMAIN sockets : PendingAt(k) \subseteq PendingAt(k)' \cup {first}
    BY <1>1, <1>5, <1>6, <2>1, <2>3, QueueShorter DEF SocketInv
  <2>5. NoneIsForgotten'
    <3>1. Connections' = Connections
      BY SMT, <1>6, <2>1, <2>2 DEF Connections
    <3>2. \A s \in Connections' \ given' : s \in Connections \ given /\ s # first
      BY <2>1, <3>1 DEF Connections
    <3> QED
      BY <2>2, <2>4, <3>2 DEF SocketInv, Queues, NoneIsForgotten
  <2> QED
    BY <1>1, <1>5, <2>1, <2>2, <2>4, <2>5, Requeued DEF Queues
<1>8. CASE first = NoPeer
  <2>1. sockets' = With(rest, new, r) /\ given' = given \cup {new} /\ new \in SocketIds
        /\ next_socket_id' = new + 1 /\ by_owner' = [by_owner EXCEPT ![pid] = by_owner[pid] \cup {new}]
    BY <1>8 DEF accept
  <2> HIDE DEF rest
  <2>2. DOMAIN sockets' = DOMAIN sockets \cup {new}
    BY <1>4, <2>1 DEF With
  <2>3. Joins(pid)
    BY <1>1, <2>1, <2>2 DEF Joins
  <2>4. Grows /\ Added = {new} /\ new \notin DOMAIN sockets
    BY <2>3, NewGrows DEF SocketInv
  <2>5. sockets'[new] = r /\ \A t \in DOMAIN sockets : sockets'[t] = rest[t]
    BY <1>4, <2>1, <2>4 DEF With
  <2>6. Sane(r)
    BY <1>2, SaneNew
  <2>7. /\ r.owner = pid /\ r.peer = NoPeer /\ r.buf = <<>> /\ r.groups = {} /\ r.st = "Connected"
        /\ r.pending = <<>>
    BY DEF Record
  <2>8. QueuedFit' /\ QueuedOnce' /\ \A k \in DOMAIN sockets : PendingAt(k) \subseteq PendingAt(k)' \cup {first}
    <3>1. /\ sockets'[l].pending = Tail(sockets[l].pending) /\ \A t \in Added : sockets'[t].pending = <<>>
          /\ RecordsFit /\ Queues /\ sockets[l].pending # <<>>
      BY <1>1, <1>5, <2>4, <2>5, <2>7 DEF SocketInv
    <3>2. \A t \in DOMAIN sockets : /\ sockets'[t].owner = sockets[t].owner
                                    /\ sockets[t].st = "Connected" => sockets'[t].st = "Connected"
                                    /\ t # l => sockets'[t].pending = sockets[t].pending
      BY <1>6, <2>5
    <3> QED
      BY <1>1, <2>4, <3>1, <3>2, QueueShorter
  <2>9. NoneIsForgotten'
    <3>1. \A s \in Connections' \ given' : s \in Connections \ given
      BY <1>6, <2>1, <2>2, <2>5 DEF Connections
    <3>2. first \notin DOMAIN sockets
      <4>1. 0 \notin SocketIds
        BY SMT DEF SocketIds
      <4> QED
        BY <1>8, <4>1 DEF SocketInv, TablesFit, Ids, NoPeer
    <3>3. \A s \in Connections' \ given' : s # first
      BY <3>1, <3>2 DEF Connections
    <3> QED
      BY SMT, <2>2, <2>8, <3>1, <3>3 DEF SocketInv, Queues, NoneIsForgotten
  <2> HIDE DEF r
  <2>10. WithinLimits(1, IF sockets'[new].st = "Connected" THEN 1 ELSE 0)
    BY <1>1, <2>5, <2>7
  <2> QED
    BY <1>1, <1>6, <2>1, <2>3, <2>5, <2>6, <2>7, <2>8, <2>9, <2>10, Arrives DEF Queues
<1> QED
  BY <1>7, <1>8

-----------------------------------------------------------------------------
(* Steps that make a connection.                                           *)

End(s, t) ==
    /\ s \in DOMAIN sockets' /\ sockets'[s].st = "Connected" /\ sockets'[s].peer = t
    /\ sockets'[s].wrShut = FALSE /\ sockets'[s].peerWrShut = FALSE

\* Two sockets that were no connections, or no sockets, become the ends of one.
LEMMA Paired ==
    ASSUME PeersAreMutual, WithinBounds, SizesFit, Grows, given \subseteq given',
           NEW s \in SocketIds, NEW t \in SocketIds,
           s \notin Connections, t \notin Connections, End(s, t), End(t, s), Added \subseteq {s, t},
           \A k \in DOMAIN sockets \ {s, t} : SamePeers(sockets'[k], sockets[k]),
           Cardinality(Connections) + 2 <= max_connections, Cardinality(DOMAIN sockets') <= max_sockets
    PROVE  PeersAreMutual' /\ WithinBounds' /\ Connections' = Connections \cup {s, t}
<1>1. DOMAIN sockets' = DOMAIN sockets \cup Added
  BY IdsGrow
<1>2. Connections' = Connections \cup {s, t}
  BY SMT, <1>1 DEF SamePeers, Connections, End
<1>3. ASSUME NEW k \in Connections
      PROVE  IF sockets'[k].peer = NoPeer
             THEN sockets'[k].peerWrShut \/ k \in given'
             ELSE /\ sockets'[k].peer \in Connections'
                  /\ sockets'[sockets'[k].peer].peer = k
                  /\ sockets'[k].peerWrShut = sockets'[sockets'[k].peer].wrShut
  <2>1. SamePeers(sockets'[k], sockets[k])
    BY DEF Connections
  <2>2. CASE sockets[k].peer = NoPeer
    BY <2>1, <2>2 DEF PeersAreMutual, SamePeers
  <2>3. CASE sockets[k].peer # NoPeer
    <3>1. sockets[k].peer \in Connections /\ sockets[sockets[k].peer].peer = k
          /\ sockets[k].peerWrShut = sockets[sockets[k].peer].wrShut
      BY <2>3 DEF PeersAreMutual
    <3>2. SamePeers(sockets'[sockets[k].peer], sockets[sockets[k].peer])
      BY <3>1 DEF Connections
    <3> QED
      BY <1>2, <2>1, <2>3, <3>1, <3>2 DEF SamePeers
  <2> QED
    BY <2>2, <2>3
<1>4. s # NoPeer /\ t # NoPeer
  BY SMT DEF SocketIds, NoPeer
<1>5. PeersAreMutual'
  <2> SUFFICES ASSUME NEW k \in Connections'
               PROVE  IF sockets'[k].peer = NoPeer
                      THEN sockets'[k].peerWrShut \/ k \in given'
                      ELSE /\ sockets'[k].peer \in Connections'
                           /\ sockets'[sockets'[k].peer].peer = k
                           /\ sockets'[k].peerWrShut = sockets'[sockets'[k].peer].wrShut
    BY DEF PeersAreMutual
  <2>1. CASE k = s
    BY <1>2, <1>4, <2>1 DEF End
  <2>2. CASE k = t
    BY <1>2, <1>4, <2>2 DEF End
  <2> QED
    BY <1>2, <1>3, <2>1, <2>2
<1>6. WithinBounds'
  <2>1. Connections \in SUBSET SocketIds
    BY DEF Grows, Connections, Ids
  <2>2. Connections \cup {s} \in SUBSET SocketIds /\ Connections' \in SUBSET SocketIds
        /\ Connections' = (Connections \cup {s}) \cup {t}
    BY <1>2, <2>1
  <2>3. /\ Cardinality(Connections) \in Nat /\ Cardinality(Connections') \in Nat
        /\ Cardinality(Connections \cup {s}) \in Nat
        /\ Cardinality(Connections \cup {s}) <= Cardinality(Connections) + 1
        /\ Cardinality(Connections') <= Cardinality(Connections \cup {s}) + 1
    BY <2>1, <2>2 DEF SizesFit
  <2>4. Cardinality(Connections') <= max_connections
    BY SMT, <2>3, SocketAssumption
  <2> QED
    BY <2>4 DEF WithinBounds
<1> QED
  BY <1>2, <1>5, <1>6

\* connect_pair.
LEMMA connect_pairStep ==
    ASSUME SocketInv, SizesFit, NEW pid \in SockPids, NEW s, NEW t, connect_pair(pid, s, t)
    PROVE  SocketInv' /\ EndsStay
<1>1. /\ s \in DOMAIN sockets /\ t \in DOMAIN sockets /\ s # t /\ s \in SocketIds /\ t \in SocketIds
      /\ RecordFits(s) /\ RecordFits(t) /\ {s, t} \subseteq given
      /\ sockets[s].st \in {"Created", "Bound"} /\ sockets[s].spec # "udp"
      /\ sockets[t].st \in {"Created", "Bound"} /\ sockets[t].spec # "udp"
      /\ WithinLimits(0, 2) /\ UNCHANGED <<by_owner, sockTables, next_socket_id, life, given, historyVars>>
  <2>1. Owned(s, pid) /\ t \in DOMAIN sockets \ {s} /\ WithinLimits(0, 2)
        /\ \A x \in {s, t} : sockets[x].spec \in Streams /\ sockets[x].st \in {"Created", "Bound"}
        /\ UNCHANGED <<by_owner, sockTables, next_socket_id, life, given, historyVars>>
    BY DEF connect_pair
  <2>2. s \in DOMAIN sockets /\ s \in SocketIds /\ t \in SocketIds /\ RecordFits(s) /\ RecordFits(t)
    BY <2>1, Opened DEF SocketInv, RecordsFit, TablesFit, Ids
  <2>3. \A x \in {s, t} : sockets[x].spec # "udp" /\ sockets[x].st # "Connected"
    BY <2>1 DEF Streams
  <2> QED
    BY <2>1, <2>2, <2>3 DEF RecordFits
<1>2. /\ DOMAIN sockets' = DOMAIN sockets
      /\ sockets'[s] = ConnectedTo(sockets[s], t)
      /\ sockets'[t] = ConnectedTo(sockets[t], s)
      /\ \A k \in DOMAIN sockets \ {s, t} : sockets'[k] = sockets[k]
  BY SMT, <1>1 DEF connect_pair
<1>3. /\ Sane(sockets'[s]) /\ SameEnds(sockets'[s], sockets[s]) /\ SameNames(sockets'[s], sockets[s])
      /\ SameQueue(sockets'[s], sockets[s]) /\ SameBytes(sockets'[s], sockets[s])
      /\ sockets'[s].st = "Connected" /\ sockets'[s].peer = t
      /\ sockets'[s].wrShut = FALSE /\ sockets'[s].peerWrShut = FALSE
  <2>1. Unused(sockets[s])
    BY <1>1 DEF RecordFits, Unused
  <2>2. Attached(sockets'[s], sockets[s], t)
    BY <1>1, <1>2, <2>1, SaneConnected
  <2> QED
    BY <2>2 DEF Attached
<1>4. /\ Sane(sockets'[t]) /\ SameEnds(sockets'[t], sockets[t]) /\ SameNames(sockets'[t], sockets[t])
      /\ SameQueue(sockets'[t], sockets[t]) /\ SameBytes(sockets'[t], sockets[t])
      /\ sockets'[t].st = "Connected" /\ sockets'[t].peer = s
      /\ sockets'[t].wrShut = FALSE /\ sockets'[t].peerWrShut = FALSE
  <2>1. Unused(sockets[t])
    BY <1>1 DEF RecordFits, Unused
  <2>2. Attached(sockets'[t], sockets[t], s)
    BY <1>1, <1>2, <2>1, SaneConnected
  <2> QED
    BY <2>2 DEF Attached
<1>5. Grows /\ Added = {}
  BY <1>1, <1>2, SameGrows DEF SocketInv
<1>6. ASSUME NEW k \in DOMAIN sockets
      PROVE  /\ SameEnds(sockets'[k], sockets[k]) /\ SameNames(sockets'[k], sockets[k])
             /\ SameQueue(sockets'[k], sockets[k]) /\ SameBytes(sockets'[k], sockets[k])
  BY SMT, <1>2, <1>3, <1>4 DEF SameEnds, SameNames, SameQueue, SameBytes
<1>7. UNCHANGED <<sawEof, readBy, sentTo, life, given, sockTables, by_owner>>
  BY <1>1 DEF historyVars
<1>8. PeersAreMutual' /\ WithinBounds' /\ Connections' = Connections \cup {s, t}
  <2>1. End(s, t) /\ End(t, s) /\ s \notin Connections /\ t \notin Connections
    BY <1>1, <1>2, <1>3, <1>4 DEF End, Connections
  <2>2. \A k \in DOMAIN sockets \ {s, t} : SamePeers(sockets'[k], sockets[k])
    BY <1>2 DEF SamePeers
  <2>3. Cardinality(Connections) + 2 <= max_connections
    BY SMT, <1>1 DEF WithinLimits
  <2>4. Cardinality(DOMAIN sockets') <= max_sockets
    BY <1>2 DEF SocketInv, WithinBounds
  <2> QED
    BY <1>1, <1>5, <1>7, <2>1, <2>2, <2>3, <2>4, Paired DEF SocketInv
<1>9. EndsFit' /\ EndsStay
  BY <1>5, <1>6, <1>7, EndsKept DEF SocketInv
<1>10. IndexesAreExact'
  BY <1>5, <1>6, <1>7, NamesKept DEF SocketInv
<1>11. Queues'
  BY <1>1, <1>5, <1>6, <1>7, <1>8, QueuesKept DEF SocketInv
<1>12. BytesFit'
  BY <1>5, <1>6, <1>7, BytesKept DEF SocketInv
<1>13. RecordsFit'
  <2>1. RecordFits(s)' /\ RecordFits(t)'
    BY <1>1, <1>3, <1>4, <1>7 DEF RecordFits, SameNames
  <2> QED
    BY <1>2, <1>7, <2>1, RecordsKept DEF SocketInv
<1>14. TablesFit' /\ NoTwoHoldAnAddress'
  BY <1>1, <1>2, <1>7 DEF SocketInv, TablesFit, NoTwoHoldAnAddress, sockTables, Ids
<1> QED
  BY <1>8, <1>9, <1>10, <1>11, <1>12, <1>13, <1>14 DEF SocketInv

\* connect_to_bound_inet_stream and connect_to_bound_unix_stream.
LEMMA connectStep ==
    ASSUME SocketInv, SizesFit, NEW pid \in SockPids, NEW s, NEW a, connect(pid, s, a) PROVE SocketInv' /\ EndsStay
<1> DEFINE new == next_socket_id
<1>0. PICK l : l = Lookup(a)
  OBVIOUS
<1> DEFINE p == sockets[l].pending
           x == Append(p, new)
           r == Record(sockets[l].owner, sockets[l].spec, "Connected", sockets[l].local, s)
           ends == [sockets EXCEPT ![s] = ConnectedTo(@, new), ![l].pending = x]
<1>1. /\ s \in DOMAIN sockets /\ l \in DOMAIN sockets /\ s # l /\ s \in SocketIds /\ new \in SocketIds
      /\ RecordFits(s) /\ RecordFits(l) /\ s \in given /\ Unused(sockets[s])
      /\ sockets[l].st = "Listening" /\ Len(p) < sockets[l].backlog
      /\ WithinLimits(1, 2) /\ UNCHANGED <<sockTables, life, given, historyVars>>
  <2>1. Owned(s, pid) /\ l \in DOMAIN sockets \ {s} /\ WithinLimits(1, 2) /\ new \in SocketIds
        /\ sockets[s].spec \in Streams /\ sockets[s].st \in {"Created", "Bound"} /\ HasRoom(l)
        /\ UNCHANGED <<sockTables, life, given, historyVars>>
    BY <1>0 DEF connect
  <2>2. s \in DOMAIN sockets /\ s \in SocketIds /\ RecordFits(s) /\ RecordFits(l)
    BY <2>1, Opened DEF SocketInv, RecordsFit
  <2>3. sockets[s].spec # "udp" /\ sockets[s].st # "Connected"
    BY <2>1 DEF Streams
  <2> QED
    BY <2>1, <2>2, <2>3 DEF RecordFits, Unused, HasRoom
<1>2. /\ sockets' = With(ends, new, r) /\ next_socket_id' = new + 1
      /\ by_owner' = [by_owner EXCEPT ![sockets[l].owner] = by_owner[sockets[l].owner] \cup {new}]
  BY <1>0 DEF connect
<1>3. /\ p \in Seq(SocketIds \cup {NoPeer}) /\ sockets[l].backlog \in Nat /\ Sane(sockets[l])
      /\ sockets[l].spec \in Specs /\ sockets[l].local \in Addresses /\ sockets[l].spec # "udp"
      /\ sockets[l].owner \in SockPids /\ life[sockets[l].owner] # "waited"
  BY <1>1 DEF RecordFits, Sane, SockRecords
<1>4. /\ DOMAIN ends = DOMAIN sockets /\ ends[s] = ConnectedTo(sockets[s], new)
      /\ ends[l] = [sockets[l] EXCEPT !.pending = x]
      /\ \A t \in DOMAIN sockets \ {s, l} : ends[t] = sockets[t]
  BY <1>1
<1> HIDE DEF ends
<1>5. DOMAIN sockets' = DOMAIN sockets \cup {new}
  BY <1>2, <1>4 DEF With
<1>6. Joins(sockets[l].owner)
  BY <1>1, <1>2, <1>5 DEF Joins
<1>7. /\ Grows /\ Added = {new} /\ TablesFit' /\ new \notin DOMAIN sockets /\ new \notin Ids
      /\ \A q \in SockPids : by_owner'[q] = by_owner[q] \cup {t \in Added : sockets[l].owner = q}
  BY <1>3, <1>6, NewGrows DEF SocketInv
<1>8. sockets'[new] = r /\ \A t \in DOMAIN sockets : sockets'[t] = ends[t]
  BY <1>2, <1>4, <1>7 DEF With
<1>9. Attached(sockets'[s], sockets[s], new)
  <2>1. sockets'[s] = ConnectedTo(sockets[s], new)
    BY <1>1, <1>4, <1>8
  <2>2. Unused(sockets[s]) /\ new \in SocketIds
    BY <1>1
  <2> QED
    BY ONLY <2>1, <2>2, SaneConnected
<1>10. /\ Sane(sockets'[l]) /\ SamePeers(sockets'[l], sockets[l]) /\ SameEnds(sockets'[l], sockets[l])
       /\ SameNames(sockets'[l], sockets[l]) /\ SameBytes(sockets'[l], sockets[l])
       /\ sockets'[l].pending = x /\ sockets'[l].st = sockets[l].st
  <2>1. x \in Seq(SocketIds \cup {NoPeer}) /\ Len(x) <= sockets[l].backlog
    BY SMT, <1>1, <1>3
  <2> HIDE DEF x
  <2>2. sockets'[l] = [sockets[l] EXCEPT !.pending = x] /\ Sane(sockets[l]) /\ sockets[l].st = "Listening"
    BY <1>1, <1>3, <1>4, <1>8
  <2> QED
    BY ONLY SMT, <2>1, <2>2, SanePending
<1>11. /\ Sane(r) /\ r.owner = sockets[l].owner /\ r.peer = s /\ r.buf = <<>> /\ r.groups = {}
       /\ r.st = "Connected" /\ r.pending = <<>> /\ r.wrShut = FALSE /\ r.peerWrShut = FALSE
       /\ r.spec # "udp"
  <2>1. Sane(r)
    BY <1>1, <1>3, SaneNew
  <2> QED
    BY <1>3, <2>1 DEF Record
<1> HIDE DEF r
<1>12. ASSUME NEW t \in DOMAIN sockets
       PROVE  /\ Sane(sockets'[t]) /\ SameEnds(sockets'[t], sockets[t]) /\ SameNames(sockets'[t], sockets[t])
              /\ SameBytes(sockets'[t], sockets[t]) /\ sockets'[t].owner = sockets[t].owner
              /\ sockets[t].st = "Connected" => sockets'[t].st = "Connected"
              /\ t # s => sockets'[t].st = sockets[t].st /\ SamePeers(sockets'[t], sockets[t])
              /\ t # l => sockets'[t].pending = sockets[t].pending
  <2>1. CASE t = s
    BY <1>1, <1>9, <2>1 DEF Attached, SameNames, SameQueue
  <2>2. CASE t = l
    BY <1>1, <1>10, <2>2 DEF SameNames
  <2>3. CASE t \notin {s, l}
    <3>1. sockets'[t] = sockets[t] /\ Sane(sockets[t])
      BY <1>4, <1>8, <2>3 DEF SocketInv, RecordsFit, RecordFits
    <3> QED
      BY <2>3, <3>1 DEF SameEnds, SameNames, SameBytes, SamePeers
  <2> QED
    BY <2>1, <2>2, <2>3
<1>13. UNCHANGED <<sawEof, readBy, sentTo, life, given, sockTables>>
  BY <1>1 DEF historyVars
<1>14. PeersAreMutual' /\ WithinBounds' /\ Connections' = Connections \cup {s, new}
  <2>0. PICK n : n = new
    OBVIOUS
  <2>1. End(s, n) /\ End(n, s) /\ s \notin Connections /\ n \notin Connections
    BY <1>1, <1>5, <1>7, <1>8, <1>9, <1>11, <2>0 DEF End, Connections, Attached, Unused
  <2>2. \A k \in DOMAIN sockets \ {s, n} : SamePeers(sockets'[k], sockets[k])
    BY <1>12
  <2>3. Cardinality(Connections) + 2 <= max_connections /\ Cardinality(DOMAIN sockets) < max_sockets
    BY SMT, <1>1 DEF WithinLimits
  <2>4. Cardinality(DOMAIN sockets') <= max_sockets
    <3>1. DOMAIN sockets \in SUBSET SocketIds /\ DOMAIN sockets' \in SUBSET SocketIds
      BY <1>1, <1>5 DEF SocketInv, TablesFit, Ids
    <3>2. /\ Cardinality(DOMAIN sockets') <= Cardinality(DOMAIN sockets) + 1
          /\ Cardinality(DOMAIN sockets) \in Nat /\ Cardinality(DOMAIN sockets') \in Nat
      BY <1>1, <1>5, <3>1 DEF SizesFit
    <3> QED
      BY SMT, <2>3, <3>2, SocketAssumption
  <2>5. n \in SocketIds /\ Added \subseteq {s, n} /\ given \subseteq given'
    BY <1>1, <1>7, <2>0
  <2>6. PeersAreMutual' /\ WithinBounds' /\ Connections' = Connections \cup {s, n}
    BY <1>1, <1>7, <2>1, <2>2, <2>3, <2>4, <2>5, Paired DEF SocketInv
  <2> QED
    BY <2>0, <2>6
<1>15. EndsFit' /\ EndsStay
  BY <1>7, <1>12, <1>13, EndsKept DEF SocketInv
<1>16. IndexesAreExact'
  <2>1. \A q \in SockPids : by_owner'[q] = by_owner[q] \cup {t \in Added : sockets'[t].owner = q}
    BY SMT, <1>7, <1>8, <1>11
  <2> QED
    BY <1>7, <1>8, <1>11, <1>12, <1>13, <2>1, NamesKept DEF SocketInv
<1>17. Queues'
  <2>1. QueuedFit' /\ QueuedOnce' /\ new \in PendingAt(l)'
        /\ \A k \in DOMAIN sockets : PendingAt(k) \subseteq PendingAt(k)'
    <3>1. /\ new \in SocketIds \cup {NoPeer} /\ sockets'[l].pending = Append(sockets[l].pending, new)
          /\ new \in Added /\ sockets'[new].st = "Connected" /\ sockets'[new].owner = sockets'[l].owner
          /\ \A t \in Added : sockets'[t].pending = <<>>
      BY <1>1, <1>7, <1>8, <1>10, <1>11, <1>12
    <3> QED
      BY <1>1, <1>7, <1>12, <3>1, QueueLonger DEF SocketInv
  <2>2. NoneIsForgotten'
    BY SMT, <1>1, <1>5, <1>13, <1>14, <2>1 DEF SocketInv, Queues, NoneIsForgotten
  <2> QED
    BY <2>1, <2>2 DEF Queues
<1>18. BytesFit'
  BY <1>7, <1>8, <1>11, <1>12, <1>13, BytesKept DEF SocketInv
<1>19. RecordsFit'
  <2> SUFFICES ASSUME NEW t \in DOMAIN sockets' PROVE RecordFits(t)'
    BY DEF RecordsFit
  <2>1. CASE t = new
    BY <1>1, <1>3, <1>7, <1>8, <1>11, <1>13, <2>1 DEF RecordFits
  <2>2. CASE t = s
    BY <1>1, <1>7, <1>9, <1>12, <1>13, <2>2 DEF RecordFits, Attached
  <2>3. CASE t \in DOMAIN sockets \ {s}
    BY <1>12, <1>13, <2>3 DEF SocketInv, RecordsFit, RecordFits, SamePeers
  <2> QED
    BY <1>5, <2>1, <2>2, <2>3
<1>20. NoTwoHoldAnAddress'
  BY <1>13 DEF SocketInv, NoTwoHoldAnAddress, sockTables
<1> QED
  BY <1>7, <1>14, <1>15, <1>16, <1>17, <1>18, <1>19, <1>20 DEF SocketInv

-----------------------------------------------------------------------------
(* Bytes.                                                                  *)

\* The bytes k + 1 .. m.
Bytes(k, m) == [i \in 1 .. m - k |-> k + i]

JoinOf(z, p, q, d, n) ==
    /\ z = [i \in 1 .. d + n |-> z[i]]
    /\ \A i \in 1 .. d + n : z[i] = IF i <= d THEN p[i] ELSE q[i - d]
LEMMA Joined ==
    ASSUME NEW p \in Seq(Nat), NEW q \in Seq(Nat), NEW d \in Nat, NEW n \in Nat, Len(p) = d, Len(q) = n
    PROVE  JoinOf(p \o q, p, q, d, n)
<1>1. p \o q \in Seq(Nat) /\ Len(p \o q) = d + n
  BY SMTT(30)
<1>2. \A i \in 1 .. d + n : (p \o q)[i] = IF i <= d THEN p[i] ELSE q[i - d]
  BY SMT
<1>3. p \o q = [i \in 1 .. d + n |-> (p \o q)[i]]
  <2>1. \A z \in Seq(Nat) : z = [i \in 1 .. Len(z) |-> z[i]]
    BY SMT
  <2> QED
    BY <1>1, <2>1
<1> QED
  BY <1>2, <1>3 DEF JoinOf

LEMMA BytesAdded ==
    ASSUME NEW k \in Nat, NEW m \in Nat, k <= m, NEW n \in Nat
    PROVE  Bytes(k, m) \o [i \in 1 .. n |-> m + i] = Bytes(k, m + n) /\ Bytes(k, m) \in Seq(Nat)
<1> DEFINE p == Bytes(k, m)
           q == [i \in 1 .. n |-> m + i]
<1>1. p \in Seq(Nat) /\ q \in Seq(Nat) /\ Len(p) = m - k /\ Len(q) = n
      /\ (\A i \in 1 .. m - k : p[i] = k + i) /\ (\A i \in 1 .. n : q[i] = m + i)
  BY SMT DEF Bytes
<1> HIDE DEF p, q
<1> DEFINE d == m - k
           z == p \o q
<1>2. d \in Nat /\ d + n \in Nat /\ d + n = m + n - k
  BY SMT
<1> HIDE DEF d
<1>3. /\ \A i \in 1 .. d + n : z[i] = IF i <= d THEN p[i] ELSE q[i - d]
      /\ z = [i \in 1 .. d + n |-> z[i]]
  <2>1. p \in Seq(Nat) /\ q \in Seq(Nat) /\ d \in Nat /\ n \in Nat /\ Len(p) = d /\ Len(q) = n
    BY <1>1, <1>2 DEF d
  <2>2. JoinOf(z, p, q, d, n)
    BY <2>1, Joined
  <2> QED
    BY <2>2 DEF JoinOf
<1> HIDE DEF z
<1>4. ASSUME NEW i \in 1 .. d + n PROVE z[i] = k + i
  <2>1. z[i] = IF i <= d THEN p[i] ELSE q[i - d]
    BY <1>3
  <2>2. i <= d => z[i] = p[i] /\ i \in 1 .. d
    BY SMT, <1>2, <2>1
  <2>3. ~(i <= d) => z[i] = q[i - d] /\ i - d \in 1 .. n
    BY SMT, <1>2, <2>1
  <2>4. ~(i <= d) => m + (i - d) = k + i
    BY SMT DEF d
  <2> QED
    BY <1>1, <2>2, <2>3, <2>4 DEF d
<1>5. z = [i \in 1 .. d + n |-> k + i]
  BY <1>3, <1>4
<1>6. z = Bytes(k, m + n)
  BY SMT, <1>2, <1>5 DEF Bytes
<1> QED
  BY <1>1, <1>6 DEF p, q, z

LEMMA BytesTaken ==
    ASSUME NEW k \in Nat, NEW m \in Nat, k <= m, NEW n \in Nat, n <= Len(Bytes(k, m)), n > 0
    PROVE  /\ Bytes(k, m)[n] = k + n /\ k + n <= m
           /\ SubSeq(Bytes(k, m), n + 1, Len(Bytes(k, m))) = Bytes(k + n, m)
<1> DEFINE p == Bytes(k, m)
           q == SubSeq(p, n + 1, Len(p))
<1>1. p \in Seq(Nat) /\ Len(p) = m - k /\ \A i \in 1 .. m - k : p[i] = k + i
  BY SMT DEF Bytes
<1> HIDE DEF p
<1>2. p[n] = k + n /\ k + n <= m
  BY SMT, <1>1 DEF p
<1>3. q \in Seq(Nat) /\ Len(q) = m - (k + n) /\ \A i \in 1 .. m - (k + n) : q[i] = p[n + i] /\ n + i \in 1 .. m - k
  BY SMTT(30), <1>1, <1>2
<1> HIDE DEF q
<1>4. \A i \in 1 .. m - (k + n) : q[i] = (k + n) + i
  BY SMT, <1>1, <1>3
<1>5. q = [i \in 1 .. m - (k + n) |-> q[i]]
  BY SMT, <1>3
<1>6. q = Bytes(k + n, m)
  BY <1>4, <1>5 DEF Bytes
<1> QED
  BY <1>2, <1>6 DEF p, q

\* A call that only moves the bytes of one connection.
LEMMA Moves ==
    ASSUME SocketInv, UNCHANGED <<by_owner, sockTables, next_socket_id, life, given, sawEof>>,
           NEW t \in DOMAIN sockets, But({t}), Sane(sockets'[t]),
           SamePeers(sockets'[t], sockets[t]), SameEnds(sockets'[t], sockets[t]),
           SameNames(sockets'[t], sockets[t]), SameQueue(sockets'[t], sockets[t]),
           BytesFit', \A k \in sawEof : readBy'[k] = readBy[k] /\ sentTo'[k] = sentTo[k]
    PROVE  SocketInv' /\ EndsStay
<1>1. Grows /\ Added = {} /\ DOMAIN sockets' = DOMAIN sockets
  BY SameGrows DEF SocketInv, But
<1>2. ASSUME NEW k \in DOMAIN sockets
      PROVE  /\ SamePeers(sockets'[k], sockets[k]) /\ SameEnds(sockets'[k], sockets[k])
             /\ SameNames(sockets'[k], sockets[k]) /\ SameQueue(sockets'[k], sockets[k])
  BY DEF But, SamePeers, SameEnds, SameNames, SameQueue
<1>3. UNCHANGED <<given, sawEof, life, sockTables, by_owner>>
  OBVIOUS
<1>4. WithinBounds' /\ Connections' = Connections
  BY <1>1, <1>2, BoundsKept DEF SocketInv, SamePeers
<1>5. PeersAreMutual'
  BY <1>1, <1>2, <1>3, PeersKept DEF SocketInv
<1>6. EndsFit' /\ EndsStay
  BY <1>1, <1>2, <1>3, EndsKept DEF SocketInv
<1>7. IndexesAreExact'
  BY <1>1, <1>2, <1>3, NamesKept DEF SocketInv
<1>8. Queues'
  BY <1>1, <1>2, <1>3, <1>4, QueuesKept DEF SocketInv
<1>9. RecordsFit'
  <2>1. RecordFits(t)'
    BY <1>2, <1>3 DEF SocketInv, RecordsFit, RecordFits, SamePeers, SameNames
  <2> QED
    BY <1>1, <1>3, <2>1, RecordsKept DEF SocketInv, But
<1>10. TablesFit' /\ NoTwoHoldAnAddress'
  BY <1>1, <1>3 DEF SocketInv, TablesFit, NoTwoHoldAnAddress, sockTables, Ids
<1> QED
  BY <1>4, <1>5, <1>6, <1>7, <1>8, <1>9, <1>10 DEF SocketInv

\* What the invariant says of the bytes of a connection.
LEMMA BytesOf ==
    ASSUME SocketInv, NEW t \in Connections
    PROVE  /\ t \in SocketIds /\ sentTo[t] \in Nat /\ readBy[t] \in Nat /\ readBy[t] <= sentTo[t]
           /\ ~sockets[t].rdShut => sockets[t].buf = Bytes(readBy[t], sentTo[t])
           /\ Sane(sockets[t]) /\ sockets[t].st = "Connected" /\ t \in DOMAIN sockets
<1>1. t \in DOMAIN sockets /\ sockets[t].st = "Connected"
  BY DEF Connections
<1>2. t \in SocketIds /\ Sane(sockets[t])
  BY <1>1 DEF SocketInv, TablesFit, RecordsFit, RecordFits, Ids
<1> QED
  BY <1>1, <1>2 DEF SocketInv, BytesFit, StreamKeepsBytes, Bytes

\* The bytes of one connection move.
LEMMA BytesMoved ==
    ASSUME SocketInv, NEW t \in Connections, But({t}), next_socket_id' = next_socket_id,
           SamePeers(sockets'[t], sockets[t]),
           sentTo' \in [SocketIds -> Nat], readBy' \in [SocketIds -> Nat],
           \A k \in SocketIds \ {t} : sentTo'[k] = sentTo[k] /\ readBy'[k] = readBy[k],
           readBy'[t] <= sentTo'[t],
           ~sockets'[t].rdShut => sockets'[t].buf = Bytes(readBy'[t], sentTo'[t])
    PROVE  BytesFit'
<1>1. Connections' = Connections /\ Ids' = Ids /\ DOMAIN sockets' = DOMAIN sockets /\ Connections \subseteq SocketIds
  BY SMT DEF But, Connections, Ids, SamePeers, SocketInv, TablesFit
<1>2. ASSUME NEW s \in SocketIds
      PROVE  /\ readBy'[s] <= sentTo'[s]
             /\ s \notin Ids' \/ s \in DOMAIN sockets' \ Connections' => sentTo'[s] = 0
  <2>1. CASE s = t
    <3>1. s \in Ids /\ s \in Connections
      BY <2>1 DEF SocketInv, TablesFit, Connections
    <3> QED
      BY <1>1, <2>1, <3>1
  <2>2. CASE s # t
    BY <1>1, <2>2 DEF SocketInv, BytesFit
  <2> QED
    BY <2>1, <2>2
<1>3. StreamKeepsBytes'
  <2> SUFFICES ASSUME NEW s \in Connections', ~sockets'[s].rdShut
               PROVE  sockets'[s].buf = [i \in 1 .. sentTo'[s] - readBy'[s] |-> readBy'[s] + i]
    BY DEF StreamKeepsBytes
  <2>1. CASE s = t
    BY <2>1 DEF Bytes
  <2>2. CASE s # t
    <3>1. s \in SocketIds \ {t} /\ sockets'[s] = sockets[s] /\ s \in Connections
      BY <1>1, <2>2 DEF But, Connections
    <3> QED
      BY ZenonT(30), <3>1 DEF SocketInv, BytesFit, StreamKeepsBytes
  <2> QED
    BY <2>1, <2>2
<1> QED
  BY <1>2, <1>3 DEF BytesFit

\* write.
LEMMA writeStep ==
    ASSUME SocketInv, NEW pid \in SockPids, NEW s, NEW n \in 1 .. MaxBytes, write(pid, s, n)
    PROVE  SocketInv' /\ Channels
<1>0. PICK t : t = sockets[s].peer
  OBVIOUS
<1> DEFINE more == [i \in 1 .. n |-> sentTo[t] + i]
           x == sockets[t].buf \o more
<1>1. /\ s \in DOMAIN sockets /\ RecordFits(s) /\ sockets[s].conn /\ ~sockets[s].wrShut
      /\ t \in DOMAIN sockets /\ ~sockets[t].rdShut
      /\ sockets' = [sockets EXCEPT ![t].buf = x]
      /\ sentTo' = [sentTo EXCEPT ![t] = sentTo[t] + n]
      /\ UNCHANGED <<by_owner, sockTables, next_socket_id, life, given, readBy, sawEof>>
  <2>1. Owned(s, pid) /\ UNCHANGED <<by_owner, sockTables, next_socket_id, life, given, readBy, sawEof>>
    BY DEF write
  <2> QED
    BY <1>0, <2>1, Opened DEF write
<1>2. s \in Connections /\ t # NoPeer /\ s # NoPeer
  <2>1. 0 \notin SocketIds
    BY SMT DEF SocketIds
  <2>2. t # NoPeer /\ s # NoPeer
    BY <1>1, <2>1 DEF SocketInv, TablesFit, Ids, NoPeer
  <2> QED
    BY <1>1, <2>2 DEF RecordFits, Sane, Connections
<1>3. /\ t \in Connections /\ sockets[t].peer = s /\ sockets[t].peerWrShut = sockets[s].wrShut
  <2>1. sockets[s].peer # NoPeer
    BY <1>0, <1>2
  <2>2. /\ sockets[s].peer \in Connections /\ sockets[sockets[s].peer].peer = s
        /\ sockets[s].peerWrShut = sockets[sockets[s].peer].wrShut
    BY <1>2, <2>1 DEF SocketInv, PeersAreMutual
  <2>3. sockets[t].peer # NoPeer /\ sockets[t].peer = s
    BY <1>0, <1>2, <2>2
  <2>4. sockets[t].peerWrShut = sockets[sockets[t].peer].wrShut
    BY <1>0, <2>2, <2>3 DEF SocketInv, PeersAreMutual
  <2> QED
    BY <1>0, <2>2, <2>3, <2>4
<1>4. t \notin sawEof
  BY <1>1, <1>3 DEF SocketInv, EndsFit, PeerIsDone
<1>5. /\ t \in SocketIds /\ sentTo[t] \in Nat /\ readBy[t] \in Nat /\ readBy[t] <= sentTo[t]
      /\ sockets[t].buf = Bytes(readBy[t], sentTo[t]) /\ Sane(sockets[t]) /\ sockets[t].st = "Connected"
  BY <1>1, <1>3, BytesOf
<1>6. n \in Nat /\ sentTo[t] + n \in Nat /\ readBy[t] <= sentTo[t] + n
  BY SMT, <1>5, SocketAssumption
<1>7. x = Bytes(readBy[t], sentTo[t] + n) /\ x \in Seq(Nat)
  <2>1. x = Bytes(readBy[t], sentTo[t] + n)
    <3>1. Bytes(readBy[t], sentTo[t]) \o more = Bytes(readBy[t], sentTo[t] + n)
      BY <1>5, <1>6, BytesAdded
    <3> QED
      BY <1>5, <3>1
  <2>2. Bytes(readBy[t], sentTo[t] + n) \in Seq(Nat)
    <3>1. \A k, m, j \in Nat : k <= m => Bytes(k, m) \in Seq(Nat)
      BY BytesAdded
    <3> QED
      BY <1>5, <1>6, <3>1
  <2> QED
    BY <2>1, <2>2
<1>8. But({t}) /\ sockets'[t] = [sockets[t] EXCEPT !.buf = x]
  BY <1>1 DEF But
<1> HIDE DEF x
<1>9. /\ Sane(sockets'[t]) /\ SamePeers(sockets'[t], sockets[t]) /\ SameEnds(sockets'[t], sockets[t])
      /\ SameNames(sockets'[t], sockets[t]) /\ SameQueue(sockets'[t], sockets[t])
      /\ sockets'[t].buf = x /\ sockets'[t].rdShut = sockets[t].rdShut
  BY SMT, <1>5, <1>7, <1>8, SaneBytes
<1>10. sentTo \in [SocketIds -> Nat] /\ readBy \in [SocketIds -> Nat]
  BY DEF SocketInv, BytesFit
<1>11. /\ sentTo' \in [SocketIds -> Nat] /\ sentTo'[t] = sentTo[t] + n /\ readBy' = readBy
       /\ \A k \in SocketIds \ {t} : sentTo'[k] = sentTo[k]
  BY <1>1, <1>5, <1>6, <1>10
<1>12. BytesFit'
  BY <1>1, <1>3, <1>6, <1>7, <1>8, <1>9, <1>10, <1>11, BytesMoved
<1>13. \A k \in sawEof : readBy'[k] = readBy[k] /\ sentTo'[k] = sentTo[k]
  BY <1>4, <1>11 DEF SocketInv, EndsFit, Ids
<1>14. SocketInv' /\ EndsStay
  BY <1>1, <1>8, <1>9, <1>12, <1>13, Moves
<1>15. ASSUME NEW k \in SocketIds \ {t} PROVE ChannelStep(k)
  BY <1>1, <1>11, <1>14, Rests DEF EndsStay
<1>16. ChannelStep(t)
  <2>1. Done(t)' = FALSE /\ Done(t) = FALSE
    BY <1>1, <1>3, <1>8, <1>9 DEF Done, PeerIsDone, But, SamePeers
  <2>2. sentTo'[t] > sentTo[t]
    BY SMT, <1>5, <1>11
  <2>3. SocketChannel(t)!Send
    BY <1>1, <2>1, <2>2 DEF SocketChannel!Send, Done
  <2> QED
    BY <2>3 DEF ChannelStep, SocketChannel!Next
<1> QED
  BY <1>14, <1>15, <1>16 DEF Channels

\* read: the end.
LEMMA readEndStep ==
    ASSUME SocketInv, NEW s \in DOMAIN sockets, sockets[s].conn, ReadsEnd(s), sawEof' = sawEof \cup {s},
           UNCHANGED <<sockets, by_owner, sockTables, next_socket_id, life, given, readBy, sentTo>>
    PROVE  SocketInv' /\ Channels
<1>1. s \in Connections /\ s \in Ids
  BY DEF SocketInv, RecordsFit, RecordFits, Sane, Connections, TablesFit
<1>2. readBy[s] = sentTo[s]
  <2>1. /\ sentTo[s] \in Nat /\ readBy[s] \in Nat /\ readBy[s] <= sentTo[s]
        /\ Bytes(readBy[s], sentTo[s]) = <<>>
    BY <1>1, BytesOf DEF ReadsEnd
  <2>2. Len(Bytes(readBy[s], sentTo[s])) = sentTo[s] - readBy[s] /\ Len(<<>>) = 0
    BY SMT, <2>1 DEF Bytes
  <2>3. sentTo[s] - readBy[s] = 0
    BY <2>1, <2>2
  <2> QED
    BY SMT, <2>1, <2>3
<1>3. EndsFit'
  BY <1>1, <1>2 DEF SocketInv, EndsFit, PeerIsDone, ReadsEnd, Ids
<1>4. TablesFit' /\ RecordsFit' /\ WithinBounds' /\ NoTwoHoldAnAddress'
  BY SMT DEF SocketInv, TablesFit, RecordsFit, RecordFits, WithinBounds, NoTwoHoldAnAddress, Ids,
     Connections, sockTables
<1>5. PeersAreMutual' /\ IndexesAreExact'
  BY DEF SocketInv, PeersAreMutual, IndexesAreExact, Connections, sockTables
<1>6. Queues'
  <2>1. Grows /\ Added = {} /\ Connections' = Connections
    BY SameGrows DEF SocketInv, Connections
  <2> QED
    BY <2>1, QueuesKept DEF SocketInv, SameQueue
<1>7. BytesFit'
  <2>1. Grows /\ Added = {}
    BY SameGrows DEF SocketInv
  <2> QED
    BY <2>1, BytesKept DEF SocketInv, SameBytes
<1>8. EndsStay
  BY DEF EndsStay, Done, PeerIsDone
<1>9. ASSUME NEW k \in SocketIds \ {s} PROVE ChannelStep(k)
  BY <1>8, Rests DEF EndsStay
<1>10. ChannelStep(s)
  <2>1. Done(s) = TRUE /\ Done(s)' = TRUE /\ (s \in sawEof)' = TRUE
    BY <1>1 DEF Done, PeerIsDone, ReadsEnd, Ids
  <2>2. SocketChannel(s)!Eof
    BY <1>2, <2>1 DEF SocketChannel!Eof, Done
  <2> QED
    BY <2>2 DEF ChannelStep, SocketChannel!Next
<1> QED
  BY <1>3, <1>4, <1>5, <1>6, <1>7, <1>9, <1>10 DEF SocketInv, Channels

\* read.
LEMMA readStep ==
    ASSUME SocketInv, NEW pid \in SockPids, NEW s, NEW n \in 1 .. MaxBytes, read(pid, s, n)
    PROVE  SocketInv' /\ Channels
<1>1. s \in DOMAIN sockets /\ sockets[s].conn /\ s \in Connections
      /\ UNCHANGED <<by_owner, sockTables, next_socket_id, life, given, sentTo>>
  <2>1. Owned(s, pid) /\ sockets[s].conn
        /\ UNCHANGED <<by_owner, sockTables, next_socket_id, life, given, sentTo>>
    BY DEF read
  <2>2. s \in DOMAIN sockets /\ RecordFits(s)
    BY <2>1, Opened
  <2> QED
    BY <2>1, <2>2 DEF RecordFits, Sane, Connections
<1>2. CASE ReadsEnd(s) /\ sawEof' = sawEof \cup {s} /\ UNCHANGED <<sockets, readBy>>
  BY <1>1, <1>2, readEndStep
<1>3. CASE /\ ~sockets[s].rdShut /\ n <= Len(sockets[s].buf)
           /\ sockets' = [sockets EXCEPT ![s].buf = Drained(s, n)]
           /\ readBy' = [readBy EXCEPT ![s] = sockets[s].buf[n]]
           /\ UNCHANGED sawEof
  <2> DEFINE x == Drained(s, n)
             k == readBy[s]
             m == sentTo[s]
  <2>1. /\ s \in SocketIds /\ m \in Nat /\ k \in Nat /\ k <= m
        /\ sockets[s].buf = Bytes(k, m) /\ Sane(sockets[s]) /\ sockets[s].st = "Connected"
    BY <1>1, <1>3, BytesOf
  <2>2. n \in Nat /\ n > 0
    BY SMT, SocketAssumption
  <2>3. sockets[s].buf[n] = k + n /\ k + n <= m /\ x = Bytes(k + n, m)
    <3>1. /\ Bytes(k, m)[n] = k + n /\ k + n <= m
          /\ SubSeq(Bytes(k, m), n + 1, Len(Bytes(k, m))) = Bytes(k + n, m)
      <4>1. n <= Len(Bytes(k, m))
        BY <1>3, <2>1
      <4> HIDE DEF k, m
      <4> QED
        BY ONLY <2>1, <2>2, <4>1, BytesTaken
    <3> QED
      BY <2>1, <3>1 DEF Drained
  <2>4. x \in Seq(Nat) /\ k + n \in Nat /\ k + n > k
    <3>1. k + n \in Nat /\ k + n > k
      BY SMT, <2>1, <2>2
    <3>2. Bytes(k + n, m) \in Seq(Nat)
      BY <2>1, <2>2, <2>3, <3>1, BytesAdded
    <3> QED
      BY <2>3, <3>1, <3>2
  <2>5. But({s}) /\ sockets'[s] = [sockets[s] EXCEPT !.buf = x]
    BY <1>1, <1>3 DEF But
  <2> HIDE DEF x
  <2>6. /\ Sane(sockets'[s]) /\ SamePeers(sockets'[s], sockets[s]) /\ SameEnds(sockets'[s], sockets[s])
        /\ SameNames(sockets'[s], sockets[s]) /\ SameQueue(sockets'[s], sockets[s])
        /\ sockets'[s].buf = x /\ sockets'[s].rdShut = sockets[s].rdShut
    BY SMT, <2>1, <2>4, <2>5, SaneBytes
  <2>7. sentTo \in [SocketIds -> Nat] /\ readBy \in [SocketIds -> Nat]
    BY DEF SocketInv, BytesFit
  <2>8. /\ readBy' \in [SocketIds -> Nat] /\ readBy'[s] = k + n /\ sentTo' = sentTo
        /\ \A t \in SocketIds \ {s} : readBy'[t] = readBy[t]
    BY <1>1, <1>3, <2>1, <2>3, <2>4, <2>7
  <2>9. BytesFit'
    BY <1>1, <2>3, <2>5, <2>6, <2>7, <2>8, BytesMoved
  <2>10. s \notin sawEof
    <3>1. k # m
      BY SMT, <2>1, <2>2, <2>3
    <3> QED
      BY <3>1 DEF SocketInv, EndsFit
  <2>11. \A t \in sawEof : readBy'[t] = readBy[t] /\ sentTo'[t] = sentTo[t]
    BY <1>1, <2>8, <2>10 DEF SocketInv, EndsFit, Ids
  <2>12. SocketInv' /\ EndsStay
    BY <1>1, <1>3, <2>5, <2>6, <2>9, <2>11, Moves
  <2>13. ASSUME NEW t \in SocketIds \ {s} PROVE ChannelStep(t)
    BY <1>1, <1>3, <2>8, <2>12, Rests DEF EndsStay
  <2>14. ChannelStep(s)
    <3>1. Done(s)' = Done(s)
      BY <1>1, <2>5, <2>6 DEF Done, PeerIsDone, But, SamePeers, SameEnds
    <3>2. readBy'[s] > readBy[s] /\ readBy'[s] <= sentTo[s]
      BY <2>3, <2>4, <2>8
    <3>3. SocketChannel(s)!Receive
      BY <1>1, <1>3, <3>1, <3>2 DEF SocketChannel!Receive, Done
    <3> QED
      BY <3>3 DEF ChannelStep, SocketChannel!Next
  <2> QED
    BY <2>12, <2>13, <2>14 DEF Channels
<1> QED
  BY <1>2, <1>3 DEF read

\* shutdown.
LEMMA shutdownStep ==
    ASSUME SocketInv, NEW pid \in SockPids, NEW s, NEW sides, shutdown(pid, s, sides)
    PROVE  SocketInv' /\ EndsStay
<1>0. PICK t : t = sockets[s].peer
  OBVIOUS
<1> DEFINE d == sockets[s].rdShut \/ "read" \in sides
           w == sockets[s].wrShut \/ "write" \in sides
           x == IF "read" \in sides THEN <<>> ELSE sockets[s].buf
<1>1. /\ s \in DOMAIN sockets /\ RecordFits(s) /\ s \in Connections /\ Sane(sockets[s]) /\ t # s
      /\ UNCHANGED <<by_owner, sockTables, next_socket_id, life, given, historyVars>>
  <2>1. Owned(s, pid) /\ sockets[s].conn
        /\ UNCHANGED <<by_owner, sockTables, next_socket_id, life, given, historyVars>>
    BY DEF shutdown
  <2>2. s \in DOMAIN sockets /\ RecordFits(s)
    BY <2>1, Opened
  <2> QED
    BY <1>0, <2>1, <2>2 DEF RecordFits, Sane, Connections
<1>2. /\ DOMAIN sockets' = DOMAIN sockets
      /\ sockets'[s] = [sockets[s] EXCEPT !.rdShut = d, !.wrShut = w, !.buf = x]
      /\ t \in DOMAIN sockets /\ "write" \in sides => sockets'[t] = [sockets[t] EXCEPT !.peerWrShut = TRUE]
      /\ t \in DOMAIN sockets /\ "write" \notin sides => sockets'[t] = sockets[t]
      /\ \A k \in DOMAIN sockets \ {s, t} : sockets'[k] = sockets[k]
  BY <1>0, <1>1 DEF shutdown
<1>3. sockets[s].rdShut \in BOOLEAN /\ sockets[s].wrShut \in BOOLEAN /\ sockets[s].buf \in Seq(Nat)
      /\ sockets[s].st = "Connected"
  BY <1>1 DEF Sane, SockRecords, Connections
<1>4. d \in BOOLEAN /\ w \in BOOLEAN /\ x \in Seq(Nat)
  <2>1. <<>> \in Seq(Nat)
    BY SMT
  <2> QED
    BY <1>3, <2>1
<1>5. /\ Sane(sockets'[s]) /\ SameEnds(sockets'[s], sockets[s]) /\ SameNames(sockets'[s], sockets[s])
      /\ SameQueue(sockets'[s], sockets[s]) /\ sockets'[s].peer = t
      /\ sockets'[s].st = "Connected" /\ sockets'[s].peerWrShut = sockets[s].peerWrShut
      /\ sockets'[s].buf = x /\ sockets'[s].rdShut = d /\ sockets'[s].wrShut = w
  <2> HIDE DEF d, w, x
  <2>1. sockets'[s].peer = sockets[s].peer => sockets'[s].peer = t
    BY <1>0
  <2>2. sockets'[s] = AsShut(sockets[s], d, w, x) /\ Sane(sockets[s]) /\ sockets[s].st = "Connected"
    BY <1>1, <1>2, <1>3 DEF AsShut
  <2>3. /\ Sane(sockets'[s]) /\ SameEnds(sockets'[s], sockets[s]) /\ SameNames(sockets'[s], sockets[s])
        /\ SameQueue(sockets'[s], sockets[s]) /\ sockets'[s].peer = sockets[s].peer
        /\ sockets'[s].st = "Connected" /\ sockets'[s].peerWrShut = sockets[s].peerWrShut
        /\ sockets'[s].buf = x /\ sockets'[s].rdShut = d /\ sockets'[s].wrShut = w
    <3>1. ShutFrom(sockets'[s], sockets[s], d, w, x)
      BY <1>4, <2>2, SaneShut
    <3> QED
      BY <3>1 DEF ShutFrom
  <2> QED
    BY <2>1, <2>3
<1>6. t # NoPeer => /\ t \in Connections /\ t \in DOMAIN sockets /\ sockets[t].peer = s
                    /\ sockets[s].peerWrShut = sockets[t].wrShut /\ sockets[t].peerWrShut = sockets[s].wrShut
  <2>1. ASSUME t # NoPeer
        PROVE  t \in Connections /\ sockets[t].peer = s /\ sockets[s].peerWrShut = sockets[t].wrShut
    BY <1>0, <1>1, <2>1 DEF SocketInv, PeersAreMutual
  <2>2. s # NoPeer
    <3>1. 0 \notin SocketIds
      BY SMT DEF SocketIds
    <3> QED
      BY <1>1, <3>1 DEF SocketInv, TablesFit, Ids, NoPeer
  <2>3. ASSUME t # NoPeer PROVE sockets[t].peerWrShut = sockets[s].wrShut
    BY <2>1, <2>2, <2>3 DEF SocketInv, PeersAreMutual
  <2> QED
    BY <2>1, <2>3 DEF Connections
<1>7. t \in DOMAIN sockets => t # NoPeer
  <2>1. 0 \notin SocketIds
    BY SMT DEF SocketIds
  <2> QED
    BY <2>1 DEF SocketInv, TablesFit, Ids, NoPeer
<1>8. ASSUME t \in DOMAIN sockets
      PROVE  /\ Sane(sockets'[t]) /\ SameEnds(sockets'[t], sockets[t]) /\ SameNames(sockets'[t], sockets[t])
             /\ SameQueue(sockets'[t], sockets[t]) /\ SameBytes(sockets'[t], sockets[t])
             /\ sockets'[t].peer = s /\ sockets'[t].st = "Connected"
             /\ sockets'[t].wrShut = sockets[t].wrShut
             /\ sockets'[t].peerWrShut = w
  <2>1. Sane(sockets[t]) /\ sockets[t].st = "Connected" /\ sockets[t].peer = s /\ sockets[t].peerWrShut = sockets[s].wrShut
    BY <1>6, <1>7, <1>8 DEF SocketInv, RecordsFit, RecordFits, Connections
  <2>2. CASE "write" \in sides
    <3>1. sockets'[t] = [sockets[t] EXCEPT !.peerWrShut = TRUE]
      BY <1>2, <1>8, <2>2
    <3>2. /\ Sane(sockets'[t]) /\ SameEnds(sockets'[t], sockets[t]) /\ SameNames(sockets'[t], sockets[t])
          /\ SameQueue(sockets'[t], sockets[t]) /\ SameBytes(sockets'[t], sockets[t])
          /\ sockets'[t].peer = sockets[t].peer /\ sockets'[t].st = "Connected"
          /\ sockets'[t].wrShut = sockets[t].wrShut /\ sockets'[t].peerWrShut
      BY ONLY SMT, <2>1, <3>1, SanePeerShut
    <3>3. sockets'[t].peerWrShut = TRUE /\ w = TRUE
      BY <1>3, <2>2, <3>1, <3>2 DEF Sane, SockRecords
    <3> QED
      BY <2>1, <3>2, <3>3
  <2>3. CASE "write" \notin sides
    BY <1>2, <1>3, <1>8, <2>1, <2>3 DEF SameEnds, SameNames, SameQueue, SameBytes
  <2> QED
    BY <2>2, <2>3
<1> HIDE DEF w
<1>9. ASSUME NEW k \in DOMAIN sockets
      PROVE  /\ SameEnds(sockets'[k], sockets[k]) /\ SameNames(sockets'[k], sockets[k])
             /\ SameQueue(sockets'[k], sockets[k])
             /\ sockets'[k].st = "Connected" <=> sockets[k].st = "Connected"
             /\ sockets'[k].peer = sockets[k].peer
             /\ ~sockets'[k].rdShut => ~sockets[k].rdShut /\ sockets'[k].buf = sockets[k].buf
  <2>1. CASE k = s
    BY <1>0, <1>3, <1>5, <2>1
  <2>2. CASE k = t
    <3>1. sockets[t].peer = s /\ sockets[t].st = "Connected"
      BY <1>6, <1>7, <2>2 DEF Connections
    <3> QED
      BY <1>8, <2>2, <3>1 DEF SameBytes
  <2>3. CASE k \notin {s, t}
    BY <1>2, <2>3 DEF SameEnds, SameNames, SameQueue
  <2> QED
    BY <2>1, <2>2, <2>3
<1>10. UNCHANGED <<sawEof, readBy, sentTo, life, given, sockTables, by_owner>>
  BY <1>1 DEF historyVars
<1>11. Grows /\ Added = {}
  BY <1>1, <1>2, SameGrows DEF SocketInv
<1>12. WithinBounds' /\ Connections' = Connections
  BY <1>2, <1>9, BoundsKept DEF SocketInv
<1>13. PeersAreMutual'
  <2> SUFFICES ASSUME NEW k \in Connections
               PROVE  IF sockets'[k].peer = NoPeer
                      THEN sockets'[k].peerWrShut \/ k \in given'
                      ELSE /\ sockets'[k].peer \in Connections
                           /\ sockets'[sockets'[k].peer].peer = k
                           /\ sockets'[k].peerWrShut = sockets'[sockets'[k].peer].wrShut
    BY <1>12 DEF PeersAreMutual
  <2>0. k \in DOMAIN sockets
    BY DEF Connections
  <2>1. CASE k = s
    <3>1. CASE t = NoPeer
      <4>1. sockets[s].peerWrShut \/ s \in given
        BY <1>0, <1>1, <3>1 DEF SocketInv, PeersAreMutual
      <4> QED
        BY <1>5, <1>10, <2>1, <3>1, <4>1
    <3>2. CASE t # NoPeer
      BY <1>5, <1>6, <1>8, <2>1, <3>2
    <3> QED
      BY <3>1, <3>2
  <2>2. CASE k = t
    <3>1. s # NoPeer
      <4>1. 0 \notin SocketIds
        BY SMT DEF SocketIds
      <4> QED
        BY <1>1, <4>1 DEF SocketInv, TablesFit, Ids, NoPeer
    <3> QED
      BY <1>1, <1>5, <1>8, <2>0, <2>2, <3>1
  <2>3. CASE k \notin {s, t}
    <3>1. sockets'[k] = sockets[k]
      BY <1>2, <2>0, <2>3
    <3>2. CASE sockets[k].peer = NoPeer
      BY <1>10, <3>1, <3>2 DEF SocketInv, PeersAreMutual
    <3>3. CASE sockets[k].peer # NoPeer
      <4>1. /\ sockets[k].peer \in Connections /\ sockets[sockets[k].peer].peer = k
            /\ sockets[k].peerWrShut = sockets[sockets[k].peer].wrShut
        BY <3>3 DEF SocketInv, PeersAreMutual
      <4>2. sockets[k].peer \notin {s, t} /\ sockets[k].peer \in DOMAIN sockets
        BY <1>0, <1>6, <1>7, <2>3, <4>1 DEF Connections
      <4>3. sockets'[sockets[k].peer] = sockets[sockets[k].peer]
        BY <1>2, <4>2
      <4> QED
        BY <3>1, <3>3, <4>1, <4>3
    <3> QED
      BY <3>2, <3>3
  <2> QED
    BY <2>1, <2>2, <2>3
<1>14. EndsFit' /\ EndsStay
  BY <1>9, <1>10, <1>11, EndsKept DEF SocketInv
<1>15. IndexesAreExact'
  BY <1>9, <1>10, <1>11, NamesKept DEF SocketInv
<1>16. Queues'
  BY <1>9, <1>10, <1>11, <1>12, QueuesKept DEF SocketInv
<1>17. BytesFit'
  <2>1. ASSUME NEW k \in Connections, ~sockets'[k].rdShut
        PROVE  sockets'[k].buf = [i \in 1 .. sentTo'[k] - readBy'[k] |-> readBy'[k] + i]
    BY <1>9, <1>10, <2>1 DEF SocketInv, BytesFit, StreamKeepsBytes, Connections
  <2>2. StreamKeepsBytes'
    BY <1>12, <2>1 DEF StreamKeepsBytes
  <2>3. Ids' = Ids
    BY <1>1 DEF Ids
  <2> QED
    BY <1>2, <1>10, <1>12, <2>2, <2>3 DEF SocketInv, BytesFit
<1>18. RecordsFit'
  <2>1. RecordFits(s)'
    BY <1>1, <1>5, <1>10 DEF RecordFits, SameNames
  <2>2. t \in DOMAIN sockets => RecordFits(t)'
    BY <1>1, <1>8, <1>10 DEF SocketInv, RecordsFit, RecordFits, SameNames
  <2> QED
    BY <1>2, <1>10, <2>1, <2>2, RecordsKept DEF SocketInv
<1>19. TablesFit' /\ NoTwoHoldAnAddress'
  BY <1>1, <1>2, <1>10 DEF SocketInv, TablesFit, NoTwoHoldAnAddress, sockTables, Ids
<1> QED
  BY <1>12, <1>13, <1>14, <1>15, <1>16, <1>17, <1>18, <1>19 DEF SocketInv

-----------------------------------------------------------------------------
(* Removal.                                                                *)

\* What is left of a socket that stays.
Stays(r, q, gone) ==
    /\ Sane(r) /\ SameNames(r, q) /\ SameQueue(r, q) /\ SameBytes(r, q)
    /\ r.st = q.st /\ r.conn = q.conn /\ r.wrShut = q.wrShut
    /\ IF q.peer \in gone THEN r.peer = NoPeer /\ r.peerWrShut = TRUE ELSE r = q
AsAlone(q) == [q EXCEPT !.peer = NoPeer, !.peerWrShut = TRUE]
LEMMA SaneAlone ==
    ASSUME NEW q, Sane(q), q.st = "Connected", NEW gone, q.peer \in gone
    PROVE  Stays(AsAlone(q), q, gone)
<1> DEFINE r == AsAlone(q)
<1>1. Sane(r)
  BY DEF Sane, SockRecords, AsAlone
<1>2. /\ SameNames(r, q) /\ SameQueue(r, q) /\ SameBytes(r, q) /\ r.peer = NoPeer
      /\ r.st = q.st /\ r.conn = q.conn /\ r.wrShut = q.wrShut /\ r.peerWrShut = TRUE
  BY SMT DEF AsAlone, Sane, SockRecords, SameNames, SameQueue, SameBytes
<1> QED
  BY <1>1, <1>2 DEF Stays
LEMMA SaneStays ==
    ASSUME NEW q, Sane(q), NEW gone, NoPeer \notin gone,
           NEW r, r = IF q.peer \in gone THEN AsAlone(q) ELSE q
    PROVE  Stays(r, q, gone)
<1>1. CASE q.peer \in gone
  <2>1. q.st = "Connected" /\ r = AsAlone(q)
    BY <1>1 DEF Sane
  <2> QED
    BY <1>1, <2>1, SaneAlone
<1>2. CASE q.peer \notin gone
  BY <1>2 DEF Stays, SameNames, SameQueue, SameBytes
<1> QED
  BY <1>1, <1>2

\* remove_socket of some sockets, and of those that they had not accepted.
LEMMA Removes ==
    ASSUME SocketInv, SizesFit, NEW R \in SUBSET DOMAIN sockets, NEW gone, gone = RemovedWith(R),
           RemoveSockets(gone), UNCHANGED <<next_socket_id, given, historyVars>>,
           life' \in [SockPids -> {"running", "closing", "exited", "waited"}],
           \A k \in DOMAIN sockets \ gone : life'[sockets[k].owner] # "waited"
    PROVE  SocketInv' /\ EndsStay
<1>0. gone = R \cup {k \in DOMAIN sockets : \E r \in R : k \in PendingAt(r)}
  <2> DEFINE U == UNION {PendingAt(s) : s \in R}
  <2>1. \A k : k \in U <=> \E r \in R : k \in PendingAt(r)
    OBVIOUS
  <2>2. gone = R \cup (U \cap DOMAIN sockets)
    BY DEF RemovedWith
  <2> HIDE DEF U
  <2> QED
    BY <2>1, <2>2
<1>1. /\ gone \subseteq DOMAIN sockets /\ R \subseteq gone /\ DOMAIN sockets \subseteq SocketIds
      /\ NoPeer \notin DOMAIN sockets
  <2>1. 0 \notin SocketIds
    BY SMT DEF SocketIds
  <2> QED
    BY <1>0, <2>1 DEF SocketInv, TablesFit, Ids, NoPeer
<1>2. /\ DOMAIN sockets' = DOMAIN sockets \ gone
      /\ \A k \in DOMAIN sockets' : Stays(sockets'[k], sockets[k], gone)
  <2>1. DOMAIN sockets' = DOMAIN sockets \ gone
        /\ \A k \in DOMAIN sockets \ gone :
              sockets'[k] = IF sockets[k].peer \in gone
                            THEN AsAlone(sockets[k]) ELSE sockets[k]
    BY DEF RemoveSockets, TellPeers, AsAlone
  <2>2. ASSUME NEW k \in DOMAIN sockets' PROVE Stays(sockets'[k], sockets[k], gone)
    <3>1. Sane(sockets[k]) /\ NoPeer \notin gone
      BY <1>1, <2>1 DEF SocketInv, RecordsFit, RecordFits
    <3> QED
      BY <2>1, <3>1, SaneStays
  <2> QED
    BY <2>1, <2>2
<1>3. Connections' = Connections \ gone
  BY SMT, <1>2 DEF Connections, Stays
<1>4. UNCHANGED <<given, sawEof, readBy, sentTo, next_socket_id>>
  BY DEF historyVars
<1>5. RecordsFit'
  <2> SUFFICES ASSUME NEW k \in DOMAIN sockets' PROVE RecordFits(k)'
    BY DEF RecordsFit
  <2>1. RecordFits(k) /\ k \in DOMAIN sockets \ gone /\ k # NoPeer /\ Stays(sockets'[k], sockets[k], gone)
    BY <1>1, <1>2 DEF SocketInv, RecordsFit
  <2>2. sockets'[k].peer # k
    BY <2>1 DEF Stays, RecordFits
  <2> QED
    BY <1>4, <2>1, <2>2 DEF Stays, RecordFits, SameNames
<1>6. WithinBounds'
  <2>1. /\ DOMAIN sockets \in SUBSET SocketIds /\ DOMAIN sockets' \in SUBSET DOMAIN sockets
        /\ Connections \in SUBSET SocketIds /\ Connections' \in SUBSET Connections
        /\ DOMAIN sockets' \in SUBSET SocketIds /\ Connections' \in SUBSET SocketIds
    BY <1>1, <1>2, <1>3 DEF Connections
  <2>2. /\ Cardinality(DOMAIN sockets') <= Cardinality(DOMAIN sockets)
        /\ Cardinality(Connections') <= Cardinality(Connections)
        /\ Cardinality(DOMAIN sockets) \in Nat /\ Cardinality(DOMAIN sockets') \in Nat
        /\ Cardinality(Connections) \in Nat /\ Cardinality(Connections') \in Nat
    BY <2>1 DEF SizesFit
  <2>3. Cardinality(DOMAIN sockets) <= max_sockets /\ Cardinality(Connections) <= max_connections
    BY DEF SocketInv, WithinBounds
  <2>4. Cardinality(DOMAIN sockets') <= max_sockets /\ Cardinality(Connections') <= max_connections
    BY SMT, <2>2, <2>3, SocketAssumption
  <2> QED
    BY <2>4 DEF WithinBounds
<1>7. PeersAreMutual'
  <2> SUFFICES ASSUME NEW k \in Connections \ gone
               PROVE  IF sockets'[k].peer = NoPeer
                      THEN sockets'[k].peerWrShut \/ k \in given
                      ELSE /\ sockets'[k].peer \in Connections \ gone
                           /\ sockets'[sockets'[k].peer].peer = k
                           /\ sockets'[k].peerWrShut = sockets'[sockets'[k].peer].wrShut
    BY <1>3, <1>4 DEF PeersAreMutual
  <2>1. k \in DOMAIN sockets \ gone /\ Stays(sockets'[k], sockets[k], gone)
    BY <1>2 DEF Connections
  <2>2. CASE sockets[k].peer \in gone
    BY <2>1, <2>2 DEF Stays
  <2>3. CASE sockets[k].peer = NoPeer
    <3>1. sockets'[k] = sockets[k]
      BY <1>1, <2>1, <2>3 DEF Stays
    <3> QED
      BY <2>3, <3>1 DEF SocketInv, PeersAreMutual
  <2>4. CASE sockets[k].peer \notin gone /\ sockets[k].peer # NoPeer
    <3>1. /\ sockets'[k] = sockets[k] /\ sockets[k].peer \in Connections /\ sockets[sockets[k].peer].peer = k
          /\ sockets[k].peerWrShut = sockets[sockets[k].peer].wrShut
      BY <2>1, <2>4 DEF Stays, SocketInv, PeersAreMutual
    <3>2. sockets'[sockets[k].peer] = sockets[sockets[k].peer]
      <4>1. sockets[k].peer \in DOMAIN sockets'
        BY <1>2, <2>4, <3>1 DEF Connections
      <4>2. Stays(sockets'[sockets[k].peer], sockets[sockets[k].peer], gone)
        BY <1>2, <4>1
      <4> QED
        BY <3>1, <4>2 DEF Stays
    <3> QED
      BY <2>4, <3>1, <3>2
  <2> QED
    BY <2>2, <2>3, <2>4
<1>8. /\ by_owner' = [p \in SockPids |-> by_owner[p] \ gone]
      /\ bound_inet_datagrams' = [a \in InetAddresses |-> bound_inet_datagrams[a] \ gone]
      /\ multicast_groups' = [g \in Groups |-> multicast_groups[g] \ gone]
      /\ DOMAIN bound_streams' = {b \in DOMAIN bound_streams : bound_streams[b] \notin gone}
      /\ \A b \in DOMAIN bound_streams' : bound_streams'[b] = bound_streams[b]
  BY DEF RemoveSockets, Unregister
<1>9. IndexesAreExact'
  <2>0. IndexesAreExact /\ \A k \in DOMAIN sockets' : k \in DOMAIN sockets /\ SameNames(sockets'[k], sockets[k])
                                                      /\ sockets'[k].st = sockets[k].st
    BY <1>2 DEF SocketInv, Stays
  <2>1. \A p \in SockPids : by_owner'[p] = {k \in DOMAIN sockets' : sockets'[k].owner = p}
    BY SMT, <1>2, <1>8, <2>0 DEF IndexesAreExact, SameNames
  <2>2. \A a \in DOMAIN bound_streams' :
            bound_streams'[a] \in DOMAIN sockets' /\ sockets'[bound_streams'[a]].local = a
    BY SMT, <1>2, <1>8, <2>0 DEF IndexesAreExact, SameNames
  <2>3. \A k \in DOMAIN sockets' :
            sockets'[k].st \in {"Bound", "Listening"} /\ sockets'[k].spec # "udp" =>
                sockets'[k].local \in DOMAIN bound_streams' /\ bound_streams'[sockets'[k].local] = k
    BY SMT, <1>2, <1>8, <2>0 DEF IndexesAreExact, SameNames
  <2>4. \A a \in InetAddresses :
            bound_inet_datagrams'[a] =
                {k \in DOMAIN sockets' : sockets'[k].spec = "udp" /\ sockets'[k].local = a}
    BY SMT, <1>2, <1>8, <2>0 DEF IndexesAreExact, SameNames
  <2>5. \A g \in Groups : multicast_groups'[g] = {k \in DOMAIN sockets' : g \in sockets'[k].groups}
    BY SMT, <1>2, <1>8, <2>0 DEF IndexesAreExact, SameNames
  <2> QED
    BY <2>1, <2>2, <2>3, <2>4, <2>5 DEF IndexesAreExact
<1>10. NoTwoHoldAnAddress'
  BY <1>8 DEF SocketInv, NoTwoHoldAnAddress
<1>11. Queues'
  <2>0. \A k \in DOMAIN sockets' : /\ k \in DOMAIN sockets /\ sockets'[k].pending = sockets[k].pending
                                   /\ sockets'[k].owner = sockets[k].owner /\ sockets'[k].st = sockets[k].st
    BY <1>2 DEF Stays, SameQueue
  <2>1. QueuedFit'
    <3> SUFFICES ASSUME NEW l \in DOMAIN sockets', NEW i \in DOMAIN sockets'[l].pending,
                        NEW x, x = sockets'[l].pending[i], x # NoPeer
                 PROVE  /\ x \in Ids'
                        /\ x \in DOMAIN sockets' =>
                              sockets'[x].st = "Connected" /\ sockets'[x].owner = sockets'[l].owner
      BY SMT DEF QueuedFit
    <3>1. l \in DOMAIN sockets /\ i \in DOMAIN sockets[l].pending /\ x = sockets[l].pending[i]
      BY <2>0
    <3>2. x \in Ids /\ (x \in DOMAIN sockets =>
                          sockets[x].st = "Connected" /\ sockets[x].owner = sockets[l].owner)
      BY SMT, <3>1 DEF SocketInv, Queues, QueuedFit
    <3> QED
      BY <1>4, <2>0, <3>2 DEF Ids
  <2>2. QueuedOnce'
    BY SMT, <2>0 DEF SocketInv, Queues, QueuedOnce
  <2>3. NoneIsForgotten'
    <3> SUFFICES ASSUME NEW s \in Connections \ gone, s \notin given
                 PROVE  \E l \in DOMAIN sockets' : s \in PendingAt(l)'
      BY <1>3, <1>4 DEF NoneIsForgotten
    <3>1. PICK l \in DOMAIN sockets : s \in PendingAt(l)
      BY DEF SocketInv, Queues, NoneIsForgotten
    <3>2. l \notin gone
      <4>1. l \notin R
        BY <1>0, <3>1 DEF Connections
      <4>2. ASSUME NEW r \in R, l \in PendingAt(r) PROVE FALSE
        <5>1. l # NoPeer
          BY <1>1
        <5>2. sockets[l].st = "Connected"
          <6>1. PICK i \in DOMAIN sockets[r].pending : l = sockets[r].pending[i]
            BY <4>2 DEF PendingAt
          <6> QED
            BY <5>1, <6>1 DEF SocketInv, Queues, QueuedFit
        <5>3. sockets[l].pending = <<>>
          BY <5>2 DEF SocketInv, RecordsFit, RecordFits, Sane
        <5>4. DOMAIN <<>> = {}
          BY SMT
        <5> QED
          BY <3>1, <5>3, <5>4 DEF PendingAt
      <4> QED
        BY <1>0, <4>1, <4>2
    <3>3. l \in DOMAIN sockets'
      BY <1>2, <3>2
    <3>4. PendingAt(l)' = PendingAt(l)
      <4>1. sockets'[l].pending = sockets[l].pending
        BY <2>0, <3>3
      <4> QED
        BY <4>1 DEF PendingAt
    <3> QED
      BY <3>1, <3>3, <3>4
  <2> QED
    BY <2>1, <2>2, <2>3 DEF Queues
<1>12. BytesFit'
  <2>1. StreamKeepsBytes'
    <3> SUFFICES ASSUME NEW s \in Connections \ gone, ~sockets'[s].rdShut
                 PROVE  sockets'[s].buf = [i \in 1 .. sentTo[s] - readBy[s] |-> readBy[s] + i]
      BY <1>3, <1>4 DEF StreamKeepsBytes
    <3>1. Stays(sockets'[s], sockets[s], gone)
      BY <1>2 DEF Connections
    <3>2. sockets'[s].rdShut = sockets[s].rdShut /\ sockets'[s].buf = sockets[s].buf
      BY <3>1 DEF Stays, SameBytes
    <3> QED
      BY <3>2 DEF SocketInv, BytesFit, StreamKeepsBytes
  <2>2. Ids' = Ids /\ DOMAIN sockets' \ Connections' \subseteq DOMAIN sockets \ Connections
    BY <1>2, <1>3, <1>4 DEF Ids
  <2> QED
    BY <1>4, <2>1, <2>2 DEF SocketInv, BytesFit
<1>13. EndsFit'
  <2>1. ASSUME NEW s \in sawEof, s \in DOMAIN sockets' PROVE sockets'[s].conn /\ PeerIsDone(s)'
    <3>1. s \in DOMAIN sockets /\ sockets[s].conn /\ PeerIsDone(s) /\ Stays(sockets'[s], sockets[s], gone)
      BY <1>2, <2>1 DEF SocketInv, EndsFit
    <3> QED
      BY <1>2, <3>1 DEF Stays, PeerIsDone
  <2> QED
    BY <1>4, <2>1 DEF SocketInv, EndsFit, Ids
<1>14. TablesFit'
  <2>1. /\ by_owner \in [SockPids -> SUBSET SocketIds]
        /\ bound_inet_datagrams \in [InetAddresses -> SUBSET SocketIds]
        /\ multicast_groups \in [Groups -> SUBSET SocketIds] /\ DOMAIN bound_streams \subseteq Addresses
        /\ next_socket_id \in 1 .. MaxSocketIds + 1 /\ DOMAIN sockets \subseteq Ids
    BY DEF SocketInv, TablesFit
  <2>2. /\ by_owner' \in [SockPids -> SUBSET SocketIds]
        /\ bound_inet_datagrams' \in [InetAddresses -> SUBSET SocketIds]
        /\ multicast_groups' \in [Groups -> SUBSET SocketIds] /\ DOMAIN bound_streams' \subseteq Addresses
    BY <1>8, <2>1
  <2>3. DOMAIN sockets' \subseteq Ids'
    BY <1>2, <1>4, <2>1 DEF Ids
  <2> QED
    BY <1>4, <2>1, <2>2, <2>3 DEF TablesFit
<1>15. EndsStay
  <2> SUFFICES ASSUME NEW s \in SocketIds, Done(s) PROVE Done(s)'
    BY DEF EndsStay
  <2>1. CASE s \notin DOMAIN sockets'
    BY <1>4, <2>1 DEF Done
  <2>2. CASE s \in DOMAIN sockets'
    <3>1. s \in DOMAIN sockets /\ sockets[s].conn /\ PeerIsDone(s) /\ Stays(sockets'[s], sockets[s], gone)
      BY <1>2, <2>2 DEF Done
    <3>2. sockets'[s].conn /\ PeerIsDone(s)'
      BY <1>2, <3>1 DEF Stays, PeerIsDone
    <3> QED
      BY <1>4, <3>2 DEF Done
  <2> QED
    BY <2>1, <2>2
<1> QED
  BY <1>5, <1>6, <1>7, <1>9, <1>10, <1>11, <1>12, <1>13, <1>14, <1>15 DEF SocketInv

\* socket_close.
LEMMA socket_closeStep ==
    ASSUME SocketInv, SizesFit, NEW pid \in SockPids, NEW s, socket_close(pid, s) PROVE SocketInv' /\ EndsStay
<1>1. s \in DOMAIN sockets /\ RemoveSockets(RemovedWith({s}))
      /\ UNCHANGED <<next_socket_id, life, given, historyVars>>
  BY Opened DEF socket_close
<1>2. life' \in [SockPids -> {"running", "closing", "exited", "waited"}]
      /\ \A k \in DOMAIN sockets : life'[sockets[k].owner] # "waited"
  BY <1>1 DEF SocketInv, TablesFit, RecordsFit, RecordFits
<1>3. PICK gone : gone = RemovedWith({s})
  OBVIOUS
<1>4. RemoveSockets(gone)
  BY <1>1, <1>3
<1> QED
  BY <1>1, <1>2, <1>3, <1>4, Removes

\* cleanup_process_resources when a process exits.
LEMMA ExitRemovesSocketsStep ==
    ASSUME SocketInv, SizesFit, NEW pid \in SockPids, ExitRemovesSockets(pid) PROVE SocketInv' /\ EndsStay
<1>1. RemoveSockets(RemovedWith(by_owner[pid])) /\ UNCHANGED <<next_socket_id, given, historyVars>>
      /\ life' = [life EXCEPT ![pid] = "closing"]
  BY DEF ExitRemovesSockets
<1>2. life \in [SockPids -> {"running", "closing", "exited", "waited"}]
      /\ (\A k \in DOMAIN sockets : life[sockets[k].owner] # "waited" /\ sockets[k].owner \in SockPids)
  BY DEF SocketInv, TablesFit, RecordsFit, RecordFits, Sane, SockRecords
<1>3. life' \in [SockPids -> {"running", "closing", "exited", "waited"}]
      /\ \A k \in DOMAIN sockets : life'[sockets[k].owner] # "waited"
  BY <1>1, <1>2
<1>4. by_owner[pid] \in SUBSET DOMAIN sockets
  BY DEF SocketInv, IndexesAreExact
<1>5. PICK gone : gone = RemovedWith(by_owner[pid])
  OBVIOUS
<1>6. RemoveSockets(gone)
  BY <1>1, <1>5
<1> QED
  BY <1>1, <1>3, <1>4, <1>5, <1>6, Removes

\* waitpid.
LEMMA WaitRemovesSocketsStep ==
    ASSUME SocketInv, SizesFit, NEW pid \in SockPids, WaitRemovesSockets(pid) PROVE SocketInv' /\ EndsStay
<1>1. RemoveSockets(RemovedWith(by_owner[pid])) /\ UNCHANGED <<next_socket_id, given, historyVars>>
      /\ life' = [life EXCEPT ![pid] = "waited"]
  BY DEF WaitRemovesSockets
<1>2. life \in [SockPids -> {"running", "closing", "exited", "waited"}]
      /\ (\A k \in DOMAIN sockets : life[sockets[k].owner] # "waited" /\ sockets[k].owner \in SockPids)
  BY DEF SocketInv, TablesFit, RecordsFit, RecordFits, Sane, SockRecords
<1>3. by_owner[pid] = {k \in DOMAIN sockets : sockets[k].owner = pid}
  BY DEF SocketInv, IndexesAreExact
<1>4. PICK gone : gone = RemovedWith(by_owner[pid])
  OBVIOUS
<1>5. by_owner[pid] \subseteq gone
  BY <1>4 DEF RemovedWith
<1>6. life' \in [SockPids -> {"running", "closing", "exited", "waited"}]
      /\ \A k \in DOMAIN sockets \ gone : life'[sockets[k].owner] # "waited"
  BY <1>1, <1>2, <1>3, <1>5
<1>7. RemoveSockets(gone) /\ by_owner[pid] \in SUBSET DOMAIN sockets
  BY <1>1, <1>3, <1>4
<1> QED
  BY <1>1, <1>4, <1>6, <1>7, Removes

\* The end of an exit.
LEMMA ExitEndsStep ==
    ASSUME SocketInv, NEW pid \in SockPids, ExitEnds(pid) PROVE SocketInv' /\ EndsStay
<1> USE DEF sockTables, historyVars
<1>1. life' = [life EXCEPT ![pid] = "exited"] /\ life[pid] = "closing"
      /\ UNCHANGED <<sockets, by_owner, sockTables, next_socket_id, given, historyVars>>
  BY DEF ExitEnds
<1>2. life \in [SockPids -> {"running", "closing", "exited", "waited"}]
      /\ (\A k \in DOMAIN sockets : life[sockets[k].owner] # "waited" /\ sockets[k].owner \in SockPids)
  BY DEF SocketInv, TablesFit, RecordsFit, RecordFits, Sane, SockRecords
<1>3. life' \in [SockPids -> {"running", "closing", "exited", "waited"}]
      /\ \A k \in DOMAIN sockets : life'[sockets[k].owner] # "waited"
  BY <1>1, <1>2
<1>4. TablesFit' /\ RecordsFit'
  BY <1>1, <1>3 DEF SocketInv, TablesFit, RecordsFit, RecordFits, Ids
<1>5. WithinBounds' /\ NoTwoHoldAnAddress' /\ Connections' = Connections
  BY <1>1 DEF SocketInv, WithinBounds, NoTwoHoldAnAddress, Connections
<1>6. PeersAreMutual' /\ IndexesAreExact'
  BY <1>1 DEF SocketInv, PeersAreMutual, IndexesAreExact, Connections
<1>7. Grows /\ Added = {}
  BY <1>1, SameGrows DEF SocketInv
<1>8. Queues' /\ BytesFit' /\ EndsFit' /\ EndsStay
  BY <1>1, <1>5, <1>7, QueuesKept, BytesKept, EndsKept DEF SocketInv, SameQueue, SameBytes, SameEnds
<1> QED
  BY <1>4, <1>5, <1>6, <1>8 DEF SocketInv

-----------------------------------------------------------------------------
(* The invariant.                                                          *)

INSTANCE FiniteSetTheorems

\* No socket exists at the start.
LEMMA SockStarts == ASSUME SockInit, SizesFit PROVE SocketInv
<1> USE DEF SockInit
<1>1. DOMAIN sockets = {} /\ DOMAIN bound_streams = {} /\ Connections = {}
  BY SMT DEF Connections
<1>2. Cardinality({}) = 0
  BY FS_EmptySet
<1>3. TablesFit
  BY SMT, <1>1, SocketAssumption DEF TablesFit
<1>4. WithinBounds
  BY SMT, <1>1, <1>2, SocketAssumption DEF WithinBounds
<1>5. IndexesAreExact
  BY <1>1 DEF IndexesAreExact
<1>6. BytesFit
  BY SMT, <1>1 DEF BytesFit, StreamKeepsBytes
<1> QED
  BY <1>1, <1>3, <1>4, <1>5, <1>6
     DEF SocketInv, RecordsFit, PeersAreMutual, NoTwoHoldAnAddress, Queues, QueuedFit, QueuedOnce,
         NoneIsForgotten, EndsFit

\* A call of a process on a socket of its own.
LEMMA CallStep ==
    ASSUME SocketInv, SizesFit, NEW pid \in SockPids, NEW s,
           \/ NameStep(pid, s) \/ DataStep(pid, s)
           \/ enqueue_incoming_tcp_connection(pid, s) \/ accept(pid, s) \/ socket_close(pid, s)
    PROVE  SocketInv' /\ Channels
<1>1. CASE NameStep(pid, s)
  <2>1. ASSUME NEW a, bind(pid, s, a) PROVE SocketInv' /\ Channels
    BY <2>1, bindStep, AllRest DEF bind
  <2>2. ASSUME NEW a, connect(pid, s, a) PROVE SocketInv' /\ Channels
    BY <2>2, connectStep, AllRest DEF connect
  <2>3. ASSUME NEW r \in SUBSET {"addr", "port"}, set_datagram_option(pid, s, r)
        PROVE  SocketInv' /\ Channels
    BY <2>3, set_datagram_optionStep, AllRest DEF set_datagram_option
  <2>4. ASSUME NEW g \in Groups, NEW m \in BOOLEAN, set_membership(pid, s, g, m)
        PROVE  SocketInv' /\ Channels
    BY <2>4, set_membershipStep, AllRest DEF set_membership
  <2>5. ASSUME NEW n \in 1 .. MaxBacklog, listen(pid, s, n) PROVE SocketInv' /\ Channels
    <3>1. n \in Nat
      BY SMT
    <3> QED
      BY <3>1, <2>5, listenStep, AllRest DEF listen
  <2>6. ASSUME NEW t, connect_pair(pid, s, t) PROVE SocketInv' /\ Channels
    BY <2>6, connect_pairStep, AllRest DEF connect_pair
  <2> QED
    BY <1>1, <2>1, <2>2, <2>3, <2>4, <2>5, <2>6 DEF NameStep
<1>2. CASE DataStep(pid, s)
  <2>1. ASSUME NEW n \in 1 .. MaxBytes, write(pid, s, n) \/ read(pid, s, n)
        PROVE  SocketInv' /\ Channels
    BY <2>1, writeStep, readStep
  <2>2. ASSUME NEW sides, shutdown(pid, s, sides) PROVE SocketInv' /\ Channels
    BY <2>2, shutdownStep, AllRest DEF shutdown
  <2>3. ASSUME NEW a, send_to(pid, s, a) PROVE SocketInv' /\ Channels
    BY <2>3, send_toStep, AllRest DEF send_to
  <2>4. ASSUME recv_datagram(pid, s) PROVE SocketInv' /\ Channels
    BY <2>4, recv_datagramStep, AllRest DEF recv_datagram
  <2> QED
    BY <1>2, <2>1, <2>2, <2>3, <2>4 DEF DataStep
<1>3. CASE enqueue_incoming_tcp_connection(pid, s)
  BY <1>3, enqueueStep, AllRest DEF enqueue_incoming_tcp_connection
<1>4. CASE accept(pid, s)
  BY <1>4, acceptStep, AllRest DEF accept
<1>5. CASE socket_close(pid, s)
  BY <1>5, socket_closeStep, AllRest DEF socket_close
<1> QED
  BY <1>1, <1>2, <1>3, <1>4, <1>5

\* Every call and every step of an exit keeps the invariant, and is a step of the channels.
LEMMA SockStep == ASSUME SocketInv, SizesFit, [SockNext]_sockVars PROVE SocketInv' /\ Channels
<1>1. ASSUME NEW pid \in SockPids, NEW spec \in Specs, socket_create(pid, spec)
      PROVE  SocketInv' /\ Channels
  BY <1>1, socket_createStep, AllRest DEF socket_create
<1>2. ASSUME NEW pid \in SockPids, NEW s,
             \/ NameStep(pid, s) \/ DataStep(pid, s)
             \/ enqueue_incoming_tcp_connection(pid, s) \/ accept(pid, s) \/ socket_close(pid, s)
      PROVE  SocketInv' /\ Channels
  BY <1>2, CallStep
<1>3. ASSUME NEW pid \in SockPids, ExitRemovesSockets(pid) PROVE SocketInv' /\ Channels
  BY <1>3, ExitRemovesSocketsStep, AllRest DEF ExitRemovesSockets
<1>4. ASSUME NEW pid \in SockPids, ExitEnds(pid) PROVE SocketInv' /\ Channels
  BY <1>4, ExitEndsStep, AllRest DEF ExitEnds
<1>5. ASSUME NEW pid \in SockPids, WaitRemovesSockets(pid) PROVE SocketInv' /\ Channels
  BY <1>5, WaitRemovesSocketsStep, AllRest DEF WaitRemovesSockets
<1>6. ASSUME UNCHANGED sockVars PROVE SocketInv' /\ Channels
  BY <1>6, NothingStep, AllRest DEF sockVars, historyVars
<1> QED
  BY <1>1, <1>2, <1>3, <1>4, <1>5, <1>6 DEF SockNext

\* The invariant shows the soundness of the tables: a connection that nobody was told of waits
\* at one position of one queue.
LEMMA SockShows == ASSUME SocketInv PROVE SocketsAreSound
<1>1. DOMAIN sockets \subseteq SocketIds
  BY DEF SocketInv, TablesFit, Ids
<1>2. SockTypeOK
  BY <1>1 DEF SockTypeOK, SocketInv, TablesFit, RecordsFit, RecordFits, Sane, WithinBounds,
         SockRecords, States, Addresses
<1>3. WaitedProcessHasNoSockets
  BY DEF WaitedProcessHasNoSockets, SocketInv, RecordsFit, RecordFits
<1>4. UnacceptedAreQueued
  <2> SUFFICES ASSUME NEW s \in Connections \ given
               PROVE  \E l \in DOMAIN sockets :
                        /\ sockets[l].st = "Listening" /\ sockets[l].owner = sockets[s].owner
                        /\ Cardinality({i \in DOMAIN sockets[l].pending :
                                          sockets[l].pending[i] = s}) = 1
                        /\ \A k \in DOMAIN sockets \ {l} : s \notin PendingAt(k)
    BY DEF UnacceptedAreQueued
  <2>1. PICK l \in DOMAIN sockets : s \in PendingAt(l)
    BY DEF SocketInv, Queues, NoneIsForgotten
  <2>2. PICK i \in DOMAIN sockets[l].pending : sockets[l].pending[i] = s
    BY <2>1 DEF PendingAt
  <2>3. s \in DOMAIN sockets /\ s # NoPeer
    BY SMT, <1>1 DEF Connections, SocketIds, NoPeer
  <2>4. \A k \in DOMAIN sockets : \A j \in DOMAIN sockets[k].pending :
           sockets[k].pending[j] = s => k = l /\ j = i
    BY SMT, <2>2, <2>3 DEF SocketInv, Queues, QueuedOnce
  <2>5. sockets[l].st = "Listening"
    <3>1. sockets[l].pending = <<>> => DOMAIN sockets[l].pending = {}
      BY SMT
    <3> QED
      BY <3>1, <2>2 DEF SocketInv, RecordsFit, RecordFits, Sane
  <2>6. sockets[l].owner = sockets[s].owner
    BY <2>2, <2>3 DEF SocketInv, Queues, QueuedFit
  <2>7. Cardinality({j \in DOMAIN sockets[l].pending : sockets[l].pending[j] = s}) = 1
    <3>1. {j \in DOMAIN sockets[l].pending : sockets[l].pending[j] = s} = {i}
      BY <2>2, <2>4
    <3> QED
      BY <3>1, FS_Singleton
  <2> QED
    BY <2>4, <2>5, <2>6, <2>7 DEF PendingAt
<1> QED
  BY <1>2, <1>3, <1>4 DEF SocketInv, SocketsAreSound, BytesFit

\* The sizes of sets of identifiers.
LEMMA SizesDoFit == SizesFit
<1>1. IsFiniteSet(SocketIds)
  BY SMT, FS_Interval, SocketAssumption DEF SocketIds
<1>2. ASSUME NEW S \in SUBSET SocketIds PROVE IsFiniteSet(S) /\ Cardinality(S) \in Nat
  BY <1>1, FS_Subset, FS_CardinalityType
<1>3. ASSUME NEW S \in SUBSET SocketIds, NEW x \in SocketIds
      PROVE  Cardinality(S \cup {x}) <= Cardinality(S) + 1
  BY SMT, <1>2, FS_AddElement
<1>4. ASSUME NEW S \in SUBSET SocketIds, NEW T \in SUBSET S PROVE Cardinality(T) <= Cardinality(S)
  BY <1>2, FS_Subset
<1> QED
  BY <1>2, <1>3, <1>4 DEF SizesFit

\* The tables of sockets are sound after any calls, connections and exits, of any number of
\* processes and within any limits: the ends of a connection name each other or know that the
\* other is gone, the indexes tell of exactly the sockets there are, no connection is lost between
\* connect and accept, a process that was waited for has no socket, and no byte is lost, repeated
\* or overtaken (SocketTable, cleanup_process_resources).
THEOREM SocketsStaySound == SockSpec => []SocketsAreSound
<1>1. (SockInit => SocketInv) /\ (SocketInv /\ [SockNext]_sockVars => SocketInv')
      /\ (SocketInv => SocketsAreSound)
  BY SizesDoFit, SockStarts, SockStep, SockShows
<1> QED
  BY <1>1, PTL DEF SockSpec

\* No channel has a byte or an end at the start.
LEMMA ChannelsStart == ASSUME SockInit, NEW s \in SocketIds PROVE SocketChannel(s)!Init
<1>1. sentTo[s] = 0 /\ readBy[s] = 0 /\ (s \in sawEof) = FALSE
  BY SMT DEF SockInit
<1>2. ~(s < next_socket_id)
  BY SMT DEF SockInit, SocketIds
<1> QED
  BY <1>1, <1>2 DEF SocketChannel!Init

\* Each direction of a connection is a byte channel, the one a pipe also implements, in every
\* order of calls, connections and exits: nothing is sent after the end, the end is told of after
\* the last byte and never taken back (write, read, shutdown, remove_socket).
THEOREM SocketsRefineChannels == SockSpec => SocketsAreChannels
<1>1. (SockInit => SocketInv) /\ (SocketInv /\ [SockNext]_sockVars => SocketInv' /\ Channels)
  BY SizesDoFit, SockStarts, SockStep
<1>2. SockInit => \A s \in SocketIds : SocketChannel(s)!Init
  BY ChannelsStart
<1> QED
  BY <1>1, <1>2, PTL DEF SockSpec, SocketsAreChannels, Channels, ChannelStep
=============================================================================
