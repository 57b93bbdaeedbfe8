----------------------------- MODULE SocketTable -----------------------------
(***************************************************************************)
(* The sockets of a VM: SocketTable of crates/kernel/src/socket_table.rs   *)
(* behind the socket_* calls of kernel.rs, and the removal of a process's  *)
(* sockets when it exits.  The table is behind one lock and the kernel's   *)
(* calls exclude each other, so a call is one step; the steps of several   *)
(* processes and their exits interleave freely.                            *)
(*                                                                         *)
(* A socket is a TCP stream, a UNIX stream or a UDP socket.  Addresses     *)
(* have one port: "any" is the wildcard 0.0.0.0, "lo" is 127.0.0.1, other  *)
(* members of InetAddresses are other hosts.  Bytes are numbered in the    *)
(* order in which the writes to a socket's peer accept them.  Of the       *)
(* errors the model keeps that the table is left as it was.  The calls of  *)
(* socket_set_state, which only tests make, are left out.  One driver has  *)
(* all the processes.                                                      *)
(***************************************************************************)
EXTENDS Integers, Sequences, FiniteSets

CONSTANTS
    SockPids, InetAddresses, UnixPaths, Groups, Specs,
    max_sockets, max_connections,   \* of ResourceLimits
    MaxSocketIds,                   \* bound: sockets ever allocated
    MaxBytes, MaxDatagrams, MaxBacklog

ASSUME SocketAssumption ==
    /\ Specs \subseteq {"tcp", "unix", "udp"}
    /\ UnixPaths \cap (InetAddresses \cup {"any", "lo"}) = {}
    /\ "none" \notin InetAddresses \cup UnixPaths
    /\ {max_sockets, max_connections, MaxSocketIds, MaxBytes, MaxDatagrams} \subseteq Nat
    /\ MaxBacklog \in Nat \ {0}

VARIABLES
    sockets,            \* id -> SocketRecord
    by_owner,           \* pid -> ids
    bound_streams,      \* address or path -> id: bound_inet_streams, bound_unix_streams
    bound_inet_datagrams, multicast_groups,
    next_socket_id,
    life,               \* pid -> running, closing (its exit cleans up), exited, waited
    given,              \* history: ids some process has been told of
    sentTo, readBy,     \* history: bytes put into and taken from a socket's buffer
    sawEof              \* history: sockets whose reader was told of the end

sockTables == <<bound_streams, bound_inet_datagrams, multicast_groups>>
sockVars == <<sockets, by_owner, sockTables, next_socket_id, life, given, sentTo, readBy,
              sawEof>>

SocketIds == 1 .. MaxSocketIds
Streams == {"tcp", "unix"}
NoPeer == 0

\* A new SocketRecord; conn holds when there is a connection_state.
Record(pid, spec, st, local, peer) ==
    [owner |-> pid, spec |-> spec, st |-> st, local |-> local, conn |-> st = "Connected",
     peer |-> peer, buf |-> <<>>, rdShut |-> FALSE, wrShut |-> FALSE, peerWrShut |-> FALSE,
     backlog |-> 0, pending |-> <<>>,
     queue |-> <<>>, reuse |-> {}, groups |-> {}]

With(f, k, v) == [x \in DOMAIN f \cup {k} |-> IF x = k THEN v ELSE f[x]]
Without(f, k) == [x \in DOMAIN f \ {k} |-> f[x]]

\* assert_driver_owns: the last thing an exit's clean-up does is to take the process from its
\* driver.
Drives(pid) == life[pid] \in {"running", "closing"}

Owned(s, pid) == s \in DOMAIN sockets /\ sockets[s].owner = pid /\ Drives(pid)
Connections == {s \in DOMAIN sockets : sockets[s].st = "Connected"}
\* The connections that wait to be accepted by l; those from outside the VM have no socket yet.
PendingAt(l) == {sockets[l].pending[i] : i \in DOMAIN sockets[l].pending}

SockInit ==
    /\ sockets = <<>> /\ by_owner = [p \in SockPids |-> {}]
    /\ bound_streams = <<>>
    /\ bound_inet_datagrams = [a \in InetAddresses |-> {}]
    /\ multicast_groups = [g \in Groups |-> {}]
    /\ next_socket_id = 1 /\ life = [p \in SockPids |-> "running"] /\ given = {}
    /\ sentTo = [s \in SocketIds |-> 0] /\ readBy = [s \in SocketIds |-> 0]
    /\ sawEof = {}

historyVars == <<sentTo, readBy, sawEof>>

-----------------------------------------------------------------------------
(* Allocation, names and options. *)

\* The limits the kernel checks before a call that adds n sockets and c connections.
WithinLimits(n, c) ==
    /\ n > 0 => Cardinality(DOMAIN sockets) < max_sockets
    /\ c > 0 => Cardinality(Connections) + c <= max_connections

\* socket_create.
socket_create(pid, spec) ==
    /\ Drives(pid) /\ next_socket_id \in SocketIds
    /\ WithinLimits(1, 0)
    /\ sockets' = With(sockets, next_socket_id, Record(pid, spec, "Created", "none", NoPeer))
    /\ by_owner' = [by_owner EXCEPT ![pid] = @ \cup {next_socket_id}]
    /\ given' = given \cup {next_socket_id}
    /\ next_socket_id' = next_socket_id + 1
    /\ UNCHANGED <<sockTables, life, historyVars>>

\* inet_stream_bind_addresses_overlap.
Overlap(a, b) == a = b \/ {a, b} = {"any", "lo"}

\* has_incompatible_inet_bind_conflict over lookup_conflicting_bound_inet_socket_ids, or the
\* look into bound_unix_streams.
Conflicts(s, a) ==
    CASE sockets[s].spec = "tcp" ->
           \E b \in DOMAIN bound_streams :
               Overlap(a, b) /\ bound_streams[b] \in DOMAIN sockets \ {s}
      [] sockets[s].spec = "unix" -> a \in DOMAIN bound_streams
      [] sockets[s].spec = "udp" ->
           \E b \in InetAddresses : \E t \in bound_inet_datagrams[b] \ {s} :
               Overlap(a, b) /\ sockets[t].reuse \cap sockets[s].reuse = {}

\* bind_inet and bind_unix.
bind(pid, s, a) ==
    /\ Owned(s, pid) /\ sockets[s].st = "Created"
    /\ a \in IF sockets[s].spec = "unix" THEN UnixPaths ELSE InetAddresses
    /\ ~Conflicts(s, a)
    /\ sockets' = [sockets EXCEPT ![s].st = "Bound", ![s].local = a]
    /\ IF sockets[s].spec = "udp"
       THEN /\ bound_inet_datagrams' = [bound_inet_datagrams EXCEPT ![a] = @ \cup {s}]
            /\ UNCHANGED bound_streams
       ELSE bound_streams' = With(bound_streams, a, s) /\ UNCHANGED bound_inet_datagrams
    /\ UNCHANGED <<by_owner, multicast_groups, next_socket_id, life, given, historyVars>>

\* set_datagram_socket_option with ReuseAddr or ReusePort.
set_datagram_option(pid, s, reuse) ==
    /\ Owned(s, pid) /\ sockets[s].spec = "udp" /\ sockets[s].reuse # reuse
    /\ sockets' = [sockets EXCEPT ![s].reuse = reuse]
    /\ UNCHANGED <<by_owner, sockTables, next_socket_id, life, given, historyVars>>

\* add_multicast_membership and drop_multicast_membership.
set_membership(pid, s, g, member) ==
    /\ Owned(s, pid) /\ sockets[s].spec = "udp" /\ sockets[s].st = "Bound"
    /\ (g \in sockets[s].groups) # member
    /\ sockets' = [sockets EXCEPT ![s].groups = IF member THEN @ \cup {g} ELSE @ \ {g}]
    /\ multicast_groups' = [multicast_groups EXCEPT ![g] = IF member THEN @ \cup {s} ELSE @ \ {s}]
    /\ UNCHANGED <<by_owner, bound_streams, bound_inet_datagrams, next_socket_id, life, given,
                   historyVars>>

-----------------------------------------------------------------------------
(* Connections. *)

listen(pid, s, backlog) ==
    /\ Owned(s, pid) /\ sockets[s].spec \in Streams /\ sockets[s].st = "Bound"
    /\ sockets' = [sockets EXCEPT ![s].st = "Listening", ![s].backlog = backlog]
    /\ UNCHANGED <<by_owner, sockTables, next_socket_id, life, given, historyVars>>

HasRoom(l) == sockets[l].st = "Listening" /\ Len(sockets[l].pending) < sockets[l].backlog

\* enqueue_incoming_tcp_connection: from outside the VM; no socket exists for it yet.
enqueue_incoming_tcp_connection(pid, l) ==
    /\ Owned(l, pid) /\ HasRoom(l)
    /\ sockets' = [sockets EXCEPT ![l].pending = Append(@, NoPeer)]
    /\ UNCHANGED <<by_owner, sockTables, next_socket_id, life, given, historyVars>>

\* accept: the oldest pending connection, whose socket may have to be made.  The limits are
\* checked as if it always had to.
accept(pid, l) ==
    /\ Owned(l, pid) /\ sockets[l].st = "Listening" /\ sockets[l].pending # <<>>
    /\ WithinLimits(1, 1)
    /\ LET first == Head(sockets[l].pending)
           rest == [sockets EXCEPT ![l].pending = Tail(@)]
           new == next_socket_id
       IN IF first # NoPeer
          THEN /\ sockets' = rest
               /\ given' = given \cup ({first} \cap DOMAIN sockets)
               /\ UNCHANGED <<by_owner, next_socket_id>>
          ELSE /\ new \in SocketIds
               /\ sockets' = With(rest, new, Record(pid, sockets[l].spec, "Connected",
                                                    sockets[l].local, NoPeer))
               /\ by_owner' = [by_owner EXCEPT ![pid] = @ \cup {new}]
               /\ given' = given \cup {new}
               /\ next_socket_id' = new + 1
    /\ UNCHANGED <<sockTables, life, historyVars>>

\* A socket gets its connection_state and its peer.
ConnectedTo(r, peer) == [r EXCEPT !.st = "Connected", !.conn = TRUE, !.peer = peer]

\* connect_pair of two sockets that are not in use; the caller's driver has both processes.
connect_pair(pid, s, t) ==
    /\ Owned(s, pid) /\ t \in DOMAIN sockets \ {s} /\ Drives(sockets[t].owner)
    /\ \A x \in {s, t} : sockets[x].spec \in Streams /\ sockets[x].st \in {"Created", "Bound"}
    /\ WithinLimits(0, 2)
    /\ sockets' = [sockets EXCEPT ![s] = ConnectedTo(@, t), ![t] = ConnectedTo(@, s)]
    /\ UNCHANGED <<by_owner, sockTables, next_socket_id, life, given, historyVars>>

\* lookup_bound_inet_socket_in_table: loopback also finds the wildcard's socket.
Lookup(a) ==
    IF a \in DOMAIN bound_streams THEN bound_streams[a]
    ELSE IF a = "lo" /\ "any" \in DOMAIN bound_streams THEN bound_streams["any"] ELSE NoPeer

\* connect_to_bound_inet_stream and connect_to_bound_unix_stream: both ends are connected at
\* once, the far one waits in the listener's queue.
connect(pid, s, a) ==
    LET l == Lookup(a)
        new == next_socket_id
    IN /\ Owned(s, pid) /\ l \in DOMAIN sockets \ {s}
       /\ new \in SocketIds
       /\ sockets[s].spec \in Streams /\ sockets[s].st \in {"Created", "Bound"}
       /\ WithinLimits(1, 2)
       /\ HasRoom(l)
       /\ sockets' = With([sockets EXCEPT ![s] = ConnectedTo(@, new), ![l].pending = Append(@, new)],
                          new, Record(sockets[l].owner, sockets[l].spec, "Connected",
                                      sockets[l].local, s))
       /\ by_owner' = [by_owner EXCEPT ![sockets[l].owner] = @ \cup {new}]
       /\ next_socket_id' = new + 1
       /\ UNCHANGED <<sockTables, life, given, historyVars>>

-----------------------------------------------------------------------------
(* Data. *)

\* write of n bytes.
write(pid, s, n) ==
    /\ Owned(s, pid) /\ sockets[s].conn /\ ~sockets[s].wrShut
    /\ LET t == sockets[s].peer
       IN /\ t \in DOMAIN sockets /\ ~sockets[t].rdShut
          /\ sentTo[t] + n <= MaxBytes
          /\ sockets' = [sockets EXCEPT ![t].buf = @ \o [i \in 1 .. n |-> sentTo[t] + i]]
          /\ sentTo' = [sentTo EXCEPT ![t] = @ + n]
    /\ UNCHANGED <<by_owner, sockTables, next_socket_id, life, given, readBy, sawEof>>

\* What read returns when nothing is buffered: the end, or EAGAIN.
PeerIsDone(s) == sockets[s].peerWrShut \/ sockets[s].peer \notin DOMAIN sockets

ReadsEnd_Eager(s) == ~sockets[s].rdShut /\ PeerIsDone(s)

ReadsEnd(s) == ~sockets[s].rdShut /\ sockets[s].buf = <<>> /\ PeerIsDone(s)

\* recv_buffer.drain(..n).
Drained(s, n) == SubSeq(sockets[s].buf, n + 1, Len(sockets[s].buf))

\* read of at most n bytes.
read(pid, s, n) ==
    /\ Owned(s, pid) /\ sockets[s].conn
    /\ \/ /\ ReadsEnd(s) /\ s \notin sawEof
          /\ sawEof' = sawEof \cup {s}
          /\ UNCHANGED <<sockets, readBy>>
       \/ /\ ~sockets[s].rdShut /\ n <= Len(sockets[s].buf)
          /\ sockets' = [sockets EXCEPT ![s].buf = Drained(s, n)]
          /\ readBy' = [readBy EXCEPT ![s] = sockets[s].buf[n]]
          /\ UNCHANGED sawEof
    /\ UNCHANGED <<by_owner, sockTables, next_socket_id, life, given, sentTo>>

\* shutdown of a set of sides.
shutdown(pid, s, sides) ==
    /\ Owned(s, pid) /\ sockets[s].conn
    /\ sockets' = [t \in DOMAIN sockets |->
                     IF t = s THEN [sockets[s] EXCEPT !.rdShut = @ \/ "read" \in sides,
                                                      !.wrShut = @ \/ "write" \in sides,
                                                      !.buf = IF "read" \in sides THEN <<>> ELSE @]
                     ELSE IF t = sockets[s].peer /\ "write" \in sides
                     THEN [sockets[t] EXCEPT !.peerWrShut = TRUE]
                     ELSE sockets[t]]
    /\ UNCHANGED <<by_owner, sockTables, next_socket_id, life, given, historyVars>>

\* send_to_bound_udp_socket: to the oldest socket bound at exactly this address.  A datagram is
\* its sender's address.
send_to(pid, s, a) ==
    /\ Owned(s, pid) /\ sockets[s].spec = "udp" /\ sockets[s].st = "Bound"
    /\ bound_inet_datagrams[a] # {}
    /\ LET t == CHOOSE x \in bound_inet_datagrams[a] : \A y \in bound_inet_datagrams[a] : x <= y
       IN /\ Len(sockets[t].queue) < MaxDatagrams
          /\ sockets' = [sockets EXCEPT ![t].queue = Append(@, sockets[s].local)]
    /\ UNCHANGED <<by_owner, sockTables, next_socket_id, life, given, historyVars>>

recv_datagram(pid, s) ==
    /\ Owned(s, pid) /\ sockets[s].st = "Bound" /\ sockets[s].queue # <<>>
    /\ sockets' = [sockets EXCEPT ![s].queue = Tail(@)]
    /\ UNCHANGED <<by_owner, sockTables, next_socket_id, life, given, historyVars>>

-----------------------------------------------------------------------------
(* Removal. *)

\* The sockets that remove_socket removes with s: those of connections it has not accepted.
RemovedWith(R) == R \cup ((UNION {PendingAt(s) : s \in R}) \cap DOMAIN sockets)

\* remove_socket's unregister_bound_socket: an index entry goes only if it names the socket.
Unregister_ByAddress(gone) ==
    bound_streams' = [a \in DOMAIN bound_streams \ {sockets[s].local : s \in gone} |->
                        bound_streams[a]]

Unregister(gone) ==
    bound_streams' = [a \in {b \in DOMAIN bound_streams : bound_streams[b] \notin gone} |->
                        bound_streams[a]]

\* remove_socket's last part: the peer of a removed socket is told.
TellPeers(gone) ==
    sockets' = [t \in DOMAIN sockets \ gone |->
                  IF sockets[t].peer \in gone
                  THEN [sockets[t] EXCEPT !.peer = NoPeer, !.peerWrShut = TRUE]
                  ELSE sockets[t]]

RemoveSockets(gone) ==
    /\ TellPeers(gone) /\ Unregister(gone)
    /\ bound_inet_datagrams' = [a \in InetAddresses |-> bound_inet_datagrams[a] \ gone]
    /\ multicast_groups' = [g \in Groups |-> multicast_groups[g] \ gone]
    /\ by_owner' = [p \in SockPids |-> by_owner[p] \ gone]

\* socket_close.
socket_close(pid, s) ==
    /\ Owned(s, pid)
    /\ RemoveSockets(RemovedWith({s}))
    /\ UNCHANGED <<next_socket_id, life, given, historyVars>>

\* cleanup_process_resources when the process exits, up to remove_all_for_pid, and its end.
ExitRemovesSockets(pid) ==
    /\ life[pid] = "running"
    /\ RemoveSockets(RemovedWith(by_owner[pid]))
    /\ life' = [life EXCEPT ![pid] = "closing"]
    /\ UNCHANGED <<next_socket_id, given, historyVars>>

ExitEnds(pid) ==
    /\ life[pid] = "closing"
    /\ life' = [life EXCEPT ![pid] = "exited"]
    /\ UNCHANGED <<sockets, by_owner, sockTables, next_socket_id, given, historyVars>>

\* waitpid cleans up once more.
WaitRemovesSockets(pid) ==
    /\ life[pid] = "exited"
    /\ RemoveSockets(RemovedWith(by_owner[pid]))
    /\ life' = [life EXCEPT ![pid] = "waited"]
    /\ UNCHANGED <<next_socket_id, given, historyVars>>

-----------------------------------------------------------------------------
NameStep(pid, s) ==
    \/ \E a \in InetAddresses \cup UnixPaths : bind(pid, s, a) \/ connect(pid, s, a)
    \/ \E r \in SUBSET {"addr", "port"} : set_datagram_option(pid, s, r)
    \/ \E g \in Groups, m \in BOOLEAN : set_membership(pid, s, g, m)
    \/ \E n \in 1 .. MaxBacklog : listen(pid, s, n)
    \/ \E t \in DOMAIN sockets : connect_pair(pid, s, t)

DataStep(pid, s) ==
    \/ \E n \in 1 .. MaxBytes : write(pid, s, n) \/ read(pid, s, n)
    \/ \E sides \in SUBSET {"read", "write"} \ {{}} : shutdown(pid, s, sides)
    \/ \E a \in InetAddresses : send_to(pid, s, a)
    \/ recv_datagram(pid, s)

SockNext ==
    \E pid \in SockPids :
        \/ \E spec \in Specs : socket_create(pid, spec)
        \/ \E s \in {t \in DOMAIN sockets : Owned(t, pid)} :
              \/ NameStep(pid, s) \/ DataStep(pid, s)
              \/ enqueue_incoming_tcp_connection(pid, s) \/ accept(pid, s)
              \/ socket_close(pid, s)
        \/ ExitRemovesSockets(pid) \/ ExitEnds(pid) \/ WaitRemovesSockets(pid)

SockSpec == SockInit /\ [][SockNext]_sockVars

-----------------------------------------------------------------------------
(* Properties. *)

SockTypeOK ==
    /\ DOMAIN sockets \subseteq SocketIds
    /\ by_owner \in [SockPids -> SUBSET SocketIds]
    /\ DOMAIN bound_streams \subseteq InetAddresses \cup UnixPaths
    /\ bound_inet_datagrams \in [InetAddresses -> SUBSET SocketIds]
    /\ multicast_groups \in [Groups -> SUBSET SocketIds]
    /\ life \in [SockPids -> {"running", "closing", "exited", "waited"}]
    /\ \A s \in DOMAIN sockets :
          /\ sockets[s].st \in {"Created", "Bound", "Listening", "Connected"}
          /\ sockets[s].conn <=> sockets[s].st = "Connected"
          /\ Len(sockets[s].pending) <= sockets[s].backlog
    /\ Cardinality(DOMAIN sockets) <= max_sockets
    /\ Cardinality(Connections) <= max_connections

\* The two ends of a connection name each other.  Once an end is gone (closed, taken with its
\* listener, or with its process) the other names nobody and knows that nothing more will come:
\* whatever the order of connects, closes and exits, no end waits for bytes from a socket that
\* cannot send them (connect_pair, connect_to_bound_*, shutdown, remove_socket).
PeersAreMutual ==
    \A s \in Connections :
        IF sockets[s].peer = NoPeer
        THEN sockets[s].peerWrShut \/ s \in given
        ELSE /\ sockets[s].peer \in Connections
             /\ sockets[sockets[s].peer].peer = s
             /\ sockets[s].peerWrShut = sockets[sockets[s].peer].wrShut

\* The indexes tell of exactly the sockets there are: by_owner of each process's sockets, the
\* address tables of every socket that bind gave an address and of no socket that is gone, so
\* that an address is free again when the socket bound to it is, and not before, although the
\* connections accepted through a listener carry its address too (register_bound_inet_socket,
\* unregister_bound_socket, unregister_multicast_memberships).
IndexesAreExact ==
    /\ \A p \in SockPids : by_owner[p] = {s \in DOMAIN sockets : sockets[s].owner = p}
    /\ \A a \in DOMAIN bound_streams :
          bound_streams[a] \in DOMAIN sockets /\ sockets[bound_streams[a]].local = a
    /\ \A s \in DOMAIN sockets :
          sockets[s].st \in {"Bound", "Listening"} /\ sockets[s].spec # "udp" =>
              sockets[s].local \in DOMAIN bound_streams /\ bound_streams[sockets[s].local] = s
    /\ \A a \in InetAddresses :
          bound_inet_datagrams[a] =
              {s \in DOMAIN sockets : sockets[s].spec = "udp" /\ sockets[s].local = a}
    /\ \A g \in Groups :
          multicast_groups[g] = {s \in DOMAIN sockets : g \in sockets[s].groups}

\* No TCP socket holds the wildcard address while another holds loopback, so that a connect
\* to loopback has one listener it can mean, however binds, closes and exits alternate
\* (bind_inet, lookup_bound_inet_socket_in_table).
NoTwoHoldAnAddress ==
    ~({"any", "lo"} \subseteq DOMAIN bound_streams)

\* No connection is lost between connect and accept: a connected socket that no process has
\* been told of is in the queue of one living listener, once (connect_to_bound_*, accept,
\* remove_socket).
UnacceptedAreQueued ==
    \A s \in Connections \ given :
        \E l \in DOMAIN sockets :
            /\ sockets[l].st = "Listening" /\ sockets[l].owner = sockets[s].owner
            /\ Cardinality({i \in DOMAIN sockets[l].pending : sockets[l].pending[i] = s}) = 1
            /\ \A k \in DOMAIN sockets \ {l} : s \notin PendingAt(k)

\* A process that has been waited for has no socket left, although its exit lets calls in
\* between the removal of its sockets and the moment it loses its driver, and another process
\* may meanwhile connect to a listener made in that gap (cleanup_process_resources, waitpid).
WaitedProcessHasNoSockets ==
    \A s \in DOMAIN sockets : life[sockets[s].owner] # "waited"

\* Of a connection's bytes none is lost, repeated or overtaken: what a reader has not yet been
\* given waits in its socket's buffer, in order, unless it shut down that side (write, read,
\* shutdown).
StreamKeepsBytes ==
    \A s \in Connections :
        ~sockets[s].rdShut => sockets[s].buf = [i \in 1 .. sentTo[s] - readBy[s] |-> readBy[s] + i]

\* Each direction of a connection implements the channel that a pipe also implements: nothing
\* is sent after the end, and the end is reported after the last byte and never taken back,
\* also when the sender closes, exits or loses its listener first (write, read, shutdown,
\* remove_socket).
SocketChannel(s) ==
    INSTANCE ByteChannel WITH
        sent <- sentTo[s], received <- readBy[s], eof <- s \in sawEof,
        closed <- s < next_socket_id
                  /\ (s \notin DOMAIN sockets \/ (sockets[s].conn /\ PeerIsDone(s)))
SocketsAreChannels ==
    /\ \A s \in SocketIds : SocketChannel(s)!Init
    /\ [][\A s \in SocketIds : [SocketChannel(s)!Next]_(SocketChannel(s)!vars)]_sockVars

\* The tables of sockets are sound: the types, PeersAreMutual, IndexesAreExact,
\* NoTwoHoldAnAddress, UnacceptedAreQueued, WaitedProcessHasNoSockets and StreamKeepsBytes
\* (all calls of SocketTable and the kernel's cleanup of a process).
SocketsAreSound ==
    /\ SockTypeOK /\ PeersAreMutual /\ IndexesAreExact /\ NoTwoHoldAnAddress
    /\ UnacceptedAreQueued /\ WaitedProcessHasNoSockets /\ StreamKeepsBytes
=============================================================================
