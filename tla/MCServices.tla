------------------------------ MODULE MCServices ------------------------------
(***************************************************************************)
(* Instances of the components outside the kernel's descriptors: ACP       *)
(* client, V8 sessions, link between TypeScript client and sidecar,        *)
(* sockets, response tracker, file locks, cron manager and the sidecar's   *)
(* VMs and processes.  They share no state, so one run checks them side by *)
(* side: the first state chooses the component the behaviour is about, the *)
(* others stay as they start.  Some components come as several subjects,   *)
(* each with some of its bounds, where all of them at once would make too  *)
(* many states.                                                            *)
(***************************************************************************)
EXTENDS AcpClient, V8Session, SidecarLink, SocketTable, ResponseTracker, FileLock,
        CronManager, SidecarVms

CONSTANTS
    Subjects,
    V8Budget    \* bound: calls of dispatch and bridge calls together

VARIABLE subject

serviceVars == <<subject, acpVars, v8Vars, linkVars, sockVars, trackerVars, lockVars, cronVars,
                 vmVars>>

\* The calls that the two callers of an ACP client make.
MixedKinds ==
    [c \in AcpCallers |-> IF c = "c1" THEN {"prompt", "cancel", "permission"}
                          ELSE {"permission", "notify"}]
PromptKinds ==
    [c \in AcpCallers |-> IF c = "c1" THEN {"prompt", "permission"} ELSE {"permission"}]

\* The processes of SocketTable are alike.
SamePids == Permutations(SockPids)

-----------------------------------------------------------------------------
(* The part of a component's behaviours that a subject looks at. *)

\* Two requests of one side or one of each.
AcpPart == nextId' + Len(admitted') <= 3

V8Part == dispatches' + Cardinality(DOMAIN asker') <= V8Budget

LinkPart ==
    \/ /\ subject = "link_calls" /\ emitted' = <<>> /\ eventWaiters' = <<>>
       /\ nextRequestId' + callbacks' <= 4
    \/ /\ subject = "link_events" /\ callbacks' = 0
       /\ nextRequestId' <= (IF Len(emitted') <= 2 THEN 2 ELSE 1)

SpecsUsed == {sockets'[s].spec : s \in DOMAIN sockets'}
NoData == /\ UNCHANGED <<sentTo, sawEof>>
          /\ \A s \in DOMAIN sockets' : ~sockets'[s].rdShut /\ ~sockets'[s].wrShut

SocketPart ==
    \/ /\ subject = "sock_pair" /\ SpecsUsed \subseteq {"tcp"} /\ bound_streams' = <<>>
       /\ next_socket_id' <= 3
    \/ /\ subject = "sock_limit" /\ SpecsUsed \subseteq {"tcp"} /\ bound_streams' = <<>>
       /\ NoData
    \/ /\ subject = "sock_accept" /\ SpecsUsed \subseteq {"tcp"}
       /\ DOMAIN bound_streams' \subseteq {"lo"}
       /\ next_socket_id' <= 4 /\ \A s \in SocketIds : sentTo'[s] <= 1
       /\ \A s \in DOMAIN sockets' :
             ~sockets'[s].rdShut /\ (sockets'[s].peer # NoPeer => 3 \in {s, sockets'[s].peer})
       /\ {life'[p] : p \in SockPids} \subseteq {"running", "closing"}
       /\ {life'[p] : p \in SockPids} # {"closing"}
    \/ /\ subject = "sock_names" /\ SpecsUsed \subseteq Streams /\ NoData
       /\ next_socket_id' <= 4 /\ Cardinality(DOMAIN sockets') <= 2
    \/ /\ subject = "sock_udp" /\ SpecsUsed \subseteq {"udp"} /\ next_socket_id' <= 3
       /\ \E p \in SockPids : life'[p] = "running"

\* A third registration follows a recurring job that puts overlapping runs off.
CronPart == Len(registry') = 3 => registry'[1].kind = "cron" /\ registry'[1].overlap = "queue"

\* One process with every runtime, its child and a dispose; two VMs, a cleanup and a failure;
\* two processes that are killed; and, for what must happen, one VM of which no dispose is asked
\* again once one has failed.
UsedIds == {x \in ProcessIds : procs'[x].place # "none"}
Spoken == procs'[<<1>>].outs + procs'[<<1, 1>>].outs

VmPart ==
    \/ /\ subject = "vm_events" /\ next_vm_id' <= 2 /\ UsedIds \subseteq {<<1>>, <<1, 1>>}
       /\ faults' = 0 /\ duty'.at # "clean" /\ Spoken <= 2
    \/ /\ subject = "vm_teardown" /\ UsedIds \subseteq {<<1>>, <<1, 1>>} /\ signals' = 0
       /\ ready' <= 1 /\ \A x \in UsedIds : procs'[x].runtime = "js" /\ procs'[x].outs <= 1
       /\ Spoken <= (IF next_vm_id' <= 2 THEN 2 ELSE 0)
    \/ /\ subject = "vm_pair" /\ next_vm_id' <= 2 /\ faults' = 0 /\ duty'.at \in {"idle", "drain"}
       /\ \A x \in UsedIds : procs'[x].runtime # "js" /\ procs'[x].outs <= 1
    \/ subject = "vm_end" /\ (duty = Idle /\ undisposed # {} => "vm" \notin DOMAIN duty')

-----------------------------------------------------------------------------
MCInit ==
    /\ subject \in Subjects
    /\ AcpInit /\ V8Init /\ LinkInit /\ SockInit /\ TrackerInit /\ LockInit /\ CronInit
    /\ SidecarInit

MCNext ==
    /\ UNCHANGED subject
    /\ \/ /\ subject = "acp" /\ AcpNext /\ AcpPart
          /\ UNCHANGED <<v8Vars, linkVars, sockVars, trackerVars, lockVars, cronVars, vmVars>>
       \/ /\ subject = "v8" /\ V8Next /\ V8Part
          /\ UNCHANGED <<acpVars, linkVars, sockVars, trackerVars, lockVars, cronVars, vmVars>>
       \/ /\ subject \in {"link_calls", "link_events"} /\ LinkNext /\ LinkPart
          /\ UNCHANGED <<acpVars, v8Vars, sockVars, trackerVars, lockVars, cronVars, vmVars>>
       \/ /\ subject \in {"sock_pair", "sock_limit", "sock_accept", "sock_names", "sock_udp"}
          /\ SockNext /\ SocketPart
          /\ UNCHANGED <<acpVars, v8Vars, linkVars, trackerVars, lockVars, cronVars, vmVars>>
       \/ /\ subject = "tracker" /\ TrackerNext
          /\ UNCHANGED <<acpVars, v8Vars, linkVars, sockVars, lockVars, cronVars, vmVars>>
       \/ /\ subject = "lock" /\ LockNext
          /\ UNCHANGED <<acpVars, v8Vars, linkVars, sockVars, trackerVars, cronVars, vmVars>>
       \/ /\ subject = "cron" /\ CronNext /\ CronPart
          /\ UNCHANGED <<acpVars, v8Vars, linkVars, sockVars, trackerVars, lockVars, vmVars>>
       \/ /\ subject \in {"vm_events", "vm_teardown", "vm_pair", "vm_end"} /\ SidecarNext /\ VmPart
          /\ UNCHANGED <<acpVars, v8Vars, linkVars, sockVars, trackerVars, lockVars, cronVars>>

MCSpec == MCInit /\ [][MCNext]_serviceVars
===============================================================================
