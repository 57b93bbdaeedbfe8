------------------------------- MODULE FdTable -------------------------------
(***************************************************************************)
(* File descriptors of a kernel VM: the per-process tables and the shared  *)
(* open file descriptions of crates/kernel/src/fd_table.rs, and the        *)
(* operations of crates/kernel/src/kernel.rs that create, copy and close   *)
(* descriptors, from spawn to the cleanup after exit.                      *)
(*                                                                         *)
(* Three kinds of threads meet here.  The owner of the VM runs one         *)
(* `&mut self` call at a time, which takes the mutex of the tables more    *)
(* than once; each critical section is one action.  Calls of fd_flock only *)
(* borrow the VM, so several may be inside it while no `&mut self` call is.*)
(* A process can exit on any thread at any time, and the exit callback     *)
(* then cleans up on that thread, between the owner's critical sections.   *)
(***************************************************************************)
EXTENDS FileLock, Integers, Sequences, FiniteSetsExt, SequencesExt

CONSTANTS
    MaxPid,          \* bound: processes ever spawned
    MaxFiles,        \* bound: calls of fd_open that get to allocate
    MaxPipes,        \* bound: pipes ever created
    MaxPtys,         \* bound: PTYs ever created
    UserFds,         \* the descriptors programs name in their calls
    Calls,           \* the operations programs use
    STDIO_FDS,       \* standard streams of a new process, 3; all are alike
    MAX_OPEN_FDS,    \* ResourceLimits::max_open_fds, or its default
    Limited,         \* whether max_open_fds is set
    PIPE_DESC_BASE,  \* first description id of the pipe manager, 100_000
    PTY_DESC_BASE    \* first description id of the PTY manager, 200_000

VARIABLES
    tables,               \* FdTableManager.tables
    ref_count,            \* FileDescription.ref_count of every description made
    next_description_id,  \* DescriptionFactory
    pipe_ends,            \* PipeManagerState.desc_to_pipe: the open ends
    next_pipe_desc,       \* PipeManagerState.next_desc_id
    pty_ends,             \* PtyManagerState.desc_to_pty: the open ends
    next_pty_desc,        \* PtyManagerState.next_desc_id
    procs,                \* the process table, as far as it matters here
    driver_pids,          \* the pids the driver owns
    vm,                   \* the `&mut self` call between critical sections
    cleaners              \* closes under way: of the VM's owner and of exits

fdVars == <<tables, ref_count, next_description_id, pipe_ends, next_pipe_desc,
            pty_ends, next_pty_desc, procs, driver_pids, vm, cleaners>>
vars == <<lockVars, fdVars>>

Pids == 1 .. MaxPid

\* KernelVm::new gives every table the limit of the whole VM.
max_fds == MAX_OPEN_FDS

Fds == 0 .. max_fds - 1

OWNER == 0  \* the thread that owns the VM, among the cleaners

\* A description is identified by the object, not by its id: the three
\* allocators of ids do not know of each other.  Only files have a target.
FileDescription ==
    [from : {"factory", "pipe", "pty"}, id : Owners, target : Targets \cup {NONE}]

Description(from, id, target) == [from |-> from, id |-> id, target |-> target]

ProcessFdTable == [open : BOOLEAN, next_fd : 0 .. max_fds,
                   entries : [Fds -> FileDescription \cup {NONE}]]

NoTable == [open |-> FALSE, next_fd |-> 0, entries |-> [fd \in Fds |-> NONE]]

VmIdle == [op |-> "idle"]
Ops == {"spawn", "open", "pipe", "pty", "dup", "dup2", "dupfd"}

ASSUME CallsAreOps == Calls \subseteq Ops \cup {"close", "waitpid"}

CleanerIdle == [stage |-> "idle", pid |-> 0, todo |-> <<>>]

TypeOK ==
    /\ LockTypeOK
    /\ tables \in [Pids -> ProcessFdTable]
    /\ \A d \in DOMAIN ref_count : d \in FileDescription /\ ref_count[d] \in Nat
    /\ pipe_ends \subseteq Owners /\ pty_ends \subseteq Owners
    /\ {next_description_id, next_pipe_desc, next_pty_desc} \subseteq Nat
    /\ procs \in [Pids -> {"none", "running", "exited", "reaped"}]
    /\ driver_pids \subseteq Pids
    /\ \/ vm = VmIdle
       \/ /\ vm.op \in Ops /\ vm.stage \in {"check", "act", "register", "owners"}
          /\ vm.pid \in Pids \cup {0} /\ vm.need \in Nat
          /\ vm.replaced \in FileDescription \cup {NONE}
    /\ \A c \in {OWNER} \cup Pids :
          /\ cleaners[c].stage
                \in {"idle", "tables", "check", "release", "hangup", "owners"}
          /\ cleaners[c].pid \in Pids \cup {0}
          /\ cleaners[c].todo \in Seq(FileDescription)

Init ==
    /\ LockInit
    /\ tables = [p \in Pids |-> NoTable]
    /\ ref_count = <<>>
    /\ next_description_id = 1
    /\ pipe_ends = {} /\ next_pipe_desc = PIPE_DESC_BASE
    /\ pty_ends = {} /\ next_pty_desc = PTY_DESC_BASE
    /\ procs = [p \in Pids |-> "none"]
    /\ driver_pids = {}
    /\ vm = VmIdle
    /\ cleaners = [c \in {OWNER} \cup Pids |-> CleanerIdle]

-----------------------------------------------------------------------------
(***************************************************************************)
(* Tables and reference counts.                                            *)
(***************************************************************************)
OpenFds(table) == {fd \in Fds : table.entries[fd] # NONE}

total_open_fds == MapThenSumSet(LAMBDA p : Cardinality(OpenFds(tables[p])), Pids)

\* A mutant of AllocateFd: the number after the last one, free or not.
AllocateFdUnseen(table) == table.next_fd % max_fds

\* allocate_fd: the first free number from next_fd on, round the table.
AllocateFd(table) ==
    LET at(offset) == (table.next_fd + offset) % max_fds
        free == {o \in Fds : table.entries[at(o)] = NONE}
    IN  IF free = {} THEN NONE ELSE at(Min(free))

\* allocate_fd_from: the first free number from min_fd to the end.
AllocateFdFrom(table, min_fd) ==
    LET free == {fd \in min_fd .. max_fds - 1 : table.entries[fd] = NONE}
    IN  IF free = {} THEN NONE ELSE Min(free)

Put(table, fd, d) == [table EXCEPT !.entries[fd] = d]

PutNext(table, fd, d) == [table EXCEPT !.entries[fd] = d, !.next_fd = fd + 1]

Increment(rc, d) == [rc EXCEPT ![d] = @ + 1]

\* saturating_sub
Decrement(rc, d) == [rc EXCEPT ![d] = IF @ = 0 THEN 0 ELSE @ - 1]

\* How many descriptors of a table refer to a description.
Uses(table, d) == Cardinality({fd \in Fds : table.entries[fd] = d})

\* The descriptions behind the descriptors of a table, in the order of the
\* descriptors; one that has two descriptors occurs twice.
Entries(table) ==
    SelectSeq([i \in 1 .. max_fds |-> table.entries[i - 1]], LAMBDA d : d # NONE)

\* FdTableManager::create: a fresh description for each standard stream.
CreateTable ==
    LET stdio(fd) == Description("factory", next_description_id + fd, NONE)
    IN  [open |-> TRUE, next_fd |-> STDIO_FDS,
         entries |-> [fd \in Fds |-> IF fd < STDIO_FDS THEN stdio(fd) ELSE NONE]]

-----------------------------------------------------------------------------
(***************************************************************************)
(* Calls of the VM's owner.  The first critical section looks at the table *)
(* and works out how many descriptors the call adds, the second compares   *)
(* that with the limit, the third acts on the table as it is by then.      *)
(***************************************************************************)
NoMutableCall == vm = VmIdle /\ cleaners[OWNER] = CleanerIdle

\* `&mut self` excludes every other call on the VM.
MayCall == NoMutableCall /\ \A c \in Callers : flocks[c] = FlockIdle

Call(op, pid, fd, arg, target, need, replaced) ==
    [op |-> op, stage |-> "check", pid |-> pid, fd |-> fd, arg |-> arg,
     target |-> target, need |-> need, replaced |-> replaced]

Look(call) ==
    /\ MayCall
    /\ call.op \in Calls
    /\ vm' = call
    /\ UNCHANGED <<lockVars, tables, ref_count, next_description_id, pipe_ends,
                   next_pipe_desc, pty_ends, next_pty_desc, procs, driver_pids,
                   cleaners>>

HasFd(pid, fd) == tables[pid].open /\ tables[pid].entries[fd] # NONE

\* spawn_process and create_virtual_process, up to check_process_spawn.
SpawnLook(parent) ==
    /\ \E p \in Pids : procs[p] = "none"
    /\ parent # 0 => parent \in driver_pids
    /\ Look(Call("spawn", parent, 0, 0, NONE,
                 IF parent # 0 /\ tables[parent].open
                 THEN Cardinality(OpenFds(tables[parent])) ELSE STDIO_FDS,
                 NONE))

\* fd_open of a file in the filesystem.
OpenLook(pid, target) ==
    /\ Cardinality({d \in DOMAIN ref_count : d.target # NONE}) < MaxFiles
    /\ pid \in driver_pids
    /\ Look(Call("open", pid, 0, 0, target, 1, NONE))

\* open_pipe and open_pty.
PairLook(op, pid) ==
    /\ op = "pipe" => next_pipe_desc < PIPE_DESC_BASE + 2 * MaxPipes
    /\ op = "pty" => next_pty_desc < PTY_DESC_BASE + 2 * MaxPtys
    /\ pid \in driver_pids
    /\ Look(Call(op, pid, 0, 0, NONE, 2, NONE))

\* fd_dup, and fd_open of /dev/fd/N.
DupLook(pid, fd) ==
    /\ pid \in driver_pids /\ HasFd(pid, fd)
    /\ Look(Call("dup", pid, fd, 0, NONE, 1, NONE))

\* fd_dup2 remembers the entry that it is about to replace.
Dup2Look(pid, old_fd, new_fd) ==
    LET replaced == IF old_fd = new_fd THEN NONE ELSE tables[pid].entries[new_fd]
    IN  /\ pid \in driver_pids /\ HasFd(pid, old_fd)
        /\ new_fd < max_fds
        /\ Look(Call("dup2", pid, old_fd, new_fd, NONE,
                     IF old_fd # new_fd /\ replaced = NONE THEN 1 ELSE 0,
                     replaced))

\* fd_fcntl with F_DUPFD.
DupFdLook(pid, fd, min_fd) ==
    /\ pid \in driver_pids /\ HasFd(pid, fd)
    /\ min_fd < max_fds
    /\ Look(Call("dupfd", pid, fd, min_fd, NONE, 1, NONE))

\* check_open_fds
Exceeds(need) == Limited /\ total_open_fds + need > MAX_OPEN_FDS

\* resource_snapshot, then check_open_fds for the descriptors to come; dup2
\* onto an open descriptor skips both.
Check ==
    /\ vm # VmIdle /\ vm.stage = "check"
    /\ vm' = IF (vm.op = "dup2" => vm.need > 0) /\ Exceeds(vm.need)
             THEN VmIdle ELSE [vm EXCEPT !.stage = "act"]
    /\ UNCHANGED <<lockVars, tables, ref_count, next_description_id, pipe_ends,
                   next_pipe_desc, pty_ends, next_pty_desc, procs, driver_pids,
                   cleaners>>

Acting(op) == vm # VmIdle /\ vm.stage = "act" /\ vm.op = op

\* What an act leaves alone when it only changes tables and counts.
OnlyTables ==
    UNCHANGED <<lockVars, next_description_id, pipe_ends, next_pipe_desc,
                pty_ends, next_pty_desc, procs, driver_pids, cleaners>>

\* The table or the descriptor has gone, or no number is free.
Refuse ==
    /\ vm' = VmIdle
    /\ UNCHANGED <<tables, ref_count>> /\ OnlyTables

\* ProcessFdTable::fork: one more reference for each entry.
Forked(parent) ==
    [d \in DOMAIN ref_count |-> ref_count[d] + Uses(tables[parent], d)]

\* register_process takes three mutexes one after the other.  First a table
\* for the new pid, forked from the parent's if the parent still has one ...
Spawn ==
    LET pid == Min({p \in Pids : procs[p] = "none"})
        fork == vm.pid # 0 /\ tables[vm.pid].open
    IN  /\ Acting("spawn")
        /\ tables' = [tables EXCEPT ![pid] =
                          IF fork THEN tables[vm.pid] ELSE CreateTable]
        /\ ref_count' = IF fork THEN Forked(vm.pid)
                        ELSE ref_count @@ [d \in Range(Entries(CreateTable)) |-> 1]
        /\ next_description_id' = next_description_id + (IF fork THEN 0 ELSE STDIO_FDS)
        /\ vm' = [vm EXCEPT !.stage = "register", !.arg = pid]
        /\ UNCHANGED <<lockVars, pipe_ends, next_pipe_desc, pty_ends,
                       next_pty_desc, procs, driver_pids, cleaners>>

\* ... then the process, which can exit from here on ...
SpawnRegister ==
    /\ vm # VmIdle /\ vm.stage = "register"
    /\ procs' = [procs EXCEPT ![vm.arg] = "running"]
    /\ vm' = [vm EXCEPT !.stage = "owners"]
    /\ UNCHANGED <<lockVars, tables, ref_count, next_description_id, pipe_ends,
                   next_pipe_desc, pty_ends, next_pty_desc, driver_pids, cleaners>>

\* ... and at last the ownership of the pid, whether it has exited or not.
SpawnOwned ==
    /\ vm # VmIdle /\ vm.stage = "owners"
    /\ driver_pids' = driver_pids \cup {vm.arg}
    /\ vm' = VmIdle
    /\ UNCHANGED <<lockVars, tables, ref_count, next_description_id, pipe_ends,
                   next_pipe_desc, pty_ends, next_pty_desc, procs, cleaners>>

\* open_with_details
Open ==
    LET table == tables[vm.pid]
        fd == AllocateFd(table)
        d == Description("factory", next_description_id, vm.target)
    IN  /\ Acting("open")
        /\ \/ (~table.open \/ fd = NONE) /\ Refuse
           \/ /\ table.open /\ fd # NONE
              /\ tables' = [tables EXCEPT ![vm.pid] = PutNext(table, fd, d)]
              /\ ref_count' = ref_count @@ (d :> 1)
              /\ next_description_id' = next_description_id + 1
              /\ vm' = VmIdle
              /\ UNCHANGED <<lockVars, pipe_ends, next_pipe_desc, pty_ends,
                             next_pty_desc, procs, driver_pids, cleaners>>

\* create_pipe_fds and create_pty_fds: create the two ends, then give each a
\* descriptor.  If only the second finds no number, both are closed again; if
\* the first finds none, the call returns and leaves the two ends behind.
OpenPair(op, first) ==
    LET table == tables[vm.pid]
        d1 == Description(op, first, NONE)
        d2 == Description(op, first + 1, NONE)
        fd1 == AllocateFd(table)
        one == PutNext(table, fd1, d1)
        fd2 == AllocateFd(one)
        ends == IF fd1 # NONE /\ fd2 = NONE THEN {} ELSE {first, first + 1}
        created ==
            /\ vm' = VmIdle
            /\ IF op = "pipe"
               THEN /\ pipe_ends' = pipe_ends \cup ends
                    /\ next_pipe_desc' = first + 2
                    /\ UNCHANGED <<pty_ends, next_pty_desc>>
               ELSE /\ pty_ends' = pty_ends \cup ends
                    /\ next_pty_desc' = first + 2
                    /\ UNCHANGED <<pipe_ends, next_pipe_desc>>
            /\ UNCHANGED <<lockVars, next_description_id, procs, driver_pids, cleaners>>
    IN  /\ Acting(op)
        /\ \/ ~table.open /\ Refuse
           \/ /\ table.open /\ fd1 = NONE
              /\ UNCHANGED <<tables, ref_count>> /\ created
           \/ /\ table.open /\ fd1 # NONE /\ fd2 = NONE
              /\ tables' = [tables EXCEPT ![vm.pid] = Put(one, fd1, NONE)]
              /\ ref_count' = ref_count @@ (d1 :> 0) /\ created
           \/ /\ table.open /\ fd1 # NONE /\ fd2 # NONE
              /\ tables' = [tables EXCEPT ![vm.pid] = PutNext(one, fd2, d2)]
              /\ ref_count' = ref_count @@ (d1 :> 1) @@ (d2 :> 1) /\ created

OpenPipe == OpenPair("pipe", next_pipe_desc)
OpenPty == OpenPair("pty", next_pty_desc)

\* duplicate_entry for the number that dup or F_DUPFD found.
Duplicate(new_fd) ==
    LET table == tables[vm.pid]
        d == table.entries[vm.fd]
    IN  \/ (~HasFd(vm.pid, vm.fd) \/ new_fd = NONE) /\ Refuse
        \/ /\ HasFd(vm.pid, vm.fd) /\ new_fd # NONE
           /\ tables' = [tables EXCEPT ![vm.pid] = PutNext(table, new_fd, d)]
           /\ ref_count' = Increment(ref_count, d)
           /\ vm' = VmIdle
           /\ OnlyTables

Dup == Acting("dup") /\ Duplicate(AllocateFd(tables[vm.pid]))

DupFd == Acting("dupfd") /\ Duplicate(AllocateFdFrom(tables[vm.pid], vm.arg))

\* dup2 closes the entry at new_fd before it copies the one at old_fd.
Replace(d, old) ==
    Increment(IF old = NONE THEN ref_count ELSE Decrement(ref_count, old), d)

\* The second half of fd_dup2; the replaced description is then closed like
\* the one of fd_close, outside of the critical section.
Dup2 ==
    LET table == tables[vm.pid]
        d == table.entries[vm.fd]
        old == table.entries[vm.arg]
    IN  /\ Acting("dup2")
        /\ \/ ~HasFd(vm.pid, vm.fd) /\ Refuse
           \/ /\ HasFd(vm.pid, vm.fd)
              /\ IF vm.fd = vm.arg THEN UNCHANGED <<tables, ref_count>>
                 ELSE /\ tables' = [tables EXCEPT ![vm.pid] = Put(table, vm.arg, d)]
                      /\ ref_count' = Replace(d, old)
              /\ vm' = VmIdle
              /\ cleaners' = IF vm.replaced = NONE THEN cleaners
                             ELSE [cleaners EXCEPT ![OWNER] =
                                 [stage |-> "check", pid |-> 0, todo |-> <<vm.replaced>>]]
              /\ UNCHANGED <<lockVars, next_description_id, pipe_ends, next_pipe_desc,
                             pty_ends, next_pty_desc, procs, driver_pids>>

\* fd_close, up to the end of its critical section.
FdClose(pid, fd) ==
    LET d == tables[pid].entries[fd]
    IN  /\ MayCall /\ "close" \in Calls
        /\ pid \in driver_pids /\ HasFd(pid, fd)
        /\ tables' = [tables EXCEPT ![pid] = Put(tables[pid], fd, NONE)]
        /\ ref_count' = Decrement(ref_count, d)
        /\ cleaners' = [cleaners EXCEPT ![OWNER] =
               [stage |-> "check", pid |-> 0, todo |-> <<d>>]]
        /\ UNCHANGED <<lockVars, next_description_id, pipe_ends, next_pipe_desc,
                       pty_ends, next_pty_desc, procs, driver_pids, vm>>

-----------------------------------------------------------------------------
(***************************************************************************)
(* Exit and cleanup.                                                       *)
(***************************************************************************)
StartCleanup(c, pid, status) ==
    /\ procs' = [procs EXCEPT ![pid] = status]
    /\ cleaners' = [cleaners EXCEPT ![c] =
           [stage |-> "tables", pid |-> pid, todo |-> <<>>]]
    /\ UNCHANGED <<lockVars, tables, ref_count, next_description_id, pipe_ends,
                   next_pipe_desc, pty_ends, next_pty_desc, driver_pids, vm>>

\* A process exits on some thread, which runs the exit callback.
Exit(pid) == procs[pid] = "running" /\ StartCleanup(pid, pid, "exited")

\* waitpid returns once the status is there, callback done or not, and cleans
\* up again.
WaitPid(pid) ==
    /\ MayCall /\ "waitpid" \in Calls
    /\ procs[pid] = "exited"
    /\ StartCleanup(OWNER, pid, "reaped")

\* A mutant of Rest: the cleanup ends with the first description closed.
RestIsDropped(cleaner) == CleanerIdle

\* The cleaner after it is done with the first description of its list.
Rest(cleaner) ==
    LET todo == Tail(cleaner.todo)
    IN  IF todo # <<>> THEN [cleaner EXCEPT !.todo = todo, !.stage = "check"]
        ELSE IF cleaner.pid = 0 THEN CleanerIdle
        ELSE [cleaner EXCEPT !.todo = todo, !.stage = "owners"]

\* cleanup_process_resources, under the mutex of the tables: close every
\* descriptor of the process and remove its table.
CleanTables(c) ==
    LET pid == cleaners[c].pid
        todo == Entries(tables[pid])
    IN  /\ cleaners[c].stage = "tables"
        /\ tables' = [tables EXCEPT ![pid] = NoTable]
        /\ ref_count' = [d \in DOMAIN ref_count |->
                            Max({0, ref_count[d] - Uses(tables[pid], d)})]
        /\ cleaners' = [cleaners EXCEPT ![c] =
               [stage |-> IF todo = <<>> THEN "owners" ELSE "check",
                pid |-> pid, todo |-> todo]]
        /\ UNCHANGED <<lockVars, next_description_id, pipe_ends, next_pipe_desc,
                       pty_ends, next_pty_desc, procs, driver_pids, vm>>

\* A mutant of StillOpen: every closed descriptor closes its description.
StillOpenNever(d) == FALSE

StillOpen(d) == ref_count[d] # 0

\* close_special_resource_if_needed looks at the reference count ...
CloseCheck(c) ==
    /\ cleaners[c].stage = "check"
    /\ cleaners' = [cleaners EXCEPT ![c] =
           IF StillOpen(Head(@.todo)) THEN Rest(@) ELSE [@ EXCEPT !.stage = "release"]]
    /\ UNCHANGED <<lockVars, tables, ref_count, next_description_id, pipe_ends,
                   next_pipe_desc, pty_ends, next_pty_desc, procs, driver_pids, vm>>

\* ... releases the locks of the description's id ...
CloseRelease(c) ==
    /\ cleaners[c].stage = "release"
    /\ Release(Head(cleaners[c].todo).id)
    /\ cleaners' = [cleaners EXCEPT ![c].stage = "hangup"]
    /\ UNCHANGED <<tables, ref_count, next_description_id, pipe_ends,
                   next_pipe_desc, pty_ends, next_pty_desc, procs, driver_pids, vm>>

\* ... and closes the end of a pipe, if the descriptor is one of a pipe, and
\* the end of a PTY, whatever the descriptor is of.
CloseHangup(c) ==
    LET d == Head(cleaners[c].todo)
    IN  /\ cleaners[c].stage = "hangup"
        /\ pipe_ends' = IF d.from = "pipe" THEN pipe_ends \ {d.id} ELSE pipe_ends
        /\ pty_ends' = pty_ends \ {d.id}
        /\ cleaners' = [cleaners EXCEPT ![c] = Rest(@)]
        /\ UNCHANGED <<lockVars, tables, ref_count, next_description_id,
                       next_pipe_desc, next_pty_desc, procs, driver_pids, vm>>

CleanOwners(c) ==
    /\ cleaners[c].stage = "owners"
    /\ driver_pids' = driver_pids \ {cleaners[c].pid}
    /\ cleaners' = [cleaners EXCEPT ![c] = CleanerIdle]
    /\ UNCHANGED <<lockVars, tables, ref_count, next_description_id, pipe_ends,
                   next_pipe_desc, pty_ends, next_pty_desc, procs, vm>>

-----------------------------------------------------------------------------
(***************************************************************************)
(* Advisory locks.                                                         *)
(***************************************************************************)
\* fd_flock finds the description behind the descriptor and lets go of the
\* tables; FileLockManager::apply is called with what it found.
FdFlock(c, pid, fd, mode, nonblocking) ==
    /\ NoMutableCall
    /\ pid \in driver_pids /\ HasFd(pid, fd)
    /\ LET d == tables[pid].entries[fd]
       IN  d.target # NONE /\ Flock(c, d.id, d.target, mode, nonblocking)
    /\ UNCHANGED fdVars

ApplyLock(c) == (Acquire(c) \/ Unlock(c)) /\ UNCHANGED fdVars

-----------------------------------------------------------------------------
OwnerStep ==
    \/ Check \/ Spawn \/ SpawnRegister \/ SpawnOwned
    \/ Open \/ OpenPipe \/ OpenPty \/ Dup \/ DupFd \/ Dup2

CleanerStep(c) ==
    \/ CleanTables(c) \/ CloseCheck(c) \/ CloseRelease(c)
    \/ CloseHangup(c) \/ CleanOwners(c)

Next ==
    \/ \E parent \in {0} \cup Pids : SpawnLook(parent)
    \/ \E pid \in Pids :
          \/ \E t \in Targets : OpenLook(pid, t)
          \/ \E op \in {"pipe", "pty"} : PairLook(op, pid)
          \/ \E fd \in UserFds :
                \/ DupLook(pid, fd)
                \/ FdClose(pid, fd)
                \/ \E arg \in UserFds : Dup2Look(pid, fd, arg) \/ DupFdLook(pid, fd, arg)
                \/ \E c \in Callers, nb \in BOOLEAN,
                      m \in {"shared", "exclusive", "unlock"} : FdFlock(c, pid, fd, m, nb)
          \/ Exit(pid)
          \/ WaitPid(pid)
    \/ OwnerStep
    \/ \E c \in {OWNER} \cup Pids : CleanerStep(c)
    \/ \E c \in Callers : ApplyLock(c)

\* Threads run on: the owner finishes the call it is in, a cleanup goes on to
\* its end, and a call of fd_flock that is awake goes on.
Fairness ==
    /\ WF_vars(OwnerStep)
    /\ \A c \in {OWNER} \cup Pids : WF_vars(CleanerStep(c))
    /\ \A c \in Callers : WF_vars(ApplyLock(c))

Spec == Init /\ [][Next]_vars /\ Fairness

-----------------------------------------------------------------------------
(***************************************************************************)
(* Properties.                                                             *)
(***************************************************************************)
Descriptors(d) == {e \in Pids \X Fds : tables[e[1]].entries[e[2]] = d}

InTodo(d) == \E c \in DOMAIN cleaners : d \in Range(cleaners[c].todo)

\* The reference count of a description is the number of descriptors that
\* refer to it, in all processes: across dup, dup2 onto an open descriptor,
\* fork, close and the cleanup after exit no reference is lost or kept.
RefCountIsEntries ==
    \A d \in DOMAIN ref_count : ref_count[d] = Cardinality(Descriptors(d))

\* A pipe or PTY end that some process still has a descriptor for is open: a
\* reader sees end-of-file and a terminal a hangup only after the last close,
\* however closes and exits of different processes interleave.
NoEarlyHangup ==
    \A p \in Pids, fd \in Fds :
        LET d == tables[p].entries[fd]
        IN  d # NONE => /\ d.from = "pipe" => d.id \in pipe_ends
                        /\ d.from = "pty" => d.id \in pty_ends

\* An open end has a descriptor, or a thread is on its way to close it: no end
\* stays open behind everybody's back and keeps its peer waiting.
NoLeakedEnd ==
    \A from \in {"pipe", "pty"} :
        \A id \in IF from = "pipe" THEN pipe_ends ELSE pty_ends :
            LET d == Description(from, id, NONE)
            IN  Descriptors(d) # {} \/ InTodo(d)

\* A number in use is given away only by dup2: open, pipe, pty, dup and
\* F_DUPFD never hand out a descriptor that refers to something already.
OpenFdIsNotReused ==
    \A p \in Pids, fd \in Fds :
        LET d == tables[p].entries[fd]
            e == tables'[p].entries[fd]
        IN  d # NONE /\ e # NONE /\ d # e => Acting("dup2")

\* The descriptors of all processes stay within the limit of the VM, although
\* it is checked in one critical section and used up in a later one.
OpenFdsWithinLimit == Limited => total_open_fds <= MAX_OPEN_FDS

\* A description whose last descriptor is closed never gets another one: what
\* the closing thread saw (count zero) is still true when it acts on it.
ClosedForGood ==
    [][\A d \in DOMAIN ref_count : ref_count[d] = 0 => ref_count'[d] = 0]_vars

\* After the exit of a process its descriptors go, and so does the ownership
\* of its pid: at once if it is there before the cleanup gets to it, and in any
\* case when waitpid cleans up again.  register_process may insert the pid of a
\* process whose exit is cleaned up already; nothing but waitpid then removes it.
ExitIsCleanedUp ==
    \A p \in Pids :
        /\ procs[p] = "exited" ~> ~tables[p].open
        /\ (p \in driver_pids /\ cleaners[p].stage # "idle") \/ procs[p] = "reaped"
              ~> p \notin driver_pids

\* Once no process is left, every end of every pipe and PTY is closed.
EndsAreClosed ==
    (\A p \in Pids : procs[p] \in {"exited", "reaped"}) ~> (pipe_ends \cup pty_ends = {})
=============================================================================
