-------------------------------- MODULE MCFd --------------------------------
(***************************************************************************)
(* Instances of FdTable, FileLock and OverlayFs in one run, told apart by  *)
(* subject: share, two processes with the ends of a pipe between them and  *)
(* tables that never fill up; numbers, one process whose small table fills *)
(* up and wraps around; lock, the lock manager by itself; overlay, all     *)
(* calls on two directories; overlay_links, hard links; overlay_files, a   *)
(* program that works with whole files over two lower layers.              *)
(***************************************************************************)
EXTENDS FdTable, MCOverlay

VARIABLE subject

\* Description ids that the bounds allow.
Ids == 1 .. 24

Numbers == INSTANCE FdTable WITH
    MaxPid <- 1, MaxFiles <- 1, MaxPtys <- 1, UserFds <- {0, 2},
    Calls <- {"spawn", "open", "pipe", "pty", "dup", "dup2", "dupfd", "close"},
    MAX_OPEN_FDS <- 4, Limited <- FALSE

Locks == INSTANCE FileLock WITH Owners <- {1, 2, 3}

\* A pipe or a pseudo-terminal, not both.
NumbersPart == next_pipe_desc' = PIPE_DESC_BASE \/ next_pty_desc' = PTY_DESC_BASE

\* A few changes to the lower layer; a locked overlay is looked at early.
OverlaySize == Cardinality(fs'.whiteouts) + Cardinality(fs'.opaques) + Cardinality(DOMAIN fs'.upper)
OverlayPart ==
    \/ subject = "overlay" /\ OverlaySize <= IF writes_locked' THEN 2 ELSE 4
    \/ subject = "overlay_links" /\ Cardinality(fs'.whiteouts \cup fs'.opaques) <= 1
    \/ subject = "overlay_files"

MCInit ==
    /\ \/ subject \in {"share", "lock", "overlay", "overlay_links", "overlay_files"} /\ Init
       \/ subject = "numbers" /\ Numbers!Init
    /\ OverlayInit /\ (subject = "overlay_files") = (Len(lowers) = 2)

MCNext ==
    /\ UNCHANGED subject
    /\ \/ /\ UNCHANGED overlayVars
          /\ \/ subject = "share" /\ Next
             \/ subject = "numbers" /\ Numbers!Next /\ NumbersPart /\ UNCHANGED flocks
             \/ subject = "lock" /\ Locks!LockNext /\ UNCHANGED fdVars
       \/ /\ UNCHANGED vars
          /\ \/ subject = "overlay" /\ (OverlayCalls(TwoDirs) \/ LockWrites)
             \/ subject = "overlay_links" /\ OverlayLinkNext
             \/ subject = "overlay_files" /\ OverlayFileNext
          /\ OverlayPart

\* Callers are interchangeable, and so are inodes.
Same == Permutations(Callers) \cup Permutations(Targets)

MCSpec == MCInit /\ [][MCNext]_<<vars, overlayVars, subject>>

(* Descriptors, counts and ends agree: RefCountIsEntries, and where no     *)
(* table fills up and the limit is set NoEarlyHangup, NoLeakedEnd and      *)
(* OpenFdsWithinLimit of FdTable, with the types of the three components   *)
(* (fork, dup2, close, cleanup_process_resources, check_open_fds;          *)
(* close_special_resource_if_needed looks at the count after the tables    *)
(* are unlocked).                                                          *)
TablesAreSound ==
    /\ subject = "share" =>
          RefCountIsEntries /\ NoEarlyHangup /\ NoLeakedEnd /\ OpenFdsWithinLimit
    /\ subject = "numbers" => Numbers!TypeOK /\ Numbers!RefCountIsEntries
    /\ LockTypeOK /\ OvTypeOK

(* A description that is closed stays closed and an open number is not     *)
(* handed out again: ClosedForGood and OpenFdIsNotReused of FdTable        *)
(* (allocate_fd, allocate_fd_from, close).                                 *)
NumbersStay ==
    ClosedForGood /\ [][subject = "numbers" => Numbers!OpenFdIsNotReused]_<<vars, subject>>

(* A program that works with whole files sees one map from names to        *)
(* contents, whichever layer a file is in and whatever was copied up or    *)
(* whited out before: a call finds what the last call on the name left,    *)
(* and the overlay implements FlatFiles.  Excepted are the steps that meet *)
(* a whiteout: an exclusive create or an append of a name that hides an    *)
(* entry, and a rename onto a removed name.  What such a step shows is     *)
(* again one map for the calls after it (overlay_fs.rs's read_file,        *)
(* write_file and the other calls on files).                               *)
FilesAreFlat ==
    [][subject = "overlay_files" =>
          [Flat!Next]_Shown \/ \E p \in OvFiles : MeetsWhiteout(p)]_<<overlayVars, subject>>
=============================================================================
