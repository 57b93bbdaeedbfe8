------------------------------- MODULE OverlayFs -------------------------------
(***************************************************************************)
(* The root filesystem's overlay: OverlayFileSystem of                     *)
(* crates/kernel/src/overlay_fs.rs, over the MemoryFileSystem of vfs.rs as *)
(* its upper layer.  Lower layers are read only; what a call changes is    *)
(* copied up first, a whiteout marker hides a lower entry that was         *)
(* removed, an opaque marker hides the lower children of a copied-up       *)
(* directory.                                                              *)
(*                                                                         *)
(* A path is the sequence of its names.  Each call is one &mut self call   *)
(* and so one action, but it is made of smaller writes that stop at the    *)
(* first error and leave what they did: an operator of a step takes the    *)
(* layer before it and returns the layer after it with an error code, and  *)
(* Then continues as the code's `?' does.  Modes, owners and times are     *)
(* left out, and so are symbolic links.                                    *)
(***************************************************************************)
EXTENDS Naturals, Sequences, FiniteSets, SequencesExt

CONSTANTS
    OvPaths,             \* the paths that calls name, closed under parents; not the root
    OvLowers,            \* the possible stacks of lower layers, highest first
    OvValues,            \* what is written
    OvFiles,             \* the paths of OvPaths that whole-file programs use
    MAX_SNAPSHOT_DEPTH,
    MaxContent           \* bound: pieces in a file that append_file extends

DirEntry == [kind |-> "dir", data |-> <<>>]
FileEntry(d) == [kind |-> "file", data |-> d]
NoEntry == [kind |-> "none", data |-> <<>>]

ASSUME OverlayAssumption ==
    /\ \A p \in OvPaths : p # <<>> /\ (Len(p) > 1 => Front(p) \in OvPaths)
    /\ \A stack \in OvLowers : \A i \in DOMAIN stack : \A p \in DOMAIN stack[i] :
          p \in OvPaths /\ (Len(p) > 1 => Front(p) \in DOMAIN stack[i] /\ stack[i][Front(p)] = DirEntry)

VARIABLES
    lowers,
    fs,              \* the upper layer with its markers
    writes_locked

overlayVars == <<lowers, fs, writes_locked>>

\* upper gives a path 0 for a directory and its inode for a file, data an inode its content.
OverlayInit ==
    /\ lowers \in OvLowers
    /\ fs = [upper |-> <<>>, data |-> <<>>, whiteouts |-> {}, opaques |-> {}]
    /\ writes_locked = FALSE

-----------------------------------------------------------------------------
(* What a path is. *)

find_lower(p) == {i \in DOMAIN lowers : p \in DOMAIN lowers[i]}
HasLower(p) == find_lower(p) # {}
LowerEntry(p) == lowers[CHOOSE i \in find_lower(p) : \A j \in find_lower(p) : i <= j][p]

HasUpper(f, p) == p \in DOMAIN f.upper
UpperEntry(f, p) == IF f.upper[p] = 0 THEN DirEntry ELSE FileEntry(f.data[f.upper[p]])

path_exists(f, p) == p \notin f.whiteouts /\ (HasUpper(f, p) \/ HasLower(p))

\* lstat, and for a file read_file.
merged_lstat(f, p) == IF ~path_exists(f, p) THEN NoEntry
                      ELSE IF HasUpper(f, p) THEN UpperEntry(f, p) ELSE LowerEntry(p)

Children(p) == {c \in OvPaths : Front(c) = p}
read_dir(f, p) ==
    {c \in Children(p) : \/ HasUpper(f, c)
                         \/ HasLower(c) /\ p \notin f.opaques /\ c \notin f.whiteouts}

directory_has_raw_children(f, p) ==
    \E c \in Children(p) : (HasUpper(f, c) \/ HasLower(c)) /\ c \notin f.whiteouts

-----------------------------------------------------------------------------
(* Steps: the layer after, and "ok" or an error. *)

Ok(f) == [fs |-> f, err |-> "ok"]
Fail(f, e) == [fs |-> f, err |-> e]
Then(r, Step(_)) == IF r.err = "ok" THEN Step(r.fs) ELSE r
Sequentially(f, Step(_, _), s) ==
    LET after[i \in 0..Len(s)] ==
          IF i = 0 THEN Ok(f) ELSE Then(after[i - 1], LAMBDA g : Step(g, s[i]))
    IN after[Len(s)]

\* writable_upper: the result r of a step that writes, unless writes are locked.
Writable(f, r) == IF writes_locked THEN Fail(f, "EROFS") ELSE r

\* set_marker, for both kinds; removing a marker that is not there needs no write.
Marked(f, kind, p) == Writable(f, Ok([f EXCEPT ![kind] = @ \cup {p}]))
Unmarked(f, kind, p) ==
    IF p \in f[kind] THEN Writable(f, Ok([f EXCEPT ![kind] = @ \ {p}])) ELSE Ok(f)

clear_path_metadata_subtree(f, p) ==
    Ok([f EXCEPT !.whiteouts = {q \in @ : ~IsPrefix(p, q)}, !.opaques = {q \in @ : ~IsPrefix(p, q)}])

clear_path_metadata(f, p) ==
    Then(Unmarked(f, "whiteouts", p), LAMBDA g : Unmarked(g, "opaques", p))

-----------------------------------------------------------------------------
(* The memory filesystem below, as the overlay uses it. *)

\* assert_directory_path of the parent: the root is always a directory.
ParentIsDir(f, p) == Len(p) = 1 \/ (HasUpper(f, Front(p)) /\ f.upper[Front(p)] = 0)

Fresh(f) == CHOOSE i \in 1..(Cardinality(DOMAIN f.data) + 1) : i \notin DOMAIN f.data

Holding(f, upper, data) == [f EXCEPT !.upper = upper, !.data = data]
Extend(map, key, value) == [k \in DOMAIN map \cup {key} |-> IF k = key THEN value ELSE map[k]]
Only(map, keys) == [k \in keys |-> map[k]]

\* The layer with these paths; an inode without one is gone (decrement_link_count).
Relink(f, upper) ==
    Holding(f, upper, Only(f.data, {i \in DOMAIN f.data : \E p \in DOMAIN upper : upper[p] = i}))

UpCreateDir(f, p) ==
    IF ~ParentIsDir(f, p) THEN Fail(f, "ENOENT")
    ELSE IF ~HasUpper(f, p) THEN Ok(Holding(f, Extend(f.upper, p, 0), f.data))
    ELSE IF f.upper[p] = 0 THEN Ok(f) ELSE Fail(f, "EEXIST")

SetContent(f, p, d) == Holding(f, f.upper, [f.data EXCEPT ![f.upper[p]] = d])
NewFile(f, p, d) == Holding(f, Extend(f.upper, p, Fresh(f)), Extend(f.data, Fresh(f), d))

UpWriteFile(f, p, d) ==
    IF ~ParentIsDir(f, p) THEN Fail(f, "ENOTDIR")
    ELSE IF ~HasUpper(f, p) THEN Ok(NewFile(f, p, d))
    ELSE IF f.upper[p] = 0 THEN Fail(f, "EISDIR") ELSE Ok(SetContent(f, p, d))

UpCreateFile(f, p, d) == IF HasUpper(f, p) THEN Fail(f, "EEXIST") ELSE UpWriteFile(f, p, d)

\* append_file and truncate (to length zero) need the file.
UpAppendFile(f, p, v) ==
    IF ~HasUpper(f, p) THEN Fail(f, "ENOENT")
    ELSE IF f.upper[p] = 0 THEN Fail(f, "EISDIR")
    ELSE Ok(SetContent(f, p, Append(f.data[f.upper[p]], v)))

UpTruncate(f, p) ==
    IF ~HasUpper(f, p) THEN Fail(f, "ENOENT")
    ELSE IF f.upper[p] = 0 THEN Fail(f, "EISDIR") ELSE Ok(SetContent(f, p, <<>>))

UpRemoveFile(f, p) ==
    IF f.upper[p] = 0 THEN Fail(f, "EISDIR") ELSE Ok(Relink(f, Only(f.upper, DOMAIN f.upper \ {p})))

IsEmpty(f, p) == \A q \in DOMAIN f.upper : ~IsStrictPrefix(p, q)

UpRemoveDir(f, p) ==
    IF f.upper[p] # 0 THEN Fail(f, "ENOTDIR")
    ELSE IF ~IsEmpty(f, p) THEN Fail(f, "ENOTEMPTY")
    ELSE Ok(Relink(f, Only(f.upper, DOMAIN f.upper \ {p})))

rebase_path(p, old, new) == new \o SubSeq(p, Len(old) + 1, Len(p))

UpRename(f, old, new) ==
    LET moved == {p \in DOMAIN f.upper : IsPrefix(old, p)}
        stay == DOMAIN f.upper \ (moved \cup {new})
        Source(p) == IF p \in stay THEN p ELSE rebase_path(p, new, old)
    IN IF ~ParentIsDir(f, new) \/ ~HasUpper(f, old) THEN Fail(f, "ENOENT")
       ELSE IF HasUpper(f, new) /\ ~IsEmpty(f, new) THEN Fail(f, "ENOTEMPTY")
       ELSE Ok(Relink(f, [p \in stay \cup {rebase_path(q, old, new) : q \in moved}
                              |-> f.upper[Source(p)]]))

UpLink(f, old, new) ==
    IF ~HasUpper(f, old) \/ ~ParentIsDir(f, new) THEN Fail(f, "ENOENT")
    ELSE IF f.upper[old] = 0 THEN Fail(f, "EPERM")
    ELSE IF HasUpper(f, new) THEN Fail(f, "EEXIST")
    ELSE Ok(Holding(f, Extend(f.upper, new, f.upper[old]), f.data))

-----------------------------------------------------------------------------
(* Copying up. *)

Ancestors(p) == [i \in 1..(Len(p) - 1) |-> SubSeq(p, 1, i)]

EnsureDirectory(f, p) ==
    IF HasUpper(f, p) THEN Ok(f)
    ELSE IF HasLower(p) /\ LowerEntry(p) # DirEntry THEN Fail(f, "ENOTDIR")
    ELSE Writable(f, UpCreateDir(f, p))

ensure_ancestor_directories(f, p) == Sequentially(f, EnsureDirectory, Ancestors(p))

CopyEntry(f, p, entry) ==
    IF entry = DirEntry
    THEN Then(Writable(f, UpCreateDir(f, p)), LAMBDA g : Marked(g, "opaques", p))
    ELSE Writable(f, UpWriteFile(f, p, entry.data))

copy_up_path(f, p) ==
    IF HasUpper(f, p) THEN Ok(f)
    ELSE Then(ensure_ancestor_directories(f, p), LAMBDA g :
              IF HasLower(p) THEN CopyEntry(g, p, LowerEntry(p)) ELSE Fail(g, "ENOENT"))

\* The start of write_file and append_file.
ReadyToWrite(f, p) ==
    Then(clear_path_metadata(f, p), LAMBDA g :
         IF HasLower(p) THEN copy_up_path(g, p) ELSE ensure_ancestor_directories(g, p))

\* The start of create_file_exclusive, create_dir and mkdir: the whiteout goes first.
ReadyToCreate(f, p) ==
    Then(clear_path_metadata(f, p), LAMBDA g :
         IF path_exists(g, p) THEN Fail(g, "EEXIST") ELSE ensure_ancestor_directories(g, p))

\* The start of chmod, chown, utimes, utimes_spec and truncate.
ReadyToChange(f, p) == IF p \in f.whiteouts THEN Fail(f, "ENOENT") ELSE copy_up_path(f, p)

-----------------------------------------------------------------------------
(* The calls of VirtualFileSystem. *)

write_file(f, p, v) ==
    Then(ReadyToWrite(f, p), LAMBDA g : Writable(g, UpWriteFile(g, p, <<v>>)))

create_file_exclusive(f, p, v) ==
    Then(ReadyToCreate(f, p), LAMBDA g : Writable(g, UpCreateFile(g, p, <<v>>)))

append_file(f, p, v) ==
    Then(ReadyToWrite(f, p), LAMBDA g : Writable(g, UpAppendFile(g, p, v)))

create_dir(f, p) == Then(ReadyToCreate(f, p), LAMBDA g : Writable(g, UpCreateDir(g, p)))

\* mkdir differs from create_dir when it is recursive and the directory is there.
mkdir(f, p) ==
    LET r == create_dir(f, p)
    IN IF r.err = "EEXIST" /\ merged_lstat(r.fs, p) = DirEntry THEN Ok(r.fs) ELSE r

Hide(f, p) == Then(Unmarked(f, "opaques", p), LAMBDA g : Marked(g, "whiteouts", p))

remove_file(f, p) ==
    IF ~path_exists(f, p) THEN Fail(f, "ENOENT")
    ELSE Then(Writable(f, IF HasUpper(f, p) THEN UpRemoveFile(f, p) ELSE Ok(f)),
              LAMBDA g : Hide(g, p))

\* The end of remove_dir, and of rename for each entry that moved.
Forget(f, p) == IF HasLower(p) THEN Hide(f, p) ELSE clear_path_metadata(f, p)

remove_dir(f, p) ==
    IF merged_lstat(f, p) # DirEntry THEN Fail(f, "ENOENT")
    ELSE IF directory_has_raw_children(f, p) THEN Fail(f, "ENOTEMPTY")
    ELSE Then(Writable(f, IF HasUpper(f, p) THEN UpRemoveDir(f, p) ELSE Ok(f)),
              LAMBDA g : Forget(g, p))

link(f, old, new) ==
    Then(clear_path_metadata(f, new), LAMBDA g :
    Then(copy_up_path(g, old), LAMBDA h :
    Then(ensure_ancestor_directories(h, new), LAMBDA k : Writable(k, UpLink(k, old, new)))))

set_attributes(f, p) == Then(ReadyToChange(f, p), LAMBDA g : Writable(g, Ok(g)))

\* truncate to length zero.
truncate(f, p) ==
    Then(ReadyToChange(f, p), LAMBDA g : Writable(g, UpTruncate(g, p)))

-----------------------------------------------------------------------------
(* rename *)

\* collect_snapshot_entries: what the listings reach from a path, parents first.
Reached(f, old) ==
    {p \in OvPaths : /\ IsPrefix(old, p)
                     /\ \A k \in Len(old)..(Len(p) - 1) :
                           /\ merged_lstat(f, SubSeq(p, 1, k)) = DirEntry
                           /\ SubSeq(p, 1, k + 1) \in read_dir(f, SubSeq(p, 1, k))}
Snapshot(f, old) == SetToSortSeq(Reached(f, old), LAMBDA p, q : Len(p) < Len(q))

RemoveDestination(f, new) ==
    IF ~HasUpper(f, new) THEN Ok(f)
    ELSE Writable(f, IF f.upper[new] = 0 THEN UpRemoveDir(f, new) ELSE UpRemoveFile(f, new))

\* The markers of one kind after another; the first write fails if writes are locked.
InSubtree(f, p) == {q \in f.whiteouts \cup f.opaques : IsPrefix(p, q)}

clear_subtree_metadata(f, p) ==
    IF InSubtree(f, p) = {} THEN Ok(f) ELSE Writable(f, clear_path_metadata_subtree(f, p))

copy_subtree_metadata(f, old, new) ==
    LET Copied(marks) == marks \cup {rebase_path(q, old, new) : q \in {m \in marks : IsPrefix(old, m)}}
    IN IF InSubtree(f, old) = {} THEN Ok(f)
       ELSE Writable(f, Ok([f EXCEPT !.whiteouts = Copied(@), !.opaques = Copied(@)]))

\* An entry is staged and removed as the snapshot has it, which the layer `before' gives.
StageEntry_Copies(before, f, p) ==
    LET entry == merged_lstat(before, p)
        rest == Relink(f, Only(f.upper, DOMAIN f.upper \ {p}))
    IN IF entry # DirEntry /\ HasUpper(f, p) THEN Writable(f, Ok(NewFile(rest, p, entry.data)))
       ELSE Then(ensure_ancestor_directories(f, p), LAMBDA g : CopyEntry(g, p, entry))

StageEntry(before, f, p) ==
    LET entry == merged_lstat(before, p)
    IN IF ~HasUpper(f, p)
       THEN Then(ensure_ancestor_directories(f, p), LAMBDA g : CopyEntry(g, p, entry))
       ELSE IF entry = DirEntry THEN Marked(f, "opaques", p) ELSE Ok(f)

RemoveEntry_Shown(before, f, p) ==
    IF HasUpper(f, p) THEN Writable(f, UpRemoveFile(f, p)) ELSE Ok(f)

RemoveEntry(before, f, p) ==
    Then(IF ~HasUpper(f, p) THEN Ok(f)
         ELSE Writable(f, IF merged_lstat(before, p) = DirEntry
                          THEN UpRemoveDir(f, p) ELSE UpRemoveFile(f, p)),
         LAMBDA g : Forget(g, p))

\* Stage what moves in the upper layer, copy its markers, rename it there, hide what is left.
Move(before, f, old, new) ==
    LET all == Snapshot(before, old)
        Stage(g, p) == StageEntry(before, g, p)
        Drop(g, p) == RemoveEntry(before, g, p)
    IN Then(Sequentially(f, Stage, all), LAMBDA g :
       Then(copy_subtree_metadata(g, old, new), LAMBDA h :
       Then(Writable(h, UpRename(h, old, new)), LAMBDA k : Sequentially(k, Drop, Reverse(all)))))

rename(f, old, new) ==
    LET source == merged_lstat(f, old)
        target == merged_lstat(f, new)
    IN IF old = new THEN Ok(f)
       ELSE IF source = NoEntry THEN Fail(f, "ENOENT")
       ELSE IF source = DirEntry /\ IsPrefix(old, new) THEN Fail(f, "EINVAL")
       ELSE IF \E p \in Reached(f, old) : Len(p) - Len(old) > MAX_SNAPSHOT_DEPTH THEN Fail(f, "EINVAL")
       ELSE IF \E p \in Reached(f, old) : ~path_exists(f, p) THEN Fail(f, "ENOENT")
       ELSE IF target = DirEntry /\ read_dir(f, new) # {} THEN Fail(f, "ENOTEMPTY")
       ELSE IF target = NoEntry THEN Move(f, f, old, new)
       ELSE Then(RemoveDestination(f, new), LAMBDA g :
            Then(clear_subtree_metadata(g, new), LAMBDA h : Move(f, h, old, new)))

-----------------------------------------------------------------------------
callRest == <<lowers, writes_locked>>

WriteFile(p, v) == fs' = write_file(fs, p, v).fs /\ UNCHANGED callRest
CreateFileExclusive(p, v) == fs' = create_file_exclusive(fs, p, v).fs /\ UNCHANGED callRest
AppendFile(p, v) ==
    /\ fs' = append_file(fs, p, v).fs /\ UNCHANGED callRest
    /\ \A i \in DOMAIN fs'.data : Len(fs'.data[i]) <= MaxContent
CreateDir(p) == fs' = create_dir(fs, p).fs /\ UNCHANGED callRest
Mkdir(p) == fs' = mkdir(fs, p).fs /\ UNCHANGED callRest
RemoveFile(p) == fs' = remove_file(fs, p).fs /\ UNCHANGED callRest
RemoveDir(p) == fs' = remove_dir(fs, p).fs /\ UNCHANGED callRest
Link(old, new) == fs' = link(fs, old, new).fs /\ UNCHANGED callRest
SetAttributes(p) == fs' = set_attributes(fs, p).fs /\ UNCHANGED callRest
Truncate(p) == fs' = truncate(fs, p).fs /\ UNCHANGED callRest

\* Bound: what moves stays within OvPaths.
Rename(old, new) ==
    /\ \A p \in Reached(fs, old) \cup DOMAIN fs.upper \cup InSubtree(fs, old) :
          IsPrefix(old, p) => rebase_path(p, old, new) \in OvPaths
    /\ fs' = rename(fs, old, new).fs /\ UNCHANGED callRest

LockWrites == ~writes_locked /\ writes_locked' = TRUE /\ UNCHANGED <<lowers, fs>>

PathCall(p) ==
    \/ \E v \in OvValues : WriteFile(p, v) \/ CreateFileExclusive(p, v) \/ AppendFile(p, v)
    \/ CreateDir(p) \/ Mkdir(p) \/ RemoveFile(p) \/ RemoveDir(p)
    \/ SetAttributes(p) \/ Truncate(p)

PairCall(old, new) == Rename(old, new) \/ Link(old, new)

OverlayCalls(paths) == (\E p \in paths : PathCall(p)) \/ (\E old, new \in paths : PairCall(old, new))

OverlayNext == OverlayCalls(OvPaths) \/ LockWrites

\* The calls of a program that works with whole files and leaves directories to others.
FileCall(p) ==
    \/ \E v \in OvValues : WriteFile(p, v) \/ CreateFileExclusive(p, v) \/ AppendFile(p, v)
    \/ RemoveFile(p) \/ Truncate(p)
    \/ \E new \in OvFiles : Rename(p, new)

OverlayFileNext ==
    \/ \E p \in OvFiles : FileCall(p)
    \/ \E p \in OvPaths : SetAttributes(p)
    \/ LockWrites

OverlaySpec == OverlayInit /\ [][OverlayNext]_overlayVars

-----------------------------------------------------------------------------
(* The upper layer is a tree of directories and files, and keeps the       *)
(* content of exactly the files that a path names (vfs.rs's path_index and *)
(* inodes).                                                                *)
OvTypeOK ==
    /\ lowers \in OvLowers /\ writes_locked \in BOOLEAN
    /\ DOMAIN fs.upper \subseteq OvPaths
    /\ \A p \in DOMAIN fs.upper : ParentIsDir(fs, p)
    /\ DOMAIN fs.data = {fs.upper[p] : p \in DOMAIN fs.upper} \ {0}
    /\ fs.whiteouts \cup fs.opaques \subseteq OvPaths

\* The paths that name the same file of the upper layer as p does.
SameFile(p) == {q \in DOMAIN fs.upper : p \in DOMAIN fs.upper /\ fs.upper[p] = fs.upper[q]
                                        /\ fs.upper[p] # 0}

(* What a path shows changes only in a call that names the path or a hard  *)
(* link of it, or in a rename from or to the path or a directory above it, *)
(* but that a missing directory may appear above a path that is named:     *)
(* copying up and the markers change nothing beside it.  After lock_writes *)
(* no call changes anything, however many of its steps come before the one *)
(* that finds the lock (overlay_fs.rs, all calls).                         *)
OnlyNamedPathsChange ==
    [][fs' # fs => ~writes_locked /\ \A q \in OvPaths :
          LET above == merged_lstat(fs, q) = NoEntry /\ merged_lstat(fs', q) = DirEntry
              Concerns(p) == p = q \/ p \in SameFile(q) \/ (above /\ IsPrefix(q, p))
          IN merged_lstat(fs', q) # merged_lstat(fs, q) =>
             \/ \E p \in OvPaths : Concerns(p) /\ PathCall(p)
             \/ \E old, new \in OvPaths :
                   \/ (IsPrefix(old, q) \/ IsPrefix(new, q)) /\ Rename(old, new)
                   \/ (Concerns(old) \/ Concerns(new)) /\ Link(old, new)]_overlayVars

Renamed(old, new) == rename(fs, old, new).err = "ok" /\ Rename(old, new)

PartedNow(p, q) == ~({p, q} \subseteq DOMAIN fs'.upper /\ fs'.upper[p] = fs'.upper[q])

(* No rename that succeeds parts hard links: a file that moves still is    *)
(* the file that its other names show (overlay_fs.rs's rename, test        *)
(* overlay_link_and_rename_preserve_upper_hardlinks_after_copy_up).        *)
RenameKeepsLinks ==
    [][fs' # fs => \A p \in DOMAIN fs.upper : \A q \in SameFile(p) \ {p} : \A old, new \in OvPaths :
          /\ IsPrefix(old, p) /\ ~IsPrefix(old, q) /\ ~IsPrefix(new, q)
          /\ PartedNow(rebase_path(p, old, new), q)
          => ~Renamed(old, new)]_overlayVars

(* A rename that succeeds loses nothing: whatever the old name or a path   *)
(* below it showed, the new name shows (overlay_fs.rs's rename, test       *)
(* overlay_rename_moves_lower_directory_trees_without_losing_children).    *)
RenameLosesNothing ==
    [][\A old, new \in OvPaths : Renamed(old, new) =>
          \A p \in OvPaths : IsPrefix(old, p) /\ path_exists(fs, p) =>
             merged_lstat(fs', rebase_path(p, old, new)) = merged_lstat(fs, p)]_overlayVars

\* What whole files show.
Shown == [p \in OvFiles |->
            LET e == merged_lstat(fs, p) IN IF e = NoEntry THEN <<>> ELSE <<e.data>>]
Flat == INSTANCE FlatFiles WITH Names <- OvFiles, Values <- OvValues, files <- Shown

\* The calls that meet a whiteout and do not do what the last call on the name would have them
\* do: an exclusive create or an append, which clear it before they look at what it hid, and a
\* rename onto the name, which leaves it there.
MeetsWhiteout(p) ==
    /\ p \in fs.whiteouts
    /\ \/ /\ HasLower(p) \/ HasUpper(fs, p)
          /\ \E v \in OvValues : CreateFileExclusive(p, v) \/ AppendFile(p, v)
       \/ \E old \in OvFiles : Rename(old, p)

=============================================================================
