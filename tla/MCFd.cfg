CONSTANTS
    MaxPid = 2
    MaxFiles = 0
    MaxPipes = 1
    MaxPtys = 0
    UserFds = {1, 3}
    Calls = {"spawn", "pipe", "dup2", "close", "waitpid"}
    STDIO_FDS = 1
    MAX_OPEN_FDS = 6
    Limited = TRUE
    PIPE_DESC_BASE = 11
    PTY_DESC_BASE = 21
    Owners <- Ids
    Callers = {a, b}
    Targets = {f, g}
    NONE = NONE
    OvPaths <- AllPaths
    OvFiles <- TheFiles
    OvLowers <- Stacks
    OvValues = {"v"}
    MAX_SNAPSHOT_DEPTH = 1
    MaxContent = 2
SPECIFICATION MCSpec
INVARIANTS
    TablesAreSound
    LockExclusion
    NoLostWriter
PROPERTIES
    NumbersStay
    OnlyNamedPathsChange
    RenameKeepsLinks
    FilesAreFlat
CHECK_DEADLOCK FALSE
SYMMETRY Same
