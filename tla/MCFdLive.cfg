CONSTANTS
    MaxPid = 2
    MaxFiles = 1
    MaxPipes = 1
    MaxPtys = 1
    UserFds = {0, 1}
    Calls = {"spawn", "open", "pipe", "pty", "dup", "dup2", "dupfd", "close", "waitpid"}
    STDIO_FDS = 1
    MAX_OPEN_FDS = 5
    Limited = TRUE
    PIPE_DESC_BASE = 11
    PTY_DESC_BASE = 21
    Owners = {1, 2, 3, 4, 5, 6, 7, 8, 11, 12, 21, 22}
    Callers = {a}
    Targets = {f}
    NONE = NONE
SPECIFICATION LiveSpec
PROPERTIES
    ExitIsCleanedUp
    EndsAreClosed
CHECK_DEADLOCK FALSE
