CONSTANTS
    Owners = {o1, o2}
    Targets = {f}
    Callers = {c1, c2}
    NONE = NONE
INIT LockInit
NEXT LockNext
INVARIANT NoLostReader
CHECK_DEADLOCK FALSE
