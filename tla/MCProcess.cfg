CONSTANTS
  Subjects = {"wait", "signals"}
  MaxPid = 2
  MaxKills = 2
  Waiters = {w1, w2}
  Callers = {c1}
  Selectors = {"pid", "any"}
  FlagSets = {{}, {"WUNTRACED"}}
  Signals = {"STOP", "TSTP", "CONT", "HUP"}
  Masks = {{"CHLD", "TSTP", "HUP"}}
  Movers = {2}
  Terminates = TRUE
SYMMETRY Symmetry
SPECIFICATION MCSpec
INVARIANTS NoLostWaiter ZombieHasDeadline PendingAreBlocked
PROPERTIES ExitStatusIsKept
CHECK_DEADLOCK FALSE
