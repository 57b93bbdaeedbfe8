CONSTANTS
  Subjects = {"kill", "move", "terminate"}
  MaxPid = 2
  MaxKills = 1
  Waiters = {w1}
  Callers = {c1}
  Selectors = {"pid"}
  FlagSets = {{}}
  Signals = {"STOP"}
  Masks = {}
  Movers = {2}
  Terminates = TRUE
SPECIFICATION LiveSpec
PROPERTY ExitsAreCollected
CHECK_DEADLOCK FALSE
