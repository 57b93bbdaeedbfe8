CONSTANTS
  MaxVms = 1
  MaxRoots = 1
  Runtimes = {"js"}
  MaxOutputs = 0
  MaxSignals = 0
  MaxFaults = 0
  MaxReady = 1
SPECIFICATION SidecarSpec
PROPERTY DisposeGivesUpOnTheLiving
CHECK_DEADLOCK FALSE
