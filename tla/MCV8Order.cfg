CONSTANTS
  V8Sessions = {"s1"}
  V8Limited = {}
  MaxConcurrency = 1
  SessionChannel = 2
  DirectDestroy = TRUE
  MaxDispatches = 5
  MaxBridgeCalls = 2
SPECIFICATION V8Spec
PROPERTY StreamEventsInOrder
CHECK_DEADLOCK FALSE
