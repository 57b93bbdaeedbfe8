CONSTANTS
  MaxRequests = 0
  MaxCallbacks = 1
  MaxEvents = 0
  EventKinds = {"x"}
  EventWaits = {}
  eventBufferCapacity = 2
SPECIFICATION LinkSpec
INVARIANT LateCallbackIsHarmless
CHECK_DEADLOCK FALSE
