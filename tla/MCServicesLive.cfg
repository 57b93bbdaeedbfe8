CONSTANTS
  Subjects = {"acp", "v8", "link_calls", "lock", "pipe", "vm_end"}
  AcpCallers = {"c1", "c2"}
  AcpKinds <- PromptKinds
  InboundIds = {1}
  PermissionIds = {2}
  SEEN_INBOUND_REQUEST_ID_RETENTION_LIMIT = 1
  MaxAcpRequests = 1
  MaxAdmitted = 1
  V8Sessions = {"s1", "s2"}
  V8Limited = {"s2"}
  MaxConcurrency = 1
  SessionChannel = 1
  DirectDestroy = TRUE
  MaxDispatches = 4
  V8Budget = 4
  MaxBridgeCalls = 1
  MaxRequests = 2
  MaxCallbacks = 1
  MaxEvents = 0
  EventKinds = {"x"}
  EventWaits = {}
  eventBufferCapacity = 2
  SockPids = {p1, p2}
  InetAddresses = {"any", "lo"}
  UnixPaths = {"path"}
  Groups = {"g"}
  Specs = {"tcp", "unix", "udp"}
  max_sockets = 4
  max_connections = 3
  MaxSocketIds = 5
  MaxBytes = 2
  MaxDatagrams = 1
  MaxBacklog = 1
  RequestIdSet = {1, 2, 3}
  Scopes = {"vm"}
  AnswerKinds = {"k", "l"}
  completed_cap = 2
  MaxRegistrations = 2
  Owners = {o1, o2}
  Targets = {f}
  Callers = {a, b}
  NONE = NONE
  CronIds = {"j"}
  MaxRegistered = 3
  MaxVms = 1
  MaxRoots = 1
  Runtimes = {"js", "tool"}
  MaxOutputs = 0
  MaxSignals = 1
  MaxFaults = 0
  MaxReady = 1
SPECIFICATION LiveSpec
PROPERTIES AcpCallsEnd ExecutionsEnd LinkSettles WaitersAreServed SidecarSettles
CHECK_DEADLOCK FALSE
