CONSTANTS
  Subjects = {"acp", "v8", "link_calls", "link_events", "tracker", "lock",
              "sock_pair", "sock_limit", "sock_accept", "sock_names", "sock_udp", "cron",
              "vm_events", "vm_teardown", "vm_pair"}
  AcpCallers = {"c1", "c2"}
  AcpKinds <- MixedKinds
  InboundIds = {1}
  PermissionIds = {2}
  SEEN_INBOUND_REQUEST_ID_RETENTION_LIMIT = 1
  MaxAcpRequests = 2
  MaxAdmitted = 2
  V8Sessions = {"s1", "s2"}
  V8Limited = {"s1"}
  MaxConcurrency = 1
  SessionChannel = 1
  DirectDestroy = FALSE
  MaxDispatches = 4
  V8Budget = 5
  MaxBridgeCalls = 2
  MaxRequests = 2
  MaxCallbacks = 2
  MaxEvents = 4
  EventKinds = {"x", "y"}
  EventWaits = {1, 2}
  eventBufferCapacity = 2
  SockPids = {p1, p2}
  InetAddresses = {"any", "lo"}
  UnixPaths = {"path"}
  Groups = {"g"}
  Specs = {"tcp", "unix", "udp"}
  max_sockets = 4
  max_connections = 3
  MaxSocketIds = 5
  MaxBytes = 2
  MaxDatagrams = 1
  MaxBacklog = 1
  RequestIdSet = {1, 2, 3}
  Scopes = {"vm"}
  AnswerKinds = {"k", "l"}
  completed_cap = 2
  MaxRegistrations = 2
  Owners = {o1, o2}
  Targets = {f}
  Callers = {a, b}
  NONE = NONE
  CronIds = {"j"}
  MaxRegistered = 3
  MaxVms = 2
  MaxRoots = 2
  Runtimes = {"js", "wasm", "tool"}
  MaxOutputs = 2
  MaxSignals = 1
  MaxFaults = 1
  MaxReady = 2
SYMMETRY SamePids
SPECIFICATION MCSpec
INVARIANTS
  AcpExchangeIsSound V8SessionsAreSound LinkIsSound SocketsAreSound RequestsAreAccountedFor
  OverlapPolicyIsKept RecurringGoesOn FramesAreWhole ExitsAreReported VmsAreSound
PROPERTIES SocketsAreChannels DisposedIsQuiet
CHECK_DEADLOCK FALSE
