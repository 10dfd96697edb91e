SPECIFICATION SpecDaemon
CONSTANTS
  p1 = p1
  p2 = p2
  c1 = c1
  c2 = c2
  Custom = {}
  Pid <- OnePid
  IdLimit = 2
  NoPid = NoPid
  Unnamed = Unnamed
  Switching = {}
  Client <- TwoClients
  NoClient = NoClient
  Request <- Everything
  Apart <- OneAtATime
SYMMETRY SymClients
INVARIANTS
  StopsClean
  ConnectionsAccounted
PROPERTIES
  ImplementsDirectory
CHECK_DEADLOCK FALSE
