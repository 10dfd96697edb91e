SPECIFICATION Spec
CONSTANTS
  c1 = c1
  c2 = c2
  d1 = d1
  d2 = d2
  NoDaemon = NoDaemon
  Client <- TwoClients
  Daemon <- TwoDaemons
INVARIANTS
  OneServes
CHECK_DEADLOCK FALSE
