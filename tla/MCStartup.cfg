SPECIFICATION FairSpec
CONSTANTS
  c1 = c1
  c2 = c2
  d1 = d1
  d2 = d2
  NoDaemon = NoDaemon
  Client <- TwoClients
  Daemon <- TwoDaemons
INVARIANTS
  TypeOK
  RacesLeaveOneReachable
  OnlyRivalsCutOff
  LastOneTidies
PROPERTIES
  StartsDespiteStaleSocket
CHECK_DEADLOCK FALSE
