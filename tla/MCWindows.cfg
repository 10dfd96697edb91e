SPECIFICATION FairSpec
CONSTANTS
  d1 = d1
  d2 = d2
  c1 = c1
  c2 = c2
  p1 = p1
  Daemon <- TwoDaemons
  NoDaemon = NoDaemon
  Client <- TwoClients
  Pid <- OnePid
  Listening = Listening
  NoPipe = NoPipe
  Retries = 1
INVARIANTS
  OnePipeServer
  JobsLeaveNothing
PROPERTIES
  EndedReaped
  ReadersEnd
CHECK_DEADLOCK FALSE
