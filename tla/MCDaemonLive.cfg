SPECIFICATION FairDaemon
CONSTANTS
  p1 = p1
  p2 = p2
  c1 = c1
  c2 = c2
  Custom = {}
  Pid <- OnePid
  IdLimit = 2
  NoPid = NoPid
  Unnamed = Unnamed
  Switching = {}
  Client <- TwoClients
  NoClient = NoClient
  Request <- JustCreate
  Apart = {}
PROPERTIES
  EndedSessionsReaped
  AutoExitAfterSeen
  StopsWhenAsked
  RequestsAnswered
CHECK_DEADLOCK FALSE
