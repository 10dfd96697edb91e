SPECIFICATION Spec
CONSTANTS
  p1 = p1
  p2 = p2
  work = work
  Custom <- MCCustom
  Pid <- MCPid
  IdLimit = 3
  NoPid = NoPid
  Unnamed = Unnamed
  Switching <- MCPid
SYMMETRY Symmetry
INVARIANTS
  TypeOK
  KilledWhenRemoved
  DeadMeansHungUp
  AutoNameFound
PROPERTIES
  SessionsStable
  SignalsReachChildren
CHECK_DEADLOCK FALSE
