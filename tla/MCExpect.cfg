SPECIFICATION FairSpec
CONSTANTS
  Load = 3
  InputCap = 2
  OutputCap = 2
INVARIANTS
  OkMeansTyped
  NoLastingMatchMissed
PROPERTIES
  StuffReturns
  ExpectReturns
CHECK_DEADLOCK FALSE
