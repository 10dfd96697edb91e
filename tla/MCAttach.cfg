SPECIFICATION FairSpec
CONSTANTS
  a = a
  Texts <- OneText
  Empty = Empty
  NewLine = NewLine
  Rows = 3
  Height = 3
  BufSize = 2
  Budget <- KeysOrChanges
INVARIANTS
  KeysArriveInOrder
  RenderingPlacesRows
PROPERTIES
  EndNoticed
  QuietScreenShown
CHECK_DEADLOCK FALSE
