SPECIFICATION Spec
CONSTANTS
  a = a
  Texts <- OneText
  Empty = Empty
  NewLine = NewLine
  Rows = 2
  Height = 3
  BufSize = 1
  Budget <- OneChange
INVARIANTS
  CursorOnItsRow
CHECK_DEADLOCK FALSE
