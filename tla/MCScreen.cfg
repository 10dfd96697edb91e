SPECIFICATION Spec
CONSTANTS
  plain = plain
  Plain = plain
  Attrs <- OneAttr
  Blank = Blank
  Nothing = Nothing
  Sizes <- Shapes
  Params <- FewParams
  Modes <- AltModes
  TabWidth = 2
  AltCells = 2
  U16 = 4
INVARIANTS
  TypeOK
  ScrollMovesRows
  EditsStayInLine
PROPERTIES
  PanicNeedsOutside
  OutsideNeedsRestore
  ResizeKeepsCells
  PrimaryKept
CHECK_DEADLOCK FALSE
