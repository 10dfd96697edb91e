SPECIFICATION Spec
CONSTANTS
  W = 4
  MaxMsg = 12
  Absent = Absent
  Lead = 2
  Trail = 3
  Messages <- AllMessages
  Typed <- Texts
  Foreign <- Strange
INVARIANTS
  ReadAsSent
  NothingInvented
  StuffArrives
CHECK_DEADLOCK FALSE
