SPECIFICATION Spec
CONSTANTS
  a = a
  b = b
  own = own
  untitled = untitled
  loop = loop
  user = user
  Windows <- MCWindows
  OwnWindow = own
  NoTitle = untitled
  Writers <- MCWriters
  Loop = loop
  User = user
  Answers <- AllAnswers
  WindowChangeDetection = TRUE
  RecordWidth = 3
  TailWidth = 5
  LastMinute = 1
  Rapid = 1
  Capacity = 2
  MaxTime = 3
  MaxMoves = 2
  MaxRecords = 2
INVARIANT LoopRunsIndefinitely
CHECK_DEADLOCK FALSE
