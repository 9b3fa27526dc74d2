SPECIFICATION Spec
CONSTANTS
  a = a
  b = b
  own = own
  untitled = untitled
  loop = loop
  user = user
  Windows <- MCWindows
  OwnWindow = own
  NoTitle = untitled
  Writers <- MCWriters
  Loop = loop
  User = user
  Answers <- Quiet
  WindowChangeDetection = TRUE
  RecordWidth = 3
  TailWidth = 5
  LastMinute = 1
  Rapid = 1
  Capacity = 2
  MaxTime = 2
  MaxMoves = 2
  MaxRecords = 2
INVARIANT LostOnlyIfDisturbed ContextIsTrue
PROPERTY TailIsTold WindowIsJudged
CHECK_DEADLOCK FALSE
