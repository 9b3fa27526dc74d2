SPECIFICATION Spec
CONSTANTS
  p1 = p1
  p2 = p2
  t1 = t1
  t2 = t2
  other = other
  Procs <- TwoProcs
  Log <- FourLines
  Malformed = 0
  DemoThreads <- TwoThreads
  OtherThread = other
  DemoRows = 2
  MaxStarts = 4
  MaxEvents = 4
INVARIANT IndexIsComplete
INVARIANT BuildIsExact
INVARIANT SeedIsSound
SYMMETRY Interchange
CHECK_DEADLOCK FALSE
