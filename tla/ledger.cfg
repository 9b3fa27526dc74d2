SPECIFICATION Spec
CONSTANTS
  t1 = t1
  t2 = t2
  bad = bad
  Traces <- TwoTraces
  Transcript <- TwoLines
  Malformed = bad
  MaxEvents = 2
  MaxFaults = 1
  Material = 2
  Backends <- FiveBackends
  MaxJobs = 2
  MaxSamples = 1
  MaxResults = 1
  MaxRows = 2
INVARIANT LedgerIsSound
INVARIANT JobsTellTheTruth
INVARIANT ResultsAreReviewable
CHECK_DEADLOCK FALSE
PROPERTY DistillationEnds
