CONSTANTS
  j1 = j1 j2 = j2 j3 = j3 j4 = j4 s1 = s1 s2 = s2
  Jobs = {j1, j2, j3, j4}
  ClassOf <- MCClassOf
  Submitters = {s1, s2}
  NoJob = NoJob
  MaxAgents = 2
  ReservedScoped = 1
  QueueCapacity = 0
  FloorMb = 1
  HysteresisStrikes = 2
  StrikeCap = 2
  MemoryReadings <- LowOrNot
SPECIFICATION MCSpec
INVARIANTS PermitsConserved CancelReachesLiveJobs AccountingExact OutstandingBound
PROPERTIES ImplementsPool SharedNotStarved EveryJobSettles
