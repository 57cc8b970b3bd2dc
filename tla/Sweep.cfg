SPECIFICATION FairSpec
CONSTANTS
  u1 = u1
  u2 = u2
  s1 = s1
  h1 = h1
  None = None
  NoBudget = NoBudget
  NoDoc = NoDoc
  Torn = Torn
  Candidates <- Mixed
  Unsafe <- TwoUnsafe
  Hosts <- OneHost
  Budgets <- BudgetsTo2
  Seconds <- OneSecond
  UnsafeTimeout = 2
  MaxFaults = 2
INVARIANTS
  TypeOK
  DiskReadable
  OneRecordEach
  TimeoutBeforeLaunch
  UnsafeLaunchedOnce
  AtMostOneUnsaved
  RelaunchedOnlyAfterDeath
  ExhaustedIsExact
  IndInv
PROPERTIES
  EveryCandidateRecorded
  HungProcessEnds
  MeasurementsDurable
  ImplementsMeasurements
