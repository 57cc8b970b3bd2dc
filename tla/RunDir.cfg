SPECIFICATION Spec
CONSTANTS
  Ids <- TwoIds
  Versions <- TwoVersions
  Truths <- SomeTruths
  Summaries <- TwoTimes
  NoSummary = NoSummary
  NoDoc = NoDoc
  Torn = Torn
  None = None
  MaxCommands = 4
  MaxFaults = 1
  Names <- SomeNames
  NameOf <- SomeNameOf
INVARIANTS
  TypeOK
  PlanIsTheGates
  VerdictsFirst
  ArtifactsShipped
  JoinIsSound
  AdmittedAreRanked
  
CHECK_DEADLOCK FALSE
