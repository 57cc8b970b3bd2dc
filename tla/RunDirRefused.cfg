SPECIFICATION Spec
CONSTANTS
  Ids <- TwoIds
  Versions <- TwoVersions
  Truths <- SomeTruths
  Summaries <- TwoTimes
  NoSummary = NoSummary
  NoDoc = NoDoc
  Torn = Torn
  None = None
  MaxCommands = 4
  MaxFaults = 0
  Names <- SomeNames
  NameOf <- SomeNameOf
INVARIANTS
  RefusedTimingNeverChosen
CHECK_DEADLOCK FALSE
