SPECIFICATION Spec
CONSTANTS
  fast = fast
  safe = safe
  Strings = {fast, safe}
  MaxU = 63
  Max32 = 15
  AxisLimit <- SmallAxes
  Inf <- Infinity
  NaN <- NotANumber
  NoSummary = NoSummary
  Device <- SmallDevice
  Warp = 2
  Listed <- AllListed
  Tuned <- AllTuned
  Samples <- AllSamples
  Room = 2
  MaxScroll = 2
INVARIANTS
  TypeOK
  ConstraintsAreExact
  EnumerationIsComplete
  GateSeesTheLaunch
  OrderVisitsEach
  SummaryIsSound
  OnlyRefusedAboveChosen
  CorrelationIsSound
CHECK_DEADLOCK FALSE
