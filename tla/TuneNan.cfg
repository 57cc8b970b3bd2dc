SPECIFICATION Spec
CONSTANTS
  fast = fast
  safe = safe
  Strings = {fast, safe}
  MaxU = 63
  Max32 = 15
  AxisLimit <- SmallAxes
  Inf <- Infinity
  NaN <- NotANumber
  NoSummary = NoSummary
  Device <- SmallDevice
  Warp = 2
  Listed = {}
  Tuned <- TunedOnce
  Samples <- AllSamples
  Room = 2
  MaxScroll = 2
INVARIANT NoNaNMedian
CHECK_DEADLOCK FALSE
