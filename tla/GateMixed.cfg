SPECIFICATION Spec
CONSTANTS
  k1 = k1
  k2 = k2
  c32 = c32
  c64 = c64
  d64 = d64
  None = None
  Configs <- ThreeConfigs
  Keys <- TwoKeys
  SpecKey <- KeyOf
  BlockThreads <- ThreadsOf
  Findings <- WithMixed
  Answers <- SomeAnswers
CHECK_DEADLOCK FALSE
INVARIANT ThreadIdxIsACaveatAtAnyShape
