SPECIFICATION FairSpec
CONSTANTS
  k1 = k1
  k2 = k2
  c32 = c32
  c64 = c64
  d64 = d64
  None = None
  Configs <- ThreeConfigs
  Keys <- TwoKeys
  SpecKey <- KeyOf
  BlockThreads <- ThreadsOf
  Findings <- SomeFindings
  Answers <- SomeAnswers
CHECK_DEADLOCK FALSE
INVARIANTS
  TypeOK
  NeverAPassByOmission
  AdmittedHasNoHazard
  SmallerBlockIsNoWorse
  OneRunPerKey
  GateInv
PROPERTIES
  EveryConfigDecided
