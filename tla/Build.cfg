SPECIFICATION Spec
CONSTANTS
  p1 = p1
  lib = lib
  util = util
  lock = lock
  dep = dep
  v1 = v1
  v2 = v2
  k1 = k1
  k2 = k2
  Default = Default
  NoSource = NoSource
  Absent = Absent
  Torn = Torn
  Procs <- OneProc
  Files <- Crate
  Unhashed <- LockFile
  Lock <- LockFile
  Linked <- NoFile
  Versions <- TwoVersions
  Keys <- TwoKeys
  MaxFaults = 1
SYMMETRY Symmetry
INVARIANTS
  TypeOK
  ServedIsCurrent
  FreshInv
PROPERTY ImplementsStore
