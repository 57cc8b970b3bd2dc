SPECIFICATION Spec
CONSTANTS
  p1 = p1
  lib = lib
  util = util
  lock = lock
  dep = dep
  v1 = v1
  v2 = v2
  k1 = k1
  k2 = k2
  Default = Default
  NoSource = NoSource
  Absent = Absent
  Torn = Torn
  Procs <- OneProc
  Files <- Hidden
  Unhashed <- Hidden
  Lock <- LockFile
  Linked <- Dependency
  Versions <- TwoVersions
  Keys <- TwoKeys
  MaxFaults = 0
INVARIANT ServedIsExact
