SPECIFICATION Spec
CONSTANTS
  p1 = p1
  lib = lib
  util = util
  lock = lock
  dep = dep
  v1 = v1
  v2 = v2
  k1 = k1
  k2 = k2
  Default = Default
  NoSource = NoSource
  Absent = Absent
  Torn = Torn
  Procs <- OneProc
  Files <- Plain
  Unhashed <- NoFile
  Lock <- NoFile
  Linked <- NoFile
  Versions <- TwoVersions
  Keys <- TwoKeys
  MaxFaults = 1
INVARIANT ServedWhole
