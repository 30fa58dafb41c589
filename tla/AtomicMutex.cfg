CONSTANTS
  NoOne = NoOne
  p1 = p1
  p2 = p2
  p3 = p3
  Procs <- ThreeProcs
  Mortal <- Children
  MaxTries = 2
  MaxCount = 3
SPECIFICATION FairSpec
CHECK_DEADLOCK FALSE
INVARIANTS MutualExclusion NoLostUpdates
PROPERTIES ImplementsMutex LockProgress
