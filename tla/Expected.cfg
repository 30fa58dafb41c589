CONSTANTS
  o1 = o1
  o2 = o2
  d1 = d1
  d2 = d2
  Unit = Unit
  Moved = Moved
  Raw = Raw
  Objs <- TwoObjs
  Data <- TwoData
  ValueTypes <- MCValueTypes
  ErrorTypes <- MCErrorTypes
SPECIFICATION Spec
CHECK_DEADLOCK FALSE
INVARIANTS FlagTellsWhatLives ThrowsCostOnly
PROPERTIES FailureKeepsKinds Refines
