CONSTANTS
  Kids <- MCKids
  Nothrow <- MCNothrow
  Parent = "parent"
  N = 4
  MaxFaults = 1
SPECIFICATION Spec
CHECK_DEADLOCK FALSE
INVARIANTS JoinTells StraysFromFaults ExpectationsHold TakesTurns
PROPERTY EndsJoined
