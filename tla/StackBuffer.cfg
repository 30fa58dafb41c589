CONSTANTS
  m0 = m0
  m1 = m1
  m2 = m2
  m3 = m3
  m4 = m4
  Cap = 6
  IndexMod = 32
  Msgs <- MCMsgs
  SizeOf <- MCSizeOf
SPECIFICATION FairSpec
CONSTRAINT Kept
CHECK_DEADLOCK FALSE
INVARIANTS Tiled PopReturnsTop
PROPERTIES ImplementsStack Delivered
