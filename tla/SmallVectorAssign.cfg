CONSTANTS
  v1 = v1
  v2 = v2
  b1 = b1
  b2 = b2
  b3 = b3
  e1 = e1
  e2 = e2
  NoBlock = NoBlock
  Raw = Raw
  Moved = Moved
  Bad = Bad
  Zero = e1
  Types <- MCTypes
  Vecs <- TwoVecs
  Editing <- OneVec
  Blocks <- ThreeBlocks
  Vals <- OneVal
  N = 1
  MaxSize = 3
  MaxCalc = 15
  MaxSrc = 1
  Realloc = TRUE
  LongSources = {}
  AliasArgs = FALSE
SPECIFICATION Spec
CHECK_DEADLOCK FALSE
INVARIANTS LifetimesExact BlocksOwnedOnce TerminatesOnlyOnCopies
PROPERTIES Refines
