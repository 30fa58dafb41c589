CONSTANTS
  v1 = v1
  v2 = v2
  b1 = b1
  b2 = b2
  b3 = b3
  e1 = e1
  e2 = e2
  NoBlock = NoBlock
  Raw = Raw
  Moved = Moved
  Bad = Bad
  Zero = e1
  Types <- MCTypes
  Vecs <- OneVec
  Editing <- OneVec
  Blocks <- TwoBlocks
  Vals <- TwoVals
  N = 1
  MaxSize = 5
  MaxCalc = 35
  MaxSrc = 2
  Realloc = TRUE
  LongSources <- LongRanges
  AliasArgs = TRUE
SPECIFICATION Spec
CHECK_DEADLOCK FALSE
INVARIANTS LifetimesExact
PROPERTIES AliasedAppend Refines StrongGuarantee
