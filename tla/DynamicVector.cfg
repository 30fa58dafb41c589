CONSTANTS
  MaxOrphans = 1
  v1 = v1
  v2 = v2
  b1 = b1
  b2 = b2
  b3 = b3
  b4 = b4
  e1 = e1
  e2 = e2
  NoBlock = NoBlock
  Raw = Raw
  Moved = Moved
  Bad = Bad
  Zero = e1
  Types <- MCTypes
  Vecs <- TwoVecs
  Editing <- OneVec
  Blocks <- FourBlocks
  Vals <- OneVal
  N = 0
  MaxSize = 2
  MaxCalc = 11
  MaxSrc = 1
  Realloc = TRUE
  LongSources <- LongRanges
  AliasArgs = TRUE
SPECIFICATION Spec0
CHECK_DEADLOCK FALSE
INVARIANTS AlwaysSound
PROPERTIES OrphansOnlyFromMoves Refines
