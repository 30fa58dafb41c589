CONSTANTS
  v1 = v1
  v2 = v2
  e1 = e1
  e2 = e2
  NoBlock = NoBlock
  Raw = Raw
  Moved = Moved
  Bad = Bad
  Zero = e1
  Types <- MCTypes
  Vecs <- TwoVecs
  Editing <- TwoVecs
  b1 = b1
  Blocks <- OneBlock
  Vals <- TwoVals
  N = 2
  MaxSize = 3
  MaxCalc = 15
  MaxSrc = 2
  Realloc = FALSE
  LongSources <- LongRanges
  AliasArgs = TRUE
SPECIFICATION SpecStatic
CHECK_DEADLOCK FALSE
INVARIANTS StaticLifetimes NeverAllocates
PROPERTIES SplitKeepsElements
