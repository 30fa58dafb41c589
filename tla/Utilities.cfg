CONSTANTS
  Stores = {s1, s2}
  s1 = s1
  s2 = s2
  CharBits = 2
  EndMarker = 1
  IntBits = 2
  ByteBits = 1
  Align = 4
  Nul = 0
  MaxText = 4
  Layouts <- MCLayouts
  PackBits = 4
  MaxRange = 20
  Types <- MCTypes
  MaxArray = 4
  MaxElement = 40
SPECIFICATION Spec
CHECK_DEADLOCK FALSE
INVARIANTS BwtRoundTrip PackRoundTrip MatchesReference
PROPERTIES StoreLifetimes
