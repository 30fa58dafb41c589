CONSTANTS
  s1 = s1
  s2 = s2
  b1 = b1
  b2 = b2
  b3 = b3
  x = x
  NoBlock = NoBlock
  Nul = Nul
  Junk = Junk
  Lost = Lost
  N = 4
  CharSize = 4
  MaxLength = 63
  Strs <- TwoStrs
  Blocks <- ThreeBlocks
  Tags <- BothTags
  Alphabet <- MCAlphabet
  Ch = x
  Texts <- MCTexts
  Editing <- OneStr
  Shared <- MCShared
  MaxLen = 6
  Reserved <- MCReserved
  Huge <- MCHuge
  HugeTexts <- MCHugeTexts
SPECIFICATION Spec
CHECK_DEADLOCK FALSE
INVARIANTS StorageOwned UndefinedOnly
PROPERTIES RefinesString TerminatorKept OwnCharacters
