SPECIFICATION Spec
CONSTANTS
  Word <- MCWord
  KeyLen <- MCKeyLen
  HasControl <- MCHasControl
  Reads <- MCReads
  MaxKeyLen = 7
  MaxItemSize = 1
  U32 <- MCU32
  I64 <- MCI64
  U64 <- MCU64
  UsizeModulus = 12
  Heads <- MCHeads
  Arguments <- MCArguments
  MaxArgs <- MCMaxArgs
INVARIANT TooLargeDiscardsAll
