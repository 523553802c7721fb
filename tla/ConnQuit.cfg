SPECIFICATION Spec
CONSTANTS
  Word <- MCWord
  KeyLen <- MCKeyLen
  HasControl <- MCHasControl
  Reads <- MCReads
  MaxKeyLen = 1
  MaxItemSize = 1
  U32 <- MCNumbers
  I64 <- MCNumbers
  U64 <- MCNumbers
  UsizeModulus = 8
  Text <- MCText
  Requests <- Quitting
  MaxRequests = 2
  Window = 2
  Endings <- NoEnding
  MaxLine = 4
  WriterCap = 2
INVARIANT ResponsesWrittenBack
