SPECIFICATION Spec
CONSTANTS
  t1 = t1
  t2 = t2
  t3 = t3
  k1 = k1
  k2 = k2
  ThirtyDays = 2
  Modulus = 4
  Byte <- MCByte
  Denotes <- MCDenotes
  FormatU64 <- MCFormatU64
  Threads <- TwoThreads
  Keys <- OneKey
  Commands <- FlushDelayedMenu
  StartTime = 1
  MonotoneClock = TRUE
  MaxTime = 4
  MaxOps = 4
  MaxEvictions = 0
PROPERTY FlushedStaysHidden
