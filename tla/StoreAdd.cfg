SPECIFICATION FairSpec
CONSTANTS
  t1 = t1
  t2 = t2
  t3 = t3
  k1 = k1
  k2 = k2
  ThirtyDays = 2
  Modulus = 4
  Byte <- MCByte
  Denotes <- MCDenotes
  FormatU64 <- MCFormatU64
  Threads <- ThreeThreads
  Keys <- OneKey
  Commands <- AddMenu
  StartTime = 1
  MonotoneClock = TRUE
  MaxTime = 1
  MaxOps = 3
  MaxEvictions = 1
INVARIANT PlaceholderExclusive
PROPERTY AddNeverOverwrites
PROPERTY LateGuardTouchesNothing
PROPERTY Progress
PROPERTY ActsAtomically
