SPECIFICATION Spec
CONSTANTS
  N = 2
  P = 6
  Input <- MCInput
  Crc32 <- MCCrc32
INVARIANTS
  TypeOK
  NoSendOnClosedOut
  ResultInPrefixOrder
PROPERTIES
  EveryGoroutineEnds
  ImplementsStage
