SPECIFICATION Spec
CONSTANTS
  N = 3
  Input <- MCInput
  Md5 <- MCMd5
  Crc32 <- MCCrc32
  None = None
INVARIANTS
  TypeOK
  NoOverheat
  NoSendOnClosedOut
  PairedChecksums
PROPERTIES
  OnlyRelaysOutliveTheJob
  ImplementsStage
