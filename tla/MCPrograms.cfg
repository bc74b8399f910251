SPECIFICATION MCSpec
CONSTANTS
  MaxLimit = 3
  Users = {"a", "b", "c", "d", "e"}
  Found <- MCFound
  Limits <- MCLimits
  Offsets <- MCOffsets
  MaxFailures = 2
  Structs = {"profile", "create", "other", "posted", "untagged", "minFirst", "named",
             "requiredInt", "strings", "marks", "samePath"}
  Requests <- MCRequests
  Files <- MCFiles
  Unpacks <- MCUnpacks
  Base = 4
  Android = {"A", "AM"}
  MSIE = {"M", "AM"}
  NoString = {"7"}
INVARIANTS
  AnswersInOrder
  FastPrintsAsSlow
  DrawsTree
  ConvertsOrFails
  UnpackRecovers
  EveryUserOnce
PROPERTIES
  PagingEnds
