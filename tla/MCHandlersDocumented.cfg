SPECIFICATION SpecPrograms
CONSTANTS
  Structs = {"posted"}
  Requests <- MCRequests
  Files = {}
  Unpacks = {}
  Base = 4
  Android = {"A"}
  MSIE = {"M"}
  NoString = {}
INVARIANT AnswersAsDocumented
CHECK_DEADLOCK FALSE
