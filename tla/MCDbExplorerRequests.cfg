SPECIFICATION Spec
CONSTANTS
  Shown <- MCShown
  Columns <- MCColumns
  Key <- MCKey
  AutoKeys = {"items", "prices"}
  Stored <- MCStored
  Quoting <- MCQuoting
  Unfit = {"too long"}
  Others <- MCOthers
  Req <- MCReq
  Requests = {"get1", "get3", "count", "put", "postNull", "postTitle", "postKey", "delete1", "delete1b", "deleteAll", "quoted", "array", "chosen", "nowhere", "other"}
  AtMost = 3
  MaxFailures = 1
  Breaks <- MCBreaks
INVARIANTS
  TypeOK
  WrittenIsFound
  DeletedOnce
  OnlyFailedScansLeak
  ReasonableAnswered
PROPERTIES
  ChangesAsAsked
