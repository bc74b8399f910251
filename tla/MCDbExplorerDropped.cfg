SPECIFICATION Spec
CONSTANTS
  Shown <- MCShown
  Columns <- MCColumns
  Key <- MCKey
  AutoKeys = {"items", "prices"}
  Stored <- MCStored
  Quoting <- MCQuoting
  Unfit = {"too long"}
  Others <- MCOthers
  Req <- MCReq
  Requests = {"postNone", "quoted", "array"}
  AtMost = 1
  MaxFailures = 0
  Breaks <- MCBreaks
PROPERTIES
  EveryRequestAnswered
