SPECIFICATION LSpec
CONSTANTS
  none = none
  null = null
  Fields = {"f"}
  NULL = null
  Driver = "QMYSQL"
  LockLimit = 1
  NumTables = 2
  Names = {1}
  NoTrigger = none
  RTrigger <- MCRTrigger
  WTrigger <- MCWTrigger
  NumRegs = 1
  DataType <- MCDataType
  Links <- MCLinks
  TbType <- MCTbType
  Timed = {0}
  Words = {1}
  EditValues = {2}
  Budget <- MCPollsOnly
INVARIANT LockedOnlyIfEdited
