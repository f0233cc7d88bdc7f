SPECIFICATION FairSpec
CONSTANTS
  none = none
  null = null
  Fields = {"f"}
  NULL = null
  Driver = "QMYSQL"
  LockLimit = 1
  NumTables = 2
  Names = {1, 2}
  NoTrigger = none
  RTrigger <- MCRTrigger
  WTrigger <- MCWTrigger
  NumRegs = 1
  DataType <- MCDataType
  Links <- MCLinks
  TbType <- MCTbType
  Timed = {0}
  Words = {1}
  EditValues = {2}
  Budget <- MCBudget
PROPERTIES
  RaisedWriteIsReset
  DueTableIsRead
  LockRunsOut
