SPECIFICATION FairSpec
CONSTANTS
  none = none
  null = null
  Fields = {"f"}
  NULL = null
  Driver = "QSQLITE"
  LockLimit = 1
  NumTables = 1
  Names = {1}
  NoTrigger = none
  RTrigger <- NotRead
  WTrigger <- Written
  NumRegs = 1
  DataType <- MCDataType
  Links <- MCLinks
  TbType <- LastValue
  Timed = {0}
  Words = {1}
  EditValues = {2}
  Budget <- OneRaise
PROPERTY RaisedWriteIsResetInSqlite
