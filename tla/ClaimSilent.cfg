SPECIFICATION Spec
CONSTANTS
  none = none
  null = null
  Fields = {"f"}
  NULL = null
  Driver = "QMYSQL"
  LockLimit = 1
  NumTables = 1
  Names = {1}
  NoTrigger = none
  RTrigger <- NotRead
  WTrigger <- Written
  NumRegs = 1
  DataType <- MCDataType
  Links <- MCLinks
  TbType <- Log
  Timed = {0}
  Words = {1}
  EditValues = {2}
  Budget <- Nobody
PROPERTY NothingStoredWhenSilent
