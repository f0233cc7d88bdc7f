SPECIFICATION Spec
CONSTANTS
  none = none
  null = null
  Fields = {"f"}
  NULL = null
  Driver = "QMYSQL"
  LockLimit = 1
  NumTables = 3
  Names = {1, 2}
  NoTrigger = none
  RTrigger <- Read3
  WTrigger <- Written3
  NumRegs = 1
  DataType <- MCDataType
  Links <- MCLinks
  TbType <- LastValue
  Timed = {}
  Words = {1}
  EditValues = {2}
  Budget <- EditRaise2
PROPERTY ReadMarkIsOfTheTable
