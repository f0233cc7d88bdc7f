SPECIFICATION HSpec
CONSTANTS
  none = none
  null = null
  Fields = {"f"}
  NULL = null
  Driver = "QMYSQL"
  LockLimit = 1
  NumTables = 3
  Names = {1, 2}
  NoTrigger = none
  RTrigger <- MCRTrigger
  WTrigger <- MCWTrigger
  NumRegs = 1
  DataType <- MCDataType
  Links <- MCLinks
  TbType <- MCTbType
  Timed = {0}
  Words = {1}
  EditValues = {1}
  Budget <- MCBudget
INVARIANTS
  SendsBounded
  RequestInv
PROPERTIES
  ResetAfterSent
  FreshRaiseKept
  RaisedIsServed
  KeepsRequests
