SPECIFICATION HFairSpec
CONSTANTS
  NumSlaves = 2
  NumCycles = 3
  SlaveOf <- MCSlaveOf
  NPoll = 2
  Limits <- MCLimits
INVARIANTS
  TypeOK
  SocketAtActual
  NothingMisdirected
  ExecutedInOrder
  LostOnlyByFault
PROPERTIES
  KeepsDelivery
  ReadsOwnAnswer
  MailboxServed
  ErrRecovers
  WriteArrives
