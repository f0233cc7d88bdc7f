SPECIFICATION FairSpec
CONSTANTS
  IdLimit = 4
  NoAddr = NoAddr
  NoIni = NoIni
  trg1 = trg1
  trg2 = trg2
  trg3 = trg3
  plc1 = plc1
  plc2 = plc2
  Configs <- MCConfigs
  RestartConfigs <- MCRestartConfigs
  Budget <- MCBudget
CHECK_DEADLOCK FALSE
INVARIANTS
  SearchInv
  IdIsLeastFree
  CycleInv
  CyclesCoverTags
  OneNumbering
  TriggersReady
  SoundStaysSafe
PROPERTIES
  StartAdvances
  SoundFileStarts
