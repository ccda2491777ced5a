SPECIFICATION SysSpec
CONSTANTS
  NumSources = 3
  NumContexts = 2
  MaxPriority = 2
  SC_SIGNAL_IF = FALSE
  Configs <- MCConfigs
  MaxResets = 1
INVARIANTS SysInv ScanFindsTheWinner
PROPERTIES DeadOnlyByReset ImplementsGateway ForemostIsClaimed SpuriousIsTakenBack
CHECK_DEADLOCK FALSE
