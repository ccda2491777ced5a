SPECIFICATION BothSpec
CONSTANTS
  NumSources = 2
  NumContexts = 2
  MaxPriority = 1
  SC_SIGNAL_IF = TRUE
PROPERTIES MissedOnlyByConfiguration SpuriousOnlyByOthers
