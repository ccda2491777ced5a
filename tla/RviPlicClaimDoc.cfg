SPECIFICATION Spec
CONSTANTS
  NumSources = 2
  NumContexts = 1
  MaxPriority = 1
  SC_SIGNAL_IF = FALSE
PROPERTY ClaimIgnoresThreshold
