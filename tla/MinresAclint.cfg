SPECIFICATION Spec
CONSTANTS
  NumCpus = 2
  NoCompare = 100
  ClkPeriods = {0, 2}
  CmpWrites = {1, 2}
  MtimeWrites = {1}
  Bindings = {TRUE, FALSE}
  MaxSince = 4
  MaxMtime = 2
  MaxQueue = 2
INVARIANT ArmedForTheEarliest
PROPERTIES MissedOnlyBehindAnother EarlyOnlyByClock ReadsMonotone MsipStaleOnlyByReset
