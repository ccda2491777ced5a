SPECIFICATION Spec
CONSTANTS
  NumCpus = 2
  NoCompare = 100
  ClkPeriods = {2}
  CmpWrites = {1, 2}
  MtimeWrites = {1}
  Bindings = {FALSE}
  MaxSince = 4
  MaxMtime = 2
  MaxQueue = 2
PROPERTY AllComparesAreChecked
