SPECIFICATION Spec
CONSTANTS
  Periods = {0, 2, 3}
  MaxMtime = 3
  Base = 3
  RtcPeriod = 2
  QueueBound = 2
  MaxTimer = 3
  Prescalers = {0, 1, 2}
  Idx = {0}
  ClkPeriods = {0, 2}
  Parts = 2
  Limits = {1, 2}
  Clears = {{}, {0, 1}}
  Overflows = {2}
  PinEdges <- MCPinEdges
  Garbage = {0}
  MaxTime = 4
  Top = 3
  MaxCount = 1
  Scales = {0, 1}
  CmpWrites <- MCCmpWrites
  IpGarbage <- MCIpGarbage
  Delay = 1
  Dividers = {0, 1}
INVARIANT RunningIsArmed
PROPERTIES LapsesAreExplained 
