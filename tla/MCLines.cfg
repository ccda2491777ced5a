SPECIFICATION Spec
CONSTANTS
  IrqLines = {0, 1}
  GpioPins = {0}
  PeqBound = 2
  IofPins = {1}
  IofBound = 1
  PadBits = {0}
  IntTypes = {0, 1}
  PulpinoPins = {0}
  LastSource = 3
  MaxPrio = 1
  Srcs = {1, 2}
  EdgeSrcs = {2}
  Targets = {t1}
  MaxLevel = 1
INVARIANT OutputsFollow
PROPERTIES  DisagreementIsExplained
