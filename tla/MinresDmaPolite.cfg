SPECIFICATION Spec
CONSTANTS
  AddrSpace = 4
  Starts <- MCStarts
  Strides <- TwoStrides
  IeWrites <- TwoIeWrites
  Polite = TRUE
INVARIANTS BusyIsWorking JobsTracked
PROPERTIES ImplementsChannels BusyEnds
