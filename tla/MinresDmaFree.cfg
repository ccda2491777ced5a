SPECIFICATION Safety
CONSTANTS
  AddrSpace = 4
  Starts <- ShortStarts
  Strides <- OneStride
  IeWrites <- MCIeWrites
  Polite = FALSE
PROPERTIES UnflaggedOnlyByRace IrqStaleOnlyByIe
