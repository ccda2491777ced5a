SPECIFICATION NetSpec
CONSTANTS
  RxWords = 3
  TxBytes = 8
  RxSizes = {3}
  TxLens = {0, 5, 9}
  SizeMod = 16
  Macs <- MCMacs
  hw_mac <- MCHwMac
  Packets <- MCPackets
  QueBound = 2
  Base = 4
INVARIANTS FramingIsFlagged AvailIsSafe NoneStranded
PROPERTIES StaleOnlyByFlushOrReset IrqFollowsNeed PartOnlyByFlushOrLength BridgeIsFaithful ChecksumsVerify
