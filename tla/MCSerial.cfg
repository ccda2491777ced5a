SPECIFICATION SerialSpec
CONSTANTS
  Initiators = {1, 2}
  TxDepth = 2
  CharBound = 2
  Depth = 2
  Marks = {0, 1}
  CallBound = 1
  Lengths = {0, 1, 2}
  DataBound = 2
  Written = {"identify", "WREN", "RDSR"}
  QueueBound = 2
  SpiDepth = 1
  Ids = {0, 1}
  SpiMarks = {1}
  TxWords = 4
  RxWords = 4
  DataLengths = {1, 3}
  Prefixes = {{}, {"COMMAND", "ADDRESS", "DUMMY"}}
  Stored = {0, 1}
INVARIANT StreamsAreKept
PROPERTIES LossesAreExplained SignalsAreExplained
CHECK_DEADLOCK FALSE
