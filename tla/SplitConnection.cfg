\* Both halves of one connection at the same time.
SPECIFICATION Spec
CONSTANTS
  WriteBufLen = 152
  HelloLen = 147
  HandshakeLens = {36}
  FinishedLen = 36
  WriteSizes = {12}
  CounterMax = 9
  MaxRecords = 4
  ReadBufLen = 4
  Streams <- MCStreams
  TagSize = 1
  ReadSizes = {1}
  GarbageLens = {}
PROPERTIES
  ImplementsHalves
  NothingTakenAfterClose
