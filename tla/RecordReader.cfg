SPECIFICATION CalmSpec
CONSTANTS
  BufLen = 8
  TagSize = 2
  Streams <- MCStreams
  ReadSizes <- MCReadSizes
  GarbageLens <- MCGarbageLens
INVARIANTS
  TypeOK
  UnreadIntact
  PanicOnlyAfterFault
  ErrorsExplained
  CounterInSync
PROPERTIES
  DeliversStream
  EveryByteRead
CHECK_DEADLOCK FALSE
