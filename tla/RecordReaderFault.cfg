SPECIFICATION Spec
CONSTANTS
  BufLen = 7
  TagSize = 2
  Streams <- FaultStreams
  ReadSizes <- FaultReadSizes
  GarbageLens <- FaultGarbageLens
INVARIANTS
  UnreadIntact
  PanicOnlyAfterFault
  ErrorsExplained
  CounterInSync
PROPERTY DeliversStream
