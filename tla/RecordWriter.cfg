SPECIFICATION Spec
CONSTANTS
  BufLen = 152
  HelloLen = 147
  HandshakeLens <- MCHandshakeLens
  FinishedLen = 36
  WriteSizes <- MCWriteSizes
  CounterMax = 2
  MaxRecords = 5
INVARIANTS
  TypeOK
  NonceNeverReused
  PeerInSync
  StreamIntact
  PanicsExplained
  WriteMakesProgress
  
PROPERTY FlushDelivers
