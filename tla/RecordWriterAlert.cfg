SPECIFICATION Spec
CONSTANTS
  BufLen = 152
  HelloLen = 147
  HandshakeLens <- SealFailsLens
  FinishedLen = 36
  WriteSizes <- MCWriteSizes
  CounterMax = 100
  MaxRecords = 5
INVARIANT AbortSendsAlert
