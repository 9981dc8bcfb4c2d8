\* The server's messages as bytes, packed and padded as it likes.
SPECIFICATION Spec
CONSTANTS
  Flights <- MCFlights
  ClientCerts <- MCClientCerts
  Paddings = {0, 2}
  AppData <- MCAppData
  MaxData = 1
INVARIANT HandledAsSent
INVARIANT TranscriptExact
INVARIANT RejectionsExplained
INVARIANT AnswersRequest
\* Server and client may stop.
CHECK_DEADLOCK FALSE
