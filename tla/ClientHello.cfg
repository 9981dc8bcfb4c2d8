\* The bytes of the client's hello, for every configuration of a few calls.
SPECIFICATION Spec
CONSTANTS
  BufLen = 440
  ServerNames <- MCServerNames
  AlpnLists <- MCAlpnLists
  IdentityLists <- MCIdentityLists
  MaxCalls = 4
INVARIANT PeerReadsOffer
INVARIANT TranscriptIsMessage
INVARIANT BindersCoverTruncatedHello
\* A client opens its connection once here.
CHECK_DEADLOCK FALSE
