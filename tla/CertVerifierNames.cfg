SPECIFICATION Spec
CONSTANTS
  HOSTNAME_MAXLEN = 6
  MAX_SAN_DNS_NAMES = 2
  MaxEntries = 4
  CertSize = 3
  Builds <- MCBuilds
  CAs <- MCCAs
  Clocks <- MCClocks
  Hosts <- MCHosts
  Chains <- MCChains
  Verifies <- MCVerifies
INVARIANT
  SansReplaceCommonName
CHECK_DEADLOCK FALSE
