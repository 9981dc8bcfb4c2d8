SPECIFICATION Spec
CONSTANTS
  Configs <- MCConfigs
  MaxData = 1
INVARIANTS
  ServerNeverRejects
  FailuresExplained
  OpenMeansVerified
  KeysAgree
PROPERTY Completes
