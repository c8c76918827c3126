\* Long enough for a dirty frame to become too old (4 * nframes loads).
CONSTANTS
  npages = 3
  nframes = 2
  v0 = v0
  v1 = v1
  Values <- OneValue
  Policies <- AllPolicies
  Zero = v0
  NoAccess = NoAccess
  MaxReads = 10
  MaxNotUsed = 1
SPECIFICATION FairSpec
CHECK_DEADLOCK FALSE
PROPERTY AccessCompletes
