SPECIFICATION FairSpec
CONSTANTS
  Names = {f, g}
  MaxSeq = 3
  MaxId = 2
  MaxCC = 2
  MaxFaults = 2
  ReceiveEncrypted = FALSE
  CrashInReceive = FALSE
  AllowUnshare = FALSE
CHECK_DEADLOCK FALSE
INVARIANT NoGap
PROPERTY EventuallySynced
