SPECIFICATION Spec
CONSTANTS
  Names = {f, g}
  MaxSeq = 2
  MaxId = 1
  MaxCC = 1
  MaxFaults = 2
  ReceiveEncrypted = FALSE
  CrashInReceive = FALSE
  AllowUnshare = TRUE
SYMMETRY NameSymmetry
CHECK_DEADLOCK FALSE
INVARIANT NoGap
