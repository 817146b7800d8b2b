SPECIFICATION Spec
CONSTANTS
  Names = {f, g}
  MaxSeq = 3
  MaxId = 2
  MaxCC = 2
  MaxFaults = 3
  ReceiveEncrypted = TRUE
  CrashInReceive = TRUE
  AllowUnshare = TRUE
SYMMETRY NameSymmetry
CHECK_DEADLOCK FALSE
INVARIANTS TypeOK NoSequenceAnomaly
PROPERTY SequenceNeverBack
