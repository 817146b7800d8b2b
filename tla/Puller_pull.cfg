SPECIFICATION Spec
CONSTANTS
  u = u
  N = 2
  Updates = {u}
  Deletions = {d}
  BlocksOf <- MCBlocksOf
  OldTemps <- MCOldTemps
  ZeroBlocks = {2}
  Copiers = {c1}
  MaxPending = 2
  MaxIterations = 2
  Versioned = FALSE
  MaxConflicts = 1
  ConflictCopies = {d}
  DisableSparseFiles = FALSE
  TempFails = TRUE
  TruncateFails = TRUE
  MayStop = TRUE
  MaxEdits = 1
  NoFile = NoFile
INVARIANTS TypeOK UserChangeKept EveryFileFinished FailuresAreReported
PROPERTIES ImplementsReplica PullReturns
