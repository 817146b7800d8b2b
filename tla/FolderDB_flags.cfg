SPECIFICATION Spec
CONSTANTS
  NumIds = 2
  NumDevices = 3
  Names = {f, g}
  Versions <- MCThree
  Modified <- MCGrowing3
  Deleted <- MCDeleted
  AllowInvalid = TRUE
  NoRow = NoRow
SYMMETRY NameSymmetry
INVARIANTS OneGlobal NeedOnRemoteGlobal NeedIsReal FlagsCurrent GlobalIsLatest
