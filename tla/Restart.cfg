SPECIFICATION FairRestartSpec
CONSTANTS
  Names <- NamesAB
  Specs <- TwoRoles
  Lag <- NoLag
  None = None
  MaxEdits = 0
  MaxFailures = 1
  MaxBlips = 1
  Recreate <- FirstRole
INVARIANTS RestartTypeOK RestartWhole
PROPERTIES RestartInOrder RestartCompletes GroupRecovers
CHECK_DEADLOCK FALSE
