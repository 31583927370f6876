SPECIFICATION FairRestartSpec
CONSTANTS
  Names <- NamesAB
  Specs <- TwoRoles
  Lag <- NoLag
  None = None
  MaxEdits = 0
  MaxFailures = 0
  MaxBlips = 1
  Recreate <- FirstRole
PROPERTIES RestartsEnd
CHECK_DEADLOCK FALSE
