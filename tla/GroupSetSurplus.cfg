SPECIFICATION Spec
CONSTANTS
  Sizes <- UpToThree
  Lag <- GroupsLag
  MaxEdits = 0
  MaxDeletes = 0
  MaxGroups = 4
  MaxFailures = 0
INVARIANTS NoSurplus
CHECK_DEADLOCK FALSE
