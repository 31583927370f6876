SPECIFICATION Spec
CONSTANTS
  Names <- NamesAB
  Specs <- KindChange
  Lag <- LagAll
  None = None
  MaxEdits = 1
  MaxFailures = 0
  MaxBlips = 0
PROPERTIES StartsInOrder ReadyEarned GangFirst
CHECK_DEADLOCK FALSE
