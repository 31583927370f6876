SPECIFICATION FairSpec
CONSTANTS
  Sizes <- UpToThree
  Lag <- Behind
  MaxEdits = 2
  MaxDeletes = 2
  MaxGroups = 4
  MaxFailures = 2
INVARIANTS TypeOK SurplusBounded
PROPERTIES Fills
CHECK_DEADLOCK FALSE
