SPECIFICATION FairSpec
CONSTANTS
  Sizes <- TwoSizes
  Lag <- NoLag
  MaxEdits = 2
  MaxRequests = 1
  MaxFailures = 1
INVARIANTS TypeOK
PROPERTIES ScalesTarget BoundSpecKept  AdapterLeaves
CHECK_DEADLOCK FALSE
