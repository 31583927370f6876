SPECIFICATION FairSpec
CONSTANTS
  Names <- NamesAB
  Specs <- EvolvingSpecs
  Lag <- NoLag
  None = None
  MaxEdits = 2
  MaxFailures = 1
  MaxBlips = 1
INVARIANTS TypeOK
PROPERTIES ReplacedBeforeRemoved GangFirst GroupConverges StatusSettles
CHECK_DEADLOCK FALSE
