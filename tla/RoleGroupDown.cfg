SPECIFICATION WeakSpec
CONSTANTS
  Names <- NamesAB
  Specs <- AfterStatefulSet
  Lag <- NoLag
  None = None
  MaxEdits = 0
  MaxFailures = 0
  MaxBlips = 1
PROPERTIES ReadyFalls
CHECK_DEADLOCK FALSE
