SPECIFICATION FairSpec
CONSTANTS
  MaxUnavailable <- Pct50
  MaxSurge <- Pct50
  Templates = {t1, t2}
  BadTemplates = {}
  None = None
  Sizes = {1, 2}
  MaxOrdinals = 3
  Lag <- AllLag
  MaxTemplateEdits = 1
  MaxScaleEdits = 1
  MaxEvictions = 0
  MaxBlips = 0
INVARIANTS ReplicasBounded IndexInRange
