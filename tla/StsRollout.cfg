SPECIFICATION FairSpec
CONSTANTS
  MaxUnavailable <- Int1
  MaxSurge <- Int0
  Templates = {t1, t2, t3}
  BadTemplates = {t2}
  None = None
  Sizes = {3}
  MaxOrdinals = 3
  Lag <- NoLag
  MaxTemplateEdits = 2
  MaxScaleEdits = 0
  MaxEvictions = 1
  MaxBlips = 0
INVARIANTS TypeOK
PROPERTIES PartitionFalls ExposureBounded RolloutCompletes
