SPECIFICATION EstablishedFairSpec
CONSTANTS
  MaxUnavailable <- Int1
  MaxSurge <- Int0
  Templates = {t1, t2}
  BadTemplates = {}
  None = None
  Sizes = {1, 2}
  MaxOrdinals = 2
  Lag <- NoLag
  MaxTemplateEdits = 1
  MaxScaleEdits = 1
  MaxEvictions = 0
  MaxBlips = 0

PROPERTIES RolloutCompletes
