SPECIFICATION ResyncSpec
CONSTANTS
  MaxUnavailable <- Int1
  MaxSurge <- Int1
  Templates = {t1, t2, t3}
  BadTemplates = {t2}
  None = None
  Sizes = {1, 3}
  MaxOrdinals = 4
  Lag <- NoLag
  MaxTemplateEdits = 1
  MaxScaleEdits = 1
  MaxEvictions = 0
  MaxBlips = 1
INVARIANTS SizeCaughtUp
PROPERTIES RolloutCompletes
