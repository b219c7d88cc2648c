CONSTANTS
  Kinds = {"decoders", "kvdbs", "rules", "filters"}
  Items = {i1, i2}
  UsedSpaces = {"draft", "standard"}
  Views = {{i1, i2}}
  Loads = {l1, l2}
  Jobs = {j1, j2}
  Nowhere = Nowhere
  NoLoad = NoLoad
  NoJob = NoJob
SPECIFICATION Spec
SYMMETRY Symmetry
CHECK_DEADLOCK FALSE
INVARIANTS DeletingMatchesBulk ReportedAreDeleted
