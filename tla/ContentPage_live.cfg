CONSTANTS
  Kinds = {"decoders", "kvdbs", "rules", "filters"}
  Items = {i1}
  UsedSpaces = {"draft", "standard"}
  Views = {{i1}}
  Loads = {l1, l2}
  Jobs = {j1, j2}
  Nowhere = Nowhere
  NoLoad = NoLoad
  NoJob = NoJob
SPECIFICATION FairSpec
CHECK_DEADLOCK FALSE
PROPERTIES DeletingEnds SelectorComesBack
