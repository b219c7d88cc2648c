CONSTANTS
  Tabs = {t1}
  Slots = {s1}
  Ids = {i1, i2}
  InitialIds = {i1, i2}
  HomeSpace = "draft"
  Decoders = {}
  NoDecoder = NoDecoder
  UsedSpaces = {"draft"}
  Kinds = {"rearrange"}
  Fields = {}
  Values = {v1, bad}
  Invalid = bad
  NoSave = NoSave
SPECIFICATION Spec
SYMMETRY Symmetry
CHECK_DEADLOCK FALSE
PROPERTIES RearrangeDropsOnlyDeleted
