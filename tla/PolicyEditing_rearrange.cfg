CONSTANTS
  Tabs = {t1, t2}
  Slots = {s1, s2}
  Ids = {i1, i2}
  InitialIds = {i1, i2}
  HomeSpace = "draft"
  Decoders = {}
  NoDecoder = NoDecoder
  UsedSpaces = {"draft"}
  Kinds = {"rearrange"}
  Fields = {}
  Values = {v1, bad}
  Invalid = bad
  NoSave = NoSave
SPECIFICATION Spec
SYMMETRY Symmetry
CHECK_DEADLOCK FALSE
INVARIANTS StoredPolicyValid
PROPERTIES RearrangeDropsDeleted
