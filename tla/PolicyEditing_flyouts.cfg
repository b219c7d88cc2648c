CONSTANTS
  Tabs = {t1}
  Slots = {s1, s2}
  Ids = {i1}
  InitialIds = {}
  HomeSpace = "draft"
  Decoders = {d1}
  NoDecoder = NoDecoder
  UsedSpaces = {"draft", "standard"}
  Kinds = {"edit", "rearrange", "rootDecoder", "clear", "delete"}
  Fields = {"metadata"}
  Values = {v1, bad}
  Invalid = bad
  NoSave = NoSave
SPECIFICATION FairSpec
CHECK_DEADLOCK FALSE
INVARIANTS LockMatchesSave
PROPERTIES ChangesKept SendsWithinForm EditFormUnlocks
