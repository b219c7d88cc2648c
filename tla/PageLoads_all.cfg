CONSTANTS
  Pages <- AllPages
  Keys = {k1, k2}
  MaxLoads = 3
SPECIFICATION FairSpec
CHECK_DEADLOCK FALSE
INVARIANTS ShowsLatest
PROPERTIES KeepsPromise LoadingEnds
