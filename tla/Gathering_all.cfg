CONSTANTS
  d1 = d1
  d2 = d2
  Detectors <- MCDetectors
  Size = 2
  Totals <- MCTotals
  Recent = 1
  MaxGathers = 2
SPECIFICATION FairSpec
CHECK_DEADLOCK FALSE
INVARIANTS NothingElseMissing RowsAreHeld
PROPERTIES AbortedAsksNoMore EveryAnswerCounts GatherEnds
