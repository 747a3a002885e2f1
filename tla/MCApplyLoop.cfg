SPECIFICATION FairSpec
CONSTANTS
  MaxLsn = 3
  Threshold = 1
  Breaks = TRUE
  NoLsn = NoLsn
INVARIANTS WakesAtOnce OperatorToldTruth
PROPERTIES EndsForAReason CutoverReturns DeadWorkerNoticed
CHECK_DEADLOCK FALSE
