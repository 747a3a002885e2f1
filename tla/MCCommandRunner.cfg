SPECIFICATION FairSpec
CONSTANTS
  MaxLines = 3
  PipeSize = 1
  MaxSamples = 1
  NoReport = NoReport
  Lines <- MCLines
  CanHang = {"leader"}
INVARIANTS CancelNotSwallowed NoOrphan ReportExact LossTextsFlagged
PROPERTIES CancelReturns RunReturns
CHECK_DEADLOCK FALSE
