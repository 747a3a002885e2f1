SPECIFICATION Spec
CONSTANTS
  MaxLines = 2
  PipeSize = 1
  MaxSamples = 1
  NoReport = NoReport
  Lines <- MCLines
  CanHang = {}
INVARIANTS LostRowsReviewed
CHECK_DEADLOCK FALSE
