SPECIFICATION Spec
CONSTANTS
  MaxLines = 1
  PipeSize = 1
  MaxSamples = 1
  NoReport = NoReport
  Lines <- MCLines
  CanHang = {}
INVARIANTS OnlyErrorsTolerated
CHECK_DEADLOCK FALSE
