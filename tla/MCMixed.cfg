SPECIFICATION Spec
CONSTANTS
  MaxWal = 1
  MaxRuns = 3
  MaxFaults = 1
  Scopes = {1, 2}
  Options <- MCMixedOptions
  CrashPoints <- Steps
  FaultPoints <- MCFaultPoints
  CancelPoints <- Steps
  NoToken = NoToken
  NoSnapshot = NoSnapshot
INVARIANTS DiskTokenTruthful CutoverCleansUp
PROPERTIES OperatorPublicationKept EndsForAReason
CHECK_DEADLOCK FALSE
