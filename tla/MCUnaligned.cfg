SPECIFICATION Spec
CONSTANTS
  MaxWal = 2
  MaxRuns = 2
  MaxFaults = 0
  Scopes = {1}
  Options <- MCResumeOnly
  CrashPoints = {"saveSlot"}
  FaultPoints = {}
  CancelPoints = {}
  NoToken = NoToken
  NoSnapshot = NoSnapshot
INVARIANTS SnapshotConsistentDump
CHECK_DEADLOCK FALSE
