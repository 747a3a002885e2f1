SPECIFICATION FairSpec
CONSTANTS
  MaxWal = 2
  MaxRuns = 3
  MaxFaults = 1
  Scopes = {1}
  Options <- MCDropOptions
  CrashPoints <- MCCrashPoints
  FaultPoints <- MCFaultPoints
  CancelPoints <- MCCancelPoints
  NoToken = NoToken
  NoSnapshot = NoSnapshot
INVARIANTS ExactPrefix StreamAfterRestore SequencesCovered ResumeFindsSlot ResumeInv
PROPERTIES CutoverCompletes CatchesUp
CHECK_DEADLOCK FALSE
