SPECIFICATION Spec
CONSTANTS
  Tables = {"t1", "t2"}
  Schemas = {"s1", "s2"}
  SchemaOf <- MCSchemaOf
  None = None
  Commands <- MCCommands
  MaxRuns = 3
  MaxWrites = 2
  MaxFaults = 1
  CrashPoints = {"dumping", "saveDump", "data", "single", "splitCopy", "saveRestore", "analyze"}
  FaultPoints = {"preflight", "split", "dumping", "saveDump", "data", "single", "splitCopy", "post-data", "saveRestore", "analyze", "list", "verify"}
INVARIANTS TypeOK DeliveredWhenDone DiskTokenTruthful
PROPERTIES StrictCatchesLoss CancelNotDone
CHECK_DEADLOCK FALSE
