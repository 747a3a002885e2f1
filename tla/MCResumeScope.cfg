SPECIFICATION Spec
CONSTANTS
  Tables = {"t1", "t2"}
  Schemas = {"s1", "s2"}
  SchemaOf <- MCSchemaOf
  None = None
  Commands <- MCSplitThenResume
  MaxRuns = 2
  MaxWrites = 0
  MaxFaults = 0
  CrashPoints = {"data"}
  FaultPoints = {}
INVARIANTS ResumeRestoresOwnScope
CHECK_DEADLOCK FALSE
