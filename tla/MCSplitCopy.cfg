SPECIFICATION Spec
CONSTANTS
  MaxPages = 5
  MaxParts = 3
  Sizes <- MCSizes
  Width = 8
  MaxRuns = 2
  Unbounded = Unbounded
INVARIANTS TypeOK PlanExact CopyExact
PROPERTIES ForeignKept
CHECK_DEADLOCK FALSE
