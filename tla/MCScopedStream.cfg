SPECIFICATION Spec
CONSTANTS
  Tables <- MCTables
  Schemas <- MCSchemas
  SchemaOf <- MCSchemaOf
  None = None
  ScopeOptions <- MCScopeOptions
  Lasting = {"a1", "a2"}
  Denied = {"a2"}
  MaxWrites = 2
  MaxDDL = 1
INVARIANTS OnlyNewTablesStop CopiedTablesStream TablesComplete CountTruthful
CHECK_DEADLOCK FALSE
