--------------------------- MODULE MCScopedStream ---------------------------
EXTENDS ScopedStream

MCTables   == {"a1", "a2", "b1"}
MCSchemas  == {"a", "b"}
MCSchemaOf == [t \in MCTables |-> IF t = "b1" THEN "b" ELSE "a"]

Everything == [tables |-> {}, schemas |-> {}, excludeTables |-> {}, excludeSchemas |-> {}]

(* Everything; by inclusion, by exclusion and by both. *)
MCScopeOptions ==
  {Everything,
   [Everything EXCEPT !.schemas = {"a"}],
   [Everything EXCEPT !.tables = {"a1"}],
   [Everything EXCEPT !.excludeTables = {"a2"}],
   [Everything EXCEPT !.excludeSchemas = {"b"}],
   [Everything EXCEPT !.tables = {"a1", "b1"}, !.excludeTables = {"b1"}],
   [Everything EXCEPT !.schemas = {"a", "b"}, !.excludeSchemas = {"b"}]}

ASSUME ScopesAgree
=============================================================================
