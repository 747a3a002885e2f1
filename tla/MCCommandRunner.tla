--------------------------- MODULE MCCommandRunner ---------------------------
(* Instances of CommandRunner: more lines than the pipe holds, a member of  *)
(* the group that may hang, and lines of pg_restore: rows lost to a         *)
(* duplicate key, to a malformed row, to a denied COPY, a denied COMMENT on *)
(* an extension, an error of no category, and the closing warning.         *)
EXTENDS CommandRunner

MCLines ==
  {[kind |-> "error", marks |-> {"lossText", "duplicate key"}, lost |-> TRUE],
   [kind |-> "error", marks |-> {}, lost |-> TRUE],
   [kind |-> "error", marks |-> {"role"}, lost |-> TRUE],
   [kind |-> "error", marks |-> {"role", "extension"}, lost |-> FALSE],
   [kind |-> "error", marks |-> {}, lost |-> FALSE],
   [kind |-> "ignored", number |-> 1]}
=============================================================================
