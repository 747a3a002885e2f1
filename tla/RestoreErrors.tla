---------------------------- MODULE RestoreErrors ----------------------------
(***************************************************************************)
(* How restore.rs reads the standard error of pg_restore: the category of  *)
(* an error line, the bounded summary that collects the lines, and the     *)
(* verdict of its report.  A line is a record of its kind, of the texts    *)
(* the classification looks for in it, and of what it reports to have      *)
(* happened on the server: rows that were lost need not show in the texts. *)
(***************************************************************************)
EXTENDS FiniteSetsExt, Sequences

CONSTANTS
  MaxSamples,  \* RestoreErrorSummary::MAX_SAMPLES_PER_CATEGORY
  NoReport     \* no `errors ignored on restore' line was seen

(* The texts that tell categories apart: one of the nine that count as data *)
(* loss (`violates foreign key', `out of range', ...), one about an object *)
(* or a key that exists, a role or permission, an extension.               *)
Marks == {"lossText", "exists", "duplicate key", "role", "extension"}

Categories == {"DataLoss", "Duplicate", "Privilege", "Extension", "Other"}

(* The lines of pg_restore: an error, after which rows are missing or not, *)
(* the closing warning with the number of errors it ignored, or progress.  *)
(* `COPY failed for table "t": ERROR: missing data for column' lost rows   *)
(* and has none of the texts, a COPY that is denied has the one of a role. *)
Line ==
       [kind : {"error"}, marks : SUBSET Marks, lost : BOOLEAN]
  \cup [kind : {"ignored"}, number : Nat]
  \cup [kind : {"progress"}]

(* Slip: an existing key is looked for before data loss. *)
ClassifyDuplicateFirst(line) ==
  CASE line.marks \cap {"exists", "duplicate key"} # {} -> "Duplicate"
    [] "lossText" \in line.marks -> "DataLoss"
    [] OTHER -> "Other"

Classify(line) ==
  CASE "lossText" \in line.marks -> "DataLoss"
    [] "lossText" \notin line.marks /\ line.marks \cap {"exists", "duplicate key"} # {} -> "Duplicate"
    [] line.marks \in {{"role"}, {"role", "extension"}} -> "Privilege"
    [] line.marks = {"extension"} -> "Extension"
    [] line.marks = {} -> "Other"

EmptySummary ==
  [counts  |-> [c \in Categories |-> 0],
   samples |-> [c \in Categories |-> <<>>],
   ignored |-> NoReport,
   total   |-> 0]

(* Slip: the closing warning is taken for one more error. *)
IngestWarning(line, s) ==
  IF line.kind = "progress" THEN s
  ELSE [s EXCEPT !.counts["Other"] = @ + 1, !.total = @ + 1]

IngestError(line, s) ==
  LET c == Classify(line) IN
  [s EXCEPT !.counts[c] = @ + 1,
            !.total = @ + 1,
            !.samples[c] = IF Len(@) < MaxSamples THEN Append(@, line) ELSE @]

Ingest(line, s) ==
  CASE line.kind = "ignored"  -> [s EXCEPT !.ignored = line.number]
    [] line.kind = "error"    -> IngestError(line, s)
    [] line.kind = "progress" -> s

HasDataLoss(s) == s.counts["DataLoss"] > 0
IsEmpty(s) == s.total = 0

Verdict(s) ==
  CASE HasDataLoss(s)  -> "review required"
    [] IsEmpty(s)      -> "no errors"
    [] OTHER           -> "likely safe"

(* The lines of the report: each category that occurred, with its samples. *)
Report(s) ==
  [total     |-> s.total,
   ignored   |-> s.ignored,
   breakdown |-> {<<c, s.counts[c]>> : c \in {d \in Categories : s.counts[d] # 0}},
   samples   |-> {<<c, s.samples[c]>> : c \in {d \in Categories : s.samples[d] # <<>>}},
   verdict   |-> Verdict(s)]

Reports ==
  [total     : Nat,
   ignored   : Nat \cup {NoReport},
   breakdown : SUBSET (Categories \X Nat),
   samples   : SUBSET (Categories \X Seq(Line)),
   verdict   : {"review required", "no errors", "likely safe"}]

=============================================================================
