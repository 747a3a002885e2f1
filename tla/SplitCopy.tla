------------------------------ MODULE SplitCopy ------------------------------
(***************************************************************************)
(* The split copy of one large table (copy_split.rs): the size threshold,  *)
(* the plan of page ranges, and the concurrent COPY of the ranges, over    *)
(* several runs that fail or are cancelled half way.                       *)
(*                                                                         *)
(* A page stands for the rows on it.  Sizes are counted in pages, and      *)
(* numbers have Width bits where the code has 64; a size shifts by a small *)
(* number where the code's units shift by 0, 10, 20, 30 or 40.             *)
(* Tables are copied one after the other, so one is enough; several        *)
(* processes at a time are not here.                                       *)
(***************************************************************************)
EXTENDS Integers, Sequences

CONSTANTS
  MaxPages,    \* bound on the table's pages
  MaxParts,    \* bound on split_max_parts
  Sizes,       \* the sizes given on the command line, [num, shift]
  Width,       \* bits of an unsigned integer
  MaxRuns,     \* bound on the runs
  Unbounded    \* end_page of the last part

Pages == 0 .. MaxPages - 1
Counts == 0 .. MaxPages

ASSUME SplitAssumption ==
  /\ MaxPages \in Nat /\ MaxParts \in Nat /\ MaxRuns \in Nat
  /\ Width \in Nat \ {0}
  /\ Sizes \subseteq [num : 0 .. 2^Width - 1, shift : Nat]
  /\ Unbounded \notin Int

VARIABLES
  pc,      \* the run's next step, "idle" between runs
  runs,    \* runs so far
  size,    \* --split-tables-larger-than
  drop,    \* --drop-target-first
  parts,   \* the plan
  actual,  \* the table's pages in the snapshot
  worker,  \* worker[i]: "ready", "copying", "finishing" or "done"
  late,    \* parts of ended runs whose COPY the target has yet to decide on
  foreign, \* rows on the target that no run put there
  target   \* target[p]: how often the rows of page p are on the target

runVars == <<runs, size, drop>>
vars    == <<pc, runVars, parts, actual, worker, late, foreign, target>>

Part == [start : Counts, end : Counts \cup {Unbounded}]

(* Every variable has its type, and there are never more parts, nor        *)
(* workers, than split_max_parts allows.                                   *)
TypeOK ==
  /\ pc \in {"idle", "plan", "preData", "check", "truncate", "copy", "whole", "complete"}
  /\ runs \in 0 .. MaxRuns
  /\ size \in Sizes /\ drop \in BOOLEAN /\ foreign \in BOOLEAN
  /\ Len(parts) <= MaxParts /\ \A i \in DOMAIN parts : parts[i] \in Part
  /\ actual \in Counts
  /\ worker \in [DOMAIN parts -> {"ready", "copying", "finishing", "done"}]
  /\ late \subseteq SUBSET Pages
  /\ target \in [Pages -> 0 .. 2]

Init ==
  /\ pc = "idle" /\ runs = 0
  /\ size \in Sizes /\ drop \in BOOLEAN
  /\ parts = <<>> /\ actual = 0 /\ worker = <<>> /\ late = {}
  /\ foreign \in BOOLEAN
  /\ target = [p \in Pages |-> 0]

-----------------------------------------------------------------------------
(* Planning.                                                               *)

(* split_pages: at most max contiguous ranges of pages; the last is open.  *)
SplitPagesBounded(pages, max) ==  \* slip: the last range ends where the table did
  LET step == IF pages \div max > 1 THEN pages \div max ELSE 1
      from[k \in 0 .. max] ==
        LET part == [start |-> k * step, end |-> k * step + step]
        IN  IF part.end >= pages \/ k = max - 1
            THEN <<[part EXCEPT !.end = pages]>>
            ELSE <<part>> \o from[k + 1]
  IN  IF pages = 0 \/ max = 0 THEN <<>> ELSE from[0]

SplitPagesRemainder(pages, max) ==  \* slip: a remainder becomes one more range
  LET step == IF pages \div max > 1 THEN pages \div max ELSE 1
      from[k \in 0 .. max] ==
        LET part == [start |-> k * step, end |-> k * step + step]
        IN  IF part.end >= pages \/ k = max
            THEN <<[part EXCEPT !.end = Unbounded]>>
            ELSE <<part>> \o from[k + 1]
  IN  IF pages = 0 \/ max = 0 THEN <<>> ELSE from[0]

Step(pages, max) == IF pages \div max > 1 THEN pages \div max ELSE 1

(* The ranges from the k-th on. *)
Ranges(pages, max) ==
  LET step == Step(pages, max)
      from[k \in 0 .. max - 1] ==
        IF k * step + step >= pages \/ k = max - 1
        THEN <<[start |-> k * step, end |-> Unbounded]>>
        ELSE <<[start |-> k * step, end |-> k * step + step]>> \o from[k + 1]
  IN  from

SplitPages(pages, max) == IF pages = 0 \/ max = 0 THEN <<>> ELSE Ranges(pages, max)[0]

(* parse_size: checked_shl checks the number of bits, not the value.       *)
ParseSize(s) == IF s.shift < Width THEN {(s.num * 2^s.shift) % 2^Width} ELSE {}

(* threshold_bytes as i64. *)
Signed(n) == IF n < 2^(Width - 1) THEN n ELSE n - 2^Width

(* A table is selected when it is at least as large; size 0 is refused.    *)
Selected(pages, s) == \E n \in ParseSize(s) : n > 0 /\ pages >= Signed(n)

(* The pages of a part that exist in the snapshot. *)
Range(part) ==
  {p \in Pages : /\ part.start <= p /\ p < actual
                 /\ part.end = Unbounded \/ p < part.end}

Start ==
  /\ pc = "idle" /\ runs < MaxRuns
  /\ pc' = "plan" /\ runs' = runs + 1
  /\ size' \in Sizes /\ drop' \in BOOLEAN
  /\ UNCHANGED <<parts, actual, worker, late, foreign, target>>

(* prepare_split: the pages are counted before the snapshot (offline) or   *)
(* after (online), and the table changes in between.  Tables that are not  *)
(* selected stay in the archive.                                           *)
Plan ==
  /\ pc = "plan"
  /\ \E pages \in Counts, max \in 1 .. MaxParts :
       LET plan == IF Selected(pages, size) THEN SplitPages(pages, max) ELSE <<>>
       IN  /\ parts' = plan
           /\ worker' = [i \in DOMAIN plan |-> "ready"]
           /\ pc' = IF plan = <<>> THEN "whole" ELSE "preData"
  /\ actual' \in Counts
  /\ UNCHANGED <<runVars, late, foreign, target>>

-----------------------------------------------------------------------------
(* Copying.                                                                *)

(* The restore's pre-data section, external: with --drop-target-first it    *)
(* drops the table, once the target is done with what writes to it.         *)
PreData ==
  /\ pc = "preData" /\ pc' = "check"
  /\ \/ drop /\ late = {} /\ target' = [p \in Pages |-> 0] /\ foreign' = FALSE
     \/ ~drop /\ UNCHANGED <<target, foreign>>
  /\ UNCHANGED <<runVars, parts, actual, worker, late>>

NeverOccupied == FALSE  \* slip: does not look
Occupied == foreign \/ \E p \in Pages : target[p] > 0

(* The run ends early: its connections close, which aborts the COPYs, but   *)
(* of those that were already told to finish the target decides later.     *)
Fail ==
  /\ pc' = "idle"
  /\ late' = late \cup {Range(parts[i]) : i \in {j \in DOMAIN parts : worker[j] = "finishing"}}
  /\ UNCHANGED <<runVars, parts, actual, worker, foreign, target>>

Check ==
  /\ pc = "check"
  /\ \/ ~drop /\ Occupied /\ Fail
     \/ /\ drop \/ ~Occupied
        /\ pc' = "truncate"
        /\ UNCHANGED <<runVars, parts, actual, worker, late, foreign, target>>

NotCleared == target  \* slip: TRUNCATE is left out, as the table was empty
Cleared == [p \in Pages |-> 0]

(* TRUNCATE waits for the transactions that write to the table. *)
Truncate ==
  /\ pc = "truncate" /\ pc' = "copy"
  /\ late = {}
  /\ target' = Cleared /\ foreign' = FALSE
  /\ UNCHANGED <<runVars, parts, actual, worker, late>>

Load(pages) == target' = [p \in Pages |-> IF p \in pages /\ target[p] < 2
                                          THEN target[p] + 1 ELSE target[p]]

(* One worker per part: it connects, copies and asks for the end of COPY. *)
WorkerStep(i, from, to) ==
  /\ pc = "copy" /\ worker[i] = from
  /\ worker' = [worker EXCEPT ![i] = to]
  /\ UNCHANGED <<pc, runVars, parts, actual, late, foreign>>

Connect(i) == WorkerStep(i, "ready", "copying") /\ UNCHANGED target
Finish(i)  == WorkerStep(i, "copying", "finishing") /\ UNCHANGED target
Commit(i)  == WorkerStep(i, "finishing", "done") /\ Load(Range(parts[i]))

FirstDone == \E i \in DOMAIN worker : worker[i] = "done"  \* slip: one is enough
AllDone == \A i \in DOMAIN worker : worker[i] = "done"

Join ==
  /\ pc = "copy" /\ AllDone
  /\ pc' = "complete"
  /\ UNCHANGED <<runVars, parts, actual, worker, late, foreign, target>>

(* The first worker that fails, or a cancellation, ends the run. *)
Abandon == pc \in {"preData", "check", "truncate", "copy"} /\ Fail

(* External: the target decides on the COPY of a connection that is gone.  *)
LateDecision ==
  \E pages \in late :
    /\ late' = late \ {pages}
    /\ Load(pages) \/ UNCHANGED target
    /\ UNCHANGED <<pc, runVars, parts, actual, worker, foreign>>

Next ==
  \/ Start
  \/ Plan
  \/ PreData
  \/ Check
  \/ Truncate
  \/ \E i \in DOMAIN worker : Connect(i) \/ Finish(i) \/ Commit(i)
  \/ Join
  \/ Abandon
  \/ LateDecision

Spec == Init /\ [][Next]_vars

-----------------------------------------------------------------------------
(* Whatever the table did between the count of its pages and the snapshot,  *)
(* the ranges are disjoint and cover it (split_pages, the open last part). *)
PlanExact ==
  pc \notin {"idle", "plan", "whole"} =>
    \A p \in 0 .. actual - 1 : \E i \in DOMAIN parts :
      /\ p \in Range(parts[i])
      /\ \A j \in DOMAIN parts \ {i} : p \notin Range(parts[j])

(* A copy that reports success has put every row of the snapshot on the    *)
(* target once, although parts of an earlier run committed, before or after *)
(* that run ended (the check, the TRUNCATE, try_join_all).                 *)
CopyExact ==
  pc = "complete" => \A p \in Pages : target[p] = IF p < actual THEN 1 ELSE 0

(* Rows that no run put there are lost only to a run with                  *)
(* --drop-target-first, and after they were looked for (run_split_copy).   *)
ForeignKept == [][foreign /\ ~drop => foreign']_vars

=============================================================================
