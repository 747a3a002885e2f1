---------------------------- MODULE CommandRunner ----------------------------
(***************************************************************************)
(* One external command: TokioCommandRunner::run and, for pg_restore, the  *)
(* reading of its lines and of its result.  Three parties run              *)
(* concurrently: the future that waits for the child, the task that drains *)
(* the child's standard error, and the child, a process group of a leader  *)
(* and (with --jobs) a worker.  The operator may cancel at any moment.     *)
(*                                                                         *)
(* A member of the group may hang: it then does nothing, not even on       *)
(* SIGTERM, until SIGKILL.  A line of standard error may be one the reader *)
(* cannot decode, which ends the reader and closes the pipe.  Time is      *)
(* abstracted: the grace period may end at any moment.                     *)
(***************************************************************************)
EXTENDS Naturals, RestoreErrors

CONSTANTS
  MaxLines,  \* bound on the lines the child writes to standard error
  PipeSize,  \* lines the pipe holds before a write blocks
  Lines,     \* the lines a pg_restore may write
  CanHang    \* members of the group that may hang

ASSUME RunnerAssumption ==
  /\ MaxLines \in Nat /\ PipeSize \in Nat \ {0} /\ MaxSamples \in Nat
  /\ Lines \subseteq Line /\ NoReport \notin Nat /\ NoReport \notin Reports
  /\ CanHang \subseteq {"leader", "worker"}

VARIABLES
  program,    \* the command
  tolerate,   \* RestoreRequest::tolerate_errors
  cancelled,  \* CancellationToken
  pc,         \* the future's next step
  signal,     \* what the group was sent: "none", "term" or "kill"
  reader,     \* the stderr task: "none" (not captured), "reading" or "done"
  result,     \* what the call returned
  summary,    \* the stderr task's RestoreErrorSummary
  report,     \* the report in the error of a failed command, or NoReport
  alive,      \* living members of the group
  hung,       \* members that hang
  status,     \* the leader's exit status, once it has one
  unread,     \* lines in the pipe
  written,    \* the lines the leader has written so far
  unwritten,  \* lines the leader has yet to write
  garbled     \* whether there is a line the reader cannot decode

runnerVars == <<pc, signal, result, report>>
readerVars == <<reader, summary>>
childVars  == <<alive, status, unread, written, unwritten>>
chosenVars == <<program, tolerate, hung, garbled>>
vars == <<runnerVars, childVars, chosenVars, cancelled, readerVars>>

Progress == [kind |-> "progress"]

Captured == program \in {"pg_dump", "pg_restore"}

(* The report of a failed command is rendered unless nothing was captured. *)
Reported == IF IsEmpty(summary) /\ summary.ignored = NoReport THEN NoReport ELSE Report(summary)

Summary ==
  [counts  : [Categories -> 0 .. MaxLines],
   samples : [Categories -> Seq(Lines)],
   ignored : Nat \cup {NoReport},
   total   : 0 .. MaxLines]

(* Every variable has its type, and the pipe never overflows. *)
TypeOK ==
  /\ program \in {"pg_dump", "pg_restore", "psql"}
  /\ tolerate \in BOOLEAN /\ cancelled \in BOOLEAN /\ garbled \in BOOLEAN
  /\ pc \in {"spawn", "select", "grace", "reap", "drain", "drainCancelled", "returned"}
  /\ signal \in {"none", "term", "kill"}
  /\ reader \in {"none", "reading", "done"}
  /\ result \in {"none", "ok", "cancelled", "failed"}
  /\ alive \subseteq {"leader", "worker"} /\ hung \subseteq CanHang
  /\ status \in {"none", "unspawned", "success", "errors", "killed"}
  /\ written \in Seq(Lines \cup {Progress}) /\ summary \in Summary
  /\ unread \in 0 .. PipeSize /\ unwritten \in 0 .. MaxLines

Init ==
  /\ program \in {"pg_dump", "pg_restore", "psql"}
  /\ tolerate \in BOOLEAN /\ cancelled \in BOOLEAN /\ garbled \in BOOLEAN
  /\ hung \in SUBSET CanHang
  /\ pc = "spawn" /\ signal = "none" /\ reader = "none" /\ result = "none"
  /\ summary = EmptySummary /\ report = NoReport
  /\ alive = {} /\ status = "none" /\ unread = 0 /\ written = <<>>
  /\ unwritten \in IF Captured THEN 0 .. MaxLines ELSE {0}

-----------------------------------------------------------------------------
(* The future.                                                             *)

(* is_restore_partial_failure: any failure of the external command.        *)
Partial == program = "pg_restore"

(* What run, and run_pg_restore around it, return for a child that ended.  *)
Outcome ==
  IF status = "success" \/ (tolerate /\ Partial) THEN "ok" ELSE "failed"

Return(r) == pc' = "returned" /\ result' = r /\ UNCHANGED report

Spawn ==
  /\ pc = "spawn" /\ pc' = "select"
  /\ alive' = {"leader"} \/ (Captured /\ alive' = {"leader", "worker"})
  /\ reader' = IF Captured THEN "reading" ELSE "none"
  /\ UNCHANGED <<signal, result, report, summary, status, unread, written, unwritten>>
  /\ UNCHANGED <<chosenVars, cancelled>>

SpawnFails ==
  /\ pc = "spawn"
  /\ status' = "unspawned"
  /\ Return(IF tolerate /\ Partial THEN "ok" ELSE "failed")
  /\ UNCHANGED <<signal, alive, unread, written, unwritten, chosenVars, cancelled, readerVars>>

(* The select! is biased: a cancellation wins over an exit. *)
SelectCancel ==
  /\ pc = "select" /\ cancelled
  /\ pc' = "grace" /\ signal' = "term"
  /\ UNCHANGED <<result, report, childVars, chosenVars, cancelled, readerVars>>

SelectExit ==
  /\ pc = "select" /\ ~cancelled /\ "leader" \notin alive
  /\ pc' = "drain"
  /\ UNCHANGED <<signal, result, report, childVars, chosenVars, cancelled, readerVars>>

GraceStatus == "drain"  \* slip: the killed child's status is evaluated
AfterGrace == "drainCancelled"

GraceExit ==
  /\ pc = "grace" /\ "leader" \notin alive
  /\ pc' = AfterGrace
  /\ UNCHANGED <<signal, result, report, childVars, chosenVars, cancelled, readerVars>>

(* Slip: the grace period has no end. *)
GraceForever == FALSE /\ UNCHANGED vars

GraceTimeout ==
  /\ pc = "grace"
  /\ pc' = "reap" /\ signal' = "kill"
  /\ UNCHANGED <<result, report, childVars, chosenVars, cancelled, readerVars>>

Reap ==
  /\ pc = "reap" /\ "leader" \notin alive
  /\ pc' = "drainCancelled"
  /\ UNCHANGED <<signal, result, report, childVars, chosenVars, cancelled, readerVars>>

NotAwaited == TRUE  \* slip: the stderr task is not awaited
Drained == reader # "reading"

Drain ==
  /\ pc = "drain" /\ Drained
  /\ pc' = "returned" /\ result' = Outcome
  /\ report' = IF status = "success" THEN NoReport ELSE Reported
  /\ UNCHANGED <<signal, childVars, chosenVars, cancelled, readerVars>>

DrainCancelled ==
  /\ pc = "drainCancelled" /\ Drained
  /\ Return("cancelled")
  /\ UNCHANGED <<signal, childVars, chosenVars, cancelled, readerVars>>

Runner ==
  \/ Spawn
  \/ SpawnFails
  \/ SelectCancel
  \/ SelectExit
  \/ GraceExit
  \/ GraceTimeout
  \/ Reap
  \/ Drain
  \/ DrainCancelled

-----------------------------------------------------------------------------
(* The stderr task reads while the future waits, until the pipe is empty    *)
(* with no writer left, or a line does not decode.                         *)

ReadAfterWait == pc \in {"drain", "drainCancelled"} /\ reader = "reading"  \* slip
Reading == reader = "reading"

(* The oldest line in the pipe. *)
NextLine == written[Len(written) - unread + 1]

ReadLine ==
  /\ Reading /\ unread > 0
  /\ \/ /\ unread' = unread - 1
        /\ summary' = IF program = "pg_restore" THEN Ingest(NextLine, summary) ELSE summary
        /\ UNCHANGED reader
     \/ garbled /\ reader' = "done" /\ unread' = 0 /\ UNCHANGED summary
  /\ UNCHANGED <<runnerVars, chosenVars, cancelled, alive, status, written, unwritten>>

ReadEnd ==
  /\ Reading /\ unread = 0 /\ alive = {}
  /\ reader' = "done"
  /\ UNCHANGED <<runnerVars, chosenVars, cancelled, childVars, summary>>

Reader == ReadLine \/ ReadEnd

-----------------------------------------------------------------------------
(* The child, external.                                                    *)

LeaderEnds(how) ==
  /\ "leader" \in alive
  /\ alive' = alive \ {"leader"} /\ status' = how
  /\ UNCHANGED <<runnerVars, chosenVars, cancelled, readerVars, unread, written, unwritten>>

(* A write blocks on a full pipe, and into a closed one it is fatal. *)
Write ==
  /\ "leader" \in alive \ hung /\ unwritten > 0
  /\ \/ /\ reader = "reading" /\ unread < PipeSize
        /\ unread' = unread + 1 /\ unwritten' = unwritten - 1
        /\ \E line \in IF program = "pg_restore" THEN Lines ELSE {Progress} :
             written' = Append(written, line)
        /\ UNCHANGED <<runnerVars, chosenVars, cancelled, readerVars, alive, status>>
     \/ reader = "done" /\ LeaderEnds("killed")

(* The leader finishes after its worker; sent SIGTERM, it need not wait.   *)
LeaderFinishes ==
  /\ "leader" \notin hung
  /\ unwritten = 0 /\ "worker" \notin alive
  /\ LeaderEnds("success") \/ LeaderEnds("errors")

LeaderObeys ==
  /\ \/ signal = "kill"
     \/ signal = "term" /\ "leader" \notin hung
  /\ LeaderEnds("killed")

(* Something else kills it, the kernel for want of memory, say. *)
LeaderDies == signal = "none" /\ LeaderEnds("killed")

WorkerEnds ==
  /\ "worker" \in alive
  /\ signal = "kill" \/ "worker" \notin hung
  /\ alive' = alive \ {"worker"}
  /\ UNCHANGED <<runnerVars, chosenVars, cancelled, readerVars, status, unread, written, unwritten>>

Child == Write \/ LeaderFinishes \/ LeaderObeys \/ LeaderDies \/ WorkerEnds

Cancel ==
  /\ ~cancelled /\ cancelled' = TRUE
  /\ UNCHANGED <<runnerVars, childVars, chosenVars, readerVars>>

Next == Runner \/ Reader \/ Child \/ Cancel

Spec == Init /\ [][Next]_vars

(* Both tasks are scheduled; a member of the group that does not hang gets  *)
(* on with its work and obeys SIGTERM, and every member obeys SIGKILL.      *)
FairSpec ==
  /\ Spec
  /\ WF_vars(Runner)
  /\ WF_vars(Reader)
  /\ WF_vars(Write) /\ WF_vars(LeaderFinishes)
  /\ WF_vars(LeaderObeys) /\ WF_vars(WorkerEnds)

-----------------------------------------------------------------------------
(* A child that was signalled because of a cancellation is reported as      *)
(* cancelled, whatever its status and though errors are tolerated: a        *)
(* restore that was cut short never counts as done.                        *)
CancelNotSwallowed == pc = "returned" /\ signal # "none" => result = "cancelled"

(* When the call returns, with every line of standard error read, no member *)
(* of the group is left that still works on either server.                 *)
NoOrphan == pc = "returned" /\ ~garbled => alive = {}

(* Without tolerance a success is a command that ended by itself with       *)
(* status 0, all its output read: neither a failed spawn, nor an exit that  *)
(* raced a cancellation, nor a killed child.                               *)
OkMeansDone ==
  result = "ok" /\ ~tolerate =>
    status = "success" /\ signal = "none" /\ (Captured => unread = 0 /\ unwritten = 0)

ErrorLines == {i \in DOMAIN written : written[i].kind = "error"}

(* A failed pg_restore is reported with as many errors as it wrote, though  *)
(* the lines still fill the pipe when it exits.                            *)
ReportExact ==
  report # NoReport /\ ~garbled => report.total = Cardinality(ErrorLines)

(* An error line with one of the texts that count as data loss makes the   *)
(* report ask for a review, also when the line has the text of a harmless  *)
(* category as well (`data loss first' in classify_pg_restore_error), when *)
(* harmless lines surround it and fill the pipe, and when the failure is   *)
(* tolerated and the run goes on.  That rows may be lost without any such  *)
(* text is what LostRowsReviewed below shows.                              *)
LossTextsFlagged ==
  pc = "returned" /\ status = "errors" /\ signal = "none" /\ ~garbled
    /\ (\E i \in ErrorLines : "lossText" \in written[i].marks) =>
  report # NoReport /\ report.verdict = "review required"

(* A cancelled call returns, also if the leader hangs (the grace period and *)
(* SIGKILL of TokioCommandRunner::run).                                    *)
CancelReturns == cancelled ~> pc = "returned"

(* A call that nobody cancels returns if the child does not hang: the child *)
(* never waits for ever on a full pipe.                                    *)
RunReturns == hung = {} ~> pc = "returned"

-----------------------------------------------------------------------------
(* What comments say and the code does not do.                             *)

(* restore.rs: of the failures only exit 1 is tolerated; a spawn error or a *)
(* kill by a signal aborts.                                                *)
OnlyErrorsTolerated == result = "ok" => status \in {"success", "errors"}

(* restore.rs: a COPY failure is data loss, which the operator must review; *)
(* a restore called likely safe has lost no row.                           *)
LostRowsReviewed ==
  report # NoReport /\ report.verdict = "likely safe" =>
    \A i \in ErrorLines : ~written[i].lost

=============================================================================
