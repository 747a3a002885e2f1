--------------------------- MODULE OnlineMigration ---------------------------
(***************************************************************************)
(* The online pipeline of the orchestrator (Migrator::run_online) with the *)
(* resume token, over one migration: a sequence of runs of the process,    *)
(* each of which may crash, fail or be interrupted between any two steps,  *)
(* and PostgreSQL's background activity in between.                        *)
(*                                                                         *)
(* pc names the next step of the running process; a step is what the code  *)
(* does between two awaits that another actor can observe.  A call that    *)
(* returns an error ends the process like a crash at that step, so Crash   *)
(* stands for both; a call whose error is only logged has a disjunct       *)
(* guarded by Tolerated in which it has no effect.                         *)
(*                                                                         *)
(* Not here: the split copy (refused together with --resume, and off by    *)
(* default), the inside of the lag-poll loop, the single-pass restore      *)
(* (--no-split-sections), and run statistics.                              *)
(***************************************************************************)
EXTENDS LogicalReplication

CONSTANTS
  Scopes,        \* what config_hash tells apart
  Options,       \* the option records a run may be started with
  MaxRuns,       \* bound on the number of process starts
  MaxFaults,     \* bound on the number of logged-and-ignored errors
  CrashPoints,   \* the steps at which the process may die or a call may fail
  FaultPoints,   \* the steps at which a best-effort call may fail
  CancelPoints,  \* the steps during which the operator may press Ctrl+C again
  NoToken,       \* no resume token on disk, or none in memory
  NoSnapshot     \* PostgreSQL exported no snapshot

Stages == {"SourceVacuum", "PrepareSnapshot", "Dump", "Restore", "Analyze"}

Token == [done : SUBSET Stages, pubAuto : BOOLEAN, scope : Scopes]

OptionSet ==
  [resume : BOOLEAN, forceClean : BOOLEAN, clean : BOOLEAN, tolerate : BOOLEAN,
   autoPub : BOOLEAN, dropSub : BOOLEAN, dropSlot : BOOLEAN, syncSeq : BOOLEAN,
   vacuum : BOOLEAN, analyze : BOOLEAN, scope : Scopes]

Steps ==
  {"preflight", "cleanSub", "cleanSlot", "load", "vacuum", "publication",
   "savePub", "slot", "saveSlot", "dump", "dumping", "saveDump", "preData",
   "data", "postData", "saveRestore", "analyze", "disable", "waitSlot",
   "attach", "apply", "teardown", "detach", "dropSub", "finish", "syncSeq",
   "dropPub", "waitDrop", "dropSlot", "complete"}

ASSUME OptionsAssumption == Options \subseteq OptionSet
ASSUME BoundsAssumption == MaxRuns \in Nat /\ MaxFaults \in Nat
ASSUME AbsentAssumption == NoToken \notin Token /\ NoSnapshot \notin Lsn

VARIABLES
  pc,          \* the next step, or "idle" when no process runs
  opts,        \* the options of the current, or else of the last, run
  token,       \* the resume token in memory
  snapshot,    \* position of the exported snapshot this process keeps alive
  interrupts,  \* Ctrl+C so far: one requests cutover, two cancel
  exit,        \* why the apply loop ended
  disk,        \* the resume token on disk
  archive,     \* the dump archive on disk
  outcome,     \* how the last run ended
  runs,        \* process starts so far
  faults       \* logged-and-ignored errors so far

memoryVars  == <<opts, token, snapshot, interrupts, exit>>
fileVars    == <<disk, archive>>
historyVars == <<outcome, runs, faults>>
vars == <<pc, memoryVars, fileVars, historyVars, pgVars>>

Archive == [state : {"none", "partial", "complete"}, pos : Lsn, scope : Scopes]

(* Every variable has its type in every reachable state, and the counters   *)
(* that stand for Ctrl+C, process starts and ignored errors stay in range.  *)
TypeOK ==
  /\ PgTypeOK
  /\ pc \in Steps \cup {"idle"}
  /\ opts \in OptionSet
  /\ token \in Token \cup {NoToken}
  /\ snapshot \in Lsn \cup {NoSnapshot}
  /\ interrupts \in 0 .. 2
  /\ exit \in {"none", "cutover", "cancel", "error"}
  /\ disk \in Token \cup {NoToken}
  /\ archive \in Archive
  /\ outcome \in {"none", "running", "failed", "cancelled", "stopped", "cutover"}
  /\ runs \in 0 .. MaxRuns
  /\ faults \in 0 .. MaxFaults

Init ==
  /\ PgInit
  /\ pc = "idle"
  /\ opts \in Options
  /\ token = NoToken /\ snapshot = NoSnapshot
  /\ interrupts = 0 /\ exit = "none"
  /\ disk = NoToken
  /\ archive = [state |-> "none", pos |-> 0, scope |-> opts.scope]
  /\ outcome = "none" /\ runs = 0 /\ faults = 0

-----------------------------------------------------------------------------
(* Helpers.                                                                *)

Requested == interrupts >= 1   \* CutoverHandle::is_requested
Cancelled == interrupts = 2    \* CancellationToken::is_cancelled

Tolerated(step) ==
  /\ step \in FaultPoints
  /\ faults < MaxFaults
  /\ faults' = faults + 1

Fresh(o) == [done |-> {}, pubAuto |-> FALSE, scope |-> o.scope]

MarkOverwrites(stage) == [token EXCEPT !.done = {stage}]  \* slip: forgets the rest
Mark(stage) == [token EXCEPT !.done = @ \cup {stage}]

(* save_resume: the token in memory becomes t; writing it is best effort. *)
Save(t) ==
  /\ token' = t
  /\ \/ disk' = t /\ UNCHANGED faults
     \/ Tolerated(pc) /\ UNCHANGED disk

(* The process ends: its memory and the exported snapshot are gone. *)
End(result) ==
  /\ pc' = "idle" /\ outcome' = result
  /\ token' = NoToken /\ snapshot' = NoSnapshot
  /\ interrupts' = 0 /\ exit' = "none"
  /\ UNCHANGED <<opts, runs, faults>>

(* Where the pipeline goes when the stages in t.done are skipped. *)
SkipDump(t) == IF "Restore" \in t.done THEN "analyze" ELSE "preData"
SkipToAnalyze(t) == IF "Dump" \in t.done THEN "analyze" ELSE "publication"  \* slip
SkipTo(t)   == IF "Dump" \in t.done THEN SkipDump(t) ELSE "publication"

(* What pg_dump reads: the exported snapshot, or the source as it is now. *)
DumpNow == wal  \* slip: --snapshot is not passed on
DumpPosition == IF snapshot = NoSnapshot THEN wal ELSE snapshot

-----------------------------------------------------------------------------
(* A run starts.  The operator does not rerun a migration that cut over.   *)

Start(o) ==
  /\ pc = "idle" /\ outcome # "cutover"
  /\ runs < MaxRuns
  /\ runs' = runs + 1
  /\ opts' = o /\ outcome' = "running"
  /\ pc' = "preflight"
  /\ UNCHANGED <<token, snapshot, interrupts, exit, faults, fileVars, pgVars>>

Preflight ==
  /\ pc = "preflight"
  /\ pc' = IF opts.forceClean THEN "cleanSub" ELSE "load"
  /\ UNCHANGED <<memoryVars, fileVars, historyVars, pgVars>>

(* force_clean_stale_state: subscription first, then the slot, which the   *)
(* server refuses to drop while the old walsender is still there.          *)
CleanSub ==
  /\ pc = "cleanSub"
  /\ pc' = "cleanSlot"
  /\ \/ DropSubscription /\ UNCHANGED faults
     \/ Tolerated(pc) /\ UNCHANGED targetVars
  /\ UNCHANGED <<memoryVars, fileVars, outcome, runs, sourceVars>>

CleanSlot ==
  /\ pc = "cleanSlot"
  /\ pc' = "load"
  /\ \/ DropIdleSlot /\ UNCHANGED faults
     \/ Tolerated(pc) /\ UNCHANGED sourceVars
  /\ UNCHANGED <<memoryVars, fileVars, outcome, runs, targetVars>>

(* Slip: the token's config_hash is not compared. *)
LoadAnyToken ==
  /\ pc = "load"
  /\ token' = IF opts.resume /\ disk # NoToken THEN disk ELSE Fresh(opts)
  /\ pc' = "vacuum"
  /\ UNCHANGED <<opts, snapshot, interrupts, exit, historyVars, fileVars, pgVars>>

LoadToken ==
  /\ pc = "load"
  /\ \/ /\ opts.resume /\ disk # NoToken
        /\ disk.scope = opts.scope
        /\ token' = disk
        /\ pc' = "vacuum"
        /\ UNCHANGED <<opts, snapshot, interrupts, exit, historyVars>>
     \/ /\ opts.resume /\ disk # NoToken
        /\ disk.scope # opts.scope
        /\ End("failed")
     \/ /\ ~opts.resume \/ disk = NoToken
        /\ token' = Fresh(opts)
        /\ pc' = "vacuum"
        /\ UNCHANGED <<opts, snapshot, interrupts, exit, historyVars>>
  /\ UNCHANGED <<fileVars, pgVars>>

(* run_source_vacuum_stage: skipped, failed (not fatal), or done and saved. *)
VacuumSource ==
  /\ pc = "vacuum"
  /\ pc' = SkipTo(token)
  /\ LET wanted == opts.vacuum /\ "SourceVacuum" \notin token.done
     IN  \/ ~wanted /\ UNCHANGED <<token, disk, faults>>
         \/ wanted /\ Save(Mark("SourceVacuum"))
         \/ wanted /\ Tolerated(pc) /\ UNCHANGED <<token, disk>>
  /\ UNCHANGED <<opts, snapshot, interrupts, exit, archive, outcome, runs, pgVars>>

(* Slip: a publication that was there already is recorded as auto-created. *)
EnsureRecordsAny ==
  /\ pc = "publication" /\ (pub # "none" \/ opts.autoPub)
  /\ pub' = IF pub = "none" THEN "migrator" ELSE pub
  /\ pc' = "savePub"
  /\ UNCHANGED <<memoryVars, historyVars, fileVars, wal, slot, confirmed, targetVars>>

(* ensure_publication_exists, or verify_publication_exists without         *)
(* auto-creation.                                                          *)
EnsurePublication ==
  /\ pc = "publication"
  /\ \/ /\ pub # "none"
        /\ pc' = "slot"
        /\ UNCHANGED <<memoryVars, historyVars, pub>>
     \/ /\ pub = "none" /\ opts.autoPub
        /\ pub' = "migrator"
        /\ pc' = "savePub"
        /\ UNCHANGED <<memoryVars, historyVars>>
     \/ /\ pub = "none" /\ ~opts.autoPub
        /\ End("failed")
        /\ UNCHANGED pub
  /\ UNCHANGED <<fileVars, wal, slot, confirmed, targetVars>>

SavePublication ==
  /\ pc = "savePub"
  /\ pc' = "slot"
  /\ Save([token EXCEPT !.pubAuto = TRUE])
  /\ UNCHANGED <<opts, snapshot, interrupts, exit, archive, outcome, runs, pgVars>>

(* prepare_replication_slot: an existing slot is reused, and then nothing  *)
(* is exported.                                                            *)
PrepareSlot ==
  /\ pc = "slot"
  /\ pc' = "saveSlot"
  /\ \/ slot = "absent" /\ CreateSlot /\ snapshot' = wal
     \/ slot # "absent" /\ UNCHANGED sourceVars /\ snapshot' = NoSnapshot
  /\ UNCHANGED <<opts, token, interrupts, exit, fileVars, historyVars, targetVars>>

SaveSlot ==
  /\ pc = "saveSlot"
  /\ pc' = "dump"
  /\ Save(Mark("PrepareSnapshot"))
  /\ UNCHANGED <<opts, snapshot, interrupts, exit, archive, outcome, runs, pgVars>>

StartDump ==
  /\ pc = "dump"
  /\ pc' = "dumping"
  /\ archive' = [state |-> "partial", pos |-> DumpPosition, scope |-> opts.scope]
  /\ UNCHANGED <<memoryVars, disk, historyVars, pgVars>>

FinishDump ==
  /\ pc = "dumping"
  /\ pc' = "saveDump"
  /\ archive' = [archive EXCEPT !.state = "complete"]
  /\ UNCHANGED <<memoryVars, disk, historyVars, pgVars>>

SaveDump ==
  /\ pc = "saveDump" /\ ~Cancelled
  /\ pc' = SkipDump(token)
  /\ Save(Mark("Dump"))
  /\ UNCHANGED <<opts, snapshot, interrupts, exit, archive, outcome, runs, pgVars>>

-----------------------------------------------------------------------------
(* pg_restore in its three sections.  On a target that already has the     *)
(* objects it drops them first (--clean), reports errors that are          *)
(* tolerated, or fails.  Tolerated is whatever pg_restore ends with, also   *)
(* its death half way (module CommandRunner).  Each statement and each     *)
(* table's rows commit on their own (no --single-transaction), so that a   *)
(* section which does not end leaves what it had done.                     *)

NoRows == copies' = [t \in Txn |-> 0]

LoadRows(loaded) ==
  copies' = [t \in Txn |-> IF t \in loaded THEN Again(copies[t]) ELSE copies[t]]

(* What pre-data leaves when it does not end: some tables were not made    *)
(* yet, or, with --clean, were dropped already.                            *)
CutPreData ==
  \/ UNCHANGED <<base, copies, tgtSeq>>
  \/ /\ base \in {"none", "partial"} /\ base' \in {"partial", "objects"}
     /\ UNCHANGED <<copies, tgtSeq>>
  \/ /\ base # "none" /\ opts.clean
     /\ tgtSeq' \in {tgtSeq, 0}
     /\ \/ base' \in {"none", "objects"} /\ NoRows
        \/ /\ base' = "partial"
           /\ \E kept \in SUBSET Txn :
                copies' = [t \in Txn |-> IF t \in kept THEN copies[t] ELSE 0]

(* What data leaves when it does not end: the rows of some tables.         *)
CutData ==
  /\ UNCHANGED base
  /\ \/ UNCHANGED <<copies, tgtSeq>>
     \/ /\ base # "none"
        /\ \E loaded \in SUBSET (1 .. archive.pos) : LoadRows(loaded)
        /\ tgtSeq' \in {tgtSeq, archive.pos}

RestorePreData ==
  /\ pc = "preData" /\ ~Cancelled
  /\ \/ /\ base = "none" \/ opts.clean
        /\ base' = "objects" /\ NoRows /\ tgtSeq' = 0
        /\ pc' = "data"
        /\ UNCHANGED <<memoryVars, historyVars>>
     \/ /\ base # "none" /\ ~opts.clean /\ opts.tolerate
        /\ base' = IF base = "partial" THEN "objects" ELSE base
        /\ pc' = "data"
        /\ UNCHANGED <<copies, tgtSeq, memoryVars, historyVars>>
     \/ /\ base # "none" /\ ~opts.clean /\ ~opts.tolerate
        /\ End("failed")
        /\ base' \in (IF base = "partial" THEN {"partial", "objects"} ELSE {base})
        /\ UNCHANGED <<copies, tgtSeq>>
     \/ /\ opts.tolerate /\ Tolerated(pc)
        /\ pc' = "data"
        /\ CutPreData
        /\ UNCHANGED <<memoryVars, outcome, runs>>
  /\ UNCHANGED <<fileVars, sourceVars, sub, origin, worker>>

(* The rows and the sequences as of the archive's position, or those of    *)
(* some tables: the rest are missing or pg_restore ended before them.      *)
RestoreData ==
  /\ pc = "data" /\ ~Cancelled
  /\ pc' = "postData"
  /\ \/ /\ base \in {"objects", "rows"} /\ base' = "rows"
        /\ LoadRows(1 .. archive.pos) /\ tgtSeq' = archive.pos
        /\ UNCHANGED faults
     \/ /\ base # "none" /\ base' = "rows"
        /\ opts.tolerate
        /\ (base = "partial" /\ UNCHANGED faults) \/ Tolerated(pc)
        /\ \E loaded \in SUBSET (1 .. archive.pos) : LoadRows(loaded)
        /\ tgtSeq' \in {tgtSeq, archive.pos}
     \/ /\ base = "none"  \* no tables to load into, tolerated as well
        /\ UNCHANGED <<base, copies, tgtSeq, faults>>
  /\ UNCHANGED <<memoryVars, fileVars, outcome, runs, sourceVars, sub, origin, worker>>

RestorePostData ==
  /\ pc = "postData" /\ ~Cancelled
  /\ pc' = "saveRestore"
  /\ UNCHANGED <<memoryVars, fileVars, historyVars, pgVars>>

SaveRestore ==
  /\ pc = "saveRestore" /\ ~Cancelled
  /\ pc' = "analyze"
  /\ Save(Mark("Restore"))
  /\ UNCHANGED <<opts, snapshot, interrupts, exit, archive, outcome, runs, pgVars>>

(* run_target_analyze_stage, and drop(prepared_stream) after it. *)
AnalyzeTarget ==
  /\ pc = "analyze"
  /\ pc' = IF opts.resume THEN "disable" ELSE "waitSlot"
  /\ LET wanted == opts.analyze /\ "Analyze" \notin token.done
     IN  \/ ~wanted /\ UNCHANGED <<token, disk, faults>>
         \/ wanted /\ Save(Mark("Analyze"))
         \/ wanted /\ Tolerated(pc) /\ UNCHANGED <<token, disk>>
  /\ snapshot' = NoSnapshot
  /\ UNCHANGED <<opts, interrupts, exit, archive, outcome, runs, pgVars>>

-----------------------------------------------------------------------------
(* The apply phase.                                                        *)

DisableStale ==
  /\ pc = "disable"
  /\ pc' = "waitSlot"
  /\ \/ DisableSubscription /\ UNCHANGED faults
     \/ Tolerated(pc) /\ UNCHANGED targetVars
  /\ UNCHANGED <<memoryVars, fileVars, outcome, runs, sourceVars>>

SlotAssumedFree == TRUE  \* slip: no wait for the old walsender

(* wait_for_slot_inactive: an absent slot counts as inactive. *)
SlotFree == slot # "active"

WaitSlot ==
  /\ pc = "waitSlot"
  /\ \/ SlotFree /\ pc' = "attach" /\ UNCHANGED <<memoryVars, historyVars>>
     \/ ~SlotFree /\ End("failed")   \* still active after 30 s
  /\ UNCHANGED <<fileVars, pgVars>>

ReattachNever == FALSE  \* slip: drop and create again, which loses the origin

(* An existing subscription is re-enabled in place, which keeps its origin; *)
(* otherwise CREATE SUBSCRIPTION on the slot, with an empty origin.         *)
Reattached == sub # "absent"

AttachSubscription ==
  /\ pc = "attach"
  /\ pc' = "apply"
  /\ sub' = "enabled"
  /\ origin' = IF Reattached THEN origin ELSE 0
  /\ UNCHANGED <<worker, base, copies, tgtSeq, memoryVars, fileVars, historyVars, sourceVars>>

(* Slip: sequences are synced while the subscription still streams. *)
LeaveLoopSyncFirst(why) ==
  /\ pc = "apply"
  /\ pc' = IF why = "cutover" /\ opts.syncSeq THEN "syncSeq" ELSE "teardown"
  /\ exit' = why
  /\ UNCHANGED <<opts, token, snapshot, interrupts, fileVars, historyVars, pgVars>>

(* The poll loop (module ApplyLoop) ends: cutover, cancel, or an apply      *)
(* worker found dead (or not found out about) after three polls without     *)
(* progress.  What was polled may be stale by then: it may have caught up.  *)
LeaveLoop(why) ==
  /\ pc = "apply"
  /\ pc' = "teardown" /\ exit' = why
  /\ UNCHANGED <<opts, token, snapshot, interrupts, fileVars, historyVars, pgVars>>

ApplyCutoverDrained == Requested /\ confirmed = wal /\ LeaveLoop("cutover")  \* slip

ApplyCutoverReady == (Requested \/ confirmed = wal) /\ LeaveLoop("cutover")  \* slip

ApplyCutover   == Requested /\ LeaveLoop("cutover")
ApplyCancel    == Cancelled /\ LeaveLoop("cancel")
ApplyUnhealthy == (worker = "stopped" \/ pc \in CrashPoints) /\ slot # "absent" /\ LeaveLoop("error")

(* teardown_subscription: disable, and after a cutover detach and drop; the *)
(* first failure ends it and is only logged.                                *)
AfterDisable == IF exit = "cutover" /\ opts.dropSub THEN "detach" ELSE "finish"

TeardownStep(step, Effect, next) ==
  /\ pc = step
  /\ \/ Effect /\ pc' = next /\ UNCHANGED faults
     \/ Tolerated(step) /\ pc' = "finish" /\ UNCHANGED targetVars
  /\ UNCHANGED <<memoryVars, fileVars, outcome, runs, sourceVars>>

TeardownDisable == TeardownStep("teardown", DisableSubscription, AfterDisable)
TeardownDetach  == TeardownStep("detach", DetachSlot, "dropSub")
TeardownDrop    == TeardownStep("dropSub", DropSubscription, "finish")

-----------------------------------------------------------------------------
(* After the apply phase.                                                  *)

AfterSync  == "dropPub"
AfterApplyAny == IF opts.syncSeq THEN "syncSeq" ELSE AfterSync  \* slip: a cancel cleans up too
AfterApply == IF exit # "cutover" THEN "complete"
              ELSE IF opts.syncSeq THEN "syncSeq" ELSE AfterSync

FinishApply ==
  /\ pc = "finish"
  /\ \/ exit = "error" /\ End("failed") /\ UNCHANGED disk
     \/ /\ exit # "error"
        /\ pc' = AfterApply
        /\ Save(token)
        /\ UNCHANGED <<opts, snapshot, interrupts, exit, outcome, runs>>
  /\ UNCHANGED <<archive, pgVars>>

(* sync_sequences: setval on the target from the source's last_value. *)
SyncSequences ==
  /\ pc = "syncSeq"
  /\ pc' = AfterSync
  /\ \/ tgtSeq' = wal /\ UNCHANGED faults
     \/ Tolerated(pc) /\ UNCHANGED tgtSeq
  /\ UNCHANGED <<memoryVars, fileVars, outcome, runs, sourceVars, sub, origin, worker, base, copies>>

(* cleanup_source_after_cutover.  The wait for the slot gives up after 30 s: *)
(* a subscription whose teardown failed still streams by then, and that a    *)
(* walsender without peer is still there counts as a fault.                  *)
DropPublication ==
  /\ pc = "dropPub"
  /\ pc' = IF opts.dropSlot THEN "waitDrop" ELSE "complete"
  /\ \/ pub' = (IF token.pubAuto THEN "none" ELSE pub) /\ UNCHANGED faults
     \/ token.pubAuto /\ Tolerated(pc) /\ UNCHANGED pub
  /\ UNCHANGED <<memoryVars, fileVars, outcome, runs, wal, slot, confirmed, targetVars>>

WaitDrop ==
  /\ pc = "waitDrop"
  /\ pc' = "dropSlot"
  /\ \/ SlotFree /\ UNCHANGED faults
     \/ ~SlotFree /\ sub = "enabled" /\ UNCHANGED faults
     \/ Tolerated(pc)
  /\ UNCHANGED <<memoryVars, fileVars, outcome, runs, pgVars>>

DropSlot ==
  /\ pc = "dropSlot"
  /\ pc' = "complete"
  /\ \/ DropIdleSlot /\ UNCHANGED faults
     \/ Tolerated(pc) /\ UNCHANGED sourceVars
  /\ UNCHANGED <<memoryVars, fileVars, outcome, runs, targetVars>>

Complete ==
  /\ pc = "complete"
  /\ End(IF exit = "cutover" THEN "cutover" ELSE "stopped")
  /\ UNCHANGED <<fileVars, pgVars>>

-----------------------------------------------------------------------------
(* The operator and the process's end.                                     *)

(* SIGINT: the first requests cutover, whatever the step; the second        *)
(* cancels.                                                                 *)
Interrupt ==
  /\ pc # "idle"
  /\ \/ interrupts = 0
     \/ interrupts = 1 /\ pc \in CancelPoints
  /\ interrupts' = interrupts + 1
  /\ UNCHANGED <<pc, opts, token, snapshot, exit, fileVars, historyVars, pgVars>>

(* Steps that race the cancellation token or check it. *)
Cancellable ==
  {"preflight", "dumping", "saveDump", "preData", "data", "postData", "saveRestore"}

(* The run ends at its step, and with it the pg_restore it had started.   *)
EndAtStep(result) ==
  /\ End(result)
  /\ CASE pc = "preData" -> CutPreData
       [] pc = "data"    -> CutData
       [] OTHER          -> UNCHANGED <<base, copies, tgtSeq>>
  /\ UNCHANGED <<fileVars, sourceVars, sub, origin, worker>>

CancelRun == Cancelled /\ pc \in Cancellable /\ EndAtStep("cancelled")

Crash == pc \in CrashPoints \ {"idle"} /\ EndAtStep("failed")

-----------------------------------------------------------------------------

Migrator ==
  \/ Preflight
  \/ CleanSub
  \/ CleanSlot
  \/ LoadToken
  \/ VacuumSource
  \/ EnsurePublication
  \/ SavePublication
  \/ PrepareSlot
  \/ SaveSlot
  \/ StartDump
  \/ FinishDump
  \/ SaveDump
  \/ RestorePreData
  \/ RestoreData
  \/ RestorePostData
  \/ SaveRestore
  \/ AnalyzeTarget
  \/ DisableStale
  \/ WaitSlot
  \/ AttachSubscription
  \/ ApplyCutover
  \/ ApplyCancel
  \/ ApplyUnhealthy
  \/ TeardownDisable
  \/ TeardownDetach
  \/ TeardownDrop
  \/ FinishApply
  \/ SyncSequences
  \/ DropPublication
  \/ WaitDrop
  \/ DropSlot
  \/ Complete
  \/ CancelRun

PostgreSQL == Background /\ UNCHANGED <<pc, memoryVars, fileVars, historyVars>>

Operator == Interrupt \/ \E o \in Options : Start(o)

Next == Migrator \/ PostgreSQL \/ Operator \/ Crash

Spec == Init /\ [][Next]_vars

-----------------------------------------------------------------------------
(***************************************************************************)
(* Safety.                                                                 *)
(***************************************************************************)

(* What the token on disk claims. *)
DumpSaved    == disk # NoToken /\ "Dump" \in disk.done
RestoreSaved == disk # NoToken /\ "Restore" \in disk.done

(* No transaction is ever on the target twice, and once a restore is       *)
(* through or recorded, the target holds those of 1 .. p for some p and no *)
(* other: the dump starts where the slot does, no restart loads it a       *)
(* second time, none takes a data section that was cut short for a whole   *)
(* one, and none makes the apply worker skip or replay a transaction.      *)
(* Holds for the restarts described by ResumeProcedure below.              *)
ExactPrefix ==
  /\ \A t \in Txn : copies[t] <= 1
  /\ base = "rows" \/ RestoreSaved => \E p \in 0 .. wal : ExactUpTo(p)

(* The subscription never streams into a target whose restore is not       *)
(* recorded on disk, so that no later run restores over streamed rows      *)
(* (run_native_apply runs after SaveRestore, resumed runs skip it).        *)
StreamAfterRestore ==
  worker = "running" => base = "rows" /\ RestoreSaved

(* What the token on disk claims is true of the archive and the target,    *)
(* for the configuration it was written with, whichever options the runs   *)
(* in between had: a token that says Dump has that archive, one that says  *)
(* Restore has its rows unless a restore error was tolerated (order of the *)
(* saves in run_online).                                                   *)
DiskTokenTruthful ==
  disk # NoToken =>
    /\ "Dump" \in disk.done =>
         archive.state = "complete" /\ archive.scope = disk.scope
    /\ "Restore" \in disk.done => "Dump" \in disk.done /\ (faults = 0 => base = "rows")

(* After a cutover that synced sequences, and in which no best-effort call *)
(* failed, the sequence on the target is past every replicated row: the    *)
(* sync comes after the worker can apply nothing more (run_online's order  *)
(* of run_native_apply, with its teardown, and sync_sequences).            *)
SequencesCovered ==
  /\ outcome = "cutover" \/ pc \in {"dropPub", "waitDrop", "dropSlot", "complete"}
  /\ exit = "cutover" \/ outcome = "cutover"
  /\ opts.syncSeq /\ faults = 0
  => \A t \in Txn : copies[t] > 0 => t <= tgtSeq

(* A cutover in which no best-effort call failed leaves nothing behind     *)
(* that the options said to remove: no slot that would retain WAL on the   *)
(* source, no subscription that could still stream (teardown_subscription, *)
(* cleanup_source_after_cutover and the walsender's late exit).            *)
CutoverCleansUp ==
  outcome = "cutover" /\ faults = 0 =>
    /\ sub # "enabled"
    /\ opts.dropSub => sub = "absent"
    /\ opts.dropSlot => slot = "absent"

(* Over any sequence of runs the apply phase keeps what ApplyPhase, which  *)
(* the poll loop implements as well, promises: once streaming it ends only  *)
(* for a reason, and never just because the target caught up.              *)
TeardownSteps == {"teardown", "detach", "dropSub", "finish"}

Phase == INSTANCE ApplyPhase WITH
  phase     <- IF pc = "apply" THEN "streaming"
               ELSE IF pc \in TeardownSteps THEN "teardown" ELSE "outside",
  reason    <- IF pc \in TeardownSteps THEN exit ELSE "none",
  requested <- Requested,
  cancelled <- Cancelled,
  broken    <- "apply" \in CrashPoints

EndsForAReason == Phase!Spec

(* No sequence of runs drops a publication the operator made: a run only   *)
(* drops what some run is recorded to have created.                        *)
OperatorPublicationKept == [][pub = "operator" => pub' = "operator"]_vars

(* A resumed run attaches its subscription to a slot that is there, though  *)
(* no run looks: a run cleans up its slot only after a cutover (the exit    *)
(* reasons in run_online, cleanup_source_after_cutover).                   *)
ResumeFindsSlot == pc = "attach" /\ opts.resume => slot # "absent"

-----------------------------------------------------------------------------
(***************************************************************************)
(* What the documentation says and some restarts break.                    *)
(***************************************************************************)

(* README.md:22: an online dump is snapshot-consistent, at the slot's start. *)
SnapshotConsistentDump ==
  pc = "dumping" => snapshot # NoSnapshot /\ archive.pos = confirmed

-----------------------------------------------------------------------------
(***************************************************************************)
(* Restarts that keep the target exact: every run has --resume and none    *)
(* has --force-clean, and no run dies, is cancelled or loses a call         *)
(*   - between creating the slot and saving Dump, as a resumed run then    *)
(*     dumps without a snapshot;                                           *)
(*   - between the first row loaded and saving Restore, if a resumed run   *)
(*     would tolerate the errors of loading them again without --clean;    *)
(*   - in pg_restore, if its errors are tolerated and rows are missing;    *)
(*   - after a cutover dropped the subscription, and with it the origin.   *)
(***************************************************************************)
DumpWindow    == {"saveSlot", "dump", "dumping", "saveDump"}
RestoreWindow == {"data", "postData", "saveRestore"}
RestoreSteps  == {"preData"} \cup RestoreWindow
CutoverWindow == {"finish", "syncSeq", "dropPub", "waitDrop", "dropSlot", "complete"}

CleansFirst == \A o \in Options : o.tolerate => o.clean  \* or fails

FatalWindow ==
  UNION {DumpWindow,
         IF CleansFirst THEN {} ELSE RestoreWindow,
         IF \A o \in Options : ~o.dropSub THEN {} ELSE CutoverWindow}

ResumeProcedure ==
  /\ \A o \in Options : o.resume /\ ~o.forceClean
  /\ CrashPoints \cap FatalWindow = {}
  /\ FaultPoints \cap {"preData", "data", "saveDump", "saveRestore"} = {}
  /\ CancelPoints \subseteq {"analyze", "disable", "waitSlot", "attach", "apply"}
                               \cup (RestoreSteps \ FatalWindow)

(* The save between creating the slot and replacing the archive succeeds,   *)
(* so that no token of an earlier run outlives that run's archive.         *)
SavesBeforeDump == "saveSlot" \notin FaultPoints

(* No run takes the slot away from a migration that goes on: none starts    *)
(* with --force-clean, or dies after a cutover dropped the slot.           *)
SlotKept ==
  /\ \A o \in Options : ~o.forceClean
  /\ "complete" \in CrashPoints => \A o \in Options : ~o.dropSlot

-----------------------------------------------------------------------------
(***************************************************************************)
(* The inductive invariant behind ExactPrefix and StreamAfterRestore under *)
(* ResumeProcedure.  The stages saved on disk split the migration in       *)
(* three: nothing dumped; dumped at the slot's position but not restored;  *)
(* restored, with the target exact up to where the slot would resume.      *)
(***************************************************************************)
EarlySteps   == {"idle", "preflight", "cleanSub", "cleanSlot", "load"}
SlotSteps    == {"publication", "savePub", "slot"}
LateSteps    ==
  {"analyze", "disable", "waitSlot", "attach", "apply", "teardown", "detach", "dropSub"}
    \cup CutoverWindow

(* The subscription of a cutover is gone, and no run will make another. *)
Dropped == sub = "absent" /\ (pc \in CutoverWindow \/ outcome = "cutover")

TokenHeld == pc \notin EarlySteps => token \in Token

(* The token in memory and the one on disk agree on the long stages, and   *)
(* the step fits them.                                                     *)
StagesSaved ==
  /\ token # NoToken => /\ "Dump" \in token.done <=> DumpSaved
                        /\ "Restore" \in token.done <=> RestoreSaved
  /\ RestoreSaved => DumpSaved
  /\ pc \in SlotSteps \cup DumpWindow => ~DumpSaved
  /\ pc \in RestoreSteps => DumpSaved /\ ~RestoreSaved
  /\ pc \in LateSteps => RestoreSaved

ProcessInv ==
  /\ opts \in Options
  /\ pc \notin {"cleanSub", "cleanSlot"}
  /\ interrupts = 2 => pc \in LateSteps \cup (RestoreSteps \ FatalWindow)
  /\ outcome = "cutover" => pc = "idle"
  /\ pc \in {"detach", "dropSub"} => exit = "cutover" /\ opts.dropSub
  /\ pc \in CutoverWindow /\ sub = "absent" => exit = "cutover" /\ opts.dropSub
  /\ pc \in {"apply", "teardown", "detach", "dropSub"} => sub # "absent"

ReplicationInv ==
  /\ confirmed <= wal /\ origin <= wal
  /\ worker = "running" => slot = "active"
  /\ sub = "absent" => origin = 0 /\ worker = "stopped"
  /\ sub # "absent" => RestoreSaved

NotDumpedInv ==
  ~DumpSaved =>
    /\ base = "none" /\ copies = [t \in Txn |-> 0]
    /\ slot # "absent" => pc \in DumpWindow
    /\ pc \in DumpWindow => slot # "absent" /\ snapshot = confirmed
    /\ pc \in {"dumping", "saveDump"} => archive.pos = confirmed

(* A data section that was cut short leaves rows, and then pre-data drops  *)
(* them before data starts once more.                                      *)
DumpedInv ==
  DumpSaved /\ ~RestoreSaved =>
    /\ slot # "absent" /\ archive.pos = confirmed
    /\ \A t \in Txn : copies[t] = 0 \/ (copies[t] = 1 /\ t <= confirmed)
    /\ base = "none" => \A t \in Txn : copies[t] = 0
    /\ base = "rows" => ExactUpTo(confirmed)
    /\ CleansFirst \/ pc \in {"postData", "saveRestore"}
         \/ (base # "rows" /\ \A t \in Txn : copies[t] = 0)
    /\ pc = "data" => base = "objects" /\ \A t \in Txn : copies[t] = 0
    /\ pc \in {"postData", "saveRestore"} => base = "rows"

RestoredInv ==
  RestoreSaved =>
    /\ base = "rows"
    /\ slot # "absent" /\ ~Dropped => ExactUpTo(Position)
    /\ \E p \in 0 .. wal : ExactUpTo(p)

(* Whatever the interleaving, what is saved on disk, the running step, the  *)
(* slot, the subscription and the target's rows stay in the relations above *)
(* (run_online's order of effects and saves, run_native_apply's attach).    *)
ResumeInv ==
  /\ TokenHeld
  /\ StagesSaved
  /\ ProcessInv
  /\ ReplicationInv
  /\ NotDumpedInv
  /\ DumpedInv
  /\ RestoredInv

-----------------------------------------------------------------------------
(***************************************************************************)
(* Liveness.  The process is scheduled, and its poll loop notices a        *)
(* request or a dead worker that has work left; the servers' background    *)
(* activity goes on, the worker of a disabled subscription exits; a worker *)
(* that keeps losing its connection still gets to apply now and then       *)
(* (strong fairness).  Nothing obliges the source to commit, the operator  *)
(* to act or the process to survive.                                       *)
(***************************************************************************)
PostgreSQLDoes(A) == A /\ UNCHANGED <<pc, memoryVars, fileVars, historyVars>>

MustStep ==
  pc = "apply" => \/ Requested /\ exit' # "error"
                  \/ worker = "stopped" /\ confirmed < wal

FairSpec ==
  /\ Spec
  /\ WF_vars(Migrator /\ MustStep)
  /\ WF_vars(PostgreSQLDoes(WorkerStart))
  /\ SF_vars(PostgreSQLDoes(WorkerApply))
  /\ WF_vars(PostgreSQLDoes(sub # "enabled" /\ WorkerExit))
  /\ WF_vars(PostgreSQLDoes(SenderExit))

(* Once the operator requested cutover, at whatever step, the run comes to  *)
(* an end (the apply loop checks is_requested, the waits are bounded).      *)
CutoverCompletes == Requested ~> pc = "idle"

(* A run that reached the apply phase leaves it or has the target catch up  *)
(* with everything the source committed.  Not so if the slot is gone, which *)
(* no run looks for: then every poll fails, for ever.                      *)
CatchesUp ==
  pc = "apply" /\ slot # "absent" ~> (pc # "apply" \/ ExactUpTo(wal))

=============================================================================
