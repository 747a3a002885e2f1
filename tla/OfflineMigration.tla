-------------------------- MODULE OfflineMigration --------------------------
(***************************************************************************)
(* The offline pipeline (run_offline) and the verify mode, over a sequence *)
(* of runs that the operator starts with different command lines against   *)
(* the same two databases and the same dump path: a run may be refused,    *)
(* fail, be cancelled or die at a step, and what it saved is what the next *)
(* one with --resume goes by.  The source commits all the while.           *)
(*                                                                         *)
(* A commit adds a row to one table.  The target's table is the sequence   *)
(* of the instants of the source that were loaded into it.  pg_dump,       *)
(* pg_restore and their cancellation are in CommandRunner, the split copy  *)
(* in SplitCopy; here they are steps that may leave a part of their work.  *)
(* The preflight checks are in Preflight.                                  *)
(***************************************************************************)
EXTENDS Configuration, FiniteSets, Sequences

CONSTANTS
  Commands,     \* the command lines the operator may start
  MaxRuns,      \* bound on the runs
  MaxWrites,    \* bound on the source's commits
  MaxFaults,    \* bound on failing calls
  CrashPoints,  \* steps at which the process may die
  FaultPoints   \* steps whose calls may fail

Steps ==
  {"idle", "preflight", "load", "vacuum", "split", "dump", "dumping", "saveDump",
   "single", "pre-data", "data", "splitCopy", "post-data", "saveRestore", "analyze",
   "list", "verify"}

ASSUME OfflineAssumption ==
  /\ Commands \subseteq Cli /\ \A cli \in Commands : cli.connect.mode # "online"
  /\ MaxRuns \in Nat /\ MaxWrites \in Nat /\ MaxFaults \in Nat
  /\ CrashPoints \subseteq Steps /\ FaultPoints \subseteq Steps
  /\ \A cli \in Commands : "temporary" \notin {cli.resume.dumpPath, cli.resume.resumeFile}
  /\ None \notin Seq(Nat)

VARIABLES
  pc,         \* the run's next step, "idle" between runs
  cfg,        \* the running command's MigrationConfig
  token,      \* the ResumeToken in memory
  split,      \* SplitContext: the tables copied directly and their snapshot
  todo,       \* tables to verify
  bad,        \* tables that did not match
  listed,     \* the source's commits when they were listed
  cancelled,  \* the step at which the operator cancelled, or "no"
  outcome,    \* how the last run ended, "none" while one is running
  archives,   \* the file at each dump path
  disk,       \* the token saved at each token path
  writes,     \* the source's commits, by their table
  target,     \* the loads of each table, or None while it does not exist
  writer,     \* the dump path of the run that last changed the target
  ignored,    \* whether errors were tolerated since the target was cleaned
  runs,       \* runs so far
  faults      \* failed calls so far

processVars == <<cfg, token, split, todo, bad, listed>>
fileVars    == <<archives, disk>>
targetVars  == <<target, writer, ignored>>
countVars   == <<runs, faults>>
vars == <<pc, processVars, cancelled, outcome, fileVars, writes, targetVars, countVars>>

(* A path of its own for each process if none is given. *)
DumpPath(c) == IF c.dumpPath = None THEN "temporary" ELSE c.dumpPath
Paths == {"temporary"} \cup {DumpPath(IntoConfig(cli)) : cli \in Commands}

(* Beside the archive unless --resume-file is given. *)
TokenPath(c) == IF c.resumeFile = None THEN DumpPath(c) ELSE c.resumeFile
TokenPaths == {"temporary"} \cup {TokenPath(IntoConfig(cli)) : cli \in Commands}

Now == Len(writes)
RowsAt(t, at) == Cardinality({i \in 1 .. at : writes[i] = t})

Instants == 0 .. MaxWrites
Token    == [hash : {ConfigHash(IntoConfig(cli)) : cli \in Commands},
             done : SUBSET {"SourceVacuum", "Dump", "Restore", "Analyze"}]
Archive  == [state : {"none", "partial", "full"}, dir : BOOLEAN, at : Instants,
             defs : SUBSET Tables, data : SUBSET Tables]

NoArchive == [state |-> "none", dir |-> FALSE, at |-> 0, defs |-> {}, data |-> {}]
NoSplit   == [plan |-> {}, at |-> 0]

(* Every variable has its type. *)
TypeOK ==
  /\ pc \in Steps
  /\ cfg = None \/ cfg \in {IntoConfig(cli) : cli \in Commands}
  /\ token \in Token \cup {None}
  /\ split \in [plan : SUBSET Tables, at : Instants]
  /\ todo \subseteq Tables /\ bad \subseteq Tables /\ listed \in Instants
  /\ cancelled \in Steps \cup {"no"}
  /\ outcome \in {"none", "refused", "failed", "cancelled", "crashed", "mismatch", "done"}
  /\ archives \in [Paths -> Archive] /\ disk \in [TokenPaths -> Token \cup {None}]
  /\ writes \in Seq(Tables) /\ Now <= MaxWrites
  /\ \A t \in Tables : target[t] = None \/ target[t] \in Seq(Instants)
  /\ writer \in Paths \cup {None} /\ ignored \in BOOLEAN
  /\ runs \in 0 .. MaxRuns /\ faults \in 0 .. MaxFaults

Init ==
  /\ pc = "idle" /\ cfg = None /\ token = None /\ split = NoSplit
  /\ todo = {} /\ bad = {} /\ listed = 0 /\ cancelled = "no" /\ outcome = "none"
  /\ archives = [p \in Paths |-> NoArchive] /\ disk = [p \in TokenPaths |-> None]
  /\ writes = <<>>
  /\ target = [t \in Tables |-> None] /\ writer = None /\ ignored = FALSE
  /\ runs = 0 /\ faults = 0

-----------------------------------------------------------------------------

Path    == DumpPath(cfg)
Archived == archives[Path]

End(how) == pc' = "idle" /\ outcome' = how
Goto(step) == pc' = step /\ UNCHANGED outcome

(* A call of this step fails. *)
Fault == pc \in FaultPoints /\ faults < MaxFaults /\ faults' = faults + 1

Unfinished(how) == End(how) /\ UNCHANGED <<processVars, cancelled, runs>>

MarkedStep(stage) == [token EXCEPT !.done = @ \cup {pc}]  \* slip: the step for the stage
Marked(stage) == [token EXCEPT !.done = @ \cup {stage}]

(* A stage is marked and saved; a save that fails is only logged. *)
MarkAndSave(stage) ==
  /\ token' = Marked(stage)
  /\ \/ disk' = [disk EXCEPT ![TokenPath(cfg)] = token'] /\ UNCHANGED faults
     \/ Fault /\ UNCHANGED disk

(* Migrator::run: validate, then the mode. *)
Start ==
  /\ pc = "idle" /\ runs < MaxRuns /\ runs' = runs + 1
  /\ \E cli \in Commands :
       LET c == IntoConfig(cli)
       IN  /\ cfg' = c
           /\ IF ~Parses(cli.connect.source) \/ ~Parses(cli.connect.target) \/ ~Valid(c)
              THEN End("refused")
              ELSE pc' = (IF c.mode = "verify" THEN "list" ELSE "preflight") /\ outcome' = "none"
  /\ token' = None /\ split' = NoSplit /\ todo' = {} /\ bad' = {} /\ listed' = 0
  /\ cancelled' = "no"
  /\ archives' = [archives EXCEPT !["temporary"] = NoArchive]
  /\ disk' = [disk EXCEPT !["temporary"] = None]
  /\ UNCHANGED <<writes, targetVars, faults>>

Preflight ==
  /\ pc = "preflight"
  /\ \/ Goto("load") /\ UNCHANGED <<processVars, cancelled, countVars>>
     \/ Fault /\ Unfinished("failed")
  /\ UNCHANGED <<fileVars, writes, targetVars>>

(* Slip: the stages of a token are taken whatever it was saved for. *)
LoadAnyToken ==
  /\ pc = "load"
  /\ token' = [hash |-> ConfigHash(cfg),
                done |-> IF cfg.resume /\ disk[TokenPath(cfg)] # None
                         THEN disk[TokenPath(cfg)].done ELSE {}]
  /\ Goto("vacuum")
  /\ UNCHANGED <<cfg, split, todo, bad, listed, cancelled, fileVars, writes, targetVars, countVars>>

(* load_or_init_resume and check_compatible. *)
LoadToken ==
  /\ pc = "load"
  /\ IF cfg.resume /\ disk[TokenPath(cfg)] # None
     THEN /\ token' = disk[TokenPath(cfg)]
          /\ IF disk[TokenPath(cfg)].hash = ConfigHash(cfg) THEN Goto("vacuum") ELSE End("failed")
     ELSE /\ token' = [hash |-> ConfigHash(cfg), done |-> {}]
          /\ Goto("vacuum")
  /\ UNCHANGED <<cfg, split, todo, bad, listed, cancelled, fileVars, writes, targetVars, countVars>>

(* run_source_vacuum_stage: a failure is not fatal and saves nothing. *)
VacuumSource ==
  /\ pc = "vacuum" /\ Goto("split")
  /\ \/ /\ cfg.skipSourceVacuum \/ "SourceVacuum" \in token.done
        /\ UNCHANGED <<token, disk, faults>>
     \/ /\ ~cfg.skipSourceVacuum /\ "SourceVacuum" \notin token.done
        /\ MarkAndSave("SourceVacuum") \/ (Fault /\ UNCHANGED <<token, disk>>)
  /\ UNCHANGED <<cfg, split, todo, bad, listed, cancelled, archives, writes, targetVars, runs>>

(* prepare_split: the tables that reach the threshold, if any do, and a     *)
(* snapshot that the run holds.                                            *)
PrepareSplit ==
  /\ pc = "split"
  /\ \/ /\ split' \in IF cfg.splitTablesLargerThan = None THEN {NoSplit}
                      ELSE {NoSplit} \cup [plan : SUBSET Tables \ {{}}, at : {Now}]
        /\ Goto("dump")
        /\ UNCHANGED <<cfg, token, todo, bad, listed, cancelled, countVars>>
     \/ cfg.splitTablesLargerThan # None /\ Fault /\ Unfinished("failed")
  /\ UNCHANGED <<fileVars, writes, targetVars>>

-----------------------------------------------------------------------------
(* The dump.                                                               *)

(* Slip: a cancelled command passes for one with errors. *)
RunnerTolerates == cancelled = "no" \/ cfg.allowRestoreErrors
RunnerReturns == cancelled = "no"

FirstRestore(c) == IF c.splitSections THEN "pre-data" ELSE "single"

(* Slip: pg_dump takes a snapshot of its own. *)
DumpRequestNow ==
  LET tables == Dumped(cfg, Tables)
  IN  [state |-> "full", dir |-> cfg.jobs > 1, at |-> Now,
       defs  |-> tables, data  |-> tables \ split.plan]

(* dump_request: a directory for several jobs, with the data of the split   *)
(* tables left out, at their snapshot.                                     *)
DumpRequest ==
  LET tables == Dumped(cfg, Tables)
  IN  [state |-> "full", dir |-> cfg.jobs > 1,
       at    |-> IF split = NoSplit THEN Now ELSE split.at,
       defs  |-> IF cfg.dumpScope = "data-only" THEN {} ELSE tables,
       data  |-> IF cfg.dumpScope = "schema-only" THEN {} ELSE tables \ split.plan]

(* External: pg_dump replaces a file, and writes to no directory in use. *)
Writable == Archived.state = "none" \/ (~Archived.dir /\ cfg.jobs = 1)

SkipDump == "Dump" \in token.done

StartDump ==
  /\ pc = "dump"
  /\ \/ /\ SkipDump
        /\ Goto(IF "Restore" \in token.done THEN "analyze" ELSE FirstRestore(cfg))
        /\ UNCHANGED <<processVars, cancelled, archives, countVars>>
     \/ /\ ~SkipDump /\ Writable
        /\ archives' = [archives EXCEPT ![Path] = [DumpRequest EXCEPT !.state = "partial"]]
        /\ Goto("dumping")
        /\ UNCHANGED <<processVars, cancelled, countVars>>
     \/ /\ ~SkipDump /\ ~Writable
        /\ Unfinished("failed") /\ UNCHANGED <<archives, faults>>
  /\ UNCHANGED <<disk, writes, targetVars>>

FinishDump ==
  /\ pc = "dumping"
  /\ \/ /\ RunnerReturns
        /\ archives' = [archives EXCEPT ![Path].state = "full"]
        /\ Goto("saveDump")
        /\ UNCHANGED <<processVars, cancelled, countVars>>
     \/ Fault /\ Unfinished("failed") /\ UNCHANGED archives
  /\ UNCHANGED <<disk, writes, targetVars>>

SaveDump ==
  /\ pc = "saveDump"
  /\ MarkAndSave("Dump")
  /\ Goto(IF "Restore" \in token.done THEN "analyze" ELSE FirstRestore(cfg))
  /\ UNCHANGED <<cfg, split, todo, bad, listed, cancelled, archives, writes, targetVars, runs>>

-----------------------------------------------------------------------------
(* The restore.  External: what pg_restore does with a whole archive.      *)

Created ==
  [t \in Tables |-> IF t \in Archived.defs /\ (cfg.dropTargetFirst \/ target[t] = None)
                    THEN <<>> ELSE target[t]]

Conflicts == ~cfg.dropTargetFirst /\ \E t \in Archived.defs : target[t] # None

(* Rows of the tables, but those that do not go in, are appended. *)
Loaded(tables, rows) ==
  [t \in Tables |-> IF t \in rows /\ tables[t] # None
                    THEN Append(tables[t], Archived.at) ELSE tables[t]]

(* The target after the section, when the rows of some tables went in. *)
Restored(section, rows) ==
  CASE section = "pre-data"  -> Created
    [] section = "data"      -> Loaded(target, rows)
    [] section = "single"    -> Loaded(Created, rows)
    [] section = "post-data" -> target

(* Whether the section reports errors when these rows went in. *)
Errors(section, rows) ==
  \/ Archived.state # "full"
  \/ section \in {"pre-data", "single"} /\ Conflicts
  \/ section \in {"data", "single"} /\ \E t \in Archived.data :
       t \notin rows \/ Restored(section, rows)[t] = None

NextSection(section) ==
  CASE section = "pre-data"  -> "data"
    [] section = "data"      -> IF split = NoSplit THEN "post-data" ELSE "splitCopy"
    [] section = "single"    -> "saveRestore"
    [] section = "post-data" -> "saveRestore"

Sections == {"pre-data", "data", "post-data", "single"}

Tolerates == cfg.allowRestoreErrors

Cleans(section) == cfg.dropTargetFirst /\ section \in {"pre-data", "single"}

(* One call of pg_restore: the sections in order, or a single pass. *)
RestoreSection ==
  /\ pc \in Sections /\ RunnerReturns
  /\ \E rows \in SUBSET Archived.data, fails \in BOOLEAN :
       LET errors == fails \/ Errors(pc, rows)
       IN  /\ pc \notin {"data", "single"} => rows = {}
           /\ IF fails \/ (pc \in {"data", "single"} /\ rows # Archived.data)
              THEN Fault
              ELSE UNCHANGED faults
           /\ target' = IF Archived.state = "full" THEN Restored(pc, rows) ELSE target
           /\ writer' = Path
           /\ IF errors /\ ~Tolerates THEN End("failed") ELSE Goto(NextSection(pc))
           /\ ignored' = ((ignored /\ ~Cleans(pc)) \/ (errors /\ Tolerates))
  /\ UNCHANGED <<processVars, cancelled, fileVars, writes, runs>>

(* run_split_copy: each table of the plan is emptied and filled, unless it  *)
(* has rows and the target was not to be cleaned; it stops at the first     *)
(* that fails.                                                             *)
SplitCopyStage ==
  /\ pc = "splitCopy"
  /\ \E copied \in SUBSET split.plan :
       LET free == {t \in split.plan : /\ target[t] # None
                                       /\ cfg.dropTargetFirst \/ target[t] = <<>>}
       IN  /\ copied \subseteq free
           /\ target' = [t \in Tables |-> IF t \in copied THEN <<split.at>> ELSE target[t]]
           /\ \/ /\ copied = split.plan /\ cancelled = "no"
                 /\ Goto("post-data") /\ UNCHANGED <<processVars, cancelled, faults, runs>>
              \/ /\ split.plan \ free # {} /\ cancelled = "no"
                 /\ Unfinished("failed") /\ UNCHANGED faults
              \/ Fault /\ Unfinished("failed")
  /\ writer' = Path
  /\ UNCHANGED <<fileVars, writes, ignored>>

SaveRestore ==
  /\ pc = "saveRestore"
  /\ MarkAndSave("Restore")
  /\ Goto("analyze")
  /\ UNCHANGED <<cfg, split, todo, bad, listed, cancelled, archives, writes, targetVars, runs>>

AnalyzeTarget ==
  /\ pc = "analyze" /\ Goto("list")
  /\ \/ /\ cfg.skipAnalyze \/ "Analyze" \in token.done
        /\ UNCHANGED <<token, disk, faults>>
     \/ /\ ~cfg.skipAnalyze /\ "Analyze" \notin token.done
        /\ MarkAndSave("Analyze") \/ (Fault /\ UNCHANGED <<token, disk>>)
  /\ UNCHANGED <<cfg, split, todo, bad, listed, cancelled, archives, writes, targetVars, runs>>

-----------------------------------------------------------------------------
(* The verification.                                                       *)

IsStrict == cfg.mode = "verify" \/ cfg.verify = "strict"

ListTables ==
  /\ pc = "list"
  /\ \/ cfg.mode = "offline" /\ cfg.verify = "off" /\ End("done") /\ UNCHANGED <<todo, listed, faults>>
     \/ /\ cfg.mode = "verify" \/ cfg.verify # "off"
        /\ cancelled = "no"
        /\ todo' = Verified(cfg, Tables) /\ listed' = Now
        /\ Goto("verify") /\ UNCHANGED faults
     \/ Fault /\ End("failed") /\ UNCHANGED <<todo, listed>>
  /\ UNCHANGED <<cfg, token, split, bad, cancelled, fileVars, writes, targetVars, runs>>

(* The rows of a table on the target: each load's, by their commits. *)
TargetRows(t) ==
  {row \in (DOMAIN target[t]) \X (1 .. Now) : row[2] <= target[t][row[1]] /\ writes[row[2]] = t}

(* Slip: a missing table counts as empty. *)
TargetCountZero(t) == IF target[t] = None THEN 0 ELSE Cardinality(TargetRows(t))

(* Rows on the target, -1 for a table that is missing. *)
TargetCount(t) == IF target[t] = None THEN -1 ELSE Cardinality(TargetRows(t))

(* A worker counts a table at both ends, in an order that depends on how    *)
(* the workers share the tables.                                           *)
VerifyTable ==
  /\ pc = "verify" /\ UNCHANGED pc
  /\ cancelled = "no"
  /\ \E t \in todo :
       /\ todo' = todo \ {t}
       /\ bad' = IF RowsAt(t, Now) = TargetCount(t) THEN bad ELSE bad \cup {t}
  /\ UNCHANGED <<cfg, token, split, listed, cancelled, outcome, fileVars, writes, targetVars, countVars>>

FinishVerify ==
  /\ pc = "verify"
  /\ \/ todo = {} /\ End(IF bad # {} /\ IsStrict THEN "mismatch" ELSE "done") /\ UNCHANGED faults
     \/ todo # {} /\ Fault /\ End("failed")
  /\ UNCHANGED <<processVars, cancelled, fileVars, writes, targetVars, runs>>

-----------------------------------------------------------------------------
(* The operator, the process's end and the source.                         *)

(* Ctrl+C cancels a run that is not online at once. *)
Cancel ==
  /\ pc # "idle" /\ cancelled = "no" /\ cancelled' = pc
  /\ UNCHANGED <<pc, processVars, outcome, fileVars, writes, targetVars, countVars>>

(* Steps that race the cancellation or look at it. *)
Cancellable ==
  {"preflight", "dumping", "saveDump", "splitCopy", "list", "verify"} \cup Sections

(* The run ends here; of a section or a split copy a part is done.         *)
Interrupted(how) ==
  /\ Unfinished(how)
  /\ \/ /\ pc \in Sections /\ writer' = Path
        /\ \E rows \in SUBSET Archived.data :
             target' \in IF Archived.state = "full" THEN {target, Restored(pc, rows)} ELSE {target}
     \/ /\ pc = "splitCopy" /\ writer' = Path
        /\ \E t \in split.plan :
             target' \in {target, [target EXCEPT ![t] =
                            IF @ = <<>> \/ (@ # None /\ cfg.dropTargetFirst) THEN <<split.at>> ELSE @]}
     \/ pc \notin Sections \cup {"splitCopy"} /\ UNCHANGED <<target, writer>>
  /\ UNCHANGED <<fileVars, writes, ignored, faults>>

CancelRun == cancelled # "no" /\ pc \in Cancellable /\ Interrupted("cancelled")
Crash     == pc \in CrashPoints \ {"idle"} /\ Interrupted("crashed")

(* External: a commit on the source. *)
Commit ==
  /\ Now < MaxWrites
  /\ \E t \in Tables : writes' = Append(writes, t)
  /\ UNCHANGED <<pc, processVars, cancelled, outcome, fileVars, targetVars, countVars>>

Migrator ==
  \/ Preflight
  \/ LoadToken
  \/ VacuumSource
  \/ PrepareSplit
  \/ StartDump
  \/ FinishDump
  \/ SaveDump
  \/ RestoreSection
  \/ SplitCopyStage
  \/ SaveRestore
  \/ AnalyzeTarget
  \/ ListTables
  \/ VerifyTable
  \/ FinishVerify
  \/ CancelRun

Next == Start \/ Migrator \/ Cancel \/ Crash \/ Commit

Spec == Init /\ [][Next]_vars

-----------------------------------------------------------------------------
(***************************************************************************)
(* Command lines after which a resumed run gets what its own asks for:     *)
(* those that share a token path and a hash ask for the same tables and the *)
(* same kind of dump, none with a split copy; those that share the dump    *)
(* path of one that resumes share its token path; a run that does not resume *)
(* saves its own token before it replaces the archive; and data is not     *)
(* restored alone, as nothing stops a second load of it.                   *)
(***************************************************************************)
Configs == {IntoConfig(cli) : cli \in Commands}
Writers == {c \in Configs : Valid(c) /\ c.mode = "offline"}

SameScope ==
  \A c, d \in Writers :
    TokenPath(c) = TokenPath(d) /\ ConfigHash(c) = ConfigHash(d) /\ d.resume =>
      /\ DumpPath(c) = DumpPath(d)
      /\ c.dumpScope = d.dumpScope /\ c.splitTablesLargerThan = None
      /\ c.excludeSchemas = d.excludeSchemas /\ c.excludeTables = d.excludeTables

OneToken ==
  \A c, d \in Writers : d.resume /\ DumpPath(c) = DumpPath(d) => TokenPath(c) = TokenPath(d)

SavesFirst ==
  (\E d \in Writers : d.resume) =>
    /\ "vacuum" \notin FaultPoints
    /\ \A c \in Writers : ~c.resume => ~c.skipSourceVacuum

OfflineProcedure ==
  SameScope /\ OneToken /\ SavesFirst /\ \A c \in Writers : c.dumpScope # "data-only"

(***************************************************************************)
(* No --table is of an --exclude-schema: pg_dump takes such a table, and   *)
(* the verification leaves it out.                                         *)
(***************************************************************************)
VerifiesDumped ==
  \A c \in Configs :
    c.tables # {} => \A t \in Dumped(c, Tables) : SchemaOf[t] \notin c.excludeSchemas

Delivers(c) ==
  /\ \A t \in Dumped(c, Tables) : target[t] # None
  /\ c.dumpScope = "all" =>
       \E at \in 0 .. Now : \A t \in Dumped(c, Tables) : target[t] = <<at>>

(* Whatever runs failed or died before it, a run that reports success       *)
(* without tolerated errors has the tables it was asked for on the target,  *)
(* each once and all from one instant of the source, those copied directly  *)
(* and those of the archive (run_offline's skips, prepare_split).          *)
DeliveredWhenDone ==
  outcome = "done" /\ cfg.mode = "offline" /\ ~ignored /\ writer = DumpPath(cfg) => Delivers(cfg)

(* The token on disk is never ahead of the files and the target, nor of     *)
(* another command's: a stage it lists is there, for the command lines that *)
(* it would be accepted for (save_resume after the effect, config_hash).   *)
DiskTokenTruthful ==
  \A c \in {d \in Writers : d.resume} :
    LET saved == disk[TokenPath(c)]
        file  == archives[DumpPath(c)]
    IN  saved # None /\ saved.hash = ConfigHash(c) =>
          /\ "Dump" \in saved.done => file.state = "full" /\ file.defs = Dumped(c, Tables)
          /\ "Restore" \in saved.done /\ ~ignored /\ writer = DumpPath(c) => Delivers(c)

(* A strict verification finds every row that a tolerated error lost: if    *)
(* the source does not commit meanwhile, success means that every table is  *)
(* there with as many rows (run_verify_stage, verify_row_counts).          *)
StrictCatchesLoss ==
  [][outcome' = "done" /\ IsStrict /\ pc = "verify" /\ listed = Now =>
       \A t \in Dumped(cfg, Tables) : target[t] # None /\ TargetCount(t) = RowsAt(t, Now)]_vars

(* A run that is cancelled before its restore is complete never records it, *)
(* nor reports success, also if it tolerates errors: every step on the way  *)
(* looks at the token (run_offline, restore, TokioCommandRunner::run).     *)
CancelNotDone ==
  [][pc # "idle" /\ cancelled \notin {"no", "saveRestore"} /\ token # None /\ "Restore" \notin token.done =>
       outcome' # "done" /\ "Restore" \notin token'.done]_vars

-----------------------------------------------------------------------------
(* What a comment says and some command lines break.                       *)

(* resume.rs: no half-built target is attached to a different table set. So *)
(* an archive that a resumed run restores without dumping has the data that *)
(* its own command line asks for.                                          *)
ResumeRestoresOwnScope ==
  pc \in {"data", "single"} /\ cfg.resume /\ cfg.dumpScope = "all" =>
    Archived.data = Dumped(cfg, Tables)

=============================================================================
