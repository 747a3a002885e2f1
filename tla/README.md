# pg_dbmigrator, specified

TLA+ models of pg_dbmigrator, a command-line tool and library that migrates a PostgreSQL
database: offline (`pg_dump`, `pg_restore`) or online (the same from a snapshot, then logical
replication until the operator cuts over). The subject of this project is what happens when a
migration does not run in one go: the process dies, a call fails, the operator interrupts, the
source keeps writing, the servers' own processes come and go, and the next run picks up with
`--resume`, without it, or with `--force-clean`.

- [1. The system](#1-the-system): components, state, operations, interactions
- [2. The modules](#2-the-modules): what models what, and how to read a model next to the code
- [3. The runs](#3-the-runs): what TLC checks, bounds, fairness
- [4. Where the code and its documentation disagree](#4-where-the-code-and-its-documentation-disagree)
- [5. The proofs](#5-the-proofs)
- [6. What is not modelled](#6-what-is-not-modelled)
- [7. Plan](#7-plan)

Source paths below are relative to `src/pg_dbmigrator/src/`, except `README.md`, which is the
repository's.

## 1. The system

| Component | State it keeps | Operations | Correct when | Modelled |
|---|---|---|---|---|
| Online pipeline, `orchestrator.rs` (`run_online`) | the token in memory, the open snapshot stream, the step reached | preflight, force-clean, load the token, vacuum, publication, slot, dump, restore, analyze, wait for the slot, apply, sequence sync, source clean-up; a save of the token after each long stage | over any sequence of runs the target is an exact prefix of the source's history; a cutover removes what it was told to | partly: the single-pass restore and the split copy are not in the online pipeline |
| Offline pipeline and verify mode, `orchestrator.rs` (`run`, `run_offline`, `run_verify_stage`) | the token, the split context | vacuum, split, dump, restore in sections or in one pass, analyze, verification; a save after each long stage | a run that reports success has delivered the tables, whatever runs were before it | yes |
| Native apply, `native_apply.rs` | the subscription on the target; in the loop: last position, count of polls without progress, poll interval | attach (create or re-enable), poll loop, health check, teardown, waiting for a slot, force-clean | it ends only for a reason, reacts to the operator, never loses the origin | yes |
| Cutover handle and lag sampler, `cutover.rs` | `requested`, a wake-up permit; the sampler's last verdict | `request`, `notified`, `observe` | no lost wake-up; the operator is told the truth | yes |
| Resume token, `resume.rs` | a JSON file next to the archive: completed stages, publication auto-created, configuration hash | load with checks, `mark`, save by writing a temporary file and renaming it | what it claims is true of the archive and of the target, for the commands that may use it | partly: the file format and the rename are one step |
| Signal handling, `bin/pg_dbmigrator/main.rs` | number of Ctrl+C seen | online: the first requests cutover, the second cancels; offline: the first cancels | a cutover is never mistaken for a cancel | yes |
| Slot and snapshot, `snapshot.rs` | the replication connection that keeps the exported snapshot alive | create the slot and export, or reuse | the dump starts exactly where the slot does | yes |
| PostgreSQL | publication, slot, subscription, origin, worker, walsender, rows, sequences | what the SQL statements of the code ask of it | (external) | as used |
| Dump and command runner, `dump.rs` | a child process, its stderr reader | run with cancellation: SIGTERM, grace period, SIGKILL; what `pg_dump` is asked for | no child outlives the run; a command that was cut short is no success | yes |
| Restore, `restore.rs` | the sections restored so far; the summary of error lines | pre-data, data, post-data; classification, report and verdict of error lines; a tolerated exit status | tolerated errors are only the benign ones, and the report counts them | yes |
| Split copy, `copy_split.rs` | page ranges, parallel connections | parse sizes, plan, check, truncate, copy, cancel | every row exactly once | yes |
| Sequence sync, `sequences.rs` | the sequences read | read, filter, batch, fall back to one by one | the target's sequences are ahead of its rows; the reported number is true | yes |
| Maintenance, `analyze.rs` | none | `VACUUM`, `ANALYZE` of the database or per table, best effort | one table's failure costs no other table its statistics | yes |
| Verification, `verify.rs` | tables to do, mismatches | select tables, count rows on both sides, compare, warn or fail | a strict verification finds every loss | yes |
| Preflight, `preflight.rs` | the report | the two bundles of checks; create the database; create a publication that is missing | passing means that nothing the migration needs is lacking; what an error advises leads to a pass | yes |
| Configuration, `config.rs` | none | parse endpoints, validate, defaults | options that contradict each other are refused | yes |
| Command line, `args.rs` | none | flags into a configuration | | yes |
| Progress reporting, `progress.rs` | none | events for stages | | only the apply loop's |
| Errors and TLS, `error.rs`, `tls.rs`, `lib.rs` | none | wording, hints, connection set-up | the hint for a missing tool is right | only the hint |
| Examples, `install.sh`, scripts, tests | | | | no |

**Interactions.** `run_online` calls the other components one after the other; nothing in the
process writes the token, the archive or the slot concurrently. Concurrency comes from outside of
that sequence: the signal handler (a task that sets a flag, then wakes the poll loop); the
source's commits; the apply worker and its walsender, which outlive the process that started them
and exit some time after they are told to; and the operator, who starts the next run. What crosses
runs is what persists: the token and the archive on disk, the publication and the slot on the
source, the subscription, its replication origin and the rows on the target. These live in three
places, no step writes two of them atomically, and everything hard about this program follows
from that.

**Hard behaviours.** A process death between an effect and the save that records it; best-effort
calls that fail and are only logged; a slot that is still held by the walsender of a dead run; a
slot that exists without its snapshot; a subscription whose origin is dropped although the slot
stays; stale tokens; a cutover request that races the loop's check; a poll that fails for ever; a
worker that dies with little left to apply. `PROJECT.json` lists each at its line under `hazards`.

## 2. The modules

| Module | Models | Stands for |
|---|---|---|
| `LogicalReplication` | PostgreSQL as the code uses it (external): WAL, publication, slot, subscription, origin, worker, walsender, rows, one sequence | the SQL commands that the code sends |
| `OnlineMigration` | `run_online` as one step per observable effect, over many runs | `orchestrator.rs`, `snapshot.rs`, `resume.rs`, `native_apply.rs` outside of the loop, parts of `dump.rs`, `restore.rs`, `sequences.rs`, `preflight.rs`, `main.rs` |
| `ScopedStream` | one online run of some of the tables: publication, dump, subscription, statistics and sequences, while tables come and go | `preflight.rs` (publication), `analyze.rs`, `sequences.rs` |
| `ApplyLoop` | the poll loop of `run_native_apply`, step by step, next to the signal handler | `native_apply.rs:353-566`, `cutover.rs`, `main.rs` |
| `ApplyPhase` | the abstract contract of the apply phase | what `OnlineMigration` and `ApplyLoop` promise |
| `OfflineMigration` | `run`, `run_offline` and the verify mode over many runs with different command lines | `orchestrator.rs`, `resume.rs`, `verify.rs`, requests of `dump.rs` and `restore.rs` |
| `Configuration` | the command line, its translation, validation, the token's hash, and which tables `pg_dump` and the verification take from it | `args.rs`, `config.rs`, `resume.rs:226-264` |
| `CommandRunner` | one external command: the waiting future, the stderr reader, the child's process group, cancellation | `dump.rs:205-385`, `restore.rs`, `main.rs` |
| `RestoreErrors` | the categories of error lines, the bounded summary, the report and its verdict | `restore.rs:44-276` |
| `Preflight` | both bundles of checks on an environment that lacks something, and the operator who follows the errors | `preflight.rs`, `error.rs` |
| `SplitCopy` | the split copy of one table over several runs: sizes, page ranges, check, `TRUNCATE`, parallel `COPY` | `copy_split.rs`, `orchestrator.rs:518-590`, `:695-724` |
| `MC...` | option sets, command lines and fault sets for TLC | |
| `OnlineMigrationProofs`, `OfflineMigrationProofs`, `ScopedStreamProofs`, `SplitCopyProofs`, `ApplyLoopProofs`, `CommandRunnerProofs`, `PreflightProofs` | theorems about the module of that name | |
| `OnlineRunsProofs` | theorems about `OnlineMigration` over runs in any order; extends `OnlineMigrationProofs` | |

`OnlineMigration` extends `LogicalReplication`; `OfflineMigration` and `ScopedStream` extend
`Configuration`, `CommandRunner` extends `RestoreErrors`. `ApplyPhase` is the joint between the two levels:
`ApplyLoop` implements it (a refinement mapping from the loop's steps), and so does
`OnlineMigration`, in which the whole loop is three actions (`ApplyCutover`, `ApplyCancel`,
`ApplyUnhealthy`). Both checks are a run's property `EndsForAReason`.

**`OnlineMigration`.** `pc` names the next step of the running process, `"idle"` when there is
none. A step is what the code does between two awaits that another actor can observe: a call with
one effect on one server is one step, and so is each `save_resume`. Reads that decide what is done
next are in the same step as the effect when the code has them in one SQL statement (`DO $$ ... $$`
blocks are atomic), otherwise the decision is a step of its own (`WaitSlot`, then
`AttachSubscription`; `WaitDrop`, then `DropSlot`).

- *Errors.* A call whose error propagates with `?` ends the process, exactly as a crash there does:
  `Crash` stands for both. `CrashPoints` says where it may happen. A call whose error is logged
  and ignored has a disjunct guarded by `Tolerated(step)`; `FaultPoints` and `MaxFaults` say where
  and how often.
- *The token.* `Save(t)` replaces the token in memory and, unless the write fails (which is only
  logged), on disk. A run without `--resume` ignores the file and starts from `Fresh`, but writes
  over it at its first save. `scope` stands for what the configuration hash tells apart.
- *Restarts.* `End` forgets the memory and the exported snapshot and keeps everything else. `Start`
  chooses any member of `Options`. An operator does not rerun a migration that has cut over.
- *Ctrl+C.* `Interrupt` counts: 1 is `CutoverHandle::is_requested`, 2 is a cancelled token. The
  steps in `Cancellable` check the token or race it; the others run on.
- *Sections that are cut short.* `pg_restore` has no `--single-transaction` here and commits table by table.
  A process that dies, is cancelled or fails in `preData` or `data` (`EndAtStep`) leaves what
  `CutPreData` and `CutData` say: some tables made, dropped or still there, the rows of some of them.
  `base` is how far the target's tables got: `"none"`, `"partial"`, `"objects"` (all, without the data section
  having come through) or `"rows"`.
- *Rows.* `copies[t]` is how often transaction `t` of the source is on the target. The dump puts
  transactions `1 .. archive.pos` there, the worker the one after `Position`, which is the origin's
  position or the slot's, whichever is further. Loading or applying what is there already makes
  it 2, and 2 is what exactness excludes.

**`LogicalReplication`.** The assumptions about PostgreSQL, each used by the code: a new slot
starts at the end of WAL and exports a snapshot of that position; a slot with a walsender cannot
be dropped; `DISABLE` stops the worker later, not at once, but a disabled subscription applies
nothing more; `DROP SUBSCRIPTION` drops the origin; the worker advances the origin in the same
transaction as the rows; feedback reaches the slot later than that.

**`ApplyLoop`.** The loop's own steps: the cancel check at its head, parking in `select!`, the
cutover check, the poll, the health query, teardown. `CutoverHandle::request` is two steps (the
flag in `Interrupt`, the wake-up in `Notify`), and `Notify::notify_one` keeps a permit when nobody
waits. Time is abstracted: whether the interval has elapsed is a choice, which also covers the two
poll intervals.

**`CommandRunner`.** `pc` is the await at which `TokioCommandRunner::run` is suspended, `reader` the
task it spawned, `alive` the living members of the child's process group. The pipe holds
`PipeSize` lines; a child writing to a full pipe blocks and one writing to a closed pipe dies. A
member in `hung` does nothing until SIGKILL, which is the case the grace period is for. The
pipeline's `CancelRun` and `Tolerated("preData")`, `Tolerated("data")` are what its two results mean
one level up.

**`RestoreErrors`.** A line is its kind, the texts that `classify_pg_restore_error` looks for (`marks`), and
whether rows were lost with it on the server (`lost`). The two are independent: a `COPY` that fails for
missing columns has none of the texts, one that is denied has the text of a role. The order of the patterns,
which decides when a line has two, is what is modelled. Of each category
`MaxSamples` lines are kept; all are counted.

**`SplitCopy`.** A page stands for the rows on it. The number of pages that is planned with and the
table in the snapshot are two choices, since nothing fixes the table between them. A `COPY` that
was asked to finish when its run ended is `late`: PostgreSQL commits or aborts it some time after,
possibly while the next run is already planning. `TRUNCATE` waits for such transactions. Numbers
have `Width` bits where the code has 64.

**`Configuration`.** Records with one field per flag, in groups, and the functions of the code as
operators: `IntoConfig`, `Valid` with its parts, `ConfigHash`. `Dumped` is what `pg_dump` makes of the
table and schema options (external: with `-t` it ignores `-n`), `Verified` what `verify.rs` does, which
takes the union. Where the two differ is up to the command line, so the modules that use them say
for which command lines their properties hold.

**`OfflineMigration`.** A commit of the source adds a row to one table; a table on the target is the
sequence of the instants of the source that were loaded into it, so that a table loaded twice, not
at all, or at another instant than its neighbour are all different from `<<at>>`. `Start` takes any
of `Commands`; validation refuses some. Each path has an archive, absent, partial or full; each token
path a token. A failing call (`FaultPoints`), a cancellation and a death leave a part of what the
step does; `pg_dump` and `pg_restore` are steps that begin, do some of their work and end.

**`Preflight`.** The environment is a set of conditions that are `lacking`, and the majors of servers and
client tools. A check is a sequence of sets of needs: the members of a set are probed concurrently
(`try_join!`), so any unmet one of them may be the error. A check may skip, fail, repair (it creates
the database) or pass. `Repair` is the operator who does what the error says, and nothing else: what
the `Advice` of each error provides is read off the error's text.

**`ScopedStream`.** One run, without crashes (those are `OnlineMigration`'s), with the sets that each
stage works on: the tables found for the publication (`listed`, `known`), the publication's rule, the
snapshot's tables, the subscription's tables, tables with statistics, sequences set. The source inserts
and creates or drops tables at any moment up to the sequence sync. A table's sequence counts its
inserts.

Operators marked `slip` next to an action are plausible mistakes in the code the action models;
each shows that the property it is paired with under `mutants` in `PROJECT.json` can fail.

## 3. The runs

Passing runs:

| Run | Property | Question it answers |
|---|---|---|
| `resume` | `ExactPrefix` | Is no transaction ever on the target twice, and is the target, once a restore is through, transactions `1 .. p` of the source, over crashes, resumes and a live source? |
| | `StreamAfterRestore` | Does the worker only ever run against a restore that is recorded on disk, so that no later run restores over streamed rows? |
| | `SequencesCovered` | After a cutover, is the target's sequence past every replicated row? |
| | `ResumeFindsSlot` | Does no resumed run attach to a slot that is gone? |
| | `ResumeInv` | Does the invariant of the proofs hold? |
| | `CutoverCompletes` | Once cutover is requested, at whatever step, does the run end? |
| | `CatchesUp` | Does a run that streams catch up with the source, or leave? |
| `mixed` | `DiskTokenTruthful` | With `--resume`, without it, with `--force-clean` and with another scope, ended anywhere: does the token on disk claim only what is there? |
| | `CutoverCleansUp` | Does a cutover without ignored errors leave no slot that retains WAL and no subscription that streams? |
| | `OperatorPublicationKept` | Does no sequence of runs drop a publication the operator made? |
| | `EndsForAReason` | Does the pipeline keep the contract `ApplyPhase`? |
| `apply_loop` | `WakesAtOnce` | Is no cutover request slept through, however it races the check of the flag? |
| | `OperatorToldTruth` | Is what the events told last what was measured last? |
| | `EndsForAReason` | Does the loop keep the contract `ApplyPhase`? |
| | `CutoverReturns` | Does the loop return after a request, although every poll may fail? |
| | `DeadWorkerNoticed` | Is a worker that stays dead noticed, even with less to apply than the threshold, if polls succeed time and again? |
| `command_runner` | `CancelNotSwallowed` | Is a command that was signalled always reported as cancelled, though errors are tolerated? |
| | `NoOrphan` | Is nothing of the child left when the call returns? |
| | `ReportExact` | Is the report made of every line the child wrote, whichever of child and reader ends first? |
| | `LossTextsFlagged` | Is a restore that wrote a line with a text of data loss never reported as safe, whatever else the lines say? (What was lost without such a text: `safe_verdict`.) |
| | `CancelReturns` | Does a cancelled call return although the leader hangs? |
| | `RunReturns` | Does a call nobody cancels return although the pipe is smaller than what is written to it? |
| `split_copy` | `PlanExact`, `TypeOK` | Do at most `split_max_parts` ranges cover the table of the snapshot, each page once, whatever the table was when it was measured? |
| | `CopyExact` | Does a copy that succeeds have every row once, though an earlier run left parts, or leaves them late? |
| | `ForeignKept` | Are rows that no run put there lost only with `--drop-target-first`? |
| `offline` | `DeliveredWhenDone`, `TypeOK` | Does a run that reports success have its tables on the target, each once and all from one instant, whatever failed, died or was skipped before? |
| | `DiskTokenTruthful` | Is no token on disk ahead of the archive or the target, for any command that it would be accepted for? |
| | `StrictCatchesLoss` | If the source does not commit after the tables were listed, does a strict verification find every row that a tolerated error lost? |
| | `CancelNotDone` | Is a run cancelled before its restore is complete neither recorded nor reported as done? |
| `preflight` | `PassMeansReady` | After checks that pass, is nothing lacking that the dump, the restore or the stream needs? |
| | `NoMissingDatabase` | Does no check connect to a target database that does not exist yet? |
| | `CreatedAfterChecks` | Is the database created only when tools, versions and target were right? |
| | `NamedMajorFits` | Does installing the major that an error names end the version errors? |
| | `AdviceLeadsToPass` | Does an operator who does what each error says get through, or can two errors send them in a circle? |
| `scope` | `OnlyNewTablesStop` | Does no table that was there at the snapshot stop the subscription? |
| | `CopiedTablesStream` | Is no insert into a copied table lost on the way, before or after the slot? |
| | `TablesComplete` | Has every copied table statistics and a sequence ahead of its rows, whatever failed for another? |
| | `CountTruthful` | Is the reported number of sequences the number that were set, also when a batch took effect and its count was lost? |

The type invariants of `OnlineMigration`, `ApplyLoop`, `CommandRunner`, `Preflight` and `ScopedStream` are
not in a run: they are proved (section 5).

**Bounds.** `resume`: two transactions, three process starts, one ignored
error. Two transactions are enough for a gap and for a duplicate next to a row that is right; the
third start is the one that resumes a run that had itself resumed (the second run can die with the
effects of the first still there). Its runs may also be cancelled in the middle of the data section; more of
any of these is covered by the proof. Its options keep the
subscription or drop it, and clean before restoring or do not. `mixed`: one transaction, three starts
and two scopes, as its properties are about files, slot and subscription and not about rows; three
starts are a run, one with other options after it, and a resumed one. `apply_loop`: WAL positions
`0 .. 3` with threshold 1, so that a lag of 0, one within and one above the threshold occur, and
transitions between them in any order; the health check after three stale polls is reached.
`command_runner`: three lines through a pipe of one, so that the child blocks, blocks again and is
killed with lines unwritten; lines with two texts of which the order of the patterns decides, with one
and with none, rows lost or not; one sample per category, so that the second is dropped; one worker stands for all,
since they differ in nothing the code looks at; the leader may hang, the worker not (section 4, the
group). `split_copy`: up to five pages and three parts, with and without a remainder, with more parts
than pages, with a table that shrank to nothing; a threshold that is reached and one that is not; two
runs, as every run starts by clearing. `offline`: two tables in two schemas (which is enough for one
table in the archive and one copied directly, or one selected and one not), three runs of six command
lines, two commits (one between any two reads), one failing call, a death at each step that leaves
something behind. `preflight`: two problems at a time (an error may hide another), one outage during the
checks, servers of majors 15 and 16 (the predefined role exists from 16 on), client tools missing, too
old and right. `scope`: three tables in two schemas, of which two always exist and the third may be
created or dropped; one table that the role may not change; seven scopes: all, by inclusion, by
exclusion, both; two inserts, which make a table copied with a row and one behind the slot.
`CHECK_DEADLOCK FALSE` everywhere, because the system may stop: the starts are used up, or the
migration cut over; the loop or the call returned; the copy is complete; the checks passed; the run
is done.

**What the passing runs assume.** `resume` assumes the
definition `ResumeProcedure` (TLC evaluates it as an `ASSUME` of `MCResume`): every run has
`--resume`, none has `--force-clean`, no save of `Dump` or `Restore` fails, `--allow-restore-errors`
is not taken up by a `pg_restore` that did only part of its section (what a tolerated death of it
amounts to, see `tolerated_kill`), and no run dies or is cancelled in a *fatal window*:

1. between creating the slot and saving `Dump` (`DumpWindow`): the resumed run finds the slot,
   gets no snapshot and dumps the source as it is by then;
2. from the first row loaded, which is within the data section, to saving `Restore` (`RestoreWindow`), if some
   option set tolerates restore errors without `--clean`: the resumed run loads the committed tables again.
   Otherwise a death there is allowed, and covered: the next run drops what is there, or its pre-data
   section fails on it before it loads anything;
3. after a cutover dropped the subscription, and with it the origin, if some option set has it
   dropped (`CutoverWindow`): the resumed run creates a subscription that starts from the slot's
   confirmed position, and may replay.

These are not assumptions the code establishes; they are the precise price of the guarantee, and
each is needed: TLC violates `ExactPrefix` when one is lifted. An operator who dies in one of them
has to start over with `--force-clean` and an empty target. `ResumeFindsSlot` needs less, `SlotKept`:
no run starts with `--force-clean`, and none that drops the slot dies between that and its end.

`mixed` assumes none of this: it crashes and cancels at every step, and lets every best-effort call
fail but one. `SavesBeforeDump` says that the save between creating the slot and the dump succeeds:
when it fails (which is only logged), a run without `--resume` replaces the archive while the token
of an earlier run, of another scope, still claims it, and `DiskTokenTruthful` is false.

`offline` assumes `OfflineProcedure` (an `ASSUME` of `MCOffline`): commands that would accept each other's
token ask for the same archive (`SameScope`; the hash alone does not see to it, `resume_scope`);
a command that shares the dump path of one that resumes shares its token path too, or it replaces
the archive and leaves the other's token on disk (`OneToken`); where
any command resumes, one that does not saves its own token, after the vacuum, before it replaces the
archive (`SavesFirst`); and data is not restored alone, as nothing stops a second load of it. The
properties about the target are about the run that changed it last (`writer`), and leave out tolerated
errors (`ignored`), for which `StrictCatchesLoss` is there. That one is about a source that has not committed since
the verification listed the tables (`listed = Now`), as counts of a writing source differ in any case, and it assumes `VerifiesDumped`: no
`--table` is of an `--exclude-schema`; with one it is false (section 4, scope). `CancelNotDone` assumes
nothing.

`scope` assumes `ScopesAgree` about the options (an `ASSUME` of `MCScopedStream`): not tables and schemas together, no excluded table
of an included schema, no included table of an excluded schema, and something left to select. With any
of the first three the publication and `pg_dump` disagree about a table (section 4). The code accepts such
command lines, and for them the properties are false.

`preflight` assumes no more than its bounds; what the operator does is `Advice`.

**Fairness.** `OnlineMigration!FairSpec`: weak fairness of the process's steps, as nothing in the
code waits without bound except the poll loop (waits for the slot give up after 30 s, child
processes are assumed to end). In the loop, an end is owed only to a request (and then not by the
luck of a failing health query) or to a worker that is stopped with WAL left; the loop has no other
reason to end. `CatchesUp` asks only of a slot that exists, as nothing can stream from one that does
not (`slot_gone`). Weak fairness for the
launcher, for the exit of a disabled worker and of a walsender without peer, as PostgreSQL restarts
and reaps these. Strong fairness for the worker's applying, since it may lose its connection
again and again. None for commits, for the operator, for crashes. `ApplyLoop!FairSpec`: weak
fairness of the loop and of the handler's second half (both are runnable tasks; the sleep ends), and
nothing of polls: each may fail. That polls succeed time and again is a premise of
`DeadWorkerNoticed` only. `CommandRunner!FairSpec`: weak fairness of the future and of the reader
(tasks; the grace period is a timer), of the child's own steps unless it hangs, and of obeying a
signal: SIGKILL always, SIGTERM unless it hangs. `Preflight!FairSpec`: weak fairness of the checks, and
of the operator's repair and rerun, since the question is where following the advice leads.
`split_copy`, `offline`, `mixed` and `scope` have no liveness property.

## 4. Where the code and its documentation disagree

Each is a run that TLC refutes with a trace through the code as it is; `PROJECT.json` quotes the
lines.

| Run | Documented | What the code does |
|---|---|---|
| `unaligned_dump` | `README.md:22`: the online dump is snapshot-consistent | A run that died between creating the slot and saving `Dump` is resumed: `prepare_replication_slot` reuses the slot and exports nothing, `pg_dump` runs without `--snapshot`, and the transactions in between are dumped and then streamed. |
| `tolerated_kill` | `restore.rs:389`: any failure but exit 1 (spawn error, signal kill) still aborts | `is_restore_partial_failure` matches every failure of the command `pg_restore`; with `--allow-restore-errors` a `pg_restore` that was killed, or never started, is a finished section. |
| `resume_scope` | `resume.rs:72`: a token of another table set is refused | `config_hash` leaves out the split, the dump scope and the exclusions. A split run that dies in its restore can only be resumed without the split (`config.rs:317`): its token is accepted, the dump is skipped, and the rows of the split tables never reach the target. |
| `safe_verdict` | `restore.rs:50`: a `COPY` failure is `DataLoss` and must be reviewed; `:199`: "likely safe - privilege/extension/duplicate only" | The verdict only asks whether there was a `DataLoss` line, and such a line is recognised by nine texts (`:111`). `COPY failed for table "t": ERROR: missing data for column` has none of them and is `Other`, a `COPY` that is denied is `Privilege`: both restores lost rows and are called likely safe. |

Further observations. No run asserts them, because a look at the line shows as much as a trace, or
because the documentation promises too little to contradict. They were met while modelling, and the
models behave as described.

*Resuming and the token*

- `resume.rs:23` says that slot existence is validated before a resume is honoured; there is no such
  check, `wait_for_slot_inactive` returns `Ok` for a slot that does not exist.
- `README.md:301` says that an auto-created publication is dropped after the cutover; one whose run died
  before the token recorded it is taken for the operator's.
- A loop that ends before its first successful poll has position 0, and `run_online` saves it over the
  position of an earlier run (`orchestrator.rs:403`); nothing reads it back.
- `--force-clean` without `--resume` leaves the token of an earlier run on disk until its own first
  save. Offline, a run without `--resume` that skips the vacuum overwrites the archive before its first
  save (`orchestrator.rs:168`), so that a token of an earlier run vouches for an archive that is half
  written; hence `SavesFirst`.
- Commands that share a `--resume-file` with different dump paths accept each other's token; and a
  command with a `--resume-file` of its own replaces the archive under the token of another with the
  same dump path (found by the proof of `DiskTokenTruthful`, whose invariant was not inductive
  without `OneToken`).
- A `--data-only` run that dies after its load and is resumed loads twice.
- With `--jobs` above 1 the archive is a directory; what a dead `pg_dump` left of it makes the resumed
  one fail, since `pg_dump` does not write into a directory that is not empty.

*Scope*

- An excluded table of an included schema is published all the same (`TABLES IN SCHEMA`), and stops the
  subscription, since the target does not have it.
- `--table s.x --exclude-schema s`: `pg_dump` takes the table, the publication does not; its rows after
  the slot are lost.
- Exclusions that leave no table make the publication one `FOR ALL TABLES`.
- A table created between `fetch_published_tables` and the slot is dumped and not published.
- With `--table` and `--schema` together `pg_dump` ignores the schemas, and the sequence filter and the
  verification do not (`config.rs:506` speaks of every user sequence).
- `verify.rs:85` calls the union of tables and schemas what `pg_dump` does, which ignores schemas given `-t`.
- `README.md:264` says that the verification honours the scope options, so that it is about what was
  migrated. With `--table s.t --exclude-schema s` `pg_dump` takes the table, as `-t` overrides its schema
  switches, and `select_tables_to_verify` applies the exclusion last and leaves it out (`verify.rs:119`): a
  row that a tolerated restore error loses from it passes `--verify strict`. `VerifiesDumped` excludes it.
- A qualified name with two dots is split at the first in one place and at the last in another.
- `setval` may move a sequence of the target backwards, when the sync runs again.

*Commands and restores*

- `dump.rs:225` says that the whole group gets SIGTERM, then SIGKILL after a grace window. When the leader
  exits within the window nothing is sent any more; a worker that ignores SIGTERM lives on, and the
  drain of the pipe it holds waits for it without a limit.
- A line on standard error that is not UTF-8 ends the reader and closes the pipe (`dump.rs:294`): the
  child's next line kills it, and its workers may outlive the call. `NoOrphan` excludes this case by
  name (`garbled`); `OkMeansDone` and `CancelNotSwallowed` hold in it.
- `copy_split.rs:426` says that a size that overflows 64 bits is an error. `checked_shl` checks the
  number of bits, not the value: `16777217T` is taken for 1 TiB, and a size of 2^63 bytes or more is
  negative where it is compared and selects every table. `SplitCopy` has this arithmetic, and its
  properties hold for whatever is selected.

*Apply and cutover*

- Every heartbeat with a lag of 0 is reported as `CaughtUp` (`native_apply.rs:613`), which
  `README.md:48` calls a one-shot event.
- After a cutover the loop disables the subscription and returns (`native_apply.rs:441`); the slot's
  confirmed position may stay behind what was applied, while `cutover.rs:12` and `README.md:326`
  speak of a last feedback that is flushed first.
- `--force-clean` drops the slot right after the subscription without waiting for the walsender, so
  the drop can fail (logged) and the slot be reused.
- `--max-runtime-seconds` (`README.md:281`, `config.rs:588`) is stored and read nowhere.

*Preflight and options*

- A comment (`preflight.rs:135`) says that the check for a standby works without the maintenance
  database; `ensure_target_database_exists` connects to it in any case.
- The hint for a missing tool says that it names the source's major (`error.rs:42`) and names the
  larger of the two, which `NamedMajorFits` shows to be the right one.
- `max_replication_slots > 0`, which is what is checked, does not mean that a slot is free.
- `--mode online --schema-only` is accepted.

## 5. The proofs

Checked by TLAPS for every value of the constants that the named assumptions admit.

| Theorem | Under | States |
|---|---|---|
| `OnlineMigrationProofs!TypeCorrect` | | `[](TypeOK /\ TokenHeld)`: types, and that a process past loading holds a token (without that, a save could write "no token") |
| `OnlineMigrationProofs!ResumeInvariant` | `ResumeProcedure` | `[]ResumeInv` |
| `OnlineMigrationProofs!Exactness` | `ResumeProcedure` | `[]ExactPrefix` |
| `OnlineMigrationProofs!StreamsAfterRestore` | `ResumeProcedure` | `[]StreamAfterRestore` |
| `OnlineRunsProofs!KeepsOperatorPublication` | | `OperatorPublicationKept` |
| `OnlineRunsProofs!RunsImplementPhase` | | `EndsForAReason`: the pipeline implements `ApplyPhase` |
| `OnlineRunsProofs!CoversSequences`, `CleansUpAfterCutover` | | `[]SequencesCovered`, `[]CutoverCleansUp` |
| `OnlineRunsProofs!TokenTellsTruth` | `SavesBeforeDump` | `[]DiskTokenTruthful` |
| `OnlineRunsProofs!FindsSlot` | `SlotKept` | `[]ResumeFindsSlot` |
| `OfflineMigrationProofs!TypeCorrect` | | `[](TypeOK /\ RunInv)` |
| `OfflineMigrationProofs!CancelsTruly` | | `CancelNotDone` |
| `OfflineMigrationProofs!CatchesLoss` | `VerifiesDumped` | `StrictCatchesLoss` |
| `OfflineMigrationProofs!DeliversAll` | `OfflineProcedure` | `[]DeliveredWhenDone` |
| `OfflineMigrationProofs!TokenTellsTruth` | `OfflineProcedure` | `[]DiskTokenTruthful` |
| `SplitCopyProofs!TypeCorrect` | | `[](TypeOK /\ PartsInv)` |
| `SplitCopyProofs!PlansExactly` | | `[]PlanExact` |
| `SplitCopyProofs!CopiesExactly`, `KeepsForeignRows` | | `[]CopyExact`, `ForeignKept` |
| `ScopedStreamProofs!NothingLost`, `OnlyNewStop` | `ScopesAgree` | `[]CopiedTablesStream`, `[]OnlyNewTablesStop` |
| `ScopedStreamProofs!Complete`, `CountIsTruthful` | `ScopesAgree` | `[]TablesComplete`, `[]CountTruthful` |
| `ApplyLoopProofs!NotSleptThrough`, `ToldTruth` | | `[]WakesAtOnce`, `[]OperatorToldTruth` |
| `ApplyLoopProofs!LoopImplementsPhase` | | `EndsForAReason`: the loop implements `ApplyPhase` |
| `CommandRunnerProofs!SignalNotSwallowed`, `SuccessIsDone` | | `[]CancelNotSwallowed`, `[]OkMeansDone` |
| `CommandRunnerProofs!NoneLeft` | | `[]NoOrphan` |
| `CommandRunnerProofs!ReportCountsAll`, `LossTextsAreFlagged` | | `[]ReportExact`, `[]LossTextsFlagged` |
| `PreflightProofs!PassingIsReady`, `DatabaseBeforeUse` | | `[]PassMeansReady`, `[]NoMissingDatabase` |
| `PreflightProofs!CreatedLate`, `SkipsAreMissing`, `OneInstallFits` | | `CreatedAfterChecks`, `SkipsOnlyMissing`, `NamedMajorFits` |
| `ScopedStreamProofs!TypeCorrect` | `ScopesAgree` | `[]TypeOK` |
| `TypeCorrect` of `ApplyLoopProofs`, `CommandRunnerProofs`, `PreflightProofs` | | `[]TypeOK` |

An empty second column means: for all values that the `ASSUME`s of the modules admit, and these only
give the constants their types. The definitions in it are those that section 3 explains. They are
hypotheses of the theorems and `ASSUME`s of the runs, so that TLC shows states that meet
them; TLC refutes the property on an instance without them.

**`OnlineMigrationProofs`**, for every `MaxWal`, `MaxRuns`, `MaxFaults`, every set of
options and every choice of crash, fault and cancel points, from the assumptions
`MaxWalAssumption`, `OptionsAssumption`, `BoundsAssumption` (the bounds are numbers, the options
records of `OptionSet`) and `AbsentAssumption` (the two values for "none" are none of the values
they stand in for).

That the rows are an exact prefix says nothing about the
next row: the worker applies the transaction after `Position`, so what has to be preserved is that
the rows end exactly *there*, and `Position` depends on the slot and on the origin, which other
steps change. `ResumeInv` splits the migration by what is saved on disk:

- *not dumped* (`NotDumpedInv`): the target is empty, and a slot exists only inside the dump window,
  with the snapshot this process holds at the slot's position;
- *dumped* (`DumpedInv`): the slot exists, the archive is at its confirmed position, and rows, if any,
  are rows of the archive, each there once: all of them after the data section, some of them where one was cut
  short, and none where no later run would clean them away first. When the data section starts there are
  none;
- *restored* (`RestoredInv`): as long as the slot and the subscription are there, the rows are exact up to
  `Position`; after a cutover that dropped them, up to some position.

`StagesSaved` ties the token in memory, the one on disk and the step together (no step runs with a
stage claimed that the disk does not claim too), and `ReplicationInv` keeps `origin` and
`confirmed` within the WAL and makes a running worker imply its walsender and a recorded restore.
The proof is one case per action; `SaveKeepsStages` and `SaveOnDisk` are the two facts about saves (a
save that may fail must not be one of the two that matter), `EndAtStepKeeps` the one about sections that are cut
short, `ApplyExtends` the one about the worker.
Crashes of a run that keeps its subscription after the cutover began are covered by the proof only:
the run's options drop it in one of the sets, which makes that window fatal for all.

**`OnlineRunsProofs`**, with the same assumptions about constants, but no `ResumeProcedure`: any options in
any order, `--force-clean` and a change of scope among them, and an end at any step.
`PublicationInv`: while the operator's publication is there, no token, in memory or on disk, says
that a run made it. `CutoverInv` says for each step of the cutover what those before it left, as long as
no error was ignored (`faults = 0`), and needs `RowsCommitted`: nothing on the target is ahead of the source,
or a sequence that was read would not be past it. `TokenInv` is about both tokens at once: before a run
touches the archive or the target again, its own token has replaced the one on disk or is that one.
`SlotInv`: while a token has the dump, its slot is there until a cutover is over.
`RunsImplementPhase` maps each step to a step of `ApplyPhase` or a stutter; everything outside of the loop
is one step of the abstraction (`StepsOutside`), which is why it says nothing of the steps before it.

**`OfflineMigrationProofs`**, for every set of tables, every set of command lines but online ones, all
bounds and all crash and fault points, from `ConfigurationAssumption` and `OfflineAssumption`.
`CatchesLoss` rests on `CountInv`: what was compared since the source's last
commit, and not found bad, has equal counts. `RowsNat` gives the counts their meaning, as `Cardinality`
says nothing of an infinite set. What is delivered and what the tokens claim is one
invariant, `DeliverInv`, since a run believes the token that another left. For each command line that
writes, it says what holds while that one runs (`RunPart`) and, always, of the token that it
would accept (`DiskInv`). `RunPart` follows the run: `SplitInv` (when there is a split and of which instant),
`OwnToken` (from its first save on the token on disk is its own and claims no more than the one in memory),
`TokenInv` (a stage in the token is there), `RestoreInv` (what each section leaves for the next).
The hard steps are those that change what *another* command line's token is about: overwriting the
archive (needs `OneToken` and `SavesFirst`), and restoring into the target (needs `writer`). `OneToken` was
added because this case had no proof; TLC then showed a run of `SameScope` commands with two token files
that violates `DiskTokenTruthful`.

**`SplitCopyProofs`**, for every width of the integers, every number of pages, parts and runs.
`SplitPagesShape` says in closed form what the recursion of `split_pages` computes:
`min(pages, max)` ranges of `Step` pages, the last one open. That is an induction over the ranges, made
from the back as a search for a least counterexample (`LeastNat`); `RangesDef` and `RangesUnique` show that
the recursive function exists and is the only one. `EvenPartsPartition` names the range of a page
(`p \div step`, or the last), so every page is in exactly one. `CopyInv` ties the rows to the
workers: a page is there once iff the worker of its range has committed, and nothing is left
late. `LooksFirst` (between the check and the `TRUNCATE` no foreign row is there that nobody gave up)
gives `KeepsForeignRows`.

**`ScopedStreamProofs`**, for every finite set of tables, every set of scopes in which the publication and `pg_dump` agree (`ScopesAgree`), every
number of inserts and of tables that come and go. The argument has a constant half and an inductive
one. Constant: `DumpedArePublished` (a table that `pg_dump` takes from the tables known when the
publication was made is published) and `PublishedAreDumped` (a published table of the snapshot is
dumped), which is where each conjunct of `ScopesAgree` is used. Inductive: `StreamInv` counts. For
a copied table, rows on the target plus inserts behind it in the WAL (`Pending`) are at most the rows of
the source, and equal to them while the table is one that streams; `PendingAppend` and `PendingTake`
say how a commit and the worker move that count. Even the type of `target` needs it: nothing else
keeps a row from being added beyond `MaxWrites`. `StatisticsInv` and `SyncInv` say which tables a loop
has dealt with: those not in `todo` are analyzed, or set and counted once.

**`ApplyLoopProofs`**, from `LoopAssumption` (bounds are numbers). `WakesAtOnce` is inductive with
`PermitKept`: a request whose wake-up was sent leaves a permit until the loop wakes on it, and a loop
that woke on it ends before it parks again.
`LoopImplementsPhase` maps each step to a step of `ApplyPhase` or a stutter.

**`CommandRunnerProofs`**, for every set of lines, pipe size and number of samples. `SignalledIsCancelled`
(a signal is sent only because of a cancellation) gives `CancelNotSwallowed`; `Waited` (what the future
has awaited is over) gives `NoOrphan` and `OkMeansDone`; `ReadExactly` (the summary is that of the lines
that left the pipe) with `ReportedLast` gives `ReportExact`, and `FailureReported` `LossTextsFlagged`.

**`PreflightProofs`**, for all majors and bounds. `Recorded` says that what the checks in the report
looked for still holds, reachability excepted; `PassMeansReady` follows at
the end of the list, `NoMissingDatabase` and `CreatedAfterChecks` from the order of the checks.

**Model-checked only.** The liveness properties, since fairness and `ENABLED` are out of TLAPS's reach here:
`CutoverCompletes`, `CatchesUp`, `CutoverReturns`, `DeadWorkerNoticed`, `CancelReturns`, `RunReturns` and
`AdviceLeadsToPass`. Every safety and action property of a passing run is a theorem.

On induction: the library's theorems for it take an operator as a parameter, which no installed prover
instantiates. The existence of a least element (`WFMin` with `NatLessThanWellFounded`, which take a set) gives the
same by contradiction, and `SplitCopyProofs` does it so; a fact about a fold over a sequence
(`RestoreErrors!Ingest`) is stated step by step instead, as an invariant.

## 6. What is not modelled

- *The split copy inside `OnlineMigration`*: it is refused with `--resume`, the subject of that module;
  it is in `OfflineMigration`. *Single-pass restore* online: the sections collapse to one step; it too is
  in `OfflineMigration`.
- *The token's file format, schema version, and write-and-rename*: one step. Two processes that share the
  temporary name (`resume.rs:190`) are two migrations at a time.
- *Two migrations at a time* on the same archive or slot: the code does not guard against it and
  does not claim to.
- *Statistics' contents, progress text, TLS, connection strings, SQL text, clap's own parsing*: no state
  the migration depends on. `last_applied_lsn` is written into the token and read by nobody.
- *Durations*: waits either end or give up. A consequence: whether three fast polls
  (`native_apply.rs:475`) are too few for a worker that is about to restart is not a question these models
  can be asked; nor is how long the wait for a slot should be.
- *Children that outlive the process*: a crash takes the running `pg_dump` or `pg_restore` along. One that goes
  on after its tool was killed by SIGKILL, next to the resumed run, is not modelled.
- *Crashes in `ScopedStream`*: `OnlineMigration` has them, with one object; the product of both is out of
  TLC's reach.
- `run_psql_file`, which no pipeline calls; partition children in lists of tables.
- Examples, `install.sh`, scripts and tests: read as documentation.

## 7. Plan

Done, in this order: `LogicalReplication`, `OnlineMigration`, its runs and proofs; `ApplyPhase` and
`ApplyLoop`; `CommandRunner`; `SplitCopy`; `Configuration` and `OfflineMigration`; `Preflight` and its
proofs; `RestoreErrors`; `ScopedStream`; the proofs about the loop, the runner and the scope; the proofs
about online runs in any order, the split copy and the offline pipeline.

What is left, by importance:

1. An abstract specification of the whole migration (a target that only ever grows by the source's next
   transactions), implemented by `OnlineMigration` under `ResumeProcedure`; its refinement as a theorem from
   `ResumeInv`.
2. `ExactPrefix` for a `ResumeProcedure` that is weaker per option set: the fatal windows of one run
   depend on the options of the next.
3. `ResumeFile`: the token's file, a write to a temporary name and a rename, a crash in between, the schema
   version; that a reader never sees half a token.
4. The planned number of parts as a theorem of its own: no range holds more than twice the pages of
   another (`split_pages` folds the remainder into the last one).
