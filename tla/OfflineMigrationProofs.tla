----------------------- MODULE OfflineMigrationProofs -----------------------
(***************************************************************************)
(* Proofs about OfflineMigration, for every set of command lines, every    *)
(* bound and every set of crash and fault points: types, the cancellation  *)
(* and the strict verification without further assumptions; what a run     *)
(* delivers and what its saved token claims under OfflineProcedure.        *)
(***************************************************************************)
EXTENDS OfflineMigration, FiniteSetTheorems, TLAPS

-----------------------------------------------------------------------------
(* Command lines.                                                          *)

(* The parts of a configuration that the steps branch on. *)
LEMMA ConfigType ==
  ASSUME NEW c \in Configs
  PROVE  /\ c.mode \in {"offline", "verify"}
         /\ c.dumpScope \in DumpScopes
         /\ c.jobs \in Nat
         /\ DumpPath(c) \in Paths /\ TokenPath(c) \in TokenPaths
         /\ ConfigHash(c) \in {ConfigHash(IntoConfig(cli)) : cli \in Commands}
<1>1. PICK cli \in Commands : c = IntoConfig(cli)
  BY DEF Configs
<1>2. cli \in Cli /\ cli.connect.mode # "online"
  BY OfflineAssumption
<1>3. cli.connect.mode \in Modes /\ cli.scope.dumpScope \in DumpScopes /\ cli.scope.jobs \in Nat
  BY <1>2 DEF Cli, ConnectArgs, ScopeArgs
<1>4. /\ c.mode = cli.connect.mode
      /\ c.dumpScope = cli.scope.dumpScope
      /\ c.jobs = cli.scope.jobs
  BY <1>1 DEF IntoConfig
<1>5. DumpPath(c) \in Paths
  BY <1>1 DEF Paths
<1>6. TokenPath(c) \in TokenPaths
  BY <1>1 DEF TokenPaths
<1>7. ConfigHash(c) \in {ConfigHash(IntoConfig(d)) : d \in Commands}
  BY <1>1
<1> QED
  BY <1>2, <1>3, <1>4, <1>5, <1>6, <1>7 DEF Modes

(* What pg_dump and the verification take are tables of the source. *)
LEMMA SelectTables ==
  ASSUME NEW c
  PROVE  Dumped(c, Tables) \subseteq Tables /\ Verified(c, Tables) \subseteq Tables
BY DEF Dumped, Verified, FilterByExclusions

(* The verification looks at every table that pg_dump takes, unless one is *)
(* named whose schema is excluded.                                         *)
LEMMA DumpedVerified ==
  ASSUME VerifiesDumped, NEW c \in Configs
  PROVE  Dumped(c, Tables) \subseteq Verified(c, Tables)
BY DEF VerifiesDumped, Dumped, Verified, FilterByExclusions

-----------------------------------------------------------------------------
(* Types.                                                                  *)

(* A run past the load, but not one that only verifies. *)
InRun == pc \notin {"idle", "preflight", "load"} /\ cfg.mode = "offline"

(* What TypeOK needs to be inductive: a running command is one that was    *)
(* accepted, and it holds a token from the load on.                        *)
RunInv ==
  /\ target \in [Tables -> Seq(Instants) \cup {None}]
  /\ pc # "idle" \/ outcome = "done" => cfg \in Configs /\ Valid(cfg)
  /\ pc # "idle" => outcome = "none"
  /\ pc \notin {"idle", "list", "verify"} => cfg.mode = "offline"
  /\ pc # "idle" => IF InRun THEN token \in Token ELSE token = None

(* A stage's mark keeps the token well-formed, and its hash. *)
LEMMA MarkedType ==
  ASSUME token \in Token, NEW stage \in {"SourceVacuum", "Dump", "Restore", "Analyze"}
  PROVE  /\ Marked(stage) \in Token
         /\ Marked(stage).hash = token.hash
         /\ Marked(stage).done = token.done \cup {stage}
BY DEF Marked, Token

(* Marking and saving keeps types, whether or not the file is written. *)
LEMMA SaveType ==
  ASSUME TypeOK, token \in Token, cfg \in Configs,
         NEW stage \in {"SourceVacuum", "Dump", "Restore", "Analyze"}, MarkAndSave(stage)
  PROVE  /\ token' \in Token
         /\ disk' \in [TokenPaths -> Token \cup {None}]
         /\ faults' \in 0 .. MaxFaults
<1>1. Marked(stage) \in Token
  BY MarkedType
<1> QED
  BY <1>1, ConfigType, OfflineAssumption DEF MarkAndSave, TypeOK, Fault

(* The tables of the target after a section stay sequences of instants. *)
LEMMA RestoredType ==
  ASSUME TypeOK, RunInv, pc # "idle", NEW section \in Sections, NEW rows
  PROVE  Restored(section, rows) \in [Tables -> Seq(Instants) \cup {None}]
<1>1. Archived.at \in Instants
  BY ConfigType DEF RunInv, TypeOK, Archived, Path, Archive
<1>2. Created \in [Tables -> Seq(Instants) \cup {None}]
  BY DEF Created, RunInv
<1>3. ASSUME NEW tables \in [Tables -> Seq(Instants) \cup {None}]
      PROVE  Loaded(tables, rows) \in [Tables -> Seq(Instants) \cup {None}]
  BY <1>1, <1>3 DEF Loaded
<1> QED
  BY <1>2, <1>3 DEF Restored, Sections, RunInv

(* The dump's archive has the type of one. *)
LEMMA DumpRequestType ==
  ASSUME TypeOK, cfg \in Configs
  PROVE  DumpRequest \in Archive
<1>1. Now \in Instants
  BY OfflineAssumption DEF TypeOK, Now, Instants
<1>2. split.at \in Instants
  BY DEF TypeOK
<1>3. (cfg.jobs > 1) \in BOOLEAN
  OBVIOUS
<1> DEFINE at == IF split = NoSplit THEN Now ELSE split.at
           defs == IF cfg.dumpScope = "data-only" THEN {} ELSE Dumped(cfg, Tables)
           data == IF cfg.dumpScope = "schema-only" THEN {} ELSE Dumped(cfg, Tables) \ split.plan
<1>4. at \in Instants /\ defs \in SUBSET Tables /\ data \in SUBSET Tables
  BY <1>1, <1>2, SelectTables
<1>5. DumpRequest = [state |-> "full", dir |-> cfg.jobs > 1, at |-> at, defs |-> defs, data |-> data]
  BY DEF DumpRequest
<1> HIDE DEF at, defs, data
<1> QED
  BY <1>3, <1>4, <1>5 DEF Archive

(* Every step keeps the types.                                             *)
LEMMA TypeNext ==
  ASSUME TypeOK, RunInv, [Next]_vars
  PROVE  TypeOK' /\ RunInv'
<1> USE OfflineAssumption, ConfigType
    DEF RunInv, TypeOK, InRun, Steps, processVars, fileVars, targetVars, countVars, End, Goto,
        Fault, Unfinished, Now
<1>1. CASE Start
  <2>0. /\ archives' = [archives EXCEPT !["temporary"] = NoArchive]
        /\ disk' = [disk EXCEPT !["temporary"] = None]
    BY <1>1 DEF Start
  <2>a. NoArchive \in Archive
    BY DEF NoArchive, Archive, Instants
  <2>1. /\ archives' \in [Paths -> Archive]
        /\ disk' \in [TokenPaths -> Token \cup {None}]
    BY <2>0, <2>a
  <2>2. split' \in [plan : SUBSET Tables, at : Instants]
    BY <1>1 DEF Start, NoSplit, Instants
  <2>3. PICK cli \in Commands :
          /\ cfg' = IntoConfig(cli)
          /\ \/ pc' = "idle" /\ outcome' = "refused"
             \/ /\ Valid(IntoConfig(cli))
                /\ pc' = (IF IntoConfig(cli).mode = "verify" THEN "list" ELSE "preflight")
                /\ outcome' = "none"
    BY <1>1 DEF Start
  <2>4. cfg' \in Configs
    BY <2>3 DEF Configs
  <2>5. cfg'.mode \in {"offline", "verify"}
    BY <2>4
  <2> QED
    BY <1>1, <2>1, <2>2, <2>3, <2>4, <2>5 DEF Start, Configs, Instants
<1>2. CASE Preflight
  BY <1>2 DEF Preflight
<1>3. CASE LoadToken
  <2>1. token' \in Token
    BY <1>3 DEF LoadToken, Token
  <2> QED
    BY <1>3, <2>1 DEF LoadToken
<1>4. CASE VacuumSource
  BY <1>4, SaveType DEF VacuumSource
<1>5. CASE PrepareSplit
  <2>1. Now \in Instants
    BY DEF Now, Instants
  <2>2. split' \in [plan : SUBSET Tables, at : Instants]
    BY <1>5, <2>1 DEF PrepareSplit, NoSplit, Instants
  <2> QED
    BY <1>5, <2>2 DEF PrepareSplit
<1>6. CASE StartDump
  <2>1. [DumpRequest EXCEPT !.state = "partial"] \in Archive
    BY DumpRequestType, <1>6 DEF Archive, StartDump
  <2>2. archives' \in [Paths -> Archive]
    BY <1>6, <2>1 DEF StartDump
  <2> QED
    BY <1>6, <2>2 DEF StartDump, FirstRestore
<1>7. CASE FinishDump
  <2>1. ASSUME NEW a \in Archive
        PROVE  [a EXCEPT !.state = "full"] \in Archive
    BY DEF Archive
  <2>2. archives' \in [Paths -> Archive]
    BY <1>7, <2>1, ConfigType DEF FinishDump, Path
  <2> QED
    BY <1>7, <2>2 DEF FinishDump
<1>8. CASE SaveDump
  BY <1>8, SaveType DEF SaveDump, FirstRestore
<1>9. CASE RestoreSection
  <2>1. target' \in [Tables -> Seq(Instants) \cup {None}]
    BY <1>9, RestoredType DEF RestoreSection, Sections
  <2>2. pc' \in Steps /\ (pc' = "idle" \/ (outcome' = outcome /\ pc' \in {"data", "post-data", "splitCopy", "saveRestore"}))
    BY <1>9 DEF RestoreSection, NextSection, Sections
  <2>3. ignored' \in BOOLEAN
    BY <1>9 DEF RestoreSection
  <2>4. writer' \in Paths /\ faults' \in 0 .. MaxFaults
    BY <1>9 DEF RestoreSection, Path, Sections
  <2> QED
    BY <1>9, <2>1, <2>2, <2>3, <2>4 DEF RestoreSection, Sections
<1>10. CASE SplitCopyStage
  <2>1. target' \in [Tables -> Seq(Instants) \cup {None}]
    BY <1>10 DEF SplitCopyStage
  <2> QED
    BY <1>10, <2>1 DEF SplitCopyStage, Path
<1>11. CASE SaveRestore
  BY <1>11, SaveType DEF SaveRestore
<1>12. CASE AnalyzeTarget
  BY <1>12, SaveType DEF AnalyzeTarget
<1>13. CASE ListTables
  <2>1. Now \in Instants
    BY DEF Now, Instants
  <2> QED
    BY <1>13, <2>1, SelectTables DEF ListTables
<1>14. CASE VerifyTable
  BY <1>14 DEF VerifyTable
<1>15. CASE FinishVerify
  BY <1>15 DEF FinishVerify
<1>16. ASSUME NEW how \in {"cancelled", "crashed"}, pc # "idle", Interrupted(how)
       PROVE  TypeOK' /\ RunInv'
  <2>1. target' \in [Tables -> Seq(Instants) \cup {None}]
    <3>1. CASE pc \in Sections
      BY <1>16, <3>1, RestoredType DEF Interrupted, Sections
    <3>2. CASE pc = "splitCopy"
      <4>1. PICK t \in split.plan :
              target' \in {target, [target EXCEPT ![t] =
                             IF @ = <<>> \/ (@ # None /\ cfg.dropTargetFirst) THEN <<split.at>> ELSE @]}
        BY <1>16, <3>2 DEF Interrupted, Sections
      <4>2. t \in Tables /\ <<split.at>> \in Seq(Instants)
        OBVIOUS
      <4>3. target[t] \in Seq(Instants) \cup {None}
        BY <4>2
      <4> QED
        BY <4>1, <4>2, <4>3
    <3> QED
      BY <1>16, <3>1, <3>2 DEF Interrupted
  <2> QED
    BY <1>16, <2>1 DEF Interrupted, Path
<1>17. CASE CancelRun \/ Crash
  BY <1>16, <1>17 DEF CancelRun, Crash, Cancellable, Sections
<1>18. CASE Cancel
  BY <1>18 DEF Cancel
<1>19. CASE Commit
  <2>1. writes' \in Seq(Tables) /\ Now' = Now + 1
    BY <1>19 DEF Commit, Now
  <2> QED
    BY <1>19, <2>1 DEF Commit, Now
<1>20. CASE UNCHANGED vars
  BY <1>20 DEF vars, Now
<1> QED
  BY <1>1, <1>2, <1>3, <1>4, <1>5, <1>6, <1>7, <1>8, <1>9, <1>10, <1>11, <1>12, <1>13, <1>14,
     <1>15, <1>17, <1>18, <1>19, <1>20
  DEF Next, Migrator

(* Every variable has its type, and a running command was accepted and has *)
(* a token of its own from LoadToken on.                                   *)
THEOREM TypeCorrect == Spec => [](TypeOK /\ RunInv)
<1>1. Init => TypeOK /\ RunInv
  <2> SUFFICES ASSUME Init PROVE TypeOK /\ RunInv
    OBVIOUS
  <2>1. NoArchive \in Archive /\ NoSplit \in [plan : SUBSET Tables, at : Instants]
    BY OfflineAssumption DEF NoArchive, NoSplit, Archive, Instants
  <2>2. archives \in [Paths -> Archive] /\ disk \in [TokenPaths -> Token \cup {None}]
    BY <2>1 DEF Init
  <2>3. writes \in Seq(Tables) /\ Now = 0
    BY DEF Init, Now
  <2>4. target \in [Tables -> Seq(Instants) \cup {None}]
    BY DEF Init
  <2>5. MaxWrites \in Nat /\ MaxRuns \in Nat /\ MaxFaults \in Nat
    BY OfflineAssumption
  <2>6. RunInv
    BY <2>4 DEF Init, RunInv, InRun
  <2>7. /\ pc \in Steps /\ cancelled \in Steps \cup {"no"}
        /\ outcome \in {"none", "refused", "failed", "cancelled", "crashed", "mismatch", "done"}
    BY DEF Init, Steps
  <2>8. /\ cfg = None /\ token = None /\ split \in [plan : SUBSET Tables, at : Instants]
        /\ todo \subseteq Tables /\ bad \subseteq Tables /\ writer = None
    BY <2>1 DEF Init
  <2>9. /\ listed \in Instants /\ Now <= MaxWrites
        /\ runs \in 0 .. MaxRuns /\ faults \in 0 .. MaxFaults
    BY <2>3, <2>5 DEF Init, Instants
  <2>10. ignored \in BOOLEAN
    BY DEF Init
  <2> QED
    BY <2>2, <2>3, <2>4, <2>6, <2>7, <2>8, <2>9, <2>10 DEF TypeOK
<1>2. TypeOK /\ RunInv /\ [Next]_vars => TypeOK' /\ RunInv'
  BY TypeNext
<1> QED
  BY <1>1, <1>2, PTL DEF Spec

-----------------------------------------------------------------------------
(* The cancellation.                                                       *)

(* A restore that was cancelled does not reach its end, and only a finished *)
(* one is analyzed and verified.                                           *)
CancelInv ==
  /\ pc = "saveRestore" => cancelled \in {"no", "saveRestore"}
  /\ InRun /\ pc \in {"analyze", "list", "verify"} => "Restore" \in token.done

(* A run's first step decides its mode, and a step keeps the token, or adds *)
(* the mark of its stage.                                                  *)
LEMMA CancelInvNext ==
  ASSUME TypeOK, RunInv, CancelInv, [Next]_vars
  PROVE  /\ CancelInv'
         /\ pc # "idle" /\ cancelled \notin {"no", "saveRestore"} /\ token # None
              /\ "Restore" \notin token.done
            => outcome' # "done" /\ "Restore" \notin token'.done
<1> USE DEF CancelInv, InRun, processVars, fileVars, targetVars, countVars, End, Goto, Unfinished
<1> DEFINE Kept == pc # "idle" /\ cancelled \notin {"no", "saveRestore"} /\ token # None
                     /\ "Restore" \notin token.done
                   => outcome' # "done" /\ "Restore" \notin token'.done
<1>1. ASSUME pc # "idle", token \in Token,
             NEW stage \in {"SourceVacuum", "Dump", "Restore", "Analyze"}, MarkAndSave(stage)
      PROVE  token'.done = token.done \cup {stage}
  BY <1>1, MarkedType DEF MarkAndSave
<1>2. CASE Start
  BY <1>2 DEF Start
<1>3. CASE Preflight
  BY <1>3 DEF Preflight, RunInv
<1>4. CASE LoadToken
  BY <1>4 DEF LoadToken, RunInv
<1>5. CASE VacuumSource
  BY <1>1, <1>5 DEF VacuumSource, RunInv
<1>6. CASE PrepareSplit
  BY <1>6 DEF PrepareSplit, RunInv
<1>7. CASE StartDump
  BY <1>7 DEF StartDump, RunInv, FirstRestore
<1>8. CASE FinishDump
  BY <1>8 DEF FinishDump, RunInv
<1>9. CASE SaveDump
  BY <1>1, <1>9 DEF SaveDump, RunInv, FirstRestore
<1>10. CASE RestoreSection
  BY <1>10 DEF RestoreSection, RunInv, Sections, NextSection, RunnerReturns
<1>11. CASE SplitCopyStage
  BY <1>11 DEF SplitCopyStage, RunInv
<1>12. CASE SaveRestore
  BY <1>1, <1>12 DEF SaveRestore, RunInv
<1>13. CASE AnalyzeTarget
  BY <1>1, <1>13 DEF AnalyzeTarget, RunInv
<1>14. CASE ListTables
  BY <1>14 DEF ListTables, RunInv
<1>15. CASE VerifyTable \/ FinishVerify
  BY <1>15 DEF VerifyTable, FinishVerify, RunInv
<1>16. CASE CancelRun \/ Crash
  BY <1>16 DEF CancelRun, Crash, Interrupted, RunInv
<1>17. CASE Cancel
  BY <1>17 DEF Cancel, RunInv
<1>18. CASE Commit
  BY <1>18 DEF Commit, RunInv
<1>19. CASE UNCHANGED vars
  BY <1>19 DEF vars, RunInv
<1> QED
  BY <1>2, <1>3, <1>4, <1>5, <1>6, <1>7, <1>8, <1>9, <1>10, <1>11, <1>12, <1>13, <1>14,
     <1>15, <1>16, <1>17, <1>18, <1>19
  DEF Next, Migrator

(* For all command lines, faults and crashes: a run that is cancelled      *)
(* before its restore is complete neither records it nor reports success   *)
(* (run_offline, TokioCommandRunner::run).                                 *)
THEOREM CancelsTruly == Spec => CancelNotDone
<1>1. Init => CancelInv
  BY DEF Init, CancelInv, InRun
<1>2. TypeOK /\ RunInv /\ CancelInv /\ [Next]_vars => CancelInv'
  BY CancelInvNext
<1>3. TypeOK /\ RunInv /\ CancelInv /\ [Next]_vars
        => [pc # "idle" /\ cancelled \notin {"no", "saveRestore"} /\ token # None
              /\ "Restore" \notin token.done
            => outcome' # "done" /\ "Restore" \notin token'.done]_vars
  BY CancelInvNext
<1> QED
  BY <1>1, <1>2, <1>3, TypeCorrect, PTL DEF Spec, CancelNotDone

-----------------------------------------------------------------------------
(* The strict verification.                                                *)

(* A count is a number of rows: that of a missing table is none of them.   *)
LEMMA RowsNat ==
  ASSUME NEW t, NEW at \in Nat
  PROVE  RowsAt(t, at) \in Nat
<1>1. IsFiniteSet(1 .. at)
  BY FS_Interval
<1>2. IsFiniteSet({i \in 1 .. at : writes[i] = t})
  BY <1>1, FS_Subset
<1> QED
  BY <1>2, FS_CardinalityType DEF RowsAt

(* What has been verified since the source's last commit and was not found *)
(* bad has equal counts.                                                   *)
CountInv ==
  /\ pc \notin {"idle", "verify"} => bad = {}
  /\ listed <= Now
  /\ pc = "verify" /\ listed = Now =>
       \A t \in Verified(cfg, Tables) \ (todo \cup bad) : TargetCount(t) = RowsAt(t, Now)

(* Every step keeps the counts that were compared, or the source commits   *)
(* and the comparison says nothing any more.                               *)
LEMMA CountInvNext ==
  ASSUME TypeOK, RunInv, CountInv, [Next]_vars
  PROVE  CountInv'
<1> USE DEF CountInv, processVars, fileVars, targetVars, countVars, End, Goto, Unfinished
<1>1. ASSUME UNCHANGED <<pc, cfg, todo, bad, listed, writes, target>>
      PROVE  CountInv'
  BY <1>1 DEF TargetCount, TargetRows, RowsAt, Now
<1>2. ASSUME pc' # "verify", pc # "idle" \/ pc' = "idle", pc' = "idle" \/ bad' = {},
             listed' = listed \/ listed' = Now, UNCHANGED writes
      PROVE  CountInv'
  BY <1>2 DEF Now, TypeOK
<1>3. CASE Start
  BY <1>3 DEF Start, Now, TypeOK
<1>4. CASE Preflight \/ LoadToken \/ VacuumSource \/ PrepareSplit
  BY <1>2, <1>4 DEF Preflight, LoadToken, VacuumSource, PrepareSplit
<1>5. CASE StartDump \/ FinishDump \/ SaveDump
  BY <1>2, <1>5 DEF StartDump, FinishDump, SaveDump, FirstRestore
<1>6. CASE RestoreSection
  BY <1>2, <1>6 DEF RestoreSection, Sections, NextSection
<1>7. CASE SplitCopyStage \/ SaveRestore \/ AnalyzeTarget
  BY <1>2, <1>7 DEF SplitCopyStage, SaveRestore, AnalyzeTarget
<1>8. CASE ListTables
  BY <1>8 DEF ListTables, Now, TypeOK
<1>9. CASE VerifyTable
  <2>1. \A t : TargetCount(t)' = TargetCount(t) /\ RowsAt(t, Now)' = RowsAt(t, Now)
    BY <1>9 DEF VerifyTable, TargetCount, TargetRows, RowsAt, Now
  <2>2. Now' = Now /\ cfg' = cfg /\ listed' = listed /\ pc' = pc
    BY <1>9 DEF VerifyTable, Now
  <2>3. PICK t \in todo : /\ todo' = todo \ {t}
                         /\ bad' = IF RowsAt(t, Now) = TargetCount(t) THEN bad ELSE bad \cup {t}
    BY <1>9 DEF VerifyTable
  <2> QED
    BY <1>9, <2>1, <2>2, <2>3 DEF VerifyTable
<1>10. CASE FinishVerify
  BY <1>10 DEF FinishVerify, Now
<1>11. CASE CancelRun \/ Crash
  BY <1>2, <1>11 DEF CancelRun, Crash, Interrupted
<1>12. CASE Cancel
  BY <1>1, <1>12 DEF Cancel
<1>13. CASE Commit
  <2>1. Now' = Now + 1
    BY <1>13 DEF Commit, Now, TypeOK
  <2> QED
    BY <1>13, <2>1 DEF Commit, TypeOK, Now, Instants
<1>14. CASE UNCHANGED vars
  BY <1>1, <1>14 DEF vars
<1> QED
  BY <1>3, <1>4, <1>5, <1>6, <1>7, <1>8, <1>9, <1>10, <1>11, <1>12, <1>13, <1>14
  DEF Next, Migrator

(* With every table that is dumped among those that are verified, and no   *)
(* commit on the source since the tables were listed (listed = Now), a     *)
(* strict verification lets no loss pass, whatever the restore tolerated.  *)
THEOREM CatchesLoss ==
  ASSUME VerifiesDumped
  PROVE  Spec => StrictCatchesLoss
<1>1. Init => CountInv
  BY DEF Init, CountInv, Now
<1>2. TypeOK /\ RunInv /\ CountInv /\ [Next]_vars => CountInv'
  BY CountInvNext
<1>3. TypeOK /\ RunInv /\ CountInv /\ [Next]_vars
        => [outcome' = "done" /\ IsStrict /\ pc = "verify" /\ listed = Now =>
              \A t \in Dumped(cfg, Tables) :
                target[t] # None /\ TargetCount(t) = RowsAt(t, Now)]_vars
  <2> SUFFICES ASSUME TypeOK, RunInv, CountInv, [Next]_vars,
                      outcome' = "done", IsStrict, pc = "verify", listed = Now,
                      NEW t \in Dumped(cfg, Tables)
               PROVE  target[t] # None /\ TargetCount(t) = RowsAt(t, Now)
    OBVIOUS
  <2>1. outcome = "none" /\ cfg \in Configs
    BY DEF RunInv
  <2>2. FinishVerify
    BY <2>1 DEF Next, Migrator, Start, Preflight, LoadToken, VacuumSource, PrepareSplit, StartDump,
         FinishDump, SaveDump, RestoreSection, SplitCopyStage, SaveRestore, AnalyzeTarget,
         ListTables, VerifyTable, CancelRun, Crash, Interrupted, Unfinished, End, Cancel, Commit,
         Sections, vars
  <2>3. todo = {} /\ bad = {}
    BY <2>2 DEF FinishVerify, End
  <2>4. TargetCount(t) = RowsAt(t, Now)
    BY <2>1, <2>3, DumpedVerified DEF CountInv
  <2>5. RowsAt(t, Now) \in Nat
    BY RowsNat DEF TypeOK, Now
  <2> QED
    BY <2>4, <2>5 DEF TargetCount
<1> QED
  BY <1>1, <1>2, <1>3, TypeCorrect, PTL DEF Spec, StrictCatchesLoss

-----------------------------------------------------------------------------
(* What a run delivers and what its token claims.                          *)

(* The tables whose rows an archive has if none is copied directly. *)
Wanted(c) == IF c.dumpScope = "schema-only" THEN {} ELSE Dumped(c, Tables)

(* The archive of the run is what its command line asks for, without the   *)
(* rows of the tables that it copies directly, and at their snapshot.      *)
Contents(c) ==
  LET file == archives[DumpPath(c)]
  IN  /\ file.defs = Dumped(c, Tables)
      /\ file.data = Wanted(c) \ split.plan
      /\ file.at <= Now
      /\ split # NoSplit => file.at = split.at

(* The archive is what a command line without a split copy asks for.       *)
WholeFile(c) ==
  LET file == archives[DumpPath(c)]
  IN  /\ file.state = "full"
      /\ file.defs = Dumped(c, Tables)
      /\ file.data = Wanted(c)
      /\ file.at <= Now

(* Which runs copy tables directly: none that resumes, and none in one pass. *)
SplitInv(c) ==
  /\ pc \in {"preflight", "load", "vacuum", "split"} => split = NoSplit
  /\ c.splitTablesLargerThan = None => split = NoSplit
  /\ split.at <= Now
  /\ pc = "splitCopy" => split # NoSplit
  /\ pc = "single" => split = NoSplit

(* Once a run saved its token, or if it took the one it found, the token on *)
(* disk is the run's, and claims no more than the one in memory.           *)
OwnToken(c) ==
  LET saved == disk[TokenPath(c)]
  IN  (\E d \in Writers : d.resume) /\ (pc # "vacuum" \/ c.resume) /\ saved # None =>
        saved.hash = ConfigHash(c) /\ saved.done \subseteq token.done

(* A stage in the token is there, and the restore runs on a whole archive. *)
TokenInv(c) ==
  /\ token.hash = ConfigHash(c)
  /\ ~c.resume /\ pc = "vacuum" => token.done = {}
  /\ ~c.resume /\ pc \in {"split", "dump"} => token.done \subseteq {"SourceVacuum"}
  /\ "Dump" \in token.done => archives[DumpPath(c)].state = "full" /\ Contents(c)
  /\ "Restore" \in token.done /\ ~ignored /\ writer = DumpPath(c) => Delivers(c)
  /\ pc \in {"dumping", "saveDump"} => Contents(c)
  /\ pc = "dumping" => "Dump" \notin token.done
  /\ pc = "saveDump" => archives[DumpPath(c)].state = "full"
  /\ pc \in Sections \cup {"splitCopy", "saveRestore"} =>
       "Dump" \in token.done /\ "Restore" \notin token.done

(* What each section leaves for the next, unless errors were tolerated.    *)
RestoreInv(c) ==
  ~ignored =>
    /\ pc = "data" => \A t \in Dumped(c, Tables) : target[t] = <<>>
    /\ pc = "splitCopy" => \A t \in Tables :
         target[t] = IF t \in split.plan THEN <<>> ELSE <<archives[DumpPath(c)].at>>
    /\ pc \in {"post-data", "saveRestore"} => Delivers(c)

(* DiskTokenTruthful for one command line, with the data of its archive. *)
DiskInv(c) ==
  LET saved == disk[TokenPath(c)]
  IN  c.resume /\ saved # None /\ saved.hash = ConfigHash(c) =>
        /\ "Dump" \in saved.done => WholeFile(c)
        /\ "Restore" \in saved.done /\ ~ignored /\ writer = DumpPath(c) => Delivers(c)

(* DeliveredWhenDone for one command line. *)
ReportInv(c) ==
  outcome = "done" /\ ~ignored /\ writer = DumpPath(c) => Delivers(c)

(* What holds of a run of the command line. *)
RunPart(c) ==
  /\ pc # "idle" => SplitInv(c)
  /\ InRun => OwnToken(c) /\ TokenInv(c) /\ RestoreInv(c)
  /\ ReportInv(c)

(* What holds of the running command line, and of every token on disk. *)
DeliverInv == \A c \in Writers : (cfg = c => RunPart(c)) /\ DiskInv(c)

(* What stays true while the target is left alone and the source commits.  *)
LEMMA DeliversStays ==
  ASSUME TypeOK, TypeOK', Now <= Now', target' = target, NEW c, Delivers(c)
  PROVE  Delivers(c)'
BY DEF Delivers, TypeOK, Now

(* What stays true of an archive that is left alone while the source       *)
(* commits.                                                                *)
LEMMA FileStays ==
  ASSUME TypeOK, TypeOK', Now <= Now', NEW c \in Writers,
         archives'[DumpPath(c)] = archives[DumpPath(c)]
  PROVE  /\ WholeFile(c) => WholeFile(c)'
         /\ Contents(c) /\ split' = split => Contents(c)'
<1>1. archives[DumpPath(c)].at \in Nat
  BY ConfigType DEF TypeOK, Archive, Instants, Writers
<1> QED
  BY <1>1 DEF WholeFile, Contents, TypeOK, Now

(* A run and a later one that takes its token ask for the same: the hash   *)
(* has their tables and schemas, SameScope the rest.                       *)
LEMMA SameRequest ==
  ASSUME SameScope, NEW c \in Writers, NEW d \in Writers, d.resume,
         TokenPath(c) = TokenPath(d), ConfigHash(c) = ConfigHash(d)
  PROVE  /\ DumpPath(c) = DumpPath(d) /\ c.dumpScope = d.dumpScope
         /\ c.splitTablesLargerThan = None
         /\ Dumped(c, Tables) = Dumped(d, Tables)
<1>1. c.schemas = d.schemas /\ c.tables = d.tables
  BY DEF ConfigHash
<1>2. c.excludeSchemas = d.excludeSchemas /\ c.excludeTables = d.excludeTables
  BY DEF SameScope
<1> QED
  BY <1>1, <1>2 DEF SameScope, Dumped, FilterByExclusions

(* So what holds of the run's archive and target holds of the later one's. *)
LEMMA SameDelivery ==
  ASSUME SameScope, NEW c \in Writers, NEW d \in Writers, d.resume,
         TokenPath(c) = TokenPath(d), ConfigHash(c) = ConfigHash(d)
  PROVE  /\ Delivers(c)' => Delivers(d)'
         /\ split' = NoSplit /\ archives'[DumpPath(c)].state = "full" /\ Contents(c)'
              => WholeFile(d)'
<1>1. /\ DumpPath(c) = DumpPath(d) /\ c.dumpScope = d.dumpScope
      /\ Dumped(c, Tables) = Dumped(d, Tables)
  BY SameRequest
<1> QED
  BY <1>1 DEF Delivers, WholeFile, Contents, Wanted, NoSplit

(* A command line with a split copy takes every table.                     *)
LEMMA SplitTakesAll ==
  ASSUME NEW c \in Writers, c.splitTablesLargerThan # None
  PROVE  /\ Dumped(c, Tables) = Tables /\ Wanted(c) = Tables
         /\ c.splitSections /\ ~c.resume
<1>1. Valid(c)
  BY DEF Writers
<1> QED
  BY <1>1 DEF Valid, ValidSplit, Dumped, FilterByExclusions, Wanted

-----------------------------------------------------------------------------
(* The token on disk, while the run of another command line, or this one's, *)
(* goes on.                                                                *)

(* A step that leaves this token, its archive and its target alone. *)
LEMMA DiskStays ==
  ASSUME TypeOK, TypeOK', Now <= Now', NEW c \in Writers, DiskInv(c),
         disk'[TokenPath(c)] = disk[TokenPath(c)],
         archives'[DumpPath(c)] = archives[DumpPath(c)],
         UNCHANGED <<target, writer, ignored>> \/ writer' # DumpPath(c)
  PROVE  DiskInv(c)'
<1>1. WholeFile(c) => WholeFile(c)'
  BY FileStays
<1>2. target' = target /\ Delivers(c) => Delivers(c)'
  BY DeliversStays
<1> QED
  BY <1>1, <1>2 DEF DiskInv

(* A step of a run that replaces its archive before it marked the dump, or *)
(* changes the target before it marked the restore: what it takes away, no *)
(* token on disk claims any more.                                          *)
LEMMA DiskWorked ==
  ASSUME TypeOK, TypeOK', Now' = Now, OneToken, NEW c \in Writers, DiskInv(c),
         NEW d \in Writers, OwnToken(d), pc # "vacuum", disk' = disk,
         \/ archives' = archives
         \/ /\ "Dump" \notin token.done
            /\ \A p \in Paths \ {DumpPath(d)} : archives'[p] = archives[p],
         \/ UNCHANGED <<target, writer, ignored>>
         \/ "Restore" \notin token.done /\ writer' = DumpPath(d)
  PROVE  DiskInv(c)'
<1>1. CASE ~c.resume
  BY <1>1 DEF DiskInv
<1>2. CASE c.resume /\ DumpPath(c) = DumpPath(d)
  <2>1. TokenPath(c) = TokenPath(d)
    BY <1>2 DEF OneToken
  <2>2. disk[TokenPath(c)] # None => disk[TokenPath(c)].done \subseteq token.done
    BY <1>2, <2>1 DEF OwnToken
  <2>3. archives' = archives /\ WholeFile(c) => WholeFile(c)'
    BY FileStays DEF TypeOK, Now
  <2>4. target' = target /\ Delivers(c) => Delivers(c)'
    BY DeliversStays DEF TypeOK, Now
  <2> QED
    BY <2>2, <2>3, <2>4 DEF DiskInv
<1>3. CASE c.resume /\ DumpPath(c) # DumpPath(d)
  <2>1. archives'[DumpPath(c)] = archives[DumpPath(c)]
    BY <1>3, ConfigType DEF Writers
  <2>2. Now <= Now'
    BY DEF TypeOK, Now
  <2> QED
    BY <1>3, <2>1, <2>2, DiskStays
<1> QED
  BY <1>1, <1>2, <1>3

(* A run saves its token, or fails to. *)
LEMMA DiskSaved ==
  ASSUME TypeOK, TypeOK', SameScope, NEW c \in Writers, DiskInv(c),
         NEW d \in Writers, cfg = d, SplitInv(d)', TokenInv(d)', NEW stage, MarkAndSave(stage),
         UNCHANGED <<archives, target, writer, ignored, writes>>
  PROVE  DiskInv(c)'
<1>1. Now <= Now'
  BY DEF TypeOK, Now
<1>2. CASE disk'[TokenPath(c)] = disk[TokenPath(c)]
  BY <1>1, <1>2, DiskStays
<1>3. CASE /\ TokenPath(c) = TokenPath(d) /\ ConfigHash(c) = ConfigHash(d) /\ c.resume
           /\ disk'[TokenPath(c)] = token'
  <2>1. DumpPath(d) = DumpPath(c) /\ split' = NoSplit
    BY <1>3, SameRequest DEF SplitInv
  <2>2. Delivers(d)' => Delivers(c)'
    BY <1>3, SameDelivery
  <2>3. archives'[DumpPath(d)].state = "full" /\ Contents(d)' => WholeFile(c)'
    BY <1>3, <2>1, SameDelivery
  <2> QED
    BY <1>3, <2>1, <2>2, <2>3 DEF DiskInv, TokenInv
<1>4. \/ disk'[TokenPath(c)] = disk[TokenPath(c)]
      \/ TokenPath(c) = TokenPath(d) /\ disk'[TokenPath(c)] = token'
  BY ConfigType DEF MarkAndSave, TypeOK, Writers
<1>5. CASE ~(ConfigHash(c) = ConfigHash(d) /\ c.resume) /\ disk'[TokenPath(c)] = token'
  BY <1>5 DEF DiskInv, TokenInv
<1> QED
  BY <1>2, <1>3, <1>4, <1>5

-----------------------------------------------------------------------------
(* The running command.                                                    *)

(* A run that ends without success, and one that only waits, look or let   *)
(* the source commit.                                                      *)
LEMMA RunEnds ==
  ASSUME NEW c \in Writers, pc' = "idle", outcome' # "done"
  PROVE  RunPart(c)'
BY DEF RunPart, InRun, ReportInv

(* A step that only waits, looks or lets the source commit.                *)
LEMMA RunWaits ==
  ASSUME TypeOK, TypeOK', NEW c \in Writers, RunPart(c), Now <= Now',
         UNCHANGED <<pc, cfg, outcome, token, split, disk, archives, target, writer, ignored>>
  PROVE  RunPart(c)'
<1>1. Contents(c) => Contents(c)'
  BY FileStays
<1>2. Delivers(c) => Delivers(c)'
  BY DeliversStays
<1> QED
  BY <1>1, <1>2 DEF RunPart, InRun, SplitInv, OwnToken, TokenInv, RestoreInv, ReportInv, TypeOK, Now,
     Instants

(* A run with a token on its way to the next step. *)
LEMMA RunGoes ==
  ASSUME NEW c \in Writers, pc' # "idle", outcome' = "none",
         SplitInv(c)', InRun' => OwnToken(c)' /\ TokenInv(c)' /\ RestoreInv(c)'
  PROVE  RunPart(c)'
BY DEF RunPart, ReportInv

(* What a run's mark and save do to its own token on disk.                 *)
LEMMA OwnSaved ==
  ASSUME TypeOK, token \in Token, NEW c \in Writers, cfg = c,
         NEW stage \in {"SourceVacuum", "Dump", "Restore", "Analyze"}, MarkAndSave(stage),
         token.hash = ConfigHash(c), OwnToken(c), pc # "vacuum" \/ c.resume
  PROVE  OwnToken(c)' /\ token'.hash = ConfigHash(c) /\ token'.done = token.done \cup {stage}
<1>1. token' = Marked(stage) /\ token'.hash = token.hash /\ token'.done = token.done \cup {stage}
  BY MarkedType DEF MarkAndSave
<1>2. CASE disk' = [disk EXCEPT ![TokenPath(cfg)] = token']
  <2>1. disk'[TokenPath(c)] = token'
    BY <1>2, ConfigType DEF TypeOK, Writers
  <2> QED
    BY <1>1, <2>1 DEF OwnToken
<1>3. CASE disk' = disk
  BY <1>1, <1>3 DEF OwnToken
<1> QED
  BY <1>1, <1>2, <1>3 DEF MarkAndSave

(* The steps up to the dump. *)
LEMMA RunPrepares ==
  ASSUME TypeOK, TypeOK', RunInv, RunInv', OfflineProcedure, NEW c \in Writers, cfg = c,
         RunPart(c), DiskInv(c), pc # "idle",
         Preflight \/ LoadToken \/ VacuumSource \/ PrepareSplit
  PROVE  RunPart(c)'
<1> USE DEF InRun, processVars, fileVars, targetVars, countVars, Unfinished
<1>0. outcome = "none" /\ Valid(c) /\ Now' = Now
  BY DEF RunInv, Now, Preflight, LoadToken, VacuumSource, PrepareSplit
<1>1. Contents(c) /\ split' = split /\ archives' = archives => Contents(c)'
  BY <1>0, FileStays DEF TypeOK, Now
<1>2. Delivers(c) /\ target' = target => Delivers(c)'
  BY <1>0, DeliversStays DEF TypeOK, Now
<1>3. CASE Preflight
  <2>1. CASE pc' = "idle"
    BY <1>3, <2>1, RunEnds DEF Preflight, End, Goto
  <2>2. CASE pc' # "idle"
    BY <1>0, <1>3, <2>2 DEF Preflight, End, Goto, RunPart, SplitInv, ReportInv
  <2> QED
    BY <2>1, <2>2
<1>4. CASE LoadToken
  <2>1. CASE pc' = "idle"
    BY <1>4, <2>1, RunEnds DEF LoadToken, End, Goto
  <2>2. CASE pc' # "idle"
    <3>1. pc' = "vacuum" /\ pc = "load" /\ split = NoSplit
      BY <1>4, <2>2 DEF LoadToken, End, Goto, RunPart, SplitInv
    <3>2. SplitInv(c)'
      BY <1>0, <1>4, <3>1 DEF LoadToken, RunPart, SplitInv
    <3>3. CASE c.resume /\ disk[TokenPath(c)] # None
      <4>1. token' = disk[TokenPath(c)] /\ token'.hash = ConfigHash(c)
        BY <1>4, <2>2, <3>3 DEF LoadToken, End
      <4>2. WholeFile(c) => archives[DumpPath(c)].state = "full" /\ Contents(c)
        BY <3>1 DEF WholeFile, Contents, NoSplit
      <4>3. OwnToken(c)'
        BY <1>4, <4>1 DEF OwnToken, LoadToken
      <4>4. TokenInv(c)'
        BY <1>1, <1>2, <1>4, <3>1, <3>3, <4>1, <4>2 DEF TokenInv, DiskInv, LoadToken, Sections
      <4> QED
        BY <1>0, <1>4, <3>1, <3>2, <4>3, <4>4, RunGoes DEF LoadToken, Goto, RestoreInv, End
    <3>4. CASE ~(c.resume /\ disk[TokenPath(c)] # None)
      <4>1. token' = [hash |-> ConfigHash(c), done |-> {}]
        BY <1>4, <3>4 DEF LoadToken
      <4>2. OwnToken(c)'
        BY <1>4, <3>1, <3>4, <4>1 DEF OwnToken, LoadToken
      <4>3. TokenInv(c)'
        BY <3>1, <4>1 DEF TokenInv, Sections
      <4> QED
        BY <1>0, <1>4, <3>1, <3>2, <4>2, <4>3, RunGoes DEF LoadToken, Goto, RestoreInv, End
    <3> QED
      BY <3>3, <3>4
  <2> QED
    BY <2>1, <2>2
<1>5. CASE VacuumSource
  <2>1. /\ pc = "vacuum" /\ pc' = "split" /\ outcome' = "none"
        /\ UNCHANGED <<cfg, split, archives, target, writer, ignored>>
    BY <1>0, <1>5 DEF VacuumSource, Goto
  <2>2. token \in Token /\ TokenInv(c) /\ OwnToken(c) /\ SplitInv(c)
    BY <1>5, <2>1 DEF RunInv, RunPart, Writers
  <2>3. SplitInv(c)'
    BY <1>0, <2>1, <2>2 DEF SplitInv
  <2>4. /\ OwnToken(c)' /\ token'.hash = ConfigHash(c)
        /\ token'.done \in {token.done, token.done \cup {"SourceVacuum"}}
    <3>1. CASE c.resume
      BY <1>5, <2>1, <2>2, <3>1, OwnSaved DEF VacuumSource, TokenInv, OwnToken
    <3>2. CASE ~c.resume /\ (\E d \in Writers : d.resume)
      <4>1. "vacuum" \notin FaultPoints /\ ~c.skipSourceVacuum
        BY <3>2 DEF OfflineProcedure, SavesFirst
      <4>2. MarkAndSave("SourceVacuum")
        BY <1>5, <2>1, <2>2, <3>2, <4>1 DEF VacuumSource, TokenInv, Fault
      <4>3. disk' = [disk EXCEPT ![TokenPath(c)] = token']
        BY <2>1, <4>1, <4>2 DEF MarkAndSave, Fault
      <4>4. disk'[TokenPath(c)] = token'
        BY <4>3, ConfigType DEF TypeOK, Writers
      <4>5. token'.hash = ConfigHash(c) /\ token'.done = token.done \cup {"SourceVacuum"}
        BY <2>2, <4>2, MarkedType DEF MarkAndSave, TokenInv
      <4> QED
        BY <4>4, <4>5 DEF OwnToken
    <3>3. CASE ~c.resume /\ ~(\E d \in Writers : d.resume)
      <4>1. OwnToken(c)'
        BY <3>3 DEF OwnToken
      <4> QED
        BY <1>5, <2>1, <2>2, <4>1, MarkedType DEF VacuumSource, MarkAndSave, TokenInv
    <3> QED
      BY <3>1, <3>2, <3>3
  <2>5. TokenInv(c)'
    BY <1>1, <1>2, <2>1, <2>2, <2>4 DEF TokenInv, Sections
  <2> QED
    BY <2>1, <2>3, <2>4, <2>5, RunGoes DEF RestoreInv
<1>6. CASE PrepareSplit
  <2>1. CASE pc' = "idle"
    BY <1>6, <2>1, RunEnds DEF PrepareSplit, End, Goto
  <2>2. CASE pc' # "idle"
    <3>1. /\ pc = "split" /\ pc' = "dump" /\ outcome' = "none" /\ split = NoSplit
          /\ UNCHANGED <<cfg, token, disk, archives, target, writer, ignored>>
      BY <1>0, <1>6, <2>2 DEF PrepareSplit, Goto, End, RunPart, SplitInv
    <3>2. TokenInv(c) /\ OwnToken(c) /\ SplitInv(c)
      BY <3>1 DEF RunPart, RunInv
    <3>3. /\ c.splitTablesLargerThan = None => split' = NoSplit
          /\ split'.at <= Now'
      BY <1>0, <1>6, <3>1 DEF PrepareSplit, End, NoSplit, TypeOK, Now
    <3>4. c.resume => c.splitTablesLargerThan = None
      BY SplitTakesAll
    <3>5. SplitInv(c)'
      BY <3>1, <3>3 DEF SplitInv
    <3>6. OwnToken(c)'
      BY <3>1, <3>2 DEF OwnToken
    <3>7. TokenInv(c)'
      BY <1>1, <1>2, <3>1, <3>2, <3>3, <3>4 DEF TokenInv, Sections
    <3> QED
      BY <3>1, <3>5, <3>6, <3>7, RunGoes DEF RestoreInv
  <2> QED
    BY <2>1, <2>2
<1> QED
  BY <1>3, <1>4, <1>5, <1>6

(* The dump. *)
LEMMA RunDumps ==
  ASSUME TypeOK, TypeOK', RunInv, RunInv', OfflineProcedure, NEW c \in Writers, cfg = c,
         RunPart(c), pc # "idle", StartDump \/ FinishDump \/ SaveDump
  PROVE  RunPart(c)'
<1> USE DEF InRun, processVars, fileVars, targetVars, countVars, Unfinished
<1>0. /\ outcome = "none" /\ Valid(c) /\ Now' = Now /\ cfg' = c /\ split' = split
      /\ UNCHANGED <<target, writer, ignored>>
  BY DEF RunInv, Now, StartDump, FinishDump, SaveDump
<1>1. Contents(c) /\ archives' = archives => Contents(c)'
  BY <1>0, FileStays DEF TypeOK, Now
<1>2. Delivers(c) => Delivers(c)'
  BY <1>0, DeliversStays DEF TypeOK, Now
<1>3. pc \in {"dump", "dumping", "saveDump"} /\ InRun
  BY DEF StartDump, FinishDump, SaveDump, RunInv, Writers
<1>4. SplitInv(c) /\ TokenInv(c) /\ OwnToken(c) /\ token \in Token
  BY <1>3 DEF RunPart, RunInv
<1>5. CASE pc' = "idle"
  BY <1>5, RunEnds DEF StartDump, FinishDump, SaveDump, End, Goto, FirstRestore
<1>6. CASE pc' # "idle"
  <2>1. outcome' = "none"
    BY <1>6 DEF RunInv
  <2>2. FirstRestore(c) = "single" => split = NoSplit
    BY <1>4, SplitTakesAll DEF FirstRestore, SplitInv
  <2>3. pc' \in {"dumping", "saveDump", "analyze", FirstRestore(c)}
    BY <1>0, <1>6 DEF StartDump, FinishDump, SaveDump, End, Goto
  <2>4. SplitInv(c)'
    BY <1>0, <1>4, <2>2, <2>3 DEF SplitInv, FirstRestore
  <2>5. RestoreInv(c)'
    BY <2>3 DEF RestoreInv, FirstRestore
  <2>6. CASE StartDump
    <3>1. OwnToken(c)' /\ token' = token
      BY <1>4, <2>6 DEF OwnToken, StartDump
    <3>2. CASE SkipDump
      <4>1. archives' = archives /\ pc' = IF "Restore" \in token.done THEN "analyze" ELSE FirstRestore(c)
        BY <1>0, <2>6, <3>2 DEF StartDump, Goto
      <4>2. TokenInv(c)'
        BY <1>0, <1>1, <1>2, <1>4, <3>1, <3>2, <4>1 DEF TokenInv, SkipDump, FirstRestore, Sections
      <4> QED
        BY <2>1, <1>6, <2>4, <2>5, <3>1, <4>2, RunGoes
    <3>3. CASE ~SkipDump
      <4>1. /\ archives' = [archives EXCEPT ![DumpPath(c)] = [DumpRequest EXCEPT !.state = "partial"]]
            /\ pc' = "dumping"
        BY <1>6, <2>6, <3>3 DEF StartDump, Goto, End, Path
      <4>2. archives'[DumpPath(c)] = [DumpRequest EXCEPT !.state = "partial"]
        BY <4>1, ConfigType DEF TypeOK, Writers
      <4>3. c.dumpScope # "data-only"
        BY DEF OfflineProcedure
      <4>4. /\ DumpRequest.defs = Dumped(c, Tables) /\ DumpRequest.data = Wanted(c) \ split.plan
            /\ DumpRequest.at = IF split = NoSplit THEN Now ELSE split.at
        BY <4>3 DEF DumpRequest, Wanted
      <4>5. Now \in Nat
        BY DEF TypeOK, Now
      <4>6. /\ archives'[DumpPath(c)].defs = DumpRequest.defs
            /\ archives'[DumpPath(c)].data = DumpRequest.data
            /\ archives'[DumpPath(c)].at = DumpRequest.at
        BY <4>2 DEF DumpRequest
      <4>7. Contents(c)'
        BY <1>0, <1>4, <4>4, <4>5, <4>6 DEF Contents, SplitInv
      <4>8. TokenInv(c)'
        BY <1>0, <1>2, <1>4, <3>1, <3>3, <4>1, <4>7 DEF TokenInv, SkipDump, Sections
      <4> QED
        BY <1>6, <2>1, <2>4, <2>5, <3>1, <4>8, RunGoes
    <3> QED
      BY <3>2, <3>3
  <2>7. CASE FinishDump
    <3>1. /\ archives' = [archives EXCEPT ![DumpPath(c)].state = "full"] /\ pc = "dumping"
          /\ pc' = "saveDump" /\ UNCHANGED <<token, disk>>
      BY <1>6, <2>7 DEF FinishDump, Goto, End, Path
    <3>2. /\ archives'[DumpPath(c)].state = "full"
          /\ archives'[DumpPath(c)].defs = archives[DumpPath(c)].defs
          /\ archives'[DumpPath(c)].data = archives[DumpPath(c)].data
          /\ archives'[DumpPath(c)].at = archives[DumpPath(c)].at
      BY <3>1, ConfigType DEF TypeOK, Writers, Archive
    <3>3. Contents(c)'
      BY <1>0, <1>4, <3>1, <3>2 DEF TokenInv, Contents
    <3>4. TokenInv(c)' /\ OwnToken(c)'
      BY <1>0, <1>2, <1>4, <3>1, <3>2, <3>3 DEF TokenInv, OwnToken, Sections
    <3> QED
      BY <1>6, <2>1, <2>4, <2>5, <3>4, RunGoes
  <2>8. CASE SaveDump
    <3>1. /\ archives' = archives /\ pc = "saveDump" /\ MarkAndSave("Dump")
          /\ pc' = IF "Restore" \in token.done THEN "analyze" ELSE FirstRestore(c)
      BY <1>0, <2>8 DEF SaveDump, Goto
    <3>2. /\ OwnToken(c)' /\ token'.hash = ConfigHash(c)
          /\ token'.done = token.done \cup {"Dump"}
      BY <1>4, <3>1, OwnSaved DEF TokenInv
    <3>3. TokenInv(c)'
      BY <1>0, <1>1, <1>2, <1>4, <3>1, <3>2 DEF TokenInv, FirstRestore, Sections
    <3> QED
      BY <1>6, <2>1, <2>4, <2>5, <3>2, <3>3, RunGoes
  <2> QED
    BY <2>6, <2>7, <2>8
<1> QED
  BY <1>5, <1>6

(* A section without errors loads every row of a whole archive, once, into *)
(* tables that it or an earlier section made.                              *)
LEMMA SectionLoads ==
  ASSUME TypeOK, RunInv, pc # "idle", cfg.dumpScope # "data-only",
         NEW section \in Sections, NEW rows \in SUBSET Archived.data,
         ~Errors(section, rows), Archived.data \subseteq Archived.defs,
         section = "data" => \A t \in Archived.defs : target[t] = <<>>
  PROVE  /\ section \in {"pre-data", "single"} => \A t \in Archived.defs : Created[t] = <<>>
         /\ section = "pre-data" => Restored(section, rows) = Created
         /\ section \in {"data", "single"} => \A t \in Archived.defs :
              Restored(section, rows)[t] = IF t \in Archived.data THEN <<Archived.at>> ELSE <<>>
         /\ section = "post-data" => Restored(section, rows) = target
<1>1. Archived.defs \subseteq Tables
  BY ConfigType DEF RunInv, TypeOK, Archived, Path, Archive
<1>2. section \in {"pre-data", "single"} => \A t \in Archived.defs : Created[t] = <<>>
  BY <1>1 DEF Errors, Conflicts, Created
<1>3. <<>> # None /\ Append(<<>>, Archived.at) = <<Archived.at>>
  <2>1. <<>> \in Seq(Nat) /\ None \notin Seq(Nat)
    BY OfflineAssumption
  <2>2. Archived.at \in Nat
    BY ConfigType DEF RunInv, TypeOK, Archived, Path, Archive, Instants
  <2> HIDE DEF Archived
  <2>3. Append(<<>>, Archived.at) = <<Archived.at>>
    BY <2>2
  <2> QED
    BY <2>1, <2>3
<1>4. section \in {"data", "single"} => rows = Archived.data
  BY DEF Errors
<1>5. CASE section = "single"
  BY <1>1, <1>2, <1>3, <1>4, <1>5 DEF Restored, Loaded
<1>6. CASE section = "data"
  BY <1>1, <1>3, <1>4, <1>6 DEF Restored, Loaded
<1>7. CASE section \in {"pre-data", "post-data"}
  BY <1>2, <1>7 DEF Restored
<1> QED
  BY <1>5, <1>6, <1>7 DEF Sections

(* Every table with the rows of one instant is what a run is asked for.    *)
LEMMA DeliversAt ==
  ASSUME NEW c \in Writers, NEW at \in 0 .. Now', c.dumpScope # "data-only",
         \A t \in Dumped(c, Tables) :
           target'[t] = IF t \in Wanted(c) THEN <<at>> ELSE <<>>
  PROVE  Delivers(c)'
<1>1. <<>> # None /\ <<at>> # None
  <2>1. <<>> \in Seq(Nat) /\ <<at>> \in Seq(Nat) /\ None \notin Seq(Nat)
    BY OfflineAssumption
  <2> QED
    BY <2>1
<1> QED
  BY <1>1 DEF Delivers, Wanted

(* The restore. *)
LEMMA RunRestores ==
  ASSUME TypeOK, TypeOK', RunInv, RunInv', OfflineProcedure, NEW c \in Writers, cfg = c,
         RunPart(c), pc # "idle", RestoreSection \/ SplitCopyStage \/ SaveRestore
  PROVE  RunPart(c)'
<1> USE DEF InRun, processVars, fileVars, targetVars, countVars, Unfinished
<1>0. /\ outcome = "none" /\ Valid(c) /\ Now' = Now /\ cfg' = c /\ split' = split
      /\ UNCHANGED archives
  BY DEF RunInv, Now, RestoreSection, SplitCopyStage, SaveRestore
<1>1. Contents(c) => Contents(c)'
  BY <1>0, FileStays DEF TypeOK, Now
<1>2. Delivers(c) /\ target' = target => Delivers(c)'
  BY <1>0, DeliversStays DEF TypeOK, Now
<1>3. pc \in Sections \cup {"splitCopy", "saveRestore"} /\ InRun
  BY DEF RestoreSection, SplitCopyStage, SaveRestore, RunInv, Writers, Sections
<1>4. /\ SplitInv(c) /\ TokenInv(c) /\ OwnToken(c) /\ RestoreInv(c) /\ token \in Token
      /\ "Dump" \in token.done /\ "Restore" \notin token.done
      /\ archives[DumpPath(c)].state = "full" /\ Contents(c)
  BY <1>3 DEF RunPart, RunInv, TokenInv
<1>5. c.dumpScope # "data-only"
  BY DEF OfflineProcedure
<1>6. split # NoSplit => Dumped(c, Tables) = Tables /\ Wanted(c) = Tables
  BY <1>4, SplitTakesAll DEF SplitInv
<1>7. archives[DumpPath(c)].at \in 0 .. Now'
  <2>1. archives[DumpPath(c)].at \in Nat /\ Now \in Nat
    BY ConfigType DEF TypeOK, Archive, Instants, Writers, Now
  <2> QED
    BY <1>0, <1>4, <2>1 DEF Contents
<1>8. CASE pc' = "idle"
  <2>1. RestoreSection \/ SplitCopyStage
    BY <1>8 DEF SaveRestore, Goto
  <2>2. outcome' # "done"
    BY <1>8, <2>1 DEF RestoreSection, SplitCopyStage, End, Goto, NextSection, Sections
  <2> QED
    BY <1>8, <2>2, RunEnds
<1>9. CASE pc' # "idle" /\ RestoreSection
  <2> DEFINE file == archives[DumpPath(c)]
  <2>1. PICK rows \in SUBSET Archived.data, fails \in BOOLEAN :
          /\ target' = IF Archived.state = "full" THEN Restored(pc, rows) ELSE target
          /\ IF (fails \/ Errors(pc, rows)) /\ ~Tolerates THEN End("failed")
             ELSE Goto(NextSection(pc))
          /\ ignored' = ((ignored /\ ~Cleans(pc)) \/ ((fails \/ Errors(pc, rows)) /\ Tolerates))
    BY <1>9 DEF RestoreSection
  <2>2. /\ pc \in Sections /\ pc' = NextSection(pc) /\ writer' = DumpPath(c)
        /\ UNCHANGED <<token, disk>>
    BY <1>9, <2>1 DEF RestoreSection, End, Goto, Path
  <2>3. Archived = file /\ target' = Restored(pc, rows)
    BY <1>4, <2>1 DEF Archived, Path
  <2>4. pc' \in {"data", "post-data", "splitCopy", "saveRestore"} /\ outcome' = "none"
    BY <1>0, <1>9, <2>2 DEF NextSection, Sections, RunInv
  <2>5. SplitInv(c)'
    BY <1>0, <1>4, <2>2, <2>4 DEF SplitInv, NextSection, Sections
  <2>6. OwnToken(c)'
    BY <1>4, <2>2, <2>4 DEF OwnToken, Sections
  <2>7. TokenInv(c)'
    BY <1>0, <1>1, <1>4, <2>2, <2>4 DEF TokenInv, Sections
  <2>8. ASSUME ~ignored'
        PROVE  RestoreInv(c)'
    <3>1. ~Errors(pc, rows)
      BY <1>9, <2>1, <2>8 DEF End
    <3>2. pc \notin {"pre-data", "single"} => ~ignored
      BY <2>1, <2>8 DEF Cleans
    <3>3. file.defs = Dumped(c, Tables) /\ file.data = Wanted(c) \ split.plan
      BY <1>4 DEF Contents
    <3>4. file.data \subseteq file.defs
      BY <3>3 DEF Wanted
    <3>5. pc = "data" => \A t \in file.defs : target[t] = <<>>
      BY <1>4, <3>2, <3>3 DEF RestoreInv
    <3>6. /\ pc = "pre-data" => \A t \in file.defs : target'[t] = <<>>
          /\ pc \in {"data", "single"} => \A t \in file.defs :
               target'[t] = IF t \in file.data THEN <<file.at>> ELSE <<>>
          /\ pc = "post-data" => target' = target
      BY <1>5, <2>2, <2>3, <3>1, <3>4, <3>5, SectionLoads
    <3> HIDE DEF file
    <3>7. CASE pc = "pre-data"
      BY <2>2, <3>3, <3>6, <3>7 DEF RestoreInv, NextSection
    <3>8. CASE pc \in {"data", "single"} /\ split = NoSplit
      <4>1. file.data = Wanted(c) /\ file.at \in 0 .. Now'
        BY <1>7, <3>3, <3>8 DEF NoSplit, file
      <4>2. Delivers(c)'
        BY <1>5, <3>3, <3>6, <3>8, <4>1, DeliversAt
      <4> QED
        BY <2>2, <3>8, <4>2 DEF RestoreInv, NextSection
    <3>9. CASE pc = "data" /\ split # NoSplit
      <4>1. pc' = "splitCopy"
        BY <2>2, <3>9 DEF NextSection
      <4>2. \A t \in Tables : target'[t] = IF t \in split.plan THEN <<>> ELSE <<file.at>>
        BY <1>6, <3>3, <3>6, <3>9
      <4> QED
        BY <1>0, <4>1, <4>2 DEF RestoreInv, file
    <3>10. CASE pc = "post-data"
      <4>1. Delivers(c)'
        BY <1>2, <1>4, <3>2, <3>6, <3>10 DEF RestoreInv
      <4> QED
        BY <2>2, <3>10, <4>1 DEF RestoreInv, NextSection
    <3>11. pc = "single" => split = NoSplit
      BY <1>4 DEF SplitInv
    <3> QED
      BY <2>2, <3>7, <3>8, <3>9, <3>10, <3>11 DEF Sections
  <2>9. RestoreInv(c)'
    BY <2>8 DEF RestoreInv
  <2> QED
    BY <1>9, <2>4, <2>5, <2>6, <2>7, <2>9, RunGoes
<1>10. CASE pc' # "idle" /\ SplitCopyStage
  <2>1. /\ pc = "splitCopy" /\ pc' = "post-data" /\ writer' = DumpPath(c) /\ outcome' = "none"
        /\ target' = [t \in Tables |-> IF t \in split.plan THEN <<split.at>> ELSE target[t]]
        /\ UNCHANGED <<token, disk, ignored>>
    BY <1>0, <1>10 DEF SplitCopyStage, End, Goto, Path
  <2>2. /\ split # NoSplit /\ Dumped(c, Tables) = Tables /\ Wanted(c) = Tables
        /\ archives[DumpPath(c)].at = split.at
    BY <1>4, <1>6, <2>1 DEF SplitInv, Contents
  <2>3. ~ignored => Delivers(c)'
    <3> SUFFICES ASSUME ~ignored PROVE Delivers(c)'
      OBVIOUS
    <3>1. \A t \in Tables : target'[t] = <<archives[DumpPath(c)].at>>
      BY <1>4, <2>1, <2>2 DEF RestoreInv
    <3> QED
      BY <1>5, <1>7, <2>2, <3>1, DeliversAt
  <2>4. SplitInv(c)' /\ OwnToken(c)'
    BY <1>0, <1>4, <2>1 DEF SplitInv, OwnToken
  <2>5. TokenInv(c)'
    BY <1>0, <1>1, <1>4, <2>1 DEF TokenInv, Sections
  <2>6. RestoreInv(c)'
    BY <2>1, <2>3 DEF RestoreInv
  <2> QED
    BY <1>10, <2>1, <2>4, <2>5, <2>6, RunGoes
<1>11. CASE SaveRestore
  <2>1. /\ pc = "saveRestore" /\ pc' = "analyze" /\ outcome' = "none" /\ MarkAndSave("Restore")
        /\ UNCHANGED <<target, writer, ignored>>
    BY <1>0, <1>11 DEF SaveRestore, Goto
  <2>2. /\ OwnToken(c)' /\ token'.hash = ConfigHash(c)
        /\ token'.done = token.done \cup {"Restore"}
    BY <1>4, <2>1, OwnSaved DEF TokenInv
  <2>3. ~ignored => Delivers(c)'
    BY <1>2, <1>4, <2>1 DEF RestoreInv
  <2>4. TokenInv(c)'
    BY <1>0, <1>1, <1>4, <2>1, <2>2, <2>3 DEF TokenInv, Sections
  <2>5. SplitInv(c)' /\ RestoreInv(c)'
    BY <1>0, <1>4, <2>1 DEF SplitInv, RestoreInv
  <2> QED
    BY <2>1, <2>2, <2>4, <2>5, RunGoes
<1> QED
  BY <1>8, <1>9, <1>10, <1>11

(* The end of the run. *)
LEMMA RunChecks ==
  ASSUME TypeOK, TypeOK', RunInv, RunInv', CancelInv, NEW c \in Writers, cfg = c, RunPart(c),
         pc # "idle",
         \/ AnalyzeTarget \/ ListTables \/ VerifyTable \/ FinishVerify
         \/ CancelRun \/ Crash \/ Cancel
  PROVE  RunPart(c)'
<1> USE DEF InRun, processVars, fileVars, targetVars, countVars, Unfinished
<1>0. /\ outcome = "none" /\ Now' = Now /\ cfg' = c /\ split' = split /\ Now <= Now'
      /\ UNCHANGED archives
  BY DEF RunInv, Now, AnalyzeTarget, ListTables, VerifyTable, FinishVerify, CancelRun, Crash,
     Interrupted, Cancel, TypeOK
<1>1. Contents(c) => Contents(c)'
  BY <1>0, FileStays
<1>2. Delivers(c) /\ target' = target => Delivers(c)'
  BY <1>0, DeliversStays
<1>3. CASE CancelRun \/ Crash
  BY <1>3, RunEnds DEF CancelRun, Crash, Interrupted, End
<1>4. CASE Cancel \/ VerifyTable
  BY <1>0, <1>4, RunWaits DEF Cancel, VerifyTable
<1>5. CASE AnalyzeTarget
  <2>1. /\ pc = "analyze" /\ pc' = "list" /\ outcome' = "none"
        /\ UNCHANGED <<target, writer, ignored>>
    BY <1>0, <1>5 DEF AnalyzeTarget, Goto
  <2>2. SplitInv(c) /\ TokenInv(c) /\ OwnToken(c) /\ token \in Token
    BY <2>1 DEF RunPart, RunInv, Writers
  <2>3. /\ OwnToken(c)' /\ token'.hash = ConfigHash(c)
        /\ token'.done \in {token.done, token.done \cup {"Analyze"}}
    BY <1>5, <2>1, <2>2, OwnSaved DEF AnalyzeTarget, TokenInv, OwnToken
  <2>4. TokenInv(c)'
    BY <1>0, <1>1, <1>2, <2>1, <2>2, <2>3 DEF TokenInv, Sections
  <2>5. SplitInv(c)' /\ RestoreInv(c)'
    BY <1>0, <2>1, <2>2 DEF SplitInv, RestoreInv
  <2> QED
    BY <2>1, <2>3, <2>4, <2>5, RunGoes
<1>6. CASE ListTables \/ FinishVerify
  <2>1. /\ pc \in {"list", "verify"} /\ pc' \in {"verify", "idle"}
        /\ UNCHANGED <<token, disk, target, writer, ignored>>
    BY <1>6 DEF ListTables, FinishVerify, End, Goto
  <2>2. InRun
    BY <2>1 DEF Writers
  <2>3. /\ SplitInv(c) /\ TokenInv(c) /\ OwnToken(c) /\ "Restore" \in token.done
    BY <2>1, <2>2 DEF RunPart, CancelInv
  <2>4. ~ignored /\ writer = DumpPath(c) => Delivers(c)'
    BY <1>2, <2>1, <2>3 DEF TokenInv
  <2>5. CASE pc' = "idle"
    BY <2>1, <2>4, <2>5 DEF RunPart, ReportInv
  <2>6. CASE pc' = "verify"
    <3>1. outcome' = "none"
      BY <2>6 DEF RunInv
    <3>2. TokenInv(c)'
      BY <1>0, <1>1, <2>1, <2>3, <2>4, <2>6 DEF TokenInv, Sections
    <3>3. SplitInv(c)' /\ OwnToken(c)' /\ RestoreInv(c)'
      BY <1>0, <2>1, <2>3, <2>6 DEF SplitInv, OwnToken, RestoreInv
    <3> QED
      BY <2>6, <3>1, <3>2, <3>3, RunGoes
  <2> QED
    BY <2>1, <2>5, <2>6
<1> QED
  BY <1>3, <1>4, <1>5, <1>6

-----------------------------------------------------------------------------
(* Every step of every run. *)

(* A command line that resumes names its paths, which no start clears. *)
LEMMA NamedPaths ==
  ASSUME NEW c \in Writers, c.resume
  PROVE  DumpPath(c) # "temporary" /\ TokenPath(c) # "temporary"
<1>1. PICK cli \in Commands : c = IntoConfig(cli)
  BY DEF Writers, Configs
<1>2. c.dumpPath = cli.resume.dumpPath /\ c.resumeFile = cli.resume.resumeFile
  BY <1>1 DEF IntoConfig
<1>3. c.dumpPath # "temporary" /\ c.resumeFile # "temporary"
  BY <1>2, OfflineAssumption
<1>4. c.dumpPath # None
  BY DEF Writers, Valid
<1> QED
  BY <1>3, <1>4 DEF DumpPath, TokenPath

(* A new run claims nothing, and clears only the temporary paths.          *)
LEMMA DeliverStart ==
  ASSUME TypeOK, TypeOK', DeliverInv, Start, NEW c \in Writers
  PROVE  (cfg' = c => RunPart(c)') /\ DiskInv(c)'
<1>1. Now' = Now /\ Now <= Now' /\ Now' \in Nat
  BY DEF Start, Now, TypeOK
<1>2. DiskInv(c)'
  <2>1. CASE c.resume
    <3>1. DumpPath(c) # "temporary" /\ TokenPath(c) # "temporary"
      BY <2>1, NamedPaths
    <3>2. /\ disk'[TokenPath(c)] = disk[TokenPath(c)]
          /\ archives'[DumpPath(c)] = archives[DumpPath(c)]
          /\ UNCHANGED <<target, writer, ignored>>
      BY <3>1, ConfigType DEF Start, TypeOK, Writers, targetVars
    <3> QED
      BY <1>1, <3>2, DiskStays DEF DeliverInv
  <2>2. CASE ~c.resume
    BY <2>2 DEF DiskInv
  <2> QED
    BY <2>1, <2>2
<1>3. ASSUME cfg' = c
      PROVE  RunPart(c)'
  <2>1. /\ pc' \in {"idle", "preflight"} /\ outcome' \in {"refused", "none"}
        /\ split' = NoSplit
    BY <1>3 DEF Start, End, Writers
  <2> QED
    BY <1>1, <2>1 DEF RunPart, InRun, SplitInv, ReportInv, NoSplit
<1> QED
  BY <1>2, <1>3

(* What a step of a run does to the token of any command line on disk. *)
LEMMA DeliverRun ==
  ASSUME TypeOK, TypeOK', RunInv, RunInv', CancelInv, DeliverInv, OfflineProcedure,
         NEW d \in Writers, cfg = d, pc # "idle", Migrator \/ Cancel \/ Crash,
         NEW c \in Writers
  PROVE  RunPart(d)' /\ DiskInv(c)'
<1> USE DEF processVars, fileVars, targetVars, countVars, Unfinished
<1>1. RunPart(d) /\ DiskInv(d) /\ DiskInv(c)
  BY DEF DeliverInv
<1>2. RunPart(d)'
  BY <1>1, RunPrepares, RunDumps, RunRestores, RunChecks DEF Migrator
<1> SUFFICES DiskInv(c)'
  BY <1>2
<1>3. Now' = Now /\ Now <= Now' /\ cfg' = d
  BY DEF Migrator, Cancel, Crash, Preflight, LoadToken, VacuumSource, PrepareSplit, StartDump,
     FinishDump, SaveDump, RestoreSection, SplitCopyStage, SaveRestore, AnalyzeTarget, ListTables,
     VerifyTable, FinishVerify, CancelRun, Interrupted, Now, TypeOK
<1>4. ASSUME UNCHANGED <<disk, archives, target, writer, ignored>>
      PROVE  DiskInv(c)'
  BY <1>1, <1>3, <1>4, DiskStays
<1>5. ASSUME NEW stage, MarkAndSave(stage), pc' # "idle", pc \notin {"idle", "preflight", "load"},
             pc' \notin {"preflight", "load"},
             UNCHANGED <<archives, target, writer, ignored, writes>>
      PROVE  DiskInv(c)'
  <2>1. SplitInv(d)' /\ TokenInv(d)'
    BY <1>2, <1>3, <1>5 DEF RunPart, InRun, Writers
  <2> QED
    BY <1>1, <1>5, <2>1, DiskSaved DEF OfflineProcedure
<1>6. pc \notin {"idle", "preflight", "load"} => TokenInv(d) /\ OwnToken(d)
  BY <1>1 DEF RunPart, InRun, Writers
<1>7. CASE Preflight \/ LoadToken \/ PrepareSplit \/ ListTables \/ VerifyTable \/ FinishVerify \/ Cancel
  BY <1>4, <1>7 DEF Preflight, LoadToken, PrepareSplit, ListTables, VerifyTable, FinishVerify, Cancel
<1>8. CASE VacuumSource \/ AnalyzeTarget
  BY <1>4, <1>5, <1>8 DEF VacuumSource, AnalyzeTarget, Goto
<1>9. CASE SaveDump \/ SaveRestore
  BY <1>5, <1>9 DEF SaveDump, SaveRestore, Goto, FirstRestore
<1>10. CASE StartDump
  <2>1. \/ archives' = archives
        \/ /\ "Dump" \notin token.done
           /\ \A p \in Paths \ {DumpPath(d)} : archives'[p] = archives[p]
    BY <1>10 DEF StartDump, SkipDump, Path, TypeOK
  <2>2. pc = "dump" /\ disk' = disk /\ UNCHANGED <<target, writer, ignored>>
    BY <1>10 DEF StartDump
  <2> QED
    BY <1>1, <1>3, <1>6, <2>1, <2>2, DiskWorked DEF OfflineProcedure
<1>11. CASE FinishDump
  <2>1. \/ archives' = archives
        \/ \A p \in Paths \ {DumpPath(d)} : archives'[p] = archives[p]
    BY <1>11 DEF FinishDump, Path, TypeOK
  <2>2. pc = "dumping" /\ disk' = disk /\ UNCHANGED <<target, writer, ignored>>
    BY <1>11 DEF FinishDump
  <2>3. "Dump" \notin token.done
    BY <1>6, <2>2 DEF TokenInv
  <2> QED
    BY <1>1, <1>3, <1>6, <2>1, <2>2, <2>3, DiskWorked DEF OfflineProcedure
<1>12. ASSUME pc \in Sections \cup {"splitCopy"}, disk' = disk, archives' = archives,
              writer' = DumpPath(d)
       PROVE  DiskInv(c)'
  <2>1. "Restore" \notin token.done /\ OwnToken(d) /\ pc # "vacuum"
    BY <1>6, <1>12 DEF TokenInv, Sections
  <2> QED
    BY <1>1, <1>3, <1>12, <2>1, DiskWorked DEF OfflineProcedure
<1>13. CASE RestoreSection \/ SplitCopyStage
  BY <1>12, <1>13 DEF RestoreSection, SplitCopyStage, Path
<1>14. CASE CancelRun \/ Crash
  BY <1>4, <1>12, <1>14 DEF CancelRun, Crash, Interrupted, Path
<1> QED
  BY <1>2, <1>7, <1>8, <1>9, <1>10, <1>11, <1>13, <1>14 DEF Migrator

(* Every step keeps it, whichever command line runs.                       *)
LEMMA DeliverNext ==
  ASSUME TypeOK, TypeOK', RunInv, RunInv', CancelInv, DeliverInv, OfflineProcedure, [Next]_vars
  PROVE  DeliverInv'
<1> SUFFICES ASSUME NEW c \in Writers
             PROVE  (cfg' = c => RunPart(c)') /\ DiskInv(c)'
  BY DEF DeliverInv
<1>1. CASE Start
  BY <1>1, DeliverStart
<1>2. CASE Commit \/ UNCHANGED vars
  <2>1. /\ Now <= Now'
        /\ UNCHANGED <<pc, cfg, outcome, token, split, disk, archives, target, writer, ignored>>
    BY <1>2 DEF Commit, vars, processVars, fileVars, targetVars, countVars, Now, TypeOK
  <2>2. cfg = c => RunPart(c)'
    BY <2>1, RunWaits DEF DeliverInv
  <2>3. DiskInv(c)'
    BY <2>1, DiskStays DEF DeliverInv
  <2> QED
    BY <2>1, <2>2, <2>3
<1>3. CASE Migrator \/ Cancel \/ Crash
  <2>1. pc # "idle" /\ cfg' = cfg
    BY <1>3 DEF Migrator, Cancel, Crash, Preflight, LoadToken, VacuumSource, PrepareSplit, StartDump,
       FinishDump, SaveDump, RestoreSection, SplitCopyStage, SaveRestore, AnalyzeTarget, ListTables,
       VerifyTable, FinishVerify, CancelRun, Interrupted, Unfinished, processVars, Sections,
       Cancellable
  <2>2. cfg \in Configs /\ Valid(cfg) /\ cfg.mode \in {"offline", "verify"}
    BY <2>1, ConfigType DEF RunInv
  <2>3. CASE cfg.mode = "offline"
    <3>1. PICK d \in Writers : d = cfg
      BY <2>2, <2>3 DEF Writers
    <3>2. RunPart(d)' /\ DiskInv(c)'
      BY <1>3, <2>1, <3>1, DeliverRun
    <3> QED
      BY <2>1, <3>1, <3>2
  <2>4. CASE cfg.mode = "verify"
    <3>1. pc \in {"list", "verify"} /\ cfg # c
      BY <2>1, <2>4 DEF RunInv, Writers
    <3>2. UNCHANGED <<disk, archives, target, writer, ignored, writes>>
      BY <1>3, <3>1 DEF Migrator, Cancel, Crash, Preflight, LoadToken, VacuumSource, PrepareSplit,
         StartDump, FinishDump, SaveDump, RestoreSection, SplitCopyStage, SaveRestore,
         AnalyzeTarget, ListTables, VerifyTable, FinishVerify, CancelRun, Interrupted, Sections,
         fileVars, targetVars
    <3>3. DiskInv(c)'
      BY <3>2, DiskStays DEF DeliverInv, Now, TypeOK
    <3> QED
      BY <2>1, <3>1, <3>3
  <2> QED
    BY <2>2, <2>3, <2>4
<1> QED
  BY <1>1, <1>2, <1>3 DEF Next

(* Before the first run there is nothing to claim. *)
LEMMA DeliverInit == Init => DeliverInv
BY ConfigType DEF Init, DeliverInv, RunPart, InRun, ReportInv, DiskInv, Writers

(* Under OfflineProcedure the invariant holds of every run. *)
THEOREM RunsDeliver ==
  ASSUME OfflineProcedure
  PROVE  Spec => [](TypeOK /\ RunInv /\ DeliverInv)
<1>1. TypeOK /\ TypeOK' /\ RunInv /\ RunInv' /\ CancelInv /\ DeliverInv /\ [Next]_vars
        => DeliverInv'
  BY DeliverNext
<1>2. TypeOK /\ RunInv /\ CancelInv /\ [Next]_vars => CancelInv'
  BY CancelInvNext
<1>3. Init => CancelInv
  BY DEF Init, CancelInv, InRun
<1> QED
  BY <1>1, <1>2, <1>3, DeliverInit, TypeCorrect, PTL DEF Spec

(* A run that reports success without tolerated errors has the tables it   *)
(* was asked for on the target, each once and all from one instant, for    *)
(* every number of runs, commits and faults, and every place where the     *)
(* runs before it ended (run_offline, prepare_split).                      *)
THEOREM DeliversAll ==
  ASSUME OfflineProcedure
  PROVE  Spec => []DeliveredWhenDone
<1>1. RunInv /\ DeliverInv => DeliveredWhenDone
  <2> SUFFICES ASSUME RunInv, DeliverInv, outcome = "done", cfg.mode = "offline", ~ignored,
                      writer = DumpPath(cfg)
               PROVE  Delivers(cfg)
    BY DEF DeliveredWhenDone
  <2>1. cfg \in Writers
    BY DEF RunInv, Writers
  <2> QED
    BY <2>1 DEF DeliverInv, RunPart, ReportInv
<1> QED
  BY <1>1, RunsDeliver, PTL

(* The token on disk never claims a dump or a restore that is not there    *)
(* for the command lines that would take it (save_resume after the effect, *)
(* config_hash).                                                           *)
THEOREM TokenTellsTruth ==
  ASSUME OfflineProcedure
  PROVE  Spec => []DiskTokenTruthful
<1>1. DeliverInv => DiskTokenTruthful
  BY DEF DeliverInv, DiskInv, WholeFile, DiskTokenTruthful
<1> QED
  BY <1>1, RunsDeliver, PTL

=============================================================================
