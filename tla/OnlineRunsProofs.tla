-------------------------- MODULE OnlineRunsProofs --------------------------
(***************************************************************************)
(* Proofs about OnlineMigration over runs in any order and with any        *)
(* options: what a cutover leaves behind, what the saved token claims, whose *)
(* publication is dropped, and why the apply phase ends.  Nothing here     *)
(* needs ResumeProcedure; a theorem that holds only for some operators or  *)
(* failures names them.                                                    *)
(***************************************************************************)
EXTENDS OnlineMigrationProofs

-----------------------------------------------------------------------------
(* The publication.                                                        *)

(* While the operator's publication is there, no token was ever told that  *)
(* a run made it.                                                          *)
PublicationInv ==
  pub = "operator" =>
    /\ pc # "savePub"
    /\ token # NoToken => ~token.pubAuto
    /\ disk # NoToken => ~disk.pubAuto

(* Marking a stage leaves who made the publication, and the scope, alone. *)
LEMMA MarkKeeps ==
  ASSUME token \in Token, NEW stage \in Stages
  PROVE  /\ Mark(stage) \in Token
         /\ Mark(stage).pubAuto = token.pubAuto
         /\ Mark(stage).scope = token.scope
         /\ Mark(stage).done = token.done \cup {stage}
BY DEF Mark, Token

(* A save writes the token that it was given, or leaves the disk alone.    *)
LEMMA SaveWrites ==
  ASSUME NEW t, Save(t)
  PROVE  token' = t /\ disk' \in {t, disk}
BY DEF Save

(* Every step keeps it, and keeps the operator's publication.              *)
LEMMA PublicationInvNext ==
  ASSUME TypeOK, TokenHeld, PublicationInv, [Next]_vars
  PROVE  PublicationInv' /\ (pub = "operator" => pub' = "operator")
<1> USE AbsentAssumption
    DEF PublicationInv, TypeOK, TokenHeld, EarlySteps, memoryVars, fileVars, historyVars,
        pgVars, sourceVars, targetVars
<1>1. ASSUME token \in Token, NEW stage \in Stages, Save(Mark(stage)),
             pc' # "savePub", pub' = pub
      PROVE  PublicationInv'
  BY <1>1, MarkKeeps, SaveWrites
<1>2. ASSUME UNCHANGED <<token, disk, pub>>, pc' # "savePub"
      PROVE  PublicationInv'
  BY <1>2
<1>3. ASSUME token' = NoToken, UNCHANGED <<disk, pub>>, pc' # "savePub"
      PROVE  PublicationInv'
  BY <1>3
<1>4. CASE Preflight \/ CleanSub \/ CleanSlot
  BY <1>2, <1>4 DEF Preflight, CleanSub, CleanSlot, DropIdleSlot
<1>5. CASE LoadToken
  <2>1. Fresh(opts).pubAuto = FALSE
    BY DEF Fresh
  <2> QED
    BY <1>3, <1>5, <2>1 DEF LoadToken, End
<1>6. CASE VacuumSource
  BY <1>1, <1>2, <1>6 DEF VacuumSource, Stages, SkipTo, SkipDump
<1>7. CASE EnsurePublication
  BY <1>7 DEF EnsurePublication, End
<1>8. CASE SavePublication
  BY <1>8 DEF SavePublication
<1>9. CASE PrepareSlot \/ StartDump \/ FinishDump
  BY <1>2, <1>9 DEF PrepareSlot, CreateSlot, StartDump, FinishDump
<1>10. CASE SaveSlot \/ SaveDump \/ SaveRestore
  BY <1>1, <1>10 DEF SaveSlot, SaveDump, SaveRestore, Stages, SkipDump
<1>11. CASE RestorePreData \/ RestoreData \/ RestorePostData
  BY <1>2, <1>3, <1>11 DEF RestorePreData, RestoreData, RestorePostData, End
<1>12. CASE AnalyzeTarget
  BY <1>1, <1>2, <1>12 DEF AnalyzeTarget, Stages
<1>13. CASE DisableStale \/ WaitSlot \/ AttachSubscription
  BY <1>2, <1>3, <1>13 DEF DisableStale, WaitSlot, AttachSubscription, End
<1>14. CASE ApplyCutover \/ ApplyCancel \/ ApplyUnhealthy
  BY <1>2, <1>14 DEF ApplyCutover, ApplyCancel, ApplyUnhealthy, LeaveLoop
<1>15. CASE TeardownDisable \/ TeardownDetach \/ TeardownDrop
  BY <1>2, <1>15 DEF TeardownDisable, TeardownDetach, TeardownDrop, TeardownStep, AfterDisable
<1>16. CASE FinishApply
  BY <1>3, <1>16, SaveWrites DEF FinishApply, End, AfterApply, AfterSync
<1>17. CASE SyncSequences \/ WaitDrop \/ DropSlot
  BY <1>2, <1>17 DEF SyncSequences, AfterSync, WaitDrop, DropSlot, DropIdleSlot
<1>18. CASE DropPublication
  BY <1>18 DEF DropPublication
<1>19. CASE Complete \/ CancelRun \/ Crash
  BY <1>3, <1>19 DEF Complete, CancelRun, Crash, EndAtStep, End
<1>20. CASE PostgreSQL
  BY <1>2, <1>20 DEF PostgreSQL, Background, Commit, WorkerStart, WorkerApply,
       WorkerFeedback, WorkerExit, SenderExit
<1>21. CASE Interrupt
  BY <1>2, <1>21 DEF Interrupt
<1>22. ASSUME NEW o \in Options, Start(o)
       PROVE  PublicationInv' /\ (pub = "operator" => pub' = "operator")
  BY <1>2, <1>22 DEF Start
<1>23. CASE UNCHANGED vars
  BY <1>2, <1>23 DEF vars
<1> QED
  BY <1>4, <1>5, <1>6, <1>7, <1>8, <1>9, <1>10, <1>11, <1>12, <1>13, <1>14, <1>15, <1>16,
     <1>17, <1>18, <1>19, <1>20, <1>21, <1>22, <1>23
  DEF Next, Migrator, Operator

(* Whatever runs with whatever options, crashes and failed calls came      *)
(* before, no step drops the publication that the operator had made        *)
(* (ensure_publication_exists, publication_auto_created in the token,      *)
(* cleanup_source_after_cutover).                                          *)
THEOREM KeepsOperatorPublication == Spec => OperatorPublicationKept
<1>1. Init => PublicationInv
  BY DEF Init, PublicationInv
<1>2. TypeOK /\ TokenHeld /\ PublicationInv /\ [Next]_vars => PublicationInv'
  BY PublicationInvNext
<1>3. TypeOK /\ TokenHeld /\ PublicationInv /\ [Next]_vars
        => [pub = "operator" => pub' = "operator"]_vars
  BY PublicationInvNext
<1> QED
  BY <1>1, <1>2, <1>3, TypeCorrect, PTL DEF Spec, OperatorPublicationKept

-----------------------------------------------------------------------------
(* The refinement: every step of the pipeline, the servers and the operator *)
(* is a step of ApplyPhase or changes nothing that it sees.                *)

PhaseSteps    == {"apply"} \cup TeardownSteps
OutsideSteps  == (Steps \cup {"idle"}) \ PhaseSteps

(* A step that stays outside of the apply phase, or enters it, may change   *)
(* what the operator asked for and the worker in any way.                  *)
LEMMA StepsOutside ==
  ASSUME TypeOK, TypeOK', pc \in OutsideSteps, pc' \in OutsideSteps \cup {"apply"}
  PROVE  Phase!Outside
BY DEF TypeOK, PgTypeOK, Steps, OutsideSteps, PhaseSteps, TeardownSteps, Phase!Outside, Requested, Cancelled

(* Over every sequence of runs, with any options, crashes and failed calls: *)
(* streaming ends because the operator asked for it or because its worker  *)
(* was found dead, and never because the target caught up; the teardown    *)
(* comes once and keeps the reason (run_native_apply, teardown_subscription). *)
THEOREM RunsImplementPhase == Spec => EndsForAReason
<1>1. Init => Phase!Init
  BY DEF Init, PgInit, Phase!Init, Requested, Cancelled, TeardownSteps
<1>2. TypeOK /\ TypeOK' /\ [Next]_vars => [Phase!Next]_Phase!vars
  <2> SUFFICES ASSUME TypeOK, TypeOK', [Next]_vars PROVE [Phase!Next]_Phase!vars
    OBVIOUS
  <2> USE DEF Phase!vars, Phase!Next, memoryVars, fileVars, historyVars, pgVars,
          sourceVars, targetVars, Requested, Cancelled
  <2>1. ASSUME pc \in OutsideSteps, pc' \in OutsideSteps \cup {"apply"}
        PROVE  Phase!Next
    BY <2>1, StepsOutside
  <2>2. ASSUME pc \in PhaseSteps, End("failed"), UNCHANGED worker
        PROVE  Phase!Next
    BY <2>2 DEF End, PhaseSteps, TeardownSteps, Phase!Die
  <2>3. ASSUME pc \in TeardownSteps, pc' \in TeardownSteps, UNCHANGED <<exit, interrupts>>
        PROVE  [Phase!Next]_Phase!vars
    BY <2>3 DEF TypeOK, PgTypeOK, TeardownSteps, Phase!Worker
  <2>4. CASE Preflight \/ CleanSub \/ CleanSlot \/ LoadToken \/ VacuumSource
    BY <2>1, <2>4 DEF Preflight, CleanSub, CleanSlot, LoadToken, VacuumSource, End, SkipTo,
         SkipDump, OutsideSteps, PhaseSteps, TeardownSteps, Steps
  <2>5. CASE EnsurePublication \/ SavePublication \/ PrepareSlot \/ SaveSlot
    BY <2>1, <2>5 DEF EnsurePublication, SavePublication, PrepareSlot, SaveSlot, End,
         OutsideSteps, PhaseSteps, TeardownSteps, Steps
  <2>6. CASE StartDump \/ FinishDump \/ SaveDump
    BY <2>1, <2>6 DEF StartDump, FinishDump, SaveDump, SkipDump, OutsideSteps, PhaseSteps,
         TeardownSteps, Steps
  <2>7. CASE RestorePreData \/ RestoreData \/ RestorePostData \/ SaveRestore
    BY <2>1, <2>7 DEF RestorePreData, RestoreData, RestorePostData, SaveRestore, End,
         OutsideSteps, PhaseSteps, TeardownSteps, Steps
  <2>8. CASE AnalyzeTarget \/ DisableStale \/ WaitSlot \/ AttachSubscription
    BY <2>1, <2>8 DEF AnalyzeTarget, DisableStale, WaitSlot, AttachSubscription, End,
         OutsideSteps, PhaseSteps, TeardownSteps, Steps
  <2>9. CASE ApplyCutover \/ ApplyCancel \/ ApplyUnhealthy
    BY <2>9 DEF ApplyCutover, ApplyCancel, ApplyUnhealthy, LeaveLoop, TeardownSteps, Phase!Leave
  <2>10. CASE TeardownDisable \/ TeardownDetach \/ TeardownDrop
    BY <2>3, <2>10 DEF TeardownDisable, TeardownDetach, TeardownDrop, TeardownStep,
         AfterDisable, TeardownSteps
  <2>11. CASE FinishApply
    <3>1. CASE exit = "error"
      BY <2>2, <2>11, <3>1 DEF FinishApply, PhaseSteps, TeardownSteps
    <3>2. CASE exit # "error"
      BY <2>11, <3>2 DEF FinishApply, AfterApply, AfterSync, TeardownSteps, Phase!Finish
    <3> QED
      BY <3>1, <3>2
  <2>12. CASE SyncSequences \/ DropPublication \/ WaitDrop \/ DropSlot \/ Complete
    BY <2>1, <2>12 DEF SyncSequences, DropPublication, WaitDrop, DropSlot, Complete, End,
         AfterSync, OutsideSteps, PhaseSteps, TeardownSteps, Steps
  <2>13. CASE CancelRun
    BY <2>1, <2>13 DEF CancelRun, EndAtStep, Cancellable, End, OutsideSteps, PhaseSteps, TeardownSteps, Steps
  <2>14. CASE PostgreSQL
    BY <2>14 DEF PostgreSQL, TypeOK, PgTypeOK, Phase!Worker
  <2>15. CASE Interrupt
    <3>1. CASE pc \in PhaseSteps
      BY <2>15, <3>1 DEF Interrupt, PhaseSteps, TeardownSteps, Phase!Operator
    <3>2. CASE pc \notin PhaseSteps
      BY <2>1, <2>15, <3>2 DEF Interrupt, TypeOK, OutsideSteps
    <3> QED
      BY <3>1, <3>2
  <2>16. ASSUME NEW o \in Options, Start(o) PROVE Phase!Next
    BY <2>1, <2>16 DEF Start, OutsideSteps, PhaseSteps, TeardownSteps, Steps
  <2>17. CASE Crash
    <3>1. CASE pc \in PhaseSteps
      BY <2>2, <2>17, <3>1 DEF Crash, EndAtStep
    <3>2. CASE pc \notin PhaseSteps
      BY <2>1, <2>17, <3>2 DEF Crash, EndAtStep, End, TypeOK, OutsideSteps, PhaseSteps, TeardownSteps, Steps
    <3> QED
      BY <3>1, <3>2
  <2>18. CASE UNCHANGED vars
    BY <2>18 DEF vars
  <2> QED
    BY <2>4, <2>5, <2>6, <2>7, <2>8, <2>9, <2>10, <2>11, <2>12, <2>13, <2>14, <2>15, <2>16,
       <2>17, <2>18
    DEF Next, Migrator, Operator
<1> QED
  BY <1>1, <1>2, TypeCorrect, PTL DEF Spec, EndsForAReason, Phase!Spec

-----------------------------------------------------------------------------
(* What a cutover leaves behind.                                           *)

(* Nothing on the target, in the archive or recorded as a position is ahead *)
(* of what the source committed.                                           *)
RowsCommitted ==
  /\ archive.pos <= wal /\ confirmed <= wal /\ origin <= wal
  /\ snapshot # NoSnapshot => snapshot <= wal
  /\ \A t \in Txn : copies[t] > 0 => t <= wal

(* Where the pipeline is after the loop tells why it ended. *)
ExitInv ==
  /\ outcome = "cutover" => pc = "idle"
  /\ pc \in {"detach", "dropSub"} => exit = "cutover" /\ opts.dropSub
  /\ pc \in {"syncSeq", "dropPub", "waitDrop", "dropSlot"} => exit = "cutover"
  /\ pc \in {"waitDrop", "dropSlot"} => opts.dropSlot

CutOver(steps) == outcome = "cutover" \/ (exit = "cutover" /\ pc \in steps)

(* As long as no call failed: once disabled the subscription stays so, and  *)
(* what each step of the cutover removed or synced is not undone.          *)
CutoverInv ==
  faults = 0 =>
    /\ outcome = "cutover" \/ pc \in {"detach", "dropSub"} \cup CutoverWindow => sub # "enabled"
    /\ CutOver(CutoverWindow) /\ opts.dropSub => sub = "absent"
    /\ pc = "dropSlot" => slot # "active"
    /\ CutOver({"complete"}) /\ opts.dropSlot => slot = "absent"
    /\ CutOver({"dropPub", "waitDrop", "dropSlot", "complete"}) /\ opts.syncSeq =>
         \A t \in Txn : copies[t] > 0 => t <= tgtSeq

(* Rows reach the target from the dump and the WAL only.                   *)
LEMMA RowsCommittedNext ==
  ASSUME TypeOK, RowsCommitted, [Next]_vars
  PROVE  RowsCommitted'
<1> USE MaxWalAssumption, AbsentAssumption
    DEF RowsCommitted, TypeOK, PgTypeOK, Archive, Lsn, Txn, memoryVars, fileVars, historyVars,
        pgVars, sourceVars, targetVars
<1>1. ASSUME UNCHANGED <<archive, wal, confirmed, origin, copies>>, snapshot' \in {snapshot, NoSnapshot}
      PROVE  RowsCommitted'
  BY <1>1
<1>2. CASE Preflight \/ LoadToken \/ VacuumSource \/ EnsurePublication \/ SavePublication
  BY <1>1, <1>2 DEF Preflight, LoadToken, VacuumSource, EnsurePublication, SavePublication, End
<1>3. CASE CleanSub
  BY <1>3 DEF CleanSub, DropSubscription
<1>4. CASE CleanSlot
  BY <1>4 DEF CleanSlot, DropIdleSlot
<1>5. CASE PrepareSlot
  BY <1>5 DEF PrepareSlot, CreateSlot
<1>6. CASE StartDump
  BY <1>6 DEF StartDump, DumpPosition
<1>7. CASE FinishDump
  BY <1>7 DEF FinishDump
<1>8. CASE SaveSlot \/ SaveDump \/ SaveRestore
  BY <1>1, <1>8 DEF SaveSlot, SaveDump, SaveRestore
<1>9. CASE RestorePreData
  <2>1. \A t \in Txn : copies'[t] > 0 => t <= wal
    BY <1>9 DEF RestorePreData, NoRows, CutPreData
  <2> QED
    BY <1>9, <2>1 DEF RestorePreData, End
<1>10. CASE RestoreData
  <2>1. ASSUME NEW loaded \in SUBSET (1 .. archive.pos), LoadRows(loaded), NEW t \in Txn,
               copies'[t] > 0
        PROVE  t <= wal
    BY <2>1 DEF LoadRows, Again
  <2>2. \A t \in Txn : copies'[t] > 0 => t <= wal
    BY <1>10, <2>1 DEF RestoreData
  <2> QED
    BY <1>10, <2>2 DEF RestoreData
<1>11. CASE RestorePostData \/ AnalyzeTarget \/ DisableStale \/ WaitSlot
  BY <1>1, <1>11 DEF RestorePostData, AnalyzeTarget, DisableStale, DisableSubscription, WaitSlot, End
<1>12. CASE AttachSubscription
  BY <1>12 DEF AttachSubscription
<1>13. CASE ApplyCutover \/ ApplyCancel \/ ApplyUnhealthy
  BY <1>1, <1>13 DEF ApplyCutover, ApplyCancel, ApplyUnhealthy, LeaveLoop
<1>14. CASE TeardownDisable \/ TeardownDetach
  BY <1>1, <1>14 DEF TeardownDisable, TeardownDetach, TeardownStep, DisableSubscription, DetachSlot
<1>15. CASE TeardownDrop
  BY <1>15 DEF TeardownDrop, TeardownStep, DropSubscription
<1>16. CASE FinishApply \/ SyncSequences \/ DropPublication \/ WaitDrop
  BY <1>1, <1>16 DEF FinishApply, SyncSequences, DropPublication, WaitDrop, End
<1>17. CASE DropSlot
  BY <1>17 DEF DropSlot, DropIdleSlot
<1>18. CASE Complete \/ Interrupt \/ UNCHANGED vars
  BY <1>1, <1>18 DEF Complete, Interrupt, End, vars
<1>21. CASE CancelRun \/ Crash
  <2> SUFFICES ASSUME NEW r \in {"failed", "cancelled"}, EndAtStep(r)
               PROVE  RowsCommitted'
    BY <1>21 DEF CancelRun, Crash
  <2>1. ASSUME NEW t \in Txn, copies'[t] > 0 PROVE t <= wal
    <3>1. CASE pc = "preData"
      BY <2>1, <3>1 DEF EndAtStep, CutPreData, NoRows
    <3>2. CASE pc = "data"
      BY <2>1, <3>2 DEF EndAtStep, CutData, LoadRows, Again
    <3>3. CASE pc \notin {"preData", "data"}
      BY <2>1, <3>3 DEF EndAtStep
    <3> QED
      BY <3>1, <3>2, <3>3
  <2> QED
    BY <2>1 DEF EndAtStep, End
<1>19. CASE PostgreSQL
  <2>1. CASE Commit \/ WorkerStart \/ WorkerExit \/ SenderExit
    BY <1>19, <2>1 DEF PostgreSQL, Commit, WorkerStart, WorkerExit, SenderExit
  <2>2. CASE WorkerApply
    BY <1>19, <2>2 DEF PostgreSQL, WorkerApply, Position
  <2>3. CASE WorkerFeedback
    BY <1>19, <2>3 DEF PostgreSQL, WorkerFeedback
  <2> QED
    BY <1>19, <2>1, <2>2, <2>3 DEF PostgreSQL, Background
<1>20. ASSUME NEW o \in Options, Start(o) PROVE RowsCommitted'
  BY <1>1, <1>20 DEF Start
<1> QED
  BY <1>2, <1>3, <1>4, <1>5, <1>6, <1>7, <1>8, <1>9, <1>10, <1>11, <1>12, <1>13, <1>14, <1>15,
     <1>16, <1>17, <1>18, <1>19, <1>20, <1>21
  DEF Next, Migrator, Operator

(* A step of the cleanup belongs to a cutover that asked for it.           *)
LEMMA ExitInvNext ==
  ASSUME ExitInv, [Next]_vars
  PROVE  ExitInv'
<1> USE DEF ExitInv, memoryVars, fileVars, historyVars
<1>1. ASSUME UNCHANGED <<outcome, opts>>, pc # "idle",
             pc' \notin {"detach", "dropSub", "syncSeq", "dropPub", "waitDrop", "dropSlot"}
      PROVE  ExitInv'
  BY <1>1
<1>2. ASSUME NEW result \in {"failed", "cancelled", "cutover", "stopped"}, End(result)
      PROVE  ExitInv'
  BY <1>2 DEF End
<1>3. CASE Preflight \/ CleanSub \/ CleanSlot \/ LoadToken \/ VacuumSource
  BY <1>1, <1>2, <1>3 DEF Preflight, CleanSub, CleanSlot, LoadToken, VacuumSource, SkipTo, SkipDump
<1>4. CASE EnsurePublication \/ SavePublication \/ PrepareSlot \/ SaveSlot
  BY <1>1, <1>2, <1>4 DEF EnsurePublication, SavePublication, PrepareSlot, SaveSlot
<1>5. CASE StartDump \/ FinishDump \/ SaveDump
  BY <1>1, <1>5 DEF StartDump, FinishDump, SaveDump, SkipDump
<1>6. CASE RestorePreData \/ RestoreData \/ RestorePostData \/ SaveRestore
  BY <1>1, <1>2, <1>6 DEF RestorePreData, RestoreData, RestorePostData, SaveRestore
<1>7. CASE AnalyzeTarget \/ DisableStale \/ WaitSlot \/ AttachSubscription
  BY <1>1, <1>2, <1>7 DEF AnalyzeTarget, DisableStale, WaitSlot, AttachSubscription
<1>8. CASE ApplyCutover \/ ApplyCancel \/ ApplyUnhealthy
  BY <1>1, <1>8 DEF ApplyCutover, ApplyCancel, ApplyUnhealthy, LeaveLoop
<1>9. CASE TeardownDisable \/ TeardownDetach \/ TeardownDrop
  BY <1>9 DEF TeardownDisable, TeardownDetach, TeardownDrop, TeardownStep, AfterDisable
<1>10. CASE FinishApply
  BY <1>2, <1>10 DEF FinishApply, AfterApply, AfterSync
<1>11. CASE SyncSequences \/ DropPublication \/ WaitDrop \/ DropSlot
  BY <1>11 DEF SyncSequences, DropPublication, WaitDrop, DropSlot, AfterSync
<1>12. CASE Complete \/ CancelRun \/ Crash
  BY <1>2, <1>12 DEF Complete, CancelRun, Crash, EndAtStep
<1>13. CASE PostgreSQL \/ UNCHANGED vars
  BY <1>13 DEF PostgreSQL, vars
<1>14. CASE Interrupt
  BY <1>14 DEF Interrupt
<1>15. ASSUME NEW o \in Options, Start(o) PROVE ExitInv'
  BY <1>15 DEF Start
<1> QED
  BY <1>3, <1>4, <1>5, <1>6, <1>7, <1>8, <1>9, <1>10, <1>11, <1>12, <1>13, <1>14, <1>15
  DEF Next, Migrator, Operator

(* Ignored errors are counted and never forgotten. *)
LEMMA FaultsGrow ==
  ASSUME TypeOK, [Next]_vars, faults' = 0
  PROVE  faults = 0
BY BoundsAssumption
DEF TypeOK, Next, Migrator, Operator, PostgreSQL, Preflight, CleanSub, CleanSlot, LoadToken,
    VacuumSource, EnsurePublication, SavePublication, PrepareSlot, SaveSlot, StartDump,
    FinishDump, SaveDump, RestorePreData, RestoreData, RestorePostData, SaveRestore,
    AnalyzeTarget, DisableStale, WaitSlot, AttachSubscription, ApplyCutover, ApplyCancel,
    ApplyUnhealthy, LeaveLoop, TeardownDisable, TeardownDetach, TeardownDrop, TeardownStep,
    FinishApply, SyncSequences, DropPublication, WaitDrop, DropSlot, Complete, CancelRun,
    Interrupt, Crash, EndAtStep, Start, End, Save, Tolerated, vars, historyVars

(* Every step without a failed call keeps it.                              *)
LEMMA CutoverInvNext ==
  ASSUME TypeOK, RowsCommitted, ExitInv, CutoverInv, [Next]_vars
  PROVE  CutoverInv'
<1> SUFFICES ASSUME faults' = 0 PROVE CutoverInv'
  BY DEF CutoverInv
<1>0. faults = 0
  BY FaultsGrow
<1> USE <1>0, MaxWalAssumption, BoundsAssumption
    DEF RowsCommitted, ExitInv, CutoverInv, CutOver, CutoverWindow, TypeOK, memoryVars,
        fileVars, historyVars, pgVars, sourceVars, targetVars
(* Before the teardown, and when a run ends without a cutover, there is     *)
(* nothing to keep.                                                        *)
<1>1. ASSUME outcome' # "cutover", pc' \notin {"detach", "dropSub"} \cup CutoverWindow
      PROVE  CutoverInv'
  BY <1>1
<1>2. ASSUME NEW result \in {"failed", "cancelled"}, End(result)
      PROVE  CutoverInv'
  BY <1>1, <1>2 DEF End
<1>3. CASE Preflight \/ CleanSub \/ CleanSlot \/ LoadToken \/ VacuumSource
  BY <1>1, <1>2, <1>3 DEF Preflight, CleanSub, CleanSlot, LoadToken, VacuumSource, SkipTo, SkipDump
<1>4. CASE EnsurePublication \/ SavePublication \/ PrepareSlot \/ SaveSlot
  BY <1>1, <1>2, <1>4 DEF EnsurePublication, SavePublication, PrepareSlot, SaveSlot
<1>5. CASE StartDump \/ FinishDump \/ SaveDump
  BY <1>1, <1>5 DEF StartDump, FinishDump, SaveDump, SkipDump
<1>6. CASE RestorePreData \/ RestoreData \/ RestorePostData \/ SaveRestore
  BY <1>1, <1>2, <1>6 DEF RestorePreData, RestoreData, RestorePostData, SaveRestore
<1>7. CASE AnalyzeTarget \/ DisableStale \/ WaitSlot \/ AttachSubscription
  BY <1>1, <1>2, <1>7 DEF AnalyzeTarget, DisableStale, WaitSlot, AttachSubscription
<1>8. CASE ApplyCutover \/ ApplyCancel \/ ApplyUnhealthy
  BY <1>1, <1>8 DEF ApplyCutover, ApplyCancel, ApplyUnhealthy, LeaveLoop
<1>9. CASE TeardownDisable
  BY <1>9 DEF TeardownDisable, TeardownStep, Tolerated, DisableSubscription, AfterDisable
<1>10. CASE TeardownDetach
  BY <1>10 DEF TeardownDetach, TeardownStep, Tolerated, DetachSlot
<1>11. CASE TeardownDrop
  BY <1>11 DEF TeardownDrop, TeardownStep, Tolerated, DropSubscription
<1>12. CASE FinishApply
  BY <1>2, <1>12 DEF FinishApply, AfterApply, AfterSync
<1>13. CASE SyncSequences
  BY <1>13 DEF SyncSequences, Tolerated, AfterSync
<1>14. CASE DropPublication
  BY <1>14 DEF DropPublication
<1>15. CASE WaitDrop
  BY <1>15 DEF WaitDrop, Tolerated, SlotFree
<1>16. CASE DropSlot
  BY <1>16 DEF DropSlot, Tolerated, DropIdleSlot, PgTypeOK
<1>17. CASE Complete
  BY <1>17 DEF Complete, End
<1>18. CASE CancelRun \/ Crash
  BY <1>2, <1>18 DEF CancelRun, Crash, EndAtStep
<1>19. CASE PostgreSQL
  <2>1. CASE outcome # "cutover" /\ pc \notin {"detach", "dropSub"} \cup CutoverWindow
    BY <1>1, <1>19, <2>1 DEF PostgreSQL
  <2>2. CASE outcome = "cutover" \/ pc \in {"detach", "dropSub"} \cup CutoverWindow
    <3>1. sub # "enabled"
      BY <2>2
    <3> QED
      BY <1>19, <3>1 DEF PostgreSQL, Background, Commit, WorkerStart, WorkerApply, WorkerFeedback,
           WorkerExit, SenderExit
  <2> QED
    BY <2>1, <2>2
<1>20. CASE Interrupt
  BY <1>20 DEF Interrupt
<1>21. ASSUME NEW o \in Options, Start(o) PROVE CutoverInv'
  BY <1>1, <1>21 DEF Start
<1>22. CASE UNCHANGED vars
  BY <1>22 DEF vars
<1> QED
  BY <1>3, <1>4, <1>5, <1>6, <1>7, <1>8, <1>9, <1>10, <1>11, <1>12, <1>13, <1>14, <1>15, <1>16,
     <1>17, <1>18, <1>19, <1>20, <1>21, <1>22
  DEF Next, Migrator, Operator

(* The three invariants of the cutover hold of every sequence of runs,     *)
(* whatever failed before: a failed call only ends what CutoverInv         *)
(* promises.                                                               *)
THEOREM CutoverInvariant == Spec => [](RowsCommitted /\ ExitInv /\ CutoverInv)
<1>1. Init => RowsCommitted /\ ExitInv /\ CutoverInv
  BY DEF Init, PgInit, RowsCommitted, ExitInv, CutoverInv, CutOver, CutoverWindow, Txn
<1> QED
  BY <1>1, RowsCommittedNext, ExitInvNext, CutoverInvNext, TypeCorrect, PTL DEF Spec

(* In a cutover without failed calls the sequences are synced after the    *)
(* last row that can still arrive, so the target's next value is free, and *)
(* nothing later changes that (run_online: teardown_subscription, then     *)
(* sync_sequences).                                                        *)
THEOREM CoversSequences == Spec => []SequencesCovered
<1>1. TypeOK /\ ExitInv /\ CutoverInv => SequencesCovered
  BY DEF ExitInv, CutoverInv, CutOver, SequencesCovered
<1> QED
  BY <1>1, CutoverInvariant, TypeCorrect, PTL

(* ... and the subscription and the slot are gone if the options say so,    *)
(* and never come back (teardown_subscription, wait_for_slot_inactive,     *)
(* drop_replication_slot).                                                 *)
THEOREM CleansUpAfterCutover == Spec => []CutoverCleansUp
<1>1. CutoverInv => CutoverCleansUp
  BY DEF CutoverInv, CutOver, CutoverCleansUp
<1> QED
  BY <1>1, CutoverInvariant, PTL

-----------------------------------------------------------------------------
(* What the saved token claims.                                            *)

Truthful(t) ==
  t # NoToken =>
    /\ "Dump" \in t.done => archive.state = "complete" /\ archive.scope = t.scope
    /\ "Restore" \in t.done => "Dump" \in t.done /\ (faults = 0 => base = "rows")

(* Both tokens tell the truth.  Before a run touches the archive or the     *)
(* target again, its own token has replaced the one on disk, or is that    *)
(* one, so that none claims what is about to be taken away.                *)
TokenInv ==
  /\ Truthful(disk) /\ Truthful(token)
  /\ pc \in EarlySteps => token = NoToken
  /\ token # NoToken => token.scope = opts.scope
  /\ pc = "vacuum" /\ "Dump" \in token.done => disk = token
  /\ pc \in SlotSteps \cup DumpWindow => "Dump" \notin token.done
  /\ pc \in {"dump", "dumping", "saveDump"} => ~DumpSaved
  /\ pc \in {"dumping", "saveDump"} => archive.scope = opts.scope
  /\ pc = "saveDump" => archive.state = "complete"
  /\ pc \in RestoreSteps => "Dump" \in token.done /\ "Restore" \notin token.done /\ ~RestoreSaved
  /\ pc = "data" /\ faults = 0 => base \in {"objects", "rows"}
  /\ pc \in {"postData", "saveRestore"} /\ faults = 0 => base = "rows"

(* Every step keeps the token behind the archive and the rows that it      *)
(* claims.                                                                 *)
LEMMA TokenInvNext ==
  ASSUME SavesBeforeDump, TypeOK, TokenHeld, TokenInv, [Next]_vars
  PROVE  TokenInv'
<1> USE BoundsAssumption, AbsentAssumption
    DEF TokenInv, Truthful, SlotSteps, DumpWindow, RestoreSteps, RestoreWindow, DumpSaved,
        RestoreSaved, EarlySteps, memoryVars, fileVars, historyVars, pgVars, sourceVars,
        targetVars
<1>0. faults' = 0 => faults = 0
  BY FaultsGrow
<1>t. /\ token \in Token \cup {NoToken} /\ disk \in Token \cup {NoToken}
      /\ pc \notin EarlySteps => token \in Token
  BY DEF TypeOK, TokenHeld
<1>1. CASE Preflight \/ CleanSub \/ CleanSlot
  BY <1>0, <1>1 DEF Preflight, CleanSub, CleanSlot, DropSubscription
<1>2. CASE LoadToken
  BY <1>0, <1>2, <1>t DEF LoadToken, Fresh, End
<1>3. CASE VacuumSource
  BY <1>0, <1>3, <1>t, MarkKeeps, SaveWrites DEF VacuumSource, Stages, SkipTo, SkipDump
<1>4. CASE EnsurePublication
  BY <1>0, <1>4, <1>t DEF EnsurePublication, End
<1>5. CASE SavePublication
  BY <1>0, <1>5, <1>t, SaveWrites DEF SavePublication, Token
<1>6. CASE PrepareSlot
  BY <1>0, <1>6, <1>t DEF PrepareSlot
<1>7. CASE SaveSlot
  BY <1>0, <1>7, <1>t, MarkKeeps DEF SaveSlot, Save, Tolerated, SavesBeforeDump, Stages
<1>8. CASE StartDump
  BY <1>0, <1>8, <1>t DEF StartDump
<1>9. CASE FinishDump
  BY <1>0, <1>9, <1>t DEF FinishDump, TypeOK, Archive
<1>10. CASE SaveDump
  BY <1>0, <1>10, <1>t, MarkKeeps, SaveWrites DEF SaveDump, Stages, SkipDump
<1>11. CASE RestorePreData
  BY <1>0, <1>11, <1>t DEF RestorePreData, Tolerated, TypeOK, PgTypeOK, End
<1>12. CASE RestoreData
  BY <1>0, <1>12, <1>t DEF RestoreData, Tolerated, TypeOK
<1>13. CASE RestorePostData
  BY <1>0, <1>13, <1>t DEF RestorePostData
<1>14. CASE SaveRestore
  BY <1>0, <1>14, <1>t, MarkKeeps, SaveWrites DEF SaveRestore, Stages
<1>15. CASE AnalyzeTarget
  BY <1>0, <1>15, <1>t, MarkKeeps, SaveWrites DEF AnalyzeTarget, Stages
<1>16. CASE DisableStale \/ WaitSlot \/ AttachSubscription
  BY <1>0, <1>16, <1>t DEF DisableStale, DisableSubscription, WaitSlot, AttachSubscription, End
<1>17. CASE ApplyCutover \/ ApplyCancel \/ ApplyUnhealthy
  BY <1>0, <1>17, <1>t DEF ApplyCutover, ApplyCancel, ApplyUnhealthy, LeaveLoop
<1>18. CASE TeardownDisable \/ TeardownDetach \/ TeardownDrop
  BY <1>0, <1>18, <1>t DEF TeardownDisable, TeardownDetach, TeardownDrop, TeardownStep,
       AfterDisable, DisableSubscription, DetachSlot, DropSubscription
<1>19. CASE FinishApply
  BY <1>0, <1>19, <1>t, SaveWrites DEF FinishApply, End, AfterApply, AfterSync
<1>20. CASE SyncSequences \/ DropPublication \/ WaitDrop \/ DropSlot
  BY <1>0, <1>20, <1>t DEF SyncSequences, DropPublication, WaitDrop, DropSlot, AfterSync
<1>21. CASE Complete \/ CancelRun \/ Crash
  BY <1>0, <1>21, <1>t DEF Complete, CancelRun, Crash, EndAtStep, End
<1>22. CASE PostgreSQL
  BY <1>0, <1>22, <1>t DEF PostgreSQL, Background, Commit, WorkerStart, WorkerApply,
       WorkerFeedback, WorkerExit, SenderExit
<1>23. CASE Interrupt \/ UNCHANGED vars
  BY <1>0, <1>23, <1>t DEF Interrupt, vars
<1>24. ASSUME NEW o \in Options, Start(o) PROVE TokenInv'
  BY <1>0, <1>24, <1>t DEF Start
<1> QED
  BY <1>1, <1>2, <1>3, <1>4, <1>5, <1>6, <1>7, <1>8, <1>9, <1>10, <1>11, <1>12, <1>13, <1>14,
     <1>15, <1>16, <1>17, <1>18, <1>19, <1>20, <1>21, <1>22, <1>23, <1>24
  DEF Next, Migrator, Operator

(* Whatever options the runs in between had, and however they ended, the    *)
(* token on disk never claims an archive that was replaced or cut short, nor *)
(* rows that were dropped: only the one save in SavesBeforeDump must not   *)
(* fail (run_online's order of effects and saves, config_hash).            *)
THEOREM TokenTellsTruth == ASSUME SavesBeforeDump PROVE Spec => []DiskTokenTruthful
<1>1. Init => TokenInv
  BY DEF Init, PgInit, TokenInv, Truthful, SlotSteps, DumpWindow, RestoreSteps, RestoreWindow,
     EarlySteps
<1>2. TypeOK /\ TokenHeld /\ TokenInv /\ [Next]_vars => TokenInv'
  BY TokenInvNext
<1>3. TokenInv => DiskTokenTruthful
  BY DEF TokenInv, Truthful, DiskTokenTruthful
<1> QED
  BY <1>1, <1>2, <1>3, TypeCorrect, PTL DEF Spec

-----------------------------------------------------------------------------
(* The slot of a resumed run.                                              *)

(* Once a dump is done, in memory or on disk, its slot stays until a cutover *)
(* is over.                                                                *)
SlotInv ==
  /\ opts \in Options
  /\ pc \notin {"cleanSub", "cleanSlot"}
  /\ \A t \in {token, disk} \ {NoToken} :
       "Dump" \in t.done => slot # "absent" \/ pc = "complete" \/ outcome = "cutover"
  /\ pc \in DumpWindow \cup RestoreSteps \cup LateSteps => slot # "absent" \/ pc = "complete"
  /\ pc = "complete" /\ slot = "absent" => exit = "cutover" /\ opts.dropSlot

(* Every step keeps the slot as long as a token on disk has the dump.      *)
LEMMA SlotInvNext ==
  ASSUME SlotKept, TypeOK, TokenHeld, ExitInv, SlotInv, [Next]_vars
  PROVE  SlotInv'
<1> USE AbsentAssumption
    DEF SlotInv, ExitInv, SlotSteps, DumpWindow, RestoreSteps, RestoreWindow, LateSteps,
        CutoverWindow, memoryVars, fileVars, historyVars, pgVars, sourceVars, targetVars
<1>t. /\ token \in Token \cup {NoToken} /\ disk \in Token \cup {NoToken}
      /\ pc \notin EarlySteps => token \in Token
  BY DEF TypeOK, TokenHeld
<1>o. opts \in Options /\ ~opts.forceClean /\ ("complete" \in CrashPoints => ~opts.dropSlot)
  BY DEF SlotKept
<1>1. CASE Preflight \/ CleanSub \/ CleanSlot
  BY <1>o, <1>1 DEF Preflight, CleanSub, CleanSlot
<1>2. CASE LoadToken
  BY <1>2, <1>t, <1>o DEF LoadToken, Fresh, End
<1>3. CASE VacuumSource
  BY <1>3, <1>t, <1>o, MarkKeeps, SaveWrites DEF VacuumSource, EarlySteps, Stages, SkipTo, SkipDump
<1>4. CASE EnsurePublication
  BY <1>4, <1>t, <1>o DEF EnsurePublication, End
<1>5. CASE SavePublication
  BY <1>5, <1>t, <1>o, SaveWrites DEF SavePublication, EarlySteps, Token
<1>6. CASE PrepareSlot
  BY <1>6, <1>t, <1>o DEF PrepareSlot, CreateSlot
<1>7. CASE SaveSlot
  BY <1>7, <1>t, <1>o, MarkKeeps, SaveWrites DEF SaveSlot, EarlySteps, Stages
<1>8. CASE StartDump \/ FinishDump
  BY <1>8, <1>t, <1>o DEF StartDump, FinishDump
<1>9. CASE SaveDump
  BY <1>9, <1>t, <1>o, MarkKeeps, SaveWrites DEF SaveDump, EarlySteps, Stages, SkipDump
<1>10. CASE RestorePreData \/ RestoreData \/ RestorePostData
  BY <1>10, <1>t, <1>o DEF RestorePreData, RestoreData, RestorePostData, End
<1>11. CASE SaveRestore
  BY <1>11, <1>t, <1>o, MarkKeeps, SaveWrites DEF SaveRestore, EarlySteps, Stages
<1>12. CASE AnalyzeTarget
  BY <1>12, <1>t, <1>o, MarkKeeps, SaveWrites DEF AnalyzeTarget, EarlySteps, Stages
<1>13. CASE DisableStale \/ WaitSlot \/ AttachSubscription
  BY <1>13, <1>t, <1>o DEF DisableStale, WaitSlot, AttachSubscription, End
<1>14. CASE ApplyCutover \/ ApplyCancel \/ ApplyUnhealthy
  BY <1>14, <1>t, <1>o DEF ApplyCutover, ApplyCancel, ApplyUnhealthy, LeaveLoop
<1>15. CASE TeardownDisable \/ TeardownDetach \/ TeardownDrop
  BY <1>15, <1>t, <1>o DEF TeardownDisable, TeardownDetach, TeardownDrop, TeardownStep, AfterDisable
<1>16. CASE FinishApply
  BY <1>16, <1>t, <1>o, SaveWrites DEF FinishApply, End, AfterApply, AfterSync, EarlySteps
<1>17. CASE SyncSequences \/ DropPublication \/ WaitDrop
  BY <1>17, <1>t, <1>o DEF SyncSequences, DropPublication, WaitDrop, AfterSync
<1>18. CASE DropSlot
  BY <1>18, <1>t, <1>o DEF DropSlot, DropIdleSlot
<1>19. CASE Complete
  BY <1>19, <1>t, <1>o DEF Complete, End
<1>20. CASE CancelRun
  BY <1>20, <1>t, <1>o DEF CancelRun, EndAtStep, Cancellable, End
<1>21. CASE Crash
  BY <1>21, <1>t, <1>o DEF Crash, EndAtStep, End
<1>22. CASE PostgreSQL
  BY <1>22, <1>t, <1>o DEF PostgreSQL, Background, Commit, WorkerStart, WorkerApply,
       WorkerFeedback, WorkerExit, SenderExit
<1>23. CASE Interrupt \/ UNCHANGED vars
  BY <1>23, <1>t, <1>o DEF Interrupt, vars
<1>24. ASSUME NEW o \in Options, Start(o) PROVE SlotInv'
  BY <1>24, <1>t, <1>o DEF Start
<1> QED
  BY <1>1, <1>2, <1>3, <1>4, <1>5, <1>6, <1>7, <1>8, <1>9, <1>10, <1>11, <1>12, <1>13,
     <1>14, <1>15, <1>16, <1>17, <1>18, <1>19, <1>20, <1>21, <1>22, <1>23, <1>24
  DEF Next, Migrator, Operator

(* A resumed run that skips the slot's creation attaches its subscription   *)
(* to a slot that exists, although nothing looks (the exit reasons of      *)
(* run_online decide who cleans up; prepare_replication_slot).             *)
THEOREM FindsSlot == ASSUME SlotKept PROVE Spec => []ResumeFindsSlot
<1>1. Init => SlotInv
  BY DEF Init, PgInit, SlotInv, DumpWindow, RestoreSteps, RestoreWindow, LateSteps, CutoverWindow
<1>2. TypeOK /\ TokenHeld /\ ExitInv /\ SlotInv /\ [Next]_vars => SlotInv'
  BY SlotInvNext
<1>3. SlotInv => ResumeFindsSlot
  BY DEF SlotInv, LateSteps, ResumeFindsSlot
<1> QED
  BY <1>1, <1>2, <1>3, CutoverInvariant, TypeCorrect, PTL DEF Spec
=============================================================================
