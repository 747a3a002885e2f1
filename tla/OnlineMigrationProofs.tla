------------------------ MODULE OnlineMigrationProofs ------------------------
(***************************************************************************)
(* Proofs about OnlineMigration, for every MaxWal, MaxRuns, MaxFaults, set *)
(* of options and set of crash, fault and cancel points.                   *)
(***************************************************************************)
EXTENDS OnlineMigration, TLAPS

-----------------------------------------------------------------------------
(* Types.  TypeOK is not inductive alone: that a step may write the token  *)
(* in memory to disk needs TokenHeld, that there is one.                   *)

(* Marking a stage (ResumeToken::mark) keeps the token well-formed. *)
LEMMA MarkType ==
  ASSUME token \in Token, NEW stage \in Stages
  PROVE  Mark(stage) \in Token
BY DEF Mark, Token

(* save_resume keeps the types, whether or not the write succeeds. *)
LEMMA SaveType ==
  ASSUME TypeOK, NEW t \in Token, Save(t)
  PROVE  /\ token' \in Token
         /\ disk' \in Token \cup {NoToken}
         /\ faults' \in 0 .. MaxFaults
BY BoundsAssumption DEF TypeOK, Save, Tolerated

(* What a pre-data section leaves is typed, however little of it was done. *)
LEMMA CutPreDataType ==
  ASSUME TypeOK, CutPreData
  PROVE  /\ base' \in {"none", "partial", "objects", "rows"}
         /\ copies' \in [Txn -> 0 .. 2]
         /\ tgtSeq' \in Lsn
BY MaxWalAssumption DEF TypeOK, PgTypeOK, CutPreData, NoRows, Lsn

(* So is what a data section leaves. *)
LEMMA CutDataType ==
  ASSUME TypeOK, CutData
  PROVE  base' = base /\ copies' \in [Txn -> 0 .. 2] /\ tgtSeq' \in Lsn
BY DEF TypeOK, PgTypeOK, Archive, CutData, LoadRows, Again

(* A run that ends at its step leaves everything typed. *)
LEMMA EndAtStepType ==
  ASSUME TypeOK, NEW r \in {"failed", "cancelled"}, EndAtStep(r)
  PROVE  TypeOK' /\ TokenHeld'
<1>1. /\ base' \in {"none", "partial", "objects", "rows"}
      /\ copies' \in [Txn -> 0 .. 2]
      /\ tgtSeq' \in Lsn
  <2>1. CASE pc = "preData"
    BY <2>1, CutPreDataType DEF EndAtStep
  <2>2. CASE pc = "data"
    BY <2>2, CutDataType DEF EndAtStep, TypeOK, PgTypeOK
  <2>3. CASE pc \notin {"preData", "data"}
    BY <2>3 DEF EndAtStep, TypeOK, PgTypeOK
  <2> QED
    BY <2>1, <2>2, <2>3
<1> QED
  BY <1>1 DEF EndAtStep, End, TypeOK, PgTypeOK, TokenHeld, EarlySteps, fileVars, sourceVars

(* Every variable keeps its type, and a run past LoadToken holds a token. *)
THEOREM TypeCorrect == Spec => [](TypeOK /\ TokenHeld)
<1>1. Init => TypeOK /\ TokenHeld
  BY OptionsAssumption, BoundsAssumption, MaxWalAssumption
  DEF Init, PgInit, TypeOK, PgTypeOK, Archive, OptionSet, Lsn, Txn, TokenHeld, EarlySteps
<1>2. TypeOK /\ TokenHeld /\ [Next]_vars => TypeOK' /\ TokenHeld'
  <2> SUFFICES ASSUME TypeOK, TokenHeld, [Next]_vars PROVE TypeOK' /\ TokenHeld'
    OBVIOUS
  <2> USE OptionsAssumption, BoundsAssumption, MaxWalAssumption
      DEF TypeOK, PgTypeOK, TokenHeld, EarlySteps, Archive, Steps, Lsn, memoryVars,
          fileVars, historyVars, pgVars, sourceVars, targetVars
  <2>1. CASE Preflight
    BY <2>1 DEF Preflight
  <2>2. CASE CleanSub
    BY <2>2 DEF CleanSub, Tolerated, DropSubscription
  <2>3. CASE CleanSlot
    BY <2>3 DEF CleanSlot, Tolerated, DropIdleSlot
  <2>4. CASE LoadToken
    <3>1. Fresh(opts) \in Token
      BY DEF Fresh, Token, OptionSet
    <3> QED
      BY <2>4, <3>1 DEF LoadToken, End
  <2>5. CASE VacuumSource
    <3>1. Mark("SourceVacuum") \in Token
      BY <2>5, MarkType DEF VacuumSource, Stages
    <3>2. token' \in Token /\ disk' \in Token \cup {NoToken} /\ faults' \in 0 .. MaxFaults
      BY <2>5, <3>1, SaveType DEF VacuumSource, Tolerated
    <3> QED
      BY <2>5, <3>2 DEF VacuumSource, SkipTo, SkipDump
  <2>6. CASE EnsurePublication
    BY <2>6 DEF EnsurePublication, End
  <2>7. CASE SavePublication
    <3>1. [token EXCEPT !.pubAuto = TRUE] \in Token
      BY <2>7 DEF SavePublication, Token
    <3> QED
      BY <2>7, <3>1, SaveType DEF SavePublication
  <2>8. CASE PrepareSlot
    BY <2>8 DEF PrepareSlot, CreateSlot
  <2>9. CASE SaveSlot
    <3>1. Mark("PrepareSnapshot") \in Token
      BY <2>9, MarkType DEF SaveSlot, Stages
    <3> QED
      BY <2>9, <3>1, SaveType DEF SaveSlot
  <2>10. CASE StartDump
    BY <2>10 DEF StartDump, DumpPosition, OptionSet
  <2>11. CASE FinishDump
    BY <2>11 DEF FinishDump
  <2>12. CASE SaveDump
    <3>1. Mark("Dump") \in Token
      BY <2>12, MarkType DEF SaveDump, Stages
    <3> QED
      BY <2>12, <3>1, SaveType DEF SaveDump, SkipDump
  <2>13. CASE RestorePreData
    <3>1. copies' \in [Txn -> 0 .. 2] /\ base' \in {"none", "partial", "objects", "rows"} /\ tgtSeq' \in Lsn
      BY <2>13, CutPreDataType DEF RestorePreData, NoRows
    <3> QED
      BY <2>13, <3>1 DEF RestorePreData, Tolerated, End
  <2>14. CASE RestoreData
    <3>1. copies' \in [Txn -> 0 .. 2]
      BY <2>14 DEF RestoreData, LoadRows, Again
    <3> QED
      BY <2>14, <3>1 DEF RestoreData, Tolerated
  <2>15. CASE RestorePostData
    BY <2>15 DEF RestorePostData
  <2>16. CASE SaveRestore
    <3>1. Mark("Restore") \in Token
      BY <2>16, MarkType DEF SaveRestore, Stages
    <3> QED
      BY <2>16, <3>1, SaveType DEF SaveRestore
  <2>17. CASE AnalyzeTarget
    <3>1. Mark("Analyze") \in Token
      BY <2>17, MarkType DEF AnalyzeTarget, Stages
    <3>2. token' \in Token /\ disk' \in Token \cup {NoToken} /\ faults' \in 0 .. MaxFaults
      BY <2>17, <3>1, SaveType DEF AnalyzeTarget, Tolerated
    <3> QED
      BY <2>17, <3>2 DEF AnalyzeTarget
  <2>18. CASE DisableStale
    BY <2>18 DEF DisableStale, Tolerated, DisableSubscription
  <2>19. CASE WaitSlot
    BY <2>19 DEF WaitSlot, End
  <2>20. CASE AttachSubscription
    BY <2>20 DEF AttachSubscription
  <2>21. CASE ApplyCutover
    BY <2>21 DEF ApplyCutover, LeaveLoop
  <2>22. CASE ApplyCancel
    BY <2>22 DEF ApplyCancel, LeaveLoop
  <2>23. CASE ApplyUnhealthy
    BY <2>23 DEF ApplyUnhealthy, LeaveLoop
  <2>24. CASE TeardownDisable
    BY <2>24 DEF TeardownDisable, TeardownStep, Tolerated, DisableSubscription, AfterDisable
  <2>25. CASE TeardownDetach
    BY <2>25 DEF TeardownDetach, TeardownStep, Tolerated, DetachSlot
  <2>26. CASE TeardownDrop
    BY <2>26 DEF TeardownDrop, TeardownStep, Tolerated, DropSubscription
  <2>27. CASE FinishApply
    <3>1. CASE exit = "error"
      BY <2>27, <3>1 DEF FinishApply, End
    <3>2. CASE exit # "error"
      BY <2>27, <3>2, SaveType DEF FinishApply, AfterApply, AfterSync
    <3> QED
      BY <3>1, <3>2
  <2>28. CASE SyncSequences
    BY <2>28 DEF SyncSequences, Tolerated, AfterSync
  <2>29. CASE DropPublication
    BY <2>29 DEF DropPublication, Tolerated
  <2>30. CASE WaitDrop
    BY <2>30 DEF WaitDrop, Tolerated
  <2>31. CASE DropSlot
    BY <2>31 DEF DropSlot, Tolerated, DropIdleSlot
  <2>32. CASE Complete
    BY <2>32 DEF Complete, End
  <2>33. CASE CancelRun
    BY <2>33, EndAtStepType DEF CancelRun
  <2>34. CASE Commit /\ UNCHANGED <<pc, memoryVars, fileVars, historyVars>>
    BY <2>34 DEF Commit
  <2>35. CASE WorkerStart /\ UNCHANGED <<pc, memoryVars, fileVars, historyVars>>
    BY <2>35 DEF WorkerStart
  <2>36. CASE WorkerApply /\ UNCHANGED <<pc, memoryVars, fileVars, historyVars>>
    BY <2>36 DEF WorkerApply, Position, Txn, Again
  <2>37. CASE WorkerFeedback /\ UNCHANGED <<pc, memoryVars, fileVars, historyVars>>
    BY <2>37 DEF WorkerFeedback
  <2>38. CASE WorkerExit /\ UNCHANGED <<pc, memoryVars, fileVars, historyVars>>
    BY <2>38 DEF WorkerExit
  <2>39. CASE SenderExit /\ UNCHANGED <<pc, memoryVars, fileVars, historyVars>>
    BY <2>39 DEF SenderExit
  <2>40. CASE Interrupt
    BY <2>40 DEF Interrupt
  <2>41. ASSUME NEW o \in Options, Start(o) PROVE TypeOK' /\ TokenHeld'
    BY <2>41 DEF Start
  <2>42. CASE Crash
    BY <2>42, EndAtStepType DEF Crash
  <2>43. CASE UNCHANGED vars
    BY <2>43 DEF vars
  <2> QED
    BY <2>1, <2>2, <2>3, <2>4, <2>5, <2>6, <2>7, <2>8, <2>9, <2>10, <2>11, <2>12, <2>13, <2>14, <2>15, <2>16, <2>17, <2>18, <2>19, <2>20,
       <2>21, <2>22, <2>23, <2>24, <2>25, <2>26, <2>27, <2>28, <2>29, <2>30, <2>31, <2>32, <2>33, <2>34, <2>35, <2>36, <2>37, <2>38, <2>39, <2>40, <2>41, <2>42, <2>43
    DEF Next, Migrator, PostgreSQL, Background, Operator
<1> QED
  BY <1>1, <1>2, PTL DEF Spec

-----------------------------------------------------------------------------
(* Exactness under ResumeProcedure.                                         *)

(* A save of a token that claims the same long stages changes neither what *)
(* the disk claims, nor, for the two windows, the agreement with memory.   *)
LEMMA SaveKeepsStages ==
  ASSUME TypeOK, StagesSaved, token \in Token, NEW t \in Token, Save(t),
         "Dump" \in t.done <=> "Dump" \in token.done,
         "Restore" \in t.done <=> "Restore" \in token.done
  PROVE  /\ DumpSaved' <=> DumpSaved
         /\ RestoreSaved' <=> RestoreSaved
         /\ "Dump" \in token'.done <=> DumpSaved
         /\ "Restore" \in token'.done <=> RestoreSaved
         /\ token' \in Token
BY AbsentAssumption DEF StagesSaved, Save, Tolerated, DumpSaved, RestoreSaved

(* Marking adds the one stage and forgets none. *)
LEMMA MarkAdds ==
  ASSUME token \in Token, NEW stage \in Stages
  PROVE  /\ Mark(stage) \in Token
         /\ Mark(stage).done = token.done \cup {stage}
BY DEF Mark, Token

(* A save that cannot fail, of a token with one more long stage. *)
LEMMA SaveOnDisk ==
  ASSUME NEW t \in Token, Save(t), pc \notin FaultPoints
  PROVE  /\ token' = t /\ disk' = t
         /\ DumpSaved' <=> "Dump" \in t.done
         /\ RestoreSaved' <=> "Restore" \in t.done
BY AbsentAssumption DEF Save, Tolerated, DumpSaved, RestoreSaved

(* Before the first run nothing is saved, dumped or restored. *)
LEMMA ResumeInvInit == Init => ResumeInv
BY OptionsAssumption, MaxWalAssumption
DEF Init, PgInit, ResumeInv, TokenHeld, StagesSaved, ProcessInv, ReplicationInv,
    NotDumpedInv, DumpedInv, RestoredInv, DumpSaved, RestoreSaved, EarlySteps,
    SlotSteps, RestoreSteps, LateSteps, DumpWindow, RestoreWindow, CutoverWindow

(* The apply worker extends the exact prefix by the next transaction. *)
LEMMA ApplyExtends ==
  ASSUME TypeOK, ExactUpTo(Position), Position < wal, Position \in Lsn,
         copies' = [copies EXCEPT ![Position + 1] = Again(@)]
  PROVE  \A t \in Txn : copies'[t] = IF t <= Position + 1 THEN 1 ELSE 0
<1>1. Position + 1 \in Txn
  BY MaxWalAssumption DEF TypeOK, PgTypeOK, Lsn, Txn
<1>2. copies[Position + 1] = 0
  BY <1>1 DEF ExactUpTo, Lsn
<1> QED
  BY <1>1, <1>2, MaxWalAssumption DEF TypeOK, PgTypeOK, ExactUpTo, Again, Lsn, Txn

(* A data section that is cut short where nothing was loaded loads each row *)
(* at most once, and none the archive has not.                              *)
LEMMA CutDataOnce ==
  ASSUME TypeOK, CutData, \A t \in Txn : copies[t] = 0
  PROVE  /\ base' = base
         /\ \A t \in Txn : copies'[t] = 0 \/ (copies'[t] = 1 /\ t <= archive.pos)
         /\ base = "none" => copies' = copies
<1>1. ASSUME NEW loaded \in SUBSET (1 .. archive.pos), LoadRows(loaded), NEW t \in Txn
      PROVE  copies'[t] = 0 \/ (copies'[t] = 1 /\ t <= archive.pos)
  <2>1. copies'[t] = IF t \in loaded THEN 1 ELSE 0
    BY <1>1 DEF LoadRows, Again
  <2>2. t \in loaded => t <= archive.pos
    BY <1>1, MaxWalAssumption DEF TypeOK, Archive, Lsn
  <2> QED
    BY <2>1, <2>2
<1> QED
  BY <1>1 DEF CutData

(* A pre-data section that is cut short loads nothing.                      *)
LEMMA CutPreDataDrops ==
  ASSUME TypeOK, CutPreData
  PROVE  /\ \A t \in Txn : copies'[t] \in {0, copies[t]}
         /\ base' = "rows" => base = "rows" /\ copies' = copies
         /\ base' = "none" /\ base # "none" => \A t \in Txn : copies'[t] = 0
         /\ base = "none" => copies' = copies
BY DEF CutPreData, NoRows, TypeOK, PgTypeOK

(* A run that dies, fails or is cancelled outside the fatal windows leaves *)
(* the relations intact.                                                   *)
LEMMA EndAtStepKeeps ==
  ASSUME ResumeProcedure, TypeOK, ResumeInv, pc \notin FatalWindow \cup {"idle"},
         NEW r \in {"failed", "cancelled"}, EndAtStep(r)
  PROVE  ResumeInv'
<1> USE OptionsAssumption, BoundsAssumption, MaxWalAssumption, AbsentAssumption
    DEF TypeOK, PgTypeOK, TokenHeld, EarlySteps, Archive, Steps, Lsn,
        fileVars, sourceVars, ResumeInv, StagesSaved,
        ProcessInv, ReplicationInv, NotDumpedInv, DumpedInv, RestoredInv, SlotSteps,
        RestoreSteps, LateSteps, DumpWindow, RestoreWindow, CutoverWindow, Dropped,
        ExactUpTo, Position, ResumeProcedure, OptionSet
<1>1. (DumpSaved' <=> DumpSaved) /\ (RestoreSaved' <=> RestoreSaved)
  BY DEF EndAtStep, DumpSaved, RestoreSaved
<1>2. CASE pc \notin {"preData", "data"}
  <2>1. /\ pc' = "idle" /\ token' = NoToken /\ interrupts' = 0 /\ outcome' # "cutover"
        /\ UNCHANGED <<base, copies, opts, disk, archive, sourceVars, sub, origin, worker>>
    BY <1>2 DEF EndAtStep, End
  <2>2. TokenHeld' /\ StagesSaved' /\ ProcessInv' /\ ReplicationInv'
    BY <1>1, <2>1
  <2>3. pc \notin DumpWindow /\ (pc \in RestoreWindow => CleansFirst)
    BY DEF FatalWindow
  <2>4. NotDumpedInv' /\ DumpedInv'
    BY <1>1, <1>2, <2>1, <2>3 DEF CleansFirst
  <2>5. ~Dropped
    BY DEF FatalWindow
  <2>6. RestoredInv'
    BY <1>1, <2>1, <2>5
  <2> QED
    BY <2>2, <2>4, <2>6
<1>3. CASE pc = "preData"
  <2>1. /\ \A t \in Txn : copies'[t] \in {0, copies[t]}
        /\ base' = "rows" => base = "rows" /\ copies' = copies
        /\ base' = "none" /\ base # "none" => \A t \in Txn : copies'[t] = 0
        /\ base = "none" => copies' = copies
    BY <1>3, CutPreDataDrops DEF EndAtStep
  <2>2. DumpedInv'
    BY <1>1, <1>3, <2>1 DEF EndAtStep, End, CleansFirst
  <2> QED
    BY <1>1, <1>3, <2>2 DEF EndAtStep, End
<1>4. CASE pc = "data"
  <2>1. CleansFirst
    BY <1>4 DEF FatalWindow
  <2>2. /\ base' = "objects"
        /\ \A t \in Txn : copies'[t] = 0 \/ (copies'[t] = 1 /\ t <= archive.pos)
    BY <1>4, CutDataOnce DEF EndAtStep
  <2> QED
    BY <1>1, <1>4, <2>1, <2>2 DEF EndAtStep, End, CleansFirst
<1> QED
  BY <1>2, <1>3, <1>4

(* Every step of the process, the operator and the servers preserves the     *)
(* relations, outside the windows that ResumeProcedure excludes.            *)
LEMMA ResumeInvNext ==
  ASSUME ResumeProcedure, TypeOK, ResumeInv, [Next]_vars
  PROVE  ResumeInv'
<1> USE OptionsAssumption, BoundsAssumption, MaxWalAssumption, AbsentAssumption
    DEF TypeOK, PgTypeOK, TokenHeld, EarlySteps, Archive, Steps, Lsn, memoryVars,
        fileVars, historyVars, pgVars, sourceVars, targetVars, ResumeInv, StagesSaved,
        ProcessInv, ReplicationInv, NotDumpedInv, DumpedInv, RestoredInv, SlotSteps,
        RestoreSteps, LateSteps, DumpWindow, RestoreWindow, CutoverWindow, Dropped,
        ExactUpTo, Position, ResumeProcedure, OptionSet, Cancelled
<1>1. CASE Preflight
  BY <1>1 DEF Preflight, DumpSaved, RestoreSaved
<1>2. CASE CleanSub
  BY <1>2 DEF CleanSub, Tolerated, DropSubscription, DumpSaved, RestoreSaved
<1>3. CASE CleanSlot
  BY <1>3 DEF CleanSlot, Tolerated, DropIdleSlot, DumpSaved, RestoreSaved
<1>4. CASE LoadToken
  <2>1. opts.resume
    OBVIOUS
  <2>2. (DumpSaved' <=> DumpSaved) /\ (RestoreSaved' <=> RestoreSaved)
    BY <1>4 DEF LoadToken, DumpSaved, RestoreSaved
  <2>3. CASE disk # NoToken /\ disk.scope = opts.scope
    <3>1. token' = disk /\ token' \in Token /\ pc' = "vacuum"
      BY <1>4, <2>1, <2>3 DEF LoadToken
    <3> QED
      BY <1>4, <2>1, <2>2, <2>3, <3>1 DEF LoadToken, DumpSaved, RestoreSaved
  <2>4. CASE disk # NoToken /\ disk.scope # opts.scope
    BY <1>4, <2>1, <2>2, <2>4 DEF LoadToken, End
  <2>5. CASE disk = NoToken
    <3>1. token' = Fresh(opts) /\ Fresh(opts) \in Token /\ Fresh(opts).done = {}
      BY <1>4, <2>5 DEF LoadToken, Fresh, Token
    <3> QED
      BY <1>4, <2>2, <2>5, <3>1 DEF LoadToken, DumpSaved, RestoreSaved
  <2> QED
    BY <2>3, <2>4, <2>5
<1>5. CASE VacuumSource
  <2>1. token \in Token
    BY <1>5 DEF VacuumSource
  <2>2. Mark("SourceVacuum") \in Token /\ Mark("SourceVacuum").done = token.done \cup {"SourceVacuum"}
    BY <2>1, MarkAdds DEF Stages
  <2>3. CASE Save(Mark("SourceVacuum"))
    <3>1. /\ DumpSaved' <=> DumpSaved
          /\ RestoreSaved' <=> RestoreSaved
          /\ "Dump" \in token'.done <=> DumpSaved
          /\ "Restore" \in token'.done <=> RestoreSaved
          /\ token' \in Token
      BY <2>1, <2>2, <2>3, SaveKeepsStages
    <3> QED
      BY <1>5, <2>1, <3>1 DEF VacuumSource, SkipTo, SkipDump
  <2>4. CASE UNCHANGED <<token, disk>>
    <3>1. (DumpSaved' <=> DumpSaved) /\ (RestoreSaved' <=> RestoreSaved)
      BY <2>4 DEF DumpSaved, RestoreSaved
    <3> QED
      BY <1>5, <2>1, <2>4, <3>1 DEF VacuumSource, SkipTo, SkipDump
  <2> QED
    BY <1>5, <2>3, <2>4 DEF VacuumSource
<1>6. CASE EnsurePublication
  BY <1>6 DEF EnsurePublication, End, DumpSaved, RestoreSaved
<1>7. CASE SavePublication
  <2>1. token \in Token
    BY <1>7 DEF SavePublication
  <2>2. [token EXCEPT !.pubAuto = TRUE] \in Token /\ [token EXCEPT !.pubAuto = TRUE].done = token.done
    BY <2>1 DEF Token
  <2>3. /\ DumpSaved' <=> DumpSaved
        /\ RestoreSaved' <=> RestoreSaved
        /\ "Dump" \in token'.done <=> DumpSaved
        /\ "Restore" \in token'.done <=> RestoreSaved
        /\ token' \in Token
    BY <1>7, <2>1, <2>2, SaveKeepsStages DEF SavePublication
  <2> QED
    BY <1>7, <2>1, <2>3 DEF SavePublication
<1>8. CASE PrepareSlot
  BY <1>8 DEF PrepareSlot, CreateSlot, DumpSaved, RestoreSaved
<1>9. CASE SaveSlot
  <2>1. token \in Token
    BY <1>9 DEF SaveSlot
  <2>2. Mark("PrepareSnapshot") \in Token /\ Mark("PrepareSnapshot").done = token.done \cup {"PrepareSnapshot"}
    BY <2>1, MarkAdds DEF Stages
  <2>3. /\ DumpSaved' <=> DumpSaved
        /\ RestoreSaved' <=> RestoreSaved
        /\ "Dump" \in token'.done <=> DumpSaved
        /\ "Restore" \in token'.done <=> RestoreSaved
        /\ token' \in Token
    BY <1>9, <2>1, <2>2, SaveKeepsStages DEF SaveSlot
  <2> QED
    BY <1>9, <2>1, <2>3 DEF SaveSlot
<1>10. CASE StartDump
  BY <1>10 DEF StartDump, DumpPosition, DumpSaved, RestoreSaved
<1>11. CASE FinishDump
  BY <1>11 DEF FinishDump, DumpSaved, RestoreSaved
<1>12. CASE SaveDump
  <2>1. token \in Token
    BY <1>12 DEF SaveDump
  <2>2. Mark("Dump") \in Token /\ Mark("Dump").done = token.done \cup {"Dump"}
    BY <2>1, MarkAdds DEF Stages
  <2>3. /\ token' = Mark("Dump") /\ disk' = Mark("Dump")
        /\ DumpSaved' <=> "Dump" \in token.done \cup {"Dump"}
        /\ RestoreSaved' <=> "Restore" \in token.done \cup {"Dump"}
    BY <1>12, <2>2, SaveOnDisk DEF SaveDump
  <2> QED
    BY <1>12, <2>1, <2>2, <2>3 DEF SaveDump, SkipDump
<1>13. CASE RestorePreData
  <2>1. pc \notin FaultPoints /\ pc \notin LateSteps
    BY <1>13 DEF RestorePreData
  <2> QED
    BY <1>13, <2>1 DEF RestorePreData, NoRows, CleansFirst, Tolerated, End, DumpSaved, RestoreSaved
<1>14. CASE RestoreData
  <2>1. pc \notin FaultPoints /\ base = "objects"
    BY <1>14 DEF RestoreData
  <2>2. base' = "rows" /\ LoadRows(1 .. archive.pos)
    BY <1>14, <2>1 DEF RestoreData, Tolerated
  <2> QED
    BY <1>14, <2>1, <2>2 DEF RestoreData, LoadRows, Tolerated, Again, Txn, DumpSaved, RestoreSaved
<1>15. CASE RestorePostData
  BY <1>15 DEF RestorePostData, DumpSaved, RestoreSaved
<1>16. CASE SaveRestore
  <2>1. token \in Token
    BY <1>16 DEF SaveRestore
  <2>2. Mark("Restore") \in Token /\ Mark("Restore").done = token.done \cup {"Restore"}
    BY <2>1, MarkAdds DEF Stages
  <2>3. /\ token' = Mark("Restore") /\ disk' = Mark("Restore")
        /\ DumpSaved' <=> "Dump" \in token.done \cup {"Restore"}
        /\ RestoreSaved' <=> "Restore" \in token.done \cup {"Restore"}
    BY <1>16, <2>2, SaveOnDisk DEF SaveRestore
  <2> QED
    BY <1>16, <2>1, <2>2, <2>3 DEF SaveRestore
<1>17. CASE AnalyzeTarget
  <2>1. token \in Token
    BY <1>17 DEF AnalyzeTarget
  <2>2. Mark("Analyze") \in Token /\ Mark("Analyze").done = token.done \cup {"Analyze"}
    BY <2>1, MarkAdds DEF Stages
  <2>3. CASE Save(Mark("Analyze"))
    <3>1. /\ DumpSaved' <=> DumpSaved
          /\ RestoreSaved' <=> RestoreSaved
          /\ "Dump" \in token'.done <=> DumpSaved
          /\ "Restore" \in token'.done <=> RestoreSaved
          /\ token' \in Token
      BY <2>1, <2>2, <2>3, SaveKeepsStages
    <3> QED
      BY <1>17, <2>1, <3>1 DEF AnalyzeTarget
  <2>4. CASE UNCHANGED <<token, disk>>
    <3>1. (DumpSaved' <=> DumpSaved) /\ (RestoreSaved' <=> RestoreSaved)
      BY <2>4 DEF DumpSaved, RestoreSaved
    <3> QED
      BY <1>17, <2>1, <2>4, <3>1 DEF AnalyzeTarget
  <2> QED
    BY <1>17, <2>3, <2>4 DEF AnalyzeTarget
<1>18. CASE DisableStale
  BY <1>18 DEF DisableStale, Tolerated, DisableSubscription, DumpSaved, RestoreSaved
<1>19. CASE WaitSlot
  BY <1>19 DEF WaitSlot, End, DumpSaved, RestoreSaved
<1>20. CASE AttachSubscription
  BY <1>20 DEF AttachSubscription, Reattached, DumpSaved, RestoreSaved
<1>21. CASE ApplyCutover
  BY <1>21 DEF ApplyCutover, LeaveLoop, DumpSaved, RestoreSaved
<1>22. CASE ApplyCancel
  BY <1>22 DEF ApplyCancel, LeaveLoop, DumpSaved, RestoreSaved
<1>23. CASE ApplyUnhealthy
  BY <1>23 DEF ApplyUnhealthy, LeaveLoop, DumpSaved, RestoreSaved
<1>24. CASE TeardownDisable
  BY <1>24 DEF TeardownDisable, TeardownStep, Tolerated, DisableSubscription, AfterDisable, DumpSaved, RestoreSaved
<1>25. CASE TeardownDetach
  BY <1>25 DEF TeardownDetach, TeardownStep, Tolerated, DetachSlot, DumpSaved, RestoreSaved
<1>26. CASE TeardownDrop
  BY <1>26 DEF TeardownDrop, TeardownStep, Tolerated, DropSubscription, DumpSaved, RestoreSaved
<1>27. CASE FinishApply
  BY <1>27 DEF FinishApply, Save, Tolerated, End, AfterApply, AfterSync, DumpSaved, RestoreSaved
<1>28. CASE SyncSequences
  BY <1>28 DEF SyncSequences, Tolerated, AfterSync, DumpSaved, RestoreSaved
<1>29. CASE DropPublication
  BY <1>29 DEF DropPublication, Tolerated, DumpSaved, RestoreSaved
<1>30. CASE WaitDrop
  BY <1>30 DEF WaitDrop, Tolerated, DumpSaved, RestoreSaved
<1>31. CASE DropSlot
  BY <1>31 DEF DropSlot, Tolerated, DropIdleSlot, DumpSaved, RestoreSaved
<1>32. CASE Complete
  BY <1>32 DEF Complete, End, DumpSaved, RestoreSaved
<1>33. CASE CancelRun
  <2>1. pc \in RestoreSteps \ FatalWindow
    BY <1>33 DEF CancelRun, Cancellable
  <2> QED
    BY <1>33, <2>1, EndAtStepKeeps DEF CancelRun, Cancellable
<1>34. CASE Commit /\ UNCHANGED <<pc, memoryVars, fileVars, historyVars>>
  BY <1>34 DEF Commit, DumpSaved, RestoreSaved
<1>35. CASE WorkerStart /\ UNCHANGED <<pc, memoryVars, fileVars, historyVars>>
  BY <1>35 DEF WorkerStart, DumpSaved, RestoreSaved
<1>36. CASE WorkerApply /\ UNCHANGED <<pc, memoryVars, fileVars, historyVars>>
  <2>1. (DumpSaved' <=> DumpSaved) /\ (RestoreSaved' <=> RestoreSaved)
    BY <1>36 DEF DumpSaved, RestoreSaved
  <2>2. RestoreSaved /\ ~Dropped /\ slot = "active" /\ sub = "enabled"
    BY <1>36 DEF WorkerApply
  <2>3. ExactUpTo(Position) /\ Position < wal /\ Position \in Lsn
    BY <1>36, <2>2 DEF WorkerApply
  <2>4. \A t \in Txn : copies'[t] = IF t <= Position + 1 THEN 1 ELSE 0
    BY <1>36, <2>3, ApplyExtends DEF WorkerApply
  <2>5. Position' = Position + 1 /\ Position + 1 \in 0 .. wal /\ wal' = wal
    BY <1>36, <2>3 DEF WorkerApply
  <2>6. ExactUpTo(Position)'
    BY <2>4, <2>5 DEF Txn
  <2>7. TokenHeld' /\ StagesSaved' /\ ProcessInv' /\ NotDumpedInv' /\ DumpedInv'
    BY <1>36, <2>1, <2>2 DEF WorkerApply
  <2>8. ReplicationInv'
    BY <1>36, <2>1, <2>2, <2>5 DEF WorkerApply
  <2>9. RestoredInv'
    <3>1. base' = "rows"
      BY <1>36, <2>2 DEF WorkerApply
    <3>2. Position' \in 0 .. wal'
      BY <2>5
    <3>3. \E p \in 0 .. wal' : \A t \in Txn : copies'[t] = IF t <= p THEN 1 ELSE 0
      BY <2>4, <2>5
    <3> QED
      BY <2>1, <2>2, <2>6, <3>1, <3>3
  <2> QED
    BY <2>7, <2>8, <2>9
<1>37. CASE WorkerFeedback /\ UNCHANGED <<pc, memoryVars, fileVars, historyVars>>
  BY <1>37 DEF WorkerFeedback, DumpSaved, RestoreSaved
<1>38. CASE WorkerExit /\ UNCHANGED <<pc, memoryVars, fileVars, historyVars>>
  BY <1>38 DEF WorkerExit, DumpSaved, RestoreSaved
<1>39. CASE SenderExit /\ UNCHANGED <<pc, memoryVars, fileVars, historyVars>>
  BY <1>39 DEF SenderExit, DumpSaved, RestoreSaved
<1>40. CASE Interrupt
  BY <1>40 DEF Interrupt, DumpSaved, RestoreSaved
<1>41. ASSUME NEW o \in Options, Start(o) PROVE ResumeInv'
  BY <1>41 DEF Start, DumpSaved, RestoreSaved
<1>42. CASE Crash
  BY <1>42, EndAtStepKeeps DEF Crash
<1>43. CASE UNCHANGED vars
  BY <1>43 DEF vars, DumpSaved, RestoreSaved
<1> QED
  BY <1>1, <1>2, <1>3, <1>4, <1>5, <1>6, <1>7, <1>8, <1>9, <1>10, <1>11, <1>12, <1>13, <1>14, <1>15, <1>16, <1>17, <1>18, <1>19, <1>20,
     <1>21, <1>22, <1>23, <1>24, <1>25, <1>26, <1>27, <1>28, <1>29, <1>30, <1>31, <1>32, <1>33, <1>34, <1>35, <1>36, <1>37, <1>38, <1>39, <1>40, <1>41, <1>42, <1>43
  DEF Next, Migrator, PostgreSQL, Background, Operator

(* The strengthening: an invariant whenever restarts follow the procedure. *)
THEOREM ResumeInvariant == ASSUME ResumeProcedure PROVE Spec => []ResumeInv
<1>1. TypeOK /\ ResumeInv /\ [Next]_vars => ResumeInv'
  BY ResumeInvNext
<1> QED
  BY <1>1, ResumeInvInit, TypeCorrect, PTL DEF Spec

(* No duplicate, and no gap once the restore is through: whatever the       *)
(* interleaving of crashes and failures outside the fatal windows (some of *)
(* them half way through a data section), resumes, source commits and the  *)
(* apply worker.                                                           *)
THEOREM Exactness == ASSUME ResumeProcedure PROVE Spec => []ExactPrefix
<1>1. TypeOK /\ ResumeInv => ExactPrefix
  <2> SUFFICES ASSUME TypeOK, ResumeInv PROVE ExactPrefix
    OBVIOUS
  <2>1. CASE RestoreSaved
    <3>1. \E p \in 0 .. wal : ExactUpTo(p)
      BY <2>1 DEF ResumeInv, RestoredInv
    <3> QED
      BY <3>1 DEF ExactUpTo, ExactPrefix
  <2>2. CASE ~RestoreSaved /\ DumpSaved
    <3>1. \A t \in Txn : copies[t] <= 1
      BY <2>2 DEF ResumeInv, DumpedInv
    <3>2. base = "rows" => ExactUpTo(confirmed) /\ confirmed \in 0 .. wal
      BY <2>2, MaxWalAssumption DEF ResumeInv, DumpedInv, ReplicationInv, TypeOK, PgTypeOK, Lsn
    <3> QED
      BY <2>2, <3>1, <3>2 DEF ExactPrefix
  <2>3. CASE ~RestoreSaved /\ ~DumpSaved
    BY <2>3 DEF ResumeInv, NotDumpedInv, ExactPrefix
  <2> QED
    BY <2>1, <2>2, <2>3
<1> QED
  BY <1>1, ResumeInvariant, TypeCorrect, PTL

(* The apply worker only ever runs against a restore that is recorded, so  *)
(* no resumed run restores over what it streamed.                          *)
THEOREM StreamsAfterRestore == ASSUME ResumeProcedure PROVE Spec => []StreamAfterRestore
<1>1. ResumeInv => StreamAfterRestore
  BY DEF ResumeInv, ReplicationInv, RestoredInv, RestoreSaved, StreamAfterRestore
<1> QED
  BY <1>1, ResumeInvariant, PTL
=============================================================================
