------------------------- MODULE CommandRunnerProofs -------------------------
(***************************************************************************)
(* Proofs about CommandRunner.tla and RestoreErrors.tla, for every number  *)
(* of lines, every size of the pipe and every choice of what may hang: the *)
(* orders in which the future, the reader, the child and the operator act  *)
(* are not bounded by anything.                                            *)
(***************************************************************************)
EXTENDS CommandRunner, FiniteSetTheorems, TLAPS

-----------------------------------------------------------------------------
(* The classification and the summary.                                     *)

(* Every line has a category, whatever patterns it matches.                *)
LEMMA ClassifyTotal ==
  ASSUME NEW line, line.marks \subseteq Marks
  PROVE  Classify(line) \in Categories
<1>1. CASE "lossText" \in line.marks
  BY <1>1 DEF Classify, Categories
<1>2. CASE "lossText" \notin line.marks /\ line.marks \cap {"exists", "duplicate key"} # {}
  BY <1>2 DEF Classify, Categories
<1>3. CASE "lossText" \notin line.marks /\ line.marks \cap {"exists", "duplicate key"} = {}
  <2>1. line.marks \subseteq {"role", "extension"}
    BY <1>3 DEF Marks
  <2>2. line.marks \in {{}, {"role"}, {"extension"}, {"role", "extension"}}
    BY <2>1
  <2> QED
    BY <1>3, <2>2 DEF Classify, Categories
<1> QED
  BY <1>1, <1>2, <1>3

(* Summaries of at most n lines. *)
SummaryUpTo(n) ==
  [counts  : [Categories -> 0 .. n],
   samples : [Categories -> Seq(Lines)],
   ignored : Nat \cup {NoReport},
   total   : 0 .. n]

Text == Lines \cup {Progress}

(* A summary of n lines is one of at most m.                               *)
LEMMA SummaryGrows ==
  ASSUME NEW n \in Nat, NEW m \in Nat, n <= m, NEW s \in SummaryUpTo(n)
  PROVE  s \in SummaryUpTo(m)
<1>1. 0 .. n \subseteq 0 .. m
  OBVIOUS
<1> QED
  BY <1>1 DEF SummaryUpTo

(* A line adds at most one to every count of the summary.                  *)
LEMMA IngestBounded ==
  ASSUME NEW n \in Nat, NEW s \in SummaryUpTo(n), NEW line \in Text
  PROVE  Ingest(line, s) \in SummaryUpTo(n + 1)
<1>1. s \in SummaryUpTo(n + 1)
  BY SummaryGrows
<1>2. line.kind \in {"error", "ignored", "progress"}
  BY RunnerAssumption DEF Text, Line, Progress
<1>3. CASE line.kind = "error"
  <2> DEFINE c == Classify(line)
             t == [s.samples EXCEPT ![c] = IF Len(@) < MaxSamples THEN Append(@, line) ELSE @]
             k == [s.counts EXCEPT ![c] = @ + 1]
  <2>1. line \in Lines /\ line.marks \subseteq Marks
    BY <1>3, RunnerAssumption DEF Text, Line, Progress
  <2>2. c \in Categories
    BY <2>1, ClassifyTotal
  <2>3. k \in [Categories -> 0 .. n + 1]
    BY <2>2 DEF SummaryUpTo
  <2>4. t \in [Categories -> Seq(Lines)]
    <3>1. s.samples \in [Categories -> Seq(Lines)]
      BY DEF SummaryUpTo
    <3>2. Append(s.samples[c], line) \in Seq(Lines)
      BY <2>1, <2>2, <3>1
    <3> QED
      BY <2>2, <3>1, <3>2
  <2>5. s.total + 1 \in 0 .. n + 1
    BY DEF SummaryUpTo
  <2>6. IngestError(line, s) = [s EXCEPT !.counts = k, !.total = s.total + 1, !.samples = t]
    BY DEF IngestError, SummaryUpTo
  <2>7. IngestError(line, s) \in SummaryUpTo(n + 1)
    <3> HIDE DEF c, t, k
    <3> QED
      BY <2>3, <2>4, <2>5, <2>6, <1>1 DEF SummaryUpTo
  <2> QED
    BY <1>3, <2>7 DEF Ingest
<1>4. CASE line.kind = "ignored"
  <2>1. line.number \in Nat
    BY <1>4, RunnerAssumption DEF Text, Line, Progress
  <2> QED
    BY <1>1, <1>4, <2>1 DEF Ingest, SummaryUpTo
<1>5. CASE line.kind = "progress"
  BY <1>1, <1>5 DEF Ingest
<1> QED
  BY <1>2, <1>3, <1>4, <1>5

-----------------------------------------------------------------------------
(* Types.  The summary stays within MaxLines because it has at most the     *)
(* lines that were read, and those are among the ones that were written.   *)

LinesCounted ==
  /\ unread <= Len(written) /\ Len(written) + unwritten <= MaxLines
  /\ summary \in SummaryUpTo(Len(written) - unread)

(* Before the run nothing was written or read.                             *)
LEMMA LinesInit == Init => TypeOK /\ LinesCounted
<1> SUFFICES ASSUME Init PROVE TypeOK /\ LinesCounted
  OBVIOUS
<1>1. unwritten \in 0 .. MaxLines
  BY RunnerAssumption DEF Init
<1>2. EmptySummary \in SummaryUpTo(0)
  BY DEF EmptySummary, SummaryUpTo
<1>3. EmptySummary \in Summary
  BY RunnerAssumption DEF EmptySummary, Summary
<1>4. written = <<>> /\ unread = 0 /\ summary = EmptySummary
  BY DEF Init
<1>5. tolerate \in BOOLEAN /\ cancelled \in BOOLEAN /\ garbled \in BOOLEAN
  BY Zenon DEF Init
<1>6. Len(written) = 0 /\ written \in Seq(Lines \cup {Progress})
  BY <1>4
<1>7. LinesCounted
  BY <1>1, <1>2, <1>4, <1>6, RunnerAssumption DEF LinesCounted
<1> QED
  BY <1>1, <1>3, <1>4, <1>5, <1>6, <1>7, RunnerAssumption DEF Init, TypeOK

(* The lines that were read are those that were written, and are not still *)
(* to be read, after every step.                                           *)
LEMMA LinesStep ==
  ASSUME TypeOK, LinesCounted, [Next]_vars
  PROVE  TypeOK' /\ LinesCounted'
<1>1. ASSUME UNCHANGED <<summary, unread, written, unwritten>>
      PROVE  LinesCounted'
  BY <1>1 DEF LinesCounted
<1> USE DEF TypeOK
<1>2. CASE Spawn
  BY <1>1, <1>2 DEF Spawn, chosenVars, Captured
<1>3. CASE SpawnFails
  BY <1>1, <1>3 DEF SpawnFails, Return, chosenVars, readerVars
<1>4. CASE SelectCancel
  BY <1>1, <1>4 DEF SelectCancel, chosenVars, readerVars, childVars
<1>5. CASE SelectExit \/ GraceExit \/ GraceTimeout \/ Reap
  <2>1. UNCHANGED <<result, report, childVars, chosenVars, cancelled, readerVars>>
    BY <1>5 DEF SelectExit, GraceExit, GraceTimeout, Reap
  <2>2. pc' \in {"drain", "drainCancelled", "reap"} /\ signal' \in {signal, "kill"}
    BY <1>5 DEF SelectExit, GraceExit, AfterGrace, GraceTimeout, Reap
  <2> QED
    BY <1>1, <2>1, <2>2 DEF chosenVars, readerVars, childVars
<1>6. CASE Drain \/ DrainCancelled
  BY <1>1, <1>6 DEF Drain, DrainCancelled, Return, Outcome, chosenVars, readerVars, childVars
<1>7. CASE ReadLine
  <2>1. unread' \in 0 .. PipeSize /\ unread' <= Len(written)
    BY <1>7, RunnerAssumption DEF ReadLine, LinesCounted
  <2>2. UNCHANGED <<written, unwritten>>
    BY <1>7 DEF ReadLine
  <2>3. Len(written) \in Nat /\ unread \in Nat /\ unwritten \in Nat /\ MaxLines \in Nat
    BY RunnerAssumption
  <2>4. summary' \in SummaryUpTo(Len(written) - unread')
    <3>1. CASE unread' = unread - 1 /\ summary' = Ingest(NextLine, summary)
      <4>1. Len(written) - unread + 1 \in 1 .. Len(written)
        BY <1>7, <2>3 DEF ReadLine, LinesCounted
      <4>2. NextLine \in Text
        BY <4>1 DEF NextLine, Text
      <4>3. Len(written) - unread \in Nat
        BY <2>3 DEF LinesCounted
      <4>4. Len(written) - unread' = (Len(written) - unread) + 1
        BY <2>3, <3>1
      <4> QED
        BY <3>1, <4>2, <4>3, <4>4, IngestBounded DEF LinesCounted
    <3>2. CASE summary' = summary
      <4>1. unread' \in Nat /\ unread' <= unread
        BY <1>7, <2>3 DEF ReadLine
      <4>2. Len(written) - unread \in Nat /\ Len(written) - unread' \in Nat
        BY <2>1, <2>3, <4>1 DEF LinesCounted
      <4>3. Len(written) - unread <= Len(written) - unread'
        BY <2>3, <4>1
      <4> QED
        BY <3>2, <4>2, <4>3, SummaryGrows DEF LinesCounted
    <3> QED
      BY <1>7, <3>1, <3>2 DEF ReadLine
  <2>5. LinesCounted'
    BY <2>1, <2>2, <2>4 DEF LinesCounted
  <2>6. summary' \in Summary
    <3>1. Len(written) - unread' \in Nat /\ Len(written) - unread' <= MaxLines
      BY <2>1, <2>3 DEF LinesCounted
    <3>2. summary' \in SummaryUpTo(MaxLines)
      BY <2>3, <2>4, <3>1, SummaryGrows
    <3> QED
      BY <3>2 DEF Summary, SummaryUpTo
  <2>7. reader' \in {"reading", "done"}
    BY <1>7 DEF ReadLine, Reading
  <2> QED
    BY <1>7, <2>1, <2>5, <2>6, <2>7 DEF ReadLine, runnerVars, chosenVars
<1>8. CASE ReadEnd
  BY <1>1, <1>8 DEF ReadEnd, runnerVars, chosenVars, childVars
<1>9. ASSUME NEW how \in {"success", "errors", "killed"}, LeaderEnds(how)
      PROVE  TypeOK' /\ LinesCounted'
  BY <1>1, <1>9 DEF LeaderEnds, runnerVars, chosenVars, readerVars
<1>10. CASE Write
  <2>1. CASE LeaderEnds("killed")
    BY <1>9, <2>1
  <2>2. CASE ~LeaderEnds("killed")
    <3> PICK line \in Text : written' = Append(written, line)
      BY <1>10, <2>2 DEF Write, Text
    <3>1. /\ unread' = unread + 1 /\ unread < PipeSize
          /\ unwritten' = unwritten - 1 /\ unwritten > 0
          /\ UNCHANGED <<runnerVars, chosenVars, cancelled, readerVars, alive, status>>
      BY <1>10, <2>2 DEF Write
    <3>2. written' \in Seq(Text) /\ Len(written') = Len(written) + 1 /\ Len(written) \in Nat
      <4>1. written \in Seq(Text)
        BY DEF Text
      <4> QED
        BY <4>1
    <3>3. unread' \in 0 .. PipeSize /\ unwritten' \in 0 .. MaxLines
      BY <3>1, RunnerAssumption
    <3>4. Len(written') - unread' = Len(written) - unread
      BY <3>1, <3>2
    <3>5. LinesCounted'
      BY <3>1, <3>2, <3>4, RunnerAssumption DEF LinesCounted, readerVars
    <3> QED
      BY <3>1, <3>2, <3>3, <3>5 DEF runnerVars, chosenVars, readerVars, Text
  <2> QED
    BY <2>1, <2>2
<1>11. CASE LeaderFinishes \/ LeaderObeys \/ LeaderDies
  BY <1>9, <1>11 DEF LeaderFinishes, LeaderObeys, LeaderDies
<1>12. CASE WorkerEnds
  BY <1>1, <1>12 DEF WorkerEnds, runnerVars, chosenVars, readerVars
<1>13. CASE Cancel
  <2>1. cancelled' \in BOOLEAN
    BY <1>13, Zenon DEF Cancel
  <2> QED
    BY <1>1, <1>13, <2>1 DEF Cancel, runnerVars, childVars, chosenVars, readerVars
<1>14. CASE UNCHANGED vars
  BY <1>1, <1>14 DEF vars, runnerVars, childVars, chosenVars, readerVars
<1> QED
  BY <1>2, <1>3, <1>4, <1>5, <1>6, <1>7, <1>8, <1>10, <1>11, <1>12, <1>13, <1>14
     DEF Next, Runner, Reader, Child

(* The pipe never holds more lines than fit, and the summary never counts   *)
(* more than were written (RestoreErrorSummary, TokioCommandRunner::run).  *)
THEOREM TypeCorrect == Spec => [](TypeOK /\ LinesCounted)
  BY LinesInit, LinesStep, PTL DEF Spec

-----------------------------------------------------------------------------
(* Cancellation.                                                           *)

(* Only the branch of a cancellation sends signals, and it leads to no      *)
(* other result.                                                           *)
SignalledIsCancelled ==
  /\ pc \in {"spawn", "select", "drain"} => signal = "none"
  /\ pc \in {"grace", "reap", "drainCancelled"} => signal # "none"
  /\ pc = "returned" /\ signal # "none" => result = "cancelled"

(* Only a cancelled call signals its child.                                *)
LEMMA SignalledStep ==
  ASSUME SignalledIsCancelled, [Next]_vars
  PROVE  SignalledIsCancelled'
<1> USE DEF SignalledIsCancelled
<1>1. CASE Spawn \/ SpawnFails
  BY <1>1 DEF Spawn, SpawnFails, Return
<1>2. CASE SelectCancel \/ SelectExit
  BY <1>2 DEF SelectCancel, SelectExit
<1>3. CASE GraceExit \/ GraceTimeout \/ Reap
  BY <1>3 DEF GraceExit, AfterGrace, GraceTimeout, Reap
<1>4. CASE Drain \/ DrainCancelled
  BY <1>4 DEF Drain, DrainCancelled, Return
<1>5. ASSUME UNCHANGED runnerVars PROVE SignalledIsCancelled'
  BY <1>5 DEF runnerVars
<1>6. CASE Reader \/ Child \/ Cancel
  BY <1>5, <1>6 DEF Reader, ReadLine, ReadEnd, Child, Write, LeaderFinishes, LeaderObeys,
                    LeaderDies, LeaderEnds, WorkerEnds, Cancel
<1>7. CASE UNCHANGED vars
  BY <1>5, <1>7 DEF vars
<1> QED
  BY <1>1, <1>2, <1>3, <1>4, <1>6, <1>7 DEF Next, Runner

(* A child that was sent a signal is reported as cancelled, whatever its    *)
(* exit status and also if errors are tolerated (TokioCommandRunner::run,  *)
(* run_pg_restore).                                                        *)
THEOREM SignalNotSwallowed == Spec => []CancelNotSwallowed
<1>1. Init => SignalledIsCancelled
  BY DEF Init, SignalledIsCancelled
<1>2. SignalledIsCancelled /\ [Next]_vars => SignalledIsCancelled'
  BY SignalledStep
<1>3. SignalledIsCancelled => CancelNotSwallowed
  BY DEF SignalledIsCancelled, CancelNotSwallowed
<1> QED
  BY <1>1, <1>2, <1>3, PTL DEF Spec

-----------------------------------------------------------------------------
(* The end of the call.  What each of the two tasks has waited for: the     *)
(* future for the leader's exit, the reader for the pipe's last writer     *)
(* (or a line that does not decode), the future then for the reader.       *)

Waited ==
  /\ pc = "spawn" => alive = {} /\ reader = "none" /\ unread = 0 /\ status = "none"
  /\ reader = "none" => alive \subseteq {"leader"} /\ unread = 0
  /\ reader = "none" /\ pc # "spawn" => ~Captured \/ status = "unspawned"
  /\ reader = "done" => unread = 0 /\ (garbled \/ alive = {})
  /\ pc \in {"drain", "drainCancelled", "returned"} => "leader" \notin alive
  /\ pc = "returned" => reader # "reading"
  /\ status = "unspawned" => pc = "returned"
  /\ status = "success" => "leader" \notin alive /\ unwritten = 0
  /\ pc # "returned" => result = "none"
  /\ result = "ok" /\ ~tolerate => status = "success"

(* The runner goes on after the child and its reader are done.             *)
LEMMA WaitedStep ==
  ASSUME TypeOK, Waited, [Next]_vars
  PROVE  Waited'
<1> USE DEF Waited
<1>1. CASE Spawn
  BY <1>1 DEF Spawn, Captured, chosenVars
<1>2. CASE SpawnFails
  BY <1>2 DEF SpawnFails, Return, Captured, chosenVars, readerVars
<1>3. CASE SelectCancel
  BY <1>3 DEF SelectCancel, Captured, chosenVars, readerVars, childVars
<1>4. CASE SelectExit
  BY <1>4 DEF SelectExit, Captured, chosenVars, readerVars, childVars
<1>5. CASE GraceExit
  BY <1>5 DEF GraceExit, AfterGrace, Captured, chosenVars, readerVars, childVars
<1>6. CASE GraceTimeout
  BY <1>6 DEF GraceTimeout, Captured, chosenVars, readerVars, childVars
<1>7. CASE Reap
  BY <1>7 DEF Reap, Captured, chosenVars, readerVars, childVars
<1>8. CASE Drain
  <2>1. result' = "ok" /\ ~tolerate => status = "success"
    BY <1>8 DEF Drain, Outcome
  <2> QED
    BY <1>8, <2>1 DEF Drain, Drained, Captured, chosenVars, readerVars, childVars
<1>9. CASE DrainCancelled
  BY <1>9 DEF DrainCancelled, Drained, Return, Captured, chosenVars, readerVars, childVars
<1>10. CASE ReadLine
  BY <1>10 DEF ReadLine, Reading, Captured, chosenVars, runnerVars, TypeOK
<1>11. CASE ReadEnd
  BY <1>11 DEF ReadEnd, Reading, Captured, chosenVars, runnerVars, childVars
<1>12. ASSUME NEW how \in {"success", "errors", "killed"}, LeaderEnds(how),
              how = "success" => unwritten = 0
       PROVE  Waited'
  BY <1>12 DEF LeaderEnds, Captured, chosenVars, runnerVars, readerVars
<1>13. CASE Write
  <2>1. CASE LeaderEnds("killed")
    BY <1>12, <2>1
  <2>2. CASE ~LeaderEnds("killed")
    BY <1>13, <2>2 DEF Write, Captured, chosenVars, runnerVars, readerVars
  <2> QED
    BY <2>1, <2>2
<1>14. CASE LeaderFinishes \/ LeaderObeys \/ LeaderDies
  BY <1>12, <1>14 DEF LeaderFinishes, LeaderObeys, LeaderDies
<1>15. CASE WorkerEnds
  BY <1>15 DEF WorkerEnds, Captured, chosenVars, runnerVars, readerVars
<1>16. CASE Cancel
  BY <1>16 DEF Cancel, Captured, chosenVars, runnerVars, readerVars, childVars
<1>17. CASE UNCHANGED vars
  BY <1>17 DEF vars, Captured, chosenVars, runnerVars, readerVars, childVars
<1> QED
  BY <1>1, <1>2, <1>3, <1>4, <1>5, <1>6, <1>7, <1>8, <1>9, <1>10, <1>11, <1>13, <1>14, <1>15,
     <1>16, <1>17 DEF Next, Runner, Reader, Child

(* What each task has waited for holds at every step of the call: a child   *)
(* that may still write or work is one that something still waits for      *)
(* (the join of the stderr task, child.wait()).                            *)
THEOREM WaitedInvariant == Spec => []Waited
<1>1. Init => Waited
  BY DEF Init, Waited
<1> QED
  BY <1>1, WaitedStep, TypeCorrect, PTL DEF Spec

(* Nothing of the child is left when the call returns, unless a line did    *)
(* not decode: neither the leader nor a worker, however it ended           *)
(* (TokioCommandRunner::run).                                              *)
THEOREM NoneLeft == Spec => []NoOrphan
<1>1. TypeOK /\ Waited => NoOrphan
  BY DEF TypeOK, Waited, NoOrphan
<1> QED
  BY <1>1, TypeCorrect, WaitedInvariant, PTL

(* Without tolerance, success is a child that ended by itself with status   *)
(* 0, whose output was read to the end (TokioCommandRunner::run).          *)
THEOREM SuccessIsDone == Spec => []OkMeansDone
<1>1. TypeOK /\ Waited /\ CancelNotSwallowed => OkMeansDone
  <2> SUFFICES ASSUME TypeOK, Waited, CancelNotSwallowed, result = "ok", ~tolerate
               PROVE  /\ status = "success" /\ signal = "none"
                      /\ Captured => unread = 0 /\ unwritten = 0
    BY DEF OkMeansDone
  <2>1. pc = "returned" /\ status = "success"
    BY DEF Waited
  <2>2. signal = "none"
    BY <2>1 DEF CancelNotSwallowed
  <2>3. reader \in {"none", "done"}
    BY <2>1 DEF Waited, TypeOK
  <2> QED
    BY <2>1, <2>2, <2>3 DEF Waited
<1> QED
  BY <1>1, TypeCorrect, WaitedInvariant, SignalNotSwallowed, PTL

-----------------------------------------------------------------------------
(* The report.  What was read are the first lines that were written, and    *)
(* the summary counts the errors among them.                               *)

LinesRead == Len(written) - unread

ErrorsIn(n) == {i \in 1 .. n : written[i].kind = "error"}

LossTextIn(n) == \E i \in ErrorsIn(n) : "lossText" \in written[i].marks

ReadExactly ==
  /\ program # "pg_restore" => summary = EmptySummary
  /\ program = "pg_restore" /\ ~garbled =>
       /\ summary.total = Cardinality(ErrorsIn(LinesRead))
       /\ LossTextIn(LinesRead) => summary.counts["DataLoss"] > 0

(* The errors among the first n lines can be counted.                      *)
LEMMA ErrorsFinite ==
  ASSUME NEW n \in Nat
  PROVE  IsFiniteSet(ErrorsIn(n)) /\ Cardinality(ErrorsIn(n)) \in Nat
<1>1. IsFiniteSet(1 .. n)
  BY FS_Interval
<1>2. IsFiniteSet(ErrorsIn(n))
  BY <1>1, FS_Subset DEF ErrorsIn
<1> QED
  BY <1>2, FS_CardinalityType

(* One more line is read. *)
LEMMA ReadExactlyLine ==
  ASSUME TypeOK, LinesCounted, ReadExactly, ~garbled, program = "pg_restore",
         unread > 0, unread' = unread - 1, summary' = Ingest(NextLine, summary),
         UNCHANGED <<written, program, garbled>>
  PROVE  ReadExactly'
<1>0. LinesRead \in Nat
  BY DEF TypeOK, LinesCounted, LinesRead
<1> PICK n \in Nat : n = LinesRead
  BY <1>0
<1> DEFINE line == written[n + 1]
<1>1. n \in Nat /\ n + 1 \in 1 .. Len(written) /\ LinesRead' = n + 1
  BY DEF TypeOK, LinesCounted, LinesRead
<1>2. line \in Text /\ NextLine = line
  BY <1>1 DEF TypeOK, Text, NextLine, LinesRead
<1>3. line.kind \in {"error", "ignored", "progress"}
  BY <1>2, RunnerAssumption DEF Text, Line, Progress
<1>4. summary \in SummaryUpTo(n)
  BY DEF LinesCounted, LinesRead
<1>5. IsFiniteSet(ErrorsIn(n)) /\ Cardinality(ErrorsIn(n)) \in Nat
  BY <1>1, ErrorsFinite
<1>6. /\ summary.total = Cardinality(ErrorsIn(n))
      /\ LossTextIn(n) => summary.counts["DataLoss"] > 0
  BY DEF ReadExactly
<1>7. ErrorsIn(n + 1)' = ErrorsIn(n + 1)
  BY <1>1 DEF ErrorsIn
<1> SUFFICES /\ summary'.total = Cardinality(ErrorsIn(n + 1))
             /\ LossTextIn(n + 1) => summary'.counts["DataLoss"] > 0
  BY <1>1 DEF ReadExactly, ErrorsIn, LossTextIn
<1>8. CASE line.kind = "error"
  <2>1. ErrorsIn(n + 1) = ErrorsIn(n) \cup {n + 1} /\ n + 1 \notin ErrorsIn(n)
    BY <1>1, <1>8 DEF ErrorsIn
  <2>2. Cardinality(ErrorsIn(n + 1)) = Cardinality(ErrorsIn(n)) + 1
    BY <1>5, <2>1, FS_AddElement
  <2>3. line.marks \subseteq Marks
    BY <1>2, <1>8, RunnerAssumption DEF Text, Line, Progress
  <2> DEFINE c == Classify(line)
  <2>4. c \in Categories
    BY <2>3, ClassifyTotal
  <2>5. summary' = IngestError(line, summary)
    BY <1>2, <1>8 DEF Ingest
  <2>6. summary.counts \in [Categories -> Nat] /\ summary.total \in Nat
    BY <1>1, <1>4 DEF SummaryUpTo
  <2>7. /\ summary'.total = summary.total + 1
        /\ summary'.counts = [summary.counts EXCEPT ![c] = @ + 1]
    BY <1>4, <2>5 DEF IngestError, SummaryUpTo
  <2>8. LossTextIn(n + 1) => summary'.counts["DataLoss"] > 0
    <3>1. "DataLoss" \in Categories
      BY DEF Categories
    <3>2. summary'.counts["DataLoss"] >= summary.counts["DataLoss"]
      <4> HIDE DEF c
      <4> QED
        BY <2>4, <2>6, <2>7, <3>1
    <3>3. CASE LossTextIn(n)
      BY <1>6, <2>6, <2>7, <2>4, <3>1, <3>2, <3>3
    <3>4. CASE "lossText" \in line.marks
      <4>1. line.marks \notin {{}, {"role"}, {"extension"}, {"role", "extension"}}
        BY <3>4
      <4>2. c = "DataLoss"
        BY <3>4, <4>1 DEF Classify
      <4> QED
        BY <2>6, <2>7, <3>1, <4>2
    <3>5. LossTextIn(n + 1) => LossTextIn(n) \/ "lossText" \in line.marks
      BY <2>1 DEF LossTextIn
    <3> QED
      BY <3>3, <3>4, <3>5
  <2> QED
    BY <1>6, <2>2, <2>7, <2>8
<1>9. CASE line.kind # "error"
  <2>1. ErrorsIn(n + 1) = ErrorsIn(n)
    BY <1>1, <1>9 DEF ErrorsIn
  <2>2. summary'.total = summary.total /\ summary'.counts = summary.counts
    BY <1>2, <1>3, <1>4, <1>9 DEF Ingest, SummaryUpTo
  <2> QED
    BY <1>6, <2>1, <2>2 DEF LossTextIn
<1> QED
  BY <1>8, <1>9

(* What a step counts it read, and what it read it counts once.            *)
LEMMA ReadExactlyStep ==
  ASSUME TypeOK, LinesCounted, ReadExactly, [Next]_vars
  PROVE  ReadExactly'
<1>1. ASSUME UNCHANGED <<program, garbled, summary, written>>, unread' = unread
      PROVE  ReadExactly'
  BY <1>1 DEF ReadExactly, LinesRead, ErrorsIn, LossTextIn
<1>2. CASE Runner
  BY <1>1, <1>2 DEF Runner, Spawn, SpawnFails, SelectCancel, SelectExit, GraceExit, GraceTimeout,
     Reap, Drain, DrainCancelled, chosenVars, readerVars, childVars
<1>3. CASE ReadLine
  <2>1. UNCHANGED <<program, garbled, written>> /\ unread > 0
    BY <1>3 DEF ReadLine, chosenVars
  <2>2. CASE program # "pg_restore"
    BY <1>3, <2>1, <2>2 DEF ReadLine, ReadExactly
  <2>3. CASE program = "pg_restore" /\ garbled
    BY <2>1, <2>3 DEF ReadExactly
  <2>4. CASE program = "pg_restore" /\ ~garbled
    BY <1>3, <2>1, <2>4, ReadExactlyLine DEF ReadLine
  <2> QED
    BY <2>2, <2>3, <2>4
<1>4. CASE Write /\ ~LeaderEnds("killed")
  <2> PICK line \in Text : written' = Append(written, line)
    BY <1>4 DEF Write, Text
  <2>1. unread' = unread + 1 /\ UNCHANGED <<program, garbled, summary>>
    BY <1>4 DEF Write, chosenVars, readerVars
  <2>2. LinesRead' = LinesRead /\ LinesRead \in Nat /\ LinesRead <= Len(written)
    BY <2>1 DEF LinesRead, TypeOK, LinesCounted
  <2>3. \A i \in 1 .. LinesRead : written'[i] = written[i]
    BY <2>2 DEF TypeOK
  <2>4. ErrorsIn(LinesRead)' = ErrorsIn(LinesRead)
    BY <2>2, <2>3 DEF ErrorsIn
  <2>5. LossTextIn(LinesRead)' = LossTextIn(LinesRead)
    BY <2>3, <2>4 DEF LossTextIn, ErrorsIn
  <2> QED
    BY <2>1, <2>4, <2>5 DEF ReadExactly
<1>5. ASSUME NEW how \in {"success", "errors", "killed"}, LeaderEnds(how) PROVE ReadExactly'
  BY <1>1, <1>5 DEF LeaderEnds, chosenVars, readerVars
<1>6. CASE ReadEnd \/ WorkerEnds \/ Cancel \/ UNCHANGED vars
  BY <1>1, <1>6 DEF ReadEnd, WorkerEnds, Cancel, vars, chosenVars, readerVars, childVars
<1>7. CASE LeaderFinishes \/ LeaderObeys \/ LeaderDies
  BY <1>5, <1>7 DEF LeaderFinishes, LeaderObeys, LeaderDies
<1> QED
  BY <1>2, <1>3, <1>4, <1>5, <1>6, <1>7 DEF Next, Reader, Child

(* A report is made of everything that was read, at the end. *)
ReportedLast ==
  report # NoReport =>
    /\ pc = "returned" /\ program = "pg_restore"
    /\ report = Report(summary) /\ reader = "done"

(* The report is made of a summary that no later step changes.             *)
LEMMA ReportedLastStep ==
  ASSUME TypeOK, Waited, ReadExactly, ReportedLast, [Next]_vars
  PROVE  ReportedLast'
<1>1. ASSUME UNCHANGED <<program, summary, reader, runnerVars>> PROVE ReportedLast'
  BY <1>1 DEF ReportedLast, runnerVars
<1>2. ASSUME UNCHANGED report, pc # "returned" PROVE ReportedLast'
  BY <1>2 DEF ReportedLast
<1>3. CASE Drain
  <2>1. CASE report' = NoReport
    BY <2>1 DEF ReportedLast
  <2>2. CASE report' # NoReport
    <3>1. report' = Reported
      BY <1>3, <2>2 DEF Drain
    <3>2. program = "pg_restore"
      <4> SUFFICES ASSUME program # "pg_restore" PROVE FALSE
        OBVIOUS
      <4>1. summary = EmptySummary
        BY DEF ReadExactly
      <4> QED
        BY <2>2, <3>1, <4>1 DEF Reported, EmptySummary, IsEmpty
    <3>3. reader = "done"
      BY <1>3, <3>2 DEF Drain, Drained, TypeOK, Waited, Captured
    <3>4. Reported = Report(summary)
      BY <2>2, <3>1 DEF Reported
    <3> QED
      BY <1>3, <3>1, <3>2, <3>3, <3>4 DEF Drain, ReportedLast, chosenVars, readerVars
  <2> QED
    BY <2>1, <2>2
<1>4. CASE Runner /\ ~Drain
  BY <1>2, <1>4 DEF Runner, Spawn, SpawnFails, SelectCancel, SelectExit, GraceExit, GraceTimeout,
     Reap, DrainCancelled, Return
<1>5. CASE Reader
  <2>1. reader = "reading" /\ UNCHANGED runnerVars
    BY <1>5 DEF Reader, ReadLine, ReadEnd, Reading
  <2> QED
    BY <2>1 DEF ReportedLast, runnerVars
<1>6. CASE Child \/ Cancel \/ UNCHANGED vars
  BY <1>1, <1>6 DEF Child, Write, LeaderFinishes, LeaderObeys, LeaderDies, LeaderEnds, WorkerEnds,
     Cancel, vars, chosenVars, readerVars, runnerVars
<1> QED
  BY <1>3, <1>4, <1>5, <1>6 DEF Next

(* The summary is that of the lines read so far, at every step, and a       *)
(* report is made of the last one (ingest_pg_restore_stderr_line).         *)
THEOREM ReportInvariant == Spec => [](ReadExactly /\ ReportedLast)
<1>1. Init => ReadExactly /\ ReportedLast
  <2> SUFFICES ASSUME Init PROVE ReadExactly /\ ReportedLast
    OBVIOUS
  <2>1. written = <<>> /\ unread = 0 /\ summary = EmptySummary /\ report = NoReport
    BY DEF Init
  <2>2. ErrorsIn(LinesRead) = {}
    BY <2>1 DEF ErrorsIn, LinesRead
  <2>3. summary.total = 0
    BY <2>1 DEF EmptySummary
  <2> QED
    BY <2>1, <2>2, <2>3, FS_EmptySet DEF ReadExactly, ReportedLast, LossTextIn
<1> QED
  BY <1>1, ReadExactlyStep, ReportedLastStep, TypeCorrect, WaitedInvariant, PTL DEF Spec

(* The report of a failed pg_restore counts every error line it wrote once, *)
(* though its end, the reader and a cancellation race                      *)
(* (ingest_pg_restore_stderr_line, render_report).                         *)
THEOREM ReportCountsAll == Spec => []ReportExact
<1>1. TypeOK /\ Waited /\ ReadExactly /\ ReportedLast => ReportExact
  <2> SUFFICES ASSUME TypeOK, Waited, ReadExactly, ReportedLast, report # NoReport, ~garbled
               PROVE  report.total = Cardinality(ErrorLines)
    BY DEF ReportExact
  <2>1. program = "pg_restore" /\ report = Report(summary) /\ unread = 0
    BY DEF ReportedLast, Waited
  <2>2. LinesRead = Len(written) /\ DOMAIN written = 1 .. Len(written)
    BY <2>1 DEF LinesRead, TypeOK
  <2>3. ErrorsIn(LinesRead) = ErrorLines
    BY <2>2 DEF ErrorsIn, ErrorLines
  <2> QED
    BY <2>1, <2>3 DEF ReadExactly, Report
<1> QED
  BY <1>1, TypeCorrect, WaitedInvariant, ReportInvariant, PTL

(* What a failed command leaves behind when the call returns. *)
FailureReported ==
  /\ program # "pg_restore" => \A i \in DOMAIN written : written[i] = Progress
  /\ pc = "returned" /\ signal = "none" /\ status = "errors" => report = Reported

(* A failure that the call returns was the child's, or its cancellation.   *)
LEMMA FailureReportedStep ==
  ASSUME TypeOK, Waited, SignalledIsCancelled, FailureReported, [Next]_vars
  PROVE  FailureReported'
<1>1. ASSUME UNCHANGED <<program, written>>,
             pc' # "returned" \/ (pc = "returned" /\ UNCHANGED <<runnerVars, summary, status>>)
      PROVE  FailureReported'
  BY <1>1 DEF FailureReported, Reported, runnerVars
<1>2. CASE SpawnFails
  BY <1>2 DEF SpawnFails, FailureReported, chosenVars
<1>3. CASE Drain
  BY <1>3 DEF Drain, FailureReported, Reported, chosenVars, childVars, readerVars
<1>4. CASE DrainCancelled
  <2>1. signal # "none" \/ FailureReported'
    BY <1>4 DEF DrainCancelled, Return, FailureReported, chosenVars, childVars, SignalledIsCancelled
  <2>2. UNCHANGED <<program, written, signal>>
    BY <1>4 DEF DrainCancelled, chosenVars, childVars
  <2> QED
    BY <2>1, <2>2 DEF FailureReported
<1>5. CASE Runner /\ ~SpawnFails /\ ~Drain /\ ~DrainCancelled
  BY <1>1, <1>5 DEF Runner, Spawn, SelectCancel, SelectExit, GraceExit, AfterGrace, GraceTimeout,
     Reap, chosenVars, childVars
<1>6. CASE Reader
  <2>1. pc # "returned"
    BY <1>6 DEF Reader, ReadLine, ReadEnd, Reading, Waited
  <2>2. UNCHANGED <<program, written, pc>>
    BY <1>6 DEF Reader, ReadLine, ReadEnd, runnerVars, chosenVars, childVars
  <2> QED
    BY <1>1, <2>1, <2>2
<1>7. CASE Write /\ ~LeaderEnds("killed")
  <2>1. pc # "returned" /\ UNCHANGED <<pc, program>>
    BY <1>7 DEF Write, Waited, runnerVars, chosenVars
  <2>2. CASE program # "pg_restore"
    <3>1. written' = Append(written, Progress)
      BY <1>7, <2>2 DEF Write
    <3>2. \A i \in DOMAIN written' : written'[i] = Progress
      BY <2>2, <3>1 DEF FailureReported, TypeOK
    <3> QED
      BY <2>1, <3>2 DEF FailureReported
  <2> QED
    BY <2>1, <2>2 DEF FailureReported
<1>8. ASSUME NEW how \in {"success", "errors", "killed"}, LeaderEnds(how) PROVE FailureReported'
  <2>1. pc # "returned" /\ UNCHANGED <<pc, program, written>>
    BY <1>8 DEF LeaderEnds, Waited, runnerVars, chosenVars
  <2> QED
    BY <1>1, <2>1
<1>9. CASE LeaderFinishes \/ LeaderObeys \/ LeaderDies
  BY <1>8, <1>9 DEF LeaderFinishes, LeaderObeys, LeaderDies
<1>10. CASE WorkerEnds \/ Cancel \/ UNCHANGED vars
  BY <1>1, <1>10 DEF WorkerEnds, Cancel, vars, runnerVars, chosenVars, readerVars, childVars
<1> QED
  BY <1>2, <1>3, <1>4, <1>5, <1>6, <1>7, <1>8, <1>9, <1>10 DEF Next, Child

(* A text that counts as data loss is never played down: whenever           *)
(* pg_restore ends with errors of which a line has one, the report asks    *)
(* for a review, whatever else that line and the others say                *)
(* (classify_pg_restore_error, render_report).  Nothing is claimed of rows *)
(* that are lost without such a text.                                      *)
THEOREM LossTextsAreFlagged == Spec => []LossTextsFlagged
<1>1. Init => SignalledIsCancelled /\ FailureReported
  BY DEF Init, SignalledIsCancelled, FailureReported
<1>2. SignalledIsCancelled /\ [Next]_vars => SignalledIsCancelled'
  BY SignalledStep
<1>3. TypeOK /\ LinesCounted /\ Waited /\ ReadExactly /\ FailureReported => LossTextsFlagged
  <2> SUFFICES ASSUME TypeOK, LinesCounted, Waited, ReadExactly, FailureReported,
                      pc = "returned", status = "errors", signal = "none", ~garbled,
                      NEW i \in ErrorLines, "lossText" \in written[i].marks
               PROVE  report # NoReport /\ report.verdict = "review required"
    BY DEF LossTextsFlagged
  <2>1. program = "pg_restore"
    BY DEF FailureReported, ErrorLines, Progress
  <2>2. reader = "done" /\ unread = 0
    BY <2>1 DEF Waited, Captured, TypeOK
  <2>3. LinesRead = Len(written) /\ DOMAIN written = 1 .. Len(written)
    BY <2>2 DEF LinesRead, TypeOK
  <2>4. ErrorsIn(LinesRead) = ErrorLines
    BY <2>3 DEF ErrorsIn, ErrorLines
  <2>5. summary.counts["DataLoss"] > 0 /\ summary.total = Cardinality(ErrorsIn(LinesRead))
    BY <2>1, <2>4 DEF ReadExactly, LossTextIn
  <2>6. summary.total # 0
    <3>1. LinesRead \in Nat
      BY <2>3 DEF TypeOK
    <3>2. IsFiniteSet(ErrorsIn(LinesRead))
      BY <3>1, ErrorsFinite
    <3> QED
      BY <2>4, <2>5, <3>2, FS_EmptySet
  <2>7. report = Report(summary)
    BY <2>6 DEF FailureReported, Reported, IsEmpty
  <2>8. Verdict(summary) = "review required"
    BY <2>5, <2>6 DEF Verdict, HasDataLoss, IsEmpty
  <2>9. Report(summary) \in Reports
    <3> DEFINE b == {<<c, summary.counts[c]>> : c \in {d \in Categories : summary.counts[d] # 0}}
               t == {<<c, summary.samples[c]>> : c \in {d \in Categories : summary.samples[d] # <<>>}}
    <3>1. /\ summary.counts \in [Categories -> Nat]
          /\ summary.samples \in [Categories -> Seq(Line)]
          /\ summary.total \in Nat /\ summary.ignored \in Nat \cup {NoReport}
      <4>1. Seq(Lines) \subseteq Seq(Line)
        BY RunnerAssumption
      <4> QED
        BY <4>1, RunnerAssumption DEF TypeOK, Summary
    <3>2. b \in SUBSET (Categories \X Nat)
      BY <3>1
    <3>3. t \in SUBSET (Categories \X Seq(Line))
      BY <3>1
    <3>4. Report(summary) = [total |-> summary.total, ignored |-> summary.ignored, breakdown |-> b,
                             samples |-> t, verdict |-> "review required"]
      BY <2>8 DEF Report
    <3> DEFINE B == SUBSET (Categories \X Nat)
               T == SUBSET (Categories \X Seq(Line))
               V == {"review required", "no errors", "likely safe"}
    <3>5. Reports = [total : Nat, ignored : Nat \cup {NoReport}, breakdown : B, samples : T, verdict : V]
      BY DEF Reports
    <3>6. b \in B /\ t \in T /\ "review required" \in V
      BY <3>2, <3>3
    <3> DEFINE tot == summary.total
               ign == summary.ignored
    <3>7. tot \in Nat /\ ign \in Nat \cup {NoReport}
      BY <3>1
    <3>8. Report(summary) = [total |-> tot, ignored |-> ign, breakdown |-> b, samples |-> t,
                             verdict |-> "review required"]
      BY <3>4
    <3> HIDE DEF b, t, B, T, V, tot, ign
    <3>9. [total |-> tot, ignored |-> ign, breakdown |-> b, samples |-> t,
           verdict |-> "review required"]
            \in [total : Nat, ignored : Nat \cup {NoReport}, breakdown : B, samples : T, verdict : V]
      BY <3>6, <3>7
    <3> QED
      BY <3>5, <3>8, <3>9, Zenon
  <2> QED
    BY <2>7, <2>8, <2>9, RunnerAssumption DEF Report
<1> QED
  BY <1>1, <1>2, <1>3, FailureReportedStep, TypeCorrect, WaitedInvariant, ReportInvariant, PTL
     DEF Spec

=============================================================================
