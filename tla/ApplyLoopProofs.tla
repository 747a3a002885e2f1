--------------------------- MODULE ApplyLoopProofs ---------------------------
(***************************************************************************)
(* Proofs about ApplyLoop.tla, for every bound on the WAL, every threshold *)
(* and whether or not the health query may fail: types, that no cutover    *)
(* request is slept through, that the operator is told what was measured,  *)
(* and that the loop implements ApplyPhase.                                *)
(***************************************************************************)
EXTENDS ApplyLoop, TLAPS

(* Types: every variable stays in its set, and the count of stale polls     *)
(* below the number at which the worker's health is asked for              *)
(* (run_native_apply).                                                     *)
THEOREM TypeCorrect == Spec => []TypeOK
<1>1. Init => TypeOK
  <2> SUFFICES ASSUME Init PROVE TypeOK
    OBVIOUS
  <2>1. conf \in Lsn /\ src \in Lsn
    BY LoopAssumption DEF Init, Lsn
  <2>2. /\ requested \in BOOLEAN /\ permit \in BOOLEAN /\ cancelled \in BOOLEAN
        /\ polled \in BOOLEAN /\ caughtUp \in BOOLEAN
    BY Zenon DEF Init
  <2> QED
    BY <2>1, <2>2 DEF Init, TypeOK, MaxStale
<1>2. TypeOK /\ [Next]_vars => TypeOK'
  <2> SUFFICES ASSUME TypeOK, [Next]_vars PROVE TypeOK'
    OBVIOUS
  <2> USE DEF TypeOK, Lsn
  <2>1. CASE Top
    BY <2>1 DEF Top, End, signalVars, pollVars, serverVars
  <2>2. CASE Wake
    <3>1. permit' \in BOOLEAN
      BY <2>2, Zenon DEF Wake, TypeOK
    <3>2. pc' \in {"top", "check"} /\ UNCHANGED <<handler, requested, cancelled, pollVars, exit, serverVars>>
      BY <2>2 DEF Wake
    <3> QED
      BY <3>1, <3>2 DEF pollVars, serverVars
  <2>3. CASE CheckCutover
    BY <2>3 DEF CheckCutover, End, signalVars, serverVars
  <2>4. CASE Sample
    <3>1. stale' \in 0 .. MaxStale - 1
      BY <2>4 DEF Sample, StaleNext, StaleNow, MaxStale
    <3>2. caughtUp' \in BOOLEAN
      BY <2>4, LoopAssumption DEF Sample, Observe, LagBytes
    <3>3. event' \in {"Lag", "CaughtUp", "StreamApply"} /\ told' \in {"nothing", "ready", "behind"}
      BY <2>4 DEF Sample, EventsOf
    <3>4. pc' \in {"health", "top"} /\ prev' \in Lsn
      BY <2>4 DEF Sample
    <3> QED
      BY <2>4, <3>1, <3>2, <3>3, <3>4 DEF Sample, signalVars, serverVars
  <2>5. CASE SampleFails
    BY <2>5 DEF SampleFails, signalVars, pollVars, serverVars
  <2>6. CASE CheckHealth
    BY <2>6 DEF CheckHealth, End, signalVars, pollVars, serverVars
  <2>7. CASE Teardown
    BY <2>7 DEF Teardown, signalVars, pollVars, serverVars
  <2>8. CASE Interrupt
    <3>1. requested' \in BOOLEAN /\ cancelled' \in BOOLEAN
      BY <2>8, Zenon DEF Interrupt, TypeOK
    <3>2. handler' \in {"notifying", "ended"} /\ UNCHANGED <<pc, permit, pollVars, exit, serverVars>>
      BY <2>8 DEF Interrupt
    <3> QED
      BY <3>1, <3>2 DEF pollVars, serverVars
  <2>9. CASE Notify
    BY <2>9 DEF Notify, pollVars, serverVars
  <2>10. CASE SourceWrites
    BY <2>10, LoopAssumption DEF SourceWrites, signalVars, pollVars
  <2>11. CASE WorkerConfirms
    BY <2>11, LoopAssumption DEF WorkerConfirms, signalVars, pollVars
  <2>12. CASE WorkerFlips
    BY <2>12 DEF WorkerFlips, signalVars, pollVars
  <2>13. CASE UNCHANGED vars
    BY <2>13 DEF vars, signalVars, pollVars, serverVars
  <2> QED
    BY <2>1, <2>2, <2>3, <2>4, <2>5, <2>6, <2>7, <2>8, <2>9, <2>10, <2>11, <2>12, <2>13
       DEF Next, Loop, Servers
<1> QED
  BY <1>1, <1>2, PTL DEF Spec

-----------------------------------------------------------------------------
(* No lost wake-up.  A request whose wake-up was sent leaves a permit until *)
(* the loop wakes on it, and a loop that woke on it ends before it parks    *)
(* again: at the check of the flag, or, if it was cancelled, at its head.  *)

PermitKept ==
  /\ requested /\ handler # "notifying"
  /\ pc \in {"parked", "sample", "health"} \/ (pc = "top" /\ ~cancelled)
  => permit

(* Whatever the order of the handler's flag and wake-up and of the loop's   *)
(* check and parking, a parked loop has the wake-up of a complete request   *)
(* to take (CutoverHandle::request, the select! of run_native_apply).      *)
THEOREM NotSleptThrough == Spec => []WakesAtOnce
<1>1. Init => PermitKept
  BY DEF Init, PermitKept
<1>2. TypeOK /\ PermitKept /\ [Next]_vars => PermitKept'
  <2> SUFFICES ASSUME TypeOK, PermitKept, [Next]_vars PROVE PermitKept'
    OBVIOUS
  <2> USE DEF PermitKept
  <2>1. CASE Top
    BY <2>1 DEF Top, End, signalVars
  <2>2. CASE Wake
    BY <2>2 DEF Wake
  <2>3. CASE CheckCutover
    BY <2>3 DEF CheckCutover, End, signalVars
  <2>4. CASE Sample \/ SampleFails \/ CheckHealth
    BY <2>4 DEF Sample, SampleFails, CheckHealth, End, signalVars
  <2>5. CASE Teardown
    BY <2>5 DEF Teardown
  <2>6. CASE Interrupt
    BY <2>6 DEF Interrupt
  <2>7. CASE Notify
    BY <2>7 DEF Notify
  <2>8. CASE Servers \/ UNCHANGED vars
    BY <2>8 DEF Servers, SourceWrites, WorkerConfirms, WorkerFlips, vars, signalVars
  <2> QED
    BY <2>1, <2>2, <2>3, <2>4, <2>5, <2>6, <2>7, <2>8 DEF Next, Loop
<1>3. PermitKept => WakesAtOnce
  BY DEF PermitKept, WakesAtOnce
<1> QED
  BY <1>1, <1>2, <1>3, TypeCorrect, PTL DEF Spec

(* Spikes, recoveries and heartbeats in any order: the last word the        *)
(* operator got about readiness is the last measurement                    *)
(* (LagSampler::observe, report_lag_heartbeat, report_transition).         *)
THEOREM ToldTruth == Spec => []OperatorToldTruth
<1> DEFINE Told == told = "ready" <=> caughtUp
<1>1. Init => Told
  BY DEF Init
<1>2. TypeOK /\ Told /\ [Next]_vars => Told'
  <2> SUFFICES ASSUME TypeOK, Told, [Next]_vars PROVE Told'
    OBVIOUS
  <2>1. CASE Sample
    <3> DEFINE now == LagBytes <= Threshold
    <3>1. LagBytes = 0 => now
      BY LoopAssumption
    <3>2. caughtUp' = now /\ event' = EventsOf(now)
      BY <2>1 DEF Sample, Observe
    <3>3. CASE now /\ ~caughtUp
      <4>1. told' = "ready"
        BY <2>1, <3>2, <3>3 DEF Sample, EventsOf, TypeOK
      <4> QED
        BY <4>1, <3>2, <3>3
    <3>4. CASE ~now /\ caughtUp
      <4>1. told' = "behind"
        BY <2>1, <3>2, <3>4 DEF Sample, EventsOf, TypeOK
      <4> QED
        BY <4>1, <3>2, <3>4
    <3>5. CASE now <=> caughtUp
      <4>1. EventsOf(now) = IF LagBytes = 0 THEN "CaughtUp" ELSE "Lag"
        BY <3>5 DEF EventsOf, TypeOK
      <4>2. told' = IF LagBytes = 0 THEN "ready" ELSE told
        BY <2>1, <3>2, <4>1 DEF Sample
      <4> QED
        BY <3>1, <3>2, <3>5, <4>2
    <3> QED
      BY <3>3, <3>4, <3>5
  <2>2. CASE ~Sample
    <3>1. UNCHANGED <<told, caughtUp>>
      BY <2>2 DEF Next, Loop, Servers, Top, Wake, CheckCutover, SampleFails, CheckHealth,
                  Teardown, Interrupt, Notify, SourceWrites, WorkerConfirms, WorkerFlips,
                  vars, pollVars
    <3> QED
      BY <3>1
  <2> QED
    BY <2>1, <2>2
<1>3. Told => OperatorToldTruth
  BY DEF OperatorToldTruth
<1> QED
  BY <1>1, <1>2, <1>3, TypeCorrect, PTL DEF Spec

-----------------------------------------------------------------------------
(* The refinement: each step of the loop, of the handler and of the servers *)
(* is a step of ApplyPhase or changes nothing that it sees.                *)

(* The loop ends because it was asked to, was cancelled or found the worker *)
(* gone, tears down once and returns: never because of the lag, of failed   *)
(* polls or of anything else (run_native_apply).                           *)
THEOREM LoopImplementsPhase == Spec => EndsForAReason
<1> DEFINE ph == CASE pc = "teardown" -> "teardown"
                   [] pc = "returned" -> "outside"
                   [] OTHER           -> "streaming"
           re == IF pc = "returned" THEN "none" ELSE exit
<1>1. Init => Phase!Init
  BY LoopAssumption DEF Init, Phase!Init
<1>2. TypeOK /\ [Next]_vars => [Phase!Next]_Phase!vars
  <2> SUFFICES ASSUME TypeOK, [Next]_vars PROVE [Phase!Next]_Phase!vars
    OBVIOUS
  <2> USE DEF Phase!vars
  <2>1. ASSUME pc \in {"top", "check", "health"}, pc' = "teardown",
               UNCHANGED <<requested, cancelled, worker>>,
               \/ requested /\ exit' = "cutover"
               \/ cancelled /\ exit' = "cancel"
               \/ (worker = "stopped" \/ Breaks) /\ exit' = "error"
        PROVE  Phase!Next
    BY <2>1 DEF Phase!Next, Phase!Leave
  <2>2. ASSUME pc \in {"top", "parked", "check", "sample", "health"},
               pc' \in {"top", "parked", "check", "sample", "health"},
               UNCHANGED <<exit, requested, cancelled, worker>>
        PROVE  UNCHANGED Phase!vars
    BY <2>2
  <2>3. CASE Top
    BY <2>1, <2>2, <2>3 DEF Top, End, signalVars, serverVars
  <2>4. CASE Wake
    BY <2>2, <2>4 DEF Wake, serverVars
  <2>5. CASE CheckCutover
    BY <2>1, <2>2, <2>5 DEF CheckCutover, End, signalVars, serverVars
  <2>6. CASE Sample
    BY <2>2, <2>6 DEF Sample, signalVars, serverVars
  <2>7. CASE SampleFails
    BY <2>2, <2>7 DEF SampleFails, signalVars, serverVars
  <2>8. CASE CheckHealth
    BY <2>1, <2>2, <2>8 DEF CheckHealth, End, signalVars, serverVars
  <2>9. CASE Teardown
    BY <2>9 DEF Teardown, signalVars, serverVars, Phase!Next, Phase!Finish
  <2>10. CASE Interrupt
    <3>1. UNCHANGED <<pc, exit, worker>>
      BY <2>10 DEF Interrupt, serverVars
    <3>2. CASE requested
      BY <2>10, <3>1, <3>2 DEF Interrupt, TypeOK, Phase!Next, Phase!Operator
    <3>3. CASE ~requested
      BY <2>10, <3>1, <3>3 DEF Interrupt, TypeOK, Phase!Next, Phase!Operator
    <3> QED
      BY <3>2, <3>3
  <2>11. CASE Notify
    BY <2>11 DEF Notify, serverVars
  <2>12. CASE SourceWrites \/ WorkerConfirms
    BY <2>12 DEF SourceWrites, WorkerConfirms, signalVars
  <2>13. CASE WorkerFlips
    BY <2>13 DEF WorkerFlips, signalVars, Phase!Next, Phase!Worker
  <2>14. CASE UNCHANGED vars
    BY <2>14 DEF vars, signalVars, serverVars
  <2> QED
    BY <2>3, <2>4, <2>5, <2>6, <2>7, <2>8, <2>9, <2>10, <2>11, <2>12, <2>13, <2>14
       DEF Next, Loop, Servers
<1> QED
  BY <1>1, <1>2, TypeCorrect, PTL DEF Spec, EndsForAReason, Phase!Spec

=============================================================================
