------------------------------ MODULE ApplyLoop ------------------------------
(***************************************************************************)
(* One call of run_native_apply after the subscription is attached: the    *)
(* lag-poll loop, next to the signal handler of the command line, the      *)
(* apply worker and the source.  The handler's flag and its wake-up are    *)
(* two steps, and so are the loop's check of the flag and its parking.     *)
(*                                                                         *)
(* Time is abstracted: whether the interval has elapsed when the loop      *)
(* looks is a choice, except before the first poll, which never waits.     *)
(* An LSN is a position in 0 .. MaxLsn; "bytes" of lag are its units.      *)
(***************************************************************************)
EXTENDS Naturals

CONSTANTS
  MaxLsn,     \* bound on the source's WAL
  Threshold,  \* lag_threshold_bytes
  Breaks,     \* whether the health query itself may fail
  NoLsn       \* no position seen yet

ASSUME LoopAssumption ==
  /\ MaxLsn \in Nat /\ Threshold \in Nat /\ Breaks \in BOOLEAN
  /\ NoLsn \notin 0 .. MaxLsn

VARIABLES
  pc,         \* the loop's next step
  handler,    \* the signal handler: "waiting", "notifying" or "ended"
  requested,  \* CutoverHandle::requested
  permit,     \* a stored or delivered wake-up of CutoverHandle::notify
  cancelled,  \* CancellationToken
  polled,     \* a poll was made: the interval may have to be waited out
  caughtUp,   \* LagSampler::caught_up
  prev,       \* prev_confirmed
  stale,      \* stale_count
  exit,       \* why the loop ended
  told,       \* what the events last told the operator: "nothing", "ready", "behind"
  event,      \* the stage of the last event of a poll
  src,        \* the source's flush position
  conf,       \* the slot's confirmed_flush_lsn
  worker      \* the apply worker: "stopped" or "running"

signalVars == <<handler, requested, permit, cancelled>>
pollVars   == <<polled, caughtUp, prev, stale, told, event>>
serverVars == <<src, conf, worker>>
vars == <<pc, signalVars, pollVars, exit, serverVars>>

Lsn == 0 .. MaxLsn
MaxStale == 3

(* Every variable has its type; the count of stale polls never passes the  *)
(* point at which the worker's health is asked for.                        *)
TypeOK ==
  /\ pc \in {"top", "parked", "check", "sample", "health", "teardown", "returned"}
  /\ handler \in {"waiting", "notifying", "ended"}
  /\ requested \in BOOLEAN /\ permit \in BOOLEAN /\ cancelled \in BOOLEAN
  /\ polled \in BOOLEAN /\ caughtUp \in BOOLEAN
  /\ prev \in Lsn \cup {NoLsn}
  /\ stale \in 0 .. MaxStale - 1
  /\ exit \in {"none", "cutover", "cancel", "error"}
  /\ told \in {"nothing", "ready", "behind"}
  /\ event \in {"none", "Lag", "CaughtUp", "StreamApply"}
  /\ src \in Lsn /\ conf \in Lsn
  /\ worker \in {"stopped", "running"}

Init ==
  /\ pc = "top" /\ exit = "none"
  /\ handler = "waiting" /\ requested = FALSE /\ permit = FALSE /\ cancelled = FALSE
  /\ polled = FALSE /\ caughtUp = FALSE
  /\ prev = NoLsn /\ stale = 0
  /\ told = "nothing" /\ event = "none"
  /\ conf \in Lsn /\ src \in conf .. MaxLsn
  /\ worker = "stopped"

-----------------------------------------------------------------------------
(* The signal handler: the first Ctrl+C requests cutover, the second        *)
(* cancels and ends it.  CutoverHandle::request sets the flag, then wakes.  *)

Interrupt ==
  /\ handler = "waiting"
  /\ IF requested THEN cancelled' = TRUE /\ handler' = "ended" /\ UNCHANGED requested
                  ELSE requested' = TRUE /\ handler' = "notifying" /\ UNCHANGED cancelled
  /\ UNCHANGED <<pc, permit, pollVars, exit, serverVars>>

(* Slip: wakes only a loop that is parked already. *)
NotifyParked ==
  /\ handler = "notifying" /\ handler' = "waiting"
  /\ permit' = (pc = "parked")
  /\ UNCHANGED <<pc, requested, cancelled, pollVars, exit, serverVars>>

(* notify_one: the permit is kept when nobody waits. *)
Notify ==
  /\ handler = "notifying" /\ handler' = "waiting"
  /\ permit' = TRUE
  /\ UNCHANGED <<pc, requested, cancelled, pollVars, exit, serverVars>>

-----------------------------------------------------------------------------
(* The loop.                                                               *)

End(why) == pc' = "teardown" /\ exit' = why

(* The head of the loop: cancelled, or park unless the interval elapsed. *)
Top ==
  /\ pc = "top"
  /\ \/ cancelled /\ End("cancel")
     \/ ~cancelled /\ polled /\ pc' = "parked" /\ UNCHANGED exit
     \/ ~cancelled /\ pc' = "check" /\ UNCHANGED exit
  /\ UNCHANGED <<signalVars, pollVars, serverVars>>

(* select!: whichever of the timer, the token and the wake-up is ready. *)
Wake ==
  /\ pc = "parked"
  /\ \/ UNCHANGED permit
     \/ permit /\ permit' = FALSE
  /\ pc' = IF cancelled THEN "top" ELSE "check"
  /\ UNCHANGED <<handler, requested, cancelled, pollVars, exit, serverVars>>

(* Slip: also cut over when the target has caught up. *)
CheckReady ==
  /\ pc = "check"
  /\ polled' = TRUE
  /\ \/ (requested \/ caughtUp) /\ End("cutover")
     \/ ~(requested \/ caughtUp) /\ pc' = "sample" /\ UNCHANGED exit
  /\ UNCHANGED <<signalVars, caughtUp, prev, stale, told, event, serverVars>>

(* Slip: a requested cutover waits until the target has caught up. *)
CheckDrained ==
  /\ pc = "check"
  /\ polled' = TRUE
  /\ \/ requested /\ caughtUp /\ End("cutover")
     \/ ~(requested /\ caughtUp) /\ pc' = "sample" /\ UNCHANGED exit
  /\ UNCHANGED <<signalVars, caughtUp, prev, stale, told, event, serverVars>>

CheckCutover ==
  /\ pc = "check"
  /\ polled' = TRUE
  /\ \/ requested /\ End("cutover")
     \/ ~requested /\ pc' = "sample" /\ UNCHANGED exit
  /\ UNCHANGED <<signalVars, caughtUp, prev, stale, told, event, serverVars>>

(* LagSampler::lag_bytes, a saturating subtraction. *)
LagBytes == IF conf < src THEN src - conf ELSE 0

ObserveSticky(now) == caughtUp \/ now  \* slip: the sampler never falls back

(* LagSampler::observe remembers the last verdict. *)
Observe(now) == now

(* The heartbeat, then the transition if there was one. *)
EventsOf(now) ==
  IF now # caughtUp THEN IF now THEN "CaughtUp" ELSE "StreamApply"
  ELSE IF LagBytes = 0 THEN "CaughtUp" ELSE "Lag"

(* Slip: a lag within the threshold does not count as being stuck. *)
StuckAboveThreshold == prev = conf /\ LagBytes > Threshold

Stuck == prev = conf /\ LagBytes > 0

(* The count after this poll, and what it restarts from. *)
StaleNow  == IF Stuck THEN stale + 1 ELSE 0
StaleNext == IF StaleNow = MaxStale THEN 0 ELSE StaleNow

Sample ==
  /\ pc = "sample"
  /\ LET now == LagBytes <= Threshold
     IN  /\ caughtUp' = Observe(now)
         /\ event' = EventsOf(now)
         /\ told' = CASE event' = "CaughtUp"    -> "ready"
                      [] event' = "StreamApply" -> "behind"
                      [] OTHER                  -> told
  /\ prev' = conf
  /\ stale' = StaleNext
  /\ pc' = IF StaleNow = MaxStale THEN "health" ELSE "top"
  /\ UNCHANGED <<signalVars, polled, exit, serverVars>>

(* A failed poll is only logged. *)
SampleFails ==
  /\ pc = "sample" /\ pc' = "top"
  /\ UNCHANGED <<signalVars, pollVars, exit, serverVars>>

(* check_apply_worker_health: an error of the query counts as a dead worker. *)
CheckHealth ==
  /\ pc = "health"
  /\ \/ worker = "running" /\ pc' = "top" /\ UNCHANGED exit
     \/ (worker = "stopped" \/ Breaks) /\ End("error")
  /\ UNCHANGED <<signalVars, pollVars, serverVars>>

(* teardown_subscription, here one step; its result is only logged. *)
Teardown ==
  /\ pc = "teardown" /\ pc' = "returned"
  /\ UNCHANGED <<signalVars, pollVars, exit, serverVars>>

Loop ==
  \/ Top
  \/ Wake
  \/ CheckCutover
  \/ Sample
  \/ SampleFails
  \/ CheckHealth
  \/ Teardown

-----------------------------------------------------------------------------
(* The servers, external.                                                  *)

SourceWrites ==
  /\ src < MaxLsn /\ src' = src + 1
  /\ UNCHANGED <<pc, signalVars, pollVars, exit, conf, worker>>

(* The worker applies and confirms up to some position. *)
WorkerConfirms ==
  /\ worker = "running" /\ conf < src
  /\ conf' \in conf + 1 .. src
  /\ UNCHANGED <<pc, signalVars, pollVars, exit, src, worker>>

WorkerFlips ==
  /\ worker' \in {"stopped", "running"} \ {worker}
  /\ UNCHANGED <<pc, signalVars, pollVars, exit, src, conf>>

Servers == SourceWrites \/ WorkerConfirms \/ WorkerFlips

Next == Loop \/ Interrupt \/ Notify \/ Servers

Spec == Init /\ [][Next]_vars

(* The loop and the handler are scheduled and the timer fires.  The         *)
(* operator and the servers owe nothing: every poll may fail.              *)
FairSpec ==
  /\ Spec
  /\ WF_vars(Loop) /\ WF_vars(Notify)

-----------------------------------------------------------------------------
(* Safety.                                                                 *)

(* Once the request is complete the loop does not sleep out its interval:  *)
(* a parked loop has a wake-up to take, however the request raced with the *)
(* check of the flag and with an earlier wake-up (CutoverHandle::request,  *)
(* the select! of run_native_apply).                                       *)
WakesAtOnce == requested /\ handler # "notifying" /\ pc = "parked" => permit

(* What the operator was last told about readiness is what the last poll   *)
(* measured, over any sequence of spikes and recoveries and whatever mix   *)
(* of heartbeats and transitions told it (LagSampler::observe,             *)
(* report_lag_heartbeat, report_transition).                               *)
OperatorToldTruth ==
  prev # NoLsn => told = "ready" <=> caughtUp

(* The loop implements what the apply phase promises: it ends only for a   *)
(* reason, never on its own.                                               *)
Phase == INSTANCE ApplyPhase WITH
  phase  <- CASE pc = "teardown" -> "teardown"
              [] pc = "returned" -> "outside"
              [] OTHER           -> "streaming",
  reason <- IF pc = "returned" THEN "none" ELSE exit,
  broken <- Breaks

EndsForAReason == Phase!Spec

-----------------------------------------------------------------------------
(* Liveness.                                                               *)

(* A requested cutover is carried out, though polls may keep failing.      *)
CutoverReturns == requested ~> pc = "returned"

(* A worker that is gone for good is noticed, however little WAL is left,   *)
(* if polls succeed time and again (the stale polls of run_native_apply,   *)
(* check_apply_worker_health).                                             *)
DeadWorkerNoticed ==
  []<><<Sample>>_vars /\ <>[](worker = "stopped" /\ conf < src) => <>(pc = "returned")

=============================================================================
