----------------------------- MODULE ApplyPhase -----------------------------
(***************************************************************************)
(* What the apply phase of an online migration promises, to the operator   *)
(* and to the pipeline around it: streaming ends for a reason, the         *)
(* subscription is torn down once whatever the reason, and a requested     *)
(* cutover ends it.  ApplyLoop (the loop of run_native_apply) and          *)
(* OnlineMigration (the pipeline, with the loop as three actions) are both *)
(* shown to implement it, which is what makes the coarse actions of the    *)
(* latter stand for the former.                                            *)
(***************************************************************************)

VARIABLES
  phase,      \* "outside", "streaming" or "teardown"
  reason,     \* why streaming ended, "none" before it did
  requested,  \* the operator requested cutover
  cancelled,  \* the operator cancelled
  worker,     \* the subscription's apply worker
  broken      \* asking for the worker's health may fail

vars == <<phase, reason, requested, cancelled, worker, broken>>

Init ==
  /\ phase \in {"outside", "streaming"} /\ reason = "none"
  /\ ~requested /\ ~cancelled
  /\ worker = "stopped"
  /\ broken \in BOOLEAN

(* The process runs a step outside of the phase, which may be its end and   *)
(* then forgets what the operator asked for.                                *)
Outside ==
  /\ phase = "outside" /\ phase' \in {"outside", "streaming"}
  /\ reason' = "none"
  /\ requested' \in BOOLEAN /\ cancelled' \in BOOLEAN
  /\ worker' \in {"stopped", "running"}
  /\ UNCHANGED broken

(* Ctrl+C, once and then once more; the second only once the first is seen. *)
Operator ==
  /\ \/ ~requested /\ requested' /\ UNCHANGED cancelled
     \/ requested /\ ~cancelled /\ cancelled' /\ UNCHANGED requested
  /\ UNCHANGED <<phase, reason, worker, broken>>

Worker ==
  /\ worker' \in {"stopped", "running"}
  /\ UNCHANGED <<phase, reason, requested, cancelled, broken>>

(* Streaming never ends on its own: not because the target caught up, nor   *)
(* because it is slow.                                                      *)
Leave ==
  /\ phase = "streaming" /\ phase' = "teardown"
  /\ \/ requested /\ reason' = "cutover"
     \/ cancelled /\ reason' = "cancel"
     \/ (worker = "stopped" \/ broken) /\ reason' = "error"
  /\ UNCHANGED <<requested, cancelled, worker, broken>>

(* The process dies while it streams or tears down. *)
Die ==
  /\ phase # "outside" /\ phase' = "outside" /\ reason' = "none"
  /\ ~requested' /\ ~cancelled'
  /\ UNCHANGED <<worker, broken>>

Finish ==
  /\ phase = "teardown" /\ phase' = "outside" /\ reason' = "none"
  /\ UNCHANGED <<requested, cancelled, worker, broken>>

Next == Outside \/ Operator \/ Worker \/ Leave \/ Die \/ Finish

Spec == Init /\ [][Next]_vars

=============================================================================
