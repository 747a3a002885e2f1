------------------------------ MODULE MCResume ------------------------------
(* Instances of OnlineMigration in which the operator restarts with         *)
(* --resume, at the points from which that recovers.                        *)
EXTENDS OnlineMigration

MCBase ==
  [resume |-> TRUE, forceClean |-> FALSE, clean |-> FALSE, tolerate |-> FALSE,
   autoPub |-> TRUE, dropSub |-> TRUE, dropSlot |-> TRUE, syncSeq |-> TRUE,
   vacuum |-> FALSE, analyze |-> FALSE, scope |-> 1]

(* A finished cutover drops the subscription in some of them; a restore     *)
(* over rows cleans or fails.                                               *)
MCDropOptions ==
  {MCBase,
   [MCBase EXCEPT !.clean = TRUE, !.tolerate = TRUE, !.dropSub = FALSE],
   [MCBase EXCEPT !.clean = TRUE, !.autoPub = FALSE, !.vacuum = TRUE, !.analyze = TRUE]}

MCCrashPoints == Steps \ FatalWindow

(* Every best-effort call but the saves of Dump and Restore and the sync.   *)
MCFaultPoints ==
  {"cleanSub", "cleanSlot", "vacuum", "savePub", "saveSlot", "analyze", "disable",
   "teardown", "detach", "dropSub", "finish", "dropPub", "waitDrop", "dropSlot"}

MCCancelPoints == {"data", "waitSlot", "apply"}

ASSUME ResumeProcedure /\ SlotKept
=============================================================================
