------------------------------- MODULE MCMixed -------------------------------
(* Instances of OnlineMigration in which runs with different options follow *)
(* each other and may end anywhere.                                         *)
EXTENDS OnlineMigration

MCBase ==
  [resume |-> TRUE, forceClean |-> FALSE, clean |-> FALSE, tolerate |-> FALSE,
   autoPub |-> TRUE, dropSub |-> TRUE, dropSlot |-> TRUE, syncSeq |-> TRUE,
   vacuum |-> FALSE, analyze |-> FALSE, scope |-> 1]

MCResumed  == MCBase
MCFromZero == [MCBase EXCEPT !.resume = FALSE]
MCForced   == [MCFromZero EXCEPT !.forceClean = TRUE]

(* A resumed run, a first run of another scope, a forced run that keeps the *)
(* subscription.                                                            *)
MCMixedOptions ==
  {MCResumed,
   [MCFromZero EXCEPT !.scope = 2, !.tolerate = TRUE, !.autoPub = FALSE],
   [MCForced EXCEPT !.clean = TRUE, !.dropSub = FALSE, !.syncSeq = FALSE]}

MCResumeOnly == {MCResumed}

(* Every best-effort call except the save that must come before the dump.  *)
MCFaultPoints == Steps \ {"saveSlot"}

ASSUME SavesBeforeDump
=============================================================================
