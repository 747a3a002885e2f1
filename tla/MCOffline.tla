------------------------------ MODULE MCOffline ------------------------------
(* Instances of OfflineMigration: two tables in two schemas, and command    *)
(* lines that resume, split, tolerate, verify and are refused.             *)
EXTENDS OfflineMigration, TLC

MCSchemaOf == ("t1" :> "s1") @@ ("t2" :> "s2")

MCUri(host, database) ==
  [scheme |-> "postgres", host |-> host, port |-> None, database |-> database]

(* No flag but the databases and the dump path. *)
MCDefault ==
  [connect |-> [mode |-> "offline", source |-> MCUri("old", "db"), target |-> MCUri("new", "db")],
   scope   |-> [dumpScope |-> "all", dropTargetFirst |-> FALSE, jobs |-> 1,
                schemas |-> {}, tables |-> {}, excludeSchemas |-> {}, excludeTables |-> {}],
   online  |-> [slotName |-> "slot", publication |-> "pub", subscriptionName |-> "sub",
                keepSubscription |-> FALSE, forceClean |-> FALSE, noSequenceSync |-> FALSE,
                noAutoCreatePublication |-> FALSE, keepSlot |-> FALSE, protocolVersion |-> 2,
                maxRuntimeSeconds |-> None, lagThresholdBytes |-> 8192,
                cutoverPollSecs |-> 5, cutoverFastPollMs |-> 1000],
   resume  |-> [dumpPath |-> "dump", resume |-> FALSE, resumeFile |-> None],
   restore |-> [allowRestoreErrors |-> FALSE, keepPublications |-> FALSE,
                keepSubscriptions |-> FALSE, splitSections |-> TRUE,
                noSplitSections |-> FALSE, splitTablesLargerThan |-> None, splitMaxParts |-> 4],
   stages  |-> [skipAnalyze |-> FALSE, skipSourceVacuum |-> FALSE, verify |-> "warn"]]

MCResumed == [MCDefault EXCEPT !.resume.resume = TRUE, !.scope.schemas = {"s1", "s2"}]

MCSplit == [MCDefault EXCEPT !.restore.splitTablesLargerThan = 1]

MCCommands ==
  {[MCResumed EXCEPT !.scope.dropTargetFirst = TRUE],
   [MCResumed EXCEPT !.restore.allowRestoreErrors = TRUE, !.restore.noSplitSections = TRUE,
                     !.stages.verify = "strict"],
   [MCSplit EXCEPT !.scope.dropTargetFirst = TRUE, !.scope.jobs = 2, !.stages.skipAnalyze = TRUE],
   [MCSplit EXCEPT !.resume.resume = TRUE],
   [MCDefault EXCEPT !.scope.tables = {"t1"}, !.scope.dropTargetFirst = TRUE, !.stages.verify = "off"],
   [MCDefault EXCEPT !.connect.mode = "verify", !.scope.tables = {"t1"}]}

(* A dump with a split copy, and what is left of the command line when      *)
(* --resume is added, which the split does not go with.                    *)
MCSplitThenResume == {MCSplit, [MCDefault EXCEPT !.resume.resume = TRUE]}

ASSUME Commands = MCCommands => OfflineProcedure /\ VerifiesDumped
=============================================================================
