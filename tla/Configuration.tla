---------------------------- MODULE Configuration ----------------------------
(***************************************************************************)
(* The command line and the configuration it becomes (args.rs, config.rs), *)
(* what validation refuses, the hash that decides whether a resume token   *)
(* belongs to it (resume.rs), and the tables that pg_dump, the             *)
(* verification and the publication take from it.  A name is a member of a *)
(* set; lists are sets; options that only word a command are left out.     *)
(***************************************************************************)
EXTENDS Integers

CONSTANTS
  Tables,    \* tables that the source may have
  Schemas,   \* schemas
  SchemaOf,  \* the schema of a table
  None       \* an option that is not given

ASSUME ConfigurationAssumption ==
  /\ SchemaOf \in [Tables -> Schemas]
  /\ None \notin Nat /\ None \notin Tables /\ None \notin Schemas

Names == STRING

-----------------------------------------------------------------------------
(* The command line.                                                       *)

Modes       == {"offline", "online", "verify"}
DumpScopes  == {"all", "schema-only", "data-only"}
VerifyModes == {"off", "warn", "strict"}

Uri == [scheme : Names, host : Names, port : Nat \cup {None}, database : Names]

ConnectArgs == [mode : Modes, source : Uri, target : Uri]

ScopeArgs ==
  [dumpScope : DumpScopes, dropTargetFirst : BOOLEAN, jobs : Nat,
   schemas : SUBSET Schemas, tables : SUBSET Tables,
   excludeSchemas : SUBSET Schemas, excludeTables : SUBSET Tables]

OnlineArgs ==
  [slotName : Names, publication : Names, subscriptionName : Names,
   keepSubscription : BOOLEAN, forceClean : BOOLEAN, noSequenceSync : BOOLEAN,
   noAutoCreatePublication : BOOLEAN, keepSlot : BOOLEAN, protocolVersion : Nat,
   maxRuntimeSeconds : Nat \cup {None}, lagThresholdBytes : Nat,
   cutoverPollSecs : Nat, cutoverFastPollMs : Nat]

ResumeArgs == [dumpPath : Names \cup {None}, resume : BOOLEAN, resumeFile : Names \cup {None}]

RestoreArgs ==
  [allowRestoreErrors : BOOLEAN, keepPublications : BOOLEAN, keepSubscriptions : BOOLEAN,
   splitSections : BOOLEAN, noSplitSections : BOOLEAN,
   splitTablesLargerThan : Nat \cup {None}, splitMaxParts : Nat]

StageArgs == [skipAnalyze : BOOLEAN, skipSourceVacuum : BOOLEAN, verify : VerifyModes]

(* The flags in their groups. *)
Cli ==
  [connect : ConnectArgs, scope : ScopeArgs, online : OnlineArgs, resume : ResumeArgs,
   restore : RestoreArgs, stages : StageArgs]

-----------------------------------------------------------------------------
(* Its translation.                                                        *)

(* EndpointConfig::parse: what it refuses, and the default port. *)
Parses(uri) == uri.scheme \in {"postgres", "postgresql"} /\ uri.host # ""

Endpoint(uri) ==
  [host |-> uri.host, database |-> uri.database,
   port |-> IF uri.port = None THEN 5432 ELSE uri.port]

OnlineOptions(o) ==
  [slotName                  |-> o.slotName,
   publication               |-> o.publication,
   subscriptionName          |-> o.subscriptionName,
   protocolVersion           |-> o.protocolVersion,
   dropSubscriptionOnCutover |-> ~o.keepSubscription,
   forceClean                |-> o.forceClean,
   syncSequencesOnCutover    |-> ~o.noSequenceSync,
   autoCreatePublication     |-> ~o.noAutoCreatePublication,
   dropSlotOnCutover         |-> ~o.keepSlot,
   maxRuntimeSeconds         |-> o.maxRuntimeSeconds,
   lagThresholdBytes         |-> o.lagThresholdBytes,
   pollInterval              |-> o.cutoverPollSecs * 1000,
   fastPollInterval          |-> o.cutoverFastPollMs]

IntoConfig(cli) ==
  [mode                  |-> cli.connect.mode,
   source                |-> Endpoint(cli.connect.source),
   target                |-> Endpoint(cli.connect.target),
   dumpScope             |-> cli.scope.dumpScope,
   dropTargetFirst       |-> cli.scope.dropTargetFirst,
   jobs                  |-> cli.scope.jobs,
   schemas               |-> cli.scope.schemas,
   tables                |-> cli.scope.tables,
   excludeSchemas        |-> cli.scope.excludeSchemas,
   excludeTables         |-> cli.scope.excludeTables,
   online                |-> OnlineOptions(cli.online),
   allowRestoreErrors    |-> cli.restore.allowRestoreErrors,
   noPublications        |-> ~cli.restore.keepPublications,
   noSubscriptions       |-> ~cli.restore.keepSubscriptions,
   splitSections         |-> cli.restore.splitSections /\ ~cli.restore.noSplitSections,
   splitTablesLargerThan |-> cli.restore.splitTablesLargerThan,
   splitMaxParts         |-> cli.restore.splitMaxParts,
   skipAnalyze           |-> cli.stages.skipAnalyze,
   skipSourceVacuum      |-> cli.stages.skipSourceVacuum,
   verify                |-> cli.stages.verify,
   resume                |-> cli.resume.resume,
   resumeFile            |-> cli.resume.resumeFile,
   dumpPath              |-> cli.resume.dumpPath]

-----------------------------------------------------------------------------
(* Validation.                                                             *)

ValidCutover(o) == o.pollInterval > 0 /\ o.fastPollInterval > 0

ValidOnline(o) ==
  /\ o.slotName # "" /\ o.publication # "" /\ o.subscriptionName # ""
  /\ o.protocolVersion \in 1 .. 4
  /\ ValidCutover(o)

ValidSplit(c) ==
  c.splitTablesLargerThan # None =>
    /\ c.splitTablesLargerThan > 0 /\ c.splitMaxParts > 0
    /\ c.dumpScope # "schema-only"
    /\ c.schemas = {} /\ c.tables = {} /\ c.excludeSchemas = {} /\ c.excludeTables = {}
    /\ ~c.resume
    /\ c.splitSections

Valid(c) ==
  /\ c.jobs > 0
  /\ c.resume => c.dumpPath # None
  /\ c.mode = "online" => ValidOnline(c.online)
  /\ ValidSplit(c)

-----------------------------------------------------------------------------
(* What runs take from it.                                                 *)

ConfigHash(c) ==
  <<c.mode, c.source, c.target, c.schemas, c.tables,
    IF c.mode = "online"
    THEN <<c.online.slotName, c.online.publication, c.online.subscriptionName>> ELSE None>>

FilterByExclusions(tables, c) ==
  {t \in tables \ c.excludeTables : SchemaOf[t] \notin c.excludeSchemas}

(* External: the tables of a catalog that pg_dump takes, which ignores the  *)
(* schemas when it is given tables.                                        *)
Dumped(c, catalog) ==
  IF c.tables # {} THEN (c.tables \cap catalog) \ c.excludeTables
  ELSE FilterByExclusions({t \in catalog : c.schemas = {} \/ SchemaOf[t] \in c.schemas}, c)

(* select_tables_to_verify: the union of the schemas and the tables. *)
Verified(c, catalog) ==
  FilterByExclusions({t \in catalog : \/ c.schemas = {} /\ c.tables = {}
                                      \/ SchemaOf[t] \in c.schemas
                                      \/ t \in c.tables}, c)

=============================================================================
