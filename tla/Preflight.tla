------------------------------ MODULE Preflight ------------------------------
(***************************************************************************)
(* The checks that run before any migration work (preflight.rs), on an     *)
(* environment that may lack something, and the operator who follows each  *)
(* reported error and runs the tool again.  Every check looks for things   *)
(* in an order: what it needs is a sequence of sets, the members of one    *)
(* set being probed concurrently, and the error is the first that is       *)
(* unmet.  The environment is the set of conditions that it lacks, the     *)
(* majors of the servers and those of the client tools.                    *)
(***************************************************************************)
EXTENDS Integers, Sequences, FiniteSets

CONSTANTS
  ServerMajors,  \* major versions of the servers
  ClientMajors,  \* major versions of client tools that may be on $PATH
  MaxProblems,   \* bound: conditions that are lacking at the same time
  MaxOutages     \* bound: servers that become unreachable during the checks

ASSUME PreflightAssumption ==
  /\ ServerMajors \subseteq Nat \ {0} /\ ClientMajors \subseteq Nat
  /\ MaxProblems \in Nat /\ MaxOutages \in Nat

VARIABLES
  opts,     \* the options of the run that preflight depends on
  servers,  \* the majors of source and target
  clients,  \* the majors of pg_dump and pg_restore on $PATH, 0 if missing
  lacking,  \* the conditions that do not hold
  status,   \* of the run
  report,   \* PreflightReport::items
  error,    \* what the failed check did not find
  named,    \* the major that the error of a missing tool names, 0 if none
  outages   \* outages so far

vars == <<opts, servers, clients, lacking, status, report, error, named, outages>>

Options == [mode : {"offline", "online"}, split : BOOLEAN, allowRestoreErrors : BOOLEAN]

(* REQUIRED_TOOLS *)
Tools == {"pg_dump", "pg_restore"}

(* The connections depend on the reachability, the database and the access *)
(* to the maintenance database; the rest are roles, settings and packages. *)
Reachable  == {"source up", "target up"}
Conditions ==
  Reachable \cup
  {"database", "maintenance", "createdb", "create privilege", "superuser",
   "subscription role", "primary", "extensions", "workers", "processes",
   "no pglogical", "replication role", "no idle timeout", "wal_level", "slots",
   "senders"}

Has(condition) == condition \notin lacking

-----------------------------------------------------------------------------
(* The decisions.                                                          *)

(* decide_pg_dump_compat, decide_pg_restore_compat *)
DumpFits          == clients.pg_dump >= servers.source
RestoreFitsTarget == clients.pg_restore >= servers.target
RestoreFitsDump   == clients.pg_restore >= clients.pg_dump

(* Slip: the hint of a missing tool, which names the source's major. *)
RecommendedMajorSource(s) == s.source

(* recommended_client_major *)
RecommendedMajor(s) == IF s.source >= s.target THEN s.source ELSE s.target

(* A connection that falls back to the maintenance database when there is  *)
(* no target database.                                                     *)
SomeDatabase == Has("database") \/ Has("maintenance")

(* CREATE DATABASE if the database is missing. *)
Creatable == Has("database") \/ (Has("primary") /\ (Has("createdb") \/ Has("superuser")))

(* target_role_privilege_decision: on the database, and for a subscription *)
(* through the predefined role that PostgreSQL 16 introduced.              *)
MayCreate == Has("create privilege") \/ Has("superuser")

(* Slip: the predefined role is asked for on every version. *)
MaySubscribeByRole == Has("subscription role") /\ Has("createdb")

MaySubscribe ==
  Has("superuser") \/ (servers.target >= 16 /\ Has("subscription role") /\ Has("createdb"))

Holds(need) ==
  CASE need \in Tools                     -> clients[need] # 0
    [] need = "dump fits source"          -> DumpFits
    [] need = "restore fits target"       -> RestoreFitsTarget
    [] need = "restore fits dump"         -> RestoreFitsDump
    [] need = "some database"             -> SomeDatabase
    [] need = "creatable"                 -> Creatable
    [] need = "may create"                -> MayCreate
    [] need = "may subscribe"             -> MaySubscribe
    [] need \in Conditions                -> Has(need)

Needs == Tools \cup Conditions \cup
  {"dump fits source", "restore fits target", "restore fits dump", "some database",
   "creatable", "may create", "may subscribe"}

-----------------------------------------------------------------------------
(* The checks.                                                             *)

(* What a check connects to, and what it then looks for. *)
Source == {"source up"}
Target == {"target up", "database"}
Server == {"target up", "some database"}

(* verify_pg_tools_installed, one tool after the other *)
PgTools == <<{"pg_dump"}, {"pg_restore"}>>

(* verify_pg_dump_version_compat: the four versions at once *)
VersionCompat ==
  <<Tools \cup Source \cup Server, {"dump fits source"}, {"restore fits target"},
    {"restore fits dump"}>>

SourceReplRole   == <<Source, {"replication role"}>>
SnapshotTimeouts == <<Source, {"no idle timeout"}>>
NotInRecovery    == <<Server, {"primary"}>>
DatabaseExists   == <<{"target up", "maintenance"}, {"creatable"}>>

RoleNeeds ==
  IF opts.mode = "online" THEN <<Target, {"may create"}, {"may subscribe"}>>
  ELSE <<Target, {"may create"}>>

ExtensionsAvailable == <<Source \cup Target, {"extensions"}>>
LogicalReplReady    == <<Source, {"wal_level"}, {"slots"}, {"senders"}>>
SubCapacity         == <<Target, {"workers"}, {"processes"}>>
PglogicalClean      == <<Target, {"no pglogical"}>>

Requires(check) ==
  CASE check = "pg_tools"                -> PgTools
    [] check = "version_compat"          -> VersionCompat
    [] check = "source_repl_role"        -> SourceReplRole
    [] check = "source_snapshot_timeouts"-> SnapshotTimeouts
    [] check = "target_not_in_recovery"  -> NotInRecovery
    [] check = "target_db_exists"        -> DatabaseExists
    [] check = "target_role_privs"       -> RoleNeeds
    [] check = "extensions_available"    -> ExtensionsAvailable
    [] check = "source_logical_repl"     -> LogicalReplReady
    [] check = "target_sub_capacity"     -> SubCapacity
    [] check = "pglogical_clean"         -> PglogicalClean

(* Slip: the role's privileges are looked up before the database exists. *)
OfflineBundlePrivilegesFirst ==
  <<"pg_tools", "version_compat", "target_not_in_recovery", "target_role_privs",
    "target_db_exists", "extensions_available">>

(* Slip: a split copy runs without the check of the snapshot's timeout. *)
OfflineBundleUnsplit ==
  <<"pg_tools", "version_compat", "target_not_in_recovery", "target_db_exists",
    "target_role_privs", "extensions_available">>

OfflineBundle ==
  IF opts.split
  THEN <<"pg_tools", "version_compat", "target_not_in_recovery", "target_db_exists",
         "target_role_privs", "source_snapshot_timeouts", "extensions_available">>
  ELSE <<"pg_tools", "version_compat", "target_not_in_recovery", "target_db_exists",
         "target_role_privs", "extensions_available">>

(* Slip: the database is created first. *)
OnlineBundleDatabaseFirst ==
  <<"target_db_exists", "pg_tools", "version_compat", "source_repl_role",
    "source_snapshot_timeouts", "target_not_in_recovery", "target_role_privs",
    "extensions_available", "source_logical_repl", "target_sub_capacity", "pglogical_clean">>

OnlineBundle ==
  <<"pg_tools", "version_compat", "source_repl_role", "source_snapshot_timeouts",
    "target_not_in_recovery", "target_db_exists", "target_role_privs",
    "extensions_available", "source_logical_repl", "target_sub_capacity", "pglogical_clean">>

Bundle == IF opts.mode = "online" THEN OnlineBundle ELSE OfflineBundle

Checks == {"pg_tools", "version_compat", "source_repl_role", "source_snapshot_timeouts",
           "target_not_in_recovery", "target_db_exists", "target_role_privs",
           "extensions_available", "source_logical_repl", "target_sub_capacity",
           "pglogical_clean"}

(* What a check may fail with: it passes if there is nothing. *)
Unmet(check) ==
  LET stages == Requires(check)
      Missing(i) == {need \in stages[i] : ~Holds(need)} IN
  UNION {Missing(i) : i \in {j \in DOMAIN stages : \A k \in 1 .. j - 1 : Missing(k) = {}}}

(* resolve_extension_preflight: a missing extension, not a lost connection. *)
Tolerated(check, need) ==
  check = "extensions_available" /\ need = "extensions" /\ opts.allowRestoreErrors

-----------------------------------------------------------------------------

(* Every variable has its type, and only the error of a missing tool names *)
(* a major (name_required_major).                                          *)
TypeOK ==
  /\ opts \in Options
  /\ servers \in [source : ServerMajors, target : ServerMajors]
  /\ clients \in [Tools -> Nat]
  /\ lacking \subseteq Conditions
  /\ status \in {"running", "failed", "repaired", "passed"}
  /\ report \in Seq(Checks \X {"pass", "skip"})
  /\ error \in Needs \cup {"none"}
  /\ named \in Nat /\ (named # 0 => error \in Tools)
  /\ outages \in 0 .. MaxOutages

(* A role that is not a superuser is no problem.                           *)
Problems(l) == l \ {"superuser"}
ProblemSets == {p \in SUBSET Problems(Conditions) : Cardinality(p) <= MaxProblems}

Init ==
  /\ opts \in Options
  /\ servers \in [source : ServerMajors, target : ServerMajors]
  /\ clients \in [Tools -> ClientMajors]
  /\ \E problems \in ProblemSets, rest \in SUBSET {"superuser"} : lacking = problems \cup rest
  /\ status = "running" /\ report = <<>> /\ error = "none" /\ named = 0 /\ outages = 0

Check == Bundle[Len(report) + 1]
Running == status = "running" /\ Len(report) < Len(Bundle)

Record(outcome) ==
  /\ report' = Append(report, <<Check, outcome>>)
  /\ UNCHANGED <<opts, servers, clients, status, error, named, outages>>

(* The role that creates the database owns it. *)
Pass ==
  /\ Running /\ Unmet(Check) = {}
  /\ Record("pass")
  /\ lacking' = IF Check = "target_db_exists" /\ "database" \in lacking
                THEN lacking \ {"database", "create privilege"} ELSE lacking

Skip(need) ==
  /\ Tolerated(Check, need)
  /\ Record("skip") /\ UNCHANGED lacking

(* verify_pg_tools_installed asks the servers which major to install. *)
NamedMajor(need) ==
  IF /\ Check = "pg_tools"
     /\ \A n \in Source \cup Server : Holds(n)
  THEN RecommendedMajor(servers) ELSE 0

Fail(need) ==
  /\ ~Tolerated(Check, need)
  /\ status' = "failed" /\ error' = need /\ named' = NamedMajor(need)
  /\ UNCHANGED <<opts, servers, clients, lacking, report, outages>>

RunCheck == Pass \/ (Running /\ \E need \in Unmet(Check) : Skip(need) \/ Fail(need))

Finish ==
  /\ status = "running" /\ Len(report) = Len(Bundle)
  /\ status' = "passed"
  /\ UNCHANGED <<opts, servers, clients, lacking, report, error, named, outages>>

-----------------------------------------------------------------------------
(* The environment.                                                        *)

Install(major) == clients' = [tool \in Tools |-> major] /\ UNCHANGED lacking

Provide(conditions) == lacking' = lacking \ conditions /\ UNCHANGED clients

(* What the error says to do. *)
Advice(need) ==
  CASE need \in Tools ->
         Install(IF named # 0 THEN named ELSE servers.source)
    [] need = "dump fits source"    -> Install(servers.source)
    [] need = "restore fits target" -> Install(servers.target)
    [] need = "restore fits dump"   ->
         clients' = [clients EXCEPT !["pg_restore"] = clients.pg_dump] /\ UNCHANGED lacking
    [] need = "some database"       -> Provide({"maintenance"})
    [] need = "creatable"           -> Provide({"createdb"})
    [] need = "may create"          -> Provide({"create privilege"})
    [] need = "may subscribe"       ->
         Provide(IF servers.target >= 16 THEN {"subscription role", "createdb"} ELSE {"superuser"})
    [] need \in Conditions          -> Provide({need})

Repair ==
  /\ status = "failed" /\ status' = "repaired"
  /\ Advice(error)
  /\ UNCHANGED <<opts, servers, report, error, named, outages>>

Rerun ==
  /\ status = "repaired"
  /\ status' = "running" /\ report' = <<>> /\ error' = "none" /\ named' = 0
  /\ UNCHANGED <<opts, servers, clients, lacking, outages>>

(* A server becomes unreachable between two checks. *)
Outage ==
  /\ status = "running" /\ outages < MaxOutages
  /\ Cardinality(Problems(lacking)) < MaxProblems
  /\ \E server \in Reachable \ lacking : lacking' = lacking \cup {server}
  /\ outages' = outages + 1
  /\ UNCHANGED <<opts, servers, clients, status, report, error, named>>

Next == RunCheck \/ Finish \/ Repair \/ Rerun \/ Outage

Spec == Init /\ [][Next]_vars

(* The checks run to their end, and the operator acts on every error. *)
FairSpec == Spec /\ WF_vars(RunCheck \/ Finish) /\ WF_vars(Repair) /\ WF_vars(Rerun)

-----------------------------------------------------------------------------
(* Properties.                                                             *)

(* What the statements and commands of the migration need of the servers.  *)
DumpWorks == clients.pg_dump # 0 /\ DumpFits

RestoreWorks ==
  /\ clients.pg_restore # 0 /\ RestoreFitsDump /\ RestoreFitsTarget
  /\ {"database", "primary"} \cap lacking = {} /\ MayCreate
  /\ Has("extensions") \/ opts.allowRestoreErrors

SnapshotLives == opts.mode = "online" \/ opts.split => Has("no idle timeout")

StreamingWorks ==
  opts.mode = "online" =>
    /\ {"replication role", "wal_level", "slots", "senders"} \cap lacking = {}
    /\ {"workers", "processes", "no pglogical"} \cap lacking = {}
    /\ Has("superuser") \/ (servers.target >= 16 /\ Has("subscription role"))

(* Checks that passed leave nothing for the dump, the snapshot that a slot *)
(* or a split copy exports, the restore or the subscription to fail on     *)
(* (the two bundles of preflight.rs, whose conditional check is easily     *)
(* lost).                                                                  *)
PassMeansReady ==
  status = "passed" => DumpWorks /\ RestoreWorks /\ SnapshotLives /\ StreamingWorks

(* No check connects to a target database that does not exist: the        *)
(* ordering invariant stated above offline_preflight_check_names.          *)
NoMissingDatabase == error # "database"

(* A run that ends without creating anything else leaves no database       *)
(* behind unless the tools, their versions and the target were right.      *)
CreatedAfterChecks ==
  [][Has("database")' /\ ~Has("database") => DumpWorks /\ RestoreFitsTarget /\ Has("primary")]_vars

(* With --allow-restore-errors a missing extension is skipped; a server    *)
(* that became unreachable is not (resolve_extension_preflight).           *)
SkipsOnlyMissing ==
  [][\A i \in DOMAIN report' \ DOMAIN report :
        report'[i][2] = "skip" => Reachable \cap lacking = {}]_vars

(* The major that the error of a missing tool names is right for both      *)
(* servers: installing it once ends the version errors.                    *)
NamedMajorFits ==
  [][named # 0 /\ clients' # clients => DumpFits' /\ RestoreFitsTarget' /\ RestoreFitsDump']_vars

(* An operator who does what each error says gets through the checks: no   *)
(* two errors send them in a circle.                                       *)
AdviceLeadsToPass == <>(status = "passed")

=============================================================================
