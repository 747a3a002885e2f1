--------------------------- MODULE PreflightProofs ---------------------------
(***************************************************************************)
(* Proofs about Preflight.tla, for all majors and bounds: checks that pass *)
(* leave the environment ready, in whatever order errors are reported and  *)
(* repaired and whenever a server becomes unreachable.                     *)
(***************************************************************************)
EXTENDS Preflight, TLAPS

(* What is true from the moment a check is recorded to the end of the run. *)
Established(check) ==
  CASE check = "pg_tools"                 -> clients.pg_dump # 0 /\ clients.pg_restore # 0
    [] check = "version_compat"           -> DumpFits /\ RestoreFitsTarget /\ RestoreFitsDump
    [] check = "source_repl_role"         -> Has("replication role")
    [] check = "source_snapshot_timeouts" -> Has("no idle timeout")
    [] check = "target_not_in_recovery"   -> Has("primary")
    [] check = "target_db_exists"         -> Has("database")
    [] check = "target_role_privs"        -> MayCreate /\ (opts.mode = "online" => MaySubscribe)
    [] check = "extensions_available"     -> Has("extensions") \/ opts.allowRestoreErrors
    [] check = "source_logical_repl"      -> Has("wal_level") /\ Has("slots") /\ Has("senders")
    [] check = "target_sub_capacity"      -> Has("workers") /\ Has("processes")
    [] check = "pglogical_clean"          -> Has("no pglogical")

(* The inductive invariant: the checks so far are the first of the bundle, *)
(* each still holds, and a named major is the one that fits.               *)
Recorded ==
  /\ Len(report) <= Len(Bundle)
  /\ status \in {"running", "passed"} => \A i \in 1 .. Len(report) : Established(Bundle[i])
  /\ status = "passed" => Len(report) = Len(Bundle)

Inv ==
  /\ TypeOK /\ Recorded
  /\ named # 0 => named = RecommendedMajor(servers)
  /\ error # "database"
  /\ status = "failed" => error \in Needs

-----------------------------------------------------------------------------
(* The bundles.                                                            *)

(* The checks of a mode are a sequence of known checks.                    *)
LEMMA BundleChecks ==
  ASSUME opts \in Options
  PROVE  /\ Len(Bundle) \in Nat /\ DOMAIN Bundle = 1 .. Len(Bundle)
         /\ \A i \in 1 .. Len(Bundle) : Bundle[i] \in Checks
<1>1. OnlineBundle \in Seq(Checks)
  BY DEF OnlineBundle, Checks
<1>2. OfflineBundle \in Seq(Checks)
  <2>1. CASE opts.split
    BY <2>1 DEF OfflineBundle, Checks
  <2>2. CASE ~opts.split
    BY <2>2 DEF OfflineBundle, Checks
  <2> QED
    BY <2>1, <2>2
<1>3. Bundle \in Seq(Checks)
  BY <1>1, <1>2 DEF Bundle
<1>4. Len(Bundle) \in Nat
  BY <1>3
<1>5. DOMAIN Bundle = 1 .. Len(Bundle)
  BY <1>3
<1>6. \A i \in 1 .. Len(Bundle) : Bundle[i] \in Checks
  BY <1>3
<1> QED
  BY <1>4, <1>5, <1>6

(* The database is there before a check connects to it. *)
LEMMA DatabaseFirst ==
  ASSUME opts \in Options, NEW i \in 1 .. Len(Bundle),
         Bundle[i] \in {"target_role_privs", "extensions_available", "target_sub_capacity",
                        "pglogical_clean"}
  PROVE  \E j \in 1 .. i - 1 : Bundle[j] = "target_db_exists"
<1>1. CASE opts.mode = "online"
  <2>1. Bundle = OnlineBundle
    BY <1>1 DEF Bundle
  <2>2. i \in 1 .. 11 /\ Bundle[6] = "target_db_exists"
    BY <2>1 DEF OnlineBundle
  <2>3. i > 6
    BY <2>1, <2>2 DEF OnlineBundle
  <2> QED
    BY <2>2, <2>3
<1>2. CASE opts.mode # "online"
  <2>1. Bundle = OfflineBundle
    BY <1>2 DEF Bundle
  <2>2. i \in 1 .. 7 /\ Bundle[4] = "target_db_exists"
    BY <2>1 DEF OfflineBundle
  <2>3. i > 4
    BY <2>1, <2>2 DEF OfflineBundle
  <2> QED
    BY <2>2, <2>3
<1> QED
  BY <1>1, <1>2

(* The tools, their versions and the target are checked before it is made. *)
LEMMA DatabaseLate ==
  ASSUME opts \in Options, NEW i \in 1 .. Len(Bundle), Bundle[i] = "target_db_exists"
  PROVE  \A check \in {"pg_tools", "version_compat", "target_not_in_recovery"} :
           \E j \in 1 .. i - 1 : Bundle[j] = check
<1>1. CASE opts.mode = "online"
  <2>1. Bundle = OnlineBundle
    BY <1>1 DEF Bundle
  <2>2. Bundle[1] = "pg_tools" /\ Bundle[2] = "version_compat"
        /\ Bundle[5] = "target_not_in_recovery"
    BY <2>1 DEF OnlineBundle
  <2>3. i \in 1 .. 11 /\ i > 5
    BY <2>1, <2>2 DEF OnlineBundle
  <2> QED
    BY <2>2, <2>3
<1>2. CASE opts.mode # "online"
  <2>1. Bundle = OfflineBundle
    BY <1>2 DEF Bundle
  <2>2. Bundle[1] = "pg_tools" /\ Bundle[2] = "version_compat"
        /\ Bundle[3] = "target_not_in_recovery"
    BY <2>1 DEF OfflineBundle
  <2>3. i \in 1 .. 7 /\ i > 3
    BY <2>1, <2>2 DEF OfflineBundle
  <2> QED
    BY <2>2, <2>3
<1> QED
  BY <1>1, <1>2

-----------------------------------------------------------------------------
(* One check.                                                              *)

(* No check has more than four stages. *)
LEMMA FourStages ==
  ASSUME NEW check \in Checks
  PROVE  /\ DOMAIN Requires(check) \subseteq 1 .. 4
         /\ \A i \in DOMAIN Requires(check) : 1 .. i \subseteq DOMAIN Requires(check)
BY DEF Requires, Checks, PgTools, VersionCompat, SourceReplRole, SnapshotTimeouts,
       NotInRecovery, DatabaseExists,
       RoleNeeds, ExtensionsAvailable, LogicalReplReady, SubCapacity, PglogicalClean

(* A check without unmet needs has none unmet in any stage. *)
LEMMA NothingUnmet ==
  ASSUME NEW check \in Checks, Unmet(check) = {}
  PROVE  \A i \in DOMAIN Requires(check) : \A need \in Requires(check)[i] : Holds(need)
<1> DEFINE stages == Requires(check)
           Missing(i) == {need \in stages[i] : ~Holds(need)}
<1>1. \A i \in DOMAIN stages : (\A k \in 1 .. i - 1 : Missing(k) = {}) => Missing(i) = {}
  BY DEF Unmet
<1>2. DOMAIN stages \subseteq 1 .. 4
  BY FourStages
<1>3. \A i \in DOMAIN stages : 1 .. i \subseteq DOMAIN stages
  BY FourStages
<1> HIDE DEF stages
<1>4. \A i \in DOMAIN stages : Missing(i) = {}
  <2> SUFFICES ASSUME NEW i \in DOMAIN stages PROVE Missing(i) = {}
    OBVIOUS
  <2> HIDE DEF Missing
  <2>1. i \in 1 .. 4 /\ \A k \in 1 .. i : k \in DOMAIN stages
    BY <1>2, <1>3
  <2>2. Missing(1) = {}
    BY <2>1, <1>1
  <2>3. i >= 2 => Missing(2) = {}
    BY <2>1, <2>2, <1>1
  <2>4. i >= 3 => Missing(3) = {}
    BY <2>1, <2>2, <2>3, <1>1
  <2>5. i = 4 => Missing(4) = {}
    BY <2>1, <2>2, <2>3, <2>4, <1>1
  <2> QED
    BY <2>1, <2>2, <2>3, <2>4, <2>5
<1> QED
  BY <1>4 DEF stages

(* A check that passes establishes what it is for; the one that creates    *)
(* the database does so by creating it.                                    *)
LEMMA PassEstablishes ==
  ASSUME opts \in Options, NEW check \in Checks \ {"target_db_exists"}, Unmet(check) = {}
  PROVE  Established(check)
<1> DEFINE stages == Requires(check)
<1>1. \A i \in DOMAIN stages : \A need \in stages[i] : Holds(need)
  BY NothingUnmet
<1>2. CASE check = "pg_tools"
  <2>1. /\ 1 \in DOMAIN stages /\ stages[1] = {"pg_dump"}
        /\ 2 \in DOMAIN stages /\ stages[2] = {"pg_restore"}
    BY <1>2 DEF Requires, PgTools
  <2>2. Holds("pg_dump") /\ Holds("pg_restore")
    BY <2>1, <1>1
  <2> QED
    BY <1>2, <2>2 DEF Established, Holds, Tools, Conditions, Reachable
<1>3. CASE check = "version_compat"
  <2>1. /\ 2 \in DOMAIN stages /\ stages[2] = {"dump fits source"}
        /\ 3 \in DOMAIN stages /\ stages[3] = {"restore fits target"}
        /\ 4 \in DOMAIN stages /\ stages[4] = {"restore fits dump"}
    BY <1>3 DEF Requires, VersionCompat
  <2>2. Holds("dump fits source") /\ Holds("restore fits target") /\ Holds("restore fits dump")
    BY <2>1, <1>1
  <2> QED
    BY <1>3, <2>2 DEF Established, Holds, Tools, Conditions, Reachable
<1>4. CASE check = "source_repl_role"
  <2>1. 2 \in DOMAIN stages /\ stages[2] = {"replication role"}
    BY <1>4 DEF Requires, SourceReplRole
  <2>2. Holds("replication role")
    BY <2>1, <1>1
  <2> QED
    BY <1>4, <2>2 DEF Established, Holds, Tools, Conditions, Reachable
<1>5. CASE check = "source_snapshot_timeouts"
  <2>1. 2 \in DOMAIN stages /\ stages[2] = {"no idle timeout"}
    BY <1>5 DEF Requires, SnapshotTimeouts
  <2>2. Holds("no idle timeout")
    BY <2>1, <1>1
  <2> QED
    BY <1>5, <2>2 DEF Established, Holds, Tools, Conditions, Reachable
<1>6. CASE check = "target_not_in_recovery"
  <2>1. 2 \in DOMAIN stages /\ stages[2] = {"primary"}
    BY <1>6 DEF Requires, NotInRecovery
  <2>2. Holds("primary")
    BY <2>1, <1>1
  <2> QED
    BY <1>6, <2>2 DEF Established, Holds, Tools, Conditions, Reachable
<1>7. CASE check = "extensions_available"
  <2>1. 2 \in DOMAIN stages /\ stages[2] = {"extensions"}
    BY <1>7 DEF Requires, ExtensionsAvailable
  <2>2. Holds("extensions")
    BY <2>1, <1>1
  <2> QED
    BY <1>7, <2>2 DEF Established, Holds, Tools, Conditions, Reachable
<1>8. CASE check = "source_logical_repl"
  <2>1. /\ 2 \in DOMAIN stages /\ stages[2] = {"wal_level"}
        /\ 3 \in DOMAIN stages /\ stages[3] = {"slots"}
        /\ 4 \in DOMAIN stages /\ stages[4] = {"senders"}
    BY <1>8 DEF Requires, LogicalReplReady
  <2>2. Holds("wal_level") /\ Holds("slots") /\ Holds("senders")
    BY <2>1, <1>1
  <2> QED
    BY <1>8, <2>2 DEF Established, Holds, Tools, Conditions, Reachable
<1>9. CASE check = "target_sub_capacity"
  <2>1. /\ 2 \in DOMAIN stages /\ stages[2] = {"workers"}
        /\ 3 \in DOMAIN stages /\ stages[3] = {"processes"}
    BY <1>9 DEF Requires, SubCapacity
  <2>2. Holds("workers") /\ Holds("processes")
    BY <2>1, <1>1
  <2> QED
    BY <1>9, <2>2 DEF Established, Holds, Tools, Conditions, Reachable
<1>10. CASE check = "pglogical_clean"
  <2>1. 2 \in DOMAIN stages /\ stages[2] = {"no pglogical"}
    BY <1>10 DEF Requires, PglogicalClean
  <2>2. Holds("no pglogical")
    BY <2>1, <1>1
  <2> QED
    BY <1>10, <2>2 DEF Established, Holds, Tools, Conditions, Reachable
<1>11. CASE check = "target_role_privs"
  <2>1. CASE opts.mode = "online"
    <3>1. 2 \in DOMAIN stages /\ stages[2] = {"may create"}
          /\ 3 \in DOMAIN stages /\ stages[3] = {"may subscribe"}
      BY <1>11, <2>1 DEF Requires, RoleNeeds
    <3>2. Holds("may create") /\ Holds("may subscribe")
      BY <3>1, <1>1
    <3>3. MayCreate /\ MaySubscribe
      BY <3>2 DEF Holds, Tools, Conditions, Reachable, MayCreate, MaySubscribe, Has
    <3> QED
      BY <1>11, <3>3 DEF Established
  <2>2. CASE opts.mode # "online"
    <3>1. 2 \in DOMAIN stages /\ stages[2] = {"may create"}
      BY <1>11, <2>2 DEF Requires, RoleNeeds
    <3>2. Holds("may create")
      BY <3>1, <1>1
    <3>3. MayCreate
      BY <3>2 DEF Holds, Tools, Conditions, Reachable, MayCreate, Has
    <3> QED
      BY <1>11, <2>2, <3>3 DEF Established
  <2> QED
    BY <2>1, <2>2
<1> QED
  BY <1>2, <1>3, <1>4, <1>5, <1>6, <1>7, <1>8, <1>9, <1>10, <1>11 DEF Checks

(* What is established stays so while the tools are the same and nothing   *)
(* but a server is lost.                                                   *)
LEMMA EstablishedKept ==
  ASSUME NEW check \in Checks, Established(check),
         UNCHANGED <<opts, servers, clients>>, lacking' \ Reachable \subseteq lacking
  PROVE  Established(check)'
<1>1. \A c \in Conditions \ Reachable : c \notin lacking => c \notin lacking'
  OBVIOUS
<1>2. {"replication role", "no idle timeout", "primary", "database", "create privilege",
       "superuser", "subscription role", "createdb", "extensions", "wal_level", "slots",
       "senders", "workers", "processes", "no pglogical"} \subseteq Conditions \ Reachable
  BY DEF Conditions, Reachable
<1> QED
  BY <1>1, <1>2 DEF Established, Checks, Has, MayCreate, MaySubscribe, DumpFits,
                    RestoreFitsTarget, RestoreFitsDump

(* What a check may fail with is in one of its stages, and the first stage *)
(* holds if it is in a later one.                                          *)
LEMMA UnmetStages ==
  ASSUME NEW check \in Checks, NEW need \in Unmet(check)
  PROVE  \/ 1 \in DOMAIN Requires(check) /\ need \in Requires(check)[1]
         \/ \E j \in 2 .. 4 :
              /\ j \in DOMAIN Requires(check) /\ need \in Requires(check)[j]
              /\ \A first \in Requires(check)[1] : Holds(first)
<1>1. PICK i \in DOMAIN Requires(check) :
        /\ need \in Requires(check)[i]
        /\ \A k \in 1 .. i - 1 : {n \in Requires(check)[k] : ~Holds(n)} = {}
  BY DEF Unmet
<1>2. i \in 1 .. 4
  BY FourStages
<1>3. CASE i = 1
  BY <1>1, <1>3
<1>4. CASE i \in 2 .. 4
  <2>1. {n \in Requires(check)[1] : ~Holds(n)} = {}
    BY <1>1, <1>4
  <2> QED
    BY <1>1, <1>4, <2>1
<1> QED
  BY <1>2, <1>3, <1>4

(* What a check reports as missing is missing.                             *)
LEMMA UnmetNeeds ==
  ASSUME NEW check \in Checks, NEW need \in Unmet(check)
  PROVE  ~Holds(need)
BY DEF Unmet

(* Every need is one of the environment's, a missing tool's is all that    *)
(* the first check may lack, and four checks connect to the database.      *)
LEMMA UnmetTypes ==
  ASSUME NEW check \in Checks, NEW need \in Unmet(check)
  PROVE  /\ need \in Needs
         /\ check = "pg_tools" => need \in Tools
         /\ need = "database" =>
              check \in {"target_role_privs", "extensions_available", "target_sub_capacity",
                        "pglogical_clean"}
<1>1. \E j \in 1 .. 4 : j \in DOMAIN Requires(check) /\ need \in Requires(check)[j]
  BY UnmetStages
<1>0. \/ 1 \in DOMAIN Requires(check) /\ need \in Requires(check)[1]
      \/ 2 \in DOMAIN Requires(check) /\ need \in Requires(check)[2]
      \/ 3 \in DOMAIN Requires(check) /\ need \in Requires(check)[3]
      \/ 4 \in DOMAIN Requires(check) /\ need \in Requires(check)[4]
  BY <1>1
<1>2. CASE check = "pg_tools"
  <2>1. /\ 3 \notin DOMAIN Requires(check) /\ 4 \notin DOMAIN Requires(check)
        /\ Requires(check)[1] = {"pg_dump"}
        /\ Requires(check)[2] = {"pg_restore"}
    BY <1>2 DEF Requires, PgTools, Source, Target, Server, Tools
  <2>2. need \in {"pg_dump", "pg_restore"}
    BY <1>0, <2>1
  <2> QED
    BY <1>2, <2>2 DEF Needs, Tools, Conditions, Reachable
<1>3. CASE check = "version_compat"
  <2>1. /\ Requires(check)[1] = {"pg_dump", "pg_restore", "source up", "target up", "some database"}
        /\ Requires(check)[2] = {"dump fits source"}
        /\ Requires(check)[3] = {"restore fits target"}
        /\ Requires(check)[4] = {"restore fits dump"}
    BY <1>3 DEF Requires, VersionCompat, Source, Target, Server, Tools
  <2>2. need \in {"pg_dump", "pg_restore", "source up", "target up", "some database",
                  "dump fits source", "restore fits target", "restore fits dump"}
    BY <1>0, <2>1
  <2> QED
    BY <1>3, <2>2 DEF Needs, Tools, Conditions, Reachable
<1>4. CASE check = "source_repl_role"
  <2>1. /\ 3 \notin DOMAIN Requires(check) /\ 4 \notin DOMAIN Requires(check)
        /\ Requires(check)[1] = {"source up"}
        /\ Requires(check)[2] = {"replication role"}
    BY <1>4 DEF Requires, SourceReplRole, Source, Target, Server, Tools
  <2>2. need \in {"source up", "replication role"}
    BY <1>0, <2>1
  <2> QED
    BY <1>4, <2>2 DEF Needs, Tools, Conditions, Reachable
<1>5. CASE check = "source_snapshot_timeouts"
  <2>1. /\ 3 \notin DOMAIN Requires(check) /\ 4 \notin DOMAIN Requires(check)
        /\ Requires(check)[1] = {"source up"}
        /\ Requires(check)[2] = {"no idle timeout"}
    BY <1>5 DEF Requires, SnapshotTimeouts, Source, Target, Server, Tools
  <2>2. need \in {"source up", "no idle timeout"}
    BY <1>0, <2>1
  <2> QED
    BY <1>5, <2>2 DEF Needs, Tools, Conditions, Reachable
<1>6. CASE check = "target_not_in_recovery"
  <2>1. /\ 3 \notin DOMAIN Requires(check) /\ 4 \notin DOMAIN Requires(check)
        /\ Requires(check)[1] = {"target up", "some database"}
        /\ Requires(check)[2] = {"primary"}
    BY <1>6 DEF Requires, NotInRecovery, Source, Target, Server, Tools
  <2>2. need \in {"target up", "some database", "primary"}
    BY <1>0, <2>1
  <2> QED
    BY <1>6, <2>2 DEF Needs, Tools, Conditions, Reachable
<1>7. CASE check = "target_db_exists"
  <2>1. /\ 3 \notin DOMAIN Requires(check) /\ 4 \notin DOMAIN Requires(check)
        /\ Requires(check)[1] = {"target up", "maintenance"}
        /\ Requires(check)[2] = {"creatable"}
    BY <1>7 DEF Requires, DatabaseExists, Source, Target, Server, Tools
  <2>2. need \in {"target up", "maintenance", "creatable"}
    BY <1>0, <2>1
  <2> QED
    BY <1>7, <2>2 DEF Needs, Tools, Conditions, Reachable
<1>8. CASE check = "extensions_available"
  <2>1. /\ 3 \notin DOMAIN Requires(check) /\ 4 \notin DOMAIN Requires(check)
        /\ Requires(check)[1] = {"source up", "target up", "database"}
        /\ Requires(check)[2] = {"extensions"}
    BY <1>8 DEF Requires, ExtensionsAvailable, Source, Target, Server, Tools
  <2>2. need \in {"source up", "target up", "database", "extensions"}
    BY <1>0, <2>1
  <2> QED
    BY <1>8, <2>2 DEF Needs, Tools, Conditions, Reachable
<1>9. CASE check = "source_logical_repl"
  <2>1. /\ Requires(check)[1] = {"source up"}
        /\ Requires(check)[2] = {"wal_level"}
        /\ Requires(check)[3] = {"slots"}
        /\ Requires(check)[4] = {"senders"}
    BY <1>9 DEF Requires, LogicalReplReady, Source, Target, Server, Tools
  <2>2. need \in {"source up", "wal_level", "slots", "senders"}
    BY <1>0, <2>1
  <2> QED
    BY <1>9, <2>2 DEF Needs, Tools, Conditions, Reachable
<1>10. CASE check = "target_sub_capacity"
  <2>1. /\ 4 \notin DOMAIN Requires(check)
        /\ Requires(check)[1] = {"target up", "database"}
        /\ Requires(check)[2] = {"workers"}
        /\ Requires(check)[3] = {"processes"}
    BY <1>10 DEF Requires, SubCapacity, Source, Target, Server, Tools
  <2>2. need \in {"target up", "database", "workers", "processes"}
    BY <1>0, <2>1
  <2> QED
    BY <1>10, <2>2 DEF Needs, Tools, Conditions, Reachable
<1>11. CASE check = "pglogical_clean"
  <2>1. /\ 3 \notin DOMAIN Requires(check) /\ 4 \notin DOMAIN Requires(check)
        /\ Requires(check)[1] = {"target up", "database"}
        /\ Requires(check)[2] = {"no pglogical"}
    BY <1>11 DEF Requires, PglogicalClean, Source, Target, Server, Tools
  <2>2. need \in {"target up", "database", "no pglogical"}
    BY <1>0, <2>1
  <2> QED
    BY <1>11, <2>2 DEF Needs, Tools, Conditions, Reachable
<1>12. CASE check = "target_role_privs"
  <2>1. need \in {"target up", "database", "may create", "may subscribe"}
    <3>1. CASE opts.mode = "online"
      <4>1. /\ 4 \notin DOMAIN Requires(check)
            /\ Requires(check)[1] = {"target up", "database"}
            /\ Requires(check)[2] = {"may create"}
            /\ Requires(check)[3] = {"may subscribe"}
        BY <1>12, <3>1 DEF Requires, RoleNeeds, Target
      <4> QED
        BY <1>0, <4>1
    <3>2. CASE opts.mode # "online"
      <4>1. /\ 3 \notin DOMAIN Requires(check) /\ 4 \notin DOMAIN Requires(check)
            /\ Requires(check)[1] = {"target up", "database"}
            /\ Requires(check)[2] = {"may create"}
        BY <1>12, <3>2 DEF Requires, RoleNeeds, Target
      <4> QED
        BY <1>0, <4>1
    <3> QED
      BY <3>1, <3>2
  <2> QED
    BY <1>12, <2>1 DEF Needs, Tools, Conditions, Reachable
<1> QED
  BY <1>2, <1>3, <1>4, <1>5, <1>6, <1>7, <1>8, <1>9, <1>10, <1>11, <1>12 DEF Checks

(* A missing extension is only reported when both servers answered. *)
LEMMA MissingMeansReached ==
  ASSUME "extensions" \in Unmet("extensions_available")
  PROVE  Reachable \cap lacking = {}
<1>1. Requires("extensions_available")[1] = {"source up", "target up", "database"}
  BY DEF Requires, ExtensionsAvailable, Source, Target
<1>2. "extensions_available" \in Checks
  BY DEF Checks
<1>3. \A first \in Requires("extensions_available")[1] : Holds(first)
  BY <1>1, <1>2, UnmetStages
<1>4. Holds("source up") /\ Holds("target up")
  BY <1>1, <1>3
<1> QED
  BY <1>4 DEF Holds, Has, Tools, Conditions, Reachable

-----------------------------------------------------------------------------
(* The steps.                                                              *)

(* The recorded checks stay established while the options and the tools    *)
(* are the same and nothing but a server is lost.                          *)
LEMMA RecordedKept ==
  ASSUME opts \in Options, UNCHANGED <<opts, servers, clients>>,
         lacking' \ Reachable \subseteq lacking,
         NEW n \in 0 .. Len(Bundle), \A i \in 1 .. n : Established(Bundle[i])
  PROVE  \A i \in 1 .. n : Established(Bundle[i])'
<1> SUFFICES ASSUME NEW i \in 1 .. n PROVE Established(Bundle[i])'
  OBVIOUS
<1>1. Len(Bundle) \in Nat /\ i \in 1 .. Len(Bundle)
  BY BundleChecks
<1>2. PICK check \in Checks : check = Bundle[i]
  BY <1>1, BundleChecks
<1>3. Bundle' = Bundle
  BY DEF Bundle, OnlineBundle, OfflineBundle
<1>4. Established(check)
  BY <1>2
<1>5. Established(check)'
  BY <1>4, EstablishedKept
<1> QED
  BY <1>2, <1>3, <1>5

(* The check that runs next. *)
LEMMA NextCheck ==
  ASSUME TypeOK, Recorded, Running
  PROVE  /\ Len(report) \in Nat /\ Len(report) + 1 \in 1 .. Len(Bundle)
         /\ Check \in Checks /\ Check = Bundle[Len(report) + 1]
         /\ \A i \in 1 .. Len(report) : Established(Bundle[i])
<1>1. Len(report) \in Nat
  BY DEF TypeOK
<1>2. Len(report) + 1 \in 1 .. Len(Bundle)
  BY <1>1, BundleChecks DEF Running, TypeOK
<1>3. Check \in Checks
  BY <1>2, BundleChecks DEF Check, TypeOK
<1> QED
  BY <1>1, <1>2, <1>3 DEF Check, Recorded, Running

(* A check that passes is established, the database by being created.      *)
LEMMA PassStep ==
  ASSUME Inv, Pass
  PROVE  Inv'
<1>1. /\ Len(report) \in Nat /\ Len(report) + 1 \in 1 .. Len(Bundle)
      /\ Check \in Checks /\ Check = Bundle[Len(report) + 1]
      /\ \A i \in 1 .. Len(report) : Established(Bundle[i])
  BY NextCheck DEF Inv, Pass
<1>2. /\ UNCHANGED <<opts, servers, clients, status, error, named, outages>>
      /\ report' = Append(report, <<Check, "pass">>)
      /\ lacking' \subseteq lacking
  BY DEF Pass, Record
<1>3. Bundle' = Bundle
  BY <1>2 DEF Bundle, OnlineBundle, OfflineBundle
<1>4. PICK check \in Checks : check = Check
  BY <1>1
<1>5. Established(check)'
  <2>1. CASE check = "target_db_exists"
    BY <2>1, <1>4 DEF Pass, Established, Has
  <2>2. CASE check # "target_db_exists"
    <3>1. Established(check)
      BY <2>2, <1>4, PassEstablishes DEF Pass, Inv, TypeOK
    <3> QED
      BY <3>1, <1>2, EstablishedKept
  <2> QED
    BY <2>1, <2>2
<1>6. Len(report') = Len(report) + 1 /\ report' \in Seq(Checks \X {"pass", "skip"})
  BY <1>1, <1>2 DEF Inv, TypeOK
<1>7. \A i \in 1 .. Len(report) : Established(Bundle[i])'
  <2>1. PICK n \in 0 .. Len(Bundle) : n = Len(report)
    BY <1>1, BundleChecks DEF Inv, TypeOK
  <2>2. \A i \in 1 .. n : Established(Bundle[i])'
    BY <2>1, <1>1, <1>2, RecordedKept DEF Inv, TypeOK
  <2> QED
    BY <2>1, <2>2
<1>8. \A i \in 1 .. Len(report') : Established(Bundle[i])'
  <2> SUFFICES ASSUME NEW i \in 1 .. Len(report') PROVE Established(Bundle[i])'
    OBVIOUS
  <2>1. CASE i \in 1 .. Len(report)
    BY <2>1, <1>7
  <2>2. CASE i = Len(report) + 1
    <3>1. Bundle'[i] = check
      BY <2>2, <1>1, <1>3, <1>4
    <3> QED
      BY <3>1, <1>5
  <2> QED
    BY <2>1, <2>2, <1>1, <1>6
<1>9. Recorded'
  <2>1. Len(report') <= Len(Bundle')
    BY <1>1, <1>3, <1>6, BundleChecks DEF Inv, TypeOK
  <2>2. status' = "running"
    BY <1>2 DEF Pass, Running
  <2> QED
    BY <1>8, <2>1, <2>2 DEF Recorded
<1>10. TypeOK'
  BY <1>2, <1>6 DEF Inv, TypeOK
<1> QED
  BY <1>2, <1>9, <1>10 DEF Inv, RecommendedMajor

(* A tolerated check is one that only tolerance establishes.               *)
LEMMA SkipStep ==
  ASSUME Inv, Running, NEW need \in Unmet(Check), Skip(need)
  PROVE  Inv'
<1>1. /\ Len(report) \in Nat /\ Len(report) + 1 \in 1 .. Len(Bundle)
      /\ Check \in Checks /\ Check = Bundle[Len(report) + 1]
      /\ \A i \in 1 .. Len(report) : Established(Bundle[i])
  BY NextCheck DEF Inv
<1>2. /\ UNCHANGED <<opts, servers, clients, status, error, named, outages, lacking>>
      /\ report' = Append(report, <<Check, "skip">>)
      /\ Check = "extensions_available" /\ opts.allowRestoreErrors
  BY DEF Skip, Record, Tolerated
<1>3. Bundle' = Bundle
  BY <1>2 DEF Bundle, OnlineBundle, OfflineBundle
<1>4. PICK check \in Checks : check = "extensions_available"
  BY <1>1, <1>2
<1>5. Established(check)'
  BY <1>2, <1>4 DEF Established
<1>6. Len(report') = Len(report) + 1 /\ report' \in Seq(Checks \X {"pass", "skip"})
  BY <1>1, <1>2 DEF Inv, TypeOK
<1>7. \A i \in 1 .. Len(report) : Established(Bundle[i])'
  <2>1. PICK n \in 0 .. Len(Bundle) : n = Len(report)
    BY <1>1, BundleChecks DEF Inv, TypeOK
  <2>2. \A i \in 1 .. n : Established(Bundle[i])'
    BY <2>1, <1>1, <1>2, RecordedKept DEF Inv, TypeOK
  <2> QED
    BY <2>1, <2>2
<1>8. \A i \in 1 .. Len(report') : Established(Bundle[i])'
  <2> SUFFICES ASSUME NEW i \in 1 .. Len(report') PROVE Established(Bundle[i])'
    OBVIOUS
  <2>1. CASE i \in 1 .. Len(report)
    BY <2>1, <1>7
  <2>2. CASE i = Len(report) + 1
    <3>1. Bundle'[i] = check
      BY <2>2, <1>1, <1>2, <1>3, <1>4
    <3> QED
      BY <3>1, <1>5
  <2> QED
    BY <2>1, <2>2, <1>1, <1>6
<1>9. Recorded'
  <2>1. Len(report') <= Len(Bundle')
    BY <1>1, <1>3, <1>6, BundleChecks DEF Inv, TypeOK
  <2>2. status' = "running"
    BY <1>2 DEF Running
  <2> QED
    BY <1>8, <2>1, <2>2 DEF Recorded
<1>10. TypeOK'
  BY <1>2, <1>6 DEF Inv, TypeOK
<1> QED
  BY <1>2, <1>9, <1>10 DEF Inv, RecommendedMajor

(* A failure is never that of a missing database, which an earlier check   *)
(* made, and names a major only for a missing tool.                        *)
LEMMA FailStep ==
  ASSUME Inv, Running, NEW need \in Unmet(Check), Fail(need)
  PROVE  Inv'
<1>1. /\ Len(report) \in Nat /\ Len(report) + 1 \in 1 .. Len(Bundle)
      /\ Check \in Checks /\ Check = Bundle[Len(report) + 1]
      /\ \A i \in 1 .. Len(report) : Established(Bundle[i])
  BY NextCheck DEF Inv
<1>2. /\ UNCHANGED <<opts, servers, clients, lacking, report, outages>>
      /\ status' = "failed" /\ error' = need /\ named' = NamedMajor(need)
  BY DEF Fail
<1>3. need \in Needs /\ ~Holds(need) /\ (Check = "pg_tools" => need \in Tools)
  BY <1>1, UnmetTypes, UnmetNeeds
<1>4. need # "database"
  <2> SUFFICES ASSUME need = "database" PROVE FALSE
    OBVIOUS
  <2>1. Check \in {"target_role_privs", "extensions_available", "target_sub_capacity",
                   "pglogical_clean"}
    BY <1>1, UnmetTypes
  <2>2. \E j \in 1 .. Len(report) : Bundle[j] = "target_db_exists"
    <3>1. \E j \in 1 .. (Len(report) + 1) - 1 : Bundle[j] = "target_db_exists"
      BY <2>1, <1>1, DatabaseFirst DEF Inv, TypeOK
    <3> QED
      BY <3>1, <1>1
  <2>3. Established("target_db_exists")
    BY <2>2, <1>1
  <2>4. Has("database")
    BY <2>3 DEF Established
  <2> QED
    BY <2>4, <1>3 DEF Holds, Tools, Conditions, Reachable, Has
<1>5. RecommendedMajor(servers) \in Nat
  BY PreflightAssumption DEF RecommendedMajor, Inv, TypeOK
<1>6. named' \in Nat /\ (named' # 0 => need \in Tools /\ named' = RecommendedMajor(servers))
  BY <1>2, <1>3, <1>5 DEF NamedMajor
<1>7. TypeOK'
  BY <1>2, <1>3, <1>6 DEF Inv, TypeOK
<1>8. Recorded'
  BY <1>2 DEF Inv, Recorded, Bundle, OnlineBundle, OfflineBundle
<1> QED
  BY <1>2, <1>3, <1>4, <1>6, <1>7, <1>8 DEF Inv, RecommendedMajor

(* Advice installs tools or provides conditions.                           *)
LEMMA AdviceTypes ==
  ASSUME TypeOK, NEW need \in Needs, Advice(need)
  PROVE  /\ clients' \in [Tools -> Nat] /\ lacking' \subseteq Conditions
         /\ "database" \in lacking /\ "database" \notin lacking' => need = "database"
<1> USE DEF Install, Provide
<1>1. CASE need \in Tools
  <2>1. \E major \in Nat : Install(major)
    BY <1>1, PreflightAssumption DEF Advice, TypeOK, Tools, Conditions, Reachable
  <2> QED
    BY <2>1 DEF TypeOK
<1>2. CASE need = "dump fits source"
  <2>1. Install(servers.source)
    BY <1>2 DEF Advice, Tools, Conditions, Reachable
  <2> QED
    BY <2>1, PreflightAssumption DEF TypeOK
<1>3. CASE need = "restore fits target"
  <2>1. Install(servers.target)
    BY <1>3 DEF Advice, Tools, Conditions, Reachable
  <2> QED
    BY <2>1, PreflightAssumption DEF TypeOK
<1>4. CASE need = "restore fits dump"
  <2>1. clients' = [clients EXCEPT !["pg_restore"] = clients.pg_dump] /\ UNCHANGED lacking
    BY <1>4 DEF Advice, Tools, Conditions, Reachable
  <2> QED
    BY <2>1 DEF TypeOK, Tools
<1>5. CASE need \in {"some database", "creatable", "may create", "may subscribe"}
  <2>1. \E conditions \in SUBSET (Conditions \ {"database"}) : Provide(conditions)
    <3>1. CASE need = "some database"
      BY <3>1 DEF Advice, Tools, Conditions, Reachable
    <3>2. CASE need = "creatable"
      BY <3>2 DEF Advice, Tools, Conditions, Reachable
    <3>3. CASE need = "may create"
      BY <3>3 DEF Advice, Tools, Conditions, Reachable
    <3>4. CASE need = "may subscribe"
      BY <3>4 DEF Advice, Tools, Conditions, Reachable
    <3> QED
      BY <1>5, <3>1, <3>2, <3>3, <3>4
  <2> QED
    BY <2>1 DEF TypeOK
<1>6. CASE need \in Conditions
  <2>1. Provide({need})
    BY <1>6 DEF Advice, Tools, Conditions, Reachable
  <2> QED
    BY <2>1 DEF TypeOK
<1> QED
  BY <1>1, <1>2, <1>3, <1>4, <1>5, <1>6 DEF Needs

(* What the environment does disturbs no recorded check of a running run.  *)
LEMMA EnvironmentStep ==
  ASSUME Inv, Finish \/ Repair \/ Rerun \/ Outage
  PROVE  Inv'
<1>1. CASE Finish
  <2>1. UNCHANGED <<opts, servers, clients, lacking, report, error, named, outages>>
        /\ status = "running" /\ status' = "passed" /\ Len(report) = Len(Bundle)
    BY <1>1 DEF Finish
  <2>2. Bundle' = Bundle
    BY <2>1 DEF Bundle, OnlineBundle, OfflineBundle
  <2>3. PICK n \in 0 .. Len(Bundle) : n = Len(report)
    BY <2>1, BundleChecks DEF Inv, TypeOK
  <2>4. \A i \in 1 .. n : Established(Bundle[i])'
    BY <2>1, <2>3, RecordedKept DEF Inv, TypeOK, Recorded
  <2>5. Recorded'
    BY <2>1, <2>2, <2>3, <2>4, BundleChecks DEF Inv, TypeOK, Recorded
  <2> QED
    BY <2>1, <2>5 DEF Inv, TypeOK, RecommendedMajor
<1>2. CASE Outage
  <2>1. /\ UNCHANGED <<opts, servers, clients, status, report, error, named>>
        /\ status = "running" /\ outages < MaxOutages /\ outages' = outages + 1
        /\ lacking' \ Reachable \subseteq lacking /\ lacking' \subseteq Conditions
    BY <1>2 DEF Outage, Conditions, Inv, TypeOK
  <2>2. Bundle' = Bundle
    BY <2>1 DEF Bundle, OnlineBundle, OfflineBundle
  <2>3. PICK n \in 0 .. Len(Bundle) : n = Len(report)
    BY <2>1, BundleChecks DEF Inv, TypeOK, Recorded
  <2>4. \A i \in 1 .. n : Established(Bundle[i])'
    BY <2>1, <2>3, RecordedKept DEF Inv, TypeOK, Recorded
  <2>5. Recorded'
    BY <2>1, <2>2, <2>3, <2>4, BundleChecks DEF Inv, TypeOK, Recorded
  <2>6. outages' \in 0 .. MaxOutages
    BY <2>1, PreflightAssumption DEF Inv, TypeOK
  <2> QED
    BY <2>1, <2>5, <2>6 DEF Inv, TypeOK, RecommendedMajor
<1>3. CASE Rerun
  <2>1. /\ UNCHANGED <<opts, servers, clients, lacking, outages>>
        /\ status' = "running" /\ report' = <<>> /\ error' = "none" /\ named' = 0
    BY <1>3 DEF Rerun
  <2>2. Bundle' = Bundle
    BY <2>1 DEF Bundle, OnlineBundle, OfflineBundle
  <2>3. Len(report') = 0 /\ report' \in Seq(Checks \X {"pass", "skip"})
    BY <2>1
  <2>4. Recorded'
    BY <2>1, <2>2, <2>3, BundleChecks DEF Inv, TypeOK, Recorded
  <2> QED
    BY <2>1, <2>3, <2>4 DEF Inv, TypeOK
<1>4. CASE Repair
  <2>1. /\ UNCHANGED <<opts, servers, report, error, named, outages>>
        /\ status = "failed" /\ status' = "repaired" /\ error \in Needs /\ Advice(error)
    BY <1>4 DEF Repair, Inv
  <2>2. Bundle' = Bundle
    BY <2>1 DEF Bundle, OnlineBundle, OfflineBundle
  <2>3. clients' \in [Tools -> Nat] /\ lacking' \subseteq Conditions
    BY <2>1, AdviceTypes DEF Inv
  <2>4. Recorded'
    BY <2>1, <2>2 DEF Inv, Recorded
  <2> QED
    BY <2>1, <2>3, <2>4 DEF Inv, TypeOK, RecommendedMajor
<1> QED
  BY <1>1, <1>2, <1>3, <1>4

(* Every step keeps the invariant.                                         *)
LEMMA NextKeepsInv ==
  ASSUME Inv, [Next]_vars
  PROVE  Inv'
<1>1. CASE RunCheck
  <2>1. CASE Pass
    BY <2>1, PassStep
  <2>2. ASSUME Running, NEW need \in Unmet(Check), Skip(need) PROVE Inv'
    BY <2>2, SkipStep
  <2>3. ASSUME Running, NEW need \in Unmet(Check), Fail(need) PROVE Inv'
    BY <2>3, FailStep
  <2> QED
    BY <1>1, <2>1, <2>2, <2>3 DEF RunCheck
<1>2. CASE Finish \/ Repair \/ Rerun \/ Outage
  BY <1>2, EnvironmentStep
<1>3. CASE UNCHANGED vars
  BY <1>3 DEF vars, Inv, TypeOK, Recorded, Bundle, OnlineBundle, OfflineBundle, Established,
              Has, MayCreate, MaySubscribe, DumpFits, RestoreFitsTarget, RestoreFitsDump,
              RecommendedMajor
<1> QED
  BY <1>1, <1>2, <1>3 DEF Next

(* It holds of every environment before the first check.                   *)
LEMMA InitInv ==
  ASSUME Init
  PROVE  Inv
<1>1. lacking \subseteq Conditions
  BY DEF Init, ProblemSets, Problems, Conditions
<1>2. TypeOK
  <2>1. clients \in [Tools -> Nat]
    BY PreflightAssumption DEF Init
  <2>2. report \in Seq(Checks \X {"pass", "skip"})
    BY DEF Init
  <2>3. 0 \in 0 .. MaxOutages
    BY PreflightAssumption
  <2> QED
    BY <1>1, <2>1, <2>2, <2>3 DEF Init, TypeOK
<1>3. Len(report) = 0
  BY DEF Init
<1>4. Recorded
  BY <1>2, <1>3, BundleChecks DEF Recorded, TypeOK, Init
<1> QED
  BY <1>2, <1>4 DEF Inv, Init

-----------------------------------------------------------------------------
(* The theorems.                                                           *)

(* The recorded checks are the first of the bundle, and what each of them  *)
(* established still holds when the next one runs.                         *)
THEOREM Invariance == Spec => []Inv
<1>1. Init => Inv
  BY InitInv
<1>2. Inv /\ [Next]_vars => Inv'
  BY NextKeepsInv
<1> QED
  BY <1>1, <1>2, PTL DEF Spec

(* Every variable has its type, for all majors and bounds, and only the    *)
(* error of a missing tool names a major (name_required_major).            *)
THEOREM TypeCorrect == Spec => []TypeOK
<1>1. Inv => TypeOK
  BY DEF Inv
<1> QED
  BY <1>1, Invariance, PTL

(* Preflight never fails because the target database is missing: the       *)
(* bundles create it before the first check that connects to it.           *)
THEOREM DatabaseBeforeUse == Spec => []NoMissingDatabase
<1>1. Inv => NoMissingDatabase
  BY DEF Inv, NoMissingDatabase
<1> QED
  BY <1>1, Invariance, PTL

(* Both bundles check all that the migration relies on (PassMeansReady):   *)
(* the invariant, read off at the places of the checks in each bundle.     *)
LEMMA AllChecked ==
  ASSUME Inv, status = "passed"
  PROVE  /\ \A check \in {"pg_tools", "version_compat", "target_not_in_recovery",
                        "target_db_exists", "target_role_privs", "extensions_available"} :
              Established(check)
         /\ opts.split \/ opts.mode = "online" => Established("source_snapshot_timeouts")
         /\ opts.mode = "online" =>
              \A check \in {"source_repl_role", "source_logical_repl", "target_sub_capacity",
                            "pglogical_clean"} : Established(check)
<1>1. \A i \in 1 .. Len(Bundle) : Established(Bundle[i])
  BY DEF Inv, Recorded
<1>2. CASE opts.mode = "online"
  <2>1. /\ Len(Bundle) = 11 /\ Bundle[1] = "pg_tools" /\ Bundle[2] = "version_compat"
        /\ Bundle[3] = "source_repl_role" /\ Bundle[4] = "source_snapshot_timeouts"
        /\ Bundle[5] = "target_not_in_recovery" /\ Bundle[6] = "target_db_exists"
        /\ Bundle[7] = "target_role_privs" /\ Bundle[8] = "extensions_available"
        /\ Bundle[9] = "source_logical_repl" /\ Bundle[10] = "target_sub_capacity"
        /\ Bundle[11] = "pglogical_clean"
    BY <1>2 DEF Bundle, OnlineBundle
  <2> QED
    BY <1>1, <2>1
<1>3. CASE opts.mode # "online" /\ opts.split
  <2>1. /\ Len(Bundle) = 7 /\ Bundle[1] = "pg_tools" /\ Bundle[2] = "version_compat"
        /\ Bundle[3] = "target_not_in_recovery" /\ Bundle[4] = "target_db_exists"
        /\ Bundle[5] = "target_role_privs" /\ Bundle[6] = "source_snapshot_timeouts"
        /\ Bundle[7] = "extensions_available"
    BY <1>3 DEF Bundle, OfflineBundle
  <2> QED
    BY <1>1, <1>3, <2>1
<1>4. CASE opts.mode # "online" /\ ~opts.split
  <2>1. /\ Len(Bundle) = 6 /\ Bundle[1] = "pg_tools" /\ Bundle[2] = "version_compat"
        /\ Bundle[3] = "target_not_in_recovery" /\ Bundle[4] = "target_db_exists"
        /\ Bundle[5] = "target_role_privs" /\ Bundle[6] = "extensions_available"
    BY <1>4 DEF Bundle, OfflineBundle
  <2> QED
    BY <1>1, <1>4, <2>1
<1> QED
  BY <1>2, <1>3, <1>4

(* A run of preflight that passed leaves the servers and tools as the      *)
(* dump, the restore, the snapshot and the subscription need them, however *)
(* the environment was when it began and whatever was repaired before.     *)
THEOREM PassingIsReady == Spec => []PassMeansReady
<1>1. ASSUME Inv, status = "passed"
      PROVE  DumpWorks /\ RestoreWorks /\ SnapshotLives /\ StreamingWorks
  <2>1. DumpWorks
    BY <1>1, AllChecked DEF DumpWorks, Established
  <2>2. RestoreWorks
    BY <1>1, AllChecked DEF RestoreWorks, Established, Has
  <2>3. SnapshotLives
    BY <1>1, AllChecked DEF SnapshotLives, Established
  <2>4. StreamingWorks
    BY <1>1, AllChecked DEF StreamingWorks, Established, Has, MaySubscribe
  <2> QED
    BY <2>1, <2>2, <2>3, <2>4
<1>2. Inv => PassMeansReady
  BY <1>1 DEF PassMeansReady
<1> QED
  BY <1>2, Invariance, PTL

(* The database is created only after the tools, their versions and the    *)
(* target were found right, so a run that could not go on leaves none.     *)
THEOREM CreatedLate == Spec => CreatedAfterChecks
<1>1. ASSUME Inv, [Next]_vars, Has("database")', ~Has("database")
      PROVE  DumpWorks /\ RestoreFitsTarget /\ Has("primary")
  <2>1. "database" \in lacking /\ "database" \notin lacking'
    BY <1>1 DEF Has
  <2>2. Pass
    <3>1. ~Repair
      <4> SUFFICES ASSUME Repair PROVE FALSE
        OBVIOUS
      <4>1. error \in Needs /\ Advice(error) /\ error # "database"
        BY <1>1 DEF Repair, Inv
      <4> QED
        BY <4>1, <2>1, AdviceTypes, <1>1 DEF Inv
    <3> QED
      BY <1>1, <2>1, <3>1 DEF Next, RunCheck, Skip, Fail, Finish, Rerun, Outage, vars
  <2>3. Check = "target_db_exists"
    BY <2>1, <2>2 DEF Pass
  <2>4. /\ Len(report) \in Nat /\ Len(report) + 1 \in 1 .. Len(Bundle)
        /\ Check = Bundle[Len(report) + 1]
        /\ \A i \in 1 .. Len(report) : Established(Bundle[i])
    BY <1>1, <2>2, NextCheck DEF Inv, Pass
  <2>5. \A check \in {"pg_tools", "version_compat", "target_not_in_recovery"} :
          \E j \in 1 .. (Len(report) + 1) - 1 : Bundle[j] = check
    BY <1>1, <2>3, <2>4, DatabaseLate DEF Inv, TypeOK
  <2>6. Established("pg_tools") /\ Established("version_compat")
        /\ Established("target_not_in_recovery")
    BY <2>4, <2>5
  <2> QED
    BY <2>6 DEF Established, DumpWorks
<1>2. Inv /\ [Next]_vars =>
        [Has("database")' /\ ~Has("database") =>
           DumpWorks /\ RestoreFitsTarget /\ Has("primary")]_vars
  BY <1>1
<1> QED
  BY <1>2, Invariance, PTL DEF Spec, CreatedAfterChecks

(* A check is skipped only if the servers it asked were reachable: a lost  *)
(* connection is an error even with --allow-restore-errors.                *)
THEOREM SkipsAreMissing == Spec => SkipsOnlyMissing
<1>1. ASSUME Inv, [Next]_vars, NEW i \in DOMAIN report' \ DOMAIN report, report'[i][2] = "skip"
      PROVE  Reachable \cap lacking = {}
  <2>1. CASE Running /\ \E need \in Unmet(Check) : Skip(need)
    <3>1. "extensions" \in Unmet("extensions_available")
      BY <2>1 DEF Skip, Tolerated
    <3> QED
      BY <3>1, MissingMeansReached
  <2>2. CASE Pass
    <3>1. report' = Append(report, <<Check, "pass">>) /\ report \in Seq(Checks \X {"pass", "skip"})
      BY <1>1, <2>2 DEF Pass, Record, Inv, TypeOK
    <3>2. i = Len(report) + 1
      BY <3>1
    <3>3. report'[i] = <<Check, "pass">>
      BY <3>1, <3>2
    <3> QED
      BY <1>1, <3>3
  <2>3. CASE Rerun
    BY <1>1, <2>3 DEF Rerun
  <2>4. CASE UNCHANGED report
    BY <1>1, <2>4
  <2> QED
    BY <1>1, <2>1, <2>2, <2>3, <2>4 DEF Next, RunCheck, Fail, Finish, Repair, Outage, vars
<1>2. Inv /\ [Next]_vars =>
        [\A i \in DOMAIN report' \ DOMAIN report :
           report'[i][2] = "skip" => Reachable \cap lacking = {}]_vars
  BY <1>1
<1> QED
  BY <1>2, Invariance, PTL DEF Spec, SkipsOnlyMissing

(* The major that the error of a missing tool names suits both servers:    *)
(* once it is installed, no version is wrong.                              *)
THEOREM OneInstallFits == Spec => NamedMajorFits
<1>1. ASSUME Inv, [Next]_vars, named # 0, clients' # clients
      PROVE  DumpFits' /\ RestoreFitsTarget' /\ RestoreFitsDump'
  <2>1. Repair
    BY <1>1 DEF Next, RunCheck, Pass, Record, Skip, Fail, Finish, Rerun, Outage, vars
  <2>2. error \in Tools /\ named = RecommendedMajor(servers) /\ Advice(error)
    BY <1>1, <2>1 DEF Inv, TypeOK, Repair
  <2>3. Install(RecommendedMajor(servers))
    BY <1>1, <2>2 DEF Advice, Tools, Conditions, Reachable
  <2>4. /\ clients'.pg_dump = RecommendedMajor(servers)
        /\ clients'.pg_restore = RecommendedMajor(servers)
        /\ servers' = servers
    BY <2>1, <2>3 DEF Install, Tools, Repair
  <2>5. servers.source \in Nat /\ servers.target \in Nat
    BY <1>1, PreflightAssumption DEF Inv, TypeOK
  <2> QED
    BY <2>4, <2>5 DEF DumpFits, RestoreFitsTarget, RestoreFitsDump, RecommendedMajor
<1>2. Inv /\ [Next]_vars =>
        [named # 0 /\ clients' # clients =>
           DumpFits' /\ RestoreFitsTarget' /\ RestoreFitsDump']_vars
  BY <1>1
<1> QED
  BY <1>2, Invariance, PTL DEF Spec, NamedMajorFits

=============================================================================
