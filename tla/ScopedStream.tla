---------------------------- MODULE ScopedStream ----------------------------
(***************************************************************************)
(* An online migration of some of the source's tables: the publication     *)
(* that is made for them (preflight.rs), the subscription on it, the       *)
(* statistics (analyze.rs) and the sequences (sequences.rs), while the     *)
(* source is written and tables come and go.  OnlineMigration.tla has the  *)
(* same pipeline with one object, and with its crashes; here a run goes    *)
(* through once and what matters is which tables each stage works on.      *)
(* Every table has one sequence, of its schema, which an insert advances.  *)
(* The subscription catches up before the cutover.                         *)
(***************************************************************************)
EXTENDS Configuration, Sequences, FiniteSets

CONSTANTS
  ScopeOptions,  \* the tables, schemas and exclusions that runs are given
  Lasting,       \* tables that exist throughout
  Denied,        \* tables and sequences that the target's role may not change
  MaxWrites,     \* bound: inserts
  MaxDDL         \* bound: tables created or dropped

VARIABLES
  pc,         \* the run's next step
  cfg,        \* its scope options
  catalog,    \* the source's tables
  rows,       \* the rows of a table on the source, and its sequence's value
  publication,\* the publication on the source, or None
  auto,       \* whether this run created it
  listed,     \* the tables the run found for it
  known,      \* the source's tables when it was created
  snapshot,   \* the tables and the rows of the slot's snapshot
  wal,        \* inserts since: their tables, and whether they are published
  applied,    \* how many of them the subscription has taken
  subscribed, \* the tables of the subscription
  culprit,    \* the published table that the target does not have, or None
  target,     \* the rows of a table on the target, None if there is no table
  sequence,   \* the value of its sequence on the target
  analyzed,   \* the target's tables with statistics
  todo,       \* tables to analyze, or sequences to set one by one
  collected,  \* the source's sequences as they were read, None if not advanced
  synced,     \* sequences set by this run
  count,      \* the number it reports
  ddl         \* tables created or dropped

sourceVars == <<catalog, rows, ddl>>
pubVars    == <<publication, auto, listed, known>>
streamVars == <<snapshot, wal, applied, subscribed, culprit>>
syncVars   == <<collected, synced, count>>
vars == <<pc, cfg, sourceVars, pubVars, streamVars, target, sequence, analyzed, todo, syncVars>>

Scope == [tables : SUBSET Tables, schemas : SUBSET Schemas,
          excludeTables : SUBSET Tables, excludeSchemas : SUBSET Schemas]

Includes(c)   == c.tables \cup c.schemas
Exclusions(c) == c.excludeTables \cup c.excludeSchemas

ASSUME ScopeAssumption ==
  /\ ScopeOptions \subseteq Scope
  /\ IsFiniteSet(Tables) /\ Lasting \subseteq Tables /\ Denied \subseteq Tables
  /\ {MaxWrites, MaxDDL} \subseteq Nat

(* The code accepts scopes in which the publication and pg_dump differ: an *)
(* excluded table of an included schema, which is published with it; an    *)
(* included table of an excluded schema; both kinds of inclusion, in which *)
(* pg_dump ignores the schemas; none of the tables, which is then all of   *)
(* them for the publication.  The properties below are about the others.   *)
ScopesAgree ==
  \A c \in ScopeOptions :
    /\ c.tables = {} \/ c.schemas = {}
    /\ \A t \in c.excludeTables : SchemaOf[t] \notin c.schemas
    /\ Dumped(c, Lasting) # {}
    /\ \A t \in c.tables : SchemaOf[t] \notin c.excludeSchemas

-----------------------------------------------------------------------------
(* The publication.                                                        *)

EveryTable == [all |-> TRUE, tables |-> {}, schemas |-> {}]

(* Slip: without a list, no table is published. *)
CreatePublicationListed(tables, schemas) == [all |-> FALSE, tables |-> tables, schemas |-> schemas]

(* build_create_publication_sql *)
CreatePublication(tables, schemas) ==
  IF tables = {} /\ schemas = {} THEN EveryTable
  ELSE [all |-> FALSE, tables |-> tables, schemas |-> schemas]

Publishes(p, t) == p.all \/ t \in p.tables \/ SchemaOf[t] \in p.schemas

(* Slip: exclusions are only subtracted from what is included. *)
EffectiveScopeAll(found) ==
  CreatePublication(FilterByExclusions(cfg.tables, cfg), cfg.schemas \ cfg.excludeSchemas)

(* ensure_publication_exists: the source's tables are listed if there are  *)
(* only exclusions.                                                        *)
EffectiveScope(found) ==
  IF Exclusions(cfg) # {} /\ Includes(cfg) = {}
  THEN CreatePublication(FilterByExclusions(found, cfg), {})
  ELSE CreatePublication(FilterByExclusions(cfg.tables, cfg), cfg.schemas \ cfg.excludeSchemas)

-----------------------------------------------------------------------------

Steps == {"ensure", "list", "create", "slot", "restore", "analyze", "analyzing",
          "subscribe", "stream", "collect", "sync", "fallback", "done", "failed"}

Publication == [all : BOOLEAN, tables : SUBSET Tables, schemas : SUBSET Schemas]
Rows        == 0 .. MaxWrites

(* Every variable has its type. *)
TypeOK ==
  /\ pc \in Steps /\ cfg \in ScopeOptions
  /\ catalog \subseteq Tables /\ rows \in [Tables -> Rows] /\ ddl \in 0 .. MaxDDL
  /\ publication \in Publication \cup {None} /\ auto \in BOOLEAN
  /\ listed \subseteq Tables /\ known \subseteq Tables
  /\ snapshot \in [tables : SUBSET Tables, rows : [Tables -> Rows]]
  /\ wal \in Seq([table : Tables, published : BOOLEAN]) /\ applied \in 0 .. Len(wal)
  /\ subscribed \subseteq Tables /\ culprit \in Tables \cup {None}
  /\ target \in [Tables -> Rows \cup {None}] /\ sequence \in [Tables -> Rows]
  /\ analyzed \subseteq Tables /\ todo \subseteq Tables
  /\ collected \in [Tables -> Rows \cup {None}]
  /\ synced \subseteq Tables /\ count \in 0 .. Cardinality(Tables)

Init ==
  /\ pc = "ensure" /\ cfg \in ScopeOptions
  /\ catalog \in {Lasting, Tables} /\ rows = [t \in Tables |-> 0] /\ ddl = 0
  /\ publication \in {None, EveryTable} /\ auto = FALSE /\ listed = {} /\ known = {}
  /\ snapshot = [tables |-> {}, rows |-> rows]
  /\ wal = <<>> /\ applied = 0 /\ subscribed = {} /\ culprit = None
  /\ target = [t \in Tables |-> None] /\ sequence = [t \in Tables |-> 0]
  /\ analyzed = {} /\ todo = {}
  /\ collected = [t \in Tables |-> None] /\ synced = {} /\ count = 0

Goto(step) == pc' = step /\ UNCHANGED cfg

-----------------------------------------------------------------------------
(* The source.                                                             *)

Restored == {t \in Tables : target[t] # None}

(* What the source does once the sequences were read is of no effect. *)
Open == pc \notin {"sync", "fallback", "done", "failed"}

SlotExists == pc \notin {"ensure", "list", "create", "slot"}

(* A transaction inserts a row. *)
Insert(t) ==
  /\ Open /\ t \in catalog
  /\ rows[t] < MaxWrites
  /\ rows' = [rows EXCEPT ![t] = @ + 1]
  /\ wal' = IF SlotExists
            THEN Append(wal, [table |-> t, published |-> Publishes(publication, t)])
            ELSE wal
  /\ UNCHANGED <<pc, cfg, catalog, ddl, pubVars, snapshot, applied, subscribed, culprit,
                 target, sequence, analyzed, todo, syncVars>>

(* A table is created, or dropped; none comes back under its name. *)
DefineTable(t) ==
  /\ Open /\ ddl < MaxDDL /\ t \notin Lasting
  /\ catalog' = IF t \in catalog THEN catalog \ {t} ELSE catalog \cup {t}
  /\ t \notin catalog => t \notin known \cup snapshot.tables /\ rows[t] = 0
  /\ ddl' = ddl + 1
  /\ UNCHANGED <<pc, cfg, rows, pubVars, streamVars, target, sequence, analyzed, todo, syncVars>>

-----------------------------------------------------------------------------
(* The run.                                                                *)

EnsurePublication ==
  /\ pc = "ensure"
  /\ Goto(IF publication # None THEN "slot"
          ELSE IF Exclusions(cfg) # {} /\ Includes(cfg) = {} THEN "list" ELSE "create")
  /\ known' = catalog
  /\ UNCHANGED <<sourceVars, publication, auto, listed, streamVars, target, sequence,
                 analyzed, todo, syncVars>>

(* fetch_published_tables *)
FetchTables ==
  /\ pc = "list" /\ Goto("create")
  /\ listed' = catalog /\ known' = catalog
  /\ UNCHANGED <<sourceVars, publication, auto, streamVars, target, sequence, analyzed,
                 todo, syncVars>>

(* The statement fails if a table it names has gone. *)
CreateOnSource ==
  /\ pc = "create"
  /\ LET p == EffectiveScope(listed) IN
     \/ p.tables \subseteq catalog /\ Goto("slot") /\ publication' = p /\ auto' = TRUE
     \/ ~(p.tables \subseteq catalog) /\ Goto("failed") /\ UNCHANGED <<publication, auto>>
  /\ UNCHANGED <<sourceVars, listed, known, streamVars, target, sequence, analyzed, todo,
                 syncVars>>

(* prepare_replication_slot *)
PrepareSlot ==
  /\ pc = "slot" /\ Goto("restore")
  /\ snapshot' = [tables |-> catalog, rows |-> rows]
  /\ UNCHANGED <<sourceVars, pubVars, wal, applied, subscribed, culprit, target, sequence,
                 analyzed, todo, syncVars>>

(* pg_dump takes the rows from the snapshot, and a sequence's value as it  *)
(* is; pg_restore loads them.  A dropped table cannot be locked.           *)
DumpAndRestore ==
  /\ pc = "restore"
  /\ LET tables == Dumped(cfg, snapshot.tables) IN
     \/ /\ tables \subseteq catalog
        /\ target' = [t \in Tables |-> IF t \in tables THEN snapshot.rows[t] ELSE None]
        /\ sequence' = [t \in Tables |-> IF t \in tables THEN rows[t] ELSE 0]
        /\ Goto("analyze")
     \/ /\ ~(tables \subseteq catalog)
        /\ Goto("failed") /\ UNCHANGED <<target, sequence>>
  /\ UNCHANGED <<sourceVars, pubVars, streamVars, analyzed, todo, syncVars>>

(* run_target_analyze: the database in one statement, or the tables of the *)
(* schemas one by one.                                                     *)
Analyze ==
  /\ pc = "analyze"
  /\ IF cfg.schemas = {}
     THEN Goto("subscribe") /\ analyzed' = Restored \ Denied /\ UNCHANGED todo
     ELSE /\ Goto("analyzing") /\ UNCHANGED analyzed
          /\ todo' = {t \in Restored : SchemaOf[t] \in cfg.schemas}
  /\ UNCHANGED <<sourceVars, pubVars, streamVars, target, sequence, syncVars>>

(* run_per_table: a failure is logged. *)
AnalyzeTable(t) ==
  /\ pc = "analyzing" /\ t \in todo /\ UNCHANGED <<pc, cfg>>
  /\ todo' = todo \ {t}
  /\ analyzed' = analyzed \cup ({t} \ Denied)
  /\ UNCHANGED <<sourceVars, pubVars, streamVars, target, sequence, syncVars>>

EndAnalyze ==
  /\ pc = "analyzing" /\ todo = {} /\ Goto("subscribe")
  /\ UNCHANGED <<sourceVars, pubVars, streamVars, target, sequence, analyzed, todo, syncVars>>

Published == {t \in catalog : Publishes(publication, t)}

(* External: CREATE SUBSCRIPTION reads the published tables and refuses    *)
(* one that the target does not have.                                      *)
Subscribe ==
  /\ pc = "subscribe"
  /\ \/ Published \subseteq Restored /\ subscribed' = Published /\ Goto("stream")
        /\ UNCHANGED culprit
     \/ \E t \in Published \ Restored : culprit' = t /\ Goto("failed") /\ UNCHANGED subscribed
  /\ UNCHANGED <<sourceVars, pubVars, snapshot, wal, applied, target, sequence, analyzed,
                 todo, syncVars>>

(* External: the apply worker takes the next insert.  It stops at one into *)
(* a table that the target does not have, and passes over one that is not  *)
(* published or whose table the subscription does not know.                *)
Apply ==
  /\ pc = "stream" /\ applied < Len(wal)
  /\ LET next == wal[applied + 1] IN
     \/ /\ next.published /\ target[next.table] = None
        /\ culprit' = next.table /\ Goto("failed") /\ UNCHANGED <<applied, target>>
     \/ /\ ~next.published \/ (next.table \in Restored \ subscribed)
        /\ applied' = applied + 1 /\ UNCHANGED <<pc, cfg, culprit, target>>
     \/ /\ next.published /\ next.table \in Restored \cap subscribed
        /\ applied' = applied + 1
        /\ target' = [target EXCEPT ![next.table] = @ + 1]
        /\ UNCHANGED <<pc, cfg, culprit>>
  /\ UNCHANGED <<sourceVars, pubVars, snapshot, wal, subscribed, sequence, analyzed, todo,
                 syncVars>>

(* The subscription has caught up, is torn down, and the sync begins. *)
Cutover ==
  /\ pc = "stream" /\ applied = Len(wal) /\ Goto("collect")
  /\ UNCHANGED <<sourceVars, pubVars, streamVars, target, sequence, analyzed, todo, syncVars>>

-----------------------------------------------------------------------------
(* sync_sequences.                                                         *)

(* Slip: the names of the tables are taken for those of schemas too. *)
InFilterTables(t) == Includes(cfg) = {} \/ SchemaOf[t] \in Includes(cfg)

(* collect_source_sequences *)
InFilter(t) == cfg.schemas = {} \/ SchemaOf[t] \in cfg.schemas

Collect ==
  /\ pc = "collect" /\ Goto("sync")
  /\ collected' = [t \in Tables |->
       IF t \in catalog /\ InFilter(t) /\ rows[t] # 0 THEN rows[t] ELSE None]
  /\ UNCHANGED <<sourceVars, pubVars, streamVars, target, sequence, analyzed, todo, synced,
                 count>>

Actionable == {t \in Tables : collected[t] # None}
Settable   == {t \in Actionable : t \in Restored \ Denied}

SetSequences(which) ==
  /\ sequence' = [t \in Tables |-> IF t \in which THEN collected[t] ELSE sequence[t]]
  /\ synced' = synced \cup which

(* Slip: a batch that fails ends the sync. *)
BatchFailsEnds ==
  /\ pc = "sync" /\ Cardinality(Actionable) > 1 /\ Goto("done")
  /\ UNCHANGED <<sourceVars, pubVars, streamVars, target, sequence, analyzed, todo, syncVars>>

(* The fallback has every sequence to set. *)
BatchFails ==
  /\ pc = "sync" /\ Cardinality(Actionable) > 1 /\ Goto("fallback")
  /\ todo' = Actionable
  /\ UNCHANGED <<sourceVars, pubVars, streamVars, target, sequence, analyzed, syncVars>>

(* apply_batch: each setval in its own block; apply_single if there is one.*)
ApplyBatch ==
  /\ pc = "sync" /\ Goto("done")
  /\ SetSequences(Settable) /\ count' = Cardinality(Settable)
  /\ UNCHANGED <<sourceVars, pubVars, streamVars, target, analyzed, todo, collected>>

(* The block took effect, but its count could not be read. *)
BatchUncounted ==
  /\ pc = "sync" /\ Cardinality(Actionable) > 1 /\ Goto("fallback")
  /\ SetSequences(Settable)
  /\ todo' = Actionable
  /\ UNCHANGED <<sourceVars, pubVars, streamVars, target, analyzed, collected, count>>

(* Slip: a sequence that failed is counted. *)
ApplyOneCounted(t) ==
  /\ pc = "fallback" /\ t \in todo /\ UNCHANGED <<pc, cfg>>
  /\ todo' = todo \ {t}
  /\ SetSequences({t} \cap Settable) /\ count' = count + 1
  /\ UNCHANGED <<sourceVars, pubVars, streamVars, target, analyzed, collected>>

(* apply_individually *)
ApplyOne(t) ==
  /\ pc = "fallback" /\ t \in todo /\ UNCHANGED <<pc, cfg>>
  /\ todo' = todo \ {t}
  /\ SetSequences({t} \cap Settable)
  /\ count' = IF t \in Settable THEN count + 1 ELSE count
  /\ UNCHANGED <<sourceVars, pubVars, streamVars, target, analyzed, collected>>

EndFallback ==
  /\ pc = "fallback" /\ todo = {} /\ Goto("done")
  /\ UNCHANGED <<sourceVars, pubVars, streamVars, target, sequence, analyzed, todo, syncVars>>

SyncSequences ==
  Collect \/ ApplyBatch \/ BatchFails \/ BatchUncounted \/ EndFallback \/ \E t \in Tables : ApplyOne(t)

Next ==
  \/ \E t \in Tables : Insert(t) \/ DefineTable(t) \/ AnalyzeTable(t)
  \/ EnsurePublication \/ FetchTables \/ CreateOnSource \/ PrepareSlot
  \/ DumpAndRestore \/ Analyze \/ EndAnalyze \/ Subscribe \/ Apply \/ Cutover
  \/ SyncSequences

Spec == Init /\ [][Next]_vars

-----------------------------------------------------------------------------
(* Properties.                                                             *)

(* With a publication that the run made, no table that existed when the    *)
(* snapshot was taken stops the subscription: not one that is excluded, as *)
(* ensure_publication_exists promises, nor one that is not selected.  As   *)
(* the properties below, for the scopes of ScopesAgree.                    *)
OnlyNewTablesStop == auto /\ culprit # None => culprit \notin snapshot.tables

(* The inserts into a copied table that the subscription has yet to take. *)
Pending(t) == Cardinality({i \in applied + 1 .. Len(wal) : wal[i].table = t})

(* No insert into a copied table is lost on the way, be it before or after *)
(* the slot, except for a table that was created after the publication was *)
(* made for the tables that were there (ensure_publication_exists,         *)
(* fetch_published_tables, build_create_publication_sql).                  *)
CopiedTablesStream ==
  \A t \in Restored \cap known \cap catalog :
    pc \in {"analyze", "analyzing", "subscribe", "stream"} => target[t] + Pending(t) = rows[t]

(* When the run is done every copied table that the role may change has    *)
(* statistics and a sequence ahead of its rows: neither the failure of one  *)
(* of them nor the way the values are applied costs another table its own   *)
(* (run_per_table, apply_sequences_impl).                                  *)
TablesComplete ==
  pc = "done" =>
    \A t \in (Restored \cap catalog) \ Denied : t \in analyzed /\ sequence[t] >= target[t]

(* The number of sequences that is reported is the number that were set. *)
CountTruthful == pc = "done" => count = Cardinality(synced)

=============================================================================
