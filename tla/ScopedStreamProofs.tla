-------------------------- MODULE ScopedStreamProofs --------------------------
(***************************************************************************)
(* Proofs about ScopedStream.tla, for every finite set of tables, every    *)
(* set of scopes with ScopesAgree and every number of inserts and of       *)
(* tables created and dropped: the tables that are copied are the ones     *)
(* that are published, streamed, analyzed and whose sequences are set.     *)
(***************************************************************************)
EXTENDS ScopedStream, FiniteSetTheorems, TLAPS

-----------------------------------------------------------------------------
(* Inserts that are pending.                                               *)

Change == [table : Tables, published : BOOLEAN]

PendingAt(w, a, t) == {i \in a + 1 .. Len(w) : w[i].table = t}

(* The changes that a table has yet to take can be counted.                *)
LEMMA PendingFinite ==
  ASSUME NEW w \in Seq(Change), NEW a \in Nat, NEW t
  PROVE  /\ IsFiniteSet(PendingAt(w, a, t))
         /\ Cardinality(PendingAt(w, a, t)) \in Nat
<1>1. IsFiniteSet(a + 1 .. Len(w))
  BY FS_Interval
<1>2. IsFiniteSet(PendingAt(w, a, t))
  BY <1>1, FS_Subset DEF PendingAt
<1> QED
  BY <1>2, FS_CardinalityType

(* A change at the end of the WAL is pending for its own table only.       *)
LEMMA PendingAppend ==
  ASSUME NEW w \in Seq(Change), NEW a \in 0 .. Len(w), NEW e \in Change, NEW t
  PROVE  Cardinality(PendingAt(Append(w, e), a, t)) =
           Cardinality(PendingAt(w, a, t)) + (IF e.table = t THEN 1 ELSE 0)
<1> DEFINE n == Len(w) + 1
<1>1. Len(Append(w, e)) = n /\ Append(w, e)[n] = e /\ \A i \in 1 .. Len(w) : Append(w, e)[i] = w[i]
  OBVIOUS
<1>2. n \notin PendingAt(w, a, t)
  BY DEF PendingAt
<1>3. IsFiniteSet(PendingAt(w, a, t)) /\ Cardinality(PendingAt(w, a, t)) \in Nat
  BY PendingFinite
<1>4. CASE e.table = t
  <2>1. PendingAt(Append(w, e), a, t) = PendingAt(w, a, t) \cup {n}
    BY <1>1, <1>4 DEF PendingAt
  <2> QED
    BY <1>2, <1>3, <1>4, <2>1, FS_AddElement
<1>5. CASE e.table # t
  <2>1. PendingAt(Append(w, e), a, t) = PendingAt(w, a, t)
    BY <1>1, <1>5 DEF PendingAt
  <2> QED
    BY <1>3, <1>5, <2>1
<1> QED
  BY <1>4, <1>5

(* The change that is applied next was pending for its own table only.     *)
LEMMA PendingTake ==
  ASSUME NEW w \in Seq(Change), NEW a \in Nat, a < Len(w), NEW t
  PROVE  Cardinality(PendingAt(w, a, t)) =
           Cardinality(PendingAt(w, a + 1, t)) + (IF w[a + 1].table = t THEN 1 ELSE 0)
<1>1. a + 1 \notin PendingAt(w, a + 1, t)
  BY DEF PendingAt
<1>2. IsFiniteSet(PendingAt(w, a + 1, t)) /\ Cardinality(PendingAt(w, a + 1, t)) \in Nat
  BY PendingFinite
<1>3. CASE w[a + 1].table = t
  <2>1. PendingAt(w, a, t) = PendingAt(w, a + 1, t) \cup {a + 1}
    BY <1>3 DEF PendingAt
  <2> QED
    BY <1>1, <1>2, <1>3, <2>1, FS_AddElement
<1>4. CASE w[a + 1].table # t
  <2>1. PendingAt(w, a, t) = PendingAt(w, a + 1, t)
    BY <1>4 DEF PendingAt
  <2> QED
    BY <1>2, <1>4, <2>1
<1> QED
  BY <1>3, <1>4

(* The model's count is the one that these lemmas are about.               *)
LEMMA PendingIs ==
  ASSUME NEW t
  PROVE  Pending(t) = Cardinality(PendingAt(wal, applied, t))
  BY DEF Pending, PendingAt

-----------------------------------------------------------------------------
(* The scope: what the publication and pg_dump make of the same options.    *)

(* What the assumption on the options says of one of them.                 *)
LEMMA ScopeFacts ==
  ASSUME ScopesAgree, NEW c \in ScopeOptions
  PROVE  /\ c.tables = {} \/ c.schemas = {}
         /\ \A t \in c.excludeTables : SchemaOf[t] \notin c.schemas
         /\ Dumped(c, Lasting) # {}
         /\ \A t \in c.tables : SchemaOf[t] \notin c.excludeSchemas
  BY DEF ScopesAgree

(* A table that pg_dump copies is published, if it was there when the       *)
(* publication was made.                                                   *)
LEMMA DumpedArePublished ==
  ASSUME ScopesAgree, cfg \in ScopeOptions, NEW found, NEW t \in Dumped(cfg, found)
  PROVE  Publishes(EffectiveScope(found), t)
<1>1. /\ cfg.tables = {} \/ cfg.schemas = {}
      /\ \A u \in cfg.tables : SchemaOf[u] \notin cfg.excludeSchemas
  BY ScopeFacts
<1>2. CASE Exclusions(cfg) # {} /\ Includes(cfg) = {}
  <2>1. t \in FilterByExclusions(found, cfg)
    BY <1>2 DEF Dumped, FilterByExclusions, Includes
  <2> QED
    BY <1>2, <2>1 DEF EffectiveScope, CreatePublication, Publishes, EveryTable
<1>3. CASE ~(Exclusions(cfg) # {} /\ Includes(cfg) = {})
  <2>1. EffectiveScope(found) =
          CreatePublication(FilterByExclusions(cfg.tables, cfg), cfg.schemas \ cfg.excludeSchemas)
    BY <1>3 DEF EffectiveScope
  <2>2. CASE cfg.tables # {}
    <3>1. t \in FilterByExclusions(cfg.tables, cfg)
      BY <1>1, <2>2 DEF Dumped, FilterByExclusions
    <3> QED
      BY <2>1, <3>1 DEF CreatePublication, Publishes
  <2>3. CASE cfg.tables = {} /\ cfg.schemas # {}
    <3>1. SchemaOf[t] \in cfg.schemas \ cfg.excludeSchemas
      BY <2>3 DEF Dumped, FilterByExclusions
    <3> QED
      BY <2>1, <3>1 DEF CreatePublication, Publishes
  <2>4. CASE cfg.tables = {} /\ cfg.schemas = {}
    <3>1. FilterByExclusions(cfg.tables, cfg) = {} /\ cfg.schemas \ cfg.excludeSchemas = {}
      BY <2>4 DEF FilterByExclusions
    <3> QED
      BY <2>1, <3>1 DEF CreatePublication, Publishes, EveryTable
  <2> QED
    BY <2>2, <2>3, <2>4
<1> QED
  BY <1>2, <1>3

(* A table that the run publishes is copied, if it is in the snapshot.      *)
LEMMA PublishedAreDumped ==
  ASSUME ScopesAgree, cfg \in ScopeOptions, NEW found, Lasting \subseteq found,
         NEW tables, NEW t \in tables, Publishes(EffectiveScope(found), t)
  PROVE  t \in Dumped(cfg, tables)
<1>1. /\ cfg.tables = {} \/ cfg.schemas = {}
      /\ \A u \in cfg.excludeTables : SchemaOf[u] \notin cfg.schemas
      /\ Dumped(cfg, Lasting) # {}
      /\ \A u \in cfg.tables : SchemaOf[u] \notin cfg.excludeSchemas
  BY ScopeFacts
<1> PICK l \in Dumped(cfg, Lasting) : TRUE
  BY <1>1
<1>2. CASE Exclusions(cfg) # {} /\ Includes(cfg) = {}
  <2>1. l \in FilterByExclusions(found, cfg)
    BY <1>2 DEF Dumped, FilterByExclusions, Includes
  <2>2. t \in FilterByExclusions(found, cfg)
    BY <1>2, <2>1 DEF EffectiveScope, CreatePublication, Publishes
  <2> QED
    BY <1>2, <2>2 DEF Dumped, FilterByExclusions, Includes
<1>3. CASE ~(Exclusions(cfg) # {} /\ Includes(cfg) = {})
  <2>1. EffectiveScope(found) =
          CreatePublication(FilterByExclusions(cfg.tables, cfg), cfg.schemas \ cfg.excludeSchemas)
    BY <1>3 DEF EffectiveScope
  <2>2. CASE cfg.tables # {}
    <3>1. l \in FilterByExclusions(cfg.tables, cfg)
      BY <1>1, <2>2 DEF Dumped, FilterByExclusions
    <3>2. t \in FilterByExclusions(cfg.tables, cfg)
      BY <1>1, <2>1, <2>2, <3>1 DEF CreatePublication, Publishes
    <3> QED
      BY <2>2, <3>2 DEF Dumped, FilterByExclusions
  <2>3. CASE cfg.tables = {} /\ cfg.schemas # {}
    <3>1. SchemaOf[l] \in cfg.schemas \ cfg.excludeSchemas
      BY <2>3 DEF Dumped, FilterByExclusions
    <3>2. SchemaOf[t] \in cfg.schemas \ cfg.excludeSchemas
      BY <2>1, <2>3, <3>1 DEF CreatePublication, Publishes, FilterByExclusions
    <3> QED
      BY <1>1, <2>3, <3>2 DEF Dumped, FilterByExclusions
  <2>4. CASE cfg.tables = {} /\ cfg.schemas = {}
    <3>1. cfg.excludeTables = {} /\ cfg.excludeSchemas = {}
      BY <1>3, <2>4 DEF Exclusions, Includes
    <3> QED
      BY <2>4, <3>1 DEF Dumped, FilterByExclusions
  <2> QED
    BY <2>2, <2>3, <2>4
<1> QED
  BY <1>2, <1>3

-----------------------------------------------------------------------------
(* The inductive invariant.                                                *)

Lists == Exclusions(cfg) # {} /\ Includes(cfg) = {}

(* The publication is every table or the one for the tables that were known.*)
PublicationInv ==
  /\ Lasting \subseteq catalog
  /\ pc # "ensure" => Lasting \subseteq known
  /\ pc = "create" /\ Lists => listed = known
  /\ auto => publication = EffectiveScope(known)
  /\ ~auto => publication \in {None, EveryTable}
  /\ pc \in {"ensure", "list", "create"} => ~auto
  /\ pc \notin {"ensure", "list", "create", "failed"} => auto \/ publication = EveryTable
  /\ \A i \in 1 .. Len(wal) : wal[i].published = Publishes(publication, wal[i].table)

Loaded == {"analyze", "analyzing", "subscribe", "stream", "collect", "sync", "fallback", "done"}

(* What a copied table has and what it has yet to take is at most what the *)
(* source has, and all of it as long as the table can be streamed.         *)
StreamInv ==
  /\ pc \in {"ensure", "list", "create", "slot"} => wal = <<>> /\ culprit = None
  /\ pc = "restore" => \A t \in Tables : snapshot.rows[t] + Pending(t) = rows[t]
  /\ pc \in Loaded => /\ Restored = Dumped(cfg, snapshot.tables)
                      /\ \A t \in Restored : target[t] + Pending(t) <= rows[t]
  /\ pc = "stream" => Restored \cap known \cap catalog \subseteq subscribed
  /\ CopiedTablesStream
  /\ OnlyNewTablesStop

StatisticsInv ==
  /\ pc = "analyzing" => Restored \ Denied \subseteq analyzed \cup todo
  /\ pc \in Loaded \ {"analyze", "analyzing"} => Restored \ Denied \subseteq analyzed

(* A sequence that has been dealt with is set and counted once. *)
SyncInv ==
  /\ pc \notin {"fallback", "done"} => synced = {} /\ count = 0
  /\ pc \in {"sync", "fallback", "done"} =>
       \A t \in Tables :
         collected[t] = IF t \in catalog /\ InFilter(t) /\ rows[t] # 0 THEN rows[t] ELSE None
  /\ pc = "fallback" => /\ Settable \ todo \subseteq synced /\ synced \subseteq Settable
                        /\ \A t \in Settable \ todo : sequence[t] = collected[t]
                        /\ count = Cardinality(Settable \ todo)
  /\ pc = "done" => /\ \A t \in Settable : sequence[t] = collected[t]
                    /\ CountTruthful

Inv == TypeOK /\ PublicationInv /\ StreamInv /\ StatisticsInv /\ SyncInv


(* The scope that a run publishes is a publication.                        *)
LEMMA EffectiveScopeType ==
  ASSUME cfg \in ScopeOptions, NEW found \in SUBSET Tables
  PROVE  EffectiveScope(found) \in Publication
<1>1. cfg \in Scope
  BY ScopeAssumption
<1>2. /\ FilterByExclusions(found, cfg) \in SUBSET Tables
      /\ FilterByExclusions(cfg.tables, cfg) \in SUBSET Tables
      /\ cfg.schemas \ cfg.excludeSchemas \in SUBSET Schemas
  BY <1>1 DEF FilterByExclusions, Scope
<1>3. ASSUME NEW tables \in SUBSET Tables, NEW schemas \in SUBSET Schemas
      PROVE  CreatePublication(tables, schemas) \in Publication
  BY <1>3 DEF CreatePublication, EveryTable, Publication
<1> QED
  BY <1>2, <1>3 DEF EffectiveScope

(* So is FOR ALL TABLES.                                                   *)
LEMMA EveryTableType == EveryTable \in Publication
<1>1. TRUE \in BOOLEAN /\ {} \in SUBSET Tables /\ {} \in SUBSET Schemas
  OBVIOUS
<1> QED
  BY <1>1 DEF EveryTable, Publication

(* pg_dump takes tables of the catalog.                                    *)
LEMMA DumpedType ==
  ASSUME NEW c, NEW tables \in SUBSET Tables
  PROVE  Dumped(c, tables) \subseteq tables
  BY DEF Dumped, FilterByExclusions

(* There are finitely many tables, so every set of them can be counted.    *)
LEMMA TablesFinite ==
  ASSUME NEW S \in SUBSET Tables
  PROVE  IsFiniteSet(S) /\ Cardinality(S) \in 0 .. Cardinality(Tables)
<1>1. IsFiniteSet(Tables)
  BY ScopeAssumption
<1>2. IsFiniteSet(S) /\ Cardinality(S) <= Cardinality(Tables)
  BY <1>1, FS_Subset
<1> QED
  BY <1>1, <1>2, FS_CardinalityType

(* An absent table is not confused with an empty one.                      *)
LEMMA NoneIsNoRow == None \notin Rows /\ None \notin Tables /\ 0 \in Rows
  BY ConfigurationAssumption, ScopeAssumption DEF Rows

(* The invariant holds before the run.                                     *)
LEMMA InitInv == Init => Inv
<1> SUFFICES ASSUME Init PROVE Inv
  OBVIOUS
<1>1. TypeOK
  <2>1. Cardinality(Tables) \in Nat
    BY TablesFinite
  <2>2. [t \in Tables |-> None] \in [Tables -> Rows \cup {None}] /\ [t \in Tables |-> 0] \in [Tables -> Rows]
    BY NoneIsNoRow
  <2>3. catalog \subseteq Tables /\ ddl \in 0 .. MaxDDL
    BY ScopeAssumption DEF Init
  <2>4. publication \in Publication \cup {None}
    BY EveryTableType DEF Init
  <2>5. wal \in Seq([table : Tables, published : BOOLEAN]) /\ applied \in 0 .. Len(wal)
    BY DEF Init
  <2>6. auto \in BOOLEAN
    BY DEF Init
  <2> QED
    BY <2>1, <2>2, <2>3, <2>4, <2>5, <2>6 DEF Init, TypeOK, Steps
<1>2. PublicationInv
  BY ScopeAssumption DEF Init, PublicationInv
<1>3. Restored = {}
  BY DEF Init, Restored
<1>4. StreamInv
  BY <1>3 DEF Init, StreamInv, CopiedTablesStream, OnlyNewTablesStop, Loaded
<1>5. StatisticsInv
  BY DEF Init, StatisticsInv, Loaded
<1>6. SyncInv
  BY DEF Init, SyncInv
<1> QED
  BY <1>1, <1>2, <1>4, <1>5, <1>6 DEF Inv


(* The source has a row more than a table that has an insert to take. *)
LEMMA NextFits ==
  ASSUME TypeOK, StreamInv, pc = "stream", applied < Len(wal),
         NEW t \in Restored, wal[applied + 1].table = t
  PROVE  target[t] + 1 \in Rows
<1>1. target[t] + Pending(t) <= rows[t] /\ rows[t] \in Rows /\ target[t] \in Rows
  BY DEF StreamInv, Loaded, TypeOK, Restored
<1>2. wal \in Seq(Change) /\ applied \in Nat /\ applied + 1 \in Nat
  BY DEF TypeOK, Change
<1>3. Cardinality(PendingAt(wal, applied + 1, t)) \in Nat
  BY <1>2, PendingFinite
<1>4. Cardinality(PendingAt(wal, applied, t)) = Cardinality(PendingAt(wal, applied + 1, t)) + 1
  BY <1>2, PendingTake
<1>5. Pending(t) = Cardinality(PendingAt(wal, applied, t))
  BY PendingIs
<1> QED
  BY <1>1, <1>3, <1>4, <1>5, ScopeAssumption DEF Rows

(* The next insert, and one that is appended. *)
LEMMA NextTyped ==
  ASSUME wal \in Seq(Change), applied \in 0 .. Len(wal), applied < Len(wal)
  PROVE  wal[applied + 1] \in Change /\ wal[applied + 1].table \in Tables /\ applied + 1 \in 0 .. Len(wal)
<1>1. applied + 1 \in 1 .. Len(wal)
  OBVIOUS
<1>2. wal[applied + 1] \in Change
  BY <1>1
<1> QED
  BY <1>1, <1>2 DEF Change

(* A change in the WAL has the type of one.                                *)
LEMMA ChangeTyped ==
  ASSUME NEW t \in Tables, NEW p
  PROVE  [table |-> t, published |-> Publishes(p, t)] \in Change
<1>1. Publishes(p, t) \in BOOLEAN
  BY DEF Publishes
<1> QED
  BY <1>1 DEF Change

(* Every step keeps the types.                                             *)
LEMMA TypeStep ==
  ASSUME TypeOK, PublicationInv, StreamInv, SyncInv, [Next]_vars
  PROVE  TypeOK'
<1> USE DEF TypeOK, Steps, Goto, sourceVars, pubVars, streamVars, syncVars
<1>0. None \notin Rows /\ None \notin Tables /\ 0 \in Rows
  BY NoneIsNoRow
<1>1. ASSUME NEW t \in Tables, Insert(t) PROVE TypeOK'
  <2>1. rows' \in [Tables -> Rows]
    <3>1. MaxWrites \in Nat
      BY ScopeAssumption
    <3> QED
      BY <1>1, <3>1 DEF Insert, Rows
  <2> DEFINE e == [table |-> t, published |-> Publishes(publication, t)]
  <2>2. e \in Change
    BY ChangeTyped
  <2>3. wal \in Seq(Change) /\ (wal' = wal \/ wal' = Append(wal, e))
    BY <1>1 DEF Insert, Change
  <2> HIDE DEF e
  <2>4. wal' \in Seq(Change) /\ Len(wal) <= Len(wal')
    BY <2>2, <2>3
  <2> QED
    BY <1>1, <2>1, <2>3, <2>4 DEF Insert, Change
<1>2. ASSUME NEW t \in Tables, DefineTable(t) PROVE TypeOK'
  BY <1>2, ScopeAssumption DEF DefineTable
<1>3. ASSUME NEW t \in Tables, AnalyzeTable(t) PROVE TypeOK'
  BY <1>3 DEF AnalyzeTable
<1>4. CASE EnsurePublication
  BY <1>4 DEF EnsurePublication
<1>5. CASE FetchTables
  BY <1>5 DEF FetchTables
<1>6. CASE CreateOnSource
  <2>1. EffectiveScope(listed) \in Publication
    BY EffectiveScopeType
  <2> QED
    BY <1>6, <2>1 DEF CreateOnSource
<1>7. CASE PrepareSlot
  BY <1>7 DEF PrepareSlot
<1>8. CASE DumpAndRestore
  BY <1>0, <1>8 DEF DumpAndRestore
<1>9. CASE Analyze
  BY <1>9 DEF Analyze, Restored
<1>10. CASE EndAnalyze
  BY <1>10 DEF EndAnalyze
<1>11. CASE Subscribe
  BY <1>11 DEF Subscribe, Published, Restored
<1>12. CASE Apply
  <2>1. wal[applied + 1] \in Change /\ wal[applied + 1].table \in Tables /\ applied + 1 \in 0 .. Len(wal)
    BY <1>12, NextTyped DEF Apply, Change
  <2>2. ASSUME wal[applied + 1].table \in Restored
        PROVE  target[wal[applied + 1].table] + 1 \in Rows
    BY <1>12, <2>2, NextFits DEF Apply
  <2>3. target' \in [Tables -> Rows \cup {None}]
    BY <1>12, <2>1, <2>2 DEF Apply
  <2>4. applied' \in 0 .. Len(wal) /\ culprit' \in Tables \cup {None} /\ pc' \in Steps /\ cfg' = cfg
    BY <1>12, <2>1 DEF Apply
  <2>5. UNCHANGED <<sourceVars, pubVars, snapshot, wal, subscribed, sequence, analyzed, todo, syncVars>>
    BY <1>12 DEF Apply
  <2> QED
    BY <2>3, <2>4, <2>5
<1>13. CASE Cutover
  BY <1>13 DEF Cutover
<1>14. CASE SyncSequences
  <2>0. /\ Actionable \subseteq Tables /\ Settable \subseteq Tables
        /\ \A t \in Settable : collected[t] \in Rows
    BY DEF Settable, Actionable
  <2>1. ASSUME NEW which \in SUBSET Settable, SetSequences(which)
        PROVE  sequence' \in [Tables -> Rows] /\ synced' \subseteq Tables
    BY <2>0, <2>1 DEF SetSequences
  <2>2. CASE Collect
    BY <2>2 DEF Collect
  <2>3. CASE ApplyBatch
    <3>1. Cardinality(Settable) \in 0 .. Cardinality(Tables)
      BY <2>0, TablesFinite
    <3> QED
      BY <2>1, <2>3, <3>1 DEF ApplyBatch
  <2>4. CASE BatchFails
    BY <2>0, <2>4 DEF BatchFails
  <2>5. CASE BatchUncounted
    BY <2>0, <2>1, <2>5 DEF BatchUncounted
  <2>6. CASE EndFallback
    BY <2>6 DEF EndFallback
  <2>7. ASSUME NEW t \in Tables, ApplyOne(t) PROVE TypeOK'
    <3>1. sequence' \in [Tables -> Rows] /\ synced' \subseteq Tables
      BY <2>1, <2>7 DEF ApplyOne
    <3>2. count' \in 0 .. Cardinality(Tables)
      <4>1. CASE t \in Settable
        <5>1. IsFiniteSet(Settable \ todo) /\ IsFiniteSet((Settable \ todo) \cup {t})
          BY <2>0, TablesFinite
        <5>2. t \notin Settable \ todo /\ count = Cardinality(Settable \ todo)
          BY <2>7 DEF ApplyOne, SyncInv
        <5>3. Cardinality((Settable \ todo) \cup {t}) = count + 1
          BY <5>1, <5>2, FS_AddElement
        <5>4. Cardinality((Settable \ todo) \cup {t}) \in 0 .. Cardinality(Tables)
          BY <2>0, TablesFinite
        <5> QED
          BY <2>7, <4>1, <5>3, <5>4 DEF ApplyOne
      <4>2. CASE t \notin Settable
        BY <2>7, <4>2 DEF ApplyOne
      <4> QED
        BY <4>1, <4>2
    <3> QED
      BY <2>7, <3>1, <3>2 DEF ApplyOne
  <2> QED
    BY <1>14, <2>2, <2>3, <2>4, <2>5, <2>6, <2>7 DEF SyncSequences
<1>15. CASE UNCHANGED vars
  BY <1>15 DEF vars
<1> QED
  BY <1>1, <1>2, <1>3, <1>4, <1>5, <1>6, <1>7, <1>8, <1>9, <1>10, <1>11, <1>12, <1>13,
     <1>14, <1>15 DEF Next


-----------------------------------------------------------------------------
(* The publication.                                                        *)

Late == pc \notin {"ensure", "list", "create"}

(* A step of a run that has its publication, which it leaves alone. *)
LEMMA PublicationStays ==
  ASSUME PublicationInv, Late, Late', pc = "failed" => pc' = "failed",
         UNCHANGED <<cfg, catalog, pubVars, wal>>
  PROVE  PublicationInv'
<1> USE DEF Late, pubVars
<1>1. EffectiveScope(known)' = EffectiveScope(known)
  BY DEF EffectiveScope
<1> QED
  BY <1>1 DEF PublicationInv

(* Every step keeps what the publication holds.                            *)
LEMMA PublicationStep ==
  ASSUME TypeOK, PublicationInv, StreamInv, [Next]_vars
  PROVE  PublicationInv'
<1> USE DEF Goto, sourceVars, pubVars, streamVars, syncVars
<1>0. /\ pc \in Steps /\ Lasting \subseteq Tables
      /\ wal \in Seq(Change) /\ publication \in Publication \cup {None}
  BY ScopeAssumption DEF TypeOK, Change
<1>1. ASSUME NEW t \in Tables, Insert(t) PROVE PublicationInv'
  <2>1. EffectiveScope(known)' = EffectiveScope(known) /\ Lists' = Lists
    BY <1>1 DEF Insert, EffectiveScope, Lists
  <2> DEFINE e == [table |-> t, published |-> Publishes(publication, t)]
  <2>2. e \in Change /\ e.published = Publishes(publication, e.table)
    BY ChangeTyped
  <2>3. wal' = wal \/ wal' = Append(wal, e)
    BY <1>1 DEF Insert
  <2>4. \A i \in 1 .. Len(wal) : wal[i].published = Publishes(publication, wal[i].table)
    BY DEF PublicationInv
  <2> HIDE DEF e
  <2>5. \A i \in 1 .. Len(wal') : wal'[i].published = Publishes(publication, wal'[i].table)
    <3>1. CASE wal' = wal
      BY <2>4, <3>1
    <3>2. CASE wal' = Append(wal, e)
        <4>1. \A i \in 1 .. Len(wal') : (i \in 1 .. Len(wal) /\ wal'[i] = wal[i]) \/ wal'[i] = e
        BY <1>0, <2>2, <3>2
      <4> QED
        BY <2>2, <2>4, <4>1
    <3> QED
      BY <2>3, <3>1, <3>2
  <2> QED
    BY <1>1, <2>1, <2>5 DEF Insert, PublicationInv
<1>2. ASSUME NEW t \in Tables, DefineTable(t) PROVE PublicationInv'
  <2>1. EffectiveScope(known)' = EffectiveScope(known) /\ Lists' = Lists
    BY <1>2 DEF DefineTable, EffectiveScope, Lists
  <2> QED
    BY <1>2, <2>1 DEF DefineTable, PublicationInv
<1>3. CASE EnsurePublication
  <2>1. wal = <<>> /\ ~auto /\ publication \in {None, EveryTable}
    BY <1>3 DEF EnsurePublication, StreamInv, PublicationInv
  <2>2. pc' = "slot" => publication # None
    BY <1>3 DEF EnsurePublication
  <2>3. pc' = "create" => ~Lists
    BY <1>3, <2>2 DEF EnsurePublication, Lists
  <2> QED
    BY <1>3, <2>1, <2>2, <2>3, EveryTableType DEF EnsurePublication, PublicationInv, Lists
<1>4. CASE FetchTables
  BY <1>4 DEF FetchTables, PublicationInv, StreamInv
<1>5. CASE CreateOnSource
  <2>1. EffectiveScope(listed) \in Publication
    BY EffectiveScopeType DEF TypeOK
  <2>2. EffectiveScope(listed) = EffectiveScope(known)
    BY <1>5 DEF CreateOnSource, PublicationInv, EffectiveScope, Lists
  <2>3. EffectiveScope(known)' = EffectiveScope(known)
    BY <1>5 DEF CreateOnSource, EffectiveScope
  <2>4. wal = <<>> /\ ~auto /\ publication \in {None, EveryTable} /\ Lasting \subseteq known
    BY <1>5 DEF CreateOnSource, StreamInv, PublicationInv
  <2>5. CASE pc' = "slot" /\ publication' = EffectiveScope(listed) /\ auto'
    BY <1>5, <2>1, <2>2, <2>3, <2>4, <2>5 DEF CreateOnSource, PublicationInv
  <2>6. CASE pc' = "failed" /\ UNCHANGED <<publication, auto>>
    BY <1>5, <2>4, <2>6 DEF CreateOnSource, PublicationInv
  <2> QED
    BY <1>5, <2>5, <2>6 DEF CreateOnSource
<1>6. CASE Apply \/ Subscribe \/ Cutover \/ PrepareSlot \/ DumpAndRestore \/ Analyze \/ EndAnalyze
  <2>1. Late /\ Late' /\ pc # "failed" /\ UNCHANGED <<cfg, catalog, pubVars, wal>>
    BY <1>6 DEF Apply, Subscribe, Cutover, PrepareSlot, DumpAndRestore, Analyze, EndAnalyze, Late
  <2> QED
    BY <2>1, PublicationStays
<1>7. ASSUME SyncSequences \/ \E t \in Tables : AnalyzeTable(t)
      PROVE  PublicationInv'
  <2>1. Late /\ Late' /\ pc # "failed" /\ UNCHANGED <<cfg, catalog, pubVars, wal>>
    BY <1>7 DEF SyncSequences, Collect, ApplyBatch, BatchFails, BatchUncounted, EndFallback,
                ApplyOne, AnalyzeTable, Late
  <2> QED
    BY <2>1, PublicationStays
<1>8. CASE UNCHANGED vars
  <2>1. EffectiveScope(known)' = EffectiveScope(known) /\ Lists' = Lists
    BY <1>8 DEF vars, EffectiveScope, Lists
  <2> QED
    BY <1>8, <2>1 DEF vars, PublicationInv
<1> QED
  BY <1>1, <1>2, <1>3, <1>4, <1>5, <1>6, <1>7, <1>8 DEF Next

-----------------------------------------------------------------------------
(* Statistics.                                                             *)

(* Every step keeps track of the tables that are analyzed.                 *)
LEMMA StatisticsStep ==
  ASSUME ScopesAgree, TypeOK, StreamInv, StatisticsInv, [Next]_vars
  PROVE  StatisticsInv'
<1> USE DEF Goto, sourceVars, pubVars, streamVars, syncVars, Loaded
<1>1. ASSUME NEW t \in Tables, Insert(t) \/ DefineTable(t) PROVE StatisticsInv'
  BY <1>1 DEF Insert, DefineTable, StatisticsInv, Restored
<1>2. ASSUME NEW t \in Tables, AnalyzeTable(t) PROVE StatisticsInv'
  <2>1. Restored' = Restored
    BY <1>2 DEF AnalyzeTable, Restored
  <2> QED
    BY <1>2, <2>1 DEF AnalyzeTable, StatisticsInv
<1>3. CASE EnsurePublication \/ FetchTables \/ CreateOnSource \/ PrepareSlot \/ DumpAndRestore
  BY <1>3 DEF EnsurePublication, FetchTables, CreateOnSource, PrepareSlot, DumpAndRestore, StatisticsInv
<1>4. CASE Analyze
  <2>1. Restored' = Restored
    BY <1>4 DEF Analyze, Restored
  <2>2. CASE cfg.schemas = {}
    BY <1>4, <2>1, <2>2 DEF Analyze, StatisticsInv
  <2>3. CASE cfg.schemas # {}
    <3>1. cfg.tables = {}
      BY <2>3, ScopeFacts DEF TypeOK
    <3>2. Restored = Dumped(cfg, snapshot.tables)
      BY <1>4 DEF Analyze, StreamInv
    <3>3. \A t \in Restored : SchemaOf[t] \in cfg.schemas
      BY <2>3, <3>1, <3>2 DEF Dumped, FilterByExclusions
    <3> QED
      BY <1>4, <2>1, <2>3, <3>3 DEF Analyze, StatisticsInv
  <2> QED
    BY <2>2, <2>3
<1>5. CASE EndAnalyze \/ Subscribe \/ Cutover
  <2>1. Restored' = Restored
    BY <1>5 DEF EndAnalyze, Subscribe, Cutover, Restored
  <2> QED
    BY <1>5, <2>1 DEF EndAnalyze, Subscribe, Cutover, StatisticsInv
<1>6. CASE Apply
  <2>1. Restored' \subseteq Restored /\ pc = "stream" /\ analyzed' = analyzed /\ pc' \in {"stream", "failed"}
    <3>1. wal[applied + 1].table \in Tables
      BY <1>6, NextTyped DEF Apply, TypeOK, Change
    <3> QED
      BY <1>6, <3>1 DEF Apply, Restored, TypeOK
  <2> QED
    BY <2>1 DEF StatisticsInv
<1>7. CASE SyncSequences
  <2>1. Restored' = Restored /\ analyzed' = analyzed
    BY <1>7 DEF SyncSequences, Collect, ApplyBatch, BatchFails, BatchUncounted, EndFallback,
                ApplyOne, Restored
  <2>2. pc \in Loaded \ {"analyze", "analyzing"} /\ pc' # "analyzing"
    BY <1>7 DEF SyncSequences, Collect, ApplyBatch, BatchFails, BatchUncounted, EndFallback, ApplyOne
  <2> QED
    BY <2>1, <2>2 DEF StatisticsInv
<1>8. CASE UNCHANGED vars
  BY <1>8 DEF vars, StatisticsInv, Restored
<1> QED
  BY <1>1, <1>2, <1>3, <1>4, <1>5, <1>6, <1>7, <1>8 DEF Next


-----------------------------------------------------------------------------
(* Sequences.                                                              *)

Synced == pc \in {"sync", "fallback", "done"}

(* A step of the sync that leaves its tables and what it collected alone. *)
LEMMA SettableStays ==
  ASSUME UNCHANGED <<collected, target>>
  PROVE  Settable' = Settable /\ Actionable' = Actionable
  BY DEF Settable, Actionable, Restored

(* Every step keeps the count of the sequences that are set.               *)
LEMMA SyncStep ==
  ASSUME TypeOK, SyncInv, [Next]_vars
  PROVE  SyncInv'
<1> USE DEF Goto, sourceVars, pubVars, streamVars, syncVars
<1>1. ASSUME ~Synced, ~Synced', UNCHANGED <<synced, count>>
      PROVE  SyncInv'
  BY <1>1 DEF SyncInv, Synced
<1>2. ASSUME NEW t \in Tables, Insert(t) \/ DefineTable(t) \/ AnalyzeTable(t) PROVE SyncInv'
  BY <1>1, <1>2 DEF Insert, DefineTable, AnalyzeTable, Open, Synced
<1>3. CASE \/ EnsurePublication \/ FetchTables \/ CreateOnSource \/ PrepareSlot \/ DumpAndRestore
           \/ Analyze \/ EndAnalyze \/ Subscribe \/ Apply \/ Cutover
  BY <1>1, <1>3 DEF EnsurePublication, FetchTables, CreateOnSource, PrepareSlot, DumpAndRestore,
                    Analyze, EndAnalyze, Subscribe, Apply, Cutover, Synced
<1>4. CASE SyncSequences
  <2>0. Settable \subseteq Actionable /\ IsFiniteSet(Settable)
    BY TablesFinite DEF Settable, Actionable
  <2>1. CASE Collect
    BY <2>1 DEF Collect, SyncInv, InFilter
  <2>2. ASSUME pc \in {"sync", "fallback"}, UNCHANGED <<cfg, catalog, rows, collected>>
        PROVE  (\A t \in Tables :
                  collected[t] = IF t \in catalog /\ InFilter(t) /\ rows[t] # 0 THEN rows[t] ELSE None)'
    BY <2>2 DEF SyncInv, InFilter
  <2>3. CASE ApplyBatch
    <3>1. Settable' = Settable
      BY <2>3, SettableStays DEF ApplyBatch
    <3>2. synced' = Settable /\ count' = Cardinality(Settable)
      BY <2>3 DEF ApplyBatch, SyncInv, SetSequences
    <3>3. \A t \in Settable : sequence'[t] = collected'[t]
      BY <2>3 DEF ApplyBatch, SetSequences, Settable, Actionable
    <3> QED
      BY <2>2, <2>3, <3>1, <3>2, <3>3 DEF ApplyBatch, SyncInv, CountTruthful
  <2>4. CASE BatchFails \/ BatchUncounted
    <3>1. Settable' = Settable
      BY <2>4, SettableStays DEF BatchFails, BatchUncounted
    <3>2. Settable \ todo' = {}
      BY <2>0, <2>4 DEF BatchFails, BatchUncounted
    <3>3. Cardinality({}) = 0
      BY FS_EmptySet
    <3>4. synced' \subseteq Settable /\ count' = 0
      BY <2>4 DEF BatchFails, BatchUncounted, SyncInv, SetSequences
    <3> QED
      BY <2>2, <2>4, <3>1, <3>2, <3>3, <3>4 DEF BatchFails, BatchUncounted, SyncInv
  <2>5. ASSUME NEW t \in Tables, ApplyOne(t) PROVE SyncInv'
    <3>1. Settable' = Settable
      BY <2>5, SettableStays DEF ApplyOne
    <3>2. Settable \ todo' = (Settable \ todo) \cup ({t} \cap Settable) /\ t \notin Settable \ todo
      BY <2>5 DEF ApplyOne
    <3>3. synced' = synced \cup ({t} \cap Settable)
      BY <2>5 DEF ApplyOne, SetSequences
    <3>4. \A u \in Settable \ todo' : sequence'[u] = collected'[u]
      BY <2>5, <3>2 DEF ApplyOne, SetSequences, SyncInv, Settable, Actionable
    <3>5. count' = Cardinality(Settable \ todo')
      <4>1. count = Cardinality(Settable \ todo)
        BY <2>5 DEF ApplyOne, SyncInv
      <4>2. CASE t \in Settable
        <5>1. Settable \ todo' = (Settable \ todo) \cup {t} /\ IsFiniteSet(Settable \ todo)
          BY <2>0, <3>2, <4>2, FS_Difference
        <5> QED
          BY <2>5, <3>2, <4>1, <4>2, <5>1, FS_AddElement DEF ApplyOne
      <4>3. CASE t \notin Settable
        <5>1. Settable \ todo' = Settable \ todo
          BY <3>2, <4>3
        <5> QED
          BY <2>5, <4>1, <4>3, <5>1 DEF ApplyOne
      <4> QED
        BY <4>2, <4>3
    <3>6. Settable \ todo \subseteq synced /\ synced \subseteq Settable
      BY <2>5 DEF ApplyOne, SyncInv
    <3> QED
      BY <2>2, <2>5, <3>1, <3>2, <3>3, <3>4, <3>5, <3>6 DEF ApplyOne, SyncInv
  <2>6. CASE EndFallback
    <3>1. Settable' = Settable
      BY <2>6, SettableStays DEF EndFallback
    <3>2. Settable \ todo = Settable /\ synced = Settable
      BY <2>6 DEF EndFallback, SyncInv
    <3> QED
      BY <2>2, <2>6, <3>1, <3>2 DEF EndFallback, SyncInv, CountTruthful
  <2> QED
    BY <1>4, <2>1, <2>3, <2>4, <2>5, <2>6 DEF SyncSequences
<1>5. CASE UNCHANGED vars
  <2>1. Settable' = Settable
    BY <1>5, SettableStays DEF vars
  <2> QED
    BY <1>5, <2>1 DEF vars, SyncInv, CountTruthful, InFilter
<1> QED
  BY <1>2, <1>3, <1>4, <1>5 DEF Next

-----------------------------------------------------------------------------
(* The stream.                                                             *)

(* A copied table that was known is published. *)
LEMMA CopiedIsPublished ==
  ASSUME ScopesAgree, TypeOK, PublicationInv, Late, pc # "failed",
         NEW t \in Dumped(cfg, snapshot.tables) \cap known
  PROVE  Publishes(publication, t)
<1>1. CASE auto
  <2>1. t \in Dumped(cfg, known)
    BY DEF Dumped, FilterByExclusions
  <2> QED
    BY <1>1, <2>1, DumpedArePublished DEF TypeOK, PublicationInv
<1>2. CASE ~auto
  <2>1. publication = EveryTable
    BY <1>2 DEF Late, PublicationInv
  <2> QED
    BY <2>1 DEF Publishes, EveryTable
<1> QED
  BY <1>1, <1>2

(* A table that the run publishes and that was in the snapshot is copied. *)
LEMMA PublishedIsCopied ==
  ASSUME ScopesAgree, TypeOK, PublicationInv, auto, Late,
         NEW t \in snapshot.tables, Publishes(publication, t)
  PROVE  t \in Dumped(cfg, snapshot.tables)
  BY PublishedAreDumped DEF TypeOK, PublicationInv, Late


Streamable == {"analyze", "analyzing", "subscribe", "stream"}

(* A step of a run that has loaded its tables, which leaves the source and *)
(* the stream alone.                                                       *)
LEMMA StreamStays ==
  ASSUME StreamInv, pc \in Loaded, pc' \in Loaded \ {"stream"}, pc' \in Streamable => pc \in Streamable,
         UNCHANGED <<cfg, catalog, rows, auto, known, streamVars, target>>
  PROVE  StreamInv'
<1> USE DEF streamVars
<1>1. Restored' = Restored
  BY DEF Restored
<1>2. \A t : Pending(t)' = Pending(t)
  BY DEF Pending
<1> QED
  BY <1>1, <1>2 DEF StreamInv, Loaded, Streamable, CopiedTablesStream, OnlyNewTablesStop

(* Every step keeps the balance of rows between the source, the WAL and    *)
(* the target.                                                             *)
LEMMA StreamStep ==
  ASSUME ScopesAgree, TypeOK, PublicationInv, StreamInv, [Next]_vars
  PROVE  StreamInv'
<1> USE DEF Goto, sourceVars, pubVars, streamVars, syncVars
<1>0. /\ wal \in Seq(Change) /\ applied \in 0 .. Len(wal) /\ applied \in Nat /\ pc \in Steps
      /\ \A t \in Tables : rows[t] \in Nat /\ snapshot.rows[t] \in Nat
      /\ \A t \in Restored : t \in Tables /\ target[t] \in Nat
      /\ snapshot.tables \subseteq Tables /\ cfg \in ScopeOptions
  BY ScopeAssumption DEF TypeOK, Change, Rows, Restored
<1>a. \A t : /\ Pending(t) = Cardinality(PendingAt(wal, applied, t))
             /\ Pending(t)' = Cardinality(PendingAt(wal', applied', t))
             /\ Pending(t) \in Nat
  BY <1>0, PendingFinite DEF Pending, PendingAt
<1>1. ASSUME NEW t \in Tables, Insert(t) PROVE StreamInv'
  <2> DEFINE e == [table |-> t, published |-> Publishes(publication, t)]
             d(u) == IF t = u THEN 1 ELSE 0
  <2>1. Restored' = Restored
    BY <1>1 DEF Insert, Restored
  <2>2. \A u \in Tables : rows'[u] = rows[u] + d(u)
    BY <1>1, <1>0 DEF Insert, TypeOK
  <2>3. CASE SlotExists
    <3>1. e \in Change /\ e.table = t
      BY ChangeTyped
    <3>2. wal' = Append(wal, e) /\ applied' = applied
      BY <1>1, <2>3 DEF Insert
    <3> HIDE DEF e
    <3>3. \A u : Pending(u)' = Pending(u) + d(u)
      BY <1>0, <1>a, <3>1, <3>2, PendingAppend
    <3>4. \A u \in Restored : target[u] + Pending(u)' = (target[u] + Pending(u)) + d(u)
      BY <1>0, <1>a, <3>3
    <3>5. \A u \in Tables : snapshot.rows[u] + Pending(u)' = (snapshot.rows[u] + Pending(u)) + d(u)
      BY <1>0, <1>a, <3>3
    <3> HIDE DEF d
    <3>6. (pc = "restore" => \A u \in Tables : snapshot.rows[u] + Pending(u) = rows[u])'
      BY <1>1, <2>2, <3>5 DEF Insert, StreamInv
    <3>7. /\ \A u \in Restored : d(u) \in Nat /\ rows[u] \in Nat /\ target[u] + Pending(u) \in Nat
      BY <1>0, <1>a DEF d
    <3>8. (pc \in Loaded => \A u \in Restored : target[u] + Pending(u) <= rows[u])'
      <4> SUFFICES ASSUME pc \in Loaded, NEW u \in Restored
                   PROVE  target[u] + Pending(u)' <= rows'[u]
        BY <1>1, <2>1 DEF Insert
      <4>1. target[u] + Pending(u) <= rows[u]
        BY DEF StreamInv
      <4>2. target[u] + Pending(u)' = (target[u] + Pending(u)) + d(u) /\ rows'[u] = rows[u] + d(u)
        BY <1>0, <2>2, <3>4
      <4> QED
        BY <3>7, <4>1, <4>2
    <3>9. CopiedTablesStream'
      BY <1>0, <1>1, <2>1, <2>2, <3>4 DEF Insert, StreamInv, CopiedTablesStream
    <3> QED
      BY <1>1, <2>1, <2>3, <3>6, <3>8, <3>9 DEF Insert, StreamInv, OnlyNewTablesStop, SlotExists
  <2>4. CASE ~SlotExists
    BY <1>1, <2>4 DEF Insert, StreamInv, SlotExists, Loaded, CopiedTablesStream, OnlyNewTablesStop
  <2> QED
    BY <2>3, <2>4
<1>2. ASSUME NEW t \in Tables, DefineTable(t) PROVE StreamInv'
  <2>1. Restored' = Restored /\ \A u : Pending(u)' = Pending(u)
    BY <1>2 DEF DefineTable, Restored, Pending
  <2>2. known' \cap catalog' \subseteq known \cap catalog
    BY <1>2 DEF DefineTable
  <2> QED
    BY <1>2, <2>1, <2>2 DEF DefineTable, StreamInv, CopiedTablesStream, OnlyNewTablesStop
<1>3. CASE EnsurePublication \/ FetchTables \/ CreateOnSource
  <2>1. wal' = <<>> /\ culprit' = None /\ pc' \in {"list", "create", "slot", "failed"}
    BY <1>3 DEF EnsurePublication, FetchTables, CreateOnSource, StreamInv
  <2> QED
    BY <2>1 DEF StreamInv, CopiedTablesStream, OnlyNewTablesStop, Loaded
<1>4. CASE PrepareSlot
  <2>1. wal = <<>> /\ culprit = None
    BY <1>4 DEF PrepareSlot, StreamInv
  <2>2. \A u : PendingAt(wal', applied', u) = {}
    BY <1>0, <1>4, <2>1 DEF PrepareSlot, PendingAt
  <2>3. \A u : Pending(u)' = 0
    BY <1>a, <2>2, FS_EmptySet
  <2> QED
    BY <1>0, <1>4, <2>1, <2>3 DEF PrepareSlot, StreamInv, CopiedTablesStream, OnlyNewTablesStop, Loaded
<1>5. CASE DumpAndRestore
  <2> DEFINE tables == Dumped(cfg, snapshot.tables)
  <2>1. \A u : Pending(u)' = Pending(u)
    BY <1>5 DEF DumpAndRestore, Pending
  <2>2. CASE pc' = "failed" /\ target' = target
    BY <1>5, <2>2 DEF DumpAndRestore, StreamInv, CopiedTablesStream, OnlyNewTablesStop, Loaded
  <2>3. CASE pc' = "analyze" /\ target' = [t \in Tables |-> IF t \in tables THEN snapshot.rows[t] ELSE None]
    <3>1. tables \subseteq Tables
      BY <1>0, DumpedType
    <3>2. \A u \in Tables : snapshot.rows[u] # None
      BY <1>0, ConfigurationAssumption
    <3>3. Restored' = tables
      BY <2>3, <3>1, <3>2 DEF Restored
    <3>4. tables' = tables
      BY <1>5 DEF DumpAndRestore
    <3>5. \A u \in tables : target'[u] + Pending(u)' = rows'[u] /\ rows'[u] \in Nat
      BY <1>0, <1>5, <2>1, <2>3, <3>1 DEF DumpAndRestore, StreamInv
    <3>6. \A u \in tables : target'[u] + Pending(u)' <= rows'[u]
      BY <3>5
    <3> HIDE DEF tables
    <3>7. CopiedTablesStream'
      BY <3>3, <3>5 DEF CopiedTablesStream
    <3>8. OnlyNewTablesStop'
      BY <1>5 DEF DumpAndRestore, OnlyNewTablesStop, StreamInv
    <3> QED
      BY <1>5, <2>3, <3>3, <3>4, <3>6, <3>7, <3>8 DEF StreamInv, tables
  <2> QED
    BY <1>5, <2>2, <2>3 DEF DumpAndRestore
<1>6. CASE Analyze \/ EndAnalyze \/ Cutover \/ \E t \in Tables : AnalyzeTable(t)
  <2>1. /\ pc \in Loaded /\ pc' \in Loaded \ {"stream"} /\ (pc' \in Streamable => pc \in Streamable)
        /\ UNCHANGED <<cfg, catalog, rows, auto, known, streamVars, target>>
    BY <1>6 DEF Analyze, EndAnalyze, Cutover, AnalyzeTable, Loaded, Streamable
  <2> QED
    BY <2>1, StreamStays
<1>7. CASE SyncSequences
  <2>1. /\ pc \in Loaded /\ pc' \in Loaded \ {"stream"} /\ (pc' \in Streamable => pc \in Streamable)
        /\ UNCHANGED <<cfg, catalog, rows, auto, known, streamVars, target>>
    BY <1>7 DEF SyncSequences, Collect, ApplyBatch, BatchFails, BatchUncounted, EndFallback, ApplyOne,
                Loaded, Streamable
  <2> QED
    BY <2>1, StreamStays
<1>8. CASE Subscribe
  <2>1. Restored' = Restored /\ \A u : Pending(u)' = Pending(u)
    BY <1>8 DEF Subscribe, Restored, Pending
  <2>2. Restored = Dumped(cfg, snapshot.tables)
    BY <1>8 DEF Subscribe, StreamInv, Loaded
  <2>3. Late /\ pc # "failed" /\ pc = "subscribe"
    BY <1>8 DEF Subscribe, Late
  <2>4. CASE subscribed' = Published /\ pc' = "stream" /\ culprit' = culprit
    <3>1. Restored \cap known \cap catalog \subseteq Published
      BY <2>2, <2>3, CopiedIsPublished DEF Published
    <3>2. (pc \in Loaded => /\ Restored = Dumped(cfg, snapshot.tables)
                            /\ \A t \in Restored : target[t] + Pending(t) <= rows[t])'
      BY <1>8, <2>1, <2>2 DEF Subscribe, StreamInv, Loaded
    <3>3. CopiedTablesStream'
      BY <1>8, <2>1 DEF Subscribe, StreamInv, CopiedTablesStream
    <3> QED
      BY <1>8, <2>1, <2>4, <3>1, <3>2, <3>3 DEF Subscribe, StreamInv, OnlyNewTablesStop
  <2>5. ASSUME NEW t \in Published \ Restored, culprit' = t, pc' = "failed"
        PROVE  StreamInv'
    <3>1. auto => t \notin snapshot.tables
      BY <2>2, <2>3, PublishedIsCopied DEF Published
    <3> QED
      BY <1>8, <2>5, <3>1 DEF Subscribe, StreamInv, CopiedTablesStream, OnlyNewTablesStop, Loaded
  <2> QED
    BY <1>8, <2>4, <2>5 DEF Subscribe
<1>9. CASE Apply
  <2> DEFINE next == wal[applied + 1]
  <2>1. next \in Change /\ next.table \in Tables /\ applied + 1 \in 1 .. Len(wal) /\ applied < Len(wal)
    BY <1>0, <1>9, NextTyped DEF Apply
  <2>2. next.published = Publishes(publication, next.table)
    BY <2>1 DEF PublicationInv
  <2>3. /\ Restored = Dumped(cfg, snapshot.tables) /\ Late /\ pc = "stream"
        /\ Restored \cap known \cap catalog \subseteq subscribed
        /\ \A u \in Restored : target[u] + Pending(u) <= rows[u]
        /\ \A u \in Restored \cap known \cap catalog : target[u] + Pending(u) = rows[u]
    BY <1>9 DEF Apply, StreamInv, CopiedTablesStream, Late, Loaded
  <2>4. UNCHANGED <<cfg, catalog, rows, auto, known, snapshot, wal, subscribed>>
    BY <1>9 DEF Apply
  <2> DEFINE d(u) == IF next.table = u THEN 1 ELSE 0
  <2>5. ASSUME applied' = applied + 1
        PROVE  \A u : Pending(u) = Pending(u)' + d(u) /\ Pending(u)' \in Nat
    BY <1>0, <1>a, <2>1, <2>4, <2>5, PendingTake, PendingFinite
  <2>6. CASE next.published /\ target[next.table] = None /\ culprit' = next.table /\ pc' = "failed"
    <3>1. next.table \notin Restored
      BY <2>6 DEF Restored
    <3>2. auto => next.table \notin snapshot.tables
      BY <2>2, <2>3, <2>6, <3>1, PublishedIsCopied
    <3> QED
      BY <2>4, <2>6, <3>2 DEF StreamInv, CopiedTablesStream, OnlyNewTablesStop, Loaded
  <2>7. CASE /\ ~next.published \/ next.table \in Restored \ subscribed
             /\ applied' = applied + 1 /\ UNCHANGED <<pc, cfg, culprit, target>>
    <3>1. Restored' = Restored
      BY <2>7 DEF Restored
    <3>2. next.table \notin Restored \cap known \cap catalog
      BY <2>2, <2>3, <2>7, CopiedIsPublished
    <3>3. \A u \in Restored \cap known \cap catalog : Pending(u)' = Pending(u)
      BY <2>5, <2>7, <3>2
    <3>4. \A u \in Restored : target[u] + Pending(u)' <= rows[u]
      BY <1>0, <1>a, <2>3, <2>5, <2>7
    <3> HIDE DEF next, d
    <3>5. CopiedTablesStream'
      BY <2>3, <2>4, <2>7, <3>1, <3>3 DEF CopiedTablesStream
    <3> QED
      BY <2>3, <2>4, <2>7, <3>1, <3>4, <3>5 DEF StreamInv, OnlyNewTablesStop
  <2>8. CASE /\ next.published /\ next.table \in Restored \cap subscribed
             /\ applied' = applied + 1 /\ target' = [target EXCEPT ![next.table] = @ + 1]
             /\ UNCHANGED <<pc, cfg, culprit>>
    <3>1. \A u \in Tables : target'[u] = IF u = next.table THEN target[u] + 1 ELSE target[u]
      BY <2>8 DEF TypeOK
    <3>2. Restored' = Restored
      BY <1>0, <2>8, <3>1, ConfigurationAssumption DEF Restored
    <3>a. \A u \in Restored : target'[u] = target[u] + d(u) /\ target[u] \in Nat /\ d(u) \in Nat
      BY <1>0, <3>1
    <3>b. \A u \in Restored : Pending(u) = Pending(u)' + d(u) /\ Pending(u)' \in Nat
      BY <2>5, <2>8
    <3>3. \A u \in Restored : target'[u] + Pending(u)' = target[u] + Pending(u)
      <4> HIDE DEF d
      <4> QED
        BY <3>a, <3>b
    <3> HIDE DEF next, d
    <3>4. CopiedTablesStream'
      BY <2>3, <2>4, <2>8, <3>2, <3>3 DEF CopiedTablesStream
    <3> QED
      BY <2>3, <2>4, <2>8, <3>2, <3>3, <3>4 DEF StreamInv, OnlyNewTablesStop
  <2> QED
    BY <1>9, <2>6, <2>7, <2>8 DEF Apply
<1>10. CASE UNCHANGED vars
  <2>1. Restored' = Restored /\ \A u : Pending(u)' = Pending(u)
    BY <1>10 DEF vars, Restored, Pending
  <2> QED
    BY <1>10, <2>1 DEF vars, StreamInv, CopiedTablesStream, OnlyNewTablesStop
<1> QED
  BY <1>1, <1>2, <1>3, <1>4, <1>5, <1>6, <1>7, <1>8, <1>9, <1>10 DEF Next


-----------------------------------------------------------------------------
(* The theorems.                                                           *)

(* The inductive invariant holds of every behaviour.                       *)
THEOREM ScopeInvariant == ASSUME ScopesAgree PROVE Spec => []Inv
<1>1. Inv /\ [Next]_vars => Inv'
  BY TypeStep, PublicationStep, StreamStep, StatisticsStep, SyncStep DEF Inv
<1> QED
  BY InitInv, <1>1, PTL DEF Spec

(* Every variable has its type: in particular the target never has more     *)
(* rows than the source may get (Apply).                                    *)
THEOREM TypeCorrect == ASSUME ScopesAgree PROVE Spec => []TypeOK
<1>1. Inv => TypeOK
  BY DEF Inv
<1> QED
  BY <1>1, ScopeInvariant, PTL

(* No insert into a copied table is lost, whatever the scope on which the   *)
(* publication and pg_dump agree, unless the table was created after the    *)
(* publication (ensure_publication_exists, build_create_publication_sql,    *)
(* prepare_replication_slot).                                               *)
THEOREM NothingLost == ASSUME ScopesAgree PROVE Spec => []CopiedTablesStream
<1>1. Inv => CopiedTablesStream
  BY DEF Inv, StreamInv
<1> QED
  BY <1>1, ScopeInvariant, PTL

(* With a publication that the run made for a scope on which it and pg_dump *)
(* agree, a table that was there when the snapshot was taken never stops    *)
(* the subscription, be it excluded or not (ensure_publication_exists).  Of *)
(* an excluded table of an included schema, say, nothing is claimed.        *)
THEOREM OnlyNewStop == ASSUME ScopesAgree PROVE Spec => []OnlyNewTablesStop
<1>1. Inv => OnlyNewTablesStop
  BY DEF Inv, StreamInv
<1> QED
  BY <1>1, ScopeInvariant, PTL

(* Whatever fails for one table and however the values are applied, the     *)
(* others are complete, on the same scopes (run_per_table,                  *)
(* apply_sequences_impl).                                                   *)
THEOREM Complete == ASSUME ScopesAgree PROVE Spec => []TablesComplete
<1>1. Inv => TablesComplete
  <2> SUFFICES ASSUME Inv, pc = "done", NEW t \in (Restored \cap catalog) \ Denied
               PROVE  t \in analyzed /\ sequence[t] >= target[t]
    BY DEF TablesComplete
  <2>1. t \in analyzed
    BY DEF Inv, StatisticsInv, Loaded
  <2>2. /\ t \in Tables /\ target[t] \in Nat /\ rows[t] \in Nat /\ sequence[t] \in Nat
        /\ cfg \in ScopeOptions /\ wal \in Seq(Change) /\ applied \in Nat
    BY ScopeAssumption DEF Inv, TypeOK, Restored, Rows, Change
  <2>3. Pending(t) \in Nat
    BY <2>2, PendingIs, PendingFinite
  <2>4. Restored = Dumped(cfg, snapshot.tables) /\ target[t] + Pending(t) <= rows[t]
    BY DEF Inv, StreamInv, Loaded
  <2>5. InFilter(t)
    <3>1. cfg.tables = {} \/ cfg.schemas = {}
      BY <2>2, ScopeFacts
    <3> QED
      BY <2>4, <3>1 DEF InFilter, Dumped, FilterByExclusions
  <2>6. CASE rows[t] = 0
    BY <2>1, <2>2, <2>3, <2>4, <2>6
  <2>7. CASE rows[t] # 0
    <3>1. collected[t] = rows[t]
      BY <2>2, <2>5, <2>7 DEF Inv, SyncInv
    <3>2. rows[t] # None
      BY <2>2, ConfigurationAssumption
    <3>3. t \in Settable
      BY <2>2, <3>1, <3>2 DEF Settable, Actionable
    <3>4. sequence[t] = rows[t]
      BY <3>1, <3>3 DEF Inv, SyncInv
    <3> QED
      BY <2>1, <2>2, <2>3, <2>4, <3>4
  <2> QED
    BY <2>6, <2>7
<1> QED
  BY <1>1, ScopeInvariant, PTL

(* The number that is reported is the number of sequences that were set,    *)
(* also when the batch took effect and its count was lost, on the same      *)
(* scopes (apply_sequences_impl).                                           *)
THEOREM CountIsTruthful == ASSUME ScopesAgree PROVE Spec => []CountTruthful
<1>1. Inv => CountTruthful
  BY DEF Inv, SyncInv, CountTruthful
<1> QED
  BY <1>1, ScopeInvariant, PTL

=============================================================================
