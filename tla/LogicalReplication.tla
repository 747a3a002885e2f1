------------------------- MODULE LogicalReplication -------------------------
(***************************************************************************)
(* PostgreSQL as pg_dbmigrator uses it: the source's WAL, publication and  *)
(* replication slot, the target's subscription, apply worker and tables.   *)
(* Nothing here is code of the repository: the operations are the SQL      *)
(* commands that src/ sends and the background activity of the two servers *)
(* that src/ relies on, at the level the migrator can tell apart.          *)
(*                                                                         *)
(* Simplifications.                                                        *)
(*   - The source commits transactions 1, 2, ..., MaxWal; an LSN is the    *)
(*     number of transactions committed before it.                         *)
(*   - The target's contents are copies: how often the effect of each      *)
(*     transaction is on the target (0, 1, or 2 for "more than once", the  *)
(*     duplicated row or, with a primary key, the duplicate-key error).    *)
(*   - Each transaction draws one value of a sequence, so the source's     *)
(*     last_value is wal.                                                  *)
(***************************************************************************)
EXTENDS Naturals

CONSTANT MaxWal  \* bound on the number of transactions the source commits

ASSUME MaxWalAssumption == MaxWal \in Nat

VARIABLES
  wal,        \* transactions committed on the source
  pub,        \* the publication: "none", or who created it
  slot,       \* the replication slot: "absent", "idle" or "active" (has a walsender)
  confirmed,  \* the slot's confirmed_flush_lsn
  sub,        \* the subscription; "detached" is disabled with slot_name = NONE
  origin,     \* the subscription's replication origin, 0 when it has none
  worker,     \* the subscription's apply worker: "stopped" or "running"
  base,       \* the target's tables: "none", "partial" (some are missing),
              \* "objects" (all, without all of an archive's rows) or "rows"
  copies,     \* copies[t]: how often transaction t is on the target
  tgtSeq      \* last_value of the sequence on the target

sourceVars == <<wal, pub, slot, confirmed>>
targetVars == <<sub, origin, worker, base, copies, tgtSeq>>
pgVars     == <<sourceVars, targetVars>>

Txn == 1 .. MaxWal
Lsn == 0 .. MaxWal

PgTypeOK ==
  /\ wal \in Lsn
  /\ pub \in {"none", "operator", "migrator"}
  /\ slot \in {"absent", "idle", "active"}
  /\ confirmed \in Lsn
  /\ sub \in {"absent", "detached", "disabled", "enabled"}
  /\ origin \in Lsn
  /\ worker \in {"stopped", "running"}
  /\ base \in {"none", "partial", "objects", "rows"}
  /\ copies \in [Txn -> 0 .. 2]
  /\ tgtSeq \in Lsn

PgInit ==
  /\ wal = 0
  /\ pub \in {"none", "operator"}
  /\ slot = "absent" /\ confirmed = 0
  /\ sub = "absent" /\ origin = 0 /\ worker = "stopped"
  /\ base = "none" /\ copies = [t \in Txn |-> 0] /\ tgtSeq = 0

-----------------------------------------------------------------------------
(* What a START_REPLICATION of the subscription begins after: the origin's  *)
(* position, or the slot's when that is further (a fresh origin is empty).  *)
Position == IF origin < confirmed THEN confirmed ELSE origin

Again(n) == IF n = 0 THEN 1 ELSE 2

(* The target holds transactions 1 .. p exactly once and no other. *)
ExactUpTo(p) == \A t \in Txn : copies[t] = IF t <= p THEN 1 ELSE 0

-----------------------------------------------------------------------------
(* Commands.                                                               *)

(* CREATE_REPLICATION_SLOT ... EXPORT_SNAPSHOT: the slot starts at the      *)
(* current end of WAL.                                                      *)
CreateSlot ==
  /\ slot' = "idle" /\ confirmed' = wal
  /\ UNCHANGED <<wal, pub>>

(* pg_drop_replication_slot; the server refuses when a walsender holds it.  *)
DropIdleSlot ==
  /\ IF slot = "idle" THEN slot' = "absent" /\ confirmed' = 0
                      ELSE UNCHANGED <<slot, confirmed>>
  /\ UNCHANGED <<wal, pub>>

(* ALTER SUBSCRIPTION ... DISABLE: the worker applies nothing more, but it  *)
(* and its walsender go away later.                                         *)
DisableSubscription ==
  /\ sub' = IF sub = "enabled" THEN "disabled" ELSE sub
  /\ UNCHANGED <<origin, worker, base, copies, tgtSeq>>

DetachSlot ==
  /\ sub' = "detached"
  /\ UNCHANGED <<origin, worker, base, copies, tgtSeq>>

(* DROP SUBSCRIPTION waits for the worker to stop and drops the origin.     *)
DropSubscription ==
  /\ sub' = "absent" /\ origin' = 0 /\ worker' = "stopped"
  /\ UNCHANGED <<base, copies, tgtSeq>>

-----------------------------------------------------------------------------
(* Background activity.                                                    *)

Commit ==
  /\ wal < MaxWal
  /\ wal' = wal + 1
  /\ UNCHANGED <<pub, slot, confirmed, targetVars>>

(* The launcher starts the worker of an enabled subscription; its           *)
(* walsender takes the slot.                                                *)
WorkerStart ==
  /\ sub = "enabled" /\ worker = "stopped"
  /\ slot = "idle" /\ pub # "none"
  /\ worker' = "running" /\ slot' = "active"
  /\ UNCHANGED <<wal, pub, confirmed, sub, origin, base, copies, tgtSeq>>

(* The worker applies the next transaction and advances the origin in the   *)
(* same local transaction.  It re-reads pg_subscription first, so a         *)
(* disabled subscription applies nothing; without tables it cannot apply.   *)
WorkerApply ==
  /\ worker = "running" /\ sub = "enabled" /\ base # "none"
  /\ Position < wal
  /\ copies' = [copies EXCEPT ![Position + 1] = Again(@)]
  /\ origin' = Position + 1
  /\ UNCHANGED <<sourceVars, sub, worker, base, tgtSeq>>

(* Feedback reaches the walsender later than the commit it reports. *)
WorkerFeedback ==
  /\ worker = "running" /\ slot = "active"
  /\ confirmed < origin
  /\ \E c \in (confirmed + 1) .. origin : confirmed' = c
  /\ UNCHANGED <<wal, pub, slot, targetVars>>

(* The worker ends: disabled, or its connection broke. *)
WorkerExit ==
  /\ worker = "running"
  /\ worker' = "stopped"
  /\ UNCHANGED <<sourceVars, sub, origin, base, copies, tgtSeq>>

(* The walsender notices that its peer is gone and releases the slot. *)
SenderExit ==
  /\ slot = "active" /\ worker = "stopped"
  /\ slot' = "idle"
  /\ UNCHANGED <<wal, pub, confirmed, targetVars>>

Background ==
  \/ Commit
  \/ WorkerStart
  \/ WorkerApply
  \/ WorkerFeedback
  \/ WorkerExit
  \/ SenderExit

=============================================================================
