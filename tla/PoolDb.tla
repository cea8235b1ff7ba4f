------------------------------- MODULE PoolDb -------------------------------
(***************************************************************************)
(* The broadcast_pool table (db/mod.rs, db/schema.rs) and the pure part of *)
(* the rules the pool applies to a row (pool/manager.rs).                  *)
(*                                                                         *)
(* Every method of Database takes the connection mutex, runs one SQL       *)
(* statement and releases it, so each is one atomic operator on the table: *)
(* a query returns the set of row identifiers it lists, an update returns  *)
(* the new table.  Columns that no rule reads (labels, fees, amounts,      *)
(* created_at, the network of a single-network pool) are left out.         *)
(***************************************************************************)
EXTENDS Integers, FiniteSets

CONSTANTS
    Row,                 \* row identifiers; a UUID is never used twice
    Tx,                  \* signed transactions (tx_hex / txid)
    LockOf,              \* the nLockTime signed into each transaction
    LOCKTIME_THRESHOLD,  \* 500_000_000: above it nLockTime is a unix time
    NULL                 \* SQL NULL / None

ASSUME PoolDbAssumption ==
    /\ LockOf \in [Tx -> Nat]
    /\ LOCKTIME_THRESHOLD \in Nat \ {0}
    /\ NULL \notin Tx \cup Row \cup Nat
    /\ NULL \notin {"above", "below", "retriable", "opaque"}

(***************************************************************************)
(* "fresh" is an identifier not inserted yet and "gone" a deleted one:     *)
(* neither is a row of the table.  TxStatus also has "expired", which no   *)
(* code ever assigns.                                                      *)
(***************************************************************************)
TxStatus == {"pending", "scheduled", "broadcast", "confirmed", "failed"}
Status   == TxStatus \cup {"fresh", "gone"}
Mode     == {"immediate", "scheduled", "by_block", "manual"}
Side     == {"above", "below"}

(***************************************************************************)
(* error_message, reduced to what is_retriable_broadcast_error and         *)
(* requeue_retriable_failures tell apart: "retriable" is a message with    *)
(* one of the retriable phrases, "opaque" one that starts with "Failed to  *)
(* broadcast" and hides the cause.                                         *)
(***************************************************************************)
BroadcastError == {"retriable", "opaque"}

RowRecord ==
    [status  : Status,
     tx      : Tx \cup {NULL},
     nlock   : Nat,
     mode    : Mode,
     sched   : Nat \cup {NULL},      \* scheduled_time
     defer   : Nat \cup {NULL},      \* defer_until
     missed  : BOOLEAN,              \* broadcast_missed_at IS NOT NULL
     trigger : {"datetime", "price"},
     price   : Side \cup {NULL},     \* price_condition with its target
     txid    : BOOLEAN,              \* txid IS NOT NULL
     confAt  : BOOLEAN,              \* confirmed_at IS NOT NULL
     err     : BroadcastError \cup {NULL}]

FreshRow ==
    [status |-> "fresh", tx |-> NULL, nlock |-> 0, mode |-> "immediate",
     sched |-> NULL, defer |-> NULL, missed |-> FALSE,
     trigger |-> "datetime", price |-> NULL, txid |-> FALSE,
     confAt |-> FALSE, err |-> NULL]

InTable(db, r) == db[r].status \in TxStatus

-----------------------------------------------------------------------------
(* Queries.                                                                *)

\* list_broadcast_txs with a status filter.
ListByStatus(db, s) == {r \in Row : db[r].status = s}

\* get_due_transactions: every scheduled row, due or not.
DueTransactions(db) == ListByStatus(db, "scheduled")

\* get_price_triggered_pending.
PriceTriggeredPending(db) ==
    {r \in Row : /\ db[r].status \in {"pending", "scheduled"}
                 /\ db[r].trigger = "price"
                 /\ db[r].price # NULL}

\* get_pending_by_block_height.
PendingByBlockHeight(db) ==
    {r \in Row : /\ db[r].status = "pending"
                 /\ db[r].mode = "by_block"
                 /\ db[r].nlock > 0
                 /\ db[r].nlock < LOCKTIME_THRESHOLD}

\* get_pending_by_scheduled_time.
PendingByScheduledTime(db, time) ==
    {r \in Row : /\ db[r].status = "pending"
                 /\ db[r].mode \in {"scheduled", "manual"}
                 /\ db[r].sched # NULL
                 /\ db[r].sched <= time}

\* Mutant: the status filter is wrong.
Bug_PendingRebroadcast(db) == {r \in Row : db[r].status = "scheduled"}

\* get_pending_rebroadcast.  The loop sleeps for as long as the cut-off it
\* passes, so a row broadcast before its previous pass is always old enough.
PendingRebroadcast(db) ==
    {r \in Row : db[r].status = "broadcast" /\ ~db[r].confAt}

-----------------------------------------------------------------------------
(* Updates.  An UPDATE ... WHERE id = r writes nothing when r is not in    *)
(* the table, and the methods below do not look at the row count.          *)

Write(db, r, rec) == IF InTable(db, r) THEN [db EXCEPT ![r] = rec] ELSE db

\* insert_broadcast_tx: always pending, no txid, trigger 'datetime'.
InsertBroadcastTx(db, r, t, nlock, mode, sched) ==
    [db EXCEPT ![r] = [FreshRow EXCEPT !.status = "pending", !.tx = t,
                                       !.nlock = nlock, !.mode = mode,
                                       !.sched = sched]]

\* update_tx_status(Failed, error).
UpdateTxStatusFailed(db, r, e) ==
    Write(db, r, [db[r] EXCEPT !.status = "failed", !.err = e])

\* Mutant: no look at the status.
Bug_ResetFailedToScheduled(db, r) ==
    [db EXCEPT ![r] = [@ EXCEPT !.status = "scheduled", !.err = NULL]]

\* reset_failed_to_scheduled, guarded by WHERE status = 'failed'.
ResetFailedToScheduled(db, r) ==
    IF db[r].status = "failed"
    THEN [db EXCEPT ![r] = [@ EXCEPT !.status = "scheduled", !.err = NULL]]
    ELSE db

\* mark_broadcast, whatever the row's status.
MarkBroadcast(db, r) ==
    Write(db, r, [db[r] EXCEPT !.status = "broadcast", !.txid = TRUE,
                               !.missed = FALSE, !.defer = NULL])

\* Mutant: the status is not written.
Bug_MarkConfirmed(db, r) == Write(db, r, [db[r] EXCEPT !.confAt = TRUE])

\* mark_confirmed, whatever the row's status.
MarkConfirmed(db, r) ==
    Write(db, r, [db[r] EXCEPT !.status = "confirmed", !.confAt = TRUE])

\* record_broadcast_miss: WHERE broadcast_missed_at IS NULL makes a second
\* call a no-op, which leaving the flag set already says.
RecordBroadcastMiss(db, r) == Write(db, r, [db[r] EXCEPT !.missed = TRUE])

\* update_reschedule, whatever the row's status.
UpdateReschedule(db, r, sched, defer) ==
    Write(db, r, [db[r] EXCEPT !.status = "scheduled", !.sched = sched,
                               !.defer = defer, !.err = NULL,
                               !.trigger = "datetime", !.price = NULL])

\* Mutant: the columns are shifted by one, and the mode is cleared as well.
Bug_UpdatePriceSchedule(db, r, side) ==
    Write(db, r, [db[r] EXCEPT !.status = "pending", !.mode = NULL,
                               !.sched = NULL, !.defer = NULL, !.err = NULL,
                               !.trigger = "price", !.price = side])

\* update_price_schedule, whatever the row's status.
UpdatePriceSchedule(db, r, side) ==
    Write(db, r, [db[r] EXCEPT !.status = "pending", !.sched = NULL,
                               !.defer = NULL, !.err = NULL,
                               !.trigger = "price", !.price = side])

\* mark_due: defer_until and schedule_trigger are left as they are.
MarkDue(db, r, time) ==
    Write(db, r, [db[r] EXCEPT !.status = "scheduled", !.sched = time])

\* mark_due_from_price_trigger.
MarkDueFromPriceTrigger(db, r, time) ==
    Write(db, r, [db[r] EXCEPT !.status = "scheduled", !.sched = time,
                               !.trigger = "datetime"])

\* The UPDATE of PoolManager::schedule_transaction: defer_until and
\* schedule_trigger survive it.
SetRandomSchedule(db, r, sched) ==
    Write(db, r, [db[r] EXCEPT !.status = "scheduled", !.sched = sched])

\* remove_broadcast_tx.
RemoveBroadcastTx(db, r) == Write(db, r, [db[r] EXCEPT !.status = "gone"])

-----------------------------------------------------------------------------
(* Rules on one row (pool/manager.rs).                                     *)

\* schedule_at's is_reschedule: such a row gets a defer_until.
IsReschedule(row) ==
    \/ row.missed
    \/ row.defer # NULL
    \/ row.sched # NULL
    \/ row.trigger = "price"
    \/ row.mode \in {"scheduled", "manual"}

\* is_locktime_satisfied once the chain has been read.
LocktimeReached(nlock, height, mtp) ==
    \/ nlock = 0
    \/ IF nlock > LOCKTIME_THRESHOLD THEN mtp >= nlock ELSE height >= nlock

\* Mutant: defer_until and the trigger are ignored.
Bug_ReleaseTimeReached(row, time) == row.sched # NULL /\ row.sched <= time

\* is_tx_due_for_broadcast without its locktime part: defer_until, when set,
\* decides alone; scheduled_time is looked at only when it is not.
ReleaseTimeReached(row, time) ==
    /\ ~(row.trigger = "price" /\ row.status = "pending")
    /\ IF row.defer # NULL
       THEN row.defer <= time
       ELSE row.sched # NULL /\ row.sched <= time

\* Mutant: an opaque refusal is final.
Bug_RetriableFailures(db) ==
    {r \in ListByStatus(db, "failed") : db[r].err = "retriable"}

\* requeue_retriable_failures: what it lists, and what it does when it runs
\* alone, at the start of a process.
RetriableFailures(db) ==
    {r \in ListByStatus(db, "failed") :
        db[r].err = "retriable" \/ (db[r].nlock > 0 /\ db[r].err = "opaque")}

RequeueRetriableFailures(db) ==
    [r \in Row |-> IF r \in RetriableFailures(db)
                   THEN ResetFailedToScheduled(db, r)[r] ELSE db[r]]

\* Mutant: only the pending rows are read.
Bug_RehydratedTxs(db) == {db[r].tx : r \in ListByStatus(db, "pending")}

\* load_pending_from_db: what the virtual mempool holds after a start.
RehydratedTxs(db) ==
    {db[r].tx : r \in ListByStatus(db, "pending") \cup ListByStatus(db, "scheduled")}
=============================================================================
