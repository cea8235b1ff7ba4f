--------------------------- MODULE PoolLifecycle ----------------------------
(***************************************************************************)
(* The life of the rows of the broadcast pool under everything that works  *)
(* on them at the same time: the five scheduler loops (pool/scheduler.rs), *)
(* each a blocking task that lists rows and then handles them one by one,  *)
(* the background ingest of a wallet's broadcast (electrum_server/mod.rs), *)
(* the web API (api/mod.rs), the command line run as a second process      *)
(* (pool/broadcaster.rs), restarts, and the node and indexer behind them.  *)
(*                                                                         *)
(* A step is one database statement or one call to a backend; what a loop  *)
(* listed stays in its hands (tickTodo, blkTodo, ...) while other steps    *)
(* change the rows.  Coarser are mark_broadcast and remove_transaction,    *)
(* which change the row and then the virtual mempool in one step, a        *)
(* restart, and a command line that reads a row and sends it.              *)
(***************************************************************************)
EXTENDS PoolDb

CONSTANTS
    Wallet,      \* wallets that may connect: a subset of {"sparrow", "liana"}
    UserOps,     \* commands the user may give, a subset of UserOp
    EnvOps,      \* what the environment may do, a subset of EnvOp
    ConfigMode,  \* config.schedule.broadcast_mode
    HasIndexer,  \* an indexer URL is configured
    HasRpc,      \* Bitcoin Core RPC credentials are configured
    HasTxIndex,  \* Bitcoin Core finds a mined transaction by its id (txindex)
    MaxTime,     \* bound on the clock
    MaxHeight,   \* bound on the chain height, which no chain brings near 500_000_000
    MaxFaults    \* bound on the faults of a behaviour

UserOp == {"at", "price", "delay", "remove", "retry", "cli", "import",
           "import_at"}
EnvOp  == {"indexer", "rpc", "reject", "lost_reply", "db", "restart",
           "evict", "reorg", "price"}

ASSUME PoolAssumption ==
    /\ Wallet \subseteq {"sparrow", "liana"}
    /\ UserOps \subseteq UserOp
    /\ EnvOps \subseteq EnvOp
    /\ ConfigMode \in Mode
    /\ HasIndexer \in BOOLEAN /\ HasRpc \in BOOLEAN /\ HasTxIndex \in BOOLEAN
    /\ HasIndexer \/ HasRpc
    /\ MaxTime \in Nat /\ MaxTime > LOCKTIME_THRESHOLD
    /\ MaxHeight \in Nat \ {0} /\ MaxHeight < LOCKTIME_THRESHOLD
    /\ MaxFaults \in Nat

VARIABLES
    db,         \* the broadcast_pool table
    vmem,       \* the transactions of the virtual mempool (pending_txs)
    \* --- work in progress ---
    ing,        \* per row: the wallet broadcast being ingested
    tickPc, tickTodo, tickCur, tickRes,  \* the broadcast loop
    blkTodo,    \* rows the block height monitor is marking
    prcSeen,    \* the price fetched by the price monitor, not evaluated yet
    prcTodo,    \* rows the price monitor is marking
    confTodo,   \* rows the confirmation checker is asking about
    rebTodo,    \* rows the rebroadcast loop is sending again
    cliCur,     \* row a command-line process has sent but not recorded
    api,        \* schedule request whose row has been read, not written
    \* --- the world outside ---
    now, height, mtp, price, idxUp, rpcUp, faults,
    net,        \* what the node holds: unknown, mempool or mined
    \* --- history, read by the properties only ---
    accepted,   \* transactions a node has ever accepted from the pool
    everMined,  \* transactions ever seen in a block
    ask,        \* what the user last asked for each row
    priceMet,   \* rows whose price condition has held since it was asked
    raced       \* rows whose last command met a loop holding them, or did not
                \* replace the one before

tickVars == <<tickPc, tickTodo, tickCur, tickRes>>
loopVars == <<blkTodo, prcSeen, prcTodo, confTodo, rebTodo>>
clockVars == <<now, height, mtp, price>>
linkVars == <<idxUp, rpcUp>>
netVars  == <<net, accepted, everMined>>
wishVars == <<ask, priceMet, raced>>
vars == <<db, vmem, ing, tickVars, loopVars, cliCur, api, clockVars,
          linkVars, faults, netVars, wishVars>>

Time   == 0 .. MaxTime
Result == {"ok"} \cup BroadcastError
AskRecord == [kind : {"none", "hold", "at", "delay", "block", "now"}
                       \cup Side,
              at   : Nat]
Ask(kind, at) == [kind |-> kind, at |-> at]
IngestRecord == [pc : {"idle", "acked", "inserted", "stored", "done", "lost"},
                 tx : Tx \cup {NULL}, src : Wallet \cup {NULL}]
ApiRecord == [op : {"at", "price"}, row : Row, at : Nat,
              isReschedule : BOOLEAN, side : Side \cup {NULL}]

TypeOK ==
    /\ db \in [Row -> RowRecord]
    /\ vmem \subseteq Tx
    /\ ing \in [Row -> IngestRecord]
    /\ tickPc \in {"idle", "mark", "requeue", "bcast", "reply"}
    /\ tickTodo \subseteq Row
    /\ tickCur \in Row \cup {NULL}
    /\ tickRes \in Result \cup {NULL}
    /\ blkTodo \subseteq Row /\ prcTodo \subseteq Row
    /\ confTodo \subseteq Row /\ rebTodo \subseteq Row
    /\ prcSeen \in Side \cup {NULL}
    /\ cliCur \in Row \cup {NULL}
    /\ api \in ApiRecord \cup {NULL}
    /\ now \in Nat /\ height \in Nat /\ mtp \in Nat /\ price \in Side
    /\ idxUp \in BOOLEAN /\ rpcUp \in BOOLEAN
    /\ faults \in 0 .. MaxFaults
    /\ net \in [Tx -> {"unknown", "mempool", "mined"}]
    /\ accepted \subseteq Tx /\ everMined \subseteq Tx
    /\ ask \in [Row -> AskRecord]
    /\ priceMet \subseteq Row /\ raced \subseteq Row

Init ==
    /\ db = [r \in Row |-> FreshRow]
    /\ vmem = {}
    /\ ing = [r \in Row |-> [pc |-> "idle", tx |-> NULL, src |-> NULL]]
    /\ tickPc = "idle" /\ tickTodo = {} /\ tickCur = NULL /\ tickRes = NULL
    /\ blkTodo = {} /\ prcSeen = NULL /\ prcTodo = {}
    /\ confTodo = {} /\ rebTodo = {}
    /\ cliCur = NULL /\ api = NULL
    /\ now = LOCKTIME_THRESHOLD + 1 /\ mtp = LOCKTIME_THRESHOLD + 1
    /\ height = 1 /\ price = "below"
    /\ idxUp = HasIndexer /\ rpcUp = HasRpc /\ faults = 0
    /\ net = [t \in Tx |-> "unknown"]
    /\ accepted = {} /\ everMined = {}
    /\ ask = [r \in Row |-> Ask("none", 0)]
    /\ priceMet = {} /\ raced = {}

Fault(kind) ==
    /\ kind \in EnvOps
    /\ faults < MaxFaults
    /\ faults' = faults + 1

-----------------------------------------------------------------------------
(* The backends.                                                           *)

\* indexer_healthy: with an indexer configured only the indexer is asked.
IndexerHealthy == IF HasIndexer THEN idxUp ELSE rpcUp

\* check_block_height, get_median_time_past and broadcast_transaction fall
\* back from one backend to the other, so either will do.
AnyBackend == idxUp \/ rpcUp

\* is_locktime_satisfied.  An unreadable height counts as not satisfied; an
\* unreadable median time is an error of its own, see TickAbort.  The median
\* time is kept for 10 s in the code; here every check reads it anew.
LocktimeSatisfied(nlock) ==
    LocktimeReached(nlock, height, mtp) /\ (nlock = 0 \/ AnyBackend)

\* External: the node's finality rule (BIP 113).  nLockTime must be below the
\* height of the next block, or below the median time past of the tip.
IsFinal(t) ==
    \/ LockOf[t] = 0
    \/ IF LockOf[t] < LOCKTIME_THRESHOLD
       THEN LockOf[t] <= height
       ELSE LockOf[t] < mtp

\* External: what sendrawtransaction does with a valid transaction, when a
\* backend is up to bring it there.  One already in the mempool is accepted
\* again, a mined one is refused.
NodeAccepts(up, t) ==
    /\ up
    /\ net[t] = "mempool" \/ (net[t] = "unknown" /\ IsFinal(t))

\* The text of a refusal.  With RPC configured the answer is always that of
\* rpc/client.rs, "Failed to broadcast transaction" and no cause; the cause is
\* kept only by an indexer without an RPC fallback.
RefusalText(t) ==
    IF ~HasRpc /\ idxUp /\ net[t] = "unknown" /\ ~IsFinal(t)
    THEN "retriable" ELSE "opaque"

\* PoolManager::broadcast_transaction, Broadcaster::broadcast_raw: the indexer
\* and then RPC, of those the process has a client for.  The node may have
\* accepted a transaction whose answer is lost, and may refuse one for reasons
\* of its own (fee, conflict, chain of unconfirmed parents).
Submit(up, t, res) ==
    \/ /\ NodeAccepts(up, t)
       /\ \/ res = "ok" /\ UNCHANGED faults
          \/ res = "opaque" /\ Fault("lost_reply")
       /\ net' = [net EXCEPT ![t] = "mempool"]
       /\ accepted' = accepted \cup {t}
    \/ /\ ~NodeAccepts(up, t)
       /\ res = RefusalText(t)
       /\ UNCHANGED <<net, accepted, faults>>
    \/ /\ NodeAccepts(up, t)
       /\ res \in IF HasRpc THEN {"opaque"} ELSE BroadcastError
       /\ Fault("reject")
       /\ UNCHANGED <<net, accepted>>

-----------------------------------------------------------------------------
(* What the user asked for, and when a command meets a loop at work.       *)

\* Rows the broadcast loop has already listed as due.
InTickBatch(r) == tickPc \in {"bcast", "reply"} /\ r \in tickTodo \cup {tickCur}

\* Rows some other actor is about to mark as due from what it read earlier.
InMonitorHands(r) ==
    \/ tickPc = "mark" /\ r \in tickTodo
    \/ r \in blkTodo \cup prcTodo
    \/ prcSeen # NULL /\ db'[r].trigger = "price"

\* A delay leaves the earlier release of the row in force: defer_until, which
\* decides alone, or the price trigger.
Overruled(r, wish) ==
    wish.kind = "delay" /\ (db[r].defer # NULL \/ db[r].trigger = "price")

\* A command on r has just been written.  It is raced when the broadcast loop
\* already holds r, when a monitor does and no defer_until guards the row, or
\* when it does not replace what was asked before.
Commanded(r, wish) ==
    /\ ask' = [ask EXCEPT ![r] = wish]
    /\ priceMet' = IF wish.kind = price THEN priceMet \cup {r}
                                        ELSE priceMet \ {r}
    /\ raced' = IF \/ InTickBatch(r)
                   \/ InMonitorHands(r) /\ db'[r].defer = NULL
                   \/ Overruled(r, wish)
                THEN raced \cup {r} ELSE raced \ {r}

\* The instruction on r has been fulfilled, so that r may be made public.
InstructionMet(r) ==
    CASE ask[r].kind \in {"at", "delay"} -> ask[r].at <= now
      [] ask[r].kind = "block"           -> db[r].nlock <= height
      [] ask[r].kind \in Side            -> r \in priceMet
      [] ask[r].kind = "now"             -> TRUE
      [] OTHER                           -> FALSE

-----------------------------------------------------------------------------
(* Ingest of a wallet's broadcast (electrum_server/mod.rs).                *)

\* resolve_broadcast_plan: reached only for a nLockTime equal to the
\* threshold, which is neither a height nor a time for resolve_ingest_plan.
BroadcastPlans ==
    CASE ConfigMode = "immediate" -> {[mode |-> "immediate", sched |-> now]}
      [] ConfigMode = "scheduled" ->
            {[mode |-> "scheduled", sched |-> s] : s \in Time}
      [] OTHER -> {[mode |-> ConfigMode, sched |-> NULL]}

\* Mutant: every broadcast is scheduled at once.
Bug_IngestPlans(src, nlock) ==
    {[mode |-> "scheduled", sched |-> now]}

\* resolve_ingest_plan.
IngestPlans(src, nlock) ==
    IF src = "liana" \/ nlock = 0
    THEN {[mode |-> "manual", sched |-> NULL]}
    ELSE IF nlock > LOCKTIME_THRESHOLD
    THEN {[mode |-> "scheduled", sched |-> nlock]}
    ELSE IF nlock < LOCKTIME_THRESHOLD
    THEN {[mode |-> "by_block", sched |-> NULL]}
    ELSE BroadcastPlans

\* What a wallet's broadcast asks for, whatever plan was made of it: Liana's and
\* unlocked transactions are for the user to release, a lock speaks for itself.
WalletAsk(src, nlock, plan) ==
    IF src = "liana" \/ nlock = 0 THEN Ask("hold", 0)
    ELSE IF nlock > LOCKTIME_THRESHOLD THEN Ask("at", nlock)
    ELSE IF nlock < LOCKTIME_THRESHOLD THEN Ask("block", 0)
    ELSE CASE plan.mode = "scheduled" -> Ask("at", plan.sched)
           [] plan.mode = "immediate" -> Ask("now", 0)
           [] OTHER                   -> Ask("hold", 0)

\* intercept_and_handle_broadcast, phase 1: the transaction enters the
\* virtual mempool and the wallet is told that it was broadcast.  r names the
\* row the background task will insert.
IngestAck(r, t, src) ==
    /\ ing[r].pc = "idle" /\ db[r].status = "fresh"
    /\ vmem' = vmem \cup {t}
    /\ ing' = [ing EXCEPT ![r] = [pc |-> "acked", tx |-> t, src |-> src]]
    /\ UNCHANGED <<db, tickVars, loopVars, cliCur, api, clockVars, linkVars,
                   faults, netVars, wishVars>>

\* handle_broadcast: plan and insert.
IngestInsert(r) ==
    /\ ing[r].pc = "acked"
    /\ \E plan \in IngestPlans(ing[r].src, LockOf[ing[r].tx]) :
          /\ db' = InsertBroadcastTx(db, r, ing[r].tx, LockOf[ing[r].tx],
                                     plan.mode, plan.sched)
          /\ ask' = [ask EXCEPT ![r] = WalletAsk(ing[r].src,
                                               LockOf[ing[r].tx], plan)]
    /\ ing' = [ing EXCEPT ![r].pc = "inserted"]
    /\ UNCHANGED <<vmem, tickVars, loopVars, cliCur, api, clockVars, linkVars,
                   faults, netVars, priceMet, raced>>

\* handle_broadcast: store_pending_outputs puts the transaction into the
\* virtual mempool a second time, whatever has happened to the row since.
IngestStore(r) ==
    /\ ing[r].pc = "inserted"
    /\ vmem' = vmem \cup {ing[r].tx}
    /\ ing' = [ing EXCEPT ![r].pc =
                  IF db[r].mode = "immediate" THEN "stored" ELSE "done"]
    /\ UNCHANGED <<db, tickVars, loopVars, cliCur, api, clockVars, linkVars,
                   faults, netVars, wishVars>>

\* handle_broadcast: an immediate transaction is marked as due.
IngestMarkDue(r) ==
    /\ ing[r].pc = "stored"
    /\ db' = MarkDue(db, r, now)
    /\ ing' = [ing EXCEPT ![r].pc = "done"]
    /\ UNCHANGED <<vmem, tickVars, loopVars, cliCur, api, clockVars, linkVars,
                   faults, netVars, wishVars>>

\* The insert fails: it is logged, and the wallet keeps its acknowledgement.
IngestFail(r) ==
    /\ ing[r].pc = "acked"
    /\ Fault("db")
    /\ ing' = [ing EXCEPT ![r].pc = "lost"]
    /\ UNCHANGED <<db, vmem, tickVars, loopVars, cliCur, api, clockVars,
                   linkVars, netVars, wishVars>>

-----------------------------------------------------------------------------
(* The broadcast loop: run_scheduler_tick and broadcast_due_transactions.  *)

TickStart ==
    /\ tickPc = "idle" /\ IndexerHealthy
    /\ tickPc' = "mark"
    /\ tickTodo' = {r \in PendingByScheduledTime(db, now) :
                        db[r].trigger # "price"}
    /\ UNCHANGED <<db, vmem, ing, tickCur, tickRes, loopVars, cliCur, api,
                   clockVars, linkVars, faults, netVars, wishVars>>

TickMark(r) ==
    /\ tickPc = "mark" /\ r \in tickTodo
    /\ db' = MarkDue(db, r, now)
    /\ tickTodo' = tickTodo \ {r}
    /\ UNCHANGED <<vmem, ing, tickPc, tickCur, tickRes, loopVars, cliCur, api,
                   clockVars, linkVars, faults, netVars, wishVars>>

TickListFailed ==
    /\ tickPc = "mark" /\ tickTodo = {}
    /\ tickPc' = "requeue"
    /\ tickTodo' = RetriableFailures(db)
    /\ UNCHANGED <<db, vmem, ing, tickCur, tickRes, loopVars, cliCur, api,
                   clockVars, linkVars, faults, netVars, wishVars>>

\* A row that is no longer failed makes reset_failed_to_scheduled bail out,
\* which abandons the rest of the list.
TickRequeue(r) ==
    /\ tickPc = "requeue" /\ r \in tickTodo
    /\ db' = ResetFailedToScheduled(db, r)
    /\ tickTodo' = IF db[r].status = "failed" THEN tickTodo \ {r} ELSE {}
    /\ UNCHANGED <<vmem, ing, tickPc, tickCur, tickRes, loopVars, cliCur, api,
                   clockVars, linkVars, faults, netVars, wishVars>>

TickListDue ==
    /\ tickPc = "requeue" /\ tickTodo = {}
    /\ tickPc' = "bcast"
    /\ tickTodo' = {r \in DueTransactions(db) :
                        /\ ReleaseTimeReached(db[r], now)
                        /\ LocktimeSatisfied(db[r].nlock)}
    /\ UNCHANGED <<db, vmem, ing, tickCur, tickRes, loopVars, cliCur, api,
                   clockVars, linkVars, faults, netVars, wishVars>>

\* The second locktime check fails: the chain moved back, or a height became
\* unreadable, since the row was listed.  A time lock records the miss.
TickSkip(r) ==
    /\ tickPc = "bcast" /\ r \in tickTodo
    /\ ~LocktimeSatisfied(db[r].nlock)
    /\ db[r].nlock > LOCKTIME_THRESHOLD => AnyBackend
    /\ db' = IF db[r].nlock > LOCKTIME_THRESHOLD
             THEN RecordBroadcastMiss(db, r) ELSE db
    /\ tickTodo' = tickTodo \ {r}
    /\ UNCHANGED <<vmem, ing, tickPc, tickCur, tickRes, loopVars, cliCur, api,
                   clockVars, linkVars, faults, netVars, wishVars>>

\* The second locktime check is an error: the rest of the batch is dropped.
TickAbort(r) ==
    /\ tickPc = "bcast" /\ r \in tickTodo
    /\ db[r].nlock > LOCKTIME_THRESHOLD /\ ~AnyBackend
    /\ tickPc' = "idle" /\ tickTodo' = {}
    /\ UNCHANGED <<db, vmem, ing, tickCur, tickRes, loopVars, cliCur, api,
                   clockVars, linkVars, faults, netVars, wishVars>>

\* The row in hand is the one listed: its transaction and locktime never
\* change, and nothing else of it is read again, not even that it still exists.
TickSend(r) ==
    /\ tickPc = "bcast" /\ r \in tickTodo
    /\ LocktimeSatisfied(db[r].nlock)
    /\ \E res \in Result : Submit(AnyBackend, db[r].tx, res) /\ tickRes' = res
    /\ tickPc' = "reply" /\ tickCur' = r /\ tickTodo' = tickTodo \ {r}
    /\ UNCHANGED <<db, vmem, ing, loopVars, cliCur, api, clockVars, linkVars,
                   everMined, wishVars>>

\* mark_broadcast and remove_pending_tx on success, nothing on a retriable
\* refusal, update_tx_status(Failed) on any other.
TickRecord ==
    /\ tickPc = "reply"
    /\ CASE tickRes = "ok" ->
              /\ db' = MarkBroadcast(db, tickCur)
              /\ vmem' = vmem \ {db[tickCur].tx}
         [] tickRes = "retriable" -> UNCHANGED <<db, vmem>>
         [] tickRes = "opaque" ->
              /\ db' = UpdateTxStatusFailed(db, tickCur, "opaque")
              /\ UNCHANGED vmem
    /\ tickPc' = "bcast" /\ tickCur' = NULL /\ tickRes' = NULL
    /\ UNCHANGED <<ing, tickTodo, loopVars, cliCur, api, clockVars, linkVars,
                   faults, netVars, wishVars>>

\* The statement that records the answer fails (the database is locked by a
\* second process): the answer is lost and the rest of the batch dropped.
TickDbError ==
    /\ tickPc = "reply" /\ tickRes # "retriable"
    /\ Fault("db")
    /\ tickPc' = "idle" /\ tickTodo' = {} /\ tickCur' = NULL /\ tickRes' = NULL
    /\ UNCHANGED <<db, vmem, ing, loopVars, cliCur, api, clockVars, linkVars,
                   netVars, wishVars>>

TickEnd ==
    /\ tickPc = "bcast" /\ tickTodo = {}
    /\ tickPc' = "idle"
    /\ UNCHANGED <<db, vmem, ing, tickTodo, tickCur, tickRes, loopVars, cliCur,
                   api, clockVars, linkVars, faults, netVars, wishVars>>

TickNext ==
    \/ TickStart \/ TickListFailed \/ TickListDue \/ TickRecord \/ TickDbError
    \/ TickEnd
    \/ \E r \in Row : TickMark(r) \/ TickRequeue(r) \/ TickSkip(r)
                      \/ TickAbort(r) \/ TickSend(r)

-----------------------------------------------------------------------------
(* The other loops.  Each lists rows when its hands are empty.             *)

\* run_block_height_monitor: health, height and list.
BlkList ==
    /\ blkTodo = {} /\ IndexerHealthy
    /\ blkTodo' = {r \in PendingByBlockHeight(db) : height >= db[r].nlock}
    /\ blkTodo' # {}
    /\ UNCHANGED <<db, vmem, ing, tickVars, prcSeen, prcTodo, confTodo, rebTodo,
                   cliCur, api, clockVars, linkVars, faults, netVars, wishVars>>

BlkMark(r) ==
    /\ r \in blkTodo
    /\ db' = MarkDue(db, r, now)
    /\ blkTodo' = blkTodo \ {r}
    /\ UNCHANGED <<vmem, ing, tickVars, prcSeen, prcTodo, confTodo, rebTodo,
                   cliCur, api, clockVars, linkVars, faults, netVars, wishVars>>

\* run_price_monitor: the price is fetched first and the rows are listed and
\* compared with it later, in check_price_triggers.
PrcFetch ==
    /\ prcSeen = NULL /\ prcTodo = {}
    /\ prcSeen' = price
    /\ UNCHANGED <<db, vmem, ing, tickVars, blkTodo, prcTodo, confTodo, rebTodo,
                   cliCur, api, clockVars, linkVars, faults, netVars, wishVars>>

PrcList ==
    /\ prcSeen # NULL
    /\ prcTodo' = {r \in PriceTriggeredPending(db) : db[r].price = prcSeen}
    /\ prcSeen' = NULL
    /\ UNCHANGED <<db, vmem, ing, tickVars, blkTodo, confTodo, rebTodo, cliCur,
                   api, clockVars, linkVars, faults, netVars, wishVars>>

PrcMark(r) ==
    /\ r \in prcTodo
    /\ db' = MarkDueFromPriceTrigger(db, r, now)
    /\ prcTodo' = prcTodo \ {r}
    /\ UNCHANGED <<vmem, ing, tickVars, blkTodo, prcSeen, confTodo, rebTodo,
                   cliCur, api, clockVars, linkVars, faults, netVars, wishVars>>

\* run_confirmation_checker: only RPC can tell that a transaction is mined.
ConfList ==
    /\ confTodo = {} /\ IndexerHealthy /\ rpcUp
    /\ confTodo' = ListByStatus(db, "broadcast")
    /\ confTodo' # {}
    /\ UNCHANGED <<db, vmem, ing, tickVars, blkTodo, prcSeen, prcTodo, rebTodo,
                   cliCur, api, clockVars, linkVars, faults, netVars, wishVars>>

\* Mutant: a transaction that the node knows is taken to be mined.
Bug_ConfCheck(r) ==
    /\ r \in confTodo
    /\ db' = IF rpcUp /\ net[db[r].tx] # "unknown" THEN MarkConfirmed(db, r) ELSE db
    /\ confTodo' = confTodo \ {r}
    /\ UNCHANGED <<vmem, ing, tickVars, blkTodo, prcSeen, prcTodo, rebTodo,
                   cliCur, api, clockVars, linkVars, faults, netVars, wishVars>>

\* check_confirmations for one row: an answer without a block, or no answer,
\* changes nothing.  Without txindex the node does not find what is mined.
ConfCheck(r) ==
    /\ r \in confTodo
    /\ db' = IF HasTxIndex /\ rpcUp /\ net[db[r].tx] = "mined"
             THEN MarkConfirmed(db, r) ELSE db
    /\ confTodo' = confTodo \ {r}
    /\ UNCHANGED <<vmem, ing, tickVars, blkTodo, prcSeen, prcTodo, rebTodo,
                   cliCur, api, clockVars, linkVars, faults, netVars, wishVars>>

RebList ==
    /\ rebTodo = {} /\ IndexerHealthy
    /\ rebTodo' = PendingRebroadcast(db)
    /\ rebTodo' # {}
    /\ UNCHANGED <<db, vmem, ing, tickVars, blkTodo, prcSeen, prcTodo, confTodo,
                   cliCur, api, clockVars, linkVars, faults, netVars, wishVars>>

\* Mutant: a refused rebroadcast fails the row.
Bug_RebSend(r) ==
    /\ r \in rebTodo
    /\ \E res \in Result :
          /\ Submit(AnyBackend, db[r].tx, res)
          /\ db' = IF res = "ok" THEN db ELSE UpdateTxStatusFailed(db, r, res)
    /\ rebTodo' = rebTodo \ {r}
    /\ UNCHANGED <<vmem, ing, tickVars, blkTodo, prcSeen, prcTodo, confTodo,
                   cliCur, api, clockVars, linkVars, everMined, wishVars>>

\* rebroadcast_pending for one row: it writes broadcast_at at most, never the
\* status, and only logs a refusal.
RebSend(r) ==
    /\ r \in rebTodo
    /\ \E res \in Result : Submit(AnyBackend, db[r].tx, res)
    /\ rebTodo' = rebTodo \ {r}
    /\ UNCHANGED <<db, vmem, ing, tickVars, blkTodo, prcSeen, prcTodo, confTodo,
                   cliCur, api, clockVars, linkVars, everMined, wishVars>>

\* The node has taken the transaction again and the statement that notes the time
\* fails: the rest of the list is dropped.
RebDbError(r) ==
    /\ r \in rebTodo /\ Fault("db")
    /\ NodeAccepts(AnyBackend, db[r].tx)
    /\ net' = [net EXCEPT ![db[r].tx] = "mempool"]
    /\ accepted' = accepted \cup {db[r].tx}
    /\ rebTodo' = {}
    /\ UNCHANGED <<db, vmem, ing, tickVars, blkTodo, prcSeen, prcTodo, confTodo,
                   cliCur, api, clockVars, linkVars, everMined, wishVars>>

BlkNext  == BlkList \/ \E r \in Row : BlkMark(r)
PrcNext  == PrcFetch \/ PrcList \/ \E r \in Row : PrcMark(r)
ConfNext == ConfList \/ \E r \in Row : ConfCheck(r)
RebNext  == RebList \/ \E r \in Row : RebSend(r) \/ RebDbError(r)
IngestNext(r) == IngestInsert(r) \/ IngestStore(r) \/ IngestMarkDue(r)

-----------------------------------------------------------------------------
(* Commands: the web API, and the command line in a process of its own.    *)

\* A command line starts: like the daemon, it requeues the retriable failures
\* before it does what it is for.
CliStart ==
    /\ {"cli", "import_at"} \cap UserOps # {}
    /\ db' = RequeueRetriableFailures(db)
    /\ UNCHANGED <<vmem, ing, tickVars, loopVars, cliCur, api, clockVars,
                   linkVars, faults, netVars, wishVars>>

\* schedule_at reads the row and decides, whatever the row's status.
ApiScheduleAt(r, t) ==
    /\ "at" \in UserOps /\ api = NULL /\ InTable(db, r)
    /\ t > now
    /\ db[r].nlock > LOCKTIME_THRESHOLD => t >= db[r].nlock
    /\ api' = [op |-> "at", row |-> r, at |-> t,
               isReschedule |-> IsReschedule(db[r]), side |-> NULL]
    /\ UNCHANGED <<db, vmem, ing, tickVars, loopVars, cliCur, clockVars,
                   linkVars, faults, netVars, wishVars>>

\* schedule_by_price reads the row and checks it.
ApiScheduleByPrice(r, side) ==
    /\ "price" \in UserOps /\ api = NULL
    /\ db[r].status \in {"pending", "scheduled"}
    /\ db[r].mode = "manual" /\ db[r].nlock = 0
    /\ api' = [op |-> "price", row |-> r, at |-> 0, isReschedule |-> FALSE,
               side |-> side]
    /\ UNCHANGED <<db, vmem, ing, tickVars, loopVars, cliCur, clockVars,
                   linkVars, faults, netVars, wishVars>>

\* ... and the statement that follows trusts what was read.
ApiWrite ==
    /\ api # NULL
    /\ \/ /\ api.op = "at"
          /\ db' = UpdateReschedule(db, api.row, api.at,
                                    IF api.isReschedule THEN api.at ELSE NULL)
          /\ Commanded(api.row, Ask("at", api.at))
       \/ /\ api.op = "price"
          /\ db' = UpdatePriceSchedule(db, api.row, api.side)
          /\ Commanded(api.row, Ask(api.side, 0))
    /\ api' = NULL
    /\ UNCHANGED <<vmem, ing, tickVars, loopVars, cliCur, clockVars, linkVars,
                   faults, netVars>>

\* schedule_transaction (and schedule_all_pending, row by row): a random delay,
\* with no look at the row.
ScheduleTransaction(r, t) ==
    /\ "delay" \in UserOps /\ InTable(db, r)
    /\ t >= now
    /\ db' = SetRandomSchedule(db, r, t)
    /\ Commanded(r, Ask("delay", t))
    /\ UNCHANGED <<vmem, ing, tickVars, loopVars, cliCur, api, clockVars,
                   linkVars, faults, netVars>>

\* remove_transaction: the row and the virtual mempool entry of its txid.
RemoveTransaction(r) ==
    /\ "remove" \in UserOps /\ InTable(db, r)
    /\ db' = RemoveBroadcastTx(db, r)
    /\ vmem' = vmem \ {db[r].tx}
    /\ UNCHANGED <<ing, tickVars, loopVars, cliCur, api, clockVars, linkVars,
                   faults, netVars, wishVars>>

\* retry_failed_transaction.
RetryFailedTransaction(r) ==
    /\ "retry" \in UserOps /\ db[r].status = "failed"
    /\ db' = ResetFailedToScheduled(db, r)
    /\ UNCHANGED <<vmem, ing, tickVars, loopVars, cliCur, api, clockVars,
                   linkVars, faults, netVars, wishVars>>

\* Mutant: an immediate row is marked as due.
Bug_ImportTransaction(r, t) ==
    /\ "import" \in UserOps
    /\ ing[r].pc = "idle" /\ db[r].status = "fresh"
    /\ db' = MarkDue(InsertBroadcastTx(db, r, t, 0, "immediate", NULL), r, now)
    /\ ask' = [ask EXCEPT ![r] = Ask("hold", 0)]
    /\ UNCHANGED <<vmem, ing, tickVars, loopVars, cliCur, api, clockVars,
                   linkVars, faults, netVars, priceMet, raced>>

\* import_transaction of the API, or `import`: no locktime, mode "immediate" by
\* default and no time, and nothing in the virtual mempool.
ImportTransaction(r, t) ==
    /\ "import" \in UserOps
    /\ ing[r].pc = "idle" /\ db[r].status = "fresh"
    /\ db' = InsertBroadcastTx(db, r, t, 0, "immediate", NULL)
    /\ ask' = [ask EXCEPT ![r] = Ask("hold", 0)]
    /\ UNCHANGED <<vmem, ing, tickVars, loopVars, cliCur, api, clockVars,
                   linkVars, faults, netVars, priceMet, raced>>

\* `import --schedule`: the time asked for is inserted, and the call of
\* schedule_transaction that follows puts a random delay in its place, which is
\* what the row waits for.  No actor lists a pending immediate row, so the two
\* statements are one step.
CliImportAt(r, t, at, delay) ==
    /\ "import_at" \in UserOps
    /\ ing[r].pc = "idle" /\ db[r].status = "fresh"
    /\ at >= now /\ delay >= now
    /\ db' = SetRandomSchedule(
                 InsertBroadcastTx(db, r, t, 0, "immediate", at), r, delay)
    /\ ask' = [ask EXCEPT ![r] = Ask("delay", delay)]
    /\ UNCHANGED <<vmem, ing, tickVars, loopVars, cliCur, api, clockVars,
                   linkVars, faults, netVars, priceMet, raced>>

\* `pool broadcast`, and `broadcast-all` for one of its rows: a row that is not
\* confirmed is sent at once.  Only broadcast-all has an RPC client ...
CliBroadcast(r) ==
    /\ "cli" \in UserOps /\ cliCur = NULL
    /\ InTable(db, r) /\ db[r].status # "confirmed"
    /\ \E up \in {idxUp, AnyBackend}, res \in Result :
          /\ Submit(up, db[r].tx, res)
          /\ cliCur' = IF res = "ok" THEN r ELSE NULL
    /\ ask' = [ask EXCEPT ![r] = Ask("now", 0)]
    /\ UNCHANGED <<db, vmem, ing, tickVars, loopVars, api, clockVars, linkVars,
                   everMined, priceMet, raced>>

\* ... and then records it in the table both processes share; the daemon's
\* virtual mempool is out of its reach.
CliMark ==
    /\ cliCur # NULL
    /\ db' = MarkBroadcast(db, cliCur)
    /\ cliCur' = NULL
    /\ UNCHANGED <<vmem, ing, tickVars, loopVars, api, clockVars, linkVars,
                   faults, netVars, wishVars>>

\* ... unless the statement fails, the table being locked by the daemon.
CliDbError ==
    /\ cliCur # NULL /\ Fault("db")
    /\ cliCur' = NULL
    /\ UNCHANGED <<db, vmem, ing, tickVars, loopVars, api, clockVars, linkVars,
                   netVars, wishVars>>

\* `pool remove` in a process of its own: the daemon's virtual mempool still
\* holds the transaction.
CliRemove(r) ==
    /\ "cli" \in UserOps /\ InTable(db, r)
    /\ db' = RemoveBroadcastTx(db, r)
    /\ UNCHANGED <<vmem, ing, tickVars, loopVars, cliCur, api, clockVars,
                   linkVars, faults, netVars, wishVars>>

\* The daemon dies and starts again: what was in hand is lost, the virtual
\* mempool is rebuilt from the table if an indexer is configured, and the
\* retriable failures are requeued before the loops start.
Restart ==
    /\ Fault("restart")
    /\ ing' = [r \in Row |-> IF ing[r].pc \in {"acked", "inserted", "stored"}
                             THEN [ing[r] EXCEPT !.pc = "lost"] ELSE ing[r]]
    /\ tickPc' = "idle" /\ tickTodo' = {} /\ tickCur' = NULL /\ tickRes' = NULL
    /\ blkTodo' = {} /\ prcSeen' = NULL /\ prcTodo' = {}
    /\ confTodo' = {} /\ rebTodo' = {} /\ api' = NULL
    /\ vmem' = IF HasIndexer THEN RehydratedTxs(db) ELSE {}
    /\ db' = RequeueRetriableFailures(db)
    /\ UNCHANGED <<cliCur, clockVars, linkVars, netVars, wishVars>>

-----------------------------------------------------------------------------
(* The world outside (external).                                           *)

Elapse ==
    /\ now < MaxTime
    /\ now' = now + 1
    /\ UNCHANGED <<db, vmem, ing, tickVars, loopVars, cliCur, api, height, mtp,
                   price, linkVars, faults, netVars, wishVars>>

\* A block: some of the mempool is mined and the median time past may move,
\* never beyond the clock.
Mine ==
    /\ height < MaxHeight
    /\ height' = height + 1
    /\ mtp' \in {mtp, now}
    /\ \E S \in SUBSET {t \in Tx : net[t] = "mempool"} :
          /\ net' = [t \in Tx |-> IF t \in S THEN "mined" ELSE net[t]]
          /\ everMined' = everMined \cup S
    /\ UNCHANGED <<db, vmem, ing, tickVars, loopVars, cliCur, api, now, price,
                   linkVars, faults, accepted, wishVars>>

\* A reorganisation that ends at the same height: transactions return to the
\* mempool and the median time past may move back.
Reorg ==
    /\ Fault("reorg")
    /\ mtp' = mtp \/ (mtp > LOCKTIME_THRESHOLD + 1 /\ mtp' = mtp - 1)
    /\ \E S \in SUBSET {t \in Tx : net[t] = "mined"} :
          net' = [t \in Tx |-> IF t \in S THEN "mempool" ELSE net[t]]
    /\ UNCHANGED <<db, vmem, ing, tickVars, loopVars, cliCur, api, now, height,
                   price, linkVars, accepted, everMined, wishVars>>

\* The node drops a transaction from its mempool.
Evict(t) ==
    /\ Fault("evict")
    /\ net[t] = "mempool"
    /\ net' = [net EXCEPT ![t] = "unknown"]
    /\ UNCHANGED <<db, vmem, ing, tickVars, loopVars, cliCur, api, clockVars,
                   linkVars, accepted, everMined, wishVars>>

PriceMoves ==
    /\ "price" \in EnvOps
    /\ price' \in Side \ {price}
    /\ priceMet' = priceMet \cup {r \in Row : ask[r].kind = price'}
    /\ UNCHANGED <<db, vmem, ing, tickVars, loopVars, cliCur, api, now, height,
                   mtp, linkVars, faults, netVars, ask, raced>>

IndexerFails ==
    /\ Fault("indexer") /\ idxUp /\ idxUp' = FALSE
    /\ UNCHANGED <<db, vmem, ing, tickVars, loopVars, cliCur, api, clockVars,
                   rpcUp, netVars, wishVars>>

IndexerRecovers ==
    /\ HasIndexer /\ ~idxUp /\ idxUp' = TRUE
    /\ UNCHANGED <<db, vmem, ing, tickVars, loopVars, cliCur, api, clockVars,
                   rpcUp, faults, netVars, wishVars>>

RpcFails ==
    /\ Fault("rpc") /\ rpcUp /\ rpcUp' = FALSE
    /\ UNCHANGED <<db, vmem, ing, tickVars, loopVars, cliCur, api, clockVars,
                   idxUp, netVars, wishVars>>

RpcRecovers ==
    /\ HasRpc /\ ~rpcUp /\ rpcUp' = TRUE
    /\ UNCHANGED <<db, vmem, ing, tickVars, loopVars, cliCur, api, clockVars,
                   idxUp, faults, netVars, wishVars>>

-----------------------------------------------------------------------------
IngestStep ==
    \E r \in Row :
        \/ \E t \in Tx, src \in Wallet : IngestAck(r, t, src)
        \/ IngestNext(r) \/ IngestFail(r)

CommandStep ==
    \/ ApiWrite \/ CliStart \/ CliMark \/ CliDbError
    \/ \E r \in Row :
        \/ \E t \in Time : ApiScheduleAt(r, t) \/ ScheduleTransaction(r, t)
        \/ \E side \in Side : ApiScheduleByPrice(r, side)
        \/ \E t \in Tx : ImportTransaction(r, t)
        \/ \E t \in Tx, at \in Time, delay \in Time : CliImportAt(r, t, at, delay)
        \/ RemoveTransaction(r) \/ RetryFailedTransaction(r)
        \/ CliBroadcast(r) \/ CliRemove(r)

WorldStep ==
    \/ Elapse \/ Mine \/ Reorg \/ PriceMoves \/ Restart
    \/ \E t \in Tx : Evict(t)
    \/ IndexerFails \/ IndexerRecovers \/ RpcFails \/ RpcRecovers

Next == IngestStep \/ TickNext \/ BlkNext \/ PrcNext \/ ConfNext \/ RebNext
        \/ CommandStep \/ WorldStep

Spec == Init /\ [][Next]_vars

\* Every loop is a task that runs for ever, a spawned ingest runs to its end,
\* and a request or a process that has begun its second half finishes it.
LoopFairness ==
    /\ WF_vars(TickNext) /\ WF_vars(BlkNext) /\ WF_vars(PrcNext)
    /\ WF_vars(ConfNext) /\ WF_vars(RebNext)
    /\ \A r \in Row : WF_vars(IngestNext(r))
    /\ WF_vars(ApiWrite) /\ WF_vars(CliMark)

\* Outages end.
BackendFairness == WF_vars(IndexerRecovers) /\ WF_vars(RpcRecovers)

OutageSpec == Spec /\ LoopFairness
FairSpec   == Spec /\ LoopFairness /\ BackendFairness

-----------------------------------------------------------------------------
(* Safety.                                                                 *)

\* The table never runs ahead of the node.  A row is "broadcast", or carries a
\* txid, only if a node has accepted its transaction, and is "confirmed" only
\* if the transaction has been in a block: through restarts, lost answers,
\* stale marks and a second process that shares the table (mark_broadcast and
\* mark_confirmed write whatever the row's status is).
RecordedMeansHappened ==
    \A r \in Row :
        /\ db[r].status = "broadcast" \/ db[r].txid => db[r].tx \in accepted
        /\ db[r].status = "confirmed" \/ db[r].confAt => db[r].tx \in everMined

\* Step: the broadcast loop hands row r to a backend.
Sends(r) == tickPc = "bcast" /\ tickPc' = "reply" /\ tickCur' = r

\* The daemon makes a transaction public only when the user's last instruction
\* about its row has been fulfilled: its time has come, its delay is over, its
\* block is there, or its price has been seen.  Excepted are a transaction a
\* node already knows, a command that met the row in the broadcast loop's batch
\* or, with no defer_until to guard it, in a monitor's hands, and a delay given
\* to a row that keeps an earlier defer_until or price trigger.
InstructionHonoured ==
    [][\A r \in Row :
          Sends(r) /\ r \notin raced /\ db[r].tx \notin accepted
          => InstructionMet(r)]_vars

\* Rows the user has not told to go anywhere else: the daemon has sent nothing
\* of a transaction that is held in all its rows.  "held" is the promise of the
\* pool: a wallet's broadcast stays private until someone releases it.
HeldStaysPrivate ==
    \A t \in Tx :
        t \in accepted => \E r \in Row : db[r].tx = t /\ ask[r].kind # "hold"

\* r keeps t waiting: it is being ingested, or its row has not been sent.
WaitsWith(r, t) ==
    \/ ing[r].pc \in {"acked", "inserted", "stored"} /\ ing[r].tx = t
    \/ db[r].status \in {"pending", "scheduled", "failed"} /\ db[r].tx = t

\* A wallet that is told "broadcast" finds its transaction in the virtual mempool,
\* and no step takes from it what still waits and no node has: neither a refusal,
\* nor a failed insert, nor what happens to another row of the same transaction.
\* The exceptions are the removal of a row of that transaction, which removes it
\* for all of them, and a restart, which does not read failed rows and without an
\* indexer reads none.
HeldStaysVisible ==
    [][\A r \in Row, t \in Tx :
          /\ \/ ing[r].pc = "idle" /\ ing'[r].pc = "acked"
             \/ WaitsWith(r, t) /\ t \in vmem
          /\ WaitsWith(r, t)' /\ t \notin accepted'
          => \/ t \in vmem'
             \/ \E q \in Row : db[q].tx = t /\ RemoveTransaction(q)
             \/ Restart /\ (db[r].status = "failed" \/ ~HasIndexer)]_vars

\* A row recorded as broadcast or confirmed keeps that record until a command
\* about it, whatever else goes on: a requeue of failures that listed it before
\* a second process sent it, a rebroadcast that is refused, a restart.  The
\* exceptions are the unconditional statements of an actor that already held
\* the row: a loop that listed it as due, and the ingest of an immediate one.
RecordIsKept ==
    [][\A r \in Row :
          /\ db[r].status \in {"broadcast", "confirmed"}
          /\ ~(tickPc # "requeue" /\ r \in tickTodo \cup {tickCur})
          /\ r \notin blkTodo \cup prcTodo /\ ing[r].pc # "stored"
          => \/ db'[r].status \in {"broadcast", "confirmed", "gone"}
             \/ api # NULL /\ api.row = r
             \/ \E t \in Time : ScheduleTransaction(r, t)]_vars

-----------------------------------------------------------------------------
(* Liveness, under FairSpec.                                               *)

\* A locktime transaction of a wallet is waiting in the table, its time or
\* height has come, and the node's own finality rule is satisfied.
Matured(r) ==
    /\ db[r].status \in {"pending", "scheduled", "failed"}
    /\ db[r].nlock > 0 /\ IsFinal(db[r].tx)
    /\ ask[r].kind \in {"at", "block"} /\ InstructionMet(r)

\* It is eventually in the network's hands, whatever refusals, lost answers,
\* outages and restarts it meets on the way (there are finitely many), unless
\* the user removes it or changes the instruction.
MaturedIsSent ==
    \A r \in Row :
        Matured(r) ~> (db[r].tx \in accepted \/ ~Matured(r))

\* A recorded broadcast the node has dropped is offered to it again.
DroppedIsResent ==
    \A r \in Row :
        (db[r].status = "broadcast" /\ net[db[r].tx] = "unknown")
        ~> (db[r].status # "broadcast" \/ net[db[r].tx] # "unknown")

\* A recorded broadcast that is mined is eventually recorded as confirmed.
MinedIsConfirmed ==
    \A r \in Row :
        (db[r].status = "broadcast" /\ net[db[r].tx] = "mined")
        ~> (db[r].status # "broadcast" \/ net[db[r].tx] # "mined")

\* Scheduled transactions go out through Bitcoin Core when the indexer is down
\* (umbrel-app.yml, release note v0.3.18).  Under OutageSpec, where an outage
\* may last.
SentWithoutIndexer == [](rpcUp) => MaturedIsSent
=============================================================================
