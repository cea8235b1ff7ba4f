------------------------- MODULE PoolLifecycleProofs -------------------------
(***************************************************************************)
(* Proofs about PoolLifecycle: the table never runs ahead of the node, and *)
(* no transaction is sent before the user's last instruction allows it,    *)
(* whatever the rows, transactions, commands, faults and bounds are.       *)
(*                                                                         *)
(* RecordedMeansHappened is not inductive: an answer in hand (tickRes,     *)
(* cliCur) becomes a record, so it has to be true of the row in hand, and  *)
(* a row in hand must not change its transaction.  Hands says so.          *)
(*                                                                         *)
(* InstructionHonoured speaks of a send only: WaitInv says of each row how *)
(* it waits, and which hands may not hold it meanwhile.                    *)
(***************************************************************************)
EXTENDS PoolLifecycle, TLAPS

-----------------------------------------------------------------------------
(* What the statements of PoolDb do to the table, whatever the row is.     *)

Table == [Row -> RowRecord]

\* A row the table knows or knew: its transaction no longer changes.
Known(d, r) == d[r].status # "fresh"

\* Statement d -> e says nothing new about the network: it keeps rows and
\* their transactions, and records no broadcast or confirmation.
Quiet(d, e) ==
    /\ e \in Table
    /\ \A r \in Row :
          /\ d[r].status = "fresh" => e[r] = d[r]
          /\ Known(d, r) => Known(e, r) /\ e[r].tx = d[r].tx
          /\ e[r].status = "broadcast" => d[r].status = "broadcast"
          /\ e[r].status = "confirmed" => d[r].status = "confirmed"
          /\ e[r].txid => d[r].txid
          /\ e[r].confAt => d[r].confAt

\* Statement d -> e touches row q alone, and leaves its transaction alone.
Touches(d, e, q) ==
    /\ e \in Table
    /\ \A r \in Row :
          /\ r # q \/ d[r].status = "fresh" => e[r] = d[r]
          /\ Known(d, r) => Known(e, r) /\ e[r].tx = d[r].tx

\* Statement d -> e adds row q, of transaction t, and nothing else.
Adds(d, e, q, t) ==
    /\ e \in Table
    /\ \A r \in Row : r # q => e[r] = d[r]
    /\ e[q].status = "pending" /\ e[q].tx = t
    /\ e[q].txid = FALSE /\ e[q].confAt = FALSE

\* What a quiet statement may write into a row.
LEMMA WriteQuiet ==
    ASSUME NEW d \in Table, NEW q \in Row, NEW rec \in RowRecord,
           rec.tx = d[q].tx, rec.txid => d[q].txid, rec.confAt => d[q].confAt,
           rec.status \in {"pending", "scheduled", "failed", "gone"}
    PROVE  Quiet(d, Write(d, q, rec))
  BY DEF Quiet, Table, Known, Write, InTable, TxStatus, RowRecord

\* Any statement on a row that keeps its transaction.
LEMMA WriteTouches ==
    ASSUME NEW d \in Table, NEW q \in Row, NEW rec \in RowRecord,
           rec.tx = d[q].tx, rec.status # "fresh"
    PROVE  Touches(d, Write(d, q, rec), q)
  BY DEF Touches, Table, Known, Write, InTable, TxStatus, RowRecord

\* A statement that matches no row.
LEMMA SameQuiet == ASSUME NEW d \in Table PROVE Quiet(d, d)
  BY DEF Quiet

\* reset_failed_to_scheduled.
LEMMA ResetQuiet ==
    ASSUME NEW d \in Table, NEW q \in Row
    PROVE  Quiet(d, ResetFailedToScheduled(d, q))
  <1>1. CASE d[q].status = "failed"
    <2> DEFINE rec == [d[q] EXCEPT !.status = "scheduled", !.err = NULL]
    <2>0. d[q] \in RowRecord
      BY DEF Table
    <2>1. /\ rec \in RowRecord /\ rec.tx = d[q].tx /\ rec.txid = d[q].txid
          /\ rec.confAt = d[q].confAt /\ rec.status = "scheduled"
      BY <2>0 DEF RowRecord, Status, TxStatus
    <2>2. InTable(d, q)
      BY <1>1 DEF InTable, TxStatus
    <2>3. ResetFailedToScheduled(d, q) = Write(d, q, rec)
      BY <1>1, <2>2 DEF ResetFailedToScheduled, Write
    <2> HIDE DEF rec
    <2> QED BY <2>1, <2>3, WriteQuiet
  <1>2. CASE d[q].status # "failed"
    BY <1>2, SameQuiet DEF ResetFailedToScheduled
  <1> QED BY <1>1, <1>2

\* The statements of scheduling, failing and removing.
LEMMA QuietStatements ==
    ASSUME NEW d \in Table, NEW q \in Row
    PROVE  /\ \A time \in Nat :
                 /\ Quiet(d, MarkDue(d, q, time))
                 /\ Quiet(d, MarkDueFromPriceTrigger(d, q, time))
                 /\ Quiet(d, SetRandomSchedule(d, q, time))
                 /\ \A defer \in Nat \cup {NULL} :
                       Quiet(d, UpdateReschedule(d, q, time, defer))
           /\ \A side \in Side \cup {NULL} : Quiet(d, UpdatePriceSchedule(d, q, side))
           /\ \A e \in BroadcastError : Quiet(d, UpdateTxStatusFailed(d, q, e))
           /\ Quiet(d, RemoveBroadcastTx(d, q))
  <1> d[q] \in RowRecord
    BY DEF Table
  <1>1. ASSUME NEW time \in Nat
        PROVE  Quiet(d, MarkDue(d, q, time))
    <2> DEFINE rec == [d[q] EXCEPT !.status = "scheduled", !.sched = time]
    <2>1. /\ rec \in RowRecord /\ rec.tx = d[q].tx /\ rec.txid = d[q].txid
          /\ rec.confAt = d[q].confAt /\ rec.status = "scheduled"
      BY DEF RowRecord, Status, TxStatus
    <2> HIDE DEF rec
    <2>2. Quiet(d, Write(d, q, rec))
      BY <2>1, WriteQuiet
    <2> QED BY <2>2 DEF MarkDue, rec
  <1>2. ASSUME NEW time \in Nat
        PROVE  Quiet(d, MarkDueFromPriceTrigger(d, q, time))
    <2> DEFINE rec == [d[q] EXCEPT !.status = "scheduled", !.sched = time,
                                   !.trigger = "datetime"]
    <2>1. /\ rec \in RowRecord /\ rec.tx = d[q].tx /\ rec.txid = d[q].txid
          /\ rec.confAt = d[q].confAt /\ rec.status = "scheduled"
      BY DEF RowRecord, Status, TxStatus
    <2> HIDE DEF rec
    <2>2. Quiet(d, Write(d, q, rec))
      BY <2>1, WriteQuiet
    <2> QED BY <2>2 DEF MarkDueFromPriceTrigger, rec
  <1>3. ASSUME NEW time \in Nat
        PROVE  Quiet(d, SetRandomSchedule(d, q, time))
    BY <1>1 DEF SetRandomSchedule, MarkDue
  <1>4. ASSUME NEW time \in Nat, NEW defer \in Nat \cup {NULL}
        PROVE  Quiet(d, UpdateReschedule(d, q, time, defer))
    <2> DEFINE rec == [d[q] EXCEPT !.status = "scheduled", !.sched = time,
                               !.defer = defer, !.err = NULL,
                               !.trigger = "datetime", !.price = NULL]
    <2>1. /\ rec \in RowRecord /\ rec.tx = d[q].tx /\ rec.txid = d[q].txid
          /\ rec.confAt = d[q].confAt /\ rec.status = "scheduled"
      BY DEF RowRecord, Status, TxStatus
    <2> HIDE DEF rec
    <2>2. Quiet(d, Write(d, q, rec))
      BY <2>1, WriteQuiet
    <2> QED BY <2>2 DEF UpdateReschedule, rec
  <1>5. ASSUME NEW side \in Side \cup {NULL}
        PROVE  Quiet(d, UpdatePriceSchedule(d, q, side))
    <2> DEFINE rec == [d[q] EXCEPT !.status = "pending", !.sched = NULL,
                               !.defer = NULL, !.err = NULL,
                               !.trigger = "price", !.price = side]
    <2>1. /\ rec \in RowRecord /\ rec.tx = d[q].tx /\ rec.txid = d[q].txid
          /\ rec.confAt = d[q].confAt /\ rec.status = "pending"
      BY DEF RowRecord, Status, TxStatus
    <2> HIDE DEF rec
    <2>2. Quiet(d, Write(d, q, rec))
      BY <2>1, WriteQuiet
    <2> QED BY <2>2 DEF UpdatePriceSchedule, rec
  <1>6. ASSUME NEW e \in BroadcastError
        PROVE  Quiet(d, UpdateTxStatusFailed(d, q, e))
    <2> DEFINE rec == [d[q] EXCEPT !.status = "failed", !.err = e]
    <2>1. /\ rec \in RowRecord /\ rec.tx = d[q].tx /\ rec.txid = d[q].txid
          /\ rec.confAt = d[q].confAt /\ rec.status = "failed"
      BY DEF RowRecord, Status, TxStatus
    <2> HIDE DEF rec
    <2>2. Quiet(d, Write(d, q, rec))
      BY <2>1, WriteQuiet
    <2> QED BY <2>2 DEF UpdateTxStatusFailed, rec
  <1>7. Quiet(d, RemoveBroadcastTx(d, q))
    <2> DEFINE rec == [d[q] EXCEPT !.status = "gone"]
    <2>1. /\ rec \in RowRecord /\ rec.tx = d[q].tx /\ rec.txid = d[q].txid
          /\ rec.confAt = d[q].confAt /\ rec.status = "gone"
      BY DEF RowRecord, Status, TxStatus
    <2> HIDE DEF rec
    <2>2. Quiet(d, Write(d, q, rec))
      BY <2>1, WriteQuiet
    <2> QED BY <2>2 DEF RemoveBroadcastTx, rec
  <1> QED BY <1>1, <1>2, <1>3, <1>4, <1>5, <1>6, <1>7

\* What a start of the daemon, or of any command, does to the failed rows.
LEMMA RequeueQuiet ==
    ASSUME NEW d \in Table
    PROVE  Quiet(d, RequeueRetriableFailures(d))
  <1>1. \A r \in Row : Quiet(d, ResetFailedToScheduled(d, r))
    BY ResetQuiet
  <1> QED
    BY <1>1 DEF RequeueRetriableFailures, Quiet, Table, Known

\* The two statements that record news about a transaction.
LEMMA RecordingTouches ==
    ASSUME NEW d \in Table, NEW q \in Row
    PROVE  /\ Touches(d, MarkBroadcast(d, q), q)
           /\ Touches(d, MarkConfirmed(d, q), q)
           /\ \A r \in Row :
                 /\ MarkBroadcast(d, q)[r].status = "confirmed"
                       => d[r].status = "confirmed"
                 /\ MarkBroadcast(d, q)[r].confAt = d[r].confAt
                 /\ MarkConfirmed(d, q)[r].status = "broadcast"
                       => d[r].status = "broadcast"
                 /\ MarkConfirmed(d, q)[r].txid = d[r].txid
  <1> d[q] \in RowRecord
    BY DEF Table
  <1> DEFINE sent == [d[q] EXCEPT !.status = "broadcast", !.txid = TRUE,
                                  !.missed = FALSE, !.defer = NULL]
             conf == [d[q] EXCEPT !.status = "confirmed", !.confAt = TRUE]
  <1>1. /\ sent \in RowRecord /\ sent.tx = d[q].tx /\ sent.status = "broadcast"
        /\ sent.confAt = d[q].confAt
    BY DEF RowRecord, Status, TxStatus
  <1>2. /\ conf \in RowRecord /\ conf.tx = d[q].tx /\ conf.status = "confirmed"
        /\ conf.txid = d[q].txid
    BY DEF RowRecord, Status, TxStatus
  <1>3. /\ MarkBroadcast(d, q) = Write(d, q, sent)
        /\ MarkConfirmed(d, q) = Write(d, q, conf)
    BY DEF MarkBroadcast, MarkConfirmed
  <1> HIDE DEF sent, conf
  <1>4. /\ Touches(d, MarkBroadcast(d, q), q)
        /\ Touches(d, MarkConfirmed(d, q), q)
    BY <1>1, <1>2, <1>3, WriteTouches
  <1>5. \A r \in Row :
           /\ Write(d, q, sent)[r].status = "confirmed" => d[r].status = "confirmed"
           /\ Write(d, q, sent)[r].confAt = d[r].confAt
           /\ Write(d, q, conf)[r].status = "broadcast" => d[r].status = "broadcast"
           /\ Write(d, q, conf)[r].txid = d[r].txid
    BY <1>1, <1>2 DEF Write, Table
  <1> QED BY <1>3, <1>4, <1>5

\* record_broadcast_miss leaves the status as it is.
LEMMA MissQuiet ==
    ASSUME NEW d \in Table, NEW q \in Row
    PROVE  Quiet(d, RecordBroadcastMiss(d, q))
  <1> DEFINE rec == [d[q] EXCEPT !.missed = TRUE]
  <1>1. /\ rec \in RowRecord /\ rec.tx = d[q].tx /\ rec.txid = d[q].txid
        /\ rec.confAt = d[q].confAt /\ rec.status = d[q].status
    BY DEF RowRecord, Table
  <1>2. RecordBroadcastMiss(d, q) = Write(d, q, rec)
    BY DEF RecordBroadcastMiss
  <1> HIDE DEF rec
  <1> QED BY <1>1, <1>2 DEF Quiet, Table, Known, Write, InTable, TxStatus, RowRecord

\* A new row knows nothing of the network.
LEMMA InsertIsNew ==
    ASSUME NEW d \in Table, NEW q \in Row, NEW t \in Tx, NEW nlock \in Nat,
           NEW mode \in Mode, NEW sched \in Nat \cup {NULL}
    PROVE  Adds(d, InsertBroadcastTx(d, q, t, nlock, mode, sched), q, t)
  <1> DEFINE rec == [FreshRow EXCEPT !.status = "pending", !.tx = t,
                                     !.nlock = nlock, !.mode = mode,
                                     !.sched = sched]
  <1>1. /\ rec \in RowRecord /\ rec.tx = t /\ rec.txid = FALSE
        /\ rec.confAt = FALSE /\ rec.status = "pending"
    BY DEF RowRecord, FreshRow, Status, TxStatus, Mode, Side
  <1>2. InsertBroadcastTx(d, q, t, nlock, mode, sched) = [d EXCEPT ![q] = rec]
    BY DEF InsertBroadcastTx
  <1> HIDE DEF rec
  <1> QED BY <1>1, <1>2 DEF Adds, Table

-----------------------------------------------------------------------------
(* The parts of the inductive invariant.                                   *)

\* The transaction of a row is settled once the table has known it.
SettledRows == \A r \in Row : Known(db, r) => db[r].tx \in Tx

\* Loops hold rows the table has known.
RowsInHand == tickTodo \cup blkTodo \cup prcTodo \cup confTodo \cup rebTodo
HeldRows   == \A r \in RowsInHand : Known(db, r)

\* The answers in the hands of the broadcast loop and of the command line.
TickHolds ==
    tickPc = "reply" => /\ tickCur \in Row /\ Known(db, tickCur)
                        /\ tickRes \in Result
                        /\ tickRes = "ok" => db[tickCur].tx \in accepted
CliHolds == cliCur # NULL => Known(db, cliCur) /\ db[cliCur].tx \in accepted

\* A price request carries a condition.
ApiHolds == api # NULL /\ api.op = "price" => api.side \in Side

\* An ingest under way carries a transaction, and its row is not there yet.
IngestHolds ==
    \A r \in Row :
        /\ ing[r].pc # "idle" => ing[r].tx \in Tx /\ ing[r].src \in Wallet
        /\ ing[r].pc = "acked" => ~Known(db, r)

MinedHolds == \A t \in Tx : net[t] = "mined" => t \in everMined

Hands == /\ SettledRows /\ HeldRows /\ TickHolds /\ CliHolds /\ ApiHolds
         /\ IngestHolds /\ MinedHolds

IInv == TypeOK /\ RecordedMeansHappened /\ Hands

-----------------------------------------------------------------------------
\* No row, no answer, nothing recorded.
THEOREM InitIInv == Init => IInv
  BY PoolDbAssumption, PoolAssumption
     DEF Init, IInv, TypeOK, RecordedMeansHappened, Hands, SettledRows, HeldRows,
         TickHolds, CliHolds, ApiHolds, IngestHolds, MinedHolds, RowsInHand, Known,
         FreshRow, RowRecord, Status, TxStatus, Mode, Side, IngestRecord,
         AskRecord, Ask, Result

-----------------------------------------------------------------------------
\* From db to db', known rows stay known and keep their transactions.
Settles ==
    /\ \A r \in Row : Known(db, r) => Known(db', r) /\ db'[r].tx = db[r].tx
    /\ \A r \in Row : Known(db', r) => db'[r].tx \in Tx

\* A statement with no news of the network keeps every record true.
LEMMA QuietKeeps ==
    ASSUME IInv, Quiet(db, db'), accepted \subseteq accepted',
           everMined \subseteq everMined'
    PROVE  /\ db' \in [Row -> RowRecord]
           /\ RecordedMeansHappened'
           /\ Settles
           /\ \A r \in Row : ~Known(db, r) => ~Known(db', r)
  BY DEF IInv, RecordedMeansHappened, Quiet, Known, Hands, SettledRows, TypeOK, Table,
         RowRecord, Settles

\* What is in the hands of an actor that does nothing stays true.
LEMMA Undisturbed ==
    ASSUME IInv, Settles, accepted \subseteq accepted'
    PROVE  /\ SettledRows'
           /\ UNCHANGED tickVars => TickHolds'
           /\ UNCHANGED cliCur => CliHolds'
           /\ UNCHANGED api => ApiHolds'
           /\ RowsInHand' \subseteq RowsInHand => HeldRows'
           /\ UNCHANGED <<net, everMined>> => MinedHolds'
           /\ (\A r \in Row : ~Known(db, r) => ~Known(db', r)) /\ UNCHANGED ing
                => IngestHolds'
  <1> USE DEF IInv, Hands, Settles, Known
  <1>1. SettledRows'
    BY DEF SettledRows
  <1>2. UNCHANGED tickVars => TickHolds'
    BY DEF TickHolds, tickVars
  <1>3. UNCHANGED cliCur => CliHolds'
    BY DEF CliHolds, TypeOK
  <1>4. UNCHANGED api => ApiHolds'
    BY DEF ApiHolds
  <1>5. RowsInHand' \subseteq RowsInHand => HeldRows'
    BY DEF HeldRows, RowsInHand, TypeOK
  <1>6. UNCHANGED <<net, everMined>> => MinedHolds'
    BY DEF MinedHolds
  <1>7. (\A r \in Row : ~Known(db, r) => ~Known(db', r)) /\ UNCHANGED ing
          => IngestHolds'
    BY DEF IngestHolds
  <1> QED BY <1>1, <1>2, <1>3, <1>4, <1>5, <1>6, <1>7

\* A step that writes no row at all.
LEMMA SameRows ==
    ASSUME IInv, UNCHANGED db, accepted \subseteq accepted',
           everMined \subseteq everMined'
    PROVE  Settles /\ RecordedMeansHappened'
           /\ \A r \in Row : ~Known(db, r) => ~Known(db', r)
  BY DEF IInv, Hands, SettledRows, Settles, RecordedMeansHappened, Known

-----------------------------------------------------------------------------
\* The steps of an ingest.
LEMMA IngestKeeps == IInv /\ IngestStep => IInv'
  <1> SUFFICES ASSUME IInv, NEW r \in Row,
                      \/ \E t \in Tx, src \in Wallet : IngestAck(r, t, src)
                      \/ IngestNext(r) \/ IngestFail(r)
               PROVE  IInv'
    BY DEF IngestStep
  <1> USE DEF tickVars, loopVars, clockVars, linkVars, netVars, wishVars
  <1> db \in Table
    BY DEF IInv, TypeOK, Table
  <1>1. ASSUME NEW t \in Tx, NEW src \in Wallet, IngestAck(r, t, src) PROVE IInv'
    <2>1. TypeOK'
      <3>1. ing' \in [Row -> IngestRecord] /\ vmem' \subseteq Tx
        BY <1>1 DEF IngestAck, IInv, TypeOK, IngestRecord
      <3> QED BY <1>1, <3>1 DEF IngestAck, IInv, TypeOK
    <2>2. UNCHANGED <<db, tickVars, loopVars, cliCur, api, netVars>>
      BY <1>1 DEF IngestAck
    <2>3. Settles /\ RecordedMeansHappened'
      BY <2>2, SameRows
    <2>4. IngestHolds'
      BY <1>1 DEF IngestAck, IInv, TypeOK, Hands, IngestHolds, Known
    <2>5. Hands'
      BY <2>2, <2>3, <2>4, Undisturbed DEF Hands, RowsInHand
    <2> QED BY <2>1, <2>3, <2>5 DEF IInv
  <1>2. CASE IngestInsert(r)
    <2> PICK plan \in IngestPlans(ing[r].src, LockOf[ing[r].tx]) :
          /\ db' = InsertBroadcastTx(db, r, ing[r].tx, LockOf[ing[r].tx],
                                     plan.mode, plan.sched)
          /\ ask' = [ask EXCEPT ![r] = WalletAsk(ing[r].src, LockOf[ing[r].tx], plan)]
      BY <1>2 DEF IngestInsert
    <2>1. /\ ing[r].tx \in Tx /\ LockOf[ing[r].tx] \in Nat /\ db[r].status = "fresh"
          /\ ing[r].src \in Wallet
      BY <1>2, PoolDbAssumption DEF IngestInsert, IInv, Hands, IngestHolds, Known
    <2>2. /\ plan.mode \in Mode /\ plan.sched \in Nat \cup {NULL}
          /\ plan.mode = "scheduled" => plan.sched \in Nat
      BY <2>1, PoolAssumption DEF IngestPlans, BroadcastPlans, Mode, Time, IInv, TypeOK
    <2>3. Adds(db, db', r, ing[r].tx)
      BY <2>1, <2>2, InsertIsNew
    <2>4. WalletAsk(ing[r].src, LockOf[ing[r].tx], plan) \in AskRecord
      BY <2>1, <2>2 DEF WalletAsk, Ask, AskRecord, Side
    <2>5. TypeOK'
      <3>1. ing' \in [Row -> IngestRecord]
        BY <1>2 DEF IngestInsert, IInv, TypeOK, IngestRecord
      <3>2. db' \in [Row -> RowRecord] /\ ask' \in [Row -> AskRecord]
        BY <2>3, <2>4 DEF Adds, Table, IInv, TypeOK
      <3> QED BY <1>2, <3>1, <3>2 DEF IngestInsert, IInv, TypeOK
    <2>6. RecordedMeansHappened'
      BY <1>2, <2>3 DEF IngestInsert, IInv, RecordedMeansHappened, Adds
    <2>7. Settles
      BY <2>1, <2>3 DEF Settles, IInv, Hands, SettledRows, Adds, Known
    <2>8. IngestHolds'
      BY <1>2, <2>3 DEF IngestInsert, IInv, TypeOK, IngestRecord, Hands, IngestHolds,
                        Known, Adds
    <2>9. UNCHANGED <<tickVars, loopVars, cliCur, api, netVars>>
      BY <1>2 DEF IngestInsert
    <2>10. Hands'
      BY <2>7, <2>8, <2>9, Undisturbed DEF Hands, RowsInHand
    <2> QED BY <2>5, <2>6, <2>10 DEF IInv
  <1>3. CASE IngestStore(r)
    <2>1. TypeOK'
      <3>1. ing' \in [Row -> IngestRecord]
        BY <1>3 DEF IngestStore, IInv, TypeOK, IngestRecord
      <3>2. vmem' \subseteq Tx
        BY <1>3 DEF IngestStore, IInv, TypeOK, Hands, IngestHolds
      <3> QED BY <1>3, <3>1, <3>2 DEF IngestStore, IInv, TypeOK
    <2>2. UNCHANGED <<db, tickVars, loopVars, cliCur, api, netVars>>
      BY <1>3 DEF IngestStore
    <2>3. Settles /\ RecordedMeansHappened'
      BY <2>2, SameRows
    <2>4. IngestHolds'
      BY <1>3 DEF IngestStore, IInv, TypeOK, Hands, IngestHolds, Known, IngestRecord
    <2>5. Hands'
      BY <2>2, <2>3, <2>4, Undisturbed DEF Hands, RowsInHand
    <2> QED BY <2>1, <2>3, <2>5 DEF IInv
  <1>4. CASE IngestMarkDue(r)
    <2>1. Quiet(db, db')
      BY <1>4, QuietStatements DEF IngestMarkDue, IInv, TypeOK
    <2>2. UNCHANGED <<tickVars, loopVars, cliCur, api, netVars>>
      BY <1>4 DEF IngestMarkDue
    <2>3. /\ db' \in [Row -> RowRecord] /\ RecordedMeansHappened' /\ Settles
          /\ \A q \in Row : ~Known(db, q) => ~Known(db', q)
      BY <2>1, <2>2, QuietKeeps
    <2>4. TypeOK'
      <3>1. ing' \in [Row -> IngestRecord]
        BY <1>4 DEF IngestMarkDue, IInv, TypeOK, IngestRecord
      <3> QED BY <1>4, <2>3, <3>1 DEF IngestMarkDue, IInv, TypeOK
    <2>5. IngestHolds'
      BY <1>4, <2>3 DEF IngestMarkDue, IInv, TypeOK, IngestRecord, Hands, IngestHolds
    <2>6. Hands'
      BY <2>2, <2>3, <2>5, Undisturbed DEF Hands, RowsInHand
    <2> QED BY <2>3, <2>4, <2>6 DEF IInv
  <1>5. CASE IngestFail(r)
    <2>1. TypeOK'
      <3>1. ing' \in [Row -> IngestRecord]
        BY <1>5 DEF IngestFail, IInv, TypeOK, IngestRecord
      <3>2. faults' \in 0 .. MaxFaults
        BY <1>5, PoolAssumption DEF IngestFail, Fault, IInv, TypeOK
      <3> QED BY <1>5, <3>1, <3>2 DEF IngestFail, IInv, TypeOK
    <2>2. UNCHANGED <<db, tickVars, loopVars, cliCur, api, netVars>>
      BY <1>5 DEF IngestFail
    <2>3. Settles /\ RecordedMeansHappened'
      BY <2>2, SameRows
    <2>4. IngestHolds'
      BY <1>5 DEF IngestFail, IInv, TypeOK, Hands, IngestHolds, Known, IngestRecord
    <2>5. Hands'
      BY <2>2, <2>3, <2>4, Undisturbed DEF Hands, RowsInHand
    <2> QED BY <2>1, <2>3, <2>5 DEF IInv
  <1> QED BY <1>1, <1>2, <1>3, <1>4, <1>5 DEF IngestNext

-----------------------------------------------------------------------------
\* What a submission may do: an "ok" is true, and nothing is mined by it.
LEMMA SubmitKeeps ==
    ASSUME IInv, NEW t \in Tx, NEW res \in Result, NEW up, Submit(up, t, res),
           UNCHANGED everMined
    PROVE  /\ net' \in [Tx -> {"unknown", "mempool", "mined"}]
           /\ accepted' \subseteq Tx /\ accepted \subseteq accepted'
           /\ faults' \in 0 .. MaxFaults
           /\ res = "ok" => t \in accepted'
           /\ MinedHolds'
  BY PoolAssumption DEF Submit, Fault, IInv, TypeOK, Hands, MinedHolds, RefusalText,
                        BroadcastError

\* The rows a query lists are rows of the table.
LEMMA QueriesListRows ==
    ASSUME IInv
    PROVE  /\ \A r \in PendingByScheduledTime(db, now) : r \in Row /\ Known(db, r)
           /\ \A r \in RetriableFailures(db) : r \in Row /\ Known(db, r)
           /\ \A r \in DueTransactions(db) : r \in Row /\ Known(db, r)
           /\ \A r \in PendingByBlockHeight(db) : r \in Row /\ Known(db, r)
           /\ \A r \in PriceTriggeredPending(db) : r \in Row /\ Known(db, r)
           /\ \A r \in ListByStatus(db, "broadcast") : r \in Row /\ Known(db, r)
           /\ \A r \in PendingRebroadcast(db) : r \in Row /\ Known(db, r)
  BY DEF PendingByScheduledTime, RetriableFailures, DueTransactions, ListByStatus,
         PendingByBlockHeight, PriceTriggeredPending, PendingRebroadcast, Known

\* The steps of the broadcast loop.
LEMMA TickKeeps == IInv /\ TickNext => IInv'
  <1> SUFFICES ASSUME IInv, TickNext PROVE IInv'
    OBVIOUS
  <1> USE DEF tickVars, loopVars, clockVars, linkVars, netVars, wishVars
  <1> db \in Table
    BY DEF IInv, TypeOK, Table
  <1> DEFINE Quietly == \A r \in Row : ~Known(db, r) => ~Known(db', r)
  <1>1. CASE TickStart
    <2>1. UNCHANGED <<db, ing, cliCur, api, netVars>>
      BY <1>1 DEF TickStart
    <2>2. Settles /\ RecordedMeansHappened' /\ Quietly
      BY <2>1, SameRows
    <2>3. \A r \in tickTodo' : r \in Row /\ Known(db', r)
      BY <1>1, QueriesListRows DEF TickStart, Known
    <2>4. TypeOK'
      BY <1>1, <2>3 DEF TickStart, IInv, TypeOK
    <2>5. HeldRows'
      BY <1>1, <2>2, <2>3 DEF TickStart, IInv, TypeOK, Hands, HeldRows, RowsInHand, Settles
    <2>6. TickHolds'
      BY <1>1 DEF TickStart, TickHolds
    <2> QED BY <2>1, <2>2, <2>4, <2>5, <2>6, Undisturbed DEF IInv, Hands
  <1>2. CASE TickListFailed
    <2>1. UNCHANGED <<db, ing, cliCur, api, netVars>>
      BY <1>2 DEF TickListFailed
    <2>2. Settles /\ RecordedMeansHappened' /\ Quietly
      BY <2>1, SameRows
    <2>3. \A r \in tickTodo' : r \in Row /\ Known(db', r)
      BY <1>2, QueriesListRows DEF TickListFailed, Known
    <2>4. TypeOK'
      BY <1>2, <2>3 DEF TickListFailed, IInv, TypeOK
    <2>5. HeldRows'
      BY <1>2, <2>2, <2>3 DEF TickListFailed, IInv, TypeOK, Hands, HeldRows, RowsInHand, Settles
    <2>6. TickHolds'
      BY <1>2 DEF TickListFailed, TickHolds
    <2> QED BY <2>1, <2>2, <2>4, <2>5, <2>6, Undisturbed DEF IInv, Hands
  <1>3. CASE TickListDue
    <2>1. UNCHANGED <<db, ing, cliCur, api, netVars>>
      BY <1>3 DEF TickListDue
    <2>2. Settles /\ RecordedMeansHappened' /\ Quietly
      BY <2>1, SameRows
    <2>3. \A r \in tickTodo' : r \in Row /\ Known(db', r)
      BY <1>3, QueriesListRows DEF TickListDue, Known
    <2>4. TypeOK'
      BY <1>3, <2>3 DEF TickListDue, IInv, TypeOK
    <2>5. HeldRows'
      BY <1>3, <2>2, <2>3 DEF TickListDue, IInv, TypeOK, Hands, HeldRows, RowsInHand, Settles
    <2>6. TickHolds'
      BY <1>3 DEF TickListDue, TickHolds
    <2> QED BY <2>1, <2>2, <2>4, <2>5, <2>6, Undisturbed DEF IInv, Hands
  <1>4. ASSUME NEW r \in Row, TickMark(r) PROVE IInv'
    <2>1. Quiet(db, db')
      BY <1>4, QuietStatements DEF TickMark, IInv, TypeOK
    <2>2. UNCHANGED <<ing, cliCur, api, netVars>>
      BY <1>4 DEF TickMark
    <2>3. db' \in [Row -> RowRecord] /\ RecordedMeansHappened' /\ Settles /\ Quietly
      BY <2>1, <2>2, QuietKeeps
    <2>4. TypeOK'
      BY <1>4, <2>3 DEF TickMark, IInv, TypeOK
    <2>5. RowsInHand' \subseteq RowsInHand /\ TickHolds'
      BY <1>4 DEF TickMark, RowsInHand, TickHolds
    <2> QED BY <2>2, <2>3, <2>4, <2>5, Undisturbed DEF IInv, Hands
  <1>5. ASSUME NEW r \in Row, TickRequeue(r) PROVE IInv'
    <2>1. Quiet(db, db')
      BY <1>5, ResetQuiet DEF TickRequeue, IInv, TypeOK
    <2>2. UNCHANGED <<ing, cliCur, api, netVars>>
      BY <1>5 DEF TickRequeue
    <2>3. db' \in [Row -> RowRecord] /\ RecordedMeansHappened' /\ Settles /\ Quietly
      BY <2>1, <2>2, QuietKeeps
    <2>4. TypeOK'
      BY <1>5, <2>3 DEF TickRequeue, IInv, TypeOK
    <2>5. RowsInHand' \subseteq RowsInHand /\ TickHolds'
      BY <1>5 DEF TickRequeue, RowsInHand, TickHolds
    <2> QED BY <2>2, <2>3, <2>4, <2>5, Undisturbed DEF IInv, Hands
  <1>6. ASSUME NEW r \in Row, TickSkip(r) PROVE IInv'
    <2>1. Quiet(db, db')
      BY <1>6, MissQuiet, SameQuiet DEF TickSkip, IInv, TypeOK
    <2>2. UNCHANGED <<ing, cliCur, api, netVars>>
      BY <1>6 DEF TickSkip
    <2>3. db' \in [Row -> RowRecord] /\ RecordedMeansHappened' /\ Settles /\ Quietly
      BY <2>1, <2>2, QuietKeeps
    <2>4. TypeOK'
      BY <1>6, <2>3 DEF TickSkip, IInv, TypeOK
    <2>5. RowsInHand' \subseteq RowsInHand /\ TickHolds'
      BY <1>6 DEF TickSkip, RowsInHand, TickHolds
    <2> QED BY <2>2, <2>3, <2>4, <2>5, Undisturbed DEF IInv, Hands
  <1>7. ASSUME NEW r \in Row, TickAbort(r) PROVE IInv'
    <2>1. UNCHANGED <<db, ing, cliCur, api, netVars>>
      BY <1>7 DEF TickAbort
    <2>2. Settles /\ RecordedMeansHappened' /\ Quietly
      BY <2>1, SameRows
    <2>3. TypeOK'
      BY <1>7 DEF TickAbort, IInv, TypeOK
    <2>4. RowsInHand' \subseteq RowsInHand /\ TickHolds'
      BY <1>7 DEF TickAbort, RowsInHand, TickHolds
    <2> QED BY <2>1, <2>2, <2>3, <2>4, Undisturbed DEF IInv, Hands
  <1>8. CASE TickEnd
    <2>1. UNCHANGED <<db, ing, cliCur, api, netVars>>
      BY <1>8 DEF TickEnd
    <2>2. Settles /\ RecordedMeansHappened' /\ Quietly
      BY <2>1, SameRows
    <2>3. TypeOK'
      BY <1>8 DEF TickEnd, IInv, TypeOK
    <2>4. RowsInHand' \subseteq RowsInHand /\ TickHolds'
      BY <1>8 DEF TickEnd, RowsInHand, TickHolds
    <2> QED BY <2>1, <2>2, <2>3, <2>4, Undisturbed DEF IInv, Hands
  <1>9. CASE TickDbError
    <2>1. UNCHANGED <<db, ing, cliCur, api, netVars>>
      BY <1>9 DEF TickDbError
    <2>2. Settles /\ RecordedMeansHappened' /\ Quietly
      BY <2>1, SameRows
    <2>3. TypeOK'
      BY <1>9, PoolAssumption DEF TickDbError, IInv, TypeOK, Fault
    <2>4. RowsInHand' \subseteq RowsInHand /\ TickHolds'
      BY <1>9 DEF TickDbError, RowsInHand, TickHolds
    <2> QED BY <2>1, <2>2, <2>3, <2>4, Undisturbed DEF IInv, Hands
  <1>10. ASSUME NEW r \in Row, TickSend(r) PROVE IInv'
    <2> PICK res \in Result : Submit(AnyBackend, db[r].tx, res) /\ tickRes' = res
      BY <1>10 DEF TickSend
    <2>1. UNCHANGED <<db, ing, cliCur, api, everMined>>
      BY <1>10 DEF TickSend
    <2>2. Known(db, r) /\ db[r].tx \in Tx
      BY <1>10 DEF TickSend, IInv, Hands, HeldRows, RowsInHand, SettledRows
    <2>3. /\ net' \in [Tx -> {"unknown", "mempool", "mined"}]
          /\ accepted' \subseteq Tx /\ accepted \subseteq accepted'
          /\ faults' \in 0 .. MaxFaults
          /\ res = "ok" => db[r].tx \in accepted'
          /\ MinedHolds'
      BY <2>1, <2>2, SubmitKeeps
    <2>4. Settles /\ RecordedMeansHappened' /\ Quietly
      BY <2>1, <2>3, SameRows
    <2>5. TypeOK'
      BY <1>10, <2>3 DEF TickSend, IInv, TypeOK
    <2>6. TickHolds'
      BY <1>10, <2>2, <2>3 DEF TickSend, TickHolds, Known
    <2>7. RowsInHand' \subseteq RowsInHand
      BY <1>10 DEF TickSend, RowsInHand
    <2> QED BY <2>1, <2>3, <2>4, <2>5, <2>6, <2>7, Undisturbed DEF IInv, Hands
  <1>11. CASE TickRecord
    <2>1. UNCHANGED <<ing, tickTodo, loopVars, cliCur, api, netVars>>
      BY <1>11 DEF TickRecord
    <2>2. /\ tickCur \in Row /\ Known(db, tickCur) /\ tickRes \in Result
          /\ tickRes = "ok" => db[tickCur].tx \in accepted
      BY <1>11 DEF TickRecord, IInv, Hands, TickHolds
    <2>3. /\ db' \in [Row -> RowRecord] /\ RecordedMeansHappened' /\ Settles
          /\ Quietly
      <3>1. CASE tickRes = "ok"
        <4>1. db' = MarkBroadcast(db, tickCur)
          BY <1>11, <3>1 DEF TickRecord
        <4>2. /\ Touches(db, db', tickCur)
              /\ \A r \in Row : /\ db'[r].status = "confirmed" => db[r].status = "confirmed"
                                /\ db'[r].confAt = db[r].confAt
          BY <2>2, <4>1, RecordingTouches
        <4> QED
          BY <2>1, <2>2, <3>1, <4>2
             DEF Touches, Table, IInv, RecordedMeansHappened, Hands, SettledRows, Settles,
                 Known
      <3>2. CASE tickRes = "retriable"
        <4>1. UNCHANGED db
          BY <1>11, <3>2 DEF TickRecord
        <4> QED BY <2>1, <4>1, SameRows DEF IInv, TypeOK
      <3>3. CASE tickRes = "opaque"
        <4>1. Quiet(db, db')
          BY <1>11, <2>2, <3>3, QuietStatements DEF TickRecord, BroadcastError
        <4> QED BY <2>1, <4>1, QuietKeeps
      <3> QED BY <2>2, <3>1, <3>2, <3>3 DEF Result, BroadcastError
    <2>4. vmem' \subseteq Tx
      BY <1>11, <2>2 DEF TickRecord, IInv, TypeOK, Result, BroadcastError
    <2>5. TypeOK'
      BY <1>11, <2>1, <2>3, <2>4 DEF TickRecord, IInv, TypeOK
    <2>6. TickHolds'
      BY <1>11 DEF TickRecord, TickHolds
    <2> QED BY <2>1, <2>3, <2>5, <2>6, Undisturbed DEF IInv, Hands, RowsInHand
  <1> QED
    BY <1>1, <1>2, <1>3, <1>4, <1>5, <1>6, <1>7, <1>8, <1>9, <1>10, <1>11 DEF TickNext

-----------------------------------------------------------------------------
\* The steps of the other loops.
LEMMA LoopsKeep == IInv /\ (BlkNext \/ PrcNext \/ ConfNext \/ RebNext) => IInv'
  <1> SUFFICES ASSUME IInv, (BlkNext \/ PrcNext \/ ConfNext \/ RebNext) PROVE IInv'
    OBVIOUS
  <1> USE DEF tickVars, loopVars, clockVars, linkVars, netVars, wishVars
  <1> db \in Table
    BY DEF IInv, TypeOK, Table
  <1> DEFINE Quietly == \A r \in Row : ~Known(db, r) => ~Known(db', r)
  <1>1. CASE BlkList
    <2>1. UNCHANGED <<db, tickVars, ing, cliCur, api, netVars>>
      BY <1>1 DEF BlkList
    <2>2. Settles /\ RecordedMeansHappened' /\ Quietly
      BY <2>1, SameRows
    <2>3. \A r \in blkTodo' : r \in Row /\ Known(db', r)
      BY <1>1, QueriesListRows DEF BlkList, Known
    <2>4. TypeOK'
      BY <1>1, <2>3 DEF BlkList, IInv, TypeOK
    <2>5. HeldRows'
      BY <1>1, <2>2, <2>3 DEF BlkList, IInv, TypeOK, Hands, HeldRows, RowsInHand, Settles
    <2> QED BY <2>1, <2>2, <2>4, <2>5, Undisturbed DEF IInv, Hands
  <1>2. ASSUME NEW r \in Row, BlkMark(r) PROVE IInv'
    <2>1. Quiet(db, db')
      BY <1>2, QuietStatements DEF BlkMark, IInv, TypeOK
    <2>2. UNCHANGED <<tickVars, ing, cliCur, api, netVars>>
      BY <1>2 DEF BlkMark
    <2>3. db' \in [Row -> RowRecord] /\ RecordedMeansHappened' /\ Settles /\ Quietly
      BY <2>1, <2>2, QuietKeeps
    <2>4. TypeOK'
      BY <1>2, <2>3 DEF BlkMark, IInv, TypeOK
    <2>5. RowsInHand' \subseteq RowsInHand
      BY <1>2 DEF BlkMark, RowsInHand
    <2> QED BY <2>2, <2>3, <2>4, <2>5, Undisturbed DEF IInv, Hands
  <1>3. CASE PrcFetch
    <2>1. UNCHANGED <<db, tickVars, ing, cliCur, api, netVars>>
      BY <1>3 DEF PrcFetch
    <2>2. Settles /\ RecordedMeansHappened' /\ Quietly
      BY <2>1, SameRows
    <2>3. TypeOK'
      BY <1>3 DEF PrcFetch, IInv, TypeOK
    <2>4. RowsInHand' \subseteq RowsInHand
      BY <1>3 DEF PrcFetch, RowsInHand
    <2> QED BY <2>1, <2>2, <2>3, <2>4, Undisturbed DEF IInv, Hands
  <1>4. CASE PrcList
    <2>1. UNCHANGED <<db, tickVars, ing, cliCur, api, netVars>>
      BY <1>4 DEF PrcList
    <2>2. Settles /\ RecordedMeansHappened' /\ Quietly
      BY <2>1, SameRows
    <2>3. \A r \in prcTodo' : r \in Row /\ Known(db', r)
      BY <1>4, QueriesListRows DEF PrcList, Known
    <2>4. TypeOK'
      BY <1>4, <2>3 DEF PrcList, IInv, TypeOK
    <2>5. HeldRows'
      BY <1>4, <2>2, <2>3 DEF PrcList, IInv, TypeOK, Hands, HeldRows, RowsInHand, Settles
    <2> QED BY <2>1, <2>2, <2>4, <2>5, Undisturbed DEF IInv, Hands
  <1>5. ASSUME NEW r \in Row, PrcMark(r) PROVE IInv'
    <2>1. Quiet(db, db')
      BY <1>5, QuietStatements DEF PrcMark, IInv, TypeOK
    <2>2. UNCHANGED <<tickVars, ing, cliCur, api, netVars>>
      BY <1>5 DEF PrcMark
    <2>3. db' \in [Row -> RowRecord] /\ RecordedMeansHappened' /\ Settles /\ Quietly
      BY <2>1, <2>2, QuietKeeps
    <2>4. TypeOK'
      BY <1>5, <2>3 DEF PrcMark, IInv, TypeOK
    <2>5. RowsInHand' \subseteq RowsInHand
      BY <1>5 DEF PrcMark, RowsInHand
    <2> QED BY <2>2, <2>3, <2>4, <2>5, Undisturbed DEF IInv, Hands
  <1>6. CASE ConfList
    <2>1. UNCHANGED <<db, tickVars, ing, cliCur, api, netVars>>
      BY <1>6 DEF ConfList
    <2>2. Settles /\ RecordedMeansHappened' /\ Quietly
      BY <2>1, SameRows
    <2>3. \A r \in confTodo' : r \in Row /\ Known(db', r)
      BY <1>6, QueriesListRows DEF ConfList, Known
    <2>4. TypeOK'
      BY <1>6, <2>3 DEF ConfList, IInv, TypeOK
    <2>5. HeldRows'
      BY <1>6, <2>2, <2>3 DEF ConfList, IInv, TypeOK, Hands, HeldRows, RowsInHand, Settles
    <2> QED BY <2>1, <2>2, <2>4, <2>5, Undisturbed DEF IInv, Hands
  <1>7. ASSUME NEW r \in Row, ConfCheck(r) PROVE IInv'
    <2>1. UNCHANGED <<tickVars, ing, cliCur, api, netVars>>
      BY <1>7 DEF ConfCheck
    <2>2. Known(db, r) /\ db[r].tx \in Tx
      BY <1>7 DEF ConfCheck, IInv, Hands, HeldRows, RowsInHand, SettledRows
    <2>3. /\ db' \in [Row -> RowRecord] /\ RecordedMeansHappened' /\ Settles
          /\ Quietly
      <3>1. CASE UNCHANGED db
        BY <2>1, <3>1, SameRows DEF IInv, TypeOK
      <3>2. CASE db' = MarkConfirmed(db, r) /\ net[db[r].tx] = "mined"
        <4>1. /\ Touches(db, db', r)
              /\ \A q \in Row : /\ db'[q].status = "broadcast" => db[q].status = "broadcast"
                                /\ db'[q].txid = db[q].txid
          BY <3>2, RecordingTouches
        <4>2. db[r].tx \in everMined
          BY <2>2, <3>2 DEF IInv, Hands, MinedHolds
        <4> QED
          BY <2>1, <2>2, <4>1, <4>2
             DEF Touches, Table, IInv, RecordedMeansHappened, Hands, SettledRows, Settles,
                 Known
      <3> QED BY <1>7, <3>1, <3>2 DEF ConfCheck
    <2>4. TypeOK'
      BY <1>7, <2>3 DEF ConfCheck, IInv, TypeOK
    <2>5. RowsInHand' \subseteq RowsInHand
      BY <1>7 DEF ConfCheck, RowsInHand
    <2> QED BY <2>1, <2>3, <2>4, <2>5, Undisturbed DEF IInv, Hands
  <1>8. CASE RebList
    <2>1. UNCHANGED <<db, tickVars, ing, cliCur, api, netVars>>
      BY <1>8 DEF RebList
    <2>2. Settles /\ RecordedMeansHappened' /\ Quietly
      BY <2>1, SameRows
    <2>3. \A r \in rebTodo' : r \in Row /\ Known(db', r)
      BY <1>8, QueriesListRows DEF RebList, Known
    <2>4. TypeOK'
      BY <1>8, <2>3 DEF RebList, IInv, TypeOK
    <2>5. HeldRows'
      BY <1>8, <2>2, <2>3 DEF RebList, IInv, TypeOK, Hands, HeldRows, RowsInHand, Settles
    <2> QED BY <2>1, <2>2, <2>4, <2>5, Undisturbed DEF IInv, Hands
  <1>9. ASSUME NEW r \in Row, RebSend(r) PROVE IInv'
    <2> PICK res \in Result : Submit(AnyBackend, db[r].tx, res)
      BY <1>9 DEF RebSend
    <2>1. UNCHANGED <<db, tickVars, ing, cliCur, api, everMined>>
      BY <1>9 DEF RebSend
    <2>2. Known(db, r) /\ db[r].tx \in Tx
      BY <1>9 DEF RebSend, IInv, Hands, HeldRows, RowsInHand, SettledRows
    <2>3. /\ net' \in [Tx -> {"unknown", "mempool", "mined"}]
          /\ accepted' \subseteq Tx /\ accepted \subseteq accepted'
          /\ faults' \in 0 .. MaxFaults
          /\ MinedHolds'
      BY <2>1, <2>2, SubmitKeeps
    <2>4. Settles /\ RecordedMeansHappened' /\ Quietly
      BY <2>1, <2>3, SameRows
    <2>5. TypeOK'
      BY <1>9, <2>3 DEF RebSend, IInv, TypeOK
    <2>6. RowsInHand' \subseteq RowsInHand
      BY <1>9 DEF RebSend, RowsInHand
    <2> QED BY <2>1, <2>3, <2>4, <2>5, <2>6, Undisturbed DEF IInv, Hands
  <1>10. ASSUME NEW r \in Row, RebDbError(r) PROVE IInv'
    <2>1. UNCHANGED <<db, tickVars, ing, cliCur, api, everMined>>
      BY <1>10 DEF RebDbError
    <2>2. db[r].tx \in Tx
      BY <1>10 DEF RebDbError, IInv, Hands, HeldRows, RowsInHand, SettledRows
    <2>3. /\ net' \in [Tx -> {"unknown", "mempool", "mined"}]
          /\ accepted' \subseteq Tx /\ accepted \subseteq accepted'
          /\ MinedHolds'
      BY <1>10, <2>2 DEF RebDbError, IInv, TypeOK, Hands, MinedHolds
    <2>4. Settles /\ RecordedMeansHappened' /\ Quietly
      BY <2>1, <2>3, SameRows
    <2>5. TypeOK'
      BY <1>10, <2>3, PoolAssumption DEF RebDbError, IInv, TypeOK, Fault
    <2>6. RowsInHand' \subseteq RowsInHand
      BY <1>10 DEF RebDbError, RowsInHand
    <2> QED BY <2>1, <2>3, <2>4, <2>5, <2>6, Undisturbed DEF IInv, Hands
  <1> QED
    BY <1>1, <1>2, <1>3, <1>4, <1>5, <1>6, <1>7, <1>8, <1>9, <1>10
       DEF BlkNext, PrcNext, ConfNext, RebNext

-----------------------------------------------------------------------------
\* What a command writes down about the user's wish.
LEMMA CommandedKeeps ==
    ASSUME IInv, NEW r \in Row, NEW wish \in AskRecord, Commanded(r, wish)
    PROVE  ask' \in [Row -> AskRecord] /\ priceMet' \subseteq Row /\ raced' \subseteq Row
  BY DEF Commanded, IInv, TypeOK

-----------------------------------------------------------------------------
\* A row is imported, and a quiet statement may follow: nothing else happens.
LEMMA ImportKeeps ==
    ASSUME IInv, NEW r \in Row, NEW t \in Tx, NEW e,
           db[r].status = "fresh", ing[r].pc = "idle",
           Adds(db, e, r, t), Quiet(e, db'),
           ask' \in [Row -> AskRecord],
           UNCHANGED <<vmem, ing, tickVars, loopVars, cliCur, api, clockVars, linkVars,
                       faults, netVars, priceMet, raced>>
    PROVE  IInv'
  <1> USE DEF tickVars, loopVars, clockVars, linkVars, netVars
  <1>1. db' \in [Row -> RowRecord]
    BY DEF Quiet, Table
  <1>2. /\ Known(db', r) /\ db'[r].tx = t
        /\ db'[r].status \notin {"broadcast", "confirmed"}
        /\ ~db'[r].txid /\ ~db'[r].confAt
    BY <1>1 DEF Quiet, Adds, Known, Table, RowRecord
  <1>3. ASSUME NEW q \in Row, q # r
        PROVE  /\ Known(db, q) => Known(db', q) /\ db'[q].tx = db[q].tx
               /\ ~Known(db, q) => ~Known(db', q)
               /\ db'[q].status = "broadcast" => db[q].status = "broadcast"
               /\ db'[q].status = "confirmed" => db[q].status = "confirmed"
               /\ db'[q].txid => db[q].txid
               /\ db'[q].confAt => db[q].confAt
    BY <1>3 DEF Quiet, Adds, Known
  <1>4. RecordedMeansHappened'
    <2> SUFFICES ASSUME NEW q \in Row
                 PROVE  /\ db'[q].status = "broadcast" \/ db'[q].txid
                              => db'[q].tx \in accepted
                        /\ db'[q].status = "confirmed" \/ db'[q].confAt
                              => db'[q].tx \in everMined
      BY DEF RecordedMeansHappened
    <2>1. CASE q = r
      BY <1>2, <2>1
    <2>2. CASE q # r
      <3>1. db[q].status = "fresh"
              => (~db[q].txid /\ ~db[q].confAt) \/ db'[q] = db[q]
        BY <2>2 DEF Quiet, Adds, Known
      <3>2. db'[q].status = "broadcast" \/ db'[q].status = "confirmed"
              => Known(db, q)
        BY <1>3, <2>2 DEF Known
      <3> QED BY <1>3, <2>2, <3>1, <3>2 DEF IInv, RecordedMeansHappened, Known
    <2> QED BY <2>1, <2>2
  <1>5. Settles
    BY <1>2, <1>3 DEF Settles, IInv, Hands, SettledRows, Known
  <1>6. IngestHolds'
    BY <1>3 DEF IInv, Hands, IngestHolds, Known
  <1>7. TypeOK'
    BY <1>1 DEF IInv, TypeOK
  <1> QED BY <1>4, <1>5, <1>6, <1>7, Undisturbed DEF IInv, Hands, RowsInHand

\* The commands of the user, by the web API or the command line.
LEMMA CommandsKeep == IInv /\ CommandStep => IInv'
  <1> SUFFICES ASSUME IInv, CommandStep PROVE IInv'
    OBVIOUS
  <1> USE DEF tickVars, loopVars, clockVars, linkVars, netVars, wishVars
  <1> db \in Table
    BY DEF IInv, TypeOK, Table
  <1> DEFINE Quietly == \A r \in Row : ~Known(db, r) => ~Known(db', r)
  <1>1. ASSUME NEW r \in Row, NEW t \in Time, ApiScheduleAt(r, t) PROVE IInv'
    <2>1. UNCHANGED <<db, tickVars, ing, cliCur, netVars>>
      BY <1>1 DEF ApiScheduleAt
    <2>2. Settles /\ RecordedMeansHappened' /\ Quietly
      BY <2>1, SameRows
    <2>3. TypeOK'
      BY <1>1, PoolAssumption DEF ApiScheduleAt, IInv, TypeOK, ApiRecord, Time, InTable, IsReschedule
    <2>4. RowsInHand' \subseteq RowsInHand
      BY <1>1 DEF ApiScheduleAt, RowsInHand
    <2>5. ApiHolds'
      BY <1>1 DEF ApiScheduleAt, ApiHolds
    <2> QED BY <2>1, <2>2, <2>3, <2>4, <2>5, Undisturbed DEF IInv, Hands
  <1>2. ASSUME NEW r \in Row, NEW side \in Side, ApiScheduleByPrice(r, side) PROVE IInv'
    <2>1. UNCHANGED <<db, tickVars, ing, cliCur, netVars>>
      BY <1>2 DEF ApiScheduleByPrice
    <2>2. Settles /\ RecordedMeansHappened' /\ Quietly
      BY <2>1, SameRows
    <2>3. TypeOK'
      BY <1>2 DEF ApiScheduleByPrice, IInv, TypeOK, ApiRecord
    <2>4. RowsInHand' \subseteq RowsInHand
      BY <1>2 DEF ApiScheduleByPrice, RowsInHand
    <2>5. ApiHolds'
      BY <1>2 DEF ApiScheduleByPrice, ApiHolds
    <2> QED BY <2>1, <2>2, <2>3, <2>4, <2>5, Undisturbed DEF IInv, Hands
  <1>3. CASE ApiWrite
    <2>1. UNCHANGED <<vmem, ing, tickVars, loopVars, cliCur, clockVars, linkVars, faults,
                      netVars>> /\ api' = NULL
      BY <1>3 DEF ApiWrite
    <2>2. api.row \in Row /\ api.at \in Nat /\ (api.op = "price" => api.side \in Side)
      BY <1>3 DEF ApiWrite, IInv, TypeOK, ApiRecord, Hands, ApiHolds
    <2>3. Quiet(db, db') /\ \E wish \in AskRecord : Commanded(api.row, wish)
      <3>1. CASE api.op = "at"
        <4>1. /\ db' = UpdateReschedule(db, api.row, api.at,
                                       IF api.isReschedule THEN api.at ELSE NULL)
              /\ Commanded(api.row, Ask("at", api.at))
          BY <1>3, <3>1 DEF ApiWrite
        <4>2. Ask("at", api.at) \in AskRecord
          BY <2>2 DEF Ask, AskRecord
        <4>3. Quiet(db, db')
          BY <2>2, <4>1, QuietStatements
        <4> QED BY <4>1, <4>2, <4>3
      <3>2. CASE api.op = "price"
        <4>1. /\ db' = UpdatePriceSchedule(db, api.row, api.side)
              /\ Commanded(api.row, Ask(api.side, 0))
          BY <1>3, <3>2 DEF ApiWrite
        <4>2. Ask(api.side, 0) \in AskRecord
          BY <2>2, <3>2 DEF Ask, AskRecord
        <4>3. Quiet(db, db')
          BY <2>2, <3>2, <4>1, QuietStatements
        <4> QED BY <4>1, <4>2, <4>3
      <3> QED BY <1>3, <3>1, <3>2 DEF ApiWrite
    <2>4. ask' \in [Row -> AskRecord] /\ priceMet' \subseteq Row /\ raced' \subseteq Row
      BY <2>2, <2>3, CommandedKeeps
    <2>5. db' \in [Row -> RowRecord] /\ RecordedMeansHappened' /\ Settles /\ Quietly
      BY <2>1, <2>3, QuietKeeps
    <2>6. TypeOK'
      BY <2>1, <2>4, <2>5 DEF IInv, TypeOK
    <2>7. RowsInHand' \subseteq RowsInHand /\ ApiHolds'
      BY <2>1 DEF RowsInHand, ApiHolds
    <2> QED BY <2>1, <2>5, <2>6, <2>7, Undisturbed DEF IInv, Hands
  <1>4. ASSUME NEW r \in Row, NEW t \in Time, ScheduleTransaction(r, t) PROVE IInv'
    <2>1. UNCHANGED <<vmem, ing, tickVars, loopVars, cliCur, api, clockVars, linkVars,
                      faults, netVars>>
      BY <1>4 DEF ScheduleTransaction
    <2>2. t \in Nat /\ Ask("delay", t) \in AskRecord
      BY PoolAssumption DEF Time, Ask, AskRecord
    <2>3. Quiet(db, db')
      BY <1>4, <2>2, QuietStatements DEF ScheduleTransaction
    <2>4. ask' \in [Row -> AskRecord] /\ priceMet' \subseteq Row /\ raced' \subseteq Row
      BY <1>4, <2>2, CommandedKeeps DEF ScheduleTransaction
    <2>5. db' \in [Row -> RowRecord] /\ RecordedMeansHappened' /\ Settles /\ Quietly
      BY <2>1, <2>3, QuietKeeps
    <2>6. TypeOK'
      BY <2>1, <2>4, <2>5 DEF IInv, TypeOK
    <2> QED BY <2>1, <2>5, <2>6, Undisturbed DEF IInv, Hands, RowsInHand
  <1>5. ASSUME NEW r \in Row, RemoveTransaction(r) PROVE IInv'
    <2>1. Quiet(db, db')
      BY <1>5, QuietStatements DEF RemoveTransaction, IInv, TypeOK
    <2>2. UNCHANGED <<tickVars, ing, cliCur, api, netVars>>
      BY <1>5 DEF RemoveTransaction
    <2>3. db' \in [Row -> RowRecord] /\ RecordedMeansHappened' /\ Settles /\ Quietly
      BY <2>1, <2>2, QuietKeeps
    <2>4. TypeOK'
      BY <1>5, <2>3 DEF RemoveTransaction, IInv, TypeOK
    <2>5. RowsInHand' \subseteq RowsInHand
      BY <1>5 DEF RemoveTransaction, RowsInHand
    <2> QED BY <2>2, <2>3, <2>4, <2>5, Undisturbed DEF IInv, Hands
  <1>6. ASSUME NEW r \in Row, RetryFailedTransaction(r) PROVE IInv'
    <2>1. Quiet(db, db')
      BY <1>6, ResetQuiet DEF RetryFailedTransaction, IInv, TypeOK
    <2>2. UNCHANGED <<tickVars, ing, cliCur, api, netVars>>
      BY <1>6 DEF RetryFailedTransaction
    <2>3. db' \in [Row -> RowRecord] /\ RecordedMeansHappened' /\ Settles /\ Quietly
      BY <2>1, <2>2, QuietKeeps
    <2>4. TypeOK'
      BY <1>6, <2>3 DEF RetryFailedTransaction, IInv, TypeOK
    <2>5. RowsInHand' \subseteq RowsInHand
      BY <1>6 DEF RetryFailedTransaction, RowsInHand
    <2> QED BY <2>2, <2>3, <2>4, <2>5, Undisturbed DEF IInv, Hands
  <1>7. ASSUME NEW r \in Row, NEW t \in Tx, ImportTransaction(r, t) PROVE IInv'
    <2>1. UNCHANGED <<vmem, ing, tickVars, loopVars, cliCur, api, clockVars, linkVars,
                      faults, netVars, priceMet, raced>>
      BY <1>7 DEF ImportTransaction
    <2>2. db[r].status = "fresh" /\ ing[r].pc = "idle"
      BY <1>7 DEF ImportTransaction
    <2>3. ask' \in [Row -> AskRecord]
      BY <1>7 DEF ImportTransaction, IInv, TypeOK, Ask, AskRecord
    <2>4. Adds(db, db', r, t)
      BY <1>7, InsertIsNew DEF ImportTransaction, Mode
    <2>5. Quiet(db', db')
      BY <2>4, SameQuiet DEF Adds
    <2> QED BY <2>1, <2>2, <2>3, <2>4, <2>5, ImportKeeps
  <1>8. ASSUME NEW r \in Row, NEW t \in Tx, NEW at \in Time, NEW delay \in Time,
                CliImportAt(r, t, at, delay)
         PROVE  IInv'
    <2> DEFINE e == InsertBroadcastTx(db, r, t, 0, "immediate", at)
    <2>1. /\ UNCHANGED <<vmem, ing, tickVars, loopVars, cliCur, api, clockVars,
                         linkVars, faults, netVars, priceMet, raced>>
          /\ db[r].status = "fresh" /\ ing[r].pc = "idle"
          /\ db' = SetRandomSchedule(e, r, delay)
      BY <1>8 DEF CliImportAt
    <2>2. at \in Nat /\ delay \in Nat
      BY PoolAssumption DEF Time
    <2>3. ask' \in [Row -> AskRecord]
      BY <1>8, <2>2 DEF CliImportAt, IInv, TypeOK, Ask, AskRecord
    <2>4. Adds(db, e, r, t)
      BY <2>2, InsertIsNew DEF Mode
    <2> HIDE DEF e
    <2>5. e \in Table
      BY <2>4 DEF Adds
    <2>6. Quiet(e, SetRandomSchedule(e, r, delay))
      BY <2>2, <2>5, QuietStatements
    <2> QED BY <2>1, <2>3, <2>4, <2>6, ImportKeeps
  <1>9. ASSUME NEW r \in Row, CliBroadcast(r) PROVE IInv'
    <2> PICK up \in {idxUp, AnyBackend}, res \in Result :
                             /\ Submit(up, db[r].tx, res)
                             /\ cliCur' = IF res = "ok" THEN r ELSE NULL
      BY <1>9 DEF CliBroadcast
    <2>1. UNCHANGED <<db, tickVars, ing, api, everMined>> /\ RowsInHand' = RowsInHand
      BY <1>9 DEF CliBroadcast, RowsInHand
    <2>2. Known(db, r) /\ db[r].tx \in Tx
      BY <1>9 DEF CliBroadcast, InTable, TxStatus, IInv, Hands, SettledRows, Known
    <2>3. /\ net' \in [Tx -> {"unknown", "mempool", "mined"}]
          /\ accepted' \subseteq Tx /\ accepted \subseteq accepted'
          /\ faults' \in 0 .. MaxFaults
          /\ res = "ok" => db[r].tx \in accepted'
          /\ MinedHolds'
      BY <2>1, <2>2, SubmitKeeps
    <2>4. RecordedMeansHappened' /\ Settles /\ Quietly
      BY <2>1, <2>3, SameRows
    <2>5. TypeOK'
      BY <1>9, <2>3 DEF CliBroadcast, IInv, TypeOK, Ask, AskRecord
    <2>6. CliHolds'
      BY <2>1, <2>2, <2>3 DEF CliHolds, Known
    <2> QED BY <2>1, <2>3, <2>4, <2>5, <2>6, Undisturbed DEF IInv, Hands
  <1>10. CASE CliMark
    <2>1. UNCHANGED <<tickVars, ing, api, netVars>> /\ RowsInHand' = RowsInHand
          /\ cliCur' = NULL
      BY <1>10 DEF CliMark, RowsInHand
    <2>2. cliCur \in Row /\ Known(db, cliCur) /\ db[cliCur].tx \in accepted
      BY <1>10 DEF CliMark, IInv, TypeOK, Hands, CliHolds
    <2>3. /\ Touches(db, db', cliCur)
          /\ \A r \in Row : /\ db'[r].status = "confirmed" => db[r].status = "confirmed"
                            /\ db'[r].confAt = db[r].confAt
      BY <1>10, <2>2, RecordingTouches DEF CliMark
    <2>4. db' \in [Row -> RowRecord] /\ RecordedMeansHappened' /\ Settles /\ Quietly
      BY <2>1, <2>2, <2>3
         DEF Touches, Table, IInv, RecordedMeansHappened, Hands, SettledRows, Settles, Known
    <2>5. TypeOK' /\ CliHolds'
      BY <1>10, <2>4 DEF CliMark, IInv, TypeOK, CliHolds
    <2> QED BY <2>1, <2>4, <2>5, Undisturbed DEF IInv, Hands
  <1>11. CASE CliDbError
    <2>1. UNCHANGED <<db, tickVars, ing, api, netVars>>
      BY <1>11 DEF CliDbError
    <2>2. Settles /\ RecordedMeansHappened' /\ Quietly
      BY <2>1, SameRows
    <2>3. TypeOK'
      BY <1>11, PoolAssumption DEF CliDbError, IInv, TypeOK, Fault
    <2>4. RowsInHand' \subseteq RowsInHand
      BY <1>11 DEF CliDbError, RowsInHand
    <2>5. CliHolds'
      BY <1>11 DEF CliDbError, CliHolds
    <2> QED BY <2>1, <2>2, <2>3, <2>4, <2>5, Undisturbed DEF IInv, Hands
  <1>12. ASSUME NEW r \in Row, CliRemove(r) PROVE IInv'
    <2>1. UNCHANGED <<tickVars, ing, cliCur, api, netVars>> /\ RowsInHand' = RowsInHand
      BY <1>12 DEF CliRemove, RowsInHand
    <2>2. Quiet(db, db')
      BY <1>12, QuietStatements DEF CliRemove
    <2>3. db' \in [Row -> RowRecord] /\ RecordedMeansHappened' /\ Settles /\ Quietly
      BY <2>1, <2>2, QuietKeeps
    <2>4. TypeOK'
      BY <1>12, <2>3 DEF CliRemove, IInv, TypeOK
    <2> QED BY <2>1, <2>3, <2>4, Undisturbed DEF IInv, Hands
  <1>13. CASE CliStart
    <2>1. UNCHANGED <<tickVars, ing, cliCur, api, netVars>> /\ RowsInHand' = RowsInHand
      BY <1>13 DEF CliStart, RowsInHand
    <2>2. Quiet(db, db')
      BY <1>13, RequeueQuiet DEF CliStart
    <2>3. db' \in [Row -> RowRecord] /\ RecordedMeansHappened' /\ Settles /\ Quietly
      BY <2>1, <2>2, QuietKeeps
    <2>4. TypeOK'
      BY <1>13, <2>3 DEF CliStart, IInv, TypeOK
    <2> QED BY <2>1, <2>3, <2>4, Undisturbed DEF IInv, Hands
  <1> QED
    BY <1>1, <1>2, <1>3, <1>4, <1>5, <1>6, <1>7, <1>8, <1>9, <1>10, <1>11, <1>12, <1>13
       DEF CommandStep

-----------------------------------------------------------------------------
\* The steps of the world outside, and a restart.
LEMMA WorldKeeps == IInv /\ WorldStep => IInv'
  <1> SUFFICES ASSUME IInv, WorldStep PROVE IInv'
    OBVIOUS
  <1> USE DEF tickVars, loopVars, clockVars, linkVars, netVars, wishVars
  <1> db \in Table
    BY DEF IInv, TypeOK, Table
  <1> DEFINE Quietly == \A r \in Row : ~Known(db, r) => ~Known(db', r)
  <1>1. CASE Elapse
    <2>1. UNCHANGED <<db, tickVars, ing, cliCur, api, netVars>>
      BY <1>1 DEF Elapse
    <2>2. Settles /\ RecordedMeansHappened' /\ Quietly
      BY <2>1, SameRows
    <2>3. TypeOK'
      BY <1>1 DEF Elapse, IInv, TypeOK
    <2>4. RowsInHand' \subseteq RowsInHand
      BY <1>1 DEF Elapse, RowsInHand
    <2> QED BY <2>1, <2>2, <2>3, <2>4, Undisturbed DEF IInv, Hands
  <1>2. CASE Mine
    <2> PICK S \in SUBSET {t \in Tx : net[t] = "mempool"} :
            /\ net' = [t \in Tx |-> IF t \in S THEN "mined" ELSE net[t]]
            /\ everMined' = everMined \cup S
      BY <1>2 DEF Mine
    <2>1. UNCHANGED <<db, tickVars, ing, cliCur, api, accepted>> /\ RowsInHand' = RowsInHand
      BY <1>2 DEF Mine, RowsInHand
    <2>2. Settles /\ RecordedMeansHappened' /\ Quietly
      BY <2>1, SameRows
    <2>3. TypeOK'
      BY <1>2 DEF Mine, IInv, TypeOK
    <2>4. MinedHolds'
      BY DEF MinedHolds, IInv, Hands
    <2> QED BY <2>1, <2>2, <2>3, <2>4, Undisturbed DEF IInv, Hands
  <1>3. CASE Reorg
    <2> PICK S \in SUBSET {t \in Tx : net[t] = "mined"} :
            net' = [t \in Tx |-> IF t \in S THEN "mempool" ELSE net[t]]
      BY <1>3 DEF Reorg
    <2>1. /\ UNCHANGED <<db, tickVars, ing, cliCur, api, accepted, everMined>>
          /\ RowsInHand' = RowsInHand
      BY <1>3 DEF Reorg, RowsInHand
    <2>2. Settles /\ RecordedMeansHappened' /\ Quietly
      BY <2>1, SameRows
    <2>3. TypeOK'
      BY <1>3, PoolDbAssumption, PoolAssumption DEF Reorg, Fault, IInv, TypeOK
    <2>4. MinedHolds'
      BY <2>1 DEF MinedHolds, IInv, Hands
    <2> QED BY <2>1, <2>2, <2>3, <2>4, Undisturbed DEF IInv, Hands
  <1>4. ASSUME NEW t \in Tx, Evict(t) PROVE IInv'
    <2>1. /\ UNCHANGED <<db, tickVars, ing, cliCur, api, accepted, everMined>>
          /\ RowsInHand' = RowsInHand
      BY <1>4 DEF Evict, RowsInHand
    <2>2. Settles /\ RecordedMeansHappened' /\ Quietly
      BY <2>1, SameRows
    <2>3. TypeOK'
      BY <1>4, PoolAssumption DEF Evict, Fault, IInv, TypeOK
    <2>4. MinedHolds'
      BY <1>4 DEF Evict, MinedHolds, IInv, TypeOK, Hands
    <2> QED BY <2>1, <2>2, <2>3, <2>4, Undisturbed DEF IInv, Hands
  <1>5. CASE PriceMoves
    <2>1. UNCHANGED <<db, tickVars, ing, cliCur, api, netVars>>
      BY <1>5 DEF PriceMoves
    <2>2. Settles /\ RecordedMeansHappened' /\ Quietly
      BY <2>1, SameRows
    <2>3. TypeOK'
      BY <1>5 DEF PriceMoves, IInv, TypeOK
    <2>4. RowsInHand' \subseteq RowsInHand
      BY <1>5 DEF PriceMoves, RowsInHand
    <2> QED BY <2>1, <2>2, <2>3, <2>4, Undisturbed DEF IInv, Hands
  <1>6. CASE IndexerFails
    <2>1. UNCHANGED <<db, tickVars, ing, cliCur, api, netVars>>
      BY <1>6 DEF IndexerFails
    <2>2. Settles /\ RecordedMeansHappened' /\ Quietly
      BY <2>1, SameRows
    <2>3. TypeOK'
      <3>1. faults' = faults + 1 /\ faults < MaxFaults
        BY <1>6 DEF IndexerFails, Fault
      <3>2. faults' \in 0 .. MaxFaults
        BY <3>1, PoolAssumption DEF IInv, TypeOK
      <3>3. idxUp' \in BOOLEAN /\ rpcUp' \in BOOLEAN
        BY <1>6 DEF IndexerFails, IInv, TypeOK
      <3>4. UNCHANGED <<db, vmem, ing, tickVars, loopVars, cliCur, api, clockVars, netVars,
                        wishVars>>
        BY <1>6 DEF IndexerFails
      <3> QED BY <3>2, <3>3, <3>4 DEF IInv, TypeOK
    <2>4. RowsInHand' \subseteq RowsInHand
      BY <1>6 DEF IndexerFails, RowsInHand
    <2> QED BY <2>1, <2>2, <2>3, <2>4, Undisturbed DEF IInv, Hands
  <1>7. CASE IndexerRecovers
    <2>1. UNCHANGED <<db, tickVars, ing, cliCur, api, netVars>>
      BY <1>7 DEF IndexerRecovers
    <2>2. Settles /\ RecordedMeansHappened' /\ Quietly
      BY <2>1, SameRows
    <2>3. TypeOK'
      BY <1>7 DEF IndexerRecovers, IInv, TypeOK
    <2>4. RowsInHand' \subseteq RowsInHand
      BY <1>7 DEF IndexerRecovers, RowsInHand
    <2> QED BY <2>1, <2>2, <2>3, <2>4, Undisturbed DEF IInv, Hands
  <1>8. CASE RpcFails
    <2>1. UNCHANGED <<db, tickVars, ing, cliCur, api, netVars>>
      BY <1>8 DEF RpcFails
    <2>2. Settles /\ RecordedMeansHappened' /\ Quietly
      BY <2>1, SameRows
    <2>3. TypeOK'
      <3>1. faults' = faults + 1 /\ faults < MaxFaults
        BY <1>8 DEF RpcFails, Fault
      <3>2. faults' \in 0 .. MaxFaults
        BY <3>1, PoolAssumption DEF IInv, TypeOK
      <3>3. rpcUp' \in BOOLEAN /\ idxUp' \in BOOLEAN
        BY <1>8 DEF RpcFails, IInv, TypeOK
      <3>4. UNCHANGED <<db, vmem, ing, tickVars, loopVars, cliCur, api, clockVars, netVars,
                        wishVars>>
        BY <1>8 DEF RpcFails
      <3> QED BY <3>2, <3>3, <3>4 DEF IInv, TypeOK
    <2>4. RowsInHand' \subseteq RowsInHand
      BY <1>8 DEF RpcFails, RowsInHand
    <2> QED BY <2>1, <2>2, <2>3, <2>4, Undisturbed DEF IInv, Hands
  <1>9. CASE RpcRecovers
    <2>1. UNCHANGED <<db, tickVars, ing, cliCur, api, netVars>>
      BY <1>9 DEF RpcRecovers
    <2>2. Settles /\ RecordedMeansHappened' /\ Quietly
      BY <2>1, SameRows
    <2>3. TypeOK'
      BY <1>9 DEF RpcRecovers, IInv, TypeOK
    <2>4. RowsInHand' \subseteq RowsInHand
      BY <1>9 DEF RpcRecovers, RowsInHand
    <2> QED BY <2>1, <2>2, <2>3, <2>4, Undisturbed DEF IInv, Hands
  <1>10. CASE Restart
    <2>1. UNCHANGED <<cliCur, netVars>> /\ api' = NULL /\ RowsInHand' = {} /\ tickPc' = "idle"
      BY <1>10 DEF Restart, RowsInHand
    <2>2. Quiet(db, db')
      BY <1>10, RequeueQuiet DEF Restart
    <2>3. db' \in [Row -> RowRecord] /\ RecordedMeansHappened' /\ Settles /\ Quietly
      BY <2>1, <2>2, QuietKeeps
    <2>4. RehydratedTxs(db) \subseteq Tx
      BY DEF RehydratedTxs, ListByStatus, IInv, Hands, SettledRows, Known
    <2>5. TypeOK'
      BY <1>10, <2>3, <2>4, PoolAssumption
         DEF Restart, Fault, IInv, TypeOK, IngestRecord, Hands, IngestHolds
    <2>6. IngestHolds' /\ ApiHolds' /\ TickHolds'
      BY <1>10, <2>1, <2>3
         DEF Restart, IInv, TypeOK, IngestRecord, Hands, IngestHolds, ApiHolds, TickHolds
    <2> QED BY <2>1, <2>3, <2>5, <2>6, Undisturbed DEF IInv, Hands
  <1> QED
    BY <1>1, <1>2, <1>3, <1>4, <1>5, <1>6, <1>7, <1>8, <1>9, <1>10
       DEF WorldStep

-----------------------------------------------------------------------------
\* No step breaks the invariant, a stuttering step least of all.
THEOREM NextIInv == IInv /\ [Next]_vars => IInv'
  <1> SUFFICES ASSUME IInv, [Next]_vars PROVE IInv'
    OBVIOUS
  <1>1. CASE Next
    BY <1>1, IngestKeeps, TickKeeps, LoopsKeep, CommandsKeep, WorldKeeps DEF Next
  <1>2. CASE UNCHANGED vars
    <2>1. /\ UNCHANGED <<db, tickVars, ing, cliCur, api, netVars>>
          /\ RowsInHand' = RowsInHand
      BY <1>2 DEF vars, tickVars, loopVars, netVars, RowsInHand
    <2>2. Settles /\ RecordedMeansHappened' /\ \A r \in Row : ~Known(db, r) => ~Known(db', r)
      BY <2>1, SameRows DEF netVars
    <2>3. TypeOK'
      BY <1>2 DEF vars, tickVars, loopVars, clockVars, linkVars, netVars, wishVars, IInv,
                  TypeOK
    <2> QED BY <2>1, <2>2, <2>3, Undisturbed DEF IInv, Hands, netVars
  <1> QED BY <1>1, <1>2

\* The inductive invariant, for any rows, transactions, backends and bounds.
THEOREM AlwaysIInv == Spec => []IInv
  BY InitIInv, NextIInv, PTL DEF Spec

\* Every variable keeps its type: no statement, answer or restart puts into the
\* table a record its readers could not take.
THEOREM AlwaysTypeOK == Spec => []TypeOK
  <1>1. IInv => TypeOK
    BY DEF IInv
  <1> QED BY <1>1, AlwaysIInv, PTL

\* The table never runs ahead of the node: what is recorded as broadcast has
\* been accepted and what is recorded as confirmed has been in a block, through
\* lost answers, restarts, stale marks and the second process.
THEOREM AlwaysRecordedMeansHappened == Spec => []RecordedMeansHappened
  <1>1. IInv => RecordedMeansHappened
    BY DEF IInv
  <1> QED BY <1>1, AlwaysIInv, PTL

-----------------------------------------------------------------------------
(* Records are kept.                                                       *)

Recorded == {"broadcast", "confirmed"}

\* Statement d -> e leaves what is recorded of row r, or removes the row.
Keeps(d, e, r) == d[r].status \in Recorded => e[r].status \in Recorded \cup {"gone"}

\* Statements about other rows keep the record of r; so do, of its own, those
\* that look at the status and those that record.
LEMMA StatementsKeep ==
    ASSUME NEW d \in Table, NEW r \in Row
    PROVE  /\ Keeps(d, d, r) /\ Keeps(d, RequeueRetriableFailures(d), r)
           /\ \A q \in Row :
                 /\ Keeps(d, ResetFailedToScheduled(d, q), r)
                 /\ Keeps(d, RecordBroadcastMiss(d, q), r)
                 /\ Keeps(d, MarkBroadcast(d, q), r)
                 /\ Keeps(d, MarkConfirmed(d, q), r)
                 /\ Keeps(d, RemoveBroadcastTx(d, q), r)
           /\ \A q \in Row \ {r} :
                 /\ \A time : /\ Keeps(d, MarkDue(d, q, time), r)
                              /\ Keeps(d, MarkDueFromPriceTrigger(d, q, time), r)
                              /\ Keeps(d, SetRandomSchedule(d, q, time), r)
                 /\ \A e : Keeps(d, UpdateTxStatusFailed(d, q, e), r)
                 /\ \A time, defer : Keeps(d, UpdateReschedule(d, q, time, defer), r)
                 /\ \A side : Keeps(d, UpdatePriceSchedule(d, q, side), r)
                 /\ \A t, nlock, mode, sched :
                       Keeps(d, InsertBroadcastTx(d, q, t, nlock, mode, sched), r)
  <1> USE DEF Keeps, Recorded, Table
  <1> \A q \in Row : d[q] \in RowRecord
    OBVIOUS
  <1>1. Keeps(d, d, r)
    OBVIOUS
  <1>2. Keeps(d, RequeueRetriableFailures(d), r)
    BY DEF RequeueRetriableFailures, RetriableFailures, ListByStatus
  <1>3. ASSUME NEW q \in Row PROVE Keeps(d, ResetFailedToScheduled(d, q), r)
    BY DEF ResetFailedToScheduled
  <1>4. ASSUME NEW q \in Row, NEW rec,
               rec.status \in Recorded \cup {"gone", d[q].status} \/ q # r
        PROVE  Keeps(d, Write(d, q, rec), r)
    BY <1>4 DEF Write
  <1>5. ASSUME NEW q \in Row
        PROVE  /\ Keeps(d, RecordBroadcastMiss(d, q), r)
               /\ Keeps(d, MarkBroadcast(d, q), r)
               /\ Keeps(d, MarkConfirmed(d, q), r)
               /\ Keeps(d, RemoveBroadcastTx(d, q), r)
    <2>1. /\ [d[q] EXCEPT !.missed = TRUE].status = d[q].status
          /\ [d[q] EXCEPT !.status = "broadcast", !.txid = TRUE,
                          !.missed = FALSE, !.defer = NULL].status = "broadcast"
          /\ [d[q] EXCEPT !.status = "confirmed", !.confAt = TRUE].status = "confirmed"
          /\ [d[q] EXCEPT !.status = "gone"].status = "gone"
      BY DEF RowRecord
    <2> HIDE DEF Keeps
    <2> QED
      BY <1>4, <2>1 DEF RecordBroadcastMiss, MarkBroadcast, MarkConfirmed, RemoveBroadcastTx
  <1>6. ASSUME NEW q \in Row \ {r}
        PROVE  /\ \A time : /\ Keeps(d, MarkDue(d, q, time), r)
                            /\ Keeps(d, MarkDueFromPriceTrigger(d, q, time), r)
                            /\ Keeps(d, SetRandomSchedule(d, q, time), r)
               /\ \A e : Keeps(d, UpdateTxStatusFailed(d, q, e), r)
               /\ \A time, defer : Keeps(d, UpdateReschedule(d, q, time, defer), r)
               /\ \A side : Keeps(d, UpdatePriceSchedule(d, q, side), r)
    <2> HIDE DEF Keeps
    <2> QED
      BY <1>4 DEF MarkDue, MarkDueFromPriceTrigger, SetRandomSchedule,
                  UpdateTxStatusFailed, UpdateReschedule, UpdatePriceSchedule
  <1>7. ASSUME NEW q \in Row \ {r}, NEW t, NEW nlock, NEW mode, NEW sched
        PROVE  Keeps(d, InsertBroadcastTx(d, q, t, nlock, mode, sched), r)
    BY DEF InsertBroadcastTx
  <1> QED BY <1>1, <1>2, <1>3, <1>5, <1>6, <1>7

\* Whoever does not hold row r, and is not told about it, leaves its record.
LEMMA StepKeepsRecord ==
    ASSUME IInv, [Next]_vars, NEW r \in Row,
           db[r].status \in Recorded,
           ~(tickPc # "requeue" /\ r \in tickTodo \cup {tickCur}),
           r \notin blkTodo \cup prcTodo, ing[r].pc # "stored",
           ~(api # NULL /\ api.row = r),
           \A t \in Time : ~ScheduleTransaction(r, t)
    PROVE  Keeps(db, db', r)
  <1> db \in Table
    BY DEF IInv, TypeOK, Table
  <1>a. db[r].status # "fresh" /\ ing[r].pc # "acked"
    BY DEF Recorded, IInv, Hands, IngestHolds, Known
  <1>b. UNCHANGED db => Keeps(db, db', r)
    BY StatementsKeep
  <1>1. CASE IngestStep
    <2> PICK q \in Row : \/ \E t \in Tx, src \in Wallet : IngestAck(q, t, src)
                         \/ IngestNext(q) \/ IngestFail(q)
      BY <1>1 DEF IngestStep
    <2>1. CASE \/ \E t \in Tx, src \in Wallet : IngestAck(q, t, src)
               \/ IngestStore(q) \/ IngestFail(q)
      BY <1>b, <2>1 DEF IngestAck, IngestStore, IngestFail
    <2>2. CASE IngestInsert(q)
      BY <1>a, <2>2, StatementsKeep DEF IngestInsert
    <2>3. CASE IngestMarkDue(q)
      BY <2>3, StatementsKeep DEF IngestMarkDue
    <2> QED BY <2>1, <2>2, <2>3 DEF IngestNext
  <1>2. CASE TickNext
    <2>1. CASE TickStart \/ TickListFailed \/ TickListDue \/ TickDbError \/ TickEnd
      BY <1>b, <2>1 DEF TickStart, TickListFailed, TickListDue, TickDbError, TickEnd,
                        loopVars
    <2>2. CASE TickRecord
      <3>1. tickCur \in Row \ {r} /\ tickRes \in Result
        BY <2>2 DEF TickRecord, IInv, Hands, TickHolds
      <3>2. \/ UNCHANGED db \/ db' = MarkBroadcast(db, tickCur)
            \/ db' = UpdateTxStatusFailed(db, tickCur, "opaque")
        BY <2>2, <3>1 DEF TickRecord, Result, BroadcastError
      <3> QED BY <1>b, <3>1, <3>2, StatementsKeep
    <2>3. ASSUME NEW q \in Row, TickMark(q) PROVE Keeps(db, db', r)
      BY <2>3, StatementsKeep DEF TickMark
    <2>4. ASSUME NEW q \in Row, TickRequeue(q) \/ TickSkip(q) PROVE Keeps(db, db', r)
      BY <2>4, StatementsKeep DEF TickRequeue, TickSkip
    <2>5. ASSUME NEW q \in Row, TickAbort(q) \/ TickSend(q) PROVE Keeps(db, db', r)
      BY <1>b, <2>5 DEF TickAbort, TickSend
    <2> QED BY <1>2, <2>1, <2>2, <2>3, <2>4, <2>5 DEF TickNext
  <1>3. CASE BlkNext \/ PrcNext \/ ConfNext \/ RebNext
    <2>1. CASE BlkList \/ PrcFetch \/ PrcList \/ ConfList \/ RebList
      BY <1>b, <2>1 DEF BlkList, PrcFetch, PrcList, ConfList, RebList
    <2>2. ASSUME NEW q \in Row, BlkMark(q) \/ PrcMark(q) PROVE Keeps(db, db', r)
      BY <2>2, StatementsKeep DEF BlkMark, PrcMark
    <2>3. ASSUME NEW q \in Row, ConfCheck(q) \/ RebSend(q) PROVE Keeps(db, db', r)
      BY <2>3, StatementsKeep DEF ConfCheck, RebSend
    <2>4. ASSUME NEW q \in Row, RebDbError(q) PROVE Keeps(db, db', r)
      BY <1>b, <2>4 DEF RebDbError
    <2> QED BY <1>3, <2>1, <2>2, <2>3, <2>4 DEF BlkNext, PrcNext, ConfNext, RebNext
  <1>4. CASE CommandStep
    <2>1. CASE ApiWrite
      <3>1. api.row \in Row \ {r}
        BY <2>1 DEF ApiWrite, IInv, TypeOK, ApiRecord
      <3> QED BY <2>1, <3>1, StatementsKeep DEF ApiWrite
    <2>2. CASE CliMark
      BY <2>2, StatementsKeep DEF CliMark, IInv, TypeOK
    <2>3. CASE CliDbError
      BY <1>b, <2>3 DEF CliDbError
    <2>4. ASSUME NEW q \in Row, NEW t \in Time, ApiScheduleAt(q, t)
          PROVE  Keeps(db, db', r)
      BY <1>b, <2>4 DEF ApiScheduleAt
    <2>5. ASSUME NEW q \in Row, NEW side \in Side, ApiScheduleByPrice(q, side)
          PROVE  Keeps(db, db', r)
      BY <1>b, <2>5 DEF ApiScheduleByPrice
    <2>6. ASSUME NEW q \in Row, NEW t \in Time, ScheduleTransaction(q, t)
          PROVE  Keeps(db, db', r)
      BY <2>6, StatementsKeep DEF ScheduleTransaction
    <2>7. ASSUME NEW q \in Row, RemoveTransaction(q) \/ RetryFailedTransaction(q)
          PROVE  Keeps(db, db', r)
      BY <2>7, StatementsKeep DEF RemoveTransaction, RetryFailedTransaction
    <2>8. ASSUME NEW q \in Row, NEW t \in Tx, ImportTransaction(q, t)
          PROVE  Keeps(db, db', r)
      BY <1>a, <2>8, StatementsKeep DEF ImportTransaction
    <2>9. ASSUME NEW q \in Row, NEW t \in Tx, NEW at \in Time, NEW delay \in Time,
                 CliImportAt(q, t, at, delay)
          PROVE  Keeps(db, db', r)
      <3> DEFINE e == InsertBroadcastTx(db, q, t, 0, "immediate", at)
      <3>1. q # r /\ db' = SetRandomSchedule(e, q, delay)
        BY <1>a, <2>9 DEF CliImportAt
      <3>2. at \in Nat
        BY PoolAssumption DEF Time
      <3>3. e \in Table
        BY <3>2, InsertIsNew DEF Adds, Mode
      <3>4. e[r] = db[r]
        BY <3>1 DEF InsertBroadcastTx, Table
      <3> HIDE DEF e
      <3>5. Keeps(e, db', r)
        BY <3>1, <3>3, StatementsKeep
      <3> QED BY <3>4, <3>5 DEF Keeps
    <2>10. ASSUME NEW q \in Row, CliBroadcast(q) PROVE Keeps(db, db', r)
      BY <1>b, <2>10 DEF CliBroadcast
    <2>11. ASSUME NEW q \in Row, CliRemove(q) PROVE Keeps(db, db', r)
      BY <2>11, StatementsKeep DEF CliRemove
    <2>12. CASE CliStart
      BY <2>12, StatementsKeep DEF CliStart
    <2> QED
      BY <1>4, <2>1, <2>2, <2>3, <2>4, <2>5, <2>6, <2>7, <2>8, <2>9, <2>10, <2>11, <2>12
         DEF CommandStep
  <1>5. CASE WorldStep
    <2>1. CASE Restart
      BY <2>1, StatementsKeep DEF Restart
    <2>2. CASE WorldStep /\ ~Restart
      BY <1>b, <2>2 DEF WorldStep, Elapse, Mine, Reorg, PriceMoves, Evict, IndexerFails,
                        IndexerRecovers, RpcFails, RpcRecovers
    <2> QED BY <1>5, <2>1, <2>2
  <1>6. CASE UNCHANGED vars
    BY <1>b, <1>6 DEF vars
  <1> QED BY <1>1, <1>2, <1>3, <1>4, <1>5, <1>6 DEF Next

\* A row recorded as broadcast or confirmed keeps that record until a command
\* about it, through requeues that listed it earlier, refused rebroadcasts,
\* restarts and the second process; the actors that held it as due are excepted.
THEOREM AlwaysRecordIsKept == Spec => RecordIsKept
  <1>1. IInv /\ [Next]_vars =>
          \A r \in Row :
             /\ db[r].status \in {"broadcast", "confirmed"}
             /\ ~(tickPc # "requeue" /\ r \in tickTodo \cup {tickCur})
             /\ r \notin blkTodo \cup prcTodo /\ ing[r].pc # "stored"
             => \/ db'[r].status \in {"broadcast", "confirmed", "gone"}
                \/ api # NULL /\ api.row = r
                \/ \E t \in Time : ScheduleTransaction(r, t)
    BY StepKeepsRecord DEF Keeps, Recorded
  <1> QED BY <1>1, AlwaysIInv, PTL DEF Spec, RecordIsKept

-----------------------------------------------------------------------------
(* What waits stays visible.                                               *)

\* What a node has accepted stays accepted.
LEMMA StepAccepts == [Next]_vars => accepted \subseteq accepted'
  <1> SUFFICES ASSUME [Next]_vars PROVE accepted \subseteq accepted'
    OBVIOUS
  <1> USE DEF tickVars, loopVars, clockVars, linkVars, netVars, wishVars
  <1>1. \A t, res, up : Submit(up, t, res) => accepted \subseteq accepted'
    BY DEF Submit
  <1>2. CASE TickNext
    BY <1>1, <1>2 DEF TickNext, TickStart, TickListFailed, TickListDue, TickRecord,
       TickDbError, TickEnd, TickMark, TickRequeue, TickSkip, TickAbort, TickSend
  <1>3. CASE BlkNext \/ PrcNext \/ ConfNext \/ RebNext
    BY <1>1, <1>3 DEF BlkNext, PrcNext, ConfNext, RebNext, BlkList, BlkMark, PrcFetch,
       PrcList, PrcMark, ConfList, ConfCheck, RebList, RebSend, RebDbError
  <1>4. CASE CommandStep
    BY <1>1, <1>4 DEF CommandStep, ApiWrite, CliStart, CliMark, CliDbError,
       ApiScheduleAt, ScheduleTransaction, ApiScheduleByPrice, ImportTransaction,
       CliImportAt, RemoveTransaction, RetryFailedTransaction, CliBroadcast, CliRemove
  <1>5. CASE IngestStep \/ WorldStep \/ UNCHANGED vars
    BY <1>5 DEF IngestStep, IngestNext, IngestAck, IngestInsert, IngestStore,
       IngestMarkDue, IngestFail, WorldStep, Elapse, Mine, Reorg, PriceMoves, Restart,
       Evict, IndexerFails, IndexerRecovers, RpcFails, RpcRecovers, vars
  <1> QED BY <1>2, <1>3, <1>4, <1>5 DEF Next

\* Short of a restart, only a recorded send and a removal take anything out of
\* the virtual mempool.
LEMMA StepHides ==
    ASSUME IInv, [Next]_vars, ~Restart, NEW t \in vmem, t \notin vmem'
    PROVE  t \in accepted \/ \E q \in Row : db[q].tx = t /\ RemoveTransaction(q)
  <1> USE DEF tickVars, loopVars, clockVars, linkVars, netVars, wishVars
  <1>1. CASE TickRecord
    <2>1. tickRes = "ok" => db[tickCur].tx \in accepted
      BY <1>1 DEF TickRecord, IInv, Hands, TickHolds
    <2>2. tickRes \in Result
      BY <1>1 DEF TickRecord, IInv, Hands, TickHolds
    <2> QED BY <1>1, <2>1, <2>2 DEF TickRecord, Result, BroadcastError
  <1>2. CASE TickNext /\ ~TickRecord
    BY <1>2 DEF TickNext, TickStart, TickListFailed, TickListDue,
       TickDbError, TickEnd, TickMark, TickRequeue, TickSkip, TickAbort, TickSend
  <1>3. CASE BlkNext \/ PrcNext \/ ConfNext \/ RebNext
    BY <1>3 DEF BlkNext, PrcNext, ConfNext, RebNext, BlkList, BlkMark, PrcFetch,
       PrcList, PrcMark, ConfList, ConfCheck, RebList, RebSend, RebDbError
  <1>4. ASSUME NEW q \in Row, RemoveTransaction(q)
        PROVE  \E p \in Row : db[p].tx = t /\ RemoveTransaction(p)
    <2>1. db[q].tx = t
      BY <1>4 DEF RemoveTransaction
    <2> QED BY <1>4, <2>1
  <1>5. CASE CommandStep /\ \A q \in Row : ~RemoveTransaction(q)
    BY <1>5 DEF CommandStep, ApiWrite, CliStart, CliMark, CliDbError, ApiScheduleAt,
       ScheduleTransaction, ApiScheduleByPrice, ImportTransaction, CliImportAt,
       RetryFailedTransaction, CliBroadcast, CliRemove
  <1>6. CASE IngestStep
    BY <1>6 DEF IngestStep, IngestNext, IngestAck, IngestInsert, IngestStore,
       IngestMarkDue, IngestFail
  <1>7. CASE WorldStep \/ UNCHANGED vars
    BY <1>7 DEF WorldStep, Elapse, Mine, Reorg, PriceMoves, Evict, IndexerFails,
       IndexerRecovers, RpcFails, RpcRecovers, vars
  <1> QED BY <1>1, <1>2, <1>3, <1>4, <1>5, <1>6, <1>7 DEF Next

\* A wallet is told "broadcast" only with its transaction in the virtual mempool.
LEMMA AckShows ==
    ASSUME IInv, [Next]_vars, NEW r \in Row, NEW t \in Tx,
           ing[r].pc = "idle", ing'[r].pc = "acked", WaitsWith(r, t)'
    PROVE  t \in vmem'
  <1> USE DEF tickVars, loopVars, clockVars, linkVars, netVars, wishVars
  <1> ing \in [Row -> IngestRecord]
    BY DEF IInv, TypeOK
  <1>1. CASE IngestStep
    <2> PICK q \in Row : \/ \E u \in Tx, src \in Wallet : IngestAck(q, u, src)
                         \/ IngestNext(q) \/ IngestFail(q)
      BY <1>1 DEF IngestStep
    <2>1. CASE IngestNext(q) \/ IngestFail(q)
      BY <2>1 DEF IngestNext, IngestInsert, IngestStore, IngestMarkDue, IngestFail
    <2>2. ASSUME NEW u \in Tx, NEW src \in Wallet, IngestAck(q, u, src)
          PROVE  t \in vmem'
      <3>1. q = r
        BY <2>2 DEF IngestAck
      <3>2. db'[r].status = "fresh" /\ ing'[r].tx = u /\ u \in vmem'
        BY <2>2, <3>1 DEF IngestAck
      <3> QED BY <3>2 DEF WaitsWith
    <2> QED BY <2>1, <2>2
  <1>2. CASE TickNext
    BY <1>2 DEF TickNext, TickStart, TickListFailed, TickListDue, TickRecord,
       TickDbError, TickEnd, TickMark, TickRequeue, TickSkip, TickAbort, TickSend
  <1>3. CASE BlkNext \/ PrcNext \/ ConfNext \/ RebNext
    BY <1>3 DEF BlkNext, PrcNext, ConfNext, RebNext, BlkList, BlkMark, PrcFetch,
       PrcList, PrcMark, ConfList, ConfCheck, RebList, RebSend, RebDbError
  <1>4. CASE CommandStep
    BY <1>4 DEF CommandStep, ApiWrite, CliStart, CliMark, CliDbError, ApiScheduleAt,
       ScheduleTransaction, ApiScheduleByPrice, ImportTransaction, CliImportAt,
       RemoveTransaction, RetryFailedTransaction, CliBroadcast, CliRemove
  <1>5. CASE WorldStep \/ UNCHANGED vars
    BY <1>5 DEF WorldStep, Elapse, Mine, Reorg, PriceMoves, Restart, Evict,
       IndexerFails, IndexerRecovers, RpcFails, RpcRecovers, vars
  <1> QED BY <1>1, <1>2, <1>3, <1>4, <1>5 DEF Next

\* A restart with an indexer reads every row that waits and has not failed.
LEMMA RestartShows ==
    ASSUME IInv, Restart, HasIndexer, NEW r \in Row, NEW t \in Tx,
           db[r].status # "failed", WaitsWith(r, t)'
    PROVE  t \in vmem'
  <1>1. ing'[r].pc \notin {"acked", "inserted", "stored"}
    BY DEF Restart, IInv, TypeOK, IngestRecord
  <1>2. db'[r] = db[r]
    BY DEF Restart, RequeueRetriableFailures, RetriableFailures, ListByStatus
  <1>3. db[r].status \in {"pending", "scheduled"} /\ db[r].tx = t
    BY <1>1, <1>2 DEF WaitsWith
  <1>4. vmem' = RehydratedTxs(db)
    BY DEF Restart
  <1> QED BY <1>3, <1>4 DEF RehydratedTxs, ListByStatus

\* A wallet that is told "broadcast" finds its transaction in the virtual mempool,
\* and what still waits and no node has stays there, whatever is refused, fails or
\* happens to another row; a removal of that transaction is excepted, and a
\* restart for a failed row or without an indexer.
THEOREM AlwaysHeldStaysVisible == Spec => HeldStaysVisible
  <1>1. ASSUME IInv, [Next]_vars, NEW r \in Row, NEW t \in Tx,
               \/ ing[r].pc = "idle" /\ ing'[r].pc = "acked"
               \/ WaitsWith(r, t) /\ t \in vmem,
               WaitsWith(r, t)', t \notin accepted'
        PROVE  \/ t \in vmem'
               \/ \E q \in Row : db[q].tx = t /\ RemoveTransaction(q)
               \/ Restart /\ (db[r].status = "failed" \/ ~HasIndexer)
    <2>1. CASE ing[r].pc = "idle" /\ ing'[r].pc = "acked"
      BY <1>1, <2>1, AckShows
    <2>2. CASE t \in vmem /\ ~Restart
      <3>1. t \notin accepted
        BY <1>1, StepAccepts
      <3> QED BY <1>1, <2>2, <3>1, StepHides
    <2>3. CASE Restart
      BY <1>1, <2>3, RestartShows
    <2> QED BY <1>1, <2>1, <2>2, <2>3
  <1>2. IInv /\ [Next]_vars =>
          \A r \in Row, t \in Tx :
             /\ \/ ing[r].pc = "idle" /\ ing'[r].pc = "acked"
                \/ WaitsWith(r, t) /\ t \in vmem
             /\ WaitsWith(r, t)' /\ t \notin accepted'
             => \/ t \in vmem'
                \/ \E q \in Row : db[q].tx = t /\ RemoveTransaction(q)
                \/ Restart /\ (db[r].status = "failed" \/ ~HasIndexer)
    BY <1>1
  <1> QED BY <1>2, AlwaysIInv, PTL DEF Spec, HeldStaysVisible

-----------------------------------------------------------------------------
(* No early send.                                                          *)

\* The network holds what a node has accepted from the pool.
NetAccepted == \A t \in Tx : net[t] # "unknown" => t \in accepted

\* What the user asked for r last has not come, and r is not public.
Unmet(r) == r \notin raced /\ db[r].tx \notin accepted /\ ~InstructionMet(r)

\* A loop is about to mark r as due.
Marking(r) == (tickPc = "mark" /\ r \in tickTodo) \/ r \in blkTodo \cup prcTodo

\* Nothing of the row says when to send it.
Timeless(row) == row.status = "pending" /\ row.sched = NULL /\ row.defer = NULL

\* How row r waits for what was asked of it.  A defer_until protects it from the
\* marks of the loops; without one, no loop may be about to mark it.
AwaitsRelease(r) ==
    /\ ask[r].kind = "hold" /\ ~Marking(r) /\ Timeless(db[r])
    /\ db[r].mode # "by_block" /\ db[r].trigger # "price"

AwaitsPrice(r) ==
    /\ ask[r].kind \in Side /\ ~Marking(r) /\ Timeless(db[r])
    /\ db[r].mode = "manual" /\ db[r].trigger = "price"
    /\ db[r].price = ask[r].kind
    /\ price # ask[r].kind /\ prcSeen # ask[r].kind

AwaitsDefer(r) ==
    /\ ask[r].kind \in {"at", "delay"}
    /\ db[r].defer # NULL /\ db[r].defer >= ask[r].at

AwaitsTime(r) ==
    /\ ask[r].kind \in {"at", "delay"} /\ ~Marking(r)
    /\ db[r].defer = NULL /\ db[r].trigger # "price"
    /\ db[r].sched # NULL /\ db[r].sched >= ask[r].at
    /\ db[r].status = "pending" => db[r].mode = "scheduled"

AwaitsBlock(r) == ask[r].kind = "block" /\ db[r].nlock < LOCKTIME_THRESHOLD

Awaits(r) == \/ AwaitsRelease(r) \/ AwaitsPrice(r) \/ AwaitsDefer(r)
             \/ AwaitsTime(r) \/ AwaitsBlock(r)

\* A row that must wait is not in the broadcast loop's batch, and waits.  The
\* locktime that is neither a height nor a time for resolve_ingest_plan is a
\* height for is_locktime_satisfied, which no chain reaches.
Guarded(r) ==
    Known(db, r) /\ Unmet(r) =>
        /\ ~InTickBatch(r)
        /\ InTable(db, r) /\ db[r].nlock # LOCKTIME_THRESHOLD => Awaits(r)

\* An ingest marks as due only what the configuration decided, and a price is
\* asked for rows that the user releases.
Decided ==
    /\ \A r \in Row :
          /\ ing[r].pc \in {"inserted", "stored"} => Known(db, r)
          /\ ing[r].pc = "inserted" /\ db[r].mode = "immediate"
                => db[r].nlock = LOCKTIME_THRESHOLD
          /\ ing[r].pc = "stored" => db[r].nlock = LOCKTIME_THRESHOLD
    /\ api # NULL /\ api.op = "price" => /\ Known(db, api.row)
                                         /\ db[api.row].mode = "manual"

\* The row of an answer that has not come back.
CurInHand == tickPc # "reply" => tickCur = NULL

WaitInv == /\ height <= MaxHeight /\ NetAccepted /\ CurInHand /\ Decided
           /\ \A r \in Row : Guarded(r)

-----------------------------------------------------------------------------
\* Statement d -> e leaves row r to wait as it does: it takes back a failure or
\* removes the row at most.
LeavesAlone(d, e, r) ==
    /\ Known(e, r) => Known(d, r)
    /\ e[r].tx = d[r].tx /\ e[r].nlock = d[r].nlock /\ e[r].mode = d[r].mode
    /\ InTable(e, r) =>
         /\ InTable(d, r)
         /\ e[r].sched = d[r].sched /\ e[r].defer = d[r].defer
         /\ e[r].trigger = d[r].trigger /\ e[r].price = d[r].price
         /\ \/ e[r].status = d[r].status
            \/ d[r].status = "failed" /\ e[r].status = "scheduled"

\* Statement d -> e keeps what row r is, and its defer_until.
MarksRow(d, e, r) ==
    /\ Known(e, r) => Known(d, r)
    /\ e[r].tx = d[r].tx /\ e[r].nlock = d[r].nlock /\ e[r].defer = d[r].defer
    /\ InTable(e, r) => InTable(d, r)

\* Statement d -> e keeps what is fixed when row r is inserted.
Fixes(d, e, r) ==
    /\ e[r].tx = d[r].tx /\ e[r].nlock = d[r].nlock /\ e[r].mode = d[r].mode
    /\ Known(e, r) <=> Known(d, r)

\* What a write puts there.
LEMMA WriteLeaves ==
    ASSUME NEW d \in Table, NEW r \in Row, NEW q \in Row, NEW rec \in RowRecord
    PROVE  /\ q # r => LeavesAlone(d, Write(d, q, rec), r)
           /\ q = r /\ rec.tx = d[q].tx /\ rec.nlock = d[q].nlock /\ rec.mode = d[q].mode
              /\ rec.status # "fresh" => Fixes(d, Write(d, q, rec), r)
           /\ q # r => Fixes(d, Write(d, q, rec), r)
  BY DEF LeavesAlone, Fixes, Write, InTable, Known, TxStatus, Table

\* An update keeps the columns of the insert, and the rows it is not about.
LEMMA UpdatesLeave ==
    ASSUME NEW d \in Table, NEW r \in Row, NEW q \in Row, NEW rec \in RowRecord,
           rec.tx = d[q].tx, rec.nlock = d[q].nlock, rec.mode = d[q].mode,
           rec.status # "fresh"
    PROVE  /\ Fixes(d, Write(d, q, rec), r)
           /\ q # r => LeavesAlone(d, Write(d, q, rec), r)
  BY WriteLeaves

\* The statements, of a row and of the others.
LEMMA StatementsFix ==
    ASSUME NEW d \in Table, NEW r \in Row, NEW q \in Row
    PROVE  /\ \A time \in Nat :
                 /\ Fixes(d, MarkDue(d, q, time), r)
                 /\ q # r => LeavesAlone(d, MarkDue(d, q, time), r)
                 /\ Fixes(d, MarkDueFromPriceTrigger(d, q, time), r)
                 /\ q # r => LeavesAlone(d, MarkDueFromPriceTrigger(d, q, time), r)
                 /\ Fixes(d, SetRandomSchedule(d, q, time), r)
                 /\ q # r => LeavesAlone(d, SetRandomSchedule(d, q, time), r)
           /\ \A time \in Nat, defer \in Nat \cup {NULL} :
                 /\ Fixes(d, UpdateReschedule(d, q, time, defer), r)
                 /\ q # r => LeavesAlone(d, UpdateReschedule(d, q, time, defer), r)
           /\ \A side \in Side :
                 /\ Fixes(d, UpdatePriceSchedule(d, q, side), r)
                 /\ q # r => LeavesAlone(d, UpdatePriceSchedule(d, q, side), r)
           /\ \A e \in BroadcastError :
                 /\ Fixes(d, UpdateTxStatusFailed(d, q, e), r)
                 /\ q # r => LeavesAlone(d, UpdateTxStatusFailed(d, q, e), r)
           /\ Fixes(d, MarkBroadcast(d, q), r)
           /\ q # r => LeavesAlone(d, MarkBroadcast(d, q), r)
           /\ Fixes(d, MarkConfirmed(d, q), r)
           /\ q # r => LeavesAlone(d, MarkConfirmed(d, q), r)
  <1> d[q] \in RowRecord
    BY DEF Table
  <1>1. ASSUME NEW time \in Nat
        PROVE  /\ Fixes(d, MarkDue(d, q, time), r)
               /\ q # r => LeavesAlone(d, MarkDue(d, q, time), r)
    <2> DEFINE rec == [d[q] EXCEPT !.status = "scheduled", !.sched = time]
    <2>1. /\ rec \in RowRecord /\ rec.tx = d[q].tx /\ rec.nlock = d[q].nlock
          /\ rec.mode = d[q].mode /\ rec.status # "fresh"
      BY DEF RowRecord, Status, TxStatus
    <2>2. MarkDue(d, q, time) = Write(d, q, rec)
      BY DEF MarkDue
    <2> HIDE DEF rec
    <2> QED BY <2>1, <2>2, UpdatesLeave
  <1>2. ASSUME NEW time \in Nat
        PROVE  /\ Fixes(d, MarkDueFromPriceTrigger(d, q, time), r)
               /\ q # r => LeavesAlone(d, MarkDueFromPriceTrigger(d, q, time), r)
    <2> DEFINE rec == [d[q] EXCEPT !.status = "scheduled", !.sched = time,
                                   !.trigger = "datetime"]
    <2>1. /\ rec \in RowRecord /\ rec.tx = d[q].tx /\ rec.nlock = d[q].nlock
          /\ rec.mode = d[q].mode /\ rec.status # "fresh"
      BY DEF RowRecord, Status, TxStatus
    <2>2. MarkDueFromPriceTrigger(d, q, time) = Write(d, q, rec)
      BY DEF MarkDueFromPriceTrigger
    <2> HIDE DEF rec
    <2> QED BY <2>1, <2>2, UpdatesLeave
  <1>3. ASSUME NEW time \in Nat
        PROVE  /\ Fixes(d, SetRandomSchedule(d, q, time), r)
               /\ q # r => LeavesAlone(d, SetRandomSchedule(d, q, time), r)
    <2>1. SetRandomSchedule(d, q, time) = MarkDue(d, q, time)
      BY DEF MarkDue, SetRandomSchedule
    <2> QED BY <1>1, <2>1
  <1>4. ASSUME NEW time \in Nat, NEW defer \in Nat \cup {NULL}
        PROVE  /\ Fixes(d, UpdateReschedule(d, q, time, defer), r)
               /\ q # r => LeavesAlone(d, UpdateReschedule(d, q, time, defer), r)
    <2> DEFINE rec == [d[q] EXCEPT !.status = "scheduled", !.sched = time,
                                   !.defer = defer, !.err = NULL,
                                   !.trigger = "datetime", !.price = NULL]
    <2>1. /\ rec \in RowRecord /\ rec.tx = d[q].tx /\ rec.nlock = d[q].nlock
          /\ rec.mode = d[q].mode /\ rec.status # "fresh"
      BY DEF RowRecord, Status, TxStatus
    <2>2. UpdateReschedule(d, q, time, defer) = Write(d, q, rec)
      BY DEF UpdateReschedule
    <2> HIDE DEF rec
    <2> QED BY <2>1, <2>2, UpdatesLeave
  <1>5. ASSUME NEW side \in Side
        PROVE  /\ Fixes(d, UpdatePriceSchedule(d, q, side), r)
               /\ q # r => LeavesAlone(d, UpdatePriceSchedule(d, q, side), r)
    <2> DEFINE rec == [d[q] EXCEPT !.status = "pending", !.sched = NULL,
                                   !.defer = NULL, !.err = NULL,
                                   !.trigger = "price", !.price = side]
    <2>1. /\ rec \in RowRecord /\ rec.tx = d[q].tx /\ rec.nlock = d[q].nlock
          /\ rec.mode = d[q].mode /\ rec.status # "fresh"
      BY DEF RowRecord, Status, TxStatus
    <2>2. UpdatePriceSchedule(d, q, side) = Write(d, q, rec)
      BY DEF UpdatePriceSchedule
    <2> HIDE DEF rec
    <2> QED BY <2>1, <2>2, UpdatesLeave
  <1>6. ASSUME NEW e \in BroadcastError
        PROVE  /\ Fixes(d, UpdateTxStatusFailed(d, q, e), r)
               /\ q # r => LeavesAlone(d, UpdateTxStatusFailed(d, q, e), r)
    <2> DEFINE rec == [d[q] EXCEPT !.status = "failed", !.err = e]
    <2>1. /\ rec \in RowRecord /\ rec.tx = d[q].tx /\ rec.nlock = d[q].nlock
          /\ rec.mode = d[q].mode /\ rec.status # "fresh"
      BY DEF RowRecord, Status, TxStatus
    <2>2. UpdateTxStatusFailed(d, q, e) = Write(d, q, rec)
      BY DEF UpdateTxStatusFailed
    <2> HIDE DEF rec
    <2> QED BY <2>1, <2>2, UpdatesLeave
  <1>7. /\ Fixes(d, MarkBroadcast(d, q), r)
        /\ q # r => LeavesAlone(d, MarkBroadcast(d, q), r)
    <2> DEFINE rec == [d[q] EXCEPT !.status = "broadcast", !.txid = TRUE,
                                   !.missed = FALSE, !.defer = NULL]
    <2>1. /\ rec \in RowRecord /\ rec.tx = d[q].tx /\ rec.nlock = d[q].nlock
          /\ rec.mode = d[q].mode /\ rec.status # "fresh"
      BY DEF RowRecord, Status, TxStatus
    <2>2. MarkBroadcast(d, q) = Write(d, q, rec)
      BY DEF MarkBroadcast
    <2> HIDE DEF rec
    <2> QED BY <2>1, <2>2, UpdatesLeave
  <1>8. /\ Fixes(d, MarkConfirmed(d, q), r)
        /\ q # r => LeavesAlone(d, MarkConfirmed(d, q), r)
    <2> DEFINE rec == [d[q] EXCEPT !.status = "confirmed", !.confAt = TRUE]
    <2>1. /\ rec \in RowRecord /\ rec.tx = d[q].tx /\ rec.nlock = d[q].nlock
          /\ rec.mode = d[q].mode /\ rec.status # "fresh"
      BY DEF RowRecord, Status, TxStatus
    <2>2. MarkConfirmed(d, q) = Write(d, q, rec)
      BY DEF MarkConfirmed
    <2> HIDE DEF rec
    <2> QED BY <2>1, <2>2, UpdatesLeave
  <1> QED BY <1>1, <1>2, <1>3, <1>4, <1>5, <1>6, <1>7, <1>8

\* The statements that leave every row to wait as it does.
LEMMA StatementsLeave ==
    ASSUME NEW d \in Table, NEW r \in Row
    PROVE  /\ LeavesAlone(d, d, r) /\ Fixes(d, d, r)
           /\ LeavesAlone(d, RequeueRetriableFailures(d), r)
           /\ Fixes(d, RequeueRetriableFailures(d), r)
           /\ \A q \in Row :
                 /\ LeavesAlone(d, ResetFailedToScheduled(d, q), r)
                 /\ Fixes(d, ResetFailedToScheduled(d, q), r)
                 /\ LeavesAlone(d, RecordBroadcastMiss(d, q), r)
                 /\ Fixes(d, RecordBroadcastMiss(d, q), r)
                 /\ LeavesAlone(d, RemoveBroadcastTx(d, q), r)
                 /\ Fixes(d, RemoveBroadcastTx(d, q), r)
  <1>1. LeavesAlone(d, d, r) /\ Fixes(d, d, r)
    BY DEF LeavesAlone, Fixes
  <1>2. ASSUME NEW q \in Row
        PROVE  /\ LeavesAlone(d, ResetFailedToScheduled(d, q), r)
               /\ Fixes(d, ResetFailedToScheduled(d, q), r)
    <2> DEFINE rec == [d[q] EXCEPT !.status = "scheduled", !.err = NULL]
    <2>1. /\ rec.tx = d[q].tx /\ rec.nlock = d[q].nlock /\ rec.mode = d[q].mode
          /\ rec.sched = d[q].sched /\ rec.defer = d[q].defer
          /\ rec.trigger = d[q].trigger /\ rec.price = d[q].price
          /\ rec.status = "scheduled"
      BY DEF RowRecord, Table
    <2>2. ResetFailedToScheduled(d, q) = IF d[q].status = "failed"
                                         THEN [d EXCEPT ![q] = rec] ELSE d
      BY DEF ResetFailedToScheduled, Table
    <2> HIDE DEF rec
    <2> QED BY <1>1, <2>1, <2>2 DEF LeavesAlone, Fixes, Known, InTable, TxStatus, Table
  <1>3. /\ LeavesAlone(d, RequeueRetriableFailures(d), r)
        /\ Fixes(d, RequeueRetriableFailures(d), r)
    <2>1. RequeueRetriableFailures(d)[r] \in {d[r], ResetFailedToScheduled(d, r)[r]}
      BY DEF RequeueRetriableFailures
    <2> QED BY <1>1, <1>2, <2>1 DEF LeavesAlone, Fixes, Known, InTable
  <1>4. ASSUME NEW q \in Row
        PROVE  /\ LeavesAlone(d, RecordBroadcastMiss(d, q), r)
               /\ Fixes(d, RecordBroadcastMiss(d, q), r)
    <2> DEFINE rec == [d[q] EXCEPT !.missed = TRUE]
    <2>1. /\ rec.tx = d[q].tx /\ rec.nlock = d[q].nlock /\ rec.mode = d[q].mode
          /\ rec.sched = d[q].sched /\ rec.defer = d[q].defer
          /\ rec.trigger = d[q].trigger /\ rec.price = d[q].price
          /\ rec.status = d[q].status
      BY DEF RowRecord, Table
    <2>2. RecordBroadcastMiss(d, q) = Write(d, q, rec)
      BY DEF RecordBroadcastMiss
    <2> HIDE DEF rec
    <2> QED BY <1>1, <2>1, <2>2
            DEF LeavesAlone, Fixes, Known, InTable, Write, TxStatus, Table
  <1>5. ASSUME NEW q \in Row
        PROVE  /\ LeavesAlone(d, RemoveBroadcastTx(d, q), r)
               /\ Fixes(d, RemoveBroadcastTx(d, q), r)
    <2> DEFINE rec == [d[q] EXCEPT !.status = "gone"]
    <2>1. /\ rec.tx = d[q].tx /\ rec.nlock = d[q].nlock /\ rec.mode = d[q].mode
          /\ rec.status = "gone"
      BY DEF RowRecord, Table
    <2>2. RemoveBroadcastTx(d, q) = Write(d, q, rec)
      BY DEF RemoveBroadcastTx
    <2> HIDE DEF rec
    <2> QED BY <1>1, <2>1, <2>2
            DEF LeavesAlone, Fixes, Known, InTable, Write, TxStatus, Table
  <1> QED BY <1>1, <1>2, <1>3, <1>4, <1>5

\* An insert.
LEMMA InsertsLeave ==
    ASSUME NEW d \in Table, NEW r \in Row, NEW q \in Row, NEW t \in Tx,
           NEW nlock \in Nat, NEW mode \in Mode, NEW sched \in Nat \cup {NULL}, NEW e,
           e = InsertBroadcastTx(d, q, t, nlock, mode, sched)
    PROVE  /\ q # r => LeavesAlone(d, e, r) /\ Fixes(d, e, r)
           /\ e[q].nlock = nlock /\ e[q].mode = mode /\ e[q].sched = sched
           /\ e[q].defer = NULL /\ e[q].trigger = "datetime"
           /\ e[q].status = "pending" /\ e[q].tx = t
  <1> DEFINE rec == [FreshRow EXCEPT !.status = "pending", !.tx = t,
                                     !.nlock = nlock, !.mode = mode,
                                     !.sched = sched]
  <1>1. /\ rec.nlock = nlock /\ rec.mode = mode /\ rec.sched = sched
        /\ rec.defer = NULL /\ rec.trigger = "datetime"
        /\ rec.status = "pending" /\ rec.tx = t
    BY DEF FreshRow
  <1>2. e = [d EXCEPT ![q] = rec]
    BY DEF InsertBroadcastTx
  <1> HIDE DEF rec
  <1>3. q # r => e[r] = d[r]
    BY <1>2 DEF Table
  <1> QED BY <1>1, <1>2, <1>3 DEF LeavesAlone, Fixes, Known, InTable, Table

\* The insert of an import.
LEMMA ImportsLeave ==
    ASSUME NEW d \in Table, NEW r \in Row, NEW q \in Row, NEW t \in Tx,
           NEW sched \in Nat \cup {NULL}, NEW e,
           e = InsertBroadcastTx(d, q, t, 0, "immediate", sched)
    PROVE  /\ q # r => LeavesAlone(d, e, r) /\ Fixes(d, e, r)
           /\ e[q].nlock = 0 /\ e[q].mode = "immediate" /\ e[q].sched = sched
           /\ e[q].defer = NULL /\ e[q].trigger = "datetime"
           /\ e[q].status = "pending" /\ e \in Table
  <1>1. 0 \in Nat /\ "immediate" \in Mode
    BY DEF Mode
  <1>2. e \in Table
    BY <1>1, InsertIsNew DEF Adds
  <1> QED BY <1>1, <1>2, InsertsLeave

\* The marks of the loops keep the defer_until of the row.
LEMMA MarksKeepDefer ==
    ASSUME NEW d \in Table, NEW r \in Row, NEW time \in Nat
    PROVE  /\ MarksRow(d, MarkDue(d, r, time), r)
           /\ MarksRow(d, MarkDueFromPriceTrigger(d, r, time), r)
  <1> DEFINE due  == [d[r] EXCEPT !.status = "scheduled", !.sched = time]
             trig == [d[r] EXCEPT !.status = "scheduled", !.sched = time,
                                  !.trigger = "datetime"]
  <1>1. /\ due.tx = d[r].tx /\ due.nlock = d[r].nlock /\ due.defer = d[r].defer
        /\ trig.tx = d[r].tx /\ trig.nlock = d[r].nlock /\ trig.defer = d[r].defer
    BY DEF RowRecord, Table
  <1>2. /\ MarkDue(d, r, time) = Write(d, r, due)
        /\ MarkDueFromPriceTrigger(d, r, time) = Write(d, r, trig)
    BY DEF MarkDue, MarkDueFromPriceTrigger
  <1> HIDE DEF due, trig
  <1> QED BY <1>1, <1>2 DEF MarksRow, Write, InTable, Known, TxStatus, Table

\* Two statements in a row.
LEMMA LeavesTwice ==
    ASSUME NEW c, NEW d, NEW e, NEW r, LeavesAlone(c, d, r), LeavesAlone(d, e, r)
    PROVE  LeavesAlone(c, e, r)
  BY DEF LeavesAlone

-----------------------------------------------------------------------------
\* The user says nothing new about r, and time goes forward.
WishStands(r) ==
    /\ ask'[r] = ask[r]
    /\ r \in raced => r \in raced'
    /\ r \in priceMet => r \in priceMet'
    /\ accepted \subseteq accepted'
    /\ now <= now' /\ height <= height'

\* A loop would list r to mark it, or to send it.
DueForMark(r) ==
    \/ r \in PendingByScheduledTime(db, now) /\ db[r].trigger # "price"
    \/ r \in PendingByBlockHeight(db) /\ height >= db[r].nlock
    \/ prcSeen # NULL /\ r \in PriceTriggeredPending(db) /\ db[r].price = prcSeen

DueForBatch(r) ==
    /\ r \in DueTransactions(db) /\ ReleaseTimeReached(db[r], now)
    /\ LocktimeSatisfied(db[r].nlock)

\* What waits after the step waited before it.
LEMMA WaitedBefore ==
    ASSUME IInv, IInv', NEW r \in Row, WishStands(r), Known(db, r),
           db'[r].tx = db[r].tx, db'[r].nlock = db[r].nlock, Unmet(r)'
    PROVE  Unmet(r)
  <1> /\ now \in Nat /\ now' \in Nat /\ height \in Nat /\ height' \in Nat
      /\ db[r].nlock \in Nat /\ ask[r].at \in Nat
    BY DEF IInv, TypeOK, RowRecord, AskRecord
  <1>1. r \notin raced' /\ db'[r].tx \notin accepted' /\ ~InstructionMet(r)'
    BY DEF Unmet
  <1>2. InstructionMet(r) => InstructionMet(r)'
    BY DEF InstructionMet, WishStands
  <1> QED BY <1>1, <1>2 DEF Unmet, WishStands

\* No loop lists a row that waits for something else.
LEMMA WaitsUnlisted ==
    ASSUME IInv, height <= MaxHeight, NEW r \in Row, Unmet(r), InTable(db, r)
    PROVE  /\ db[r].nlock # LOCKTIME_THRESHOLD /\ Awaits(r) => ~DueForBatch(r)
           /\ db[r].nlock = LOCKTIME_THRESHOLD => ~DueForBatch(r)
           /\ Awaits(r) /\ DueForMark(r) => AwaitsDefer(r) \/ AwaitsBlock(r)
  <1> /\ now \in Nat /\ height \in Nat /\ db[r] \in RowRecord /\ ask[r] \in AskRecord
      /\ mtp \in Nat /\ db[r].nlock \in Nat /\ ask[r].at \in Nat
    BY DEF IInv, TypeOK, RowRecord, AskRecord
  <1> LOCKTIME_THRESHOLD \in Nat /\ MaxHeight \in Nat /\ MaxHeight < LOCKTIME_THRESHOLD
    BY PoolDbAssumption, PoolAssumption
  <1> /\ db[r].sched # NULL => db[r].sched \in Nat
      /\ db[r].defer # NULL => db[r].defer \in Nat
    BY DEF RowRecord
  <1> ~InstructionMet(r)
    BY DEF Unmet
  <1>1. ASSUME db[r].nlock # LOCKTIME_THRESHOLD, Awaits(r), DueForBatch(r) PROVE FALSE
    <2>1. /\ db[r].status = "scheduled" /\ ReleaseTimeReached(db[r], now)
          /\ LocktimeSatisfied(db[r].nlock)
      BY <1>1 DEF DueForBatch, DueTransactions, ListByStatus
    <2>2. CASE AwaitsRelease(r) \/ AwaitsPrice(r)
      BY <2>1, <2>2 DEF AwaitsRelease, AwaitsPrice, Timeless
    <2>3. CASE AwaitsDefer(r)
      <3>1. ~(ask[r].at <= now)
        BY <2>3 DEF AwaitsDefer, InstructionMet, Side
      <3> QED BY <2>1, <2>3, <3>1 DEF AwaitsDefer, ReleaseTimeReached
    <2>4. CASE AwaitsTime(r)
      <3>1. ~(ask[r].at <= now)
        BY <2>4 DEF AwaitsTime, InstructionMet, Side
      <3> QED BY <2>1, <2>4, <3>1 DEF AwaitsTime, ReleaseTimeReached
    <2>5. CASE AwaitsBlock(r)
      <3>1. ~(db[r].nlock <= height)
        BY <2>5 DEF AwaitsBlock, InstructionMet, Side
      <3> QED BY <2>1, <2>5, <3>1 DEF AwaitsBlock, LocktimeSatisfied, LocktimeReached
    <2> QED BY <1>1, <2>2, <2>3, <2>4, <2>5 DEF Awaits
  <1>2. ASSUME db[r].nlock = LOCKTIME_THRESHOLD PROVE ~DueForBatch(r)
    BY <1>2, PoolDbAssumption DEF DueForBatch, LocktimeSatisfied, LocktimeReached
  <1>3. ASSUME Awaits(r), DueForMark(r) PROVE AwaitsDefer(r) \/ AwaitsBlock(r)
    <2>1. CASE AwaitsRelease(r)
      BY <1>3, <2>1 DEF AwaitsRelease, Timeless, DueForMark, PendingByScheduledTime,
                        PendingByBlockHeight, PriceTriggeredPending
    <2>2. CASE AwaitsPrice(r)
      BY <1>3, <2>2 DEF AwaitsPrice, Timeless, DueForMark, PendingByScheduledTime,
                        PendingByBlockHeight, PriceTriggeredPending
    <2>3. CASE AwaitsTime(r)
      <3>1. ~(ask[r].at <= now)
        BY <2>3 DEF AwaitsTime, InstructionMet, Side
      <3> QED BY <1>3, <2>3, <3>1 DEF AwaitsTime, DueForMark, PendingByScheduledTime,
                        PendingByBlockHeight, PriceTriggeredPending
    <2> QED BY <1>3, <2>1, <2>2, <2>3 DEF Awaits
  <1> QED BY <1>1, <1>2, <1>3

\* A statement that leaves r to wait, the loops listing what is due at most.
LEMMA UndisturbedWaits ==
    ASSUME IInv, IInv', height <= MaxHeight, NEW r \in Row, Guarded(r), WishStands(r),
           LeavesAlone(db, db', r),
           Marking(r)' => Marking(r) \/ DueForMark(r),
           InTickBatch(r)' => InTickBatch(r) \/ DueForBatch(r),
           price' = price \/ (ask[r].kind = price' => r \in priceMet'),
           prcSeen' \in {prcSeen, price, NULL}
    PROVE  Guarded(r)'
  <1> SUFFICES ASSUME Known(db', r), Unmet(r)'
               PROVE  /\ ~InTickBatch(r)'
                      /\ InTable(db', r) /\ db'[r].nlock # LOCKTIME_THRESHOLD
                           => Awaits(r)'
    BY DEF Guarded
  <1>1. Known(db, r) /\ db'[r].tx = db[r].tx /\ db'[r].nlock = db[r].nlock
    BY DEF LeavesAlone
  <1>2. Unmet(r)
    BY <1>1, WaitedBefore
  <1>3. ~InTickBatch(r)'
    <2>1. ~InTickBatch(r)
      BY <1>1, <1>2 DEF Guarded
    <2>2. DueForBatch(r) => InTable(db, r)
      BY DEF DueForBatch, DueTransactions, ListByStatus, InTable, TxStatus
    <2>3. ~DueForBatch(r)
      BY <1>1, <1>2, <2>2, WaitsUnlisted DEF Guarded
    <2> QED BY <2>1, <2>3
  <1>4. ASSUME InTable(db', r), db'[r].nlock # LOCKTIME_THRESHOLD
        PROVE  Awaits(r)'
    <2>1. InTable(db, r) /\ Awaits(r)
      BY <1>1, <1>2, <1>4 DEF LeavesAlone, Guarded
    <2>2. /\ db'[r].sched = db[r].sched /\ db'[r].defer = db[r].defer
          /\ db'[r].trigger = db[r].trigger /\ db'[r].price = db[r].price
          /\ db'[r].mode = db[r].mode /\ ask'[r] = ask[r]
          /\ db'[r].status = "pending" <=> db[r].status = "pending"
      BY <1>4 DEF LeavesAlone, WishStands
    <2>3. AwaitsDefer(r) => AwaitsDefer(r)'
      BY <2>2 DEF AwaitsDefer
    <2>4. AwaitsBlock(r) => AwaitsBlock(r)'
      BY <1>1, <2>2 DEF AwaitsBlock
    <2>5. ~(AwaitsDefer(r) \/ AwaitsBlock(r)) => ~Marking(r)'
      <3>1. Marking(r) => AwaitsDefer(r) \/ AwaitsBlock(r)
        BY <2>1 DEF Awaits, AwaitsRelease, AwaitsPrice, AwaitsTime
      <3> QED BY <1>2, <2>1, <3>1, WaitsUnlisted
    <2>6. ASSUME AwaitsRelease(r), ~Marking(r)' PROVE AwaitsRelease(r)'
      BY <2>2, <2>6 DEF AwaitsRelease, Timeless
    <2>7. ASSUME AwaitsPrice(r), ~Marking(r)' PROVE AwaitsPrice(r)'
      <3>1. r \notin priceMet' \/ ask[r].kind \notin Side
        BY <2>2 DEF Unmet, InstructionMet, Side
      <3>2. price' # ask[r].kind
        BY <2>7, <3>1 DEF AwaitsPrice
      <3>3. prcSeen' # ask[r].kind
        BY <2>7, PoolDbAssumption DEF AwaitsPrice, Side
      <3> QED BY <2>2, <2>7, <3>2, <3>3 DEF AwaitsPrice, Timeless
    <2>8. ASSUME AwaitsTime(r), ~Marking(r)' PROVE AwaitsTime(r)'
      BY <2>2, <2>8 DEF AwaitsTime
    <2> QED BY <2>1, <2>3, <2>4, <2>5, <2>6, <2>7, <2>8 DEF Awaits
  <1> QED BY <1>3, <1>4

\* A loop marks r, which then waits for a defer_until or for a block.
LEMMA MarkedWaits ==
    ASSUME IInv, IInv', NEW r \in Row, Guarded(r), WishStands(r),
           MarksRow(db, db', r), Marking(r) \/ db[r].nlock = LOCKTIME_THRESHOLD,
           InTickBatch(r)' => InTickBatch(r)
    PROVE  Guarded(r)'
  <1> SUFFICES ASSUME Known(db', r), Unmet(r)'
               PROVE  /\ ~InTickBatch(r)'
                      /\ InTable(db', r) /\ db'[r].nlock # LOCKTIME_THRESHOLD
                           => Awaits(r)'
    BY DEF Guarded
  <1>1. Known(db, r) /\ db'[r].tx = db[r].tx /\ db'[r].nlock = db[r].nlock
    BY DEF MarksRow
  <1>2. Unmet(r)
    BY <1>1, WaitedBefore
  <1>3. ~InTickBatch(r)'
    BY <1>1, <1>2 DEF Guarded
  <1>4. ASSUME InTable(db', r), db'[r].nlock # LOCKTIME_THRESHOLD
        PROVE  Awaits(r)'
    <2>1. InTable(db, r) /\ Awaits(r) /\ Marking(r)
      BY <1>1, <1>2, <1>4 DEF MarksRow, Guarded
    <2>2. AwaitsDefer(r) \/ AwaitsBlock(r)
      BY <2>1 DEF Awaits, AwaitsRelease, AwaitsPrice, AwaitsTime
    <2>3. AwaitsDefer(r) => AwaitsDefer(r)'
      BY DEF AwaitsDefer, MarksRow, WishStands
    <2>4. AwaitsBlock(r) => AwaitsBlock(r)'
      BY <1>1 DEF AwaitsBlock, WishStands
    <2> QED BY <2>2, <2>3, <2>4 DEF Awaits
  <1> QED BY <1>3, <1>4

\* What the broadcast loop has in its batch, or a node knows, no longer waits.
LEMMA ReleasedWaits ==
    ASSUME IInv, IInv', NEW r \in Row, Guarded(r), WishStands(r),
           Fixes(db, db', r), InTickBatch(r) \/ db[r].tx \in accepted
    PROVE  Guarded(r)'
  <1> SUFFICES ASSUME Known(db', r), Unmet(r)' PROVE FALSE
    BY DEF Guarded
  <1>1. Unmet(r) /\ Known(db, r)
    BY WaitedBefore DEF Fixes
  <1> QED BY <1>1 DEF Guarded, Unmet

-----------------------------------------------------------------------------
(* The steps, actor by actor: every row waits as it should.                *)

\* A submission makes transactions public and nothing else.
LEMMA SubmitAccepts ==
    ASSUME IInv, NetAccepted, NEW t \in Tx, NEW res, NEW up, Submit(up, t, res)
    PROVE  accepted \subseteq accepted' /\ NetAccepted'
  <1> net \in [Tx -> {"unknown", "mempool", "mined"}]
    BY DEF IInv, TypeOK
  <1>1. CASE accepted' = accepted \cup {t} /\ net' = [net EXCEPT ![t] = "mempool"]
    BY <1>1 DEF NetAccepted
  <1>2. CASE UNCHANGED <<net, accepted>>
    BY <1>2 DEF NetAccepted
  <1> QED BY <1>1, <1>2 DEF Submit

\* The ingest of a wallet's broadcast.
LEMMA IngestWaits ==
    ASSUME IInv, IInv', WaitInv, IngestStep, NEW r \in Row
    PROVE  Guarded(r)'
  <1> USE DEF tickVars, loopVars, clockVars, linkVars, netVars, wishVars
  <1> db \in Table /\ ing \in [Row -> IngestRecord] /\ now \in Nat /\ height \in Nat
    BY DEF IInv, TypeOK, Table
  <1> height <= MaxHeight /\ Guarded(r)
    BY DEF WaitInv
  <1> PICK q \in Row : \/ \E t \in Tx, src \in Wallet : IngestAck(q, t, src)
                       \/ IngestNext(q) \/ IngestFail(q)
    BY DEF IngestStep
  <1>1. CASE \/ \E t \in Tx, src \in Wallet : IngestAck(q, t, src)
             \/ IngestStore(q) \/ IngestFail(q)
    <2>1. UNCHANGED <<db, tickVars, loopVars, clockVars, accepted, wishVars>>
      BY <1>1 DEF IngestAck, IngestStore, IngestFail
    <2>2. LeavesAlone(db, db', r)
      BY <2>1, StatementsLeave
    <2> QED BY <2>1, <2>2, UndisturbedWaits DEF WishStands, Marking, InTickBatch
  <1>2. CASE IngestMarkDue(q)
    <2>1. /\ UNCHANGED <<tickVars, loopVars, clockVars, accepted, wishVars>>
          /\ db' = MarkDue(db, q, now) /\ ing[q].pc = "stored"
      BY <1>2 DEF IngestMarkDue
    <2>2. CASE q # r
      <3>1. LeavesAlone(db, db', r)
        BY <2>1, <2>2, StatementsFix
      <3> QED BY <2>1, <3>1, UndisturbedWaits DEF WishStands, Marking, InTickBatch
    <2>3. CASE q = r
      <3>1. db[r].nlock = LOCKTIME_THRESHOLD
        BY <2>1, <2>3 DEF WaitInv, Decided
      <3>2. MarksRow(db, db', r)
        BY <2>1, <2>3, MarksKeepDefer
      <3> QED BY <2>1, <3>1, <3>2, MarkedWaits DEF WishStands, InTickBatch
    <2> QED BY <2>2, <2>3
  <1>3. CASE IngestInsert(q)
    <2> DEFINE t     == ing[q].tx
               nlock == LockOf[t]
               src   == ing[q].src
    <2>1. /\ ing[q].pc = "acked" /\ ~Known(db, q)
          /\ t \in Tx /\ nlock \in Nat /\ src \in Wallet
      BY <1>3, PoolDbAssumption DEF IngestInsert, IInv, Hands, IngestHolds
    <2> PICK plan \in IngestPlans(src, nlock) :
               /\ db' = InsertBroadcastTx(db, q, t, nlock, plan.mode, plan.sched)
               /\ ask' = [ask EXCEPT ![q] = WalletAsk(src, nlock, plan)]
      BY <1>3 DEF IngestInsert
    <2>2. UNCHANGED <<tickVars, loopVars, clockVars, accepted, priceMet, raced>>
      BY <1>3 DEF IngestInsert
    <2>3. plan.mode \in Mode /\ plan.sched \in Nat \cup {NULL}
      BY <2>1, PoolAssumption DEF IngestPlans, BroadcastPlans, Mode, Time
    <2> DEFINE mode == plan.mode
               sched == plan.sched
    <2>4. CASE q # r
      <3>1. LeavesAlone(db, db', r)
        BY <2>1, <2>3, <2>4, InsertsLeave
      <3>2. WishStands(r)
        BY <2>2, <2>4 DEF WishStands, IInv, TypeOK
      <3> QED BY <2>2, <3>1, <3>2, UndisturbedWaits DEF Marking, InTickBatch
    <2>5. CASE q = r
      <3>1. /\ db'[r].nlock = nlock /\ db'[r].mode = mode /\ db'[r].sched = sched
            /\ db'[r].defer = NULL /\ db'[r].trigger = "datetime"
            /\ db'[r].status = "pending"
        BY <2>1, <2>3, <2>5, InsertsLeave
      <3>2. ask'[r] = WalletAsk(src, nlock, plan)
        BY <2>5 DEF IInv, TypeOK
      <3>3. ~Marking(r)' /\ ~InTickBatch(r)'
        <4>1. r \notin tickTodo \cup blkTodo \cup prcTodo
          BY <2>1, <2>5 DEF IInv, Hands, HeldRows, RowsInHand
        <4>2. tickPc \in {"bcast", "reply"} => r # tickCur
          BY <2>1, <2>5, PoolDbAssumption DEF IInv, Hands, TickHolds, WaitInv, CurInHand
        <4> QED BY <2>2, <4>1, <4>2 DEF Marking, InTickBatch
      <3>4. ASSUME nlock # LOCKTIME_THRESHOLD PROVE Awaits(r)'
        <4>1. CASE src = "liana" \/ nlock = 0
          <5>1. ask'[r].kind = "hold" /\ mode = "manual" /\ sched = NULL
            BY <3>2, <4>1 DEF WalletAsk, Ask, IngestPlans
          <5> QED BY <3>1, <3>3, <5>1 DEF Awaits, AwaitsRelease, Timeless
        <4>2. CASE src # "liana" /\ nlock # 0 /\ nlock > LOCKTIME_THRESHOLD
          <5>1. /\ ask'[r].kind = "at" /\ ask'[r].at = nlock
                /\ mode = "scheduled" /\ sched = nlock
            BY <2>1, <3>2, <4>2 DEF WalletAsk, Ask, IngestPlans
          <5>2. sched # NULL /\ sched >= nlock
            BY <2>1, <5>1, PoolDbAssumption
          <5> QED BY <3>1, <3>3, <5>1, <5>2 DEF Awaits, AwaitsTime
        <4>3. CASE src # "liana" /\ nlock # 0 /\ nlock < LOCKTIME_THRESHOLD
          <5>1. ask'[r].kind = "block"
            BY <2>1, <3>2, <4>3, PoolDbAssumption DEF WalletAsk, Ask
          <5> QED BY <3>1, <4>3, <5>1 DEF Awaits, AwaitsBlock
        <4> QED BY <2>1, <3>4, <4>1, <4>2, <4>3, PoolDbAssumption
      <3> QED BY <3>1, <3>3, <3>4 DEF Guarded
    <2> QED BY <2>4, <2>5
  <1> QED BY <1>1, <1>2, <1>3 DEF IngestNext

\* The broadcast loop.
LEMMA TickWaits ==
    ASSUME IInv, IInv', WaitInv, TickNext, NEW r \in Row
    PROVE  Guarded(r)'
  <1> USE DEF tickVars, loopVars, clockVars, linkVars, netVars, wishVars
  <1> db \in Table /\ now \in Nat /\ height \in Nat
    BY DEF IInv, TypeOK, Table
  <1> height <= MaxHeight /\ Guarded(r) /\ NetAccepted
    BY DEF WaitInv
  <1> DEFINE Still == UNCHANGED <<loopVars, clockVars, wishVars>>
  <1>a. ASSUME LeavesAlone(db, db', r), Still, accepted \subseteq accepted',
               (tickPc' = "mark" /\ r \in tickTodo') => Marking(r) \/ DueForMark(r),
               InTickBatch(r)' => InTickBatch(r) \/ DueForBatch(r)
        PROVE  Guarded(r)'
    <2>1. Marking(r)' => Marking(r) \/ DueForMark(r)
      BY <1>a DEF Marking
    <2>2. WishStands(r)
      BY <1>a DEF WishStands
    <2> QED BY <1>a, <2>1, <2>2, UndisturbedWaits
  <1>b. UNCHANGED db => LeavesAlone(db, db', r)
    BY StatementsLeave
  <1>1. CASE TickStart
    BY <1>1, <1>a, <1>b DEF TickStart, DueForMark, InTickBatch
  <1>2. ASSUME NEW q \in Row, TickMark(q) PROVE Guarded(r)'
    <2>1. /\ Still /\ UNCHANGED <<tickPc, tickCur, accepted>>
          /\ db' = MarkDue(db, q, now) /\ tickTodo' = tickTodo \ {q}
          /\ tickPc = "mark" /\ q \in tickTodo
      BY <1>2 DEF TickMark
    <2>2. CASE q # r
      <3>1. LeavesAlone(db, db', r)
        BY <2>1, <2>2, StatementsFix
      <3> QED BY <1>a, <2>1, <3>1 DEF Marking, InTickBatch
    <2>3. CASE q = r
      <3>1. MarksRow(db, db', r)
        BY <2>1, <2>3, MarksKeepDefer
      <3>2. Marking(r) /\ ~InTickBatch(r)' /\ WishStands(r)
        BY <2>1, <2>3 DEF Marking, InTickBatch, WishStands
      <3> QED BY <3>1, <3>2, MarkedWaits
    <2> QED BY <2>2, <2>3
  <1>3. CASE TickListFailed
    BY <1>3, <1>a, <1>b DEF TickListFailed, InTickBatch
  <1>4. ASSUME NEW q \in Row, TickRequeue(q) PROVE Guarded(r)'
    <2>1. LeavesAlone(db, db', r)
      BY <1>4, StatementsLeave DEF TickRequeue
    <2> QED BY <1>4, <1>a, <2>1 DEF TickRequeue, InTickBatch
  <1>5. CASE TickListDue
    <2>1. InTickBatch(r)' => InTickBatch(r) \/ DueForBatch(r)
      <3>1. tickCur # r
        BY <1>5, PoolDbAssumption DEF TickListDue, WaitInv, CurInHand
      <3> QED BY <1>5, <3>1 DEF TickListDue, InTickBatch, DueForBatch
    <2> QED BY <1>5, <1>a, <1>b, <2>1 DEF TickListDue
  <1>6. ASSUME NEW q \in Row, TickSkip(q) PROVE Guarded(r)'
    <2>1. LeavesAlone(db, db', r)
      BY <1>6, StatementsLeave DEF TickSkip
    <2> QED BY <1>6, <1>a, <2>1 DEF TickSkip, InTickBatch
  <1>7. ASSUME NEW q \in Row, TickAbort(q) PROVE Guarded(r)'
    BY <1>7, <1>a, <1>b DEF TickAbort, InTickBatch
  <1>8. ASSUME NEW q \in Row, TickSend(q) PROVE Guarded(r)'
    <2>1. db[q].tx \in Tx
      BY <1>8 DEF TickSend, IInv, Hands, HeldRows, RowsInHand, SettledRows
    <2>2. accepted \subseteq accepted'
      BY <1>8, <2>1, SubmitAccepts DEF TickSend
    <2> QED BY <1>8, <1>a, <1>b, <2>2 DEF TickSend, InTickBatch
  <1>9. CASE TickRecord
    <2>1. /\ tickCur \in Row /\ tickRes \in Result /\ tickPc = "reply" /\ Still
          /\ UNCHANGED <<tickTodo, accepted>> /\ tickPc' = "bcast" /\ tickCur' = NULL
      BY <1>9 DEF TickRecord, IInv, Hands, TickHolds
    <2>2. \/ UNCHANGED db \/ db' = MarkBroadcast(db, tickCur)
          \/ db' = UpdateTxStatusFailed(db, tickCur, "opaque")
      BY <1>9, <2>1 DEF TickRecord, Result, BroadcastError
    <2>3. CASE tickCur # r
      <3>1. LeavesAlone(db, db', r)
        BY <1>b, <2>1, <2>2, <2>3, StatementsFix DEF BroadcastError
      <3>2. r # NULL
        BY PoolDbAssumption
      <3> QED BY <1>a, <2>1, <3>1, <3>2 DEF InTickBatch
    <2>4. CASE tickCur = r
      <3>1. Fixes(db, db', r)
        BY <2>1, <2>2, StatementsFix, StatementsLeave DEF BroadcastError
      <3>2. InTickBatch(r) /\ WishStands(r)
        BY <2>1, <2>4 DEF InTickBatch, WishStands
      <3> QED BY <3>1, <3>2, ReleasedWaits
    <2> QED BY <2>3, <2>4
  <1>10. CASE TickDbError \/ TickEnd
    BY <1>10, <1>a, <1>b DEF TickDbError, TickEnd, InTickBatch
  <1> QED BY <1>1, <1>2, <1>3, <1>4, <1>5, <1>6, <1>7, <1>8, <1>9, <1>10 DEF TickNext

\* The other loops.
LEMMA LoopsWait ==
    ASSUME IInv, IInv', WaitInv, BlkNext \/ PrcNext \/ ConfNext \/ RebNext, NEW r \in Row
    PROVE  Guarded(r)'
  <1> USE DEF tickVars, loopVars, clockVars, linkVars, netVars, wishVars
  <1> db \in Table /\ now \in Nat /\ height \in Nat
    BY DEF IInv, TypeOK, Table
  <1> height <= MaxHeight /\ Guarded(r) /\ NetAccepted
    BY DEF WaitInv
  <1> DEFINE Still == UNCHANGED <<tickVars, clockVars, wishVars>>
  <1>a. ASSUME LeavesAlone(db, db', r), Still, accepted \subseteq accepted',
               r \in blkTodo' \cup prcTodo'
                 => r \in blkTodo \cup prcTodo \/ DueForMark(r),
               prcSeen' \in {prcSeen, price, NULL}
        PROVE  Guarded(r)'
    <2>1. Marking(r)' => Marking(r) \/ DueForMark(r)
      BY <1>a DEF Marking
    <2>2. WishStands(r) /\ (InTickBatch(r)' => InTickBatch(r))
      BY <1>a DEF WishStands, InTickBatch
    <2> QED BY <1>a, <2>1, <2>2, UndisturbedWaits
  <1>b. UNCHANGED db => LeavesAlone(db, db', r)
    BY StatementsLeave
  <1>c. ASSUME NEW q \in Row, q \in blkTodo \cup prcTodo, Still,
               UNCHANGED <<accepted, prcSeen>>,
               blkTodo' \subseteq blkTodo, prcTodo' \subseteq prcTodo,
               \/ db' = MarkDue(db, q, now) \/ db' = MarkDueFromPriceTrigger(db, q, now)
        PROVE  Guarded(r)'
    <2>2. CASE q # r
      <3>1. LeavesAlone(db, db', r)
        BY <1>c, <2>2, StatementsFix
      <3> QED BY <1>a, <1>c, <3>1
    <2>3. CASE q = r
      <3>1. MarksRow(db, db', r)
        BY <1>c, <2>3, MarksKeepDefer
      <3>2. Marking(r) /\ (InTickBatch(r)' => InTickBatch(r)) /\ WishStands(r)
        BY <1>c, <2>3 DEF Marking, InTickBatch, WishStands
      <3> QED BY <3>1, <3>2, MarkedWaits
    <2> QED BY <2>2, <2>3
  <1>1. CASE BlkList
    BY <1>1, <1>a, <1>b DEF BlkList, DueForMark
  <1>2. ASSUME NEW q \in Row, BlkMark(q) PROVE Guarded(r)'
    BY <1>2, <1>c DEF BlkMark
  <1>3. CASE PrcFetch
    BY <1>3, <1>a, <1>b DEF PrcFetch
  <1>4. CASE PrcList
    BY <1>4, <1>a, <1>b DEF PrcList, DueForMark
  <1>5. ASSUME NEW q \in Row, PrcMark(q) PROVE Guarded(r)'
    BY <1>5, <1>c DEF PrcMark
  <1>6. CASE ConfList \/ RebList
    BY <1>6, <1>a, <1>b DEF ConfList, RebList
  <1>7. ASSUME NEW q \in Row, ConfCheck(q) PROVE Guarded(r)'
    <2>1. Still /\ UNCHANGED <<blkTodo, prcTodo, prcSeen, accepted>>
      BY <1>7 DEF ConfCheck
    <2>2. CASE UNCHANGED db
      BY <1>a, <1>b, <2>1, <2>2
    <2>3. CASE q # r /\ db' = MarkConfirmed(db, q)
      <3>1. LeavesAlone(db, db', r)
        BY <2>3, StatementsFix
      <3> QED BY <1>a, <2>1, <3>1
    <2>4. CASE q = r /\ db' = MarkConfirmed(db, q) /\ net[db[q].tx] = "mined"
      <3>1. db[r].tx \in Tx
        BY <1>7, <2>4 DEF ConfCheck, IInv, Hands, HeldRows, RowsInHand, SettledRows
      <3>2. db[r].tx \in accepted
        BY <2>4, <3>1 DEF NetAccepted
      <3>3. Fixes(db, db', r) /\ WishStands(r)
        BY <2>1, <2>4, StatementsFix DEF WishStands
      <3> QED BY <3>2, <3>3, ReleasedWaits
    <2> QED BY <1>7, <2>2, <2>3, <2>4 DEF ConfCheck
  <1>8. ASSUME NEW q \in Row, RebSend(q) PROVE Guarded(r)'
    <2>1. db[q].tx \in Tx
      BY <1>8 DEF RebSend, IInv, Hands, HeldRows, RowsInHand, SettledRows
    <2>2. accepted \subseteq accepted'
      BY <1>8, <2>1, SubmitAccepts DEF RebSend
    <2> QED BY <1>8, <1>a, <1>b, <2>2 DEF RebSend
  <1>9. ASSUME NEW q \in Row, RebDbError(q) PROVE Guarded(r)'
    BY <1>9, <1>a, <1>b DEF RebDbError
  <1> QED BY <1>1, <1>2, <1>3, <1>4, <1>5, <1>6, <1>7, <1>8, <1>9
          DEF BlkNext, PrcNext, ConfNext, RebNext

\* What a command makes of the row it is about: it waits for the command.
LEMMA CommandedWaits ==
    ASSUME IInv, NEW r \in Row, NEW wish \in AskRecord, Commanded(r, wish),
           UNCHANGED <<tickVars, loopVars>>,
           ~InTickBatch(r) /\ ~(InMonitorHands(r) /\ db'[r].defer = NULL)
           /\ ~Overruled(r, wish) /\ InTable(db', r) /\ Unmet(r)'
           => Awaits(r)'
    PROVE  Guarded(r)'
  <1>1. r \notin raced' => ~InTickBatch(r) /\ ~(InMonitorHands(r) /\ db'[r].defer = NULL)
                           /\ ~Overruled(r, wish)
    BY DEF Commanded
  <1>2. InTickBatch(r)' <=> InTickBatch(r)
    BY DEF InTickBatch, tickVars
  <1> QED BY <1>1, <1>2 DEF Guarded, Unmet

\* The commands of the user.
LEMMA CommandsWait ==
    ASSUME IInv, IInv', WaitInv, CommandStep, NEW r \in Row
    PROVE  Guarded(r)'
  <1> USE DEF tickVars, loopVars, clockVars, linkVars, netVars, wishVars
  <1> db \in Table /\ now \in Nat /\ height \in Nat
    BY DEF IInv, TypeOK, Table
  <1> height <= MaxHeight /\ Guarded(r) /\ NetAccepted
    BY DEF WaitInv
  <1> DEFINE Still == UNCHANGED <<tickVars, loopVars, clockVars>>
  <1>a. ASSUME LeavesAlone(db, db', r), Still, accepted \subseteq accepted',
               ask'[r] = ask[r], r \in raced => r \in raced',
               r \in priceMet => r \in priceMet'
        PROVE  Guarded(r)'
    <2>1. WishStands(r) /\ Marking(r)' = Marking(r) /\ InTickBatch(r)' = InTickBatch(r)
      BY <1>a DEF WishStands, Marking, InTickBatch
    <2> QED BY <1>a, <2>1, UndisturbedWaits
  <1>b. UNCHANGED db => LeavesAlone(db, db', r)
    BY StatementsLeave
  <1>d. ASSUME NEW q \in Row, q # r, NEW wish, Commanded(q, wish)
        PROVE  ask'[r] = ask[r] /\ (r \in raced => r \in raced')
               /\ (r \in priceMet => r \in priceMet')
    BY <1>d DEF Commanded, IInv, TypeOK
  <1>e. ~Known(db, r) => /\ r \notin tickTodo \cup blkTodo \cup prcTodo
                         /\ ~InTickBatch(r)
    <2>1. ~Known(db, r) => r \notin tickTodo \cup blkTodo \cup prcTodo
      BY DEF IInv, Hands, HeldRows, RowsInHand
    <2>2. ~Known(db, r) /\ tickPc \in {"bcast", "reply"} => r # tickCur
      BY PoolDbAssumption DEF IInv, Hands, TickHolds, WaitInv, CurInHand
    <2> QED BY <2>1, <2>2 DEF InTickBatch
  <1>1. CASE ApiWrite
    <2> DEFINE q == api.row
    <2>1. /\ api # NULL /\ q \in Row /\ api.at \in Nat /\ Still /\ UNCHANGED accepted
          /\ api.op = "price" => api.side \in Side
      BY <1>1 DEF ApiWrite, IInv, TypeOK, ApiRecord, Hands, ApiHolds
    <2>2. CASE api.op = "at"
      <3> DEFINE defer == IF api.isReschedule THEN api.at ELSE NULL
      <3>1. /\ db' = UpdateReschedule(db, q, api.at, defer)
            /\ Commanded(q, Ask("at", api.at)) /\ defer \in Nat \cup {NULL}
        BY <1>1, <2>1, <2>2 DEF ApiWrite
      <3> HIDE DEF defer
      <3>2. CASE q # r
        <4>1. LeavesAlone(db, db', r)
          BY <2>1, <3>1, <3>2, StatementsFix
        <4> QED BY <1>a, <1>d, <2>1, <3>1, <3>2, <4>1
      <3>3. CASE q = r
        <4>1. ASSUME InTable(db', r)
              PROVE  /\ db'[r].status = "scheduled" /\ db'[r].sched = api.at
                     /\ db'[r].defer = defer /\ db'[r].trigger = "datetime"
          <5> DEFINE rec == [db[r] EXCEPT !.status = "scheduled", !.sched = api.at,
                                          !.defer = defer, !.err = NULL,
                                          !.trigger = "datetime", !.price = NULL]
          <5>1. /\ rec.status = "scheduled" /\ rec.sched = api.at
                /\ rec.defer = defer /\ rec.trigger = "datetime"
            BY DEF RowRecord, Table
          <5>2. db' = IF InTable(db, r) THEN [db EXCEPT ![r] = rec] ELSE db
            BY <3>1, <3>3 DEF UpdateReschedule, Write
          <5> HIDE DEF rec
          <5> QED BY <4>1, <5>1, <5>2 DEF InTable, Table
        <4>2. ask'[r] = Ask("at", api.at)
          BY <3>1, <3>3 DEF Commanded, IInv, TypeOK
        <4>3. ask'[r].kind = "at" /\ ask'[r].at = api.at
          BY <4>2 DEF Ask
        <4>4. api.at >= api.at /\ api.at # NULL
          BY <2>1, PoolDbAssumption
        <4>5. ASSUME ~(InMonitorHands(r) /\ db'[r].defer = NULL), InTable(db', r)
              PROVE  Awaits(r)'
          <5>1. CASE defer = NULL
            <6>1. ~Marking(r)'
              BY <2>1, <4>1, <4>5, <5>1 DEF InMonitorHands, Marking
            <6> QED BY <4>1, <4>3, <4>4, <4>5, <5>1, <6>1 DEF Awaits, AwaitsTime
          <5>2. CASE defer # NULL
            <6>1. defer = api.at
              BY <5>2 DEF defer
            <6> QED BY <4>1, <4>3, <4>4, <4>5, <6>1 DEF Awaits, AwaitsDefer
          <5> QED BY <5>1, <5>2
        <4>6. Ask("at", api.at) \in AskRecord
          BY <2>1 DEF Ask, AskRecord
        <4> QED BY <2>1, <3>1, <3>3, <4>5, <4>6, CommandedWaits
      <3> QED BY <3>2, <3>3
    <2>3. CASE api.op = "price"
      <3> DEFINE side == api.side
      <3>1. /\ db' = UpdatePriceSchedule(db, q, side) /\ side \in Side
            /\ Commanded(q, Ask(side, 0)) /\ db[q].mode = "manual"
        BY <1>1, <2>1, <2>3 DEF ApiWrite, WaitInv, Decided
      <3> HIDE DEF side
      <3>2. CASE q # r
        <4>1. LeavesAlone(db, db', r)
          BY <2>1, <3>1, <3>2, StatementsFix
        <4> QED BY <1>a, <1>d, <2>1, <3>1, <3>2, <4>1
      <3>3. CASE q = r
        <4>1. ASSUME InTable(db', r)
              PROVE  /\ db'[r].status = "pending" /\ db'[r].sched = NULL
                     /\ db'[r].defer = NULL /\ db'[r].trigger = "price"
                     /\ db'[r].price = side /\ db'[r].mode = "manual"
          <5> DEFINE rec == [db[r] EXCEPT !.status = "pending", !.sched = NULL,
                                          !.defer = NULL, !.err = NULL,
                                          !.trigger = "price", !.price = side]
          <5>1. /\ rec.status = "pending" /\ rec.sched = NULL /\ rec.defer = NULL
                /\ rec.trigger = "price" /\ rec.price = side /\ rec.mode = db[r].mode
            BY DEF RowRecord, Table
          <5>2. db' = IF InTable(db, r) THEN [db EXCEPT ![r] = rec] ELSE db
            BY <3>1, <3>3 DEF UpdatePriceSchedule, Write
          <5> HIDE DEF rec
          <5> QED BY <3>1, <3>3, <4>1, <5>1, <5>2 DEF InTable, Table
        <4>2. ask'[r] = Ask(side, 0)
          BY <3>1, <3>3 DEF Commanded, IInv, TypeOK
        <4>3. ask'[r].kind = side /\ ask'[r].kind \in Side
          BY <3>1, <4>2 DEF Ask
        <4>4. ASSUME ~(InMonitorHands(r) /\ db'[r].defer = NULL),
                     InTable(db', r), Unmet(r)'
              PROVE  Awaits(r)'
          <5>1. ~Marking(r)' /\ prcSeen' = NULL
            BY <2>1, <4>1, <4>4 DEF InMonitorHands, Marking
          <5>2. r \notin priceMet'
            BY <4>3, <4>4 DEF Unmet, InstructionMet, Side
          <5>3. price' # side
            BY <2>1, <3>1, <3>3, <5>2 DEF Commanded, Ask
          <5>4. NULL # side
            BY <3>1, PoolDbAssumption DEF Side
          <5> QED BY <4>1, <4>3, <4>4, <5>1, <5>3, <5>4 DEF Awaits, AwaitsPrice, Timeless
        <4>5. Ask(side, 0) \in AskRecord
          BY <3>1 DEF Ask, AskRecord
        <4> QED BY <2>1, <3>1, <3>3, <4>4, <4>5, CommandedWaits
      <3> QED BY <3>2, <3>3
    <2> QED BY <1>1, <2>2, <2>3 DEF ApiWrite
  <1>2. ASSUME NEW q \in Row, NEW t \in Time, ScheduleTransaction(q, t) PROVE Guarded(r)'
    <2>1. /\ Commanded(q, Ask("delay", t)) /\ Still /\ UNCHANGED accepted /\ t \in Nat
          /\ db' = SetRandomSchedule(db, q, t)
      BY <1>2, PoolAssumption DEF ScheduleTransaction, Time
    <2>2. CASE q # r
      <3>1. LeavesAlone(db, db', r)
        BY <2>1, <2>2, StatementsFix
      <3> QED BY <1>a, <1>d, <2>1, <2>2, <3>1
    <2>3. CASE q = r
      <3>1. ASSUME InTable(db', r)
            PROVE  /\ db'[r].status = "scheduled" /\ db'[r].sched = t
                   /\ db'[r].defer = db[r].defer /\ db'[r].trigger = db[r].trigger
        <4> DEFINE rec == [db[r] EXCEPT !.status = "scheduled", !.sched = t]
        <4>1. /\ rec.status = "scheduled" /\ rec.sched = t
              /\ rec.defer = db[r].defer /\ rec.trigger = db[r].trigger
          BY <2>1 DEF RowRecord, Table
        <4>2. db' = IF InTable(db, r) THEN [db EXCEPT ![r] = rec] ELSE db
          BY <2>1, <2>3 DEF SetRandomSchedule, Write
        <4> HIDE DEF rec
        <4> QED BY <2>1, <3>1, <4>1, <4>2 DEF InTable, Table
      <3>2. ask'[r] = Ask("delay", t)
        BY <2>1, <2>3 DEF Commanded, IInv, TypeOK
      <3>3. ask'[r].kind = "delay" /\ ask'[r].at = t
        BY <3>2 DEF Ask
      <3>4. ASSUME ~(InMonitorHands(r) /\ db'[r].defer = NULL),
                   ~Overruled(r, Ask("delay", t)), InTable(db', r)
            PROVE  Awaits(r)'
        <4>1. db[r].defer = NULL /\ db[r].trigger # "price"
          BY <3>4 DEF Overruled, Ask
        <4>2. db'[r].defer = NULL /\ db'[r].trigger # "price"
          BY <3>1, <3>4, <4>1
        <4>3. ~Marking(r)'
          BY <2>1, <3>4, <4>2 DEF InMonitorHands, Marking
        <4>4. t # NULL /\ t >= t
          BY <2>1, PoolDbAssumption
        <4> QED BY <3>1, <3>3, <3>4, <4>2, <4>3, <4>4 DEF Awaits, AwaitsTime
      <3>5. Ask("delay", t) \in AskRecord
        BY <2>1 DEF Ask, AskRecord
      <3> QED BY <2>1, <2>3, <3>4, <3>5, CommandedWaits
    <2> QED BY <2>2, <2>3
  <1>3. ASSUME NEW q \in Row,
               \/ \E t \in Time : ApiScheduleAt(q, t)
               \/ \E side \in Side : ApiScheduleByPrice(q, side)
               \/ RemoveTransaction(q) \/ RetryFailedTransaction(q)
        PROVE  Guarded(r)'
    <2>1. Still /\ UNCHANGED <<accepted, wishVars>>
      BY <1>3 DEF ApiScheduleAt, ApiScheduleByPrice, RemoveTransaction,
                  RetryFailedTransaction
    <2>2. \/ UNCHANGED db \/ db' = RemoveBroadcastTx(db, q)
          \/ db' = ResetFailedToScheduled(db, q)
      BY <1>3 DEF ApiScheduleAt, ApiScheduleByPrice, RemoveTransaction,
                  RetryFailedTransaction
    <2>3. LeavesAlone(db, db', r)
      BY <1>b, <2>2, StatementsLeave
    <2> QED BY <1>a, <2>1, <2>3
  <1>4. CASE CliMark
    <2>1. /\ cliCur \in Row /\ Known(db, cliCur) /\ db[cliCur].tx \in accepted
          /\ Still /\ UNCHANGED <<accepted, wishVars>> /\ db' = MarkBroadcast(db, cliCur)
      BY <1>4 DEF CliMark, IInv, TypeOK, Hands, CliHolds
    <2>2. CASE cliCur # r
      <3>1. LeavesAlone(db, db', r)
        BY <2>1, <2>2, StatementsFix
      <3> QED BY <1>a, <2>1, <3>1
    <2>3. CASE cliCur = r
      <3>1. Fixes(db, db', r) /\ WishStands(r)
        BY <2>1, StatementsFix DEF WishStands
      <3> QED BY <2>1, <2>3, <3>1, ReleasedWaits
    <2> QED BY <2>2, <2>3
  <1>5. CASE CliDbError
    BY <1>5, <1>a, <1>b DEF CliDbError
  <1>6. ASSUME NEW q \in Row, NEW t \in Tx, ImportTransaction(q, t) PROVE Guarded(r)'
    <2>1. /\ Still /\ UNCHANGED <<accepted, priceMet, raced>> /\ ~Known(db, q)
          /\ ask' = [ask EXCEPT ![q] = Ask("hold", 0)]
      BY <1>6 DEF ImportTransaction, Known
    <2> DEFINE sched == NULL
    <2>2. /\ sched \in Nat \cup {NULL}
          /\ db' = InsertBroadcastTx(db, q, t, 0, "immediate", sched)
      BY <1>6 DEF ImportTransaction
    <2> HIDE DEF sched
    <2>3. /\ q # r => LeavesAlone(db, db', r)
          /\ db'[q].mode = "immediate" /\ db'[q].sched = sched
          /\ db'[q].defer = NULL /\ db'[q].trigger = "datetime"
          /\ db'[q].status = "pending"
      BY <2>1, <2>2, ImportsLeave
    <2>4. CASE q # r
      <3>1. ask'[r] = ask[r]
        BY <2>1, <2>4 DEF IInv, TypeOK
      <3> QED BY <1>a, <2>1, <2>3, <2>4, <3>1
    <2>5. CASE q = r
      <3>1. ask'[r].kind = "hold"
        BY <2>1, <2>5 DEF IInv, TypeOK, Ask
      <3>2. ~Marking(r)' /\ ~InTickBatch(r)'
        BY <1>e, <2>1, <2>5 DEF Marking, InTickBatch
      <3> QED BY <2>3, <2>5, <3>1, <3>2
              DEF Guarded, Awaits, AwaitsRelease, Timeless, sched
    <2> QED BY <2>4, <2>5
  <1>7. ASSUME NEW q \in Row, NEW t \in Tx, NEW at \in Time, NEW delay \in Time,
               CliImportAt(q, t, at, delay)
        PROVE  Guarded(r)'
    <2> DEFINE e == InsertBroadcastTx(db, q, t, 0, "immediate", at)
    <2>1. /\ Still /\ UNCHANGED <<accepted, priceMet, raced>> /\ ~Known(db, q)
          /\ ask' = [ask EXCEPT ![q] = Ask("delay", delay)]
          /\ db' = SetRandomSchedule(e, q, delay)
      BY <1>7 DEF CliImportAt, Known
    <2>2. at \in Nat /\ delay \in Nat
      BY PoolAssumption DEF Time
    <2>3. /\ q # r => LeavesAlone(db, e, r)
          /\ e[q].sched = at /\ e[q].defer = NULL /\ e[q].trigger = "datetime"
          /\ e[q].status = "pending" /\ e \in Table
      <3> DEFINE sched == at
      <3>1. /\ sched \in Nat \cup {NULL}
            /\ e = InsertBroadcastTx(db, q, t, 0, "immediate", sched)
        BY <2>2
      <3> HIDE DEF e, sched
      <3>2. /\ q # r => LeavesAlone(db, e, r)
            /\ e[q].sched = sched /\ e[q].defer = NULL /\ e[q].trigger = "datetime"
            /\ e[q].status = "pending" /\ e \in Table
        BY <3>1, ImportsLeave
      <3> QED BY <3>2 DEF sched
    <2> HIDE DEF e
    <2>4. CASE q # r
      <3>1. LeavesAlone(e, db', r)
        BY <2>1, <2>2, <2>3, <2>4, StatementsFix
      <3>2. LeavesAlone(db, db', r)
        BY <2>3, <2>4, <3>1, LeavesTwice
      <3>3. ask'[r] = ask[r]
        BY <2>1, <2>4 DEF IInv, TypeOK
      <3> QED BY <1>a, <2>1, <3>2, <3>3
    <2>5. CASE q = r
      <3>1. ask'[r].kind = "delay" /\ ask'[r].at = delay
        BY <2>1, <2>5 DEF IInv, TypeOK, Ask
      <3>2. ~Marking(r)' /\ ~InTickBatch(r)'
        BY <1>e, <2>1, <2>5 DEF Marking, InTickBatch
      <3>3. /\ db'[r].status = "scheduled" /\ db'[r].sched = delay
            /\ db'[r].defer = NULL /\ db'[r].trigger = "datetime"
        <4> DEFINE rec == [e[r] EXCEPT !.status = "scheduled", !.sched = delay]
        <4>1. /\ rec.status = "scheduled" /\ rec.sched = delay
              /\ rec.defer = NULL /\ rec.trigger = "datetime"
          BY <2>3, <2>5 DEF RowRecord, Table
        <4>2. db' = [e EXCEPT ![r] = rec]
          BY <2>1, <2>3, <2>5 DEF SetRandomSchedule, Write, InTable, TxStatus
        <4> HIDE DEF rec
        <4> QED BY <2>3, <4>1, <4>2 DEF Table
      <3>4. delay # NULL /\ delay >= delay
        BY <2>2, PoolDbAssumption
      <3> QED BY <3>1, <3>2, <3>3, <3>4 DEF Guarded, Awaits, AwaitsTime
    <2> QED BY <2>4, <2>5
  <1>8. ASSUME NEW q \in Row, CliBroadcast(q) PROVE Guarded(r)'
    <2>1. Still /\ UNCHANGED <<db, priceMet, raced>>
          /\ ask' = [ask EXCEPT ![q] = Ask("now", 0)]
      BY <1>8 DEF CliBroadcast
    <2>2. db[q].tx \in Tx
      BY <1>8 DEF CliBroadcast, InTable, TxStatus, IInv, Hands, SettledRows, Known
    <2>3. accepted \subseteq accepted'
      BY <1>8, <2>2, SubmitAccepts DEF CliBroadcast
    <2>4. CASE q # r
      <3>1. LeavesAlone(db, db', r) /\ ask'[r] = ask[r]
        BY <1>b, <2>1, <2>4 DEF IInv, TypeOK
      <3> QED BY <1>a, <2>1, <2>3, <3>1
    <2>5. CASE q = r
      <3>1. ask'[r].kind = "now"
        BY <2>1, <2>5 DEF IInv, TypeOK, Ask
      <3> QED BY <3>1 DEF Guarded, Unmet, InstructionMet, Side
    <2> QED BY <2>4, <2>5
  <1>9. ASSUME NEW q \in Row, CliRemove(q) PROVE Guarded(r)'
    <2>1. /\ Still /\ UNCHANGED <<accepted, wishVars>> /\ db' = RemoveBroadcastTx(db, q)
      BY <1>9 DEF CliRemove
    <2>2. LeavesAlone(db, db', r)
      BY <2>1, StatementsLeave
    <2> QED BY <1>a, <2>1, <2>2
  <1>10. CASE CliStart
    <2>1. /\ Still /\ UNCHANGED <<accepted, wishVars>>
          /\ db' = RequeueRetriableFailures(db)
      BY <1>10 DEF CliStart
    <2>2. LeavesAlone(db, db', r)
      BY <2>1, StatementsLeave
    <2> QED BY <1>a, <2>1, <2>2
  <1> QED BY <1>1, <1>2, <1>3, <1>4, <1>5, <1>6, <1>7, <1>8, <1>9, <1>10 DEF CommandStep

\* Restarts and the world outside.
LEMMA WorldWaits ==
    ASSUME IInv, IInv', WaitInv, WorldStep, NEW r \in Row
    PROVE  Guarded(r)'
  <1> USE DEF tickVars, loopVars, clockVars, linkVars, netVars, wishVars
  <1> /\ db \in Table /\ now \in Nat /\ height \in Nat /\ ask \in [Row -> AskRecord]
      /\ now' \in Nat /\ height' \in Nat
    BY DEF IInv, TypeOK, Table
  <1> height <= MaxHeight /\ Guarded(r)
    BY DEF WaitInv
  <1>1. CASE Restart
    <2>1. LeavesAlone(db, db', r)
      BY <1>1, StatementsLeave DEF Restart
    <2>2. ~Marking(r)' /\ ~InTickBatch(r)' /\ WishStands(r)
      BY <1>1 DEF Restart, Marking, InTickBatch, WishStands
    <2>3. UNCHANGED price /\ prcSeen' = NULL
      BY <1>1 DEF Restart
    <2> QED BY <2>1, <2>2, <2>3, UndisturbedWaits
  <1>2. CASE WorldStep /\ ~Restart
    <2>1. UNCHANGED <<db, tickVars, loopVars, accepted, ask, raced>>
      BY <1>2 DEF WorldStep, Elapse, Mine, Reorg, PriceMoves, Evict, IndexerFails,
                  IndexerRecovers, RpcFails, RpcRecovers
    <2>2. now <= now' /\ height <= height'
      BY <1>2 DEF WorldStep, Elapse, Mine, Reorg, PriceMoves, Evict, IndexerFails,
                  IndexerRecovers, RpcFails, RpcRecovers
    <2>3. CASE PriceMoves
      <3>1. /\ r \in priceMet => r \in priceMet'
            /\ ask[r].kind = price' => r \in priceMet'
        BY <2>3 DEF PriceMoves
      <3> QED BY <2>1, <2>2, <3>1, StatementsLeave, UndisturbedWaits
              DEF WishStands, Marking, InTickBatch
    <2>4. CASE ~PriceMoves
      <3>1. UNCHANGED <<price, priceMet>>
        BY <1>2, <2>4 DEF WorldStep, Elapse, Mine, Reorg, Evict, IndexerFails,
                          IndexerRecovers, RpcFails, RpcRecovers
      <3> QED BY <2>1, <2>2, <3>1, StatementsLeave, UndisturbedWaits
              DEF WishStands, Marking, InTickBatch
    <2> QED BY <2>3, <2>4
  <1> QED BY <1>1, <1>2

-----------------------------------------------------------------------------
\* Every step keeps what is fixed of the rows there are; an ingest goes on.
LEMMA StepFixes ==
    ASSUME IInv, [Next]_vars, NEW r \in Row
    PROVE  /\ Known(db, r) => Fixes(db, db', r)
           /\ ~IngestStep => \/ ing'[r] = ing[r] \/ ing'[r].pc = "lost"
  <1> USE DEF tickVars, loopVars, clockVars, linkVars, netVars, wishVars
  <1> db \in Table /\ now \in Nat /\ ing \in [Row -> IngestRecord]
    BY DEF IInv, TypeOK, Table
  <1>a. UNCHANGED db => Fixes(db, db', r)
    BY StatementsLeave
  <1>1. CASE IngestStep
    <2> PICK q \in Row : \/ \E t \in Tx, src \in Wallet : IngestAck(q, t, src)
                         \/ IngestNext(q) \/ IngestFail(q)
      BY <1>1 DEF IngestStep
    <2>1. CASE \/ \E t \in Tx, src \in Wallet : IngestAck(q, t, src)
               \/ IngestStore(q) \/ IngestFail(q)
      BY <1>1, <1>a, <2>1 DEF IngestAck, IngestStore, IngestFail
    <2>2. CASE IngestInsert(q)
      <3>1. ~Known(db, q)
        BY <2>2 DEF IngestInsert, IInv, Hands, IngestHolds
      <3>2. q # r => db'[r] = db[r]
        BY <2>2 DEF IngestInsert, InsertBroadcastTx, Table
      <3> QED BY <1>1, <3>1, <3>2 DEF Fixes, Known
    <2>3. CASE IngestMarkDue(q)
      BY <1>1, <2>3, StatementsFix DEF IngestMarkDue
    <2> QED BY <2>1, <2>2, <2>3 DEF IngestNext
  <1>2. CASE TickNext
    <2>1. UNCHANGED ing
      BY <1>2 DEF TickNext, TickStart, TickListFailed, TickListDue, TickRecord,
         TickDbError, TickEnd, TickMark, TickRequeue, TickSkip, TickAbort, TickSend
    <2>2. CASE \/ TickStart \/ TickListFailed \/ TickListDue \/ TickDbError \/ TickEnd
               \/ \E q \in Row : TickAbort(q) \/ TickSend(q)
      BY <1>a, <2>1, <2>2
           DEF TickStart, TickListFailed, TickListDue, TickDbError, TickEnd,
                        TickAbort, TickSend
    <2>3. CASE TickRecord
      <3>1. tickCur \in Row /\ tickRes \in Result
        BY <2>3 DEF TickRecord, IInv, Hands, TickHolds
      <3>2. \/ UNCHANGED db \/ db' = MarkBroadcast(db, tickCur)
            \/ db' = UpdateTxStatusFailed(db, tickCur, "opaque")
        BY <2>3, <3>1 DEF TickRecord, Result, BroadcastError
      <3> QED BY <1>a, <2>1, <3>1, <3>2, StatementsFix DEF BroadcastError
    <2>4. ASSUME NEW q \in Row, TickMark(q) \/ TickRequeue(q) \/ TickSkip(q)
          PROVE  Fixes(db, db', r)
      BY <1>a, <2>4, StatementsFix, StatementsLeave DEF TickMark, TickRequeue, TickSkip
    <2> QED BY <1>2, <2>1, <2>2, <2>3, <2>4 DEF TickNext
  <1>3. CASE BlkNext \/ PrcNext \/ ConfNext \/ RebNext
    <2>1. UNCHANGED ing
      BY <1>3 DEF BlkNext, PrcNext, ConfNext, RebNext, BlkList, BlkMark, PrcFetch,
         PrcList, PrcMark, ConfList, ConfCheck, RebList, RebSend, RebDbError
    <2>2. CASE BlkList \/ PrcFetch \/ PrcList \/ ConfList \/ RebNext
      BY <1>a, <2>1, <2>2
           DEF BlkList, PrcFetch, PrcList, ConfList, RebNext, RebList, RebSend,
               RebDbError
    <2>3. ASSUME NEW q \in Row, BlkMark(q) \/ PrcMark(q) \/ ConfCheck(q)
          PROVE  Fixes(db, db', r)
      BY <1>a, <2>3, StatementsFix DEF BlkMark, PrcMark, ConfCheck
    <2> QED BY <1>3, <2>1, <2>2, <2>3 DEF BlkNext, PrcNext, ConfNext
  <1>4. CASE CommandStep
    <2>1. UNCHANGED ing
      BY <1>4 DEF CommandStep, ApiWrite, CliStart, CliMark, CliDbError, ApiScheduleAt,
         ScheduleTransaction, ApiScheduleByPrice, ImportTransaction, CliImportAt,
         RemoveTransaction, RetryFailedTransaction, CliBroadcast, CliRemove
    <2>2. CASE ApiWrite
      <3>1. /\ api.row \in Row /\ api.at \in Nat
            /\ (IF api.isReschedule THEN api.at ELSE NULL) \in Nat \cup {NULL}
            /\ api.op = "price" => api.side \in Side
        BY <2>2 DEF ApiWrite, IInv, TypeOK, ApiRecord, Hands, ApiHolds
      <3> QED BY <2>1, <2>2, <3>1, StatementsFix DEF ApiWrite
    <2>3. CASE CliMark
      BY <2>1, <2>3, StatementsFix DEF CliMark, IInv, TypeOK
    <2>4. CASE CliDbError
      BY <1>a, <2>1, <2>4 DEF CliDbError
    <2>5. ASSUME NEW q \in Row,
                 \/ \E t \in Time : ApiScheduleAt(q, t)
                 \/ \E side \in Side : ApiScheduleByPrice(q, side)
                 \/ RemoveTransaction(q) \/ RetryFailedTransaction(q) \/ CliBroadcast(q)
          PROVE  Fixes(db, db', r)
      BY <1>a, <2>5, StatementsLeave
         DEF ApiScheduleAt, ApiScheduleByPrice, RemoveTransaction,
             RetryFailedTransaction, CliBroadcast
    <2>6. ASSUME NEW q \in Row, NEW t \in Time, ScheduleTransaction(q, t)
          PROVE  Fixes(db, db', r)
      <3>1. t \in Nat
        BY PoolAssumption DEF Time
      <3> QED BY <2>6, <3>1, StatementsFix DEF ScheduleTransaction
    <2>7. ASSUME NEW q \in Row, NEW t \in Tx, ImportTransaction(q, t), Known(db, r)
          PROVE  Fixes(db, db', r)
      <3>1. q # r
        BY <2>7 DEF ImportTransaction, Known
      <3>2. db'[r] = db[r]
        BY <2>7, <3>1 DEF ImportTransaction, InsertBroadcastTx, Table
      <3> QED BY <3>2 DEF Fixes, Known
    <2>8. ASSUME NEW q \in Row, NEW t \in Tx, NEW at \in Time, NEW delay \in Time,
                 CliImportAt(q, t, at, delay), Known(db, r)
          PROVE  Fixes(db, db', r)
      <3> DEFINE e == InsertBroadcastTx(db, q, t, 0, "immediate", at)
      <3>1. q # r /\ db' = SetRandomSchedule(e, q, delay)
        BY <2>8 DEF CliImportAt, Known
      <3>2. at \in Nat /\ delay \in Nat
        BY PoolAssumption DEF Time
      <3>3. e \in Table
        BY <3>2, InsertIsNew DEF Adds, Mode
      <3>4. e[r] = db[r]
        BY <3>1 DEF InsertBroadcastTx, Table
      <3> HIDE DEF e
      <3>5. Fixes(e, db', r)
        BY <3>1, <3>2, <3>3, StatementsFix
      <3> QED BY <3>4, <3>5 DEF Fixes, Known
    <2>9. ASSUME NEW q \in Row, CliRemove(q) PROVE Fixes(db, db', r)
      BY <2>9, StatementsLeave DEF CliRemove
    <2>10. CASE CliStart
      BY <2>1, <2>10, StatementsLeave DEF CliStart
    <2> QED BY <1>4, <2>1, <2>2, <2>3, <2>4, <2>5, <2>6, <2>7, <2>8, <2>9, <2>10
            DEF CommandStep
  <1>5. CASE WorldStep
    <2>1. CASE Restart
      <3>1. ing'[r] = ing[r] \/ ing'[r].pc = "lost"
        BY <2>1 DEF Restart, IngestRecord
      <3>2. Fixes(db, db', r)
        BY <2>1, StatementsLeave DEF Restart
      <3> QED BY <3>1, <3>2
    <2>2. CASE WorldStep /\ ~Restart
      BY <1>a, <2>2 DEF WorldStep, Elapse, Mine, Reorg, PriceMoves, Evict, IndexerFails,
                        IndexerRecovers, RpcFails, RpcRecovers
    <2> QED BY <1>5, <2>1, <2>2
  <1>6. CASE UNCHANGED vars
    BY <1>a, <1>6 DEF vars
  <1> QED BY <1>1, <1>2, <1>3, <1>4, <1>5, <1>6 DEF Next

\* What WaitInv says of the hands of the loops and of the ingests.
LEMMA StepDecides ==
    ASSUME IInv, IInv', WaitInv, [Next]_vars
    PROVE  height' <= MaxHeight /\ NetAccepted' /\ CurInHand' /\ Decided'
  <1> USE DEF tickVars, loopVars, clockVars, linkVars, netVars, wishVars
  <1> /\ db \in Table /\ ing \in [Row -> IngestRecord] /\ height \in Nat /\ now \in Nat
      /\ net \in [Tx -> {"unknown", "mempool", "mined"}]
      /\ MaxHeight \in Nat
    BY PoolAssumption DEF IInv, TypeOK, Table
  <1> height <= MaxHeight /\ NetAccepted /\ CurInHand /\ Decided
    BY DEF WaitInv
  <1>a. \A r \in Row : Known(db, r) => Fixes(db, db', r)
    BY StepFixes
  <1>1. CASE IngestStep
    <2>1. UNCHANGED <<height, netVars, tickVars, api>>
      BY <1>1 DEF IngestStep, IngestNext, IngestAck, IngestInsert, IngestStore,
                  IngestMarkDue, IngestFail
    <2>2. NetAccepted' /\ CurInHand'
      BY <2>1 DEF NetAccepted, CurInHand
    <2> PICK q \in Row : \/ \E t \in Tx, src \in Wallet : IngestAck(q, t, src)
                         \/ IngestNext(q) \/ IngestFail(q)
      BY <1>1 DEF IngestStep
    <2>3. \A r \in Row : r # q => ing'[r] = ing[r]
      BY DEF IngestNext, IngestAck, IngestInsert, IngestStore, IngestMarkDue, IngestFail
    <2>4. /\ ing'[q].pc \in {"inserted", "stored"} => Known(db', q)
          /\ ing'[q].pc = "inserted" /\ db'[q].mode = "immediate"
                => db'[q].nlock = LOCKTIME_THRESHOLD
          /\ ing'[q].pc = "stored" => db'[q].nlock = LOCKTIME_THRESHOLD
      <3>1. CASE IngestInsert(q)
        <4> DEFINE t     == ing[q].tx
                   nlock == LockOf[t]
                   src   == ing[q].src
        <4>1. t \in Tx /\ nlock \in Nat
          BY <3>1, PoolDbAssumption DEF IngestInsert, IInv, Hands, IngestHolds
        <4> PICK plan \in IngestPlans(src, nlock) :
                   db' = InsertBroadcastTx(db, q, t, nlock, plan.mode, plan.sched)
          BY <3>1 DEF IngestInsert
        <4>2. plan.mode \in Mode /\ plan.sched \in Nat \cup {NULL}
          BY <4>1, PoolAssumption DEF IngestPlans, BroadcastPlans, Mode, Time
        <4>3. plan.mode = "immediate" => nlock = LOCKTIME_THRESHOLD
          BY <4>1, PoolDbAssumption DEF IngestPlans
        <4> DEFINE mode == plan.mode
                   sched == plan.sched
        <4>4. db'[q].nlock = nlock /\ db'[q].mode = mode /\ db'[q].status = "pending"
          <5>1. db' = InsertBroadcastTx(db, q, t, nlock, mode, sched)
            OBVIOUS
          <5>2. t \in Tx /\ nlock \in Nat /\ mode \in Mode /\ sched \in Nat \cup {NULL}
            BY <4>1, <4>2
          <5> HIDE DEF t, nlock, mode, sched
          <5> QED BY <5>1, <5>2, InsertsLeave
        <4>5. ing'[q].pc = "inserted"
          BY <3>1 DEF IngestInsert
        <4> QED BY <4>3, <4>4, <4>5 DEF Known
      <3>2. CASE IngestStore(q)
        BY <3>2 DEF IngestStore, Decided, Known, IngestRecord
      <3>3. CASE IngestMarkDue(q)
        BY <3>3 DEF IngestMarkDue
      <3>4. CASE (\E t \in Tx, src \in Wallet : IngestAck(q, t, src)) \/ IngestFail(q)
        BY <3>4 DEF IngestAck, IngestFail, IngestRecord
      <3> QED BY <3>1, <3>2, <3>3, <3>4 DEF IngestNext
    <2>5. /\ \A r \in Row : Known(db, r) => db'[r].mode = db[r].mode /\ Known(db', r)
                                           /\ db'[r].nlock = db[r].nlock
          /\ api # NULL => api.row \in Row
      BY <1>a DEF Fixes, IInv, TypeOK, ApiRecord
    <2> QED BY <2>1, <2>2, <2>3, <2>4, <2>5 DEF Decided
  <1>2. CASE TickNext \/ BlkNext \/ PrcNext \/ ConfNext \/ RebNext
    <2>1. UNCHANGED <<ing, api, height>>
      BY <1>2 DEF TickNext, TickStart, TickListFailed, TickListDue, TickRecord,
         TickDbError, TickEnd, TickMark, TickRequeue, TickSkip, TickAbort, TickSend,
         BlkNext, PrcNext, ConfNext, RebNext, BlkList, BlkMark, PrcFetch,
         PrcList, PrcMark, ConfList, ConfCheck, RebList, RebSend, RebDbError
    <2>2. CurInHand'
      BY <1>2 DEF CurInHand, TickNext, TickStart, TickListFailed, TickListDue, TickRecord,
         TickDbError, TickEnd, TickMark, TickRequeue, TickSkip, TickAbort, TickSend,
         BlkNext, PrcNext, ConfNext, RebNext, BlkList, BlkMark, PrcFetch,
         PrcList, PrcMark, ConfList, ConfCheck, RebList, RebSend, RebDbError
    <2>3. NetAccepted'
      <3>1. ASSUME NEW q \in Row, TickSend(q) \/ RebSend(q) PROVE NetAccepted'
        <4>1. db[q].tx \in Tx
          BY <3>1 DEF TickSend, RebSend, IInv, Hands, HeldRows, RowsInHand, SettledRows
        <4> QED BY <3>1, <4>1, SubmitAccepts DEF TickSend, RebSend
      <3>2. CASE UNCHANGED <<net, accepted>>
        BY <3>2 DEF NetAccepted
      <3>3. ASSUME NEW q \in Row, RebDbError(q) PROVE NetAccepted'
        <4>1. db[q].tx \in Tx
          BY <3>3 DEF RebDbError, IInv, Hands, HeldRows, RowsInHand, SettledRows
        <4> QED BY <3>3, <4>1 DEF RebDbError, NetAccepted
      <3>4. \/ UNCHANGED <<net, accepted>>
            \/ \E q \in Row : TickSend(q) \/ RebSend(q) \/ RebDbError(q)
        BY <1>2 DEF TickNext, TickStart, TickListFailed, TickListDue, TickRecord,
           TickDbError, TickEnd, TickMark, TickRequeue, TickSkip, TickAbort,
           BlkNext, PrcNext, ConfNext, RebNext, BlkList, BlkMark, PrcFetch,
           PrcList, PrcMark, ConfList, ConfCheck, RebList
      <3> QED BY <3>1, <3>2, <3>3, <3>4
    <2>4. Decided'
      <3>1. \A r \in Row : ing'[r].pc \in {"inserted", "stored"} => Known(db, r)
        BY <2>1 DEF Decided
      <3>2. api # NULL => api.row \in Row
        BY DEF IInv, TypeOK, ApiRecord
      <3> QED BY <1>a, <2>1, <3>1, <3>2 DEF Decided, Fixes
    <2> QED BY <2>1, <2>2, <2>3, <2>4
  <1>3. CASE CommandStep
    <2>1. UNCHANGED <<ing, height, tickVars>>
      BY <1>3 DEF CommandStep, ApiWrite, CliStart, CliMark, CliDbError, ApiScheduleAt,
         ScheduleTransaction, ApiScheduleByPrice, ImportTransaction, CliImportAt,
         RemoveTransaction, RetryFailedTransaction, CliBroadcast, CliRemove
    <2>2. NetAccepted'
      <3>1. ASSUME NEW q \in Row, CliBroadcast(q) PROVE NetAccepted'
        <4>1. db[q].tx \in Tx
          BY <3>1 DEF CliBroadcast, InTable, TxStatus, IInv, Hands, SettledRows, Known
        <4> QED BY <3>1, <4>1, SubmitAccepts DEF CliBroadcast
      <3>2. CASE UNCHANGED <<net, accepted>>
        BY <3>2 DEF NetAccepted
      <3>3. UNCHANGED <<net, accepted>> \/ \E q \in Row : CliBroadcast(q)
        BY <1>3 DEF CommandStep, ApiWrite, CliStart, CliMark, CliDbError, ApiScheduleAt,
           ScheduleTransaction, ApiScheduleByPrice, ImportTransaction, CliImportAt,
           RemoveTransaction, RetryFailedTransaction, CliRemove
      <3> QED BY <3>1, <3>2, <3>3
    <2>3. \/ api' \in {api, NULL}
          \/ \E q \in Row, t \in Time : ApiScheduleAt(q, t)
          \/ \E q \in Row, side \in Side : ApiScheduleByPrice(q, side)
      BY <1>3 DEF CommandStep, ApiWrite, CliStart, CliMark, CliDbError,
         ScheduleTransaction, ImportTransaction, CliImportAt,
         RemoveTransaction, RetryFailedTransaction, CliBroadcast, CliRemove
    <2>4. \A r \in Row : ing'[r].pc \in {"inserted", "stored"} => Known(db, r)
      BY <2>1 DEF Decided
    <2>5. CASE api' \in {api, NULL}
      <3>1. api # NULL => api.row \in Row
        BY DEF IInv, TypeOK, ApiRecord
      <3>2. Decided'
        BY <1>a, <2>1, <2>4, <2>5, <3>1 DEF Decided, Fixes
      <3> QED BY <2>1, <2>2, <3>2 DEF CurInHand
    <2>6. ASSUME NEW q \in Row, NEW t \in Time, ApiScheduleAt(q, t) PROVE Decided'
      <3>1. api'.op = "at"
        BY <2>6 DEF ApiScheduleAt
      <3> QED BY <1>a, <2>1, <2>4, <3>1 DEF Decided, Fixes
    <2>7. ASSUME NEW q \in Row, NEW side \in Side, ApiScheduleByPrice(q, side)
          PROVE  Decided'
      <3>1. api'.row = q /\ Known(db', q) /\ db'[q].mode = "manual"
        BY <2>7 DEF ApiScheduleByPrice, Known
      <3> QED BY <1>a, <2>1, <2>4, <3>1 DEF Decided, Fixes
    <2>8. CurInHand'
      BY <2>1 DEF CurInHand
    <2> QED BY <2>1, <2>2, <2>3, <2>5, <2>6, <2>7, <2>8
  <1>4. CASE WorldStep
    <2>1. height' <= MaxHeight
      BY <1>4 DEF WorldStep, Elapse, Mine, Reorg, PriceMoves, Restart, Evict,
                  IndexerFails, IndexerRecovers, RpcFails, RpcRecovers
    <2>2. NetAccepted'
      <3>1. accepted' = accepted
        BY <1>4 DEF WorldStep, Elapse, Mine, Reorg, PriceMoves, Restart, Evict,
                    IndexerFails, IndexerRecovers, RpcFails, RpcRecovers
      <3>2. \A t \in Tx : net'[t] # "unknown" => net[t] # "unknown"
        BY <1>4 DEF WorldStep, Elapse, Mine, Reorg, PriceMoves, Restart, Evict,
                    IndexerFails, IndexerRecovers, RpcFails, RpcRecovers
      <3> QED BY <3>1, <3>2 DEF NetAccepted
    <2>3. CurInHand' /\ api' \in {api, NULL}
      BY <1>4 DEF CurInHand, WorldStep, Elapse, Mine, Reorg, PriceMoves, Restart, Evict,
                  IndexerFails, IndexerRecovers, RpcFails, RpcRecovers
    <2>4. ASSUME NEW r \in Row, ing'[r].pc \in {"inserted", "stored"}
          PROVE  ing'[r] = ing[r] /\ Known(db, r)
      <3>1. ing'[r] = ing[r]
        BY <1>4, <2>4 DEF WorldStep, Elapse, Mine, Reorg, PriceMoves, Restart, Evict,
                  IndexerFails, IndexerRecovers, RpcFails, RpcRecovers, IngestRecord
      <3> QED BY <2>4, <3>1 DEF Decided
    <2>5. api # NULL => api.row \in Row
      BY DEF IInv, TypeOK, ApiRecord
    <2>6. Decided'
      BY <1>a, <2>3, <2>4, <2>5 DEF Decided, Fixes
    <2> QED BY <2>1, <2>2, <2>3, <2>6
  <1>5. CASE UNCHANGED vars
    BY <1>5 DEF vars, NetAccepted, CurInHand, Decided, Known
  <1> QED BY <1>1, <1>2, <1>3, <1>4, <1>5 DEF Next

\* Nothing has been asked for, and nothing is in anyone's hands.
LEMMA InitWaits == Init => WaitInv
  <1> SUFFICES ASSUME Init PROVE WaitInv
    OBVIOUS
  <1>1. height <= MaxHeight
    BY PoolAssumption DEF Init
  <1>2. NetAccepted /\ CurInHand /\ Decided
    BY DEF Init, NetAccepted, CurInHand, Decided
  <1>3. \A r \in Row : Guarded(r)
    BY DEF Init, Guarded, Known, FreshRow
  <1> QED BY <1>1, <1>2, <1>3 DEF WaitInv

\* Every step of the pool leaves every row waiting in one of the five ways.
LEMMA StepWaits == IInv /\ IInv' /\ WaitInv /\ [Next]_vars => WaitInv'
  <1> SUFFICES ASSUME IInv, IInv', WaitInv, [Next]_vars PROVE WaitInv'
    OBVIOUS
  <1>1. height' <= MaxHeight /\ NetAccepted' /\ CurInHand' /\ Decided'
    BY StepDecides
  <1>2. ASSUME NEW r \in Row PROVE Guarded(r)'
    <2>1. CASE UNCHANGED vars
      <3>1. Guarded(r)
        BY DEF WaitInv
      <3> QED BY <2>1, <3>1
              DEF vars, tickVars, loopVars, clockVars, linkVars, netVars, wishVars,
                  Guarded, Unmet, InstructionMet, InTickBatch, Known, Awaits,
                  AwaitsRelease, AwaitsPrice, AwaitsDefer, AwaitsTime, AwaitsBlock, Marking,
                  Timeless, InTable
    <2> QED BY <2>1, IngestWaits, TickWaits, LoopsWait, CommandsWait, WorldWaits DEF Next
  <1> QED BY <1>1, <1>2 DEF WaitInv

\* What the broadcast loop sends is in its batch.
LEMMA SendsFromBatch ==
    ASSUME IInv, [Next]_vars, NEW r \in Row, Sends(r)
    PROVE  InTickBatch(r) /\ Known(db, r)
  <1> USE DEF tickVars, loopVars, clockVars, linkVars, netVars, wishVars
  <1>1. tickPc = "bcast" /\ tickPc' = "reply" /\ tickCur' = r
    BY DEF Sends
  <1>2. CASE TickNext
    <2> PICK q \in Row : TickSend(q)
      BY <1>1, <1>2 DEF TickNext, TickStart, TickListFailed, TickListDue, TickRecord,
         TickDbError, TickEnd, TickMark, TickRequeue, TickSkip, TickAbort
    <2> QED BY <1>1 DEF TickSend, InTickBatch, IInv, Hands, HeldRows, RowsInHand
  <1>3. CASE ~TickNext
    <2>1. tickPc' \in {tickPc, "idle"}
      <3>1. CASE IngestStep
        BY <3>1 DEF IngestStep, IngestNext, IngestAck, IngestInsert, IngestStore,
                    IngestMarkDue, IngestFail
      <3>2. CASE BlkNext \/ PrcNext \/ ConfNext \/ RebNext
        BY <3>2 DEF BlkNext, PrcNext, ConfNext, RebNext, BlkList, BlkMark, PrcFetch,
           PrcList, PrcMark, ConfList, ConfCheck, RebList, RebSend, RebDbError
      <3>3. CASE CommandStep
        BY <3>3 DEF CommandStep, ApiWrite, CliStart, CliMark, CliDbError, ApiScheduleAt,
           ScheduleTransaction, ApiScheduleByPrice, ImportTransaction, CliImportAt,
           RemoveTransaction, RetryFailedTransaction, CliBroadcast, CliRemove
      <3>4. CASE WorldStep \/ UNCHANGED vars
        BY <3>4 DEF WorldStep, Elapse, Mine, Reorg, PriceMoves, Restart,
           Evict, IndexerFails, IndexerRecovers, RpcFails, RpcRecovers, vars
      <3> QED BY <1>3, <3>1, <3>2, <3>3, <3>4 DEF Next
    <2> QED BY <1>1, <2>1
  <1> QED BY <1>2, <1>3

\* The daemon makes a transaction public only when the last instruction about its
\* row is fulfilled: its time, its delay, its block or its price has come; no send
\* is early, whatever the five loops, two processes, restarts and outages do.
\* Excepted are what a node knows already and the commands that are raced.
THEOREM AlwaysInstructionHonoured == Spec => InstructionHonoured
  <1>1. IInv /\ WaitInv /\ [Next]_vars =>
          \A r \in Row : Sends(r) /\ r \notin raced /\ db[r].tx \notin accepted
                           => InstructionMet(r)
    BY SendsFromBatch DEF WaitInv, Guarded, Unmet
  <1> QED BY <1>1, InitWaits, StepWaits, AlwaysIInv, PTL DEF Spec, InstructionHonoured
===============================================================================
