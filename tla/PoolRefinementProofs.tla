------------------------ MODULE PoolRefinementProofs --------------------------
(***************************************************************************)
(* PoolLifecycle implements PoolPromise, and what is held stays private,   *)
(* for any rows, transactions, commands, faults and bounds.                *)
(*                                                                         *)
(* The mapping forgets who holds a row and how: what it needs is that a    *)
(* row nobody released is one no actor lists (Withheld), and that the      *)
(* hands of every actor hold released rows only (HandsReleased).           *)
(***************************************************************************)
EXTENDS PoolRefinement, PoolLifecycleProofs

\* A row no loop lists: it waits, without a time, a price or a block of its own.
Withheld(row) ==
    /\ row.status = "pending"
    /\ row.sched = NULL /\ row.price = NULL
    /\ ~(row.mode = "by_block" /\ row.nlock > 0 /\ row.nlock < LOCKTIME_THRESHOLD)

\* A row its owner has not released is withheld, and one the table does not know
\* has not been released.
UnreleasedWaits ==
    \A r \in Row : InTable(db, r) => r \in Released \/ Withheld(db[r])
FreshUnreleased == \A r \in Row : ~Known(db, r) => r \notin Released

\* What an actor holds has been released.
HandsReleased == Claimed \cup confTodo \subseteq Released

\* The row of a schedule request is, or was, in the table.
ApiKnown == api # NULL => Known(db, api.row)

\* A row that is sent again was sent before.
RebSent == \A r \in rebTodo : db[r].tx \in accepted

\* A node has accepted only transactions of rows that were released.
PublicReleased ==
    \A t \in accepted : \E r \in Released : Known(db, r) /\ db[r].tx = t

HoldInv ==
    /\ UnreleasedWaits /\ FreshUnreleased /\ HandsReleased /\ ApiKnown
    /\ RebSent /\ NetAccepted /\ PublicReleased

-----------------------------------------------------------------------------
(* What a statement does to the stages.                                    *)

\* Stage, of a row.
Where(row) ==
    CASE row.status = "fresh"                              -> "absent"
      [] row.status \in {"pending", "scheduled", "failed"} -> "waiting"
      [] row.status = "broadcast"                          -> "sent"
      [] row.status = "confirmed"                          -> "confirmed"
      [] OTHER                                             -> "removed"

\* Statement d -> e leaves row r at its stage.
Rests(d, e, r) ==
    /\ Where(e[r]) = Where(d[r])
    /\ e[r].tx = d[r].tx /\ e[r].mode = d[r].mode
    /\ Withheld(d[r]) => Withheld(e[r])

Stays(d, e) == e \in Table /\ \A r \in Row : Rests(d, e, r)

\* Statement d -> e brings row q, if the table has it, to stage s.
Moves(d, e, q, s) ==
    /\ e \in Table
    /\ \A r \in Row : r # q => Rests(d, e, r)
    /\ e[q].tx = d[q].tx /\ e[q].mode = d[q].mode
    /\ Where(e[q]) = IF InTable(d, q) THEN s ELSE Where(d[q])

\* Statement d -> e takes in row q, of transaction t.
Enters(d, e, q, t) ==
    /\ e \in Table
    /\ \A r \in Row : r # q => Rests(d, e, r)
    /\ e[q].tx = t /\ Where(e[q]) = "waiting"

\* The stages are told apart by the status.
LEMMA Stages ==
    ASSUME NEW row \in RowRecord
    PROVE  /\ row.status = "fresh" <=> Where(row) = "absent"
           /\ row.status \in {"pending", "scheduled", "failed"} <=> Where(row) = "waiting"
           /\ row.status = "broadcast" <=> Where(row) = "sent"
           /\ row.status = "confirmed" <=> Where(row) = "confirmed"
           /\ row.status = "gone" <=> Where(row) = "removed"
           /\ row.status \in TxStatus <=> Where(row) \in {"waiting", "sent", "confirmed"}
           /\ Where(row) \in {"absent", "waiting", "sent", "confirmed", "removed"}
  <1>1. row.status \in Status
    BY DEF RowRecord
  <1> QED BY <1>1 DEF Where, Status, TxStatus

\* The mapping reads the stage of a row off its status, now and after a step.
LEMMA StageIsWhere ==
    \A r \in Row : Stage(r) = Where(db[r]) /\ Stage(r)' = Where(db'[r])
  BY DEF Stage, Where

\* An update of a row that keeps its transaction and its mode.
LEMMA WriteMoves ==
    ASSUME NEW d \in Table, NEW q \in Row, NEW rec \in RowRecord,
           rec.tx = d[q].tx, rec.mode = d[q].mode
    PROVE  Moves(d, Write(d, q, rec), q, Where(rec))
  <1>1. Write(d, q, rec) \in Table
    BY DEF Write, Table
  <1>2. CASE InTable(d, q)
    BY <1>1, <1>2 DEF Write, Table, Moves, Rests
  <1>3. CASE ~InTable(d, q)
    BY <1>1, <1>3 DEF Write, Table, Moves, Rests
  <1> QED BY <1>2, <1>3

\* The updates, and where they bring a row.
LEMMA StatementsMove ==
    ASSUME NEW d \in Table, NEW q \in Row
    PROVE  /\ \A time \in Nat :
                 /\ Moves(d, MarkDue(d, q, time), q, "waiting")
                 /\ Moves(d, MarkDueFromPriceTrigger(d, q, time), q, "waiting")
                 /\ Moves(d, SetRandomSchedule(d, q, time), q, "waiting")
                 /\ \A defer \in Nat \cup {NULL} :
                       Moves(d, UpdateReschedule(d, q, time, defer), q, "waiting")
           /\ \A side \in Side \cup {NULL} :
                 Moves(d, UpdatePriceSchedule(d, q, side), q, "waiting")
           /\ \A e \in BroadcastError :
                 Moves(d, UpdateTxStatusFailed(d, q, e), q, "waiting")
           /\ Moves(d, MarkBroadcast(d, q), q, "sent")
           /\ Moves(d, MarkConfirmed(d, q), q, "confirmed")
           /\ Moves(d, RemoveBroadcastTx(d, q), q, "removed")
  <1> d[q] \in RowRecord
    BY DEF Table
  <1>1. ASSUME NEW time \in Nat PROVE Moves(d, MarkDue(d, q, time), q, "waiting")
    <2> DEFINE rec == [d[q] EXCEPT !.status = "scheduled", !.sched = time]
    <2>1. /\ rec \in RowRecord /\ rec.tx = d[q].tx /\ rec.mode = d[q].mode
          /\ rec.status = "scheduled"
      BY DEF RowRecord, Status, TxStatus
    <2> HIDE DEF rec
    <2>2. Moves(d, Write(d, q, rec), q, Where(rec)) /\ Where(rec) = "waiting"
      BY <2>1, WriteMoves, Stages
    <2> QED BY <2>2 DEF MarkDue, rec
  <1>2. ASSUME NEW time \in Nat
        PROVE  Moves(d, MarkDueFromPriceTrigger(d, q, time), q, "waiting")
    <2> DEFINE rec == [d[q] EXCEPT !.status = "scheduled", !.sched = time,
                                   !.trigger = "datetime"]
    <2>1. /\ rec \in RowRecord /\ rec.tx = d[q].tx /\ rec.mode = d[q].mode
          /\ rec.status = "scheduled"
      BY DEF RowRecord, Status, TxStatus
    <2> HIDE DEF rec
    <2>2. Moves(d, Write(d, q, rec), q, Where(rec)) /\ Where(rec) = "waiting"
      BY <2>1, WriteMoves, Stages
    <2> QED BY <2>2 DEF MarkDueFromPriceTrigger, rec
  <1>3. ASSUME NEW time \in Nat
        PROVE  Moves(d, SetRandomSchedule(d, q, time), q, "waiting")
    BY <1>1 DEF SetRandomSchedule, MarkDue
  <1>4. ASSUME NEW time \in Nat, NEW defer \in Nat \cup {NULL}
        PROVE  Moves(d, UpdateReschedule(d, q, time, defer), q, "waiting")
    <2> DEFINE rec == [d[q] EXCEPT !.status = "scheduled", !.sched = time,
                               !.defer = defer, !.err = NULL,
                               !.trigger = "datetime", !.price = NULL]
    <2>1. /\ rec \in RowRecord /\ rec.tx = d[q].tx /\ rec.mode = d[q].mode
          /\ rec.status = "scheduled"
      BY DEF RowRecord, Status, TxStatus
    <2> HIDE DEF rec
    <2>2. Moves(d, Write(d, q, rec), q, Where(rec)) /\ Where(rec) = "waiting"
      BY <2>1, WriteMoves, Stages
    <2> QED BY <2>2 DEF UpdateReschedule, rec
  <1>5. ASSUME NEW side \in Side \cup {NULL}
        PROVE  Moves(d, UpdatePriceSchedule(d, q, side), q, "waiting")
    <2> DEFINE rec == [d[q] EXCEPT !.status = "pending", !.sched = NULL,
                               !.defer = NULL, !.err = NULL,
                               !.trigger = "price", !.price = side]
    <2>1. /\ rec \in RowRecord /\ rec.tx = d[q].tx /\ rec.mode = d[q].mode
          /\ rec.status = "pending"
      BY DEF RowRecord, Status, TxStatus
    <2> HIDE DEF rec
    <2>2. Moves(d, Write(d, q, rec), q, Where(rec)) /\ Where(rec) = "waiting"
      BY <2>1, WriteMoves, Stages
    <2> QED BY <2>2 DEF UpdatePriceSchedule, rec
  <1>6. ASSUME NEW e \in BroadcastError
        PROVE  Moves(d, UpdateTxStatusFailed(d, q, e), q, "waiting")
    <2> DEFINE rec == [d[q] EXCEPT !.status = "failed", !.err = e]
    <2>1. /\ rec \in RowRecord /\ rec.tx = d[q].tx /\ rec.mode = d[q].mode
          /\ rec.status = "failed"
      BY DEF RowRecord, Status, TxStatus
    <2> HIDE DEF rec
    <2>2. Moves(d, Write(d, q, rec), q, Where(rec)) /\ Where(rec) = "waiting"
      BY <2>1, WriteMoves, Stages
    <2> QED BY <2>2 DEF UpdateTxStatusFailed, rec
  <1>7. Moves(d, MarkBroadcast(d, q), q, "sent")
    <2> DEFINE rec == [d[q] EXCEPT !.status = "broadcast", !.txid = TRUE,
                                   !.missed = FALSE, !.defer = NULL]
    <2>1. /\ rec \in RowRecord /\ rec.tx = d[q].tx /\ rec.mode = d[q].mode
          /\ rec.status = "broadcast"
      BY DEF RowRecord, Status, TxStatus
    <2> HIDE DEF rec
    <2>2. Moves(d, Write(d, q, rec), q, Where(rec)) /\ Where(rec) = "sent"
      BY <2>1, WriteMoves, Stages
    <2> QED BY <2>2 DEF MarkBroadcast, rec
  <1>8. Moves(d, MarkConfirmed(d, q), q, "confirmed")
    <2> DEFINE rec == [d[q] EXCEPT !.status = "confirmed", !.confAt = TRUE]
    <2>1. /\ rec \in RowRecord /\ rec.tx = d[q].tx /\ rec.mode = d[q].mode
          /\ rec.status = "confirmed"
      BY DEF RowRecord, Status, TxStatus
    <2> HIDE DEF rec
    <2>2. Moves(d, Write(d, q, rec), q, Where(rec)) /\ Where(rec) = "confirmed"
      BY <2>1, WriteMoves, Stages
    <2> QED BY <2>2 DEF MarkConfirmed, rec
  <1>9. Moves(d, RemoveBroadcastTx(d, q), q, "removed")
    <2> DEFINE rec == [d[q] EXCEPT !.status = "gone"]
    <2>1. /\ rec \in RowRecord /\ rec.tx = d[q].tx /\ rec.mode = d[q].mode
          /\ rec.status = "gone"
      BY DEF RowRecord, Status, TxStatus
    <2> HIDE DEF rec
    <2>2. Moves(d, Write(d, q, rec), q, Where(rec)) /\ Where(rec) = "removed"
      BY <2>1, WriteMoves, Stages
    <2> QED BY <2>2 DEF RemoveBroadcastTx, rec
  <1> QED BY <1>1, <1>2, <1>3, <1>4, <1>5, <1>6, <1>7, <1>8, <1>9

\* What leaves every row where it is: nothing at all, a note of a miss, and the
\* failures that are requeued.
LEMMA StatementsStay ==
    ASSUME NEW d \in Table
    PROVE  /\ Stays(d, d)
           /\ Stays(d, RequeueRetriableFailures(d))
           /\ \A q \in Row : /\ Stays(d, ResetFailedToScheduled(d, q))
                             /\ Stays(d, RecordBroadcastMiss(d, q))
  <1>1. Stays(d, d)
    BY DEF Stays, Rests
  <1>2. \A q \in Row : d[q] \in RowRecord
    BY DEF Table
  <1>3. ASSUME NEW q \in Row, d[q].status = "failed"
        PROVE  LET rec == [d[q] EXCEPT !.status = "scheduled", !.err = NULL] IN
               /\ rec \in RowRecord /\ rec.tx = d[q].tx /\ rec.mode = d[q].mode
               /\ rec.status = "scheduled"
               /\ Where(rec) = Where(d[q]) /\ ~Withheld(d[q])
    <2> DEFINE rec == [d[q] EXCEPT !.status = "scheduled", !.err = NULL]
    <2>1. /\ rec \in RowRecord /\ rec.tx = d[q].tx /\ rec.mode = d[q].mode
          /\ rec.status = "scheduled"
      BY <1>2 DEF RowRecord, Status, TxStatus
    <2> HIDE DEF rec
    <2>2. Where(rec) = "waiting" /\ Where(d[q]) = "waiting"
      BY <1>2, <1>3, <2>1, Stages
    <2> QED BY <1>3, <2>1, <2>2 DEF Withheld, rec
  <1>4. ASSUME NEW q \in Row PROVE Stays(d, ResetFailedToScheduled(d, q))
    <2>1. CASE d[q].status = "failed"
      <3> DEFINE rec == [d[q] EXCEPT !.status = "scheduled", !.err = NULL]
      <3>1. /\ rec \in RowRecord /\ rec.tx = d[q].tx /\ rec.mode = d[q].mode
            /\ Where(rec) = Where(d[q]) /\ ~Withheld(d[q])
        BY <1>3, <2>1
      <3>2. ResetFailedToScheduled(d, q) = [d EXCEPT ![q] = rec]
        BY <2>1 DEF ResetFailedToScheduled
      <3> HIDE DEF rec
      <3> QED BY <3>1, <3>2 DEF Stays, Rests, Table
    <2> QED BY <1>1, <2>1 DEF ResetFailedToScheduled
  <1>5. ASSUME NEW q \in Row PROVE Stays(d, RecordBroadcastMiss(d, q))
    <2> DEFINE rec == [d[q] EXCEPT !.missed = TRUE]
    <2>1. /\ rec \in RowRecord /\ rec.tx = d[q].tx /\ rec.mode = d[q].mode
          /\ rec.status = d[q].status /\ rec.sched = d[q].sched
          /\ rec.price = d[q].price /\ rec.nlock = d[q].nlock
      BY <1>2 DEF RowRecord
    <2> HIDE DEF rec
    <2>2. Where(rec) = Where(d[q]) /\ Withheld(d[q]) => Withheld(rec)
      BY <2>1 DEF Withheld
    <2>3. Where(rec) = Where(d[q])
      BY <2>1 DEF Where
    <2>4. RecordBroadcastMiss(d, q) = IF InTable(d, q) THEN [d EXCEPT ![q] = rec] ELSE d
      BY DEF RecordBroadcastMiss, Write, rec
    <2> QED BY <1>1, <2>1, <2>2, <2>3, <2>4 DEF Stays, Rests, Table
  <1>6. Stays(d, RequeueRetriableFailures(d))
    <2> DEFINE e == RequeueRetriableFailures(d)
    <2>1. ASSUME NEW r \in Row PROVE e[r] \in RowRecord /\ Rests(d, e, r)
      <3>1. e[r] = IF r \in RetriableFailures(d)
                   THEN [d[r] EXCEPT !.status = "scheduled", !.err = NULL] ELSE d[r]
        BY DEF RequeueRetriableFailures, ResetFailedToScheduled, RetriableFailures,
               ListByStatus, Table
      <3>2. r \in RetriableFailures(d) => d[r].status = "failed"
        BY DEF RetriableFailures, ListByStatus
      <3> HIDE DEF e
      <3> QED BY <1>2, <1>3, <3>1, <3>2 DEF Rests
    <2>2. e = [r \in Row |-> e[r]]
      BY DEF RequeueRetriableFailures
    <2> HIDE DEF e
    <2>3. e \in Table
      BY <2>1, <2>2 DEF Table
    <2> QED BY <2>1, <2>3 DEF Stays, e
  <1> QED BY <1>1, <1>4, <1>5, <1>6

\* An insert.
LEMMA InsertEnters ==
    ASSUME NEW d \in Table, NEW q \in Row,
           NEW t \in Tx, NEW nlock \in Nat, NEW mode \in Mode,
           NEW sched \in Nat \cup {NULL}, NEW e,
           e = InsertBroadcastTx(d, q, t, nlock, mode, sched)
    PROVE  /\ Enters(d, e, q, t)
           /\ e[q].mode = mode /\ e[q].nlock = nlock /\ e[q].sched = sched
           /\ e[q].price = NULL /\ e[q].status = "pending"
  <1> DEFINE rec == [FreshRow EXCEPT !.status = "pending", !.tx = t,
                                     !.nlock = nlock, !.mode = mode,
                                     !.sched = sched]
  <1>1. /\ rec \in RowRecord /\ rec.tx = t /\ rec.mode = mode /\ rec.nlock = nlock
        /\ rec.sched = sched /\ rec.price = NULL /\ rec.status = "pending"
    BY DEF RowRecord, FreshRow, Status, TxStatus, Mode, Side
  <1>2. InsertBroadcastTx(d, q, t, nlock, mode, sched) = [d EXCEPT ![q] = rec]
    BY DEF InsertBroadcastTx
  <1> HIDE DEF rec
  <1>3. Where(rec) = "waiting"
    BY <1>1, Stages
  <1> QED BY <1>1, <1>2, <1>3 DEF Enters, Stays, Rests, Table

\* An insert with nothing but a time, the import's of the Web API and of the
\* command line.
LEMMA ImportEnters ==
    ASSUME NEW d \in Table, NEW q \in Row,
           NEW t \in Tx, NEW sched \in Nat \cup {NULL}, NEW e,
           e = InsertBroadcastTx(d, q, t, 0, "immediate", sched)
    PROVE  /\ Enters(d, e, q, t) /\ e \in Table
           /\ e[q].mode = "immediate" /\ e[q].sched = sched
           /\ e[q].price = NULL /\ e[q].status = "pending"
  <1>1. 0 \in Nat /\ "immediate" \in Mode
    BY DEF Mode
  <1>2. /\ Enters(d, e, q, t)
        /\ e[q].mode = "immediate" /\ e[q].sched = sched
        /\ e[q].price = NULL /\ e[q].status = "pending"
    BY <1>1, InsertEnters
  <1> QED BY <1>2 DEF Enters

\* A row that is taken in and then brought to wait for another time.
LEMMA EntersThenMoves ==
    ASSUME NEW c \in Table, NEW d \in Table, NEW e, NEW q \in Row, NEW t \in Tx,
           Enters(c, d, q, t), Moves(d, e, q, "waiting")
    PROVE  Enters(c, e, q, t)
  <1>1. InTable(d, q)
    BY Stages DEF Enters, InTable, Table
  <1> QED BY <1>1 DEF Enters, Moves, Rests

-----------------------------------------------------------------------------
(* What the mapping makes of a statement.                                  *)

StageMap == [r \in Row |-> Stage(r)]
TxMap    == [r \in Row |-> db[r].tx]
Mined    == {t \in Tx : net[t] = "mined"}

\* Rows that may be listed.
Listable == {r \in Row : Stage(r) = "waiting" /\ r \in Released}

\* What a statement that leaves the rows where they are, or moves one, does to
\* the mapped variables.
LEMMA StaysMaps ==
    ASSUME Stays(db, db')
    PROVE  /\ StageMap' = StageMap /\ TxMap' = TxMap
           /\ \A r \in Row : db'[r].mode = db[r].mode
  BY StageIsWhere DEF Stays, Rests, StageMap, TxMap

\* A statement that moves one row moves its stage.
LEMMA MovesMaps ==
    ASSUME NEW q \in Row, NEW s, Moves(db, db', q, s)
    PROVE  /\ StageMap' = [StageMap EXCEPT ![q] = IF InTable(db, q) THEN s ELSE @]
           /\ TxMap' = TxMap
           /\ \A r \in Row : db'[r].mode = db[r].mode
  <1>1. \A r \in Row : db'[r].mode = db[r].mode /\ db'[r].tx = db[r].tx
    BY DEF Moves, Rests
  <1>2. \A r \in Row : Where(db'[r]) = IF r = q /\ InTable(db, q) THEN s ELSE Where(db[r])
    BY DEF Moves, Rests
  <1>3. StageMap' = [StageMap EXCEPT ![q] = IF InTable(db, q) THEN s ELSE @]
    BY <1>2, StageIsWhere DEF StageMap
  <1> QED BY <1>1, <1>3 DEF TxMap

\* The table of the promise is the table.
LEMMA InTableMaps ==
    ASSUME db \in Table, NEW q \in Row
    PROVE  /\ InTable(db, q) <=> StageMap[q] \in {"waiting", "sent", "confirmed"}
           /\ Known(db, q) <=> StageMap[q] # "absent"
           /\ StageMap[q] = Where(db[q]) /\ TxMap[q] = db[q].tx
  BY StageIsWhere, Stages DEF StageMap, TxMap, InTable, Known, Table

\* The steps of the promise, told by the mapped variables: claims, ...
LEMMA ClaimMaps ==
    ASSUME StageMap' = StageMap, TxMap' = TxMap, Released' = Released,
           accepted' = accepted, Mined' = Mined,
           Claimed' \subseteq Claimed \cup Listable
    PROVE  Promise!Next
  <1>1. Promise!Claim
    BY DEF Promise!Claim, StageMap, TxMap, Mined, Listable
  <1> QED BY <1>1 DEF Promise!Next

\* ... what is made public, ...
LEMMA PublishMaps ==
    ASSUME NEW q \in Claimed, q \in Row, StageMap' = StageMap, TxMap' = TxMap,
           Released' = Released, accepted' = accepted \cup {TxMap[q]}, Mined' = Mined,
           Claimed' \subseteq Claimed
    PROVE  Promise!Next
  <1>1. Promise!Publish(q)
    BY DEF Promise!Publish, Promise!LetGo, StageMap, TxMap, Mined
  <1> QED BY <1>1 DEF Promise!Next

\* So is a request that releases the row and sends it at once.
LEMMA SendNowMaps ==
    ASSUME NEW q \in Row, StageMap[q] \in {"waiting", "sent"},
           StageMap' = StageMap, TxMap' = TxMap, Released' = Released \cup {q},
           \/ accepted' = accepted \cup {TxMap[q]} /\ Claimed' \subseteq Claimed \cup {q}
           \/ accepted' = accepted /\ Claimed' \subseteq Claimed,
           Mined' = Mined
    PROVE  Promise!Next
  <1>1. Promise!SendNow(q)
    BY DEF Promise!SendNow, Promise!LetGo, StageMap, TxMap, Mined
  <1> QED BY <1>1 DEF Promise!Next

\* ... and what is written about one row: taken in, ...
LEMMA TakeMaps ==
    ASSUME NEW q \in Row, NEW t \in Tx, StageMap[q] = "absent",
           StageMap' = [StageMap EXCEPT ![q] = "waiting"],
           TxMap' = [TxMap EXCEPT ![q] = t],
           \/ Released' = Released /\ Claimed' \subseteq Claimed
           \/ Released' = Released \cup {q} /\ Claimed' \subseteq Claimed \cup {q},
           accepted' = accepted, Mined' = Mined
    PROVE  Promise!Next
  <1>1. Promise!Take(q, t)
    BY DEF Promise!Take, Promise!LetGo, StageMap, TxMap, Mined
  <1> QED BY <1>1 DEF Promise!Next

\* ... instructed, ...
LEMMA InstructMaps ==
    ASSUME NEW q \in Row, db \in Table, Known(db, q), Moves(db, db', q, "waiting"),
           Released' = Released \cup {q}, Claimed' = Claimed,
           accepted' = accepted, Mined' = Mined
    PROVE  Promise!Next
  <1>1. /\ StageMap[q] # "absent" /\ TxMap' = TxMap
        /\ StageMap' = [StageMap EXCEPT ![q] =
              IF StageMap[q] \in {"waiting", "sent", "confirmed"} THEN "waiting" ELSE @]
    BY MovesMaps, InTableMaps
  <1>2. Promise!Instruct(q)
    BY <1>1 DEF Promise!Instruct, Promise!InTable, StageMap, TxMap, Mined
  <1> QED BY <1>2 DEF Promise!Next

\* ... and brought to another stage, which a row the table has lost is not.
LEMMA StageMaps ==
    ASSUME NEW q \in Row, db \in Table, Released' = Released,
           Claimed' \subseteq Claimed, accepted' = accepted, Mined' = Mined
    PROVE  /\ Moves(db, db', q, "waiting") /\ q \in Claimed => Promise!Next
           /\ Moves(db, db', q, "sent") /\ q \in Claimed /\ db[q].tx \in accepted
                => Promise!Next
           /\ Moves(db, db', q, "confirmed") /\ db[q].tx \in Mined /\ Claimed' = Claimed
                => Promise!Next
           /\ Moves(db, db', q, "removed") /\ Claimed' = Claimed => Promise!Next
  <1>1. ASSUME NEW s, Moves(db, db', q, s), ~InTable(db, q) \/ StageMap[q] = s
        PROVE  Promise!Next
    <2>1. StageMap' = StageMap /\ TxMap' = TxMap
      BY <1>1, MovesMaps DEF StageMap
    <2> QED BY <2>1, ClaimMaps
  <1>2. ASSUME NEW s, Moves(db, db', q, s), InTable(db, q)
        PROVE  /\ StageMap[q] \in {"waiting", "sent", "confirmed"} /\ TxMap' = TxMap
               /\ StageMap' = [StageMap EXCEPT ![q] = s] /\ TxMap[q] = db[q].tx
    BY <1>2, MovesMaps, InTableMaps
  <1>3. ASSUME Moves(db, db', q, "waiting"), InTable(db, q), StageMap[q] # "waiting",
               q \in Claimed
        PROVE  Promise!Next
    <2>1. Promise!Reopen(q)
      BY <1>2, <1>3 DEF Promise!Reopen, Promise!LetGo, StageMap, TxMap, Mined
    <2> QED BY <2>1 DEF Promise!Next
  <1>4. ASSUME Moves(db, db', q, "sent"), InTable(db, q), q \in Claimed,
               db[q].tx \in accepted
        PROVE  Promise!Next
    <2>1. Promise!Record(q)
      BY <1>2, <1>4
         DEF Promise!Record, Promise!LetGo, Promise!InTable, StageMap, TxMap, Mined
    <2> QED BY <2>1 DEF Promise!Next
  <1>5. ASSUME Moves(db, db', q, "confirmed"), InTable(db, q), db[q].tx \in Mined,
               Claimed' = Claimed
        PROVE  Promise!Next
    <2>1. Promise!Confirm(q)
      BY <1>2, <1>5 DEF Promise!Confirm, Promise!InTable, StageMap, TxMap, Mined
    <2> QED BY <2>1 DEF Promise!Next
  <1>6. ASSUME Moves(db, db', q, "removed"), InTable(db, q), Claimed' = Claimed
        PROVE  Promise!Next
    <2>1. Promise!Remove(q)
      BY <1>2, <1>6 DEF Promise!Remove, Promise!InTable, StageMap, TxMap, Mined
    <2> QED BY <2>1 DEF Promise!Next
  <1> QED BY <1>1, <1>3, <1>4, <1>5, <1>6

-----------------------------------------------------------------------------
(* The invariant.                                                          *)

\* No row, nothing released, nothing in hand: HoldInv and Promise!Init.
LEMMA InitHold == Init => HoldInv /\ Promise!Init
  <1> SUFFICES ASSUME Init PROVE HoldInv /\ Promise!Init
    OBVIOUS
  <1>1. /\ \A r \in Row : db[r] = FreshRow /\ ask[r].kind = "none" /\ ing[r].pc = "idle"
        /\ tickTodo = {} /\ blkTodo = {} /\ prcTodo = {} /\ confTodo = {} /\ rebTodo = {}
        /\ tickCur = NULL /\ cliCur = NULL /\ api = NULL /\ accepted = {}
        /\ \A t \in Tx : net[t] = "unknown"
    BY DEF Init, Ask
  <1>2. Released = {}
    BY <1>1 DEF Released
  <1>3. Claimed = {} /\ Mined = {}
    BY <1>1, PoolDbAssumption DEF Claimed, Mined
  <1>4. StageMap = [r \in Row |-> "absent"] /\ TxMap = [r \in Row |-> NULL]
    BY <1>1 DEF StageMap, TxMap, Stage, FreshRow
  <1>5. Promise!Init
    BY <1>1, <1>2, <1>3, <1>4 DEF Promise!Init, StageMap, TxMap, Mined
  <1>6. \A r \in Row : ~Known(db, r) /\ ~InTable(db, r)
    BY <1>1 DEF Known, InTable, FreshRow, TxStatus
  <1>7. UnreleasedWaits /\ FreshUnreleased
    BY <1>2, <1>6 DEF UnreleasedWaits, FreshUnreleased
  <1>8. HandsReleased /\ ApiKnown /\ RebSent /\ NetAccepted /\ PublicReleased
    BY <1>1, <1>2, <1>3
       DEF HandsReleased, ApiKnown, RebSent, NetAccepted, PublicReleased
  <1> QED BY <1>5, <1>7, <1>8 DEF HoldInv

\* What a step may do to the rows and to those who hold them.  New transactions
\* of the network come from released rows; a row leaves its place only once it
\* is released, or to be withheld, or to leave the table.
LEMMA HoldKeeps ==
    ASSUME IInv, HoldInv, db' \in Table, Settles,
           \A r \in Row : \/ Rests(db, db', r) \/ r \in Released'
                          \/ ~InTable(db', r) \/ Withheld(db'[r]),
           Released \subseteq Released',
           \A r \in Released' : r \in Released \/ Known(db', r),
           Claimed' \cup confTodo' \subseteq Released',
           \A t \in accepted' : \/ t \in accepted
                                \/ \E r \in Released' : Known(db', r) /\ db'[r].tx = t,
           ApiKnown', RebSent', NetAccepted'
    PROVE  HoldInv'
  <1> db \in Table
    BY DEF IInv, TypeOK, Table
  <1>1. \A r \in Row : Rests(db, db', r) => (InTable(db', r) => InTable(db, r))
    BY Stages DEF Rests, InTable, Table
  <1>2. UnreleasedWaits'
    BY <1>1 DEF HoldInv, UnreleasedWaits, Rests
  <1>3. FreshUnreleased'
    BY DEF HoldInv, FreshUnreleased, Settles, Released
  <1>4. HandsReleased'
    BY DEF HandsReleased
  <1>5. PublicReleased'
    <2> SUFFICES ASSUME NEW t \in accepted'
                 PROVE  \E r \in Released' : Known(db', r) /\ db'[r].tx = t
      BY DEF PublicReleased
    <2>1. CASE t \in accepted
      <3> PICK r \in Released : Known(db, r) /\ db[r].tx = t
        BY <2>1 DEF HoldInv, PublicReleased
      <3> r \in Row
        BY DEF Released
      <3> QED BY DEF Settles
    <2> QED BY <2>1
  <1> QED BY <1>2, <1>3, <1>4, <1>5 DEF HoldInv

\* Known rows and their transactions, from the stages.
LEMMA StagesSettle ==
    ASSUME IInv, IInv'
    PROVE  /\ Stays(db, db') => Settles
           /\ \A q \in Row, s \in {"waiting", "sent", "confirmed", "removed"} :
                 Moves(db, db', q, s) => Settles
           /\ \A q \in Row, t \in Tx :
                 Enters(db, db', q, t) /\ ~Known(db, q) => Settles
  <1> db \in Table /\ db' \in Table
    BY DEF IInv, TypeOK, Table
  <1>1. \A r \in Row : Rests(db, db', r)
           => (Known(db, r) => Known(db', r)) /\ db'[r].tx = db[r].tx
    BY Stages DEF Rests, Known, Table
  <1>2. \A r \in Row : Known(db', r) => db'[r].tx \in Tx
    BY DEF IInv, Hands, SettledRows, Known
  <1>3. Stays(db, db') => Settles
    BY <1>1, <1>2 DEF Stays, Settles
  <1>4. ASSUME NEW q \in Row, NEW s \in {"waiting", "sent", "confirmed", "removed"},
               Moves(db, db', q, s)
        PROVE  Settles
    <2>1. Known(db, q) => Known(db', q)
      BY <1>4, Stages DEF Moves, Known, Table
    <2> QED BY <1>1, <1>2, <1>4, <2>1 DEF Moves, Settles
  <1>5. ASSUME NEW q \in Row, NEW t \in Tx, Enters(db, db', q, t), ~Known(db, q)
        PROVE  Settles
    BY <1>1, <1>2, <1>5 DEF Enters, Settles
  <1> QED BY <1>3, <1>4, <1>5

\* Hands that take nothing new.
LEMMA HandsKeep ==
    ASSUME IInv, HoldInv, Settles, accepted \subseteq accepted'
    PROVE  /\ api' \in {api, NULL} => ApiKnown'
           /\ rebTodo' \subseteq rebTodo => RebSent'
           /\ UNCHANGED net => NetAccepted' /\ Mined' = Mined
  <1>1. api' \in {api, NULL} => ApiKnown'
    BY DEF HoldInv, ApiKnown, Settles, IInv, TypeOK, ApiRecord, Known
  <1>2. ASSUME rebTodo' \subseteq rebTodo PROVE RebSent'
    <2>1. \A r \in rebTodo : r \in Row /\ Known(db, r)
      BY DEF IInv, TypeOK, Hands, HeldRows, RowsInHand
    <2> QED BY <1>2, <2>1 DEF HoldInv, RebSent, Settles
  <1>3. UNCHANGED net => NetAccepted' /\ Mined' = Mined
    BY DEF HoldInv, NetAccepted, Mined
  <1> QED BY <1>1, <1>2, <1>3

\* A step that moves no row.  What its actor lists is waiting and released.
LEMMA QuietStep ==
    ASSUME IInv, IInv', HoldInv, Stays(db, db'), UNCHANGED <<ask, accepted>>,
           Mined' = Mined, NetAccepted', ApiKnown', RebSent',
           Claimed' \subseteq Claimed \cup Listable,
           confTodo' \subseteq confTodo \cup Released
    PROVE  HoldInv' /\ Promise!Next
  <1>1. Settles /\ db' \in Table
    BY StagesSettle DEF Stays
  <1>2. Released' = Released
    BY DEF Released
  <1>3. Promise!Next
    BY <1>2, StaysMaps, ClaimMaps
  <1>4. Claimed' \cup confTodo' \subseteq Released
    BY DEF HoldInv, HandsReleased, Listable
  <1>5. HoldInv'
    BY <1>1, <1>2, <1>4, HoldKeeps DEF Stays
  <1> QED BY <1>3, <1>5

\* A step that moves one released row, or removes one.
LEMMA MovingStep ==
    ASSUME IInv, IInv', HoldInv, NEW q \in Row, UNCHANGED <<ask, net, accepted, api, rebTodo>>,
           Claimed' \subseteq Claimed, confTodo' \subseteq confTodo
    PROVE  /\ Moves(db, db', q, "waiting") /\ q \in Claimed
                => HoldInv' /\ Promise!Next
           /\ Moves(db, db', q, "sent") /\ q \in Claimed /\ db[q].tx \in accepted
                => HoldInv' /\ Promise!Next
           /\ Moves(db, db', q, "confirmed") /\ q \in Released /\ db[q].tx \in Mined
                /\ Claimed' = Claimed
                => HoldInv' /\ Promise!Next
           /\ Moves(db, db', q, "removed") /\ Claimed' = Claimed
                => HoldInv' /\ Promise!Next
  <1> db \in Table /\ db' \in Table
    BY DEF IInv, TypeOK, Table
  <1>1. Released' = Released /\ Mined' = Mined
    BY DEF Released, Mined
  <1>2. Claimed \cup confTodo \subseteq Released
    BY DEF HoldInv, HandsReleased
  <1>3. ASSUME NEW s \in {"waiting", "sent", "confirmed", "removed"}, Moves(db, db', q, s),
               q \in Released \/ s = "removed"
        PROVE  HoldInv'
    <2>1. Settles
      BY <1>3, StagesSettle
    <2>2. ApiKnown' /\ RebSent' /\ NetAccepted'
      BY <2>1, HandsKeep
    <2>3. s = "removed" => ~InTable(db', q)
      BY <1>3, Stages DEF Moves, InTable, Table
    <2>4. \A r \in Row : Rests(db, db', r) \/ r \in Released' \/ ~InTable(db', r)
      BY <1>1, <1>3, <2>3 DEF Moves
    <2> QED BY <1>1, <1>2, <2>1, <2>2, <2>4, HoldKeeps
  <1> QED BY <1>1, <1>2, <1>3, StageMaps

-----------------------------------------------------------------------------
(* The steps, actor by actor.                                              *)

\* What the loops list is waiting and has been released, or was sent.
LEMMA ListedIsReleased ==
    ASSUME IInv, HoldInv
    PROVE  /\ PendingByScheduledTime(db, now) \subseteq Listable
           /\ PendingByBlockHeight(db) \subseteq Listable
           /\ PriceTriggeredPending(db) \subseteq Listable
           /\ DueTransactions(db) \subseteq Listable
           /\ ListByStatus(db, "broadcast") \subseteq Released
           /\ \A r \in PendingRebroadcast(db) : db[r].tx \in accepted
  <1>1. ASSUME NEW r \in Row, ~Withheld(db[r]), InTable(db, r) PROVE r \in Released
    BY <1>1 DEF HoldInv, UnreleasedWaits
  <1>2. ASSUME NEW r \in Row, db[r].status \in {"pending", "scheduled"}
        PROVE  Stage(r) = "waiting" /\ InTable(db, r)
    BY <1>2 DEF Stage, InTable, TxStatus
  <1>3. /\ PendingByScheduledTime(db, now) \subseteq Listable
        /\ PendingByBlockHeight(db) \subseteq Listable
        /\ PriceTriggeredPending(db) \subseteq Listable
        /\ DueTransactions(db) \subseteq Listable
    BY <1>1, <1>2 DEF PendingByScheduledTime, PendingByBlockHeight, PriceTriggeredPending,
                      DueTransactions, ListByStatus, Listable, Withheld
  <1>4. ListByStatus(db, "broadcast") \subseteq Released
    BY <1>1 DEF ListByStatus, Withheld, InTable, TxStatus
  <1>5. \A r \in PendingRebroadcast(db) : db[r].tx \in accepted
    BY DEF PendingRebroadcast, IInv, RecordedMeansHappened
  <1> QED BY <1>3, <1>4, <1>5

\* A submission gives the network at most the transaction of the row.
LEMMA SubmitGives ==
    ASSUME IInv, HoldInv, NEW t \in Tx, NEW res, NEW up, Submit(up, t, res)
    PROVE  /\ accepted' \in {accepted, accepted \cup {t}}
           /\ NetAccepted' /\ Mined' = Mined
           /\ res = "ok" => accepted' = accepted \cup {t}
  <1> net \in [Tx -> {"unknown", "mempool", "mined"}]
    BY DEF IInv, TypeOK
  <1>1. ASSUME NodeAccepts(up, t), net' = [net EXCEPT ![t] = "mempool"],
               accepted' = accepted \cup {t}
        PROVE  NetAccepted' /\ Mined' = Mined
    BY <1>1 DEF NodeAccepts, HoldInv, NetAccepted, Mined
  <1>2. ASSUME UNCHANGED <<net, accepted>> PROVE NetAccepted' /\ Mined' = Mined
    BY <1>2 DEF HoldInv, NetAccepted, Mined
  <1> QED BY <1>1, <1>2 DEF Submit, RefusalText, BroadcastError

\* The broadcast loop.
LEMMA TickImplements ==
    ASSUME IInv, IInv', HoldInv, TickNext
    PROVE  HoldInv' /\ Promise!Next
  <1> USE DEF tickVars, loopVars, clockVars, linkVars, netVars, wishVars
  <1> db \in Table
    BY DEF IInv, TypeOK, Table
  <1> DEFINE Still == /\ UNCHANGED <<ing, cliCur, api, net, accepted, ask>>
                      /\ UNCHANGED <<blkTodo, prcTodo, confTodo, rebTodo>>
  <1>a. ASSUME Stays(db, db'), Still, Claimed' \subseteq Claimed \cup Listable
        PROVE  HoldInv' /\ Promise!Next
    BY <1>a, StagesSettle, HandsKeep, QuietStep
  <1>1. CASE TickStart
    <2>1. Still /\ UNCHANGED db
      BY <1>1 DEF TickStart
    <2>2. Claimed' \subseteq Claimed \cup Listable
      BY <1>1, ListedIsReleased DEF TickStart, Claimed
    <2> QED BY <1>a, <2>1, <2>2, StatementsStay
  <1>2. ASSUME NEW r \in Row, TickMark(r) PROVE HoldInv' /\ Promise!Next
    <2>1. Still /\ r \in Claimed
      BY <1>2 DEF TickMark, Claimed
    <2>2. Moves(db, db', r, "waiting")
      BY <1>2, StatementsMove DEF TickMark, IInv, TypeOK
    <2>3. Claimed' \subseteq Claimed
      BY <1>2, <2>2, MovesMaps DEF TickMark, Claimed
    <2> QED BY <2>1, <2>2, <2>3, MovingStep
  <1>3. CASE TickListFailed
    <2>1. Still /\ UNCHANGED db /\ Claimed' \subseteq Claimed
      BY <1>3 DEF TickListFailed, Claimed
    <2> QED BY <1>a, <2>1, StatementsStay
  <1>4. ASSUME NEW r \in Row, TickRequeue(r) PROVE HoldInv' /\ Promise!Next
    <2>1. Still /\ Stays(db, db')
      BY <1>4, StatementsStay DEF TickRequeue
    <2>2. Claimed' \subseteq Claimed
      BY <1>4, <2>1, StaysMaps DEF TickRequeue, Claimed
    <2> QED BY <1>a, <2>1, <2>2
  <1>5. CASE TickListDue
    <2>1. Still /\ UNCHANGED db
      BY <1>5 DEF TickListDue
    <2>2. Claimed' \subseteq Claimed \cup Listable
      BY <1>5, ListedIsReleased DEF TickListDue, Claimed
    <2> QED BY <1>a, <2>1, <2>2, StatementsStay
  <1>6. ASSUME NEW r \in Row, TickSkip(r) PROVE HoldInv' /\ Promise!Next
    <2>1. Still /\ Stays(db, db')
      BY <1>6, StatementsStay DEF TickSkip
    <2>2. Claimed' \subseteq Claimed
      BY <1>6, <2>1, StaysMaps DEF TickSkip, Claimed
    <2> QED BY <1>a, <2>1, <2>2
  <1>7. ASSUME NEW r \in Row, TickAbort(r) PROVE HoldInv' /\ Promise!Next
    <2>1. Still /\ UNCHANGED db /\ Claimed' \subseteq Claimed
      BY <1>7 DEF TickAbort, Claimed
    <2> QED BY <1>a, <2>1, StatementsStay
  <1>8. ASSUME NEW r \in Row, TickSend(r) PROVE HoldInv' /\ Promise!Next
    <2> PICK res \in Result : Submit(AnyBackend, db[r].tx, res)
      BY <1>8 DEF TickSend
    <2>1. /\ UNCHANGED <<db, ing, cliCur, api, ask, blkTodo, prcTodo, confTodo, rebTodo>>
          /\ r \in tickTodo /\ tickPc = "bcast"
          /\ tickPc' = "reply" /\ tickCur' = r /\ tickTodo' = tickTodo \ {r}
      BY <1>8 DEF TickSend
    <2>2. Known(db, r) /\ db[r].tx \in Tx
      BY <2>1 DEF IInv, Hands, HeldRows, RowsInHand, SettledRows
    <2>3. /\ accepted' \in {accepted, accepted \cup {db[r].tx}}
          /\ NetAccepted' /\ Mined' = Mined
      BY <2>2, SubmitGives
    <2>4. r \in Claimed /\ Claimed' \subseteq Claimed /\ Released' = Released
      BY <2>1 DEF Claimed, Released
    <2>5. Stays(db, db')
      BY <2>1, StatementsStay
    <2>6. StageMap' = StageMap /\ TxMap' = TxMap /\ TxMap[r] = db[r].tx
      BY <2>5, StaysMaps, InTableMaps
    <2>7. Promise!Next
      <3>1. CASE accepted' = accepted
        BY <2>3, <2>4, <2>6, <3>1, ClaimMaps
      <3>2. CASE accepted' = accepted \cup {db[r].tx}
        BY <2>3, <2>4, <2>6, <3>2, PublishMaps
      <3> QED BY <2>3, <3>1, <3>2
    <2>8. Settles
      BY <2>5, StagesSettle
    <2>9. ApiKnown' /\ RebSent'
      BY <2>1, <2>3, <2>8, HandsKeep
    <2>10. r \in Released' /\ Known(db', r) /\ db'[r].tx = db[r].tx
      BY <2>1, <2>2, <2>4 DEF HoldInv, HandsReleased, Known
    <2>11. HoldInv'
      BY <2>1, <2>3, <2>4, <2>5, <2>8, <2>9, <2>10, HoldKeeps
         DEF Stays, HoldInv, HandsReleased
    <2> QED BY <2>7, <2>11
  <1>9. CASE TickRecord
    <2>1. Still /\ tickPc = "reply" /\ tickTodo' = tickTodo /\ tickPc' = "bcast"
          /\ tickCur' = NULL
      BY <1>9 DEF TickRecord
    <2>2. /\ tickCur \in Row /\ tickCur \in Claimed /\ tickRes \in Result
          /\ tickRes = "ok" => db[tickCur].tx \in accepted
      BY <2>1 DEF IInv, Hands, TickHolds, Claimed
    <2>3. (\A r \in Row : db'[r].mode = db[r].mode) => Claimed' \subseteq Claimed
      BY <2>1, PoolDbAssumption DEF Claimed
    <2>4. CASE tickRes = "ok"
      <3>1. Moves(db, db', tickCur, "sent")
        BY <1>9, <2>2, <2>4, StatementsMove DEF TickRecord
      <3> QED BY <2>1, <2>2, <2>3, <2>4, <3>1, MovesMaps, MovingStep
    <2>5. CASE tickRes = "retriable"
      <3>1. UNCHANGED db
        BY <1>9, <2>5 DEF TickRecord
      <3> QED BY <1>a, <2>1, <2>3, <3>1, StatementsStay
    <2>6. CASE tickRes = "opaque"
      <3>1. Moves(db, db', tickCur, "waiting")
        BY <1>9, <2>2, <2>6, StatementsMove DEF TickRecord, BroadcastError
      <3> QED BY <2>1, <2>2, <2>3, <3>1, MovesMaps, MovingStep
    <2> QED BY <2>2, <2>4, <2>5, <2>6 DEF Result, BroadcastError
  <1>10. CASE TickDbError
    <2>1. Still /\ UNCHANGED db
      BY <1>10 DEF TickDbError
    <2>2. Claimed' \subseteq Claimed
      BY <1>10, PoolDbAssumption DEF TickDbError, Claimed
    <2> QED BY <1>a, <2>1, <2>2, StatementsStay
  <1>11. CASE TickEnd
    <2>1. Still /\ UNCHANGED db /\ Claimed' \subseteq Claimed
      BY <1>11 DEF TickEnd, Claimed
    <2> QED BY <1>a, <2>1, StatementsStay
  <1> QED
    BY <1>1, <1>2, <1>3, <1>4, <1>5, <1>6, <1>7, <1>8, <1>9, <1>10, <1>11 DEF TickNext

\* The other loops.
LEMMA LoopsImplement ==
    ASSUME IInv, IInv', HoldInv, BlkNext \/ PrcNext \/ ConfNext \/ RebNext
    PROVE  HoldInv' /\ Promise!Next
  <1> USE DEF tickVars, loopVars, clockVars, linkVars, netVars, wishVars
  <1> db \in Table
    BY DEF IInv, TypeOK, Table
  <1> DEFINE Still == UNCHANGED <<ing, tickVars, cliCur, api, net, accepted, ask>>
  <1>a. ASSUME UNCHANGED db, Still, UNCHANGED rebTodo,
               Claimed' \subseteq Claimed \cup Listable,
               confTodo' \subseteq confTodo \cup Released
        PROVE  HoldInv' /\ Promise!Next
    BY <1>a, StatementsStay, StagesSettle, HandsKeep, QuietStep
  <1>1. CASE BlkList
    <2>1. Still /\ UNCHANGED <<db, confTodo, rebTodo>>
      BY <1>1 DEF BlkList
    <2>2. Claimed' \subseteq Claimed \cup Listable
      BY <1>1, ListedIsReleased DEF BlkList, Claimed
    <2> QED BY <1>a, <2>1, <2>2
  <1>2. ASSUME NEW r \in Row, BlkMark(r) PROVE HoldInv' /\ Promise!Next
    <2>1. Still /\ UNCHANGED <<confTodo, rebTodo>> /\ r \in Claimed
      BY <1>2 DEF BlkMark, Claimed
    <2>2. Moves(db, db', r, "waiting")
      BY <1>2, StatementsMove DEF BlkMark, IInv, TypeOK
    <2>3. Claimed' \subseteq Claimed
      BY <1>2, <2>2, MovesMaps DEF BlkMark, Claimed
    <2> QED BY <2>1, <2>2, <2>3, MovingStep
  <1>3. CASE PrcFetch
    <2>1. Still /\ UNCHANGED <<db, confTodo, rebTodo>> /\ Claimed' = Claimed
      BY <1>3 DEF PrcFetch, Claimed
    <2> QED BY <1>a, <2>1
  <1>4. CASE PrcList
    <2>1. Still /\ UNCHANGED <<db, confTodo, rebTodo>>
      BY <1>4 DEF PrcList
    <2>2. Claimed' \subseteq Claimed \cup Listable
      BY <1>4, ListedIsReleased DEF PrcList, Claimed
    <2> QED BY <1>a, <2>1, <2>2
  <1>5. ASSUME NEW r \in Row, PrcMark(r) PROVE HoldInv' /\ Promise!Next
    <2>1. Still /\ UNCHANGED <<confTodo, rebTodo>> /\ r \in Claimed
      BY <1>5 DEF PrcMark, Claimed
    <2>2. Moves(db, db', r, "waiting")
      BY <1>5, StatementsMove DEF PrcMark, IInv, TypeOK
    <2>3. Claimed' \subseteq Claimed
      BY <1>5, <2>2, MovesMaps DEF PrcMark, Claimed
    <2> QED BY <2>1, <2>2, <2>3, MovingStep
  <1>6. CASE ConfList
    <2>1. Still /\ UNCHANGED <<db, rebTodo>> /\ Claimed' = Claimed
          /\ confTodo' = ListByStatus(db, "broadcast")
      BY <1>6 DEF ConfList, Claimed
    <2> QED BY <1>a, <2>1, ListedIsReleased
  <1>7. ASSUME NEW r \in Row, ConfCheck(r) PROVE HoldInv' /\ Promise!Next
    <2>1. /\ Still /\ UNCHANGED rebTodo /\ confTodo' \subseteq confTodo
          /\ UNCHANGED <<tickPc, tickTodo, tickCur, blkTodo, prcTodo>>
      BY <1>7 DEF ConfCheck
    <2>2. (\A q \in Row : db'[q].mode = db[q].mode) => Claimed' = Claimed
      BY <2>1 DEF Claimed
    <2>3. CASE HasTxIndex /\ rpcUp /\ net[db[r].tx] = "mined"
      <3>1. r \in Released /\ db[r].tx \in Mined
        BY <1>7, <2>3 DEF ConfCheck, HoldInv, HandsReleased, Mined, IInv, Hands, HeldRows,
                          RowsInHand, SettledRows
      <3>2. Moves(db, db', r, "confirmed")
        BY <1>7, <2>3, StatementsMove DEF ConfCheck
      <3> QED BY <2>1, <2>2, <3>1, <3>2, MovesMaps, MovingStep
    <2>4. CASE ~(HasTxIndex /\ rpcUp /\ net[db[r].tx] = "mined")
      <3>1. UNCHANGED db
        BY <1>7, <2>4 DEF ConfCheck
      <3> QED BY <1>a, <2>1, <2>2, <3>1
    <2> QED BY <2>3, <2>4
  <1>8. CASE RebList
    <2>1. /\ Still /\ UNCHANGED <<db, confTodo>> /\ Claimed' = Claimed
          /\ rebTodo' = PendingRebroadcast(db)
      BY <1>8 DEF RebList, Claimed
    <2>2. Stays(db, db') /\ Settles
      BY <2>1, StatementsStay, StagesSettle
    <2>3. RebSent'
      BY <2>1, ListedIsReleased DEF RebSent
    <2> QED BY <2>1, <2>2, <2>3, HandsKeep, QuietStep
  <1>9. ASSUME NEW r \in Row, RebSend(r) PROVE HoldInv' /\ Promise!Next
    <2> PICK res \in Result : Submit(AnyBackend, db[r].tx, res)
      BY <1>9 DEF RebSend
    <2>1. /\ UNCHANGED <<db, ing, tickVars, cliCur, api, ask, confTodo>>
          /\ r \in rebTodo /\ rebTodo' \subseteq rebTodo /\ Claimed' = Claimed
      BY <1>9 DEF RebSend, Claimed
    <2>2. db[r].tx \in accepted /\ db[r].tx \in Tx
      BY <2>1 DEF HoldInv, RebSent, IInv, TypeOK
    <2>3. accepted' = accepted /\ NetAccepted' /\ Mined' = Mined
      BY <2>2, SubmitGives
    <2>4. Stays(db, db') /\ Settles
      BY <2>1, StatementsStay, StagesSettle
    <2> QED BY <2>1, <2>3, <2>4, HandsKeep, QuietStep
  <1>10. ASSUME NEW r \in Row, RebDbError(r) PROVE HoldInv' /\ Promise!Next
    <2>1. /\ UNCHANGED <<db, ing, tickVars, cliCur, api, ask, confTodo>>
          /\ r \in rebTodo /\ rebTodo' \subseteq rebTodo /\ Claimed' = Claimed
      BY <1>10 DEF RebDbError, Claimed
    <2>2. db[r].tx \in accepted /\ db[r].tx \in Tx
      BY <2>1 DEF HoldInv, RebSent, IInv, TypeOK
    <2>3. accepted' = accepted
      BY <1>10, <2>2 DEF RebDbError
    <2>4. NetAccepted' /\ Mined' = Mined
      BY <1>10, <2>2, <2>3
         DEF RebDbError, NodeAccepts, HoldInv, NetAccepted, Mined, IInv, TypeOK
    <2>5. Stays(db, db') /\ Settles
      BY <2>1, StatementsStay, StagesSettle
    <2> QED BY <2>1, <2>3, <2>4, <2>5, HandsKeep, QuietStep
  <1> QED
    BY <1>1, <1>2, <1>3, <1>4, <1>5, <1>6, <1>7, <1>8, <1>9, <1>10
       DEF BlkNext, PrcNext, ConfNext, RebNext

\* A row that is taken in: held, and then withheld, or released.
LEMMA EnteringStep ==
    ASSUME IInv, IInv', HoldInv, NEW q \in Row, NEW t \in Tx,
           db[q].status = "fresh", Enters(db, db', q, t),
           NEW wish, ask' = [ask EXCEPT ![q] = wish], wish.kind # "none",
           UNCHANGED <<net, accepted, api, rebTodo, confTodo>>,
           IF wish.kind = "hold" THEN Withheld(db'[q]) /\ Claimed' \subseteq Claimed
                                 ELSE Claimed' \subseteq Claimed \cup {q}
    PROVE  HoldInv' /\ Promise!Next
  <1> db \in Table /\ db' \in Table /\ ask \in [Row -> AskRecord]
    BY DEF IInv, TypeOK, Table
  <1>1. ~Known(db, q) /\ q \notin Released
    BY DEF Known, HoldInv, FreshUnreleased
  <1>2. Released' = IF wish.kind = "hold" THEN Released ELSE Released \cup {q}
    BY <1>1 DEF Released
  <1>a. StageMap[q] = "absent"
    BY <1>1, InTableMaps
  <1>b. \A r \in Row : /\ Where(db'[r]) = IF r = q THEN "waiting" ELSE Where(db[r])
                       /\ db'[r].tx = IF r = q THEN t ELSE db[r].tx
    BY DEF Enters, Rests
  <1>3. /\ StageMap[q] = "absent" /\ StageMap' = [StageMap EXCEPT ![q] = "waiting"]
        /\ TxMap' = [TxMap EXCEPT ![q] = t]
    BY <1>a, <1>b, StageIsWhere DEF StageMap, TxMap
  <1>4. Settles
    BY <1>1, StagesSettle
  <1>5. ApiKnown' /\ RebSent' /\ NetAccepted' /\ Mined' = Mined
    BY <1>4, HandsKeep
  <1>6. Promise!Next
    BY <1>2, <1>3, <1>5, TakeMaps
  <1>7. Known(db', q)
    BY Stages DEF Enters, Known, Table
  <1>8. Claimed' \cup confTodo' \subseteq Released'
    BY <1>2 DEF HoldInv, HandsReleased
  <1>9. \A r \in Row : Rests(db, db', r) \/ r \in Released' \/ Withheld(db'[r])
    BY <1>2 DEF Enters
  <1>10. HoldInv'
    BY <1>2, <1>4, <1>5, <1>7, <1>8, <1>9, HoldKeeps
  <1> QED BY <1>6, <1>10

\* The ingest of a wallet's broadcast.
LEMMA IngestImplements ==
    ASSUME IInv, IInv', HoldInv, IngestStep
    PROVE  HoldInv' /\ Promise!Next
  <1> SUFFICES ASSUME NEW r \in Row,
                      \/ \E t \in Tx, src \in Wallet : IngestAck(r, t, src)
                      \/ IngestNext(r) \/ IngestFail(r)
               PROVE  HoldInv' /\ Promise!Next
    BY DEF IngestStep
  <1> USE DEF tickVars, loopVars, clockVars, linkVars, netVars, wishVars
  <1> db \in Table /\ ing \in [Row -> IngestRecord]
    BY DEF IInv, TypeOK, Table
  <1> DEFINE Still == UNCHANGED <<tickVars, loopVars, cliCur, api, net, accepted>>
  <1>a. ASSUME UNCHANGED <<db, ask>>, Still, Claimed' \subseteq Claimed
        PROVE  HoldInv' /\ Promise!Next
    BY <1>a, StatementsStay, StagesSettle, HandsKeep, QuietStep
  <1>1. ASSUME NEW t \in Tx, NEW src \in Wallet, IngestAck(r, t, src)
        PROVE  HoldInv' /\ Promise!Next
    <2>1. UNCHANGED <<db, ask>> /\ Still
      BY <1>1 DEF IngestAck
    <2>2. Claimed' \subseteq Claimed
      BY <1>1 DEF IngestAck, Claimed
    <2> QED BY <1>a, <2>1, <2>2
  <1>2. CASE IngestInsert(r)
    <2> PICK plan \in IngestPlans(ing[r].src, LockOf[ing[r].tx]) :
          /\ db' = InsertBroadcastTx(db, r, ing[r].tx, LockOf[ing[r].tx],
                                     plan.mode, plan.sched)
          /\ ask' = [ask EXCEPT ![r] = WalletAsk(ing[r].src, LockOf[ing[r].tx], plan)]
      BY <1>2 DEF IngestInsert
    <2> DEFINE t == ing[r].tx
               wish == WalletAsk(ing[r].src, LockOf[t], plan)
    <2>1. /\ t \in Tx /\ LockOf[t] \in Nat /\ db[r].status = "fresh"
          /\ ing[r].src \in Wallet
      BY <1>2, PoolDbAssumption DEF IngestInsert, IInv, Hands, IngestHolds, Known
    <2>2. plan.mode \in Mode /\ plan.sched \in Nat \cup {NULL}
      BY <2>1, PoolAssumption DEF IngestPlans, BroadcastPlans, Mode, Time, IInv, TypeOK
    <2>3. Enters(db, db', r, t)
          /\ db'[r].mode = plan.mode /\ db'[r].nlock = LockOf[t]
          /\ db'[r].sched = plan.sched /\ db'[r].price = NULL /\ db'[r].status = "pending"
      <3> DEFINE nlock == LockOf[t]
                 mode  == plan.mode
                 sched == plan.sched
      <3>1. db' = InsertBroadcastTx(db, r, t, nlock, mode, sched)
        OBVIOUS
      <3>2. t \in Tx /\ nlock \in Nat /\ mode \in Mode /\ sched \in Nat \cup {NULL}
        BY <2>1, <2>2
      <3> HIDE DEF t, nlock, mode, sched
      <3>3. /\ Enters(db, db', r, t)
            /\ db'[r].mode = mode /\ db'[r].nlock = nlock
            /\ db'[r].sched = sched /\ db'[r].price = NULL /\ db'[r].status = "pending"
        BY <3>1, <3>2, InsertEnters
      <3> QED BY <3>3 DEF nlock, mode, sched
    <2>4. wish.kind # "none"
      BY <2>1 DEF WalletAsk, Ask
    <2>5. wish.kind = "hold" =>
             /\ plan.sched = NULL /\ plan.mode # "immediate"
             /\ ~(plan.mode = "by_block" /\ LockOf[t] > 0 /\ LockOf[t] < LOCKTIME_THRESHOLD)
      BY <2>1, <2>2, PoolDbAssumption, PoolAssumption
         DEF WalletAsk, Ask, IngestPlans, BroadcastPlans, Mode
    <2>6. Still /\ ing' = [ing EXCEPT ![r].pc = "inserted"]
      BY <1>2 DEF IngestInsert
    <2>7. \A q \in Row : q # r => db'[q].mode = db[q].mode
      BY <2>3 DEF Enters, Rests
    <2>8. Claimed' \subseteq IF plan.mode = "immediate" THEN Claimed \cup {r} ELSE Claimed
      BY <2>3, <2>6, <2>7 DEF Claimed, IngestRecord
    <2> HIDE DEF wish
    <2>9. wish.kind = "hold" => Withheld(db'[r]) /\ Claimed' \subseteq Claimed
      BY <2>3, <2>5, <2>8 DEF Withheld
    <2>10. Claimed' \subseteq Claimed \cup {r}
      BY <2>8
    <2> QED BY <2>1, <2>3, <2>4, <2>6, <2>9, <2>10, EnteringStep DEF wish
  <1>3. CASE IngestStore(r)
    <2>1. UNCHANGED <<db, ask>> /\ Still
      BY <1>3 DEF IngestStore
    <2>2. Claimed' \subseteq Claimed
      BY <1>3 DEF IngestStore, Claimed, IngestRecord
    <2> QED BY <1>a, <2>1, <2>2
  <1>4. CASE IngestMarkDue(r)
    <2>1. UNCHANGED ask /\ Still /\ r \in Claimed
      BY <1>4 DEF IngestMarkDue, Claimed
    <2>2. Moves(db, db', r, "waiting")
      BY <1>4, StatementsMove DEF IngestMarkDue, IInv, TypeOK
    <2>3. Claimed' \subseteq Claimed
      BY <1>4, <2>2, MovesMaps DEF IngestMarkDue, Claimed, IngestRecord
    <2> QED BY <2>1, <2>2, <2>3, MovingStep
  <1>5. CASE IngestFail(r)
    <2>1. UNCHANGED <<db, ask>> /\ Still
      BY <1>5 DEF IngestFail
    <2>2. Claimed' \subseteq Claimed
      BY <1>5 DEF IngestFail, Claimed, IngestRecord
    <2> QED BY <1>a, <2>1, <2>2
  <1> QED BY <1>1, <1>2, <1>3, <1>4, <1>5 DEF IngestNext

\* A command that says when a row goes, or that it goes now.
LEMMA InstructingStep ==
    ASSUME IInv, IInv', HoldInv, NEW q \in Row, Known(db, q),
           Moves(db, db', q, "waiting"), NEW wish, ask' = [ask EXCEPT ![q] = wish],
           wish.kind \notin {"none", "hold"},
           UNCHANGED <<ing, tickVars, loopVars, cliCur, net, accepted>>,
           api' \in {api, NULL}
    PROVE  HoldInv' /\ Promise!Next
  <1> db \in Table /\ db' \in Table /\ ask \in [Row -> AskRecord]
    BY DEF IInv, TypeOK, Table
  <1>1. Released' = Released \cup {q}
    BY DEF Released
  <1>2. Claimed' = Claimed /\ confTodo' = confTodo /\ rebTodo' = rebTodo
    BY MovesMaps DEF Claimed, tickVars, loopVars
  <1>3. Settles
    BY StagesSettle
  <1>4. ApiKnown' /\ RebSent' /\ NetAccepted' /\ Mined' = Mined
    BY <1>2, <1>3, HandsKeep
  <1>5. Promise!Next
    BY <1>1, <1>2, <1>4, InstructMaps
  <1>6. \A r \in Row : Rests(db, db', r) \/ r \in Released'
    BY <1>1 DEF Moves
  <1>7. Known(db', q)
    BY <1>3 DEF Settles
  <1>8. HoldInv'
    BY <1>1, <1>2, <1>3, <1>4, <1>6, <1>7, HoldKeeps DEF HoldInv, HandsReleased
  <1> QED BY <1>5, <1>8

\* The commands of the web API and of the command line.
LEMMA CommandsImplement ==
    ASSUME IInv, IInv', HoldInv, CommandStep
    PROVE  HoldInv' /\ Promise!Next
  <1> USE DEF tickVars, loopVars, clockVars, linkVars, netVars, wishVars
  <1> db \in Table /\ ing \in [Row -> IngestRecord]
    BY DEF IInv, TypeOK, Table
  <1> DEFINE Still == UNCHANGED <<ing, tickVars, loopVars, net, accepted>>
  <1>a. ASSUME Stays(db, db'), UNCHANGED ask, Still, api' \in {api, NULL},
               cliCur' \in {cliCur, NULL}
        PROVE  HoldInv' /\ Promise!Next
    <2>1. Claimed' \subseteq Claimed
      BY <1>a, StaysMaps, PoolDbAssumption DEF Claimed
    <2> QED BY <1>a, <2>1, StagesSettle, HandsKeep, QuietStep
  <1>b. ASSUME Still, UNCHANGED <<cliCur, ask, api>>, NEW r \in Row,
               Moves(db, db', r, "removed")
        PROVE  HoldInv' /\ Promise!Next
    <2>1. Claimed' = Claimed
      BY <1>b, MovesMaps DEF Claimed
    <2> QED BY <1>b, <2>1, MovingStep
  <1>1. CASE ApiWrite
    <2>1. /\ api # NULL /\ api \in ApiRecord /\ Known(db, api.row) /\ api.row \in Row
          /\ api.at \in Nat /\ (api.op = "price" => api.side \in Side)
      BY <1>1 DEF ApiWrite, IInv, TypeOK, ApiRecord, HoldInv, ApiKnown, Hands, ApiHolds
    <2>2. Still /\ UNCHANGED cliCur /\ api' = NULL
      BY <1>1 DEF ApiWrite
    <2>3. CASE api.op = "at"
      <3> PICK defer \in Nat \cup {NULL} :
                 db' = UpdateReschedule(db, api.row, api.at, defer)
        BY <1>1, <2>1, <2>3 DEF ApiWrite
      <3>1. Moves(db, db', api.row, "waiting")
        BY <2>1, StatementsMove
      <3>2. ask' = [ask EXCEPT ![api.row] = Ask("at", api.at)]
        BY <1>1, <2>3 DEF ApiWrite, Commanded
      <3>3. Ask("at", api.at).kind \notin {"none", "hold"}
        BY DEF Ask
      <3> QED BY <2>1, <2>2, <3>1, <3>2, <3>3, InstructingStep
    <2>4. CASE api.op = "price"
      <3>0. db' = UpdatePriceSchedule(db, api.row, api.side)
        BY <1>1, <2>4 DEF ApiWrite
      <3>1. Moves(db, db', api.row, "waiting")
        BY <2>1, <2>4, <3>0, StatementsMove
      <3>2. ask' = [ask EXCEPT ![api.row] = Ask(api.side, 0)]
        BY <1>1, <2>4 DEF ApiWrite, Commanded
      <3>3. Ask(api.side, 0).kind \notin {"none", "hold"}
        BY <2>1, <2>4 DEF Ask, Side
      <3> QED BY <2>1, <2>2, <3>1, <3>2, <3>3, InstructingStep
    <2> QED BY <2>1, <2>3, <2>4 DEF ApiRecord
  <1>2. ASSUME NEW r \in Row, NEW t \in Time, ApiScheduleAt(r, t)
        PROVE  HoldInv' /\ Promise!Next
    <2>1. UNCHANGED <<db, ask, cliCur>> /\ Still /\ api'.row = r
      BY <1>2 DEF ApiScheduleAt
    <2>2. ApiKnown'
      BY <1>2, <2>1 DEF ApiScheduleAt, ApiKnown, Known, InTable, TxStatus
    <2>3. Claimed' = Claimed
      BY <2>1 DEF Claimed
    <2> QED BY <2>1, <2>2, <2>3, StatementsStay, StagesSettle, HandsKeep, QuietStep
  <1>3. ASSUME NEW r \in Row, NEW side \in Side, ApiScheduleByPrice(r, side)
        PROVE  HoldInv' /\ Promise!Next
    <2>1. UNCHANGED <<db, ask, cliCur>> /\ Still /\ api'.row = r
      BY <1>3 DEF ApiScheduleByPrice
    <2>2. ApiKnown'
      BY <1>3, <2>1 DEF ApiScheduleByPrice, ApiKnown, Known
    <2>3. Claimed' = Claimed
      BY <2>1 DEF Claimed
    <2> QED BY <2>1, <2>2, <2>3, StatementsStay, StagesSettle, HandsKeep, QuietStep
  <1>4. ASSUME NEW r \in Row, NEW t \in Time, ScheduleTransaction(r, t)
        PROVE  HoldInv' /\ Promise!Next
    <2>1. /\ Still /\ UNCHANGED <<cliCur, api>>
          /\ ask' = [ask EXCEPT ![r] = Ask("delay", t)]
          /\ Known(db, r) /\ t \in Nat
      BY <1>4, PoolAssumption
         DEF ScheduleTransaction, Commanded, InTable, TxStatus, Known, Time
    <2>2. Moves(db, db', r, "waiting")
      BY <1>4, <2>1, StatementsMove DEF ScheduleTransaction
    <2>3. Ask("delay", t).kind \notin {"none", "hold"}
      BY DEF Ask
    <2> QED BY <2>1, <2>2, <2>3, InstructingStep
  <1>5. ASSUME NEW r \in Row, RemoveTransaction(r) PROVE HoldInv' /\ Promise!Next
    <2>1. Still /\ UNCHANGED <<cliCur, ask, api>>
      BY <1>5 DEF RemoveTransaction
    <2> QED BY <1>5, <1>b, <2>1, StatementsMove DEF RemoveTransaction
  <1>6. ASSUME NEW r \in Row, RetryFailedTransaction(r) PROVE HoldInv' /\ Promise!Next
    <2>1. Still /\ UNCHANGED <<cliCur, ask, api>>
      BY <1>6 DEF RetryFailedTransaction
    <2> QED BY <1>6, <1>a, <2>1, StatementsStay DEF RetryFailedTransaction
  <1>7. ASSUME NEW r \in Row, NEW t \in Tx, ImportTransaction(r, t)
        PROVE  HoldInv' /\ Promise!Next
    <2>1. /\ Still /\ UNCHANGED <<cliCur, api>> /\ ing[r].pc = "idle"
          /\ db[r].status = "fresh" /\ ask' = [ask EXCEPT ![r] = Ask("hold", 0)]
      BY <1>7 DEF ImportTransaction
    <2>2. /\ Enters(db, db', r, t) /\ db'[r].mode = "immediate" /\ db'[r].sched = NULL
          /\ db'[r].price = NULL /\ db'[r].status = "pending"
      <3> DEFINE sched == NULL
      <3>1. /\ sched \in Nat \cup {NULL}
            /\ db' = InsertBroadcastTx(db, r, t, 0, "immediate", sched)
        BY <1>7 DEF ImportTransaction
      <3> HIDE DEF sched
      <3>2. /\ Enters(db, db', r, t) /\ db'[r].mode = "immediate" /\ db'[r].sched = sched
            /\ db'[r].price = NULL /\ db'[r].status = "pending"
        BY <3>1, ImportEnters
      <3> QED BY <3>2 DEF sched
    <2>3. Withheld(db'[r])
      BY <2>2 DEF Withheld
    <2>4. Claimed' \subseteq Claimed
      BY <2>1, <2>2 DEF Claimed, Enters, Rests
    <2>5. Ask("hold", 0).kind = "hold"
      BY DEF Ask
    <2> QED BY <2>1, <2>2, <2>3, <2>4, <2>5, EnteringStep
  <1>8. ASSUME NEW r \in Row, NEW t \in Tx, NEW at \in Time, NEW delay \in Time,
               CliImportAt(r, t, at, delay)
        PROVE  HoldInv' /\ Promise!Next
    <2> DEFINE e == InsertBroadcastTx(db, r, t, 0, "immediate", at)
    <2>1. /\ Still /\ UNCHANGED <<cliCur, api>> /\ ing[r].pc = "idle"
          /\ db[r].status = "fresh" /\ ask' = [ask EXCEPT ![r] = Ask("delay", delay)]
          /\ db' = SetRandomSchedule(e, r, delay)
      BY <1>8 DEF CliImportAt
    <2>2. at \in Nat /\ delay \in Nat
      BY PoolAssumption DEF Time
    <2>3. Enters(db, e, r, t) /\ e \in Table
      BY <2>2, ImportEnters
    <2> HIDE DEF e
    <2>4. Enters(db, db', r, t)
      BY <2>1, <2>2, <2>3, StatementsMove, EntersThenMoves
    <2>5. Claimed' \subseteq Claimed
      BY <2>1, <2>4 DEF Claimed, Enters, Rests
    <2>6. Ask("delay", delay).kind = "delay"
      BY DEF Ask
    <2> QED BY <2>1, <2>4, <2>5, <2>6, EnteringStep
  <1>9. ASSUME NEW r \in Row, CliBroadcast(r) PROVE HoldInv' /\ Promise!Next
    <2> PICK up \in {idxUp, AnyBackend}, res \in Result :
                             /\ Submit(up, db[r].tx, res)
                             /\ cliCur' = IF res = "ok" THEN r ELSE NULL
      BY <1>9 DEF CliBroadcast
    <2>1. /\ UNCHANGED <<tickVars, loopVars, ing, api>>
          /\ ask' = [ask EXCEPT ![r] = Ask("now", 0)]
          /\ InTable(db, r) /\ db[r].status # "confirmed" /\ cliCur = NULL
      BY <1>9 DEF CliBroadcast
    <2>2. Known(db, r) /\ db[r].tx \in Tx
      BY <2>1 DEF InTable, TxStatus, IInv, Hands, SettledRows, Known
    <2>3. /\ accepted' \in {accepted, accepted \cup {db[r].tx}}
          /\ NetAccepted' /\ Mined' = Mined
          /\ res = "ok" => accepted' = accepted \cup {db[r].tx}
      BY <2>2, SubmitGives
    <2>4. Stays(db, db')
      BY <1>9, StatementsStay DEF CliBroadcast
    <2>5. /\ StageMap' = StageMap /\ TxMap' = TxMap /\ TxMap[r] = db[r].tx
          /\ StageMap[r] \in {"waiting", "sent"}
      BY <2>1, <2>4, StaysMaps, InTableMaps, Stages DEF Table
    <2>6. Released' = Released \cup {r}
      BY <2>1 DEF Released, Ask, IInv, TypeOK
    <2>7. Claimed' \subseteq Claimed \cup (IF res = "ok" THEN {r} ELSE {})
      BY <2>1, <2>4, StaysMaps, PoolDbAssumption DEF Claimed
    <2>8. Promise!Next
      BY <2>3, <2>5, <2>6, <2>7, SendNowMaps
    <2>9. Settles
      BY <2>4, StagesSettle
    <2>10. ApiKnown' /\ RebSent'
      BY <2>1, <2>3, <2>9, HandsKeep
    <2>11. r \in Released' /\ Known(db', r) /\ db'[r].tx = db[r].tx
      BY <2>2, <2>6, <2>9 DEF Settles
    <2>12. HoldInv'
      BY <2>1, <2>3, <2>4, <2>6, <2>7, <2>9, <2>10, <2>11, HoldKeeps
         DEF Stays, HoldInv, HandsReleased
    <2> QED BY <2>8, <2>12
  <1>10. CASE CliMark
    <2>1. Still /\ UNCHANGED <<api, ask>> /\ cliCur # NULL /\ cliCur' = NULL
      BY <1>10 DEF CliMark
    <2>2. cliCur \in Row /\ db[cliCur].tx \in accepted /\ cliCur \in Claimed
      BY <2>1 DEF IInv, TypeOK, Hands, CliHolds, Claimed
    <2>3. Moves(db, db', cliCur, "sent")
      BY <1>10, <2>2, StatementsMove DEF CliMark
    <2>4. Claimed' \subseteq Claimed
      BY <2>1, <2>3, <2>2, MovesMaps, PoolDbAssumption DEF Claimed
    <2> QED BY <2>1, <2>2, <2>3, <2>4, MovingStep
  <1>11. CASE CliDbError
    <2>1. Still /\ UNCHANGED <<db, api, ask>> /\ cliCur' = NULL
      BY <1>11 DEF CliDbError
    <2> QED BY <1>a, <2>1, StatementsStay
  <1>12. ASSUME NEW r \in Row, CliRemove(r) PROVE HoldInv' /\ Promise!Next
    <2>1. Still /\ UNCHANGED <<cliCur, ask, api>>
      BY <1>12 DEF CliRemove
    <2> QED BY <1>12, <1>b, <2>1, StatementsMove DEF CliRemove
  <1>13. CASE CliStart
    <2>1. Still /\ UNCHANGED <<cliCur, ask, api>>
      BY <1>13 DEF CliStart
    <2>2. Stays(db, db')
      BY <1>13, StatementsStay DEF CliStart
    <2> QED BY <1>a, <2>1, <2>2
  <1> QED
    BY <1>1, <1>2, <1>3, <1>4, <1>5, <1>6, <1>7, <1>8, <1>9, <1>10, <1>11, <1>12, <1>13
       DEF CommandStep

\* The world outside, and a restart.
LEMMA WorldImplements ==
    ASSUME IInv, IInv', HoldInv, WorldStep
    PROVE  HoldInv' /\ Promise!Next
  <1> USE DEF tickVars, loopVars, clockVars, linkVars, netVars, wishVars
  <1> db \in Table
    BY DEF IInv, TypeOK, Table
  <1> DEFINE Still == UNCHANGED <<db, ing, tickVars, loopVars, cliCur, api, accepted, ask>>
  <1>a. ASSUME Still, NetAccepted', Mined' = Mined
        PROVE  HoldInv' /\ Promise!Next
    <2>1. Claimed' = Claimed
      BY <1>a DEF Claimed
    <2> QED BY <1>a, <2>1, StatementsStay, StagesSettle, HandsKeep, QuietStep
  <1>b. ASSUME Still, UNCHANGED net PROVE HoldInv' /\ Promise!Next
    BY <1>a, <1>b DEF Mined, HoldInv, NetAccepted
  <1>c. ASSUME Still, NetAccepted', Mined' \subseteq accepted
        PROVE  HoldInv' /\ Promise!Next
    <2>1. Claimed' = Claimed /\ Released' = Released
      BY <1>c DEF Claimed, Released
    <2>2. Stays(db, db') /\ Settles
      BY <1>c, StatementsStay, StagesSettle
    <2>3. StageMap' = StageMap /\ TxMap' = TxMap
      BY <2>2, StaysMaps
    <2>4. Promise!Network
      BY <1>c, <2>1, <2>3 DEF Promise!Network, StageMap, TxMap, Mined
    <2>5. ApiKnown' /\ RebSent'
      BY <1>c, <2>2, HandsKeep
    <2>6. HoldInv'
      BY <1>c, <2>1, <2>2, <2>5, HoldKeeps DEF Stays, HoldInv, HandsReleased
    <2> QED BY <2>4, <2>6 DEF Promise!Next
  <1>1. CASE Elapse
    BY <1>1, <1>b DEF Elapse
  <1>2. CASE Mine
    <2> PICK S \in SUBSET {t \in Tx : net[t] = "mempool"} :
            net' = [t \in Tx |-> IF t \in S THEN "mined" ELSE net[t]]
      BY <1>2 DEF Mine
    <2>1. Still
      BY <1>2 DEF Mine
    <2>2. NetAccepted' /\ Mined' \subseteq accepted
      BY <2>1 DEF NetAccepted, Mined, HoldInv
    <2> QED BY <1>c, <2>1, <2>2
  <1>3. CASE Reorg
    <2> PICK S \in SUBSET {t \in Tx : net[t] = "mined"} :
            net' = [t \in Tx |-> IF t \in S THEN "mempool" ELSE net[t]]
      BY <1>3 DEF Reorg
    <2>1. Still
      BY <1>3 DEF Reorg
    <2>2. NetAccepted' /\ Mined' \subseteq accepted
      BY <2>1 DEF NetAccepted, Mined, HoldInv
    <2> QED BY <1>c, <2>1, <2>2
  <1>4. CASE PriceMoves
    BY <1>4, <1>b DEF PriceMoves
  <1>5. ASSUME NEW t \in Tx, Evict(t) PROVE HoldInv' /\ Promise!Next
    <2>1. Still /\ net[t] = "mempool" /\ net' = [net EXCEPT ![t] = "unknown"]
      BY <1>5 DEF Evict
    <2>2. NetAccepted' /\ Mined' = Mined
      BY <2>1 DEF NetAccepted, Mined, HoldInv, IInv, TypeOK
    <2> QED BY <1>a, <2>1, <2>2
  <1>6. CASE IndexerFails
    BY <1>6, <1>b DEF IndexerFails
  <1>7. CASE IndexerRecovers
    BY <1>7, <1>b DEF IndexerRecovers
  <1>8. CASE RpcFails
    BY <1>8, <1>b DEF RpcFails
  <1>9. CASE RpcRecovers
    BY <1>9, <1>b DEF RpcRecovers
  <1>10. CASE Restart
    <2>1. /\ UNCHANGED <<cliCur, net, accepted, ask>> /\ api' = NULL
          /\ confTodo' = {} /\ rebTodo' = {} /\ Stays(db, db')
      BY <1>10, StatementsStay DEF Restart
    <2>2. \A r \in Row : ing'[r].pc \notin {"inserted", "stored"}
      BY <1>10 DEF Restart, IInv, TypeOK, IngestRecord
    <2>3. Claimed' \subseteq Claimed
      BY <1>10, <2>1, <2>2, PoolDbAssumption DEF Restart, Claimed
    <2> QED BY <2>1, <2>3, StagesSettle, HandsKeep, QuietStep
  <1> QED
    BY <1>1, <1>2, <1>3, <1>4, <1>5, <1>6, <1>7, <1>8, <1>9, <1>10 DEF WorldStep

-----------------------------------------------------------------------------
\* Every step keeps the invariant and is a step of the promise, or none.
THEOREM StepImplements ==
    IInv /\ HoldInv /\ [Next]_vars
        => IInv' /\ HoldInv' /\ [Promise!Next]_(Promise!vars)
  <1> SUFFICES ASSUME IInv, HoldInv, [Next]_vars
               PROVE  IInv' /\ HoldInv' /\ [Promise!Next]_(Promise!vars)
    OBVIOUS
  <1>1. IInv'
    BY NextIInv
  <1>2. CASE Next
    BY <1>1, <1>2, IngestImplements, TickImplements, LoopsImplement,
       CommandsImplement, WorldImplements DEF Next
  <1>3. CASE UNCHANGED vars
    <2>1. UNCHANGED <<db, ing, tickVars, loopVars, cliCur, api, net, accepted, ask>>
      BY <1>3 DEF vars, netVars, wishVars
    <2>2. Claimed' = Claimed /\ Stays(db, db') /\ db \in Table
      BY <2>1, StatementsStay DEF Claimed, tickVars, loopVars, IInv, TypeOK, Table
    <2>3. HoldInv' /\ Promise!Next
      BY <1>1, <2>1, <2>2, StagesSettle, HandsKeep, QuietStep DEF loopVars
    <2> QED BY <1>1, <2>3
  <1> QED BY <1>2, <1>3

\* PoolLifecycle keeps the promise of the pool: the five loops, the ingest, the
\* web API and the command line, interleaved with faults and restarts, make a
\* transaction public only after it was released and then listed as waiting,
\* record as sent only what is public and as confirmed only what is in the
\* chain, and never bring a removed row back.
THEOREM Refinement == Spec => PromiseKept
  <1>1. Init => IInv /\ HoldInv /\ Promise!Init
    BY InitIInv, InitHold
  <1> QED
    BY <1>1, StepImplements, PTL DEF Spec, PromiseKept, Promise!Spec

\* What the pool holds stays private: a transaction that every row holds has
\* not been given to any node, however the daemon, the command line and
\* restarts interleave.
THEOREM AlwaysHeldStaysPrivate == Spec => []HeldStaysPrivate
  <1>1. Init => IInv /\ HoldInv
    BY InitIInv, InitHold
  <1>2. HoldInv => HeldStaysPrivate
    BY DEF HoldInv, PublicReleased, HeldStaysPrivate, Released
  <1> QED BY <1>1, <1>2, StepImplements, PTL DEF Spec

===============================================================================
