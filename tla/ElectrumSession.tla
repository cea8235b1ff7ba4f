--------------------------- MODULE ElectrumSession ---------------------------
(***************************************************************************)
(* What a wallet connected to the Electrum server is told about the        *)
(* transactions the pool holds (electrum_server/mod.rs with the virtual    *)
(* mempool and the notification channel of pool/manager.rs).               *)
(*                                                                         *)
(* Each connection is one task.  It answers the lines the wallet sends, a  *)
(* whole read at a time, and between reads receives scripthash changes     *)
(* from a broadcast channel that every change of the virtual mempool       *)
(* sends to.  A wallet's broadcast is stored and acknowledged by the       *)
(* session itself; a background job inserts the row, stores the            *)
(* transaction again and looks its inputs up.  What happens to the row     *)
(* afterwards (PoolLifecycle) is here only its end: RemovePendingTx.       *)
(*                                                                         *)
(* The wallet is a client that may send anything at any time.  A status is *)
(* represented by the set of pool transactions it hashes.  Handshake, fee, *)
(* balance, coin and header requests read no state of the session and are  *)
(* left out, as are restarts, which end every session.                     *)
(***************************************************************************)
EXTENDS Integers, Sequences, FiniteSets

SeqX == INSTANCE SequencesExt

CONSTANTS
    Session,        \* connections
    Tx,             \* transactions
    Sh,             \* script hashes
    Outs, Ins,      \* the script hashes a transaction pays to and spends from
    ChanCap,        \* capacity of the notification channel (256 in the code)
    Faults,         \* what may fail, a subset of {"disconnect", "db"}
    MaxLines,       \* bound on the lines a wallet sends on one connection
    MaxBroadcasts,  \* bound on the broadcasts acknowledged
    NULL            \* None

ASSUME SessionAssumption ==
    /\ IsFiniteSet(Session)
    /\ Outs \in [Tx -> SUBSET Sh] /\ Ins \in [Tx -> SUBSET Sh]
    /\ \A t \in Tx : Outs[t] # {}
    /\ ChanCap \in Nat \ {0}
    /\ Faults \subseteq {"disconnect", "db"}
    /\ MaxLines \in Nat /\ MaxBroadcasts \in Nat
    /\ NULL \notin Tx /\ \A h \in SUBSET Sh : h # NULL

VARIABLES
    vm,       \* per transaction: the script hashes it is held under, or NULL
    rows,     \* per transaction: its rows in the pool that are still to be sent
    gone,     \* history: transactions that have ever left the pool
    orphans,  \* history: transactions stored by a broadcast that got no row
    leaving,  \* per transaction: notifications of its removal not sent yet
    job,      \* the background task of each acknowledged broadcast
    ses,      \* SessionState, and where the connection's task is
    chan,     \* the connection's receiver of the notification channel
    wal       \* the wallet at the other end, and the socket between

vars == <<vm, rows, gone, orphans, leaving, job, ses, chan, wal>>

Job     == 1 .. MaxBroadcasts
Line    == 1 .. MaxLines
Request == [op : {"poll"}, sh : Sh] \cup [op : {"broadcast"}, tx : Tx]

JobRecord == [pc   : {"none", "ingest", "store", "notify", "enrich", "done"},
              tx   : Tx \cup {NULL},
              todo : SUBSET Sh]

SessionRecord ==
    [up     : BOOLEAN,
     pc     : {"idle", "forward", "store"},
     line   : {NULL} \cup Line,       \* the line being answered
     buf    : Seq(Line),              \* client_buf: lines read, not handled
     subs   : SUBSET Sh,              \* subscribed_scripthashes
     recent : Tx \cup {NULL},         \* recent_broadcast_txid
     todo   : SUBSET Sh]              \* notifications of its own store

\* lagged: the next recv reports Lagged.  deaf: it has, and the branch of the
\* select is disabled until the other branch, the read, has run.  lost:
\* history, a notification of this connection has been dropped.
ChanRecord == [queue : Seq(Sh), lagged : BOOLEAN, deaf : BOOLEAN, lost : BOOLEAN]

WalletRecord ==
    [asked    : Seq(Request),         \* every line sent on this connection
     sock     : Seq(Line),            \* lines the server has not read
     answered : SUBSET Line,
     told     : [Sh -> SUBSET Tx],    \* pool transactions last shown
     acked    : Tx \cup {NULL}]       \* last broadcast acknowledged

TypeOK ==
    /\ vm \in [Tx -> {NULL} \cup SUBSET Sh]
    /\ rows \in [Tx -> 0 .. MaxBroadcasts]
    /\ gone \subseteq Tx /\ orphans \subseteq Tx
    /\ leaving \in [Tx -> SUBSET Sh]
    /\ job \in [Job -> JobRecord]
    /\ ses \in [Session -> SessionRecord]
    /\ chan \in [Session -> ChanRecord]
    /\ wal \in [Session -> WalletRecord]

NewSession == [up |-> FALSE, pc |-> "idle", line |-> NULL, buf |-> <<>>,
               subs |-> {}, recent |-> NULL, todo |-> {}]
NewChan    == [queue |-> <<>>, lagged |-> FALSE, deaf |-> FALSE, lost |-> FALSE]
NewWallet  == [asked |-> <<>>, sock |-> <<>>, answered |-> {},
               told |-> [sh \in Sh |-> {}], acked |-> NULL]

Init ==
    /\ vm = [t \in Tx |-> NULL]
    /\ rows = [t \in Tx |-> 0]
    /\ gone = {} /\ orphans = {}
    /\ leaving = [t \in Tx |-> {}]
    /\ job = [j \in Job |-> [pc |-> "none", tx |-> NULL, todo |-> {}]]
    /\ ses = [s \in Session |-> NewSession]
    /\ chan = [s \in Session |-> NewChan]
    /\ wal = [s \in Session |-> NewWallet]

-----------------------------------------------------------------------------
(* The virtual mempool and its notifications.                              *)

\* has_pending_tx.
Held(t) == vm[t] # NULL

\* get_pending_txids_for_scripthash.
PendingFor(sh) == {t \in Tx : Held(t) /\ sh \in vm[t]}

\* Mutant: the transaction just acknowledged is shown to its outputs only.
Bug_PendingInSession(s, sh) == PendingFor(sh)

\* pending_txids_for_scripthash_with_session: while it is held, the session's
\* last broadcast is shown for every script hash asked about.
PendingInSession(s, sh) ==
    PendingFor(sh) \cup {t \in Tx : t = ses[s].recent /\ Held(t)}

\* Sender::send: the channel keeps the last ChanCap messages, and a receiver
\* that is further behind has lost the older ones.
Push(c, sh) ==
    IF Len(c.queue) < ChanCap
    THEN [c EXCEPT !.queue = Append(@, sh)]
    ELSE [c EXCEPT !.queue = Append(Tail(@), sh),
                      !.lagged = TRUE, !.lost = TRUE]

Send(sh) ==
    chan' = [s \in Session |-> IF ses[s].up THEN Push(chan[s], sh) ELSE chan[s]]

-----------------------------------------------------------------------------
(* The wallet.                                                             *)

Connect(s) ==
    /\ ~ses[s].up
    /\ ses' = [ses EXCEPT ![s] = [NewSession EXCEPT !.up = TRUE]]
    /\ chan' = [chan EXCEPT ![s] = NewChan]
    /\ wal' = [wal EXCEPT ![s] = NewWallet]
    /\ UNCHANGED <<vm, rows, gone, orphans, leaving, job>>

\* The task sees it when a read or a write fails; store_pending_tx, once
\* begun, runs to its end.  A broadcast whose acknowledgement cannot be
\* written gets no background job.
Disconnect(s) ==
    /\ "disconnect" \in Faults
    /\ ses[s].up /\ ses[s].todo = {}
    /\ orphans' = IF ses[s].pc = "store"
                  THEN orphans \cup {wal[s].asked[ses[s].line].tx} ELSE orphans
    /\ ses' = [ses EXCEPT ![s] = NewSession]
    /\ chan' = [chan EXCEPT ![s] = NewChan]
    /\ wal' = [wal EXCEPT ![s] = NewWallet]
    /\ UNCHANGED <<vm, rows, gone, leaving, job>>

\* Broadcasts acknowledged, and asked for on live connections.
Broadcasts ==
    Cardinality({j \in Job : job[j].pc # "none"})
    + Cardinality({q \in Session \X Line :
                     /\ q[2] \in DOMAIN wal[q[1]].asked \ wal[q[1]].answered
                     /\ wal[q[1]].asked[q[2]].op = "broadcast"})

SendLine(s, req) ==
    /\ ses[s].up
    /\ Len(wal[s].asked) < MaxLines
    /\ req.op = "broadcast" => Broadcasts < MaxBroadcasts
    /\ wal' = [wal EXCEPT ![s].asked = Append(@, req),
                          ![s].sock  = Append(@, Len(wal[s].asked) + 1)]
    /\ UNCHANGED <<vm, rows, gone, orphans, leaving, job, ses, chan>>

-----------------------------------------------------------------------------
(* The connection's task: lines.                                           *)

\* read_buf: as many lines as have arrived, coalesced by the network in any
\* way.  The select begins anew, so the channel is listened to again.
Read(s) ==
    /\ ses[s].up /\ ses[s].pc = "idle" /\ ses[s].buf = <<>>
    /\ \E n \in 1 .. Len(wal[s].sock) :
          /\ ses' = [ses EXCEPT ![s].buf = SubSeq(wal[s].sock, 1, n)]
          /\ wal' = [wal EXCEPT ![s].sock = SubSeq(@, n + 1, Len(@))]
    /\ chan' = [chan EXCEPT ![s].deaf = FALSE]
    /\ UNCHANGED <<vm, rows, gone, orphans, leaving, job>>

IsBroadcast(s, p) == wal[s].asked[ses[s].buf[p]].op = "broadcast"

\* pop_client_line: the first broadcast of the buffer, else its first line.
Picked(s) ==
    CHOOSE p \in DOMAIN ses[s].buf :
        IF \E q \in DOMAIN ses[s].buf : IsBroadcast(s, q)
        THEN IsBroadcast(s, p) /\ \A q \in 1 .. p - 1 : ~IsBroadcast(s, q)
        ELSE p = 1

\* Mutant: drain(..=e), everything up to the picked line.
Bug_LinesLeft(s) ==
    SubSeq(ses[s].buf, Picked(s) + 1, Len(ses[s].buf))

\* pop_client_line: only the picked line leaves the buffer.
LinesLeft(s) == SeqX!RemoveAt(ses[s].buf, Picked(s))

\* The task is free and req is the request on line i, the next it handles.
Handles(s, i, req) ==
    /\ ses[s].up /\ ses[s].pc = "idle" /\ ses[s].buf # <<>>
    /\ i = ses[s].buf[Picked(s)]
    /\ req = wal[s].asked[i]

\* handle_one_subrequest for scripthash subscribe, get_history, get_mempool:
\* with a pool transaction to show, the answer does not wait for the indexer.
PollFast(s) ==
    \E i \in Line, req \in Request :
        /\ Handles(s, i, req) /\ req.op = "poll"
        /\ PendingInSession(s, req.sh) # {}
        /\ ses' = [ses EXCEPT ![s].buf = LinesLeft(s),
                              ![s].subs = @ \cup {req.sh}]
        /\ wal' = [wal EXCEPT ![s].told[req.sh] = PendingInSession(s, req.sh),
                              ![s].answered = @ \cup {i}]
        /\ UNCHANGED <<vm, rows, gone, orphans, leaving, job, chan>>

\* Otherwise the request is forwarded and the task waits.
PollForward(s) ==
    \E i \in Line, req \in Request :
        /\ Handles(s, i, req) /\ req.op = "poll"
        /\ PendingInSession(s, req.sh) = {}
        /\ ses' = [ses EXCEPT ![s].buf = LinesLeft(s),
                              ![s].subs = @ \cup {req.sh},
                              ![s].pc = "forward", ![s].line = i]
        /\ UNCHANGED <<vm, rows, gone, orphans, leaving, job, chan, wal>>

\* forward_subrequest_sync_timed, modify_upstream_response: the indexer's
\* answer, with the pool transactions held by the time it comes, or an error
\* after a time-out or without an indexer, which tells the wallet nothing.
PollAnswer(s) ==
    /\ ses[s].pc = "forward"
    /\ LET sh == wal[s].asked[ses[s].line].sh
       IN  \E answer \in {PendingInSession(s, sh), wal[s].told[sh]} :
              wal' = [wal EXCEPT ![s].told[sh] = answer,
                                 ![s].answered = @ \cup {ses[s].line}]
    /\ ses' = [ses EXCEPT ![s].pc = "idle", ![s].line = NULL]
    /\ UNCHANGED <<vm, rows, gone, orphans, leaving, job, chan>>

\* intercept_and_handle_broadcast, phase 1: held under its outputs.  What
\* the transaction was held under before is lost.
BroadcastStore(s) ==
    \E i \in Line, req \in Request :
        /\ Handles(s, i, req) /\ req.op = "broadcast"
        /\ vm' = [vm EXCEPT ![req.tx] = Outs[req.tx]]
        /\ ses' = [ses EXCEPT ![s].buf = LinesLeft(s), ![s].pc = "store",
                              ![s].line = i, ![s].todo = Outs[req.tx]]
        /\ UNCHANGED <<rows, gone, orphans, leaving, job, chan, wal>>

\* store_pending_tx: the notifications go out once the mutex is released.
BroadcastNotify(s, sh) ==
    /\ sh \in ses[s].todo
    /\ Send(sh)
    /\ ses' = [ses EXCEPT ![s].todo = @ \ {sh}]
    /\ UNCHANGED <<vm, rows, gone, orphans, leaving, job, wal>>

\* Mutant: the session does not remember its broadcast.
Bug_BroadcastAck(s) ==
    /\ ses[s].pc = "store" /\ ses[s].todo = {}
    /\ LET t == wal[s].asked[ses[s].line].tx
           j == CHOOSE k \in Job : /\ job[k].pc = "none"
                                   /\ \A m \in 1 .. k - 1 : job[m].pc # "none"
       IN  /\ ses' = [ses EXCEPT ![s].pc = "idle", ![s].line = NULL]
           /\ wal' = [wal EXCEPT ![s].acked = t,
                                 ![s].answered = @ \cup {ses[s].line}]
           /\ job' = [job EXCEPT ![j] = [pc |-> "ingest", tx |-> t, todo |-> {}]]
    /\ UNCHANGED <<vm, rows, gone, orphans, leaving, chan>>

\* The acknowledgement is written, then the background job is spawned.
BroadcastAck(s) ==
    /\ ses[s].pc = "store" /\ ses[s].todo = {}
    /\ LET t == wal[s].asked[ses[s].line].tx
           j == CHOOSE k \in Job : /\ job[k].pc = "none"
                                   /\ \A m \in 1 .. k - 1 : job[m].pc # "none"
       IN  /\ ses' = [ses EXCEPT ![s].pc = "idle", ![s].line = NULL,
                                 ![s].recent = t]
           /\ wal' = [wal EXCEPT ![s].acked = t,
                                 ![s].answered = @ \cup {ses[s].line}]
           /\ job' = [job EXCEPT ![j] = [pc |-> "ingest", tx |-> t, todo |-> {}]]
    /\ UNCHANGED <<vm, rows, gone, orphans, leaving, chan>>

-----------------------------------------------------------------------------
(* The connection's task: notifications.                                   *)

Listens(s) ==
    /\ ses[s].up /\ ses[s].pc = "idle" /\ ses[s].buf = <<>>
    /\ ~chan[s].deaf

\* recv returns Err(Lagged), which the pattern Ok(notification) does not
\* match: until the next read the select waits for the read alone.
HearLagged(s) ==
    /\ Listens(s) /\ chan[s].lagged
    /\ chan' = [chan EXCEPT ![s].lagged = FALSE, ![s].deaf = TRUE]
    /\ UNCHANGED <<vm, rows, gone, orphans, leaving, job, ses, wal>>

\* Mutant: nothing is sent when nothing is pending any more.
Bug_StatusSent(s, sh, pending) == sh \in ses[s].subs /\ pending # {}

\* "Always send notification", of a script hash the session follows.
StatusSent(s, sh, pending) == sh \in ses[s].subs

Hear(s) ==
    /\ Listens(s) /\ ~chan[s].lagged /\ chan[s].queue # <<>>
    /\ LET sh      == Head(chan[s].queue)
           pending == PendingInSession(s, sh)
       IN  wal' = IF StatusSent(s, sh, pending)
                  THEN [wal EXCEPT ![s].told[sh] = pending] ELSE wal
    /\ ses' = [ses EXCEPT ![s].recent =
                  IF @ # NULL /\ ~Held(@) THEN NULL ELSE @]
    /\ chan' = [chan EXCEPT ![s].queue = Tail(@)]
    /\ UNCHANGED <<vm, rows, gone, orphans, leaving, job>>

-----------------------------------------------------------------------------
(* The background job of a broadcast.                                      *)

\* Mutant: a failed insert does not stop the job.
Bug_JobInsert(j) ==
    /\ job[j].pc = "ingest"
    /\ job' = [job EXCEPT ![j].pc = "store"]
    /\ \/ rows' = [rows EXCEPT ![job[j].tx] = @ + 1]
       \/ "db" \in Faults /\ UNCHANGED rows
    /\ UNCHANGED <<vm, gone, orphans, leaving, ses, chan, wal>>

\* handle_broadcast: import_transaction inserts the row, or fails.
JobInsert(j) ==
    /\ job[j].pc = "ingest"
    /\ \/ /\ rows' = [rows EXCEPT ![job[j].tx] = @ + 1]
          /\ job' = [job EXCEPT ![j].pc = "store"]
          /\ UNCHANGED orphans
       \/ /\ "db" \in Faults
          /\ orphans' = orphans \cup {job[j].tx}
          /\ job' = [job EXCEPT ![j].pc = "done"]
          /\ UNCHANGED rows
    /\ UNCHANGED <<vm, gone, leaving, ses, chan, wal>>

\* handle_broadcast: store_pending_outputs, again with the outputs alone and
\* whether or not the transaction has left meanwhile.
JobStore(j) ==
    /\ job[j].pc = "store"
    /\ vm' = [vm EXCEPT ![job[j].tx] = Outs[job[j].tx]]
    /\ job' = [job EXCEPT ![j].pc = "notify", ![j].todo = Outs[job[j].tx]]
    /\ UNCHANGED <<rows, gone, orphans, leaving, ses, chan, wal>>

JobNotify(j, sh) ==
    /\ job[j].pc = "notify" /\ sh \in job[j].todo
    /\ Send(sh)
    /\ job' = [job EXCEPT ![j].todo = @ \ {sh},
                          ![j].pc = IF job[j].todo = {sh} THEN "enrich" ELSE @]
    /\ UNCHANGED <<vm, rows, gone, orphans, leaving, ses, wal>>

\* enrich_pending_input_scripthashes, merge_pending_scripthashes: the inputs
\* that could be looked up in time, merged without a notification.
JobEnrich(j) ==
    /\ job[j].pc = "enrich"
    /\ \E found \in SUBSET Ins[job[j].tx] :
          vm' = IF Held(job[j].tx)
                THEN [vm EXCEPT ![job[j].tx] = @ \cup found] ELSE vm
    /\ job' = [job EXCEPT ![j].pc = "done"]
    /\ UNCHANGED <<rows, gone, orphans, leaving, ses, chan, wal>>

-----------------------------------------------------------------------------
(* The end of a row: mark_broadcast, or a removal by the user.             *)

\* Mutant: no look at whether there is a row.
Bug_RemoveWithoutRow(t) ==
    /\ rows' = [rows EXCEPT ![t] = @ - 1]
    /\ vm' = [vm EXCEPT ![t] = NULL]
    /\ gone' = gone \cup {t}
    /\ leaving' = [leaving EXCEPT ![t] = @ \cup IF Held(t) THEN vm[t] ELSE {}]
    /\ UNCHANGED <<orphans, job, ses, chan, wal>>

\* Mutant: the sessions are not told.
Bug_RemovePendingTx(t) ==
    /\ rows[t] > 0
    /\ rows' = [rows EXCEPT ![t] = @ - 1]
    /\ vm' = [vm EXCEPT ![t] = NULL]
    /\ gone' = gone \cup {t}
    /\ UNCHANGED <<orphans, leaving, job, ses, chan, wal>>

\* remove_pending_tx: another row of the same transaction makes no difference.
RemovePendingTx(t) ==
    /\ rows[t] > 0
    /\ rows' = [rows EXCEPT ![t] = @ - 1]
    /\ vm' = [vm EXCEPT ![t] = NULL]
    /\ gone' = gone \cup {t}
    /\ leaving' = [leaving EXCEPT ![t] = @ \cup IF Held(t) THEN vm[t] ELSE {}]
    /\ UNCHANGED <<orphans, job, ses, chan, wal>>

RemoveNotify(t, sh) ==
    /\ sh \in leaving[t]
    /\ Send(sh)
    /\ leaving' = [leaving EXCEPT ![t] = @ \ {sh}]
    /\ UNCHANGED <<vm, rows, gone, orphans, job, ses, wal>>

-----------------------------------------------------------------------------
WalletStep ==
    \E s \in Session :
        \/ Connect(s) \/ Disconnect(s)
        \/ \E req \in Request : SendLine(s, req)

SessionStep(s) ==
    \/ Read(s) \/ PollFast(s) \/ PollForward(s) \/ PollAnswer(s)
    \/ BroadcastStore(s) \/ BroadcastAck(s)
    \/ \E sh \in Sh : BroadcastNotify(s, sh)

HearStep(s) == HearLagged(s) \/ Hear(s)

JobStep(j) ==
    \/ JobInsert(j) \/ JobStore(j) \/ JobEnrich(j)
    \/ \E sh \in Sh : JobNotify(j, sh)

RemoveNotifyStep == \E t \in Tx, sh \in Sh : RemoveNotify(t, sh)

Next ==
    \/ WalletStep
    \/ \E s \in Session : SessionStep(s) \/ HearStep(s)
    \/ \E j \in Job : JobStep(j)
    \/ \E t \in Tx : RemovePendingTx(t)
    \/ RemoveNotifyStep

Spec == Init /\ [][Next]_vars

\* The runtime runs every task that can go on, and a forwarded request is
\* answered within its time-out.  The wallet and the pool's rows owe nothing.
FairSpec ==
    /\ Spec
    /\ \A s \in Session : WF_vars(SessionStep(s)) /\ WF_vars(HearStep(s))
    /\ \A j \in Job : WF_vars(JobStep(j))
    /\ WF_vars(RemoveNotifyStep)

-----------------------------------------------------------------------------
(* Properties.                                                             *)

\* A notification about sh is still on its way to session s.
Coming(s, sh) ==
    \/ \E n \in DOMAIN chan[s].queue : chan[s].queue[n] = sh
    \/ \E z \in Session : sh \in ses[z].todo
    \/ \E j \in Job : sh \in job[j].todo
    \/ \E t \in Tx : sh \in leaving[t]

\* For an address a transaction pays to, what a wallet was last told of that
\* transaction is the truth, or the news is on its way: through polls answered
\* late, removals, stores repeated by background jobs and broadcasts of others.
\* A connection that has lost notifications may be wrong.
OutputsTold ==
    \A s \in Session : ses[s].up /\ ~chan[s].lost =>
        \A sh \in ses[s].subs, t \in Tx : sh \in Outs[t] =>
            (t \in wal[s].told[sh]) = Held(t) \/ Coming(s, sh)

\* A wallet that asks about any of its addresses after the acknowledgement of
\* its broadcast, the input's before it has been looked up included, is shown
\* the transaction, until it leaves the pool: background jobs that store it
\* again, lookups that fail and the broadcasts of others do not hide it.
AckedIsPolled ==
    \A s \in Session :
        LET t == wal[s].acked
        IN  t # NULL /\ t \notin gone
            => \A sh \in Sh : t \in PendingInSession(s, sh)

\* A transaction that wallets are shown as sent waits in the pool to be sent:
\* it has a row, or one is being inserted, through repeated broadcasts, wallets
\* that go, and rows that end.  Except when an insert has failed, when the
\* wallet went before its acknowledgement, and when a background job has
\* stored it again after it left.
HeldIsQueued ==
    \A t \in Tx : Held(t) /\ t \notin gone \cup orphans =>
        \/ rows[t] > 0
        \/ \E j \in Job : job[j].tx = t /\ job[j].pc = "ingest"
        \/ \E s \in Session : /\ ses[s].pc = "store"
                              /\ wal[s].asked[ses[s].line].tx = t

\* Every line a wallet sends is answered, however the lines were coalesced
\* and whatever else the session is told meanwhile.
EveryLineAnswered ==
    \A s \in Session, i \in Line :
        (i \in DOMAIN wal[s].asked) ~> (i \in wal[s].answered \/ ~ses[s].up)

\* A wallet shown a transaction under an address it pays to is in the end
\* told that it has left, unless it comes back, the wallet goes, or
\* notifications of the session are lost.
OutputsLearnLeaving ==
    \A s \in Session, t \in Tx : \A sh \in Outs[t] :
        (sh \in ses[s].subs /\ ~Held(t))
            ~> (t \notin wal[s].told[sh] \/ Held(t) \/ ~ses[s].up
                \/ chan[s].lost)
=============================================================================
