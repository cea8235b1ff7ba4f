------------------------------ MODULE WalletView ------------------------------
(***************************************************************************)
(* What one wallet makes of the pool and the indexer together: the answers *)
(* that pool/virtual_mempool.rs and electrum_server/mod.rs merge from the  *)
(* transactions the pool holds and the ones the indexer knows, while the   *)
(* pool hands transactions over from the one to the other.                 *)
(*                                                                         *)
(* A forwarded request reads three things at three moments: whether        *)
(* anything is held, what the indexer knows, and what is held once its     *)
(* answer is there.  A transaction is accepted by the network, known to    *)
(* the indexer and let go by the pool at moments of their own too.         *)
(*                                                                         *)
(* One session; lines, other wallets and lost notifications are those of   *)
(* ElectrumSession.  "history" stands for get_history and get_mempool,     *)
(* which are merged alike, "status" for scripthash.subscribe, "coins" for  *)
(* listunspent.  Every output of a transaction to an address is one coin.  *)
(***************************************************************************)
EXTENDS Integers, FiniteSets

FinX == INSTANCE FiniteSetsExt

CONSTANTS
    Tx,         \* transactions
    Sh,         \* the wallet's script hashes
    Pays,       \* what a transaction pays to each
    Ins,        \* the coins <<transaction, script hash>> it spends
    Settled,    \* transactions the indexer knows from the start
    MaxStores,  \* bound on the times the pool stores each transaction
    MaxErrors,  \* bound on the requests the indexer does not answer in time
    NULL        \* None

\* A balance is the sum of finitely many coins.
ASSUME ViewAssumption ==
    /\ IsFiniteSet(Tx)
    /\ Pays \in [Tx -> [Sh -> Nat]]
    /\ Ins \in [Tx -> SUBSET (Tx \X Sh)]
    /\ Settled \subseteq Tx
    /\ MaxStores \in [Tx -> Nat] /\ MaxErrors \in Nat
    /\ \A S \in SUBSET Sh : S # NULL

VARIABLES
    vm,      \* per transaction: the script hashes it is held under, or NULL
    stores,  \* per transaction: how often it has been stored
    sent,    \* transactions the network has accepted
    known,   \* transactions the indexer knows
    recent,  \* recent_broadcast_txid of the session
    errors,  \* how often the indexer has failed to answer
    req,     \* the request the session is answering, or NULL
    inbox,   \* notifications the session has not passed on
    stale,   \* script hashes the wallet has been told to fetch again
    view,    \* per script hash: the history the wallet has
    \* --- history ---
    owed     \* <<t, sh>>: t was let go of when the indexer knew it, and no
             \* history of sh has been made from the pool alone since

vars == <<vm, stores, sent, known, recent, errors, req, inbox, stale, view, owed>>

Op      == {"history", "status", "balance", "coins"}
Request == [op : Op, sh : Sh,
            up   : {NULL} \cup SUBSET Tx,  \* what the indexer answered from
            kept : SUBSET Tx]  \* history: held for sh since it was asked

TypeOK ==
    /\ vm \in [Tx -> {NULL} \cup SUBSET Sh]
    /\ stores \in [Tx -> Nat] /\ \A t \in Tx : stores[t] <= MaxStores[t]
    /\ sent \subseteq Tx /\ known \subseteq sent
    /\ recent \in Tx \cup {NULL}
    /\ errors \in 0 .. MaxErrors
    /\ req \in Request \cup {NULL}
    /\ inbox \subseteq Sh /\ stale \subseteq Sh
    /\ view \in [Sh -> SUBSET Tx]
    /\ owed \subseteq Tx \X Sh

Init ==
    /\ vm = [t \in Tx |-> NULL]
    /\ stores = [t \in Tx |-> 0]
    /\ sent = Settled /\ known = Settled
    /\ recent = NULL /\ errors = 0 /\ req = NULL
    /\ inbox = {} /\ stale = Sh
    /\ view = [sh \in Sh |-> {}]
    /\ owed = {}

-----------------------------------------------------------------------------
(* The two sides of an answer.                                             *)

Held        == {t \in Tx : vm[t] # NULL}
Outputs(t)  == {sh \in Sh : Pays[t][sh] > 0}
Inputs(t)   == {c[2] : c \in Ins[t]}

\* get_pending_txids_for_scripthash.
PendingFor(sh) == {t \in Held : sh \in vm[t]}

\* pending_txids_for_scripthash_with_session.
PendingInSession(sh) == PendingFor(sh) \cup ({recent} \cap Held)

\* get_pending_utxos_for_scripthash: by the outputs, whatever else it is held
\* under and whatever has been broadcast last.
PendingCoins(sh) == {t \in Held : Pays[t][sh] > 0}

\* What transactions pay to a script hash, added up.
PaidTo(S, sh) == FinX!MapThenSumSet(LAMBDA t : Pays[t][sh], S)

\* get_pending_unconfirmed_value.
PendingValue(sh) == PaidTo(PendingCoins(sh), sh)

\* The indexer's answers, from the transactions it knows.
RealHistory(up, sh) == {t \in up : sh \in Outputs(t) \cup Inputs(t)}
RealCoins(up, sh) ==
    {t \in up : Pays[t][sh] > 0 /\ \A u \in up : <<t, sh>> \notin Ins[u]}
RealBalance(up, sh) == PaidTo(RealCoins(up, sh), sh)

Count(t, listed) == IF t \in listed THEN 1 ELSE 0

\* Mutant: what the indexer lists already is listed again.
Bug_Inject(real, pending) ==
    [t \in Tx |-> Count(t, real) + Count(t, pending)]

\* inject_in_history, inject_get_mempool, inject_listunspent: the pool's list is
\* appended, but for what the indexer's has.
Inject(real, pending) ==
    [t \in Tx |-> Count(t, real) + Count(t, pending \ real)]

\* modify_upstream_response: a status hides what the indexer knows as soon as
\* there is something to show from the pool.
Listed(op, sh, up) ==
    CASE op = "history" -> Inject(RealHistory(up, sh), PendingInSession(sh))
      [] op = "coins"   -> Inject(RealCoins(up, sh), PendingCoins(sh))
      [] op = "status"  -> IF PendingInSession(sh) # {}
                           THEN Inject({}, PendingInSession(sh))
                           ELSE Inject(RealHistory(up, sh), {})
      [] op = "balance" -> Inject({}, {})

\* inject_balance_unconfirmed: the two are added and nothing is compared.
BalanceAnswer(sh, up) == RealBalance(up, sh) + PendingValue(sh)

\* A history replaces the one the wallet has.
Deliver(r, up) ==
    view' = IF r.op = "history"
            THEN [view EXCEPT ![r.sh] =
                    {t \in Tx : Listed(r.op, r.sh, up)[t] > 0}]
            ELSE view

-----------------------------------------------------------------------------
(* The session.                                                            *)

\* For a history the wallet was told to fetch, or anything it likes to ask.
Ask(op, sh) ==
    [op |-> op, sh |-> sh, up |-> NULL,
     kept |-> IF op \in {"balance", "coins"} THEN PendingCoins(sh)
              ELSE PendingInSession(sh)]

NoLongerStale(op, sh) == IF op = "history" THEN stale \ {sh} ELSE stale

\* handle_one_subrequest: with a pool transaction to show, these two are
\* answered from the pool alone.
Fast(op, sh) == op \in {"history", "status"} /\ PendingInSession(sh) # {}

AskFast(op, sh) ==
    /\ req = NULL /\ Fast(op, sh)
    /\ Deliver(Ask(op, sh), {})
    /\ stale' = NoLongerStale(op, sh)
    /\ owed' = IF op = "history" THEN owed \ (Tx \X {sh}) ELSE owed
    /\ UNCHANGED <<vm, stores, sent, known, recent, req, inbox, errors>>

AskForward(op, sh) ==
    /\ req = NULL /\ ~Fast(op, sh)
    /\ req' = Ask(op, sh)
    /\ stale' = NoLongerStale(op, sh)
    /\ UNCHANGED <<vm, stores, sent, known, recent, inbox, view,
                   owed, errors>>

\* The indexer reads its state; its answer is on the way.
IndexerReads ==
    /\ req # NULL /\ req.up = NULL
    /\ req' = [req EXCEPT !.up = known]
    /\ UNCHANGED <<vm, stores, sent, known, recent, inbox, stale, view,
                   owed, errors>>

\* forward_subrequest_sync_timed, modify_upstream_response.
Reply ==
    /\ req # NULL /\ req.up # NULL
    /\ Deliver(req, req.up)
    /\ req' = NULL
    /\ UNCHANGED <<vm, stores, sent, known, recent, inbox, stale,
                   owed, errors>>

\* "Indexer temporarily unavailable": a history has to be asked for again.
ReplyError ==
    /\ req # NULL /\ errors < MaxErrors
    /\ errors' = errors + 1
    /\ stale' = IF req.op = "history" THEN stale \cup {req.sh} ELSE stale
    /\ req' = NULL
    /\ UNCHANGED <<vm, stores, sent, known, recent, inbox, view, owed>>

\* The session passes a notification on between two requests, and forgets a
\* broadcast that is no longer held.
Hear(sh) ==
    /\ req = NULL /\ sh \in inbox
    /\ inbox' = inbox \ {sh}
    /\ stale' = stale \cup {sh}
    /\ recent' = IF recent \in Held THEN recent ELSE NULL
    /\ UNCHANGED <<vm, stores, sent, known, req, view, owed, errors>>

\* intercept_and_handle_broadcast: stored under the outputs, remembered and
\* acknowledged.
Broadcast(t) ==
    /\ req = NULL
    /\ stores[t] < MaxStores[t]
    /\ stores' = [stores EXCEPT ![t] = @ + 1]
    /\ vm' = [vm EXCEPT ![t] = Outputs(t)]
    /\ recent' = t
    /\ inbox' = inbox \cup Outputs(t)
    /\ UNCHANGED <<sent, known, req, stale, view, owed, errors>>

-----------------------------------------------------------------------------
(* The pool and the world.                                                 *)

StillKept(held) ==
    req' = IF req = NULL THEN NULL
           ELSE [req EXCEPT !.kept = @ \cap held]

\* The background job of a broadcast stores it again, with the outputs alone,
\* or another session stores it.
StoreAgain(t) ==
    /\ stores[t] < MaxStores[t]
    /\ stores' = [stores EXCEPT ![t] = @ + 1]
    /\ vm' = [vm EXCEPT ![t] = Outputs(t)]
    /\ inbox' = inbox \cup Outputs(t)
    /\ req' = IF req # NULL /\ req.op \in {"history", "status"}
              THEN [req EXCEPT !.kept =
                      IF req.sh \in Outputs(t) \/ t = recent
                      THEN @ ELSE @ \ {t}]
              ELSE req
    /\ UNCHANGED <<sent, known, recent, stale, view, owed, errors>>

\* enrich_input_scripthashes, merge_pending_scripthashes: the inputs that were
\* found in the budget, merged without a notification.
Enrich(t) ==
    /\ t \in Held
    /\ \E found \in SUBSET Inputs(t) :
          /\ vm' = [vm EXCEPT ![t] = @ \cup found]
          /\ vm' # vm
    /\ UNCHANGED <<stores, sent, known, recent, req, inbox, stale, view,
                   owed, errors>>

\* broadcast_transaction: the network has it; the row is marked later.
Accept(t) ==
    /\ t \in Held \ sent
    /\ Ins[t] \subseteq sent \X Sh
    /\ sent' = sent \cup {t}
    /\ UNCHANGED <<vm, stores, known, recent, req, inbox, stale, view,
                   owed, errors>>

\* The indexer follows its node.  Nothing it learns is passed on to sessions:
\* requests go through connections of their own, closed after the answer.
Learn(t) ==
    /\ t \in sent \ known
    /\ Ins[t] \subseteq known \X Sh
    /\ known' = known \cup {t}
    /\ UNCHANGED <<vm, stores, sent, recent, req, inbox, stale, view,
                   owed, errors>>

\* Mutant: nobody is told.
Bug_RemovePendingTx(t) ==
    /\ t \in Held
    /\ vm' = [vm EXCEPT ![t] = NULL]
    /\ owed' = owed \cup {<<t, sh>> : sh \in IF t \in known THEN vm[t] ELSE {}}
    /\ StillKept(Held \ {t})
    /\ UNCHANGED <<stores, sent, known, recent, inbox, stale, view, errors>>

\* Mutant: the notification carries the txid, a string as well.
Bug_NotifyTxid(t) ==
    /\ t \in Held
    /\ vm' = [vm EXCEPT ![t] = NULL]
    /\ inbox' = inbox \cup {t}
    /\ owed' = owed \cup {<<t, sh>> : sh \in IF t \in known THEN vm[t] ELSE {}}
    /\ StillKept(Held \ {t})
    /\ UNCHANGED <<stores, sent, known, recent, stale, view, errors>>

\* remove_pending_tx: the row has been marked, or the user removes it.
RemovePendingTx(t) ==
    /\ t \in Held
    /\ vm' = [vm EXCEPT ![t] = NULL]
    /\ inbox' = inbox \cup vm[t]
    /\ owed' = owed \cup {<<t, sh>> : sh \in IF t \in known THEN vm[t] ELSE {}}
    /\ StillKept(Held \ {t})
    /\ UNCHANGED <<stores, sent, known, recent, stale, view, errors>>

-----------------------------------------------------------------------------
Refetch(sh) ==
    sh \in stale /\ (AskFast("history", sh) \/ AskForward("history", sh))

Serve == IndexerReads \/ Reply \/ \E sh \in Sh : Hear(sh)

PoolStep ==
    \E t \in Tx :
        \/ StoreAgain(t) \/ Enrich(t) \/ Accept(t) \/ Learn(t)
        \/ RemovePendingTx(t)

Next ==
    \/ \E op \in Op, sh \in Sh : AskFast(op, sh) \/ AskForward(op, sh)
    \/ \E t \in Tx : Broadcast(t)
    \/ Serve \/ ReplyError
    \/ PoolStep

Spec == Init /\ [][Next]_vars

\* The session's task runs, a request is answered in the end, and a wallet
\* fetches the histories it was told to, whatever else it asks for.  The
\* indexer's knowledge and the pool owe nothing.
FairSpec ==
    /\ Spec
    /\ WF_vars(IndexerReads) /\ WF_vars(Reply)
    /\ \A sh \in Sh : SF_vars(Hear(sh)) /\ SF_vars(Refetch(sh))

-----------------------------------------------------------------------------
(* Properties.                                                             *)

\* The answers the session may give now: <<request, what the indexer said>>.
Answers ==
    {<<req, up>> : up \in IF req = NULL THEN {} ELSE {req.up} \ {NULL}}
    \cup {<<Ask(p[1], p[2]), {}>> :
            p \in {q \in Op \X Sh : req = NULL /\ Fast(q[1], q[2])}}

\* A transaction the pool holds for an address while the wallet asks about it
\* is in the answer, and nothing is listed twice, also when the indexer learns of
\* it, or a background job stores it again, before the answer.  A balance is no
\* less than these coins and the indexer's together; it may be more, since the
\* coins that both sides know are added twice.
HeldIsShownOnce ==
    \A p \in Answers :
        LET op == p[1].op  sh == p[1].sh  up == p[2]  kept == p[1].kept
        IN  IF op = "balance"
            THEN BalanceAnswer(sh, up) >= PaidTo(kept \cup RealCoins(up, sh), sh)
            ELSE \A t \in Tx : /\ Listed(op, sh, up)[t] <= 1
                               /\ t \in kept => Listed(op, sh, up)[t] = 1

\* A transaction the indexer knew when the pool let go of it is in the end in
\* the wallet's history of every address it was held under, although the news
\* comes through the pool alone and answers may be late.  A history made from
\* the pool alone, because another transaction is held, hides it again.
SentIsSeen ==
    \A sh \in Sh :
        LET Due == {t \in Tx : <<t, sh>> \in owed}
        IN  (Due # {}) ~> (Due \subseteq view[sh])
=============================================================================
