-------------------------- MODULE WalletViewProofs --------------------------
(***************************************************************************)
(* Proved of WalletView, for any wallet, any transactions and any bounds:  *)
(* its types; and that an answer merged from the pool and the indexer      *)
(* shows what the pool holds: once where it is listed, and no less than    *)
(* all of it in a balance.  The sums are the model's own folds: FoldProofs *)
(* says what they come to.                                                 *)
(***************************************************************************)
EXTENDS WalletView, FoldProofs

-----------------------------------------------------------------------------
(* The inductive invariant.                                                *)

\* What a request of each kind is shown of the pool.
Pending(op, sh) ==
    IF op \in {"balance", "coins"} THEN PendingCoins(sh) ELSE PendingInSession(sh)

\* What the wallet counts on while a request is forwarded is in the pool's half
\* of the answer: the same filter is applied again when the answer comes.
KeptIsPending ==
    req # NULL => req.kept \subseteq Pending(req.op, req.sh)

IInv == TypeOK /\ KeptIsPending

-----------------------------------------------------------------------------
(* The filters of pool/virtual_mempool.rs.                                 *)

\* A filter finds transactions that are held, and nothing else.
LEMMA PendingIsHeld ==
    ASSUME NEW op \in Op, NEW sh \in Sh
    PROVE  Pending(op, sh) \subseteq Held /\ Held \subseteq Tx
  BY DEF Pending, PendingCoins, PendingInSession, PendingFor, Held, Op

\* A request remembers what it would be shown now.
LEMMA AskIs ==
    ASSUME NEW op \in Op, NEW sh \in Sh
    PROVE  /\ Ask(op, sh) \in Request
           /\ Ask(op, sh).op = op /\ Ask(op, sh).sh = sh /\ Ask(op, sh).up = NULL
           /\ Ask(op, sh).kept = Pending(op, sh)
  <1>1. Ask(op, sh) = [op |-> op, sh |-> sh, up |-> NULL, kept |-> Pending(op, sh)]
    BY DEF Ask, Pending
  <1>2. Pending(op, sh) \in SUBSET Tx
    BY PendingIsHeld
  <1>3. QED
    BY <1>1, <1>2 DEF Request

\* While a transaction is held under no less, or under the script hash that is
\* asked for, and the session remembers the same broadcast, a filter that has
\* found it finds it again.
LEMMA StillPending ==
    ASSUME NEW op \in Op, NEW sh \in Sh, NEW t \in Pending(op, sh),
           vm'[t] # NULL,
           \/ vm[t] \subseteq vm'[t]
           \/ op \in {"balance", "coins"} \/ t = recent \/ sh \in vm'[t],
           recent' = recent
    PROVE  t \in Pending(op, sh)'
  BY DEF Pending, PendingCoins, PendingInSession, PendingFor, Held, Op

-----------------------------------------------------------------------------
(* Every action keeps the invariant.                                       *)

\* No request is under way when the session begins.
LEMMA InitKeeps ==
    Init => IInv
  BY ViewAssumption DEF Init, IInv, TypeOK, KeptIsPending

\* Storing a transaction once more is counted within its bound.
LEMMA StoresCounted ==
    ASSUME stores \in [Tx -> Nat], \A u \in Tx : stores[u] <= MaxStores[u],
           NEW t \in Tx, stores[t] < MaxStores[t],
           stores' = [stores EXCEPT ![t] = @ + 1]
    PROVE  stores' \in [Tx -> Nat] /\ \A u \in Tx : stores'[u] <= MaxStores[u]
  <1>1. \A u \in Tx : MaxStores[u] \in Nat
    BY ViewAssumption
  <1>2. stores' \in [Tx -> Nat]
    OBVIOUS
  <1>3. ASSUME NEW u \in Tx PROVE stores'[u] <= MaxStores[u]
    <2>1. CASE u = t
      <3>1. stores'[u] = stores[t] + 1
        BY <2>1
      <3>2. QED BY <1>1, <2>1, <3>1
    <2>2. CASE u # t
      BY <2>2
    <2>3. QED BY <2>1, <2>2
  <1>4. QED BY <1>2, <1>3

\* A request is asked, or answered at once, or the session goes on.
LEMMA SessionKeeps ==
    ASSUME IInv,
           \/ \E op \in Op, sh \in Sh : AskFast(op, sh) \/ AskForward(op, sh)
           \/ Serve \/ ReplyError
           \/ \E t \in Tx : Broadcast(t)
    PROVE  IInv'
  <1> USE DEF IInv
  <1>1. ASSUME NEW op \in Op, NEW sh \in Sh, AskFast(op, sh)
        PROVE  IInv'
    <2>1. view' \in [Sh -> SUBSET Tx]
      BY <1>1 DEF AskFast, Deliver, TypeOK
    <2>2. TypeOK'
      BY <1>1, <2>1 DEF AskFast, TypeOK, NoLongerStale
    <2>3. KeptIsPending'
      BY <1>1 DEF AskFast, KeptIsPending
    <2>4. QED BY <2>2, <2>3
  <1>2. ASSUME NEW op \in Op, NEW sh \in Sh, AskForward(op, sh)
        PROVE  IInv'
    <2>1. req' = Ask(op, sh) /\ Ask(op, sh) \in Request
      BY <1>2, AskIs DEF AskForward
    <2>2. TypeOK'
      BY <1>2, <2>1 DEF AskForward, TypeOK, NoLongerStale
    <2>3. req'.kept = Pending(req'.op, req'.sh)
      BY <2>1, AskIs
    <2>4. UNCHANGED <<vm, recent>>
      BY <1>2 DEF AskForward
    <2>5. Pending(req'.op, req'.sh) = Pending(req.op, req.sh)'
      BY <2>4 DEF Pending, PendingCoins, PendingInSession, PendingFor, Held
    <2>6. QED BY <2>2, <2>3, <2>5 DEF KeptIsPending
  <1>3. ASSUME IndexerReads
        PROVE  IInv'
    <2>1. /\ req \in Request /\ req' = [req EXCEPT !.up = known]
          /\ known \in SUBSET Tx
      BY <1>3, ViewAssumption DEF IndexerReads, TypeOK
    <2>2. req' \in Request /\ req'.op = req.op /\ req'.sh = req.sh /\ req'.kept = req.kept
      BY <2>1 DEF Request
    <2>3. TypeOK'
      BY <1>3, <2>2 DEF IndexerReads, TypeOK
    <2>4. Pending(req.op, req.sh)' = Pending(req.op, req.sh)
      BY <1>3, <2>2
      DEF IndexerReads, Pending, PendingCoins, PendingInSession, PendingFor, Held
    <2>5. KeptIsPending'
      BY <1>3, <2>2, <2>4 DEF KeptIsPending, IndexerReads
    <2>6. QED BY <2>3, <2>5
  <1>4. ASSUME Reply
        PROVE  IInv'
    <2>1. view' \in [Sh -> SUBSET Tx]
      BY <1>4 DEF Reply, Deliver, TypeOK
    <2>2. TypeOK'
      BY <1>4, <2>1 DEF Reply, TypeOK
    <2>3. KeptIsPending'
      BY <1>4 DEF Reply, KeptIsPending
    <2>4. QED BY <2>2, <2>3
  <1>5. ASSUME ReplyError
        PROVE  IInv'
    <2>1. req.sh \in Sh
      BY <1>5 DEF ReplyError, TypeOK, Request
    <2>2. errors' \in 0 .. MaxErrors
      BY <1>5, ViewAssumption DEF ReplyError, TypeOK
    <2>3. TypeOK'
      BY <1>5, <2>1, <2>2 DEF ReplyError, TypeOK
    <2>4. KeptIsPending'
      BY <1>5 DEF ReplyError, KeptIsPending
    <2>5. QED BY <2>3, <2>4
  <1>6. ASSUME NEW sh \in Sh, Hear(sh)
        PROVE  IInv'
    <2>1. TypeOK'
      BY <1>6 DEF Hear, TypeOK
    <2>2. KeptIsPending'
      BY <1>6 DEF Hear, KeptIsPending
    <2>3. QED BY <2>1, <2>2
  <1>7. ASSUME NEW t \in Tx, Broadcast(t)
        PROVE  IInv'
    <2>1. vm' \in [Tx -> {NULL} \cup SUBSET Sh] /\ Outputs(t) \in SUBSET Sh
      BY <1>7 DEF Broadcast, TypeOK, Outputs
    <2>2. stores' \in [Tx -> Nat] /\ \A u \in Tx : stores'[u] <= MaxStores[u]
      BY <1>7, StoresCounted DEF Broadcast, TypeOK
    <2>3. TypeOK'
      BY <1>7, <2>1, <2>2 DEF Broadcast, TypeOK
    <2>4. KeptIsPending'
      BY <1>7 DEF Broadcast, KeptIsPending
    <2>5. QED BY <2>3, <2>4
  <1>8. QED
    BY <1>1, <1>2, <1>3, <1>4, <1>5, <1>6, <1>7 DEF Serve

\* What a request counts on shrinks with what is held: nothing it keeps is let
\* go of, or loses the script hash it was found by.
LEMMA StillCounted ==
    ASSUME IInv, req # NULL, req' \in Request, req'.op = req.op, req'.sh = req.sh,
           req'.kept \subseteq req.kept, recent' = recent,
           \A t \in req'.kept :
               /\ vm'[t] # NULL
               /\ \/ vm[t] \subseteq vm'[t] \/ req.op \in {"balance", "coins"}
                  \/ t = recent \/ req.sh \in vm'[t]
    PROVE  KeptIsPending'
  <1>1. PICK op \in Op, sh \in Sh :
          op = req.op /\ sh = req.sh /\ req.kept \subseteq Pending(op, sh)
    BY DEF IInv, TypeOK, Request, KeptIsPending
  <1>2. ASSUME NEW t \in req'.kept
        PROVE  t \in Pending(op, sh)'
    BY <1>1, StillPending
  <1>3. Pending(op, sh)' = Pending(req.op, req.sh)'
    BY <1>1 DEF Pending
  <1>4. QED
    BY <1>2, <1>3 DEF KeptIsPending

\* The pool, the network and the indexer move while a request is under way.
LEMMA PoolKeeps ==
    ASSUME IInv, PoolStep
    PROVE  IInv'
  <1> USE DEF IInv
  <1>1. ASSUME NEW t \in Tx, StoreAgain(t)
        PROVE  IInv'
    <2>1. /\ Outputs(t) \in SUBSET Sh /\ Outputs(t) # NULL
          /\ vm' \in [Tx -> {NULL} \cup SUBSET Sh]
          /\ vm'[t] = Outputs(t) /\ \A u \in Tx : u # t => vm'[u] = vm[u]
          /\ recent' = recent
      BY <1>1, ViewAssumption DEF StoreAgain, TypeOK, Outputs
    <2>2. stores' \in [Tx -> Nat] /\ \A u \in Tx : stores'[u] <= MaxStores[u]
      BY <1>1, StoresCounted DEF StoreAgain, TypeOK
    <2>3. CASE req = NULL
      <3>1. req' = NULL
        BY <1>1, <2>3 DEF StoreAgain
      <3>2. TypeOK'
        BY <1>1, <2>1, <2>2, <3>1 DEF StoreAgain, TypeOK
      <3>3. QED BY <3>1, <3>2 DEF KeptIsPending
    <2>4. CASE req # NULL
      <3>1. req \in Request
        BY <2>4 DEF TypeOK
      <3> DEFINE Kept(kept) ==
                   /\ req' = [req EXCEPT !.kept = kept]
                   /\ req.op \in {"history", "status"} /\ t \in kept =>
                         req.sh \in Outputs(t) \/ t = recent
      <3>2. PICK kept \in SUBSET req.kept : Kept(kept)
        <4>1. CASE /\ req.op \in {"history", "status"}
                   /\ ~(req.sh \in Outputs(t) \/ t = recent)
          <5>1. Kept(req.kept \ {t})
            BY <1>1, <2>4, <4>1 DEF StoreAgain
          <5>2. QED BY <5>1
        <4>2. CASE ~(/\ req.op \in {"history", "status"}
                     /\ ~(req.sh \in Outputs(t) \/ t = recent))
          <5>1. req' = [req EXCEPT !.kept = req.kept]
            BY <1>1, <2>4, <3>1, <4>2 DEF StoreAgain, Request
          <5>2. Kept(req.kept)
            BY <4>2, <5>1
          <5>3. QED BY <5>2
        <4>3. QED BY <4>1, <4>2
      <3>3. /\ req' \in Request /\ req'.op = req.op /\ req'.sh = req.sh
            /\ req'.kept = kept
        BY <3>1, <3>2 DEF Request
      <3>4. TypeOK'
        BY <1>1, <2>1, <2>2, <3>3 DEF StoreAgain, TypeOK
      <3>5. ASSUME NEW u \in req'.kept
            PROVE  /\ vm'[u] # NULL
                   /\ \/ vm[u] \subseteq vm'[u] \/ req.op \in {"balance", "coins"}
                      \/ u = recent \/ req.sh \in vm'[u]
        <4>1. u \in Held /\ u \in Tx /\ req.op \in Op
          BY <2>4, <3>1, <3>2, <3>3, PendingIsHeld DEF KeptIsPending, Request
        <4>2. QED
          BY <2>1, <3>2, <3>3, <4>1 DEF Held, Op
      <3>6. KeptIsPending'
        BY <2>1, <2>4, <3>2, <3>3, <3>5, StillCounted
      <3>7. QED BY <3>4, <3>6
    <2>5. QED BY <2>3, <2>4
  <1>2. ASSUME UNCHANGED <<req, recent>>, TypeOK',
               \A u \in Held : vm'[u] # NULL /\ vm[u] \subseteq vm'[u]
        PROVE  IInv'
    <2>1. CASE req = NULL
      BY <1>2, <2>1 DEF KeptIsPending
    <2>2. CASE req # NULL
      <3>1. req \in Request /\ req.op \in Op /\ req.sh \in Sh
        BY <2>2 DEF TypeOK, Request
      <3>2. req.kept \subseteq Held
        BY <2>2, <3>1, PendingIsHeld DEF KeptIsPending
      <3>3. KeptIsPending'
        BY <1>2, <2>2, <3>1, <3>2, StillCounted
      <3>4. QED BY <1>2, <3>3
    <2>3. QED BY <2>1, <2>2
  <1>3. ASSUME NEW t \in Tx, Enrich(t)
        PROVE  IInv'
    <2>1. PICK found \in SUBSET Inputs(t) : vm' = [vm EXCEPT ![t] = vm[t] \cup found]
      BY <1>3 DEF Enrich
    <2>2. Inputs(t) \in SUBSET Sh
      BY ViewAssumption DEF Inputs
    <2>3. vm[t] \in SUBSET Sh
      BY <1>3 DEF Enrich, Held, TypeOK
    <2>4. (vm[t] \cup found) \in SUBSET Sh /\ (vm[t] \cup found) # NULL
      BY <2>1, <2>2, <2>3, ViewAssumption
    <2>5. \A u \in Held : vm'[u] # NULL /\ vm[u] \subseteq vm'[u]
      BY <2>1, <2>4 DEF TypeOK, Held
    <2>6. TypeOK'
      BY <1>3, <2>1, <2>4 DEF Enrich, TypeOK
    <2>7. QED BY <1>2, <1>3, <2>5, <2>6 DEF Enrich
  <1>4. ASSUME NEW t \in Tx, Accept(t) \/ Learn(t)
        PROVE  IInv'
    <2>1. TypeOK'
      BY <1>4 DEF Accept, Learn, TypeOK
    <2>2. QED BY <1>2, <1>4, <2>1 DEF Accept, Learn, Held
  <1>5. ASSUME NEW t \in Tx, RemovePendingTx(t)
        PROVE  IInv'
    <2>1. /\ vm[t] \in SUBSET Sh
          /\ vm' \in [Tx -> {NULL} \cup SUBSET Sh]
          /\ \A u \in Tx : u # t => vm'[u] = vm[u]
          /\ recent' = recent
      BY <1>5 DEF RemovePendingTx, Held, TypeOK
    <2>2. inbox' \subseteq Sh /\ owed' \subseteq Tx \X Sh
      <3>1. \A sh \in IF t \in known THEN vm[t] ELSE {} : <<t, sh>> \in Tx \X Sh
        BY <2>1
      <3>2. QED BY <1>5, <2>1, <3>1 DEF RemovePendingTx, TypeOK
    <2>3. CASE req = NULL
      <3>1. req' = NULL
        BY <1>5, <2>3 DEF RemovePendingTx, StillKept
      <3>2. TypeOK'
        BY <1>5, <2>1, <2>2, <3>1 DEF RemovePendingTx, TypeOK
      <3>3. QED BY <3>1, <3>2 DEF KeptIsPending
    <2>4. CASE req # NULL
      <3>1. req \in Request
        BY <2>4 DEF TypeOK
      <3>2. req' = [req EXCEPT !.kept = req.kept \cap (Held \ {t})]
        BY <1>5, <2>4 DEF RemovePendingTx, StillKept
      <3>3. /\ req' \in Request /\ req'.op = req.op /\ req'.sh = req.sh
            /\ req'.kept = req.kept \cap (Held \ {t})
        BY <3>1, <3>2 DEF Request
      <3>4. TypeOK'
        BY <1>5, <2>1, <2>2, <3>3 DEF RemovePendingTx, TypeOK
      <3>5. \A u \in req'.kept : vm'[u] # NULL /\ vm[u] \subseteq vm'[u]
        BY <2>1, <3>3 DEF Held
      <3>6. KeptIsPending'
        BY <2>1, <2>4, <3>3, <3>5, StillCounted
      <3>7. QED BY <3>4, <3>6
    <2>5. QED BY <2>3, <2>4
  <1>6. QED
    BY <1>1, <1>3, <1>4, <1>5 DEF PoolStep

\* Every step keeps the invariant.
LEMMA NextKeeps ==
    IInv /\ [Next]_vars => IInv'
  <1> SUFFICES ASSUME IInv, [Next]_vars PROVE IInv'
    OBVIOUS
  <1>1. UNCHANGED vars => IInv'
    BY DEF IInv, TypeOK, KeptIsPending, vars, Pending, PendingCoins, PendingInSession,
           PendingFor, Held
  <1>2. QED
    BY <1>1, SessionKeeps, PoolKeeps DEF Next

\* The invariant holds throughout.
LEMMA AlwaysIInv ==
    Spec => []IInv
  BY InitKeeps, NextKeeps, PTL DEF Spec

-----------------------------------------------------------------------------
(* The sums of pool/virtual_mempool.rs.                                    *)

\* The transaction a sum begins with.
First(S) == [s \in SUBSET S |-> IF s = {} THEN {} ELSE CHOOSE t \in s : TRUE]

\* A set that is not empty has one.
LEMMA FirstNames ==
    ASSUME NEW S
    PROVE  Names(First(S), S)
  <1>1. ASSUME NEW s \in SUBSET S, s # {}
        PROVE  First(S)[s] \in s
    BY <1>1 DEF First
  <1>2. First(S) \in [SUBSET S -> S \cup {{}}]
    BY <1>1 DEF First
  <1>3. QED
    BY <1>1, <1>2 DEF Names

\* get_pending_unconfirmed_value, and an indexer's balance: what transactions pay
\* to a script hash, added up.
LEMMA PaidIsSum ==
    ASSUME NEW S \in SUBSET Tx, NEW sh \in Sh
    PROVE  \E h : /\ IsSum(h, [t \in S |-> Pays[t][sh]], S)
                  /\ PaidTo(S, sh) = h[S]
  <1> DEFINE f == [t \in S |-> Pays[t][sh]]
             Eq(g) == g = [s \in SUBSET S |->
                             IF s = {} THEN 0
                             ELSE LET t == CHOOSE t \in s : TRUE
                                  IN  Pays[t][sh] + g[s \ {t}]]
  <1>1. IsFiniteSet(S) /\ f \in [S -> Nat]
    BY ViewAssumption, FS_Subset
  <1>2. PICK h : /\ IsSum(h, f, S) /\ Folds(h, f, First(S), S)
                 /\ \A g : Folds(g, f, First(S), S) => g = h
    <2> HIDE DEF f
    <2> QED BY <1>1, FirstNames, FoldIsSum
  <1>3. ASSUME NEW g PROVE Eq(g) <=> Folds(g, f, First(S), S)
    <2>1. ASSUME NEW s \in SUBSET S, s # {}
          PROVE  /\ First(S)[s] = CHOOSE t \in s : TRUE
                 /\ First(S)[s] \in S
                 /\ f[First(S)[s]] = Pays[First(S)[s]][sh]
      BY <2>1, FirstNames DEF First, Names
    <2>2. QED BY <2>1 DEF Folds
  <1>4. PaidTo(S, sh) = (CHOOSE g : Eq(g))[S]
    BY DEF PaidTo, FinX!MapThenSumSet, FinX!MapThenFoldSet
  <1> HIDE DEF Eq
  <1>5. Eq(CHOOSE g : Eq(g))
    <2>1. \E g : Eq(g)
      BY <1>2, <1>3
    <2>2. QED BY <2>1, Zenon
  <1>6. (CHOOSE g : Eq(g)) = h
    BY <1>2, <1>3, <1>5
  <1>7. QED
    BY <1>2, <1>4, <1>6

\* Two sums added are no less than the sum of all that is in the one or in part
\* of the other.
LEMMA BalanceCounts ==
    ASSUME NEW sh \in Sh, NEW R \in SUBSET Tx, NEW C \in SUBSET Tx, NEW K \in SUBSET C
    PROVE  PaidTo(R, sh) + PaidTo(C, sh) >= PaidTo(K \cup R, sh)
  <1> DEFINE paid == [t \in Tx |-> Pays[t][sh]]
  <1>1. paid \in [Tx -> Nat] /\ IsFiniteSet(Tx)
    BY ViewAssumption
  <1>2. PICK h : IsSum(h, paid, Tx)
    <2>1. Tx \in SUBSET Tx
      OBVIOUS
    <2>2. QED BY <2>1, PaidIsSum
  <1>3. ASSUME NEW S \in SUBSET Tx PROVE PaidTo(S, sh) = h[S]
    <2>1. PICK k : IsSum(k, [t \in S |-> Pays[t][sh]], S) /\ PaidTo(S, sh) = k[S]
      BY PaidIsSum
    <2> DEFINE e == [t \in S |-> Pays[t][sh]]
    <2>2. SameOn(e, paid, S) /\ S \in SUBSET S /\ IsFiniteSet(S)
      BY <1>1, FS_Subset DEF SameOn
    <2> HIDE DEF paid
    <2>3. k[S] = h[S]
      BY <1>2, <2>1, <2>2, SumsAgree
    <2>4. QED BY <2>1, <2>3
  <1> DEFINE All == R \cup C
             Part == K \cup R
             Rest == All \ Part
  <1>4. /\ All \in SUBSET Tx /\ Part \in SUBSET Tx /\ Rest \in SUBSET Tx
        /\ R \cap C \in SUBSET Tx
        /\ Part \cup Rest = All /\ Part \cap Rest = {}
    OBVIOUS
  <1>5. h[R] + h[C] = h[All] + h[R \cap C]
    <2> HIDE DEF paid
    <2>1. QED BY <1>1, <1>2, SumTwo
  <1> HIDE DEF All, Part, Rest
  <1>6. h[Part] + h[Rest] = h[All] + h[{}]
    <2> HIDE DEF paid
    <2>1. QED BY <1>1, <1>2, <1>4, SumTwo
  <1>7. /\ h[{}] = 0
        /\ h[Part] \in Nat /\ h[Rest] \in Nat /\ h[All] \in Nat /\ h[R \cap C] \in Nat
    BY <1>2, <1>4 DEF IsSum
  <1>8. h[R] + h[C] >= h[Part]
    BY <1>5, <1>6, <1>7
  <1>9. QED
    BY <1>3, <1>4, <1>8 DEF Part

-----------------------------------------------------------------------------
(* The theorems.                                                           *)

\* Requests, notifications and histories keep their types, and the indexer never
\* knows what the network has not accepted.
THEOREM AlwaysTypeOK ==
    Spec => []TypeOK
  <1>1. IInv => TypeOK
    BY DEF IInv
  <1>2. QED
    BY <1>1, AlwaysIInv, PTL

\* modify_upstream_response, inject_balance_unconfirmed and
\* handle_one_subrequest: what the pool holds for an address from the question to
\* the answer is listed in the answer, and exactly once, and a balance is no less
\* than it and the indexer's coins together, whatever the indexer has learned and
\* whatever has been stored in between.
THEOREM AlwaysHeldIsShownOnce ==
    Spec => []HeldIsShownOnce
  <1>1. ASSUME NEW op \in Op, op # "balance", NEW sh \in Sh, NEW up, NEW t \in Tx
        PROVE  /\ Listed(op, sh, up)[t] \in {0, 1}
               /\ t \in Pending(op, sh) => Listed(op, sh, up)[t] = 1
    BY <1>1 DEF Listed, Inject, Count, Pending, Op
  <1>2. ASSUME IInv, NEW p \in Answers
        PROVE  /\ p[1].op \in Op /\ p[1].sh \in Sh
               /\ p[1].kept \subseteq Pending(p[1].op, p[1].sh)
    <2>1. CASE req # NULL /\ p[1] = req
      BY <1>2, <2>1 DEF IInv, TypeOK, KeptIsPending, Request
    <2>2. CASE \E op \in Op, sh \in Sh : p[1] = Ask(op, sh)
      BY <2>2, AskIs
    <2>3. QED
      BY <2>1, <2>2 DEF Answers
  <1>3. ASSUME IInv, NEW p \in Answers
        PROVE  p[2] \in SUBSET Tx
    BY <1>3 DEF Answers, IInv, TypeOK, Request
  <1>4. ASSUME NEW sh \in Sh, NEW up \in SUBSET Tx, NEW kept \in SUBSET Pending("balance", sh)
        PROVE  BalanceAnswer(sh, up) >= PaidTo(kept \cup RealCoins(up, sh), sh)
    <2>1. /\ RealCoins(up, sh) \in SUBSET Tx /\ PendingCoins(sh) \in SUBSET Tx
          /\ kept \in SUBSET PendingCoins(sh)
      BY DEF RealCoins, PendingCoins, Held, Pending
    <2>2. QED
      BY <2>1, BalanceCounts DEF BalanceAnswer, RealBalance, PendingValue
  <1>5. ASSUME IInv, NEW p \in Answers
        PROVE  IF p[1].op = "balance"
               THEN BalanceAnswer(p[1].sh, p[2])
                      >= PaidTo(p[1].kept \cup RealCoins(p[2], p[1].sh), p[1].sh)
               ELSE \A t \in Tx : /\ Listed(p[1].op, p[1].sh, p[2])[t] <= 1
                                  /\ t \in p[1].kept =>
                                        Listed(p[1].op, p[1].sh, p[2])[t] = 1
    <2>1. CASE p[1].op = "balance"
      <3>1. p[1].kept \in SUBSET Pending("balance", p[1].sh)
        BY <1>2, <1>5, <2>1
      <3>2. QED BY <1>2, <1>3, <1>4, <1>5, <2>1, <3>1
    <2>2. CASE p[1].op # "balance"
      BY <1>1, <1>2, <1>5, <2>2
    <2>3. QED BY <2>1, <2>2
  <1>6. IInv => HeldIsShownOnce
    BY <1>5 DEF HeldIsShownOnce
  <1>7. QED
    BY <1>6, AlwaysIInv, PTL

===============================================================================
