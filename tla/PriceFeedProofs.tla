--------------------------- MODULE PriceFeedProofs ----------------------------
(***************************************************************************)
(* Proved of PriceFeed, for any chain of providers, any number of readers  *)
(* and any time-outs and limits: a price that fires triggers is a live     *)
(* one, a price that stands is evaluated, and a reader that every provider *)
(* has failed goes on with a price that is good enough, if there is one.   *)
(*                                                                         *)
(* The invariant follows a price from the request that brought it, through *)
(* the cache, to the monitor: at every stage its age is bounded by the     *)
(* time since it was stored and the time its provider took to send it.     *)
(* Another one (StandInv) bounds the age of what the monitor has evaluated *)
(* by how long it has slept and asked since, unless no provider has been   *)
(* there for that long.                                                    *)
(***************************************************************************)
EXTENDS PriceFeed, FoldProofs, SequenceTheorems

-----------------------------------------------------------------------------
(* The chain of providers.                                                 *)

\* Providers are numbered in the order they are asked, and each takes a request.
LEMMA ProviderIs ==
    /\ Len(Requests) \in Nat \ {0} /\ Provider = 1 .. Len(Requests)
    /\ \A p \in Provider : Requests[p] \in Nat \ {0}
    /\ 1 \in Provider
  <1>1. Requests \in Seq(Nat \ {0}) /\ Requests # <<>>
    BY PriceAssumption
  <1>2. Len(Requests) \in Nat /\ Provider = 1 .. Len(Requests) /\ Len(Requests) # 0
    BY <1>1, LenProperties, EmptySeq DEF Provider
  <1>3. \A p \in Provider : Requests[p] \in Nat \ {0}
    BY <1>1, <1>2, ElementOfSeq
  <1>4. QED
    BY <1>2, <1>3

\* Nat's bound on what the providers take, by way of the first that breaks one.
LEMMA RequestsBounded ==
    \E n \in Nat : \A p \in Provider : Requests[p] <= n
  <1> DEFINE Bounded(k) == \E n \in Nat : \A p \in 1 .. k : Requests[p] <= n
             K == {k \in 0 .. Len(Requests) : ~Bounded(k)}
  <1>1. Len(Requests) \in Nat /\ Provider = 1 .. Len(Requests)
    BY ProviderIs
  <1>2. SUFFICES ASSUME ~Bounded(Len(Requests)) PROVE FALSE
    BY <1>1
  <1>3. Len(Requests) \in K /\ K \in SUBSET Nat
    BY <1>1, <1>2
  <1>4. PICK k \in K : \A j \in K : k <= j
    BY <1>3, Least
  <1>5. k \in Nat /\ k <= Len(Requests) /\ ~Bounded(k)
    BY <1>1, <1>4
  <1>6. k # 0
    <2>1. \A p \in 1 .. 0 : Requests[p] <= 0
      OBVIOUS
    <2>2. QED BY <1>5, <2>1
  <1>7. k - 1 \in 0 .. Len(Requests) /\ ~(k <= k - 1)
    BY <1>1, <1>5, <1>6
  <1>8. Bounded(k - 1)
    BY <1>4, <1>7
  <1>9. PICK n \in Nat : \A p \in 1 .. k - 1 : Requests[p] <= n
    BY <1>8
  <1>10. Requests[k] \in Nat
    <2>1. k \in Provider
      BY <1>1, <1>5, <1>6
    <2>2. QED BY <2>1, ProviderIs
  <1> HIDE DEF Bounded, K
  <1> DEFINE m == IF n <= Requests[k] THEN Requests[k] ELSE n
  <1>11. m \in Nat /\ n <= m /\ Requests[k] <= m
    BY <1>9, <1>10
  <1> HIDE DEF m
  <1>12. ASSUME NEW p \in 1 .. k PROVE Requests[p] <= m
    <2>1. CASE p = k
      BY <1>11, <2>1
    <2>2. CASE p # k
      <3>1. p \in 1 .. k - 1 /\ p \in Provider
        BY <1>1, <1>5, <2>2
      <3>2. Requests[p] \in Nat
        BY <3>1, ProviderIs
      <3>3. Requests[p] <= n
        BY <1>9, <3>1
      <3>4. QED BY <1>9, <1>11, <3>2, <3>3
    <2>3. QED BY <2>1, <2>2
  <1>13. Bounded(k)
    BY <1>11, <1>12 DEF Bounded
  <1>14. QED
    BY <1>5, <1>13

\* MostRequests is the most that a provider of the chain takes.
LEMMA MostRequestsIs ==
    /\ MostRequests \in Nat \ {0}
    /\ \A p \in Provider : Requests[p] <= MostRequests
  <1> DEFINE S == {Requests[p] : p \in Provider}
             T == {n \in Nat : \A p \in Provider : Requests[p] <= n}
  <1>1. T # {} /\ T \in SUBSET Nat
    BY RequestsBounded
  <1>2. PICK x \in T : \A y \in T : x <= y
    BY <1>1, Least
  <1>3. x \in Nat /\ \A p \in Provider : Requests[p] <= x
    BY <1>2
  <1>4. x # 0
    BY <1>3, ProviderIs
  <1>5. PICK p \in Provider : Requests[p] = x
    <2>1. SUFFICES ASSUME \A p \in Provider : Requests[p] # x PROVE FALSE
      OBVIOUS
    <2>2. \A p \in Provider : Requests[p] <= x - 1
      <3>1. SUFFICES ASSUME NEW p \in Provider PROVE Requests[p] <= x - 1
        OBVIOUS
      <3>2. Requests[p] \in Nat /\ Requests[p] <= x /\ Requests[p] # x
        BY <1>3, <2>1, ProviderIs
      <3>3. QED BY <1>3, <3>2
    <2>3. x - 1 \in T /\ ~(x <= x - 1)
      BY <1>3, <1>4, <2>2
    <2>4. QED BY <1>2, <2>3
  <1>6. x \in S /\ \A y \in S : x >= y
    BY <1>3, <1>5, ProviderIs
  <1>7. MostRequests = CHOOSE n \in S : \A y \in S : n >= y
    BY DEF MostRequests, SetX!Max
  <1>8. MostRequests \in S /\ \A y \in S : MostRequests >= y
    BY <1>6, <1>7
  <1>9. QED
    BY <1>8, ProviderIs

\* The longest a provider takes to send a snapshot.
Limit == Timeout * MostRequests

\* The limits, all below the age at which ages stop being told apart.
LEMMA LimitIs ==
    /\ Limit \in Nat /\ Timeout <= Limit
    /\ TriggerAge = Ttl - 1 + Limit
    /\ Cap \in Nat /\ Limit <= Cap /\ MaxLkg < Cap /\ Ttl <= MaxLkg
    /\ LkgAge = MaxLkg + Limit
    /\ \A k \in Nat \ {0} : k <= MostRequests => Timeout * (k - 1) + Timeout <= Limit
  <1>1. /\ Timeout \in Nat /\ Timeout # 0 /\ MostRequests \in Nat /\ MostRequests # 0
        /\ Ttl \in Nat /\ Ttl # 0 /\ MaxLkg \in Nat /\ Cap \in Nat
        /\ Ttl <= MaxLkg /\ TriggerAge < Cap /\ LkgAge < Cap
    BY MostRequestsIs, PriceAssumption
  <1>2. ASSUME NEW k \in Nat \ {0}, k <= MostRequests
        PROVE  Timeout * (k - 1) + Timeout <= Limit
    <2>1. Timeout * (k - 1) + Timeout = Timeout * k
      BY <1>1
    <2>2. PICK d \in Nat : MostRequests = k + d
      <3>1. MostRequests - k \in Nat /\ MostRequests = k + (MostRequests - k)
        BY <1>1, <1>2
      <3>2. QED BY <3>1
    <2>3. Timeout * MostRequests = Timeout * k + Timeout * d
      BY <1>1, <2>2
    <2>4. Timeout * k \in Nat /\ Timeout * d \in Nat
      BY <1>1, <2>2
    <2>5. QED BY <2>1, <2>3, <2>4 DEF Limit
  <1>3. Limit \in Nat
    BY <1>1 DEF Limit
  <1>4. Timeout <= Limit
    <2>1. Timeout * (1 - 1) + Timeout <= Limit
      BY <1>1, <1>2
    <2>2. Timeout * (1 - 1) + Timeout = Timeout
      BY <1>1
    <2>3. QED BY <2>1, <2>2
  <1>5. TriggerAge = Ttl - 1 + Limit /\ LkgAge = MaxLkg + Limit
    BY DEF TriggerAge, LkgAge, Limit
  <1>6. Limit <= Cap /\ MaxLkg < Cap
    BY <1>1, <1>3, <1>5
  <1>7. QED
    BY <1>1, <1>2, <1>3, <1>4, <1>5, <1>6

-----------------------------------------------------------------------------
(* How long the chain takes.                                               *)

\* The requests that providers take, added up, and the ones before provider p.
Asked     == CHOOSE h : IsSum(h, Requests, Provider)
Before(p) == Asked[1 .. p - 1]

\* The provider a sequence's fold comes to first: the last one.
LastOf == [s \in SUBSET Provider |->
             IF s = {} THEN {} ELSE CHOOSE p \in s : \A q \in s : p >= q]

\* Providers are numbered, so that every set of them has a last one.
LEMMA LastNames == Names(LastOf, Provider)
  <1>1. ASSUME NEW s \in SUBSET Provider, s # {}
        PROVE  LastOf[s] \in s
    <2>1. s \in SUBSET Nat /\ Len(Requests) \in Nat /\ \A p \in s : p <= Len(Requests)
      BY <1>1, ProviderIs
    <2>2. \E p \in s : \A q \in s : p >= q
      BY <1>1, <2>1, Greatest
    <2>3. LastOf[s] = CHOOSE p \in s : \A q \in s : p >= q
      BY <1>1 DEF LastOf
    <2>4. QED BY <2>2, <2>3
  <1>2. LastOf \in [SUBSET Provider -> Provider \cup {{}}]
    BY <1>1 DEF LastOf
  <1>3. QED
    BY <1>1, <1>2 DEF Names

\* LongestFetch is a time-out for each request that any provider takes.
LEMMA AskedIs ==
    /\ IsSum(Asked, Requests, Provider)
    /\ LongestFetch = Timeout * Asked[Provider]
  <1> DEFINE Eq(g) == g = [s \in SUBSET Provider |->
                             IF s = {} THEN 0
                             ELSE LET p == CHOOSE p \in s : \A q \in s : p >= q
                                  IN  g[s \ {p}] + Requests[p]]
  <1>1. IsFiniteSet(Provider) /\ Requests \in [Provider -> Nat]
    <2>1. Len(Requests) \in Nat /\ Provider = 1 .. Len(Requests)
      BY ProviderIs
    <2>2. IsFiniteSet(Provider)
      BY <2>1, FS_Interval
    <2>3. Requests \in [Provider -> Nat]
      <3>1. Requests = [p \in Provider |-> Requests[p]]
        BY PriceAssumption, <2>1
      <3>2. QED BY <3>1, ProviderIs
    <2>4. QED BY <2>2, <2>3
  <1>2. PICK h : /\ IsSum(h, Requests, Provider)
                 /\ Folds(h, Requests, LastOf, Provider)
                 /\ \A g : Folds(g, Requests, LastOf, Provider) => g = h
    BY <1>1, LastNames, FoldIsSum
  <1>3. IsSum(Asked, Requests, Provider)
    BY <1>2, Zenon DEF Asked
  <1>4. SeqX!FoldLeft(LAMBDA n, k : n + k, 0, Requests) = (CHOOSE g : Eq(g))[Provider]
    BY DEF Provider, SeqX!FoldLeft, SeqX!MapThenFoldSet, SetX!Max, SeqX!Max
  <1>5. Eq(h)
    <2>1. ASSUME NEW s \in SUBSET Provider, s # {}
          PROVE  /\ LastOf[s] = CHOOSE p \in s : \A q \in s : p >= q
                 /\ LastOf[s] \in s
                 /\ Requests[LastOf[s]] \in Nat /\ h[s \ {LastOf[s]}] \in Nat
      <3>1. LastOf[s] = CHOOSE p \in s : \A q \in s : p >= q
        BY <2>1 DEF LastOf
      <3>2. LastOf[s] \in s
        BY <2>1, LastNames DEF Names
      <3>3. QED BY <1>1, <1>2, <3>1, <3>2 DEF IsSum
    <2>2. h = [s \in SUBSET Provider |-> h[s]] /\ h[{}] = 0
      BY <1>2 DEF IsSum
    <2>3. ASSUME NEW s \in SUBSET Provider, s # {}
          PROVE  LET p == CHOOSE p \in s : \A q \in s : p >= q
                 IN  h[s] = h[s \ {p}] + Requests[p]
      <3>1. h[s] = Requests[LastOf[s]] + h[s \ {LastOf[s]}]
        BY <1>2, <2>1, <2>3 DEF IsSum
      <3>2. Requests[LastOf[s]] \in Nat /\ h[s \ {LastOf[s]}] \in Nat
        BY <2>1, <2>3
      <3>3. h[s] = h[s \ {LastOf[s]}] + Requests[LastOf[s]]
        BY <3>1, <3>2
      <3>4. QED BY <2>1, <2>3, <3>3
    <2>4. QED BY <2>2, <2>3
  <1>6. ASSUME NEW g, Eq(g)
        PROVE  g[Provider] = h[Provider]
    <2>1. ASSUME NEW k, Eq(k)
          PROVE  /\ k[{}] = 0
                 /\ \A s \in SUBSET Provider :
                       s # {} => k[s] = k[s \ {LastOf[s]}] + Requests[LastOf[s]]
      <3>1. ASSUME NEW s \in SUBSET Provider, s # {}
            PROVE  LastOf[s] = CHOOSE p \in s : \A q \in s : p >= q
        BY <3>1 DEF LastOf
      <3>2. QED BY <2>1, <3>1
    <2> DEFINE B == {s \in SUBSET Provider : g[s] # h[s]}
    <2>2. SUFFICES ASSUME B # {} PROVE FALSE
      OBVIOUS
    <2>3. PICK s \in B : \A p \in s : s \ {p} \notin B
      BY <1>1, <2>2, Smallest
    <2>4. s \in SUBSET Provider /\ g[s] # h[s]
      OBVIOUS
    <2>5. s # {}
      BY <1>5, <1>6, <2>1, <2>4
    <2>6. g[s \ {LastOf[s]}] = h[s \ {LastOf[s]}]
      BY <2>3, <2>4, <2>5, LastNames DEF Names
    <2>7. g[s] = g[s \ {LastOf[s]}] + Requests[LastOf[s]]
      BY <1>6, <2>1, <2>4, <2>5
    <2>8. h[s] = h[s \ {LastOf[s]}] + Requests[LastOf[s]]
      BY <1>5, <2>1, <2>4, <2>5
    <2>9. QED BY <2>4, <2>6, <2>7, <2>8
  <1> HIDE DEF Eq
  <1>7. (CHOOSE g : Eq(g))[Provider] = h[Provider]
    <2>1. Eq(CHOOSE g : Eq(g))
      BY <1>5, Zenon
    <2>2. QED BY <1>6, <2>1
  <1>8. h[Provider] = Asked[Provider]
    <2>1. SameOn(Requests, Requests, Provider) /\ Provider \in SUBSET Provider
      BY DEF SameOn
    <2>2. QED BY <1>1, <1>2, <1>3, <2>1, SumsAgree
  <1>9. LongestFetch = Timeout * SeqX!FoldLeft(LAMBDA n, k : n + k, 0, Requests)
    BY DEF LongestFetch
  <1>10. QED
    BY <1>3, <1>4, <1>7, <1>8, <1>9

\* What is asked before each provider, and that no part of the chain is longer
\* than all of it.
LEMMA BeforeIs ==
    /\ \A p \in 1 .. Len(Requests) + 1 : Before(p) \in Nat
    /\ Before(1) = 0
    /\ \A p \in Provider : Before(p + 1) = Before(p) + Requests[p]
    /\ \A p \in 1 .. Len(Requests) + 1 : Before(p) <= Before(Len(Requests) + 1)
    /\ LongestFetch = Timeout * Before(Len(Requests) + 1)
  <1> DEFINE n == Len(Requests)
  <1>1. n \in Nat /\ Provider = 1 .. n
    BY ProviderIs
  <1>2. IsSum(Asked, Requests, Provider)
    BY AskedIs
  <1>3. ASSUME NEW p \in 1 .. n + 1
        PROVE  1 .. p - 1 \in SUBSET Provider /\ Before(p) \in Nat
    <2>1. 1 .. p - 1 \in SUBSET Provider
      BY <1>1
    <2>2. QED BY <1>2, <2>1 DEF IsSum, Before
  <1>4. Before(1) = 0
    <2>1. 1 .. 1 - 1 = {}
      OBVIOUS
    <2>2. QED BY <1>2, <2>1 DEF IsSum, Before
  <1>5. ASSUME NEW p \in Provider
        PROVE  Before(p + 1) = Before(p) + Requests[p]
    <2>1. /\ p \in 1 .. n /\ p \in 1 .. n + 1 /\ p + 1 \in 1 .. n + 1 /\ p + 1 - 1 = p
      BY <1>1
    <2>2. p \in 1 .. p /\ (1 .. p) \ {p} = 1 .. p - 1 /\ 1 .. p \in SUBSET Provider
      BY <1>1, <2>1
    <2>3. Asked[1 .. p] = Requests[p] + Asked[1 .. p - 1]
      <3>1. \A x \in 1 .. p : Asked[1 .. p] = Requests[x] + Asked[(1 .. p) \ {x}]
        BY <1>2, <2>2 DEF IsSum
      <3>2. QED BY <2>2, <3>1
    <2>4. Requests[p] \in Nat /\ Before(p) \in Nat
      BY <1>3, <2>1, ProviderIs
    <2>5. Before(p + 1) = Asked[1 .. p]
      BY <2>1 DEF Before
    <2>6. QED BY <2>3, <2>4, <2>5 DEF Before
  <1>6. ASSUME NEW p \in 1 .. n + 1
        PROVE  Before(p) <= Before(n + 1)
    <2> DEFINE T == {q \in 1 .. n + 1 : Before(q) > Before(n + 1)}
    <2>1. SUFFICES ASSUME p \in T PROVE FALSE
      BY <1>1, <1>3
    <2>2. PICK q \in T : \A r \in T : q >= r
      <3>1. T \in SUBSET Nat /\ n + 1 \in Nat /\ \A x \in T : x <= n + 1
        BY <1>1
      <3> HIDE DEF T
      <3>2. QED BY <2>1, <3>1, Greatest
    <2>3. q \in 1 .. n + 1 /\ Before(q) > Before(n + 1)
      OBVIOUS
    <2>4. q # n + 1
      BY <1>1, <1>3, <2>3
    <2>5. q \in Provider /\ q + 1 \in 1 .. n + 1 /\ ~(q >= q + 1)
      BY <1>1, <2>3, <2>4
    <2>6. Before(q + 1) = Before(q) + Requests[q] /\ Requests[q] \in Nat
      BY <1>5, <2>5, ProviderIs
    <2>7. Before(q) \in Nat /\ Before(n + 1) \in Nat
      BY <1>1, <1>3, <2>3
    <2>8. q + 1 \in T
      BY <2>3, <2>5, <2>6, <2>7
    <2>9. QED BY <2>2, <2>5, <2>8
  <1>7. LongestFetch = Timeout * Before(n + 1)
    <2>1. n + 1 - 1 = n
      BY <1>1
    <2>2. Before(n + 1) = Asked[Provider]
      BY <1>1, <2>1 DEF Before
    <2>3. QED BY <2>2, AskedIs
  <1>8. QED
    BY <1>3, <1>4, <1>5, <1>6, <1>7

-----------------------------------------------------------------------------
(* The inductive invariant.                                                *)

\* A reader has waited for the answers to the requests it has sent, and holds
\* a snapshot of the age that its provider or the cache may give it.
Sound(x) ==
    /\ x \in ReaderRecord
    /\ x.request \in 1 .. Requests[x.provider]
    /\ x.pc = "ask" => x.first <= Timeout * (x.request - 1) + x.wait
    /\ x.pc \in {"cache", "lkg"} =>
          /\ x.snap \in Snapshot /\ ~x.snap.stale
          /\ x.snap.fetched = 0 /\ x.snap.quote <= Limit
    /\ x.pc = "use" =>
          /\ x.snap \in Snapshot
          /\ ~x.snap.stale => /\ x.snap.fetched < Ttl
                              /\ x.snap.quote <= x.snap.fetched + Limit

\* A cached price was quoted no longer before it was stored than that, and is not
\* a last known good one.
CacheSound ==
    cache # NULL => cache.quote <= cache.fetched + Limit /\ ~cache.stale

\* So is the last known good price.
LkgSound == lkg # NULL => lkg.quote <= lkg.fetched + Limit

Typed ==
    /\ up \subseteq Provider
    /\ cache \in Snapshot \cup {NULL}
    /\ lkg \in Snapshot \cup {NULL}
    /\ rd \in [Reader -> ReaderRecord]
    /\ nap \in 0 .. Interval
    /\ seen \in Age /\ live \in Age
    /\ calm \in [Provider -> Age]

IInv ==
    /\ Typed
    /\ \A r \in Reader : Sound(rd[r])
    /\ CacheSound
    /\ LkgSound

\* A snapshot is never None, and its ages are ages.
LEMMA SnapshotIs ==
    ASSUME NEW snap \in Snapshot
    PROVE  /\ snap # NULL /\ snap.quote \in Age /\ snap.fetched \in Age
           /\ snap.quote \in Nat /\ snap.fetched \in Nat /\ snap.stale \in BOOLEAN
  BY LimitIs, PriceAssumption DEF Snapshot, Age

\* No time is an age.
LEMMA ZeroIs == 0 \in Age
  BY LimitIs DEF Age

\* The fields of a reader.
LEMMA ReaderIs ==
    ASSUME NEW x \in ReaderRecord
    PROVE  /\ x.pc \in {"idle", "ask", "cache", "lkg", "use", "error"}
           /\ x.provider \in Provider /\ x.request \in Nat
           /\ x.wait \in 0 .. Timeout /\ x.first \in Age
           /\ x.snap \in Snapshot \cup {NULL}
  BY DEF ReaderRecord

\* A reader that rests, and one that has failed, are in order.
LEMMA IdleSound ==
    Sound(Idle) /\ Sound([Idle EXCEPT !.pc = "error"])
  <1>1. 1 \in Provider /\ 1 \in 1 .. Requests[1]
    BY ProviderIs
  <1>2. 0 \in Age /\ 0 \in 0 .. Timeout
    BY LimitIs, PriceAssumption DEF Age
  <1>3. Idle \in ReaderRecord
    BY <1>1, <1>2 DEF Idle, ReaderRecord
  <1>4. Sound(Idle)
    BY <1>1, <1>3 DEF Sound, Idle
  <1> DEFINE e == [Idle EXCEPT !.pc = "error"]
  <1>5. /\ e \in ReaderRecord /\ e.pc = "error" /\ e.request = 1 /\ e.provider = 1
    BY <1>3 DEF Idle, ReaderRecord
  <1> HIDE DEF e
  <1>6. Sound(e)
    BY <1>1, <1>5 DEF Sound
  <1>7. QED BY <1>4, <1>6 DEF e

\* So is one that begins to ask a provider.
LEMMA AskSound ==
    ASSUME NEW p \in Provider
    PROVE  /\ Sound([Idle EXCEPT !.pc = "ask", !.provider = p])
           /\ Sound([Idle EXCEPT !.pc = "ask"])
           /\ [Idle EXCEPT !.pc = "ask", !.provider = p].pc = "ask"
           /\ [Idle EXCEPT !.pc = "ask"].pc = "ask"
  <1>1. /\ 1 \in 1 .. Requests[p] /\ 1 \in Provider /\ 1 \in 1 .. Requests[1]
        /\ Timeout * (1 - 1) + 0 = 0
    BY ProviderIs, PriceAssumption
  <1>2. Idle \in ReaderRecord
    BY IdleSound DEF Sound
  <1> DEFINE a == [Idle EXCEPT !.pc = "ask", !.provider = p]
             b == [Idle EXCEPT !.pc = "ask"]
  <1>3. /\ a \in ReaderRecord /\ a.pc = "ask" /\ a.provider = p /\ a.request = 1
        /\ a.first = 0 /\ a.wait = 0
        /\ b \in ReaderRecord /\ b.pc = "ask" /\ b.provider = 1 /\ b.request = 1
        /\ b.first = 0 /\ b.wait = 0
    BY <1>2 DEF Idle, ReaderRecord
  <1> HIDE DEF a, b
  <1>4. Sound(a) /\ Sound(b)
    BY <1>1, <1>3 DEF Sound
  <1>5. QED BY <1>3, <1>4 DEF a, b

\* So is one that goes on with a snapshot, fresh enough or marked as stale.
LEMMA UseSound ==
    ASSUME NEW snap \in Snapshot,
           snap.stale \/ (snap.fetched < Ttl /\ snap.quote <= snap.fetched + Limit)
    PROVE  /\ Sound([Idle EXCEPT !.pc = "use", !.snap = snap])
           /\ [Idle EXCEPT !.pc = "use", !.snap = snap].pc = "use"
           /\ [Idle EXCEPT !.pc = "use", !.snap = snap].snap = snap
  <1>1. 1 \in Provider /\ 1 \in 1 .. Requests[1]
    BY ProviderIs
  <1>2. Idle \in ReaderRecord
    BY IdleSound DEF Sound
  <1> DEFINE a == [Idle EXCEPT !.pc = "use", !.snap = snap]
  <1>3. /\ a \in ReaderRecord /\ a.pc = "use" /\ a.provider = 1 /\ a.request = 1
        /\ a.snap = snap
    BY <1>2 DEF Idle, ReaderRecord
  <1> HIDE DEF a
  <1>4. Sound(a)
    BY <1>1, <1>3 DEF Sound
  <1>5. QED BY <1>3, <1>4 DEF a

\* A step of one reader that leaves it in order.
LEMMA ReaderKept ==
    ASSUME IInv, NEW r \in Reader, NEW x, Sound(x), rd' = [rd EXCEPT ![r] = x]
    PROVE  /\ rd' \in [Reader -> ReaderRecord] /\ rd'[r] = x
           /\ \A q \in Reader : q # r => rd'[q] = rd[q]
           /\ \A q \in Reader : Sound(rd'[q])
  <1>1. /\ rd' \in [Reader -> ReaderRecord] /\ rd'[r] = x
        /\ \A q \in Reader : q # r => rd'[q] = rd[q]
    BY DEF IInv, Typed, Sound
  <1>2. QED BY <1>1 DEF IInv

\* A step of readers alone keeps the invariant.
LEMMA ReadersKeep ==
    ASSUME IInv, rd' \in [Reader -> ReaderRecord], \A r \in Reader : Sound(rd'[r]),
           up' = up, cache' = cache, lkg' = lkg, live' \in Age,
           nap' \in 0 .. Interval, seen' \in Age, calm' = calm
    PROVE  IInv'
  BY DEF IInv, Typed, CacheSound, LkgSound

-----------------------------------------------------------------------------
(* Every step keeps it.                                                    *)

\* Fetch: the cache fills the reader, or it begins to ask.
LEMMA FetchKeeps ==
    ASSUME IInv, NEW r \in Reader, Fetch(r)
    PROVE  IInv'
  <1>1. PICK x : Sound(x) /\ rd' = [rd EXCEPT ![r] = x]
    <2>1. CASE cache # NULL /\ cache.fetched < Ttl
      <3>1. cache \in Snapshot /\ cache.quote <= cache.fetched + Limit
        BY <2>1 DEF IInv, Typed, CacheSound
      <3>2. Sound([Idle EXCEPT !.pc = "use", !.snap = cache])
        BY <2>1, <3>1, UseSound
      <3>3. rd' = [rd EXCEPT ![r] = [Idle EXCEPT !.pc = "use", !.snap = cache]]
        BY <2>1 DEF Fetch
      <3>4. QED BY <3>2, <3>3
    <2>2. CASE ~(cache # NULL /\ cache.fetched < Ttl)
      <3>1. rd' = [rd EXCEPT ![r] = [Idle EXCEPT !.pc = "ask"]]
        BY <2>2 DEF Fetch
      <3>2. Sound([Idle EXCEPT !.pc = "ask"])
        BY AskSound, ProviderIs
      <3>3. QED BY <3>1, <3>2
    <2>3. QED BY <2>1, <2>2
  <1>2. rd' \in [Reader -> ReaderRecord] /\ \A q \in Reader : Sound(rd'[q])
    BY <1>1, ReaderKept
  <1>3. QED
    BY <1>2, ReadersKeep DEF Fetch, IInv, Typed

\* Answer: what a provider's answers add up to.  The first is as old as the
\* requests after it took, each less than the time-out.
LEMMA AnswerKeeps ==
    ASSUME IInv, NEW r \in Reader, Answer(r)
    PROVE  IInv'
  <1> DEFINE b == rd[r]
  <1>1. /\ Sound(b) /\ b \in ReaderRecord /\ b.pc = "ask"
        /\ b.provider \in Provider /\ b.request \in 1 .. Requests[b.provider]
        /\ b.wait \in 0 .. Timeout /\ b.first \in Age
        /\ b.first <= Timeout * (b.request - 1) + b.wait
    BY DEF IInv, Answer, Sound, ReaderRecord
  <1>2. PICK age \in 0 .. b.wait :
          rd' = [rd EXCEPT ![r] =
            IF b.request < Requests[b.provider]
            THEN [b EXCEPT !.request = b.request + 1, !.wait = 0,
                    !.first = IF b.request = 1 THEN age ELSE b.first]
            ELSE [Idle EXCEPT !.pc = "cache",
                    !.snap = [quote |-> IF b.request = 1 THEN age ELSE b.first,
                              fetched |-> 0, stale |-> FALSE]]]
    BY DEF Answer
  <1> DEFINE first == IF b.request = 1 THEN age ELSE b.first
  <1>3. /\ b.request < Requests[b.provider] =>
             rd' = [rd EXCEPT ![r] =
               [b EXCEPT !.request = b.request + 1, !.wait = 0, !.first = first]]
        /\ ~(b.request < Requests[b.provider]) =>
             rd' = [rd EXCEPT ![r] =
               [Idle EXCEPT !.pc = "cache",
                  !.snap = [quote |-> first, fetched |-> 0, stale |-> FALSE]]]
    BY <1>2
  <1> HIDE DEF b
  <1>4. /\ Timeout \in Nat /\ Requests[b.provider] \in Nat /\ b.request \in Nat
        /\ Requests[b.provider] <= MostRequests /\ b.request # 0
    BY <1>1, ProviderIs, MostRequestsIs, PriceAssumption
  <1>5. Timeout * (b.request - 1) \in Nat
    <2>1. b.request - 1 \in Nat
      BY <1>4
    <2>2. QED BY <1>4, <2>1
  <1>6. Timeout * (b.request - 1) + Timeout <= Limit
    <2>1. b.request <= MostRequests
      BY <1>1, <1>4, MostRequestsIs
    <2>2. QED BY <1>4, <2>1, LimitIs
  <1>7. first \in Age /\ first <= Timeout * (b.request - 1) + b.wait
    <2>1. CASE b.request = 1
      <3>1. first = age /\ age \in Nat /\ age <= b.wait
        BY <1>1, <1>2, <2>1
      <3>2. age <= Cap
        BY <1>1, <1>4, <3>1, LimitIs
      <3>3. QED BY <1>1, <1>4, <1>5, <3>1, <3>2, LimitIs DEF Age
    <2>2. CASE b.request # 1
      BY <1>1, <1>2, <2>2
    <2>3. QED BY <2>1, <2>2
  <1> HIDE DEF first
  <1>8. first <= Limit /\ first \in Nat
    BY <1>1, <1>4, <1>5, <1>6, <1>7, LimitIs DEF Age
  <1>9. PICK x : Sound(x) /\ rd' = [rd EXCEPT ![r] = x]
    <2>1. CASE b.request < Requests[b.provider]
      <3> DEFINE a == [b EXCEPT !.request = b.request + 1, !.wait = 0, !.first = first]
      <3>1. /\ a \in ReaderRecord /\ a.pc = "ask" /\ a.provider = b.provider
            /\ a.request = b.request + 1 /\ a.wait = 0 /\ a.first = first
        <4>1. 0 \in 0 .. Timeout /\ b.request + 1 \in Nat
          BY <1>4
        <4>2. QED BY <1>1, <1>7, <4>1 DEF ReaderRecord
      <3>2. rd' = [rd EXCEPT ![r] = a]
        BY <1>3, <2>1
      <3> HIDE DEF a
      <3>3. a.request \in 1 .. Requests[a.provider]
        BY <1>4, <2>1, <3>1
      <3>4. a.first <= Timeout * (a.request - 1) + a.wait
        <4>1. a.request - 1 = (b.request - 1) + 1
          BY <1>4, <3>1
        <4>2. Timeout * (a.request - 1) = Timeout * (b.request - 1) + Timeout
          BY <1>4, <4>1
        <4>3. b.wait \in Nat /\ b.wait <= Timeout
          BY <1>1, <1>4
        <4>4. QED BY <1>4, <1>5, <1>7, <1>8, <3>1, <4>2, <4>3
      <3>5. Sound(a)
        BY <3>1, <3>3, <3>4 DEF Sound
      <3>6. QED BY <3>2, <3>5
    <2>2. CASE ~(b.request < Requests[b.provider])
      <3> DEFINE s == [quote |-> first, fetched |-> 0, stale |-> FALSE]
                 a == [Idle EXCEPT !.pc = "cache", !.snap = s]
      <3>1. rd' = [rd EXCEPT ![r] = a]
        BY <1>3, <2>2
      <3>2. /\ s \in Snapshot /\ ~s.stale /\ s.fetched = 0 /\ s.quote <= Limit
        BY <1>7, <1>8, LimitIs DEF Snapshot, Age
      <3> HIDE DEF s
      <3>3. /\ a \in ReaderRecord /\ a.pc = "cache" /\ a.snap = s
            /\ a.request = 1 /\ a.provider = 1
        <4>1. Idle \in ReaderRecord
          BY IdleSound DEF Sound
        <4>2. QED BY <3>2, <4>1 DEF Idle, ReaderRecord
      <3> HIDE DEF a
      <3>4. a.request \in 1 .. Requests[a.provider]
        BY <3>3, ProviderIs
      <3>5. Sound(a)
        BY <3>2, <3>3, <3>4 DEF Sound
      <3>6. QED BY <3>1, <3>5
    <2>3. QED BY <2>1, <2>2
  <1>10. rd' \in [Reader -> ReaderRecord] /\ \A q \in Reader : Sound(rd'[q])
    BY <1>9, ReaderKept
  <1>11. QED
    BY <1>10, ReadersKeep DEF Answer, IInv, Typed

\* An answered reader asks on, or has a snapshot to store.
LEMMA AnswerGoesOn ==
    ASSUME IInv, NEW r \in Reader, Answer(r)
    PROVE  /\ rd'[r].pc \in {"ask", "cache"}
           /\ rd'[r].pc = "ask" =>
                 /\ rd'[r].provider = rd[r].provider
                 /\ rd'[r].request = rd[r].request + 1 /\ rd'[r].wait = 0
  <1> DEFINE b == rd[r]
  <1>1. b \in ReaderRecord /\ b.pc = "ask"
    BY DEF IInv, Typed, Answer
  <1>2. PICK age \in 0 .. b.wait :
          rd' = [rd EXCEPT ![r] =
            IF b.request < Requests[b.provider]
            THEN [b EXCEPT !.request = b.request + 1, !.wait = 0,
                    !.first = IF b.request = 1 THEN age ELSE b.first]
            ELSE [Idle EXCEPT !.pc = "cache",
                    !.snap = [quote |-> IF b.request = 1 THEN age ELSE b.first,
                              fetched |-> 0, stale |-> FALSE]]]
    BY DEF Answer
  <1>3. rd'[r] =
            IF b.request < Requests[b.provider]
            THEN [b EXCEPT !.request = b.request + 1, !.wait = 0,
                    !.first = IF b.request = 1 THEN age ELSE b.first]
            ELSE [Idle EXCEPT !.pc = "cache",
                    !.snap = [quote |-> IF b.request = 1 THEN age ELSE b.first,
                              fetched |-> 0, stale |-> FALSE]]
    BY <1>2 DEF IInv, Typed
  <1> HIDE DEF b
  <1>4. CASE b.request < Requests[b.provider]
    BY <1>1, <1>3, <1>4 DEF ReaderRecord, b
  <1>5. CASE ~(b.request < Requests[b.provider])
    BY <1>3, <1>5 DEF Idle
  <1>6. QED BY <1>4, <1>5

\* lkg_snapshot: the reader goes on with a stale price, or with none.
LEMMA LkgSnapshotIs ==
    ASSUME IInv
    PROVE  /\ Sound(LkgSnapshot)
           /\ LkgSnapshot.pc \in {"use", "error"}
           /\ LkgSnapshot.pc = "error" => lkg = NULL \/ lkg.fetched > MaxLkg
           /\ LkgSnapshot.pc = "use" =>
                 LkgSnapshot.snap.stale /\ LkgSnapshot.snap.quote <= LkgAge
  <1>1. CASE lkg # NULL /\ lkg.fetched <= MaxLkg
    <2> DEFINE s == [lkg EXCEPT !.stale = TRUE]
    <2>1. lkg \in Snapshot /\ lkg.quote <= lkg.fetched + Limit
      BY <1>1 DEF IInv, Typed, LkgSound
    <2>2. s \in Snapshot /\ s.stale /\ s.quote = lkg.quote
      BY <2>1 DEF Snapshot
    <2>3. LkgSnapshot = [Idle EXCEPT !.pc = "use", !.snap = s]
      BY <1>1 DEF LkgSnapshot
    <2> HIDE DEF s
    <2>4. Sound(LkgSnapshot) /\ LkgSnapshot.pc = "use" /\ LkgSnapshot.snap = s
      BY <2>2, <2>3, UseSound
    <2>5. lkg.quote <= LkgAge
      <3>1. /\ lkg.quote \in Nat /\ lkg.fetched \in Nat /\ Limit \in Nat
            /\ MaxLkg \in Nat /\ LkgAge = MaxLkg + Limit
        BY <2>1, SnapshotIs, LimitIs, PriceAssumption
      <3>2. QED BY <1>1, <2>1, <3>1
    <2>6. QED BY <2>2, <2>4, <2>5
  <1>2. CASE ~(lkg # NULL /\ lkg.fetched <= MaxLkg)
    <2>1. LkgSnapshot = [Idle EXCEPT !.pc = "error"]
      BY <1>2 DEF LkgSnapshot
    <2>2. LkgSnapshot.pc = "error"
      BY <2>1 DEF Idle
    <2>3. lkg = NULL \/ lkg.fetched > MaxLkg
      <3>1. CASE lkg # NULL
        <4>1. lkg \in Snapshot /\ ~(lkg.fetched <= MaxLkg)
          BY <1>2, <3>1 DEF IInv, Typed
        <4>2. lkg.fetched \in Nat
          BY <4>1, SnapshotIs
        <4>3. QED BY <4>1, <4>2, PriceAssumption
      <3>2. QED BY <3>1
    <2>4. QED BY <2>1, <2>2, <2>3, IdleSound
  <1>3. QED BY <1>1, <1>2

\* fetch_fresh: the next provider, or the last known good price.
LEMMA AfterFailureIs ==
    ASSUME IInv, NEW r \in Reader
    PROVE  /\ Sound(AfterFailure(r))
           /\ AfterFailure(r).pc \in {"ask", "use", "error"}
           /\ AfterFailure(r).pc = "error" => lkg = NULL \/ lkg.fetched > MaxLkg
           /\ AfterFailure(r).pc = "use" =>
                 AfterFailure(r).snap.stale /\ AfterFailure(r).snap.quote <= LkgAge
  <1>1. CASE rd[r].provider < Len(Requests)
    <2>1. rd[r].provider \in Provider
      BY DEF IInv, Typed, ReaderRecord
    <2>2. rd[r].provider + 1 \in Provider
      BY <1>1, <2>1, ProviderIs
    <2>3. AfterFailure(r) = [Idle EXCEPT !.pc = "ask", !.provider = rd[r].provider + 1]
      BY <1>1 DEF AfterFailure
    <2>4. Sound(AfterFailure(r)) /\ AfterFailure(r).pc = "ask"
      BY <2>2, <2>3, AskSound
    <2>5. QED BY <2>4
  <1>2. CASE ~(rd[r].provider < Len(Requests))
    <2>1. AfterFailure(r) = LkgSnapshot
      BY <1>2 DEF AfterFailure
    <2>2. QED BY <2>1, LkgSnapshotIs
  <1>3. QED BY <1>1, <1>2

\* Fails.
LEMMA FailsKeeps ==
    ASSUME IInv, NEW r \in Reader, Fails(r)
    PROVE  IInv' /\ rd'[r] = AfterFailure(r)
  <1>1. Sound(AfterFailure(r)) /\ rd' = [rd EXCEPT ![r] = AfterFailure(r)]
    BY AfterFailureIs DEF Fails
  <1>2. /\ rd' \in [Reader -> ReaderRecord] /\ \A q \in Reader : Sound(rd'[q])
        /\ rd'[r] = AfterFailure(r)
    BY <1>1, ReaderKept
  <1>3. QED
    BY <1>2, ReadersKeep DEF Fails, IInv, Typed

\* StoreCache: what is stored is what was fetched in this tick.
LEMMA StoreCacheKeeps ==
    ASSUME IInv, NEW r \in Reader, StoreCache(r)
    PROVE  IInv' /\ rd[r].pc # "ask"
  <1> DEFINE a == [rd[r] EXCEPT !.pc = "lkg"]
  <1>1. /\ Sound(rd[r]) /\ rd[r] \in ReaderRecord /\ rd[r].pc = "cache"
        /\ rd[r].snap \in Snapshot /\ ~rd[r].snap.stale
        /\ rd[r].snap.fetched = 0 /\ rd[r].snap.quote <= Limit
        /\ rd[r].request \in 1 .. Requests[rd[r].provider]
    BY DEF IInv, StoreCache, Sound
  <1>2. /\ a \in ReaderRecord /\ a.pc = "lkg" /\ a.snap = rd[r].snap
        /\ a.request = rd[r].request /\ a.provider = rd[r].provider
    BY <1>1 DEF ReaderRecord
  <1>3. rd' = [rd EXCEPT ![r] = a]
    BY DEF StoreCache, IInv, Typed
  <1> HIDE DEF a
  <1>4. Sound(a)
    BY <1>1, <1>2 DEF Sound
  <1>5. rd' \in [Reader -> ReaderRecord] /\ \A q \in Reader : Sound(rd'[q])
    BY <1>3, <1>4, ReaderKept
  <1>6. /\ cache' = rd[r].snap
        /\ up' = up /\ lkg' = lkg /\ nap' = nap /\ seen' = seen /\ live' = live
        /\ calm' = calm
    BY DEF StoreCache
  <1>7. CacheSound'
    <2>1. cache'.quote <= cache'.fetched + Limit /\ ~cache'.stale
      BY <1>1, <1>6, LimitIs
    <2>2. QED BY <2>1 DEF CacheSound
  <1>8. Typed' /\ LkgSound'
    BY <1>1, <1>5, <1>6 DEF IInv, Typed, LkgSound
  <1>9. QED
    BY <1>1, <1>5, <1>7, <1>8 DEF IInv

\* StoreLkg: it becomes the last known good price.
LEMMA StoreLkgKeeps ==
    ASSUME IInv, NEW r \in Reader, StoreLkg(r)
    PROVE  IInv' /\ rd[r].pc # "ask"
  <1> DEFINE a == [rd[r] EXCEPT !.pc = "use"]
  <1>1. /\ Sound(rd[r]) /\ rd[r] \in ReaderRecord /\ rd[r].pc = "lkg"
        /\ rd[r].snap \in Snapshot /\ ~rd[r].snap.stale
        /\ rd[r].snap.fetched = 0 /\ rd[r].snap.quote <= Limit
        /\ rd[r].request \in 1 .. Requests[rd[r].provider]
    BY DEF IInv, StoreLkg, Sound
  <1>2. /\ a \in ReaderRecord /\ a.pc = "use" /\ a.snap = rd[r].snap
        /\ a.request = rd[r].request /\ a.provider = rd[r].provider
    BY <1>1 DEF ReaderRecord
  <1>3. rd' = [rd EXCEPT ![r] = a]
    BY DEF StoreLkg, IInv, Typed
  <1> HIDE DEF a
  <1>4. Sound(a)
    <2>1. a.snap.fetched < Ttl /\ a.snap.quote <= a.snap.fetched + Limit
      BY <1>1, <1>2, LimitIs, PriceAssumption
    <2>2. QED BY <1>1, <1>2, <2>1 DEF Sound
  <1>5. rd' \in [Reader -> ReaderRecord] /\ \A q \in Reader : Sound(rd'[q])
    BY <1>3, <1>4, ReaderKept
  <1>6. /\ lkg' = rd[r].snap /\ live' = live
        /\ up' = up /\ cache' = cache /\ nap' = nap /\ seen' = seen /\ calm' = calm
    BY DEF StoreLkg
  <1>7. LkgSound'
    <2>1. lkg'.quote <= lkg'.fetched + Limit
      BY <1>1, <1>6, LimitIs
    <2>2. QED BY <2>1 DEF LkgSound
  <1>8. Typed' /\ CacheSound'
    BY <1>1, <1>5, <1>6 DEF IInv, Typed, CacheSound
  <1>9. QED
    BY <1>1, <1>5, <1>7, <1>8 DEF IInv

\* Respond, Cancel: a handler is done, or dropped where it waits.
LEMMA RestKeeps ==
    ASSUME IInv, NEW r \in Reader, Respond(r) \/ Cancel(r)
    PROVE  IInv' /\ rd'[r].pc = "idle"
  <1>1. Sound(Idle) /\ rd' = [rd EXCEPT ![r] = Idle]
    BY IdleSound DEF Respond, Cancel
  <1>2. /\ rd' \in [Reader -> ReaderRecord] /\ \A q \in Reader : Sound(rd'[q])
        /\ rd'[r] = Idle
    BY <1>1, ReaderKept
  <1>3. live' \in Age
    BY ZeroIs DEF Respond, Cancel, GoesOn, IInv, Typed
  <1>4. QED
    BY <1>2, <1>3, ReadersKeep DEF Respond, Cancel, IInv, Typed, Idle

\* MonitorTick: triggers are evaluated with the monitor's price, or not at all.
LEMMA MonitorTickKeeps ==
    ASSUME IInv, MonitorTick
    PROVE  IInv' /\ rd'[Monitor].pc = "idle" /\ rd' = [rd EXCEPT ![Monitor] = Idle]
  <1>1. Monitor \in Reader /\ Sound(Idle) /\ rd' = [rd EXCEPT ![Monitor] = Idle]
    BY IdleSound, PriceAssumption DEF MonitorTick
  <1>2. /\ rd' \in [Reader -> ReaderRecord] /\ \A q \in Reader : Sound(rd'[q])
        /\ rd'[Monitor] = Idle
    BY <1>1, ReaderKept
  <1>3. seen' \in Age
    <2>1. CASE Evaluates(Monitor)
      <3>1. rd[Monitor].snap \in Snapshot
        BY <1>1, <2>1 DEF Evaluates, IInv, Sound
      <3>2. seen' = rd[Monitor].snap.quote
        BY <2>1 DEF MonitorTick
      <3>3. QED BY <3>1, <3>2, SnapshotIs
    <2>2. CASE ~Evaluates(Monitor)
      BY <2>2 DEF MonitorTick, IInv, Typed
    <2>3. QED BY <2>1, <2>2
  <1>4. nap' \in 0 .. Interval /\ live' \in Age
    BY ZeroIs, PriceAssumption DEF MonitorTick, GoesOn, IInv, Typed
  <1>5. QED
    BY <1>1, <1>2, <1>3, <1>4, ReadersKeep DEF MonitorTick, IInv, Typed, Idle

\* Toggle: a provider comes or goes.
LEMMA ToggleKeeps ==
    ASSUME IInv, NEW p \in Provider, Toggle(p)
    PROVE  IInv' /\ rd' = rd
  <1>1. up' \subseteq Provider
    BY DEF Toggle, IInv, Typed
  <1>2. calm' \in [Provider -> Age]
    <2>1. 0 \in Age
      BY LimitIs DEF Age
    <2>2. QED BY <2>1 DEF Toggle, IInv, Typed
  <1>3. QED
    BY <1>1, <1>2 DEF Toggle, IInv, Typed, CacheSound, LkgSound

\* An age stays one as it grows.
LEMMA OlderIs ==
    ASSUME NEW k \in Age
    PROVE  Older(k) \in Age /\ k <= Older(k) /\ Older(k) <= k + 1
  BY LimitIs DEF Older, Age

\* The limit on what a quote may be older than its snapshot keeps as both grow.
LEMMA OlderSnapIs ==
    ASSUME NEW snap \in Snapshot
    PROVE  /\ OlderSnap(snap) \in Snapshot
           /\ OlderSnap(snap).fetched = Older(snap.fetched)
           /\ OlderSnap(snap).stale = snap.stale
           /\ snap.quote <= snap.fetched + Limit =>
                 OlderSnap(snap).quote <= OlderSnap(snap).fetched + Limit
  <1>1. /\ snap # NULL /\ snap.quote \in Age /\ snap.fetched \in Age
        /\ snap.quote \in Nat /\ snap.fetched \in Nat
    BY SnapshotIs
  <1> DEFINE q == Older(snap.quote)
             f == Older(snap.fetched)
             o == [snap EXCEPT !.quote = q, !.fetched = f]
  <1>2. OlderSnap(snap) = o
    BY <1>1 DEF OlderSnap
  <1>3. q \in Age /\ f \in Age
    BY <1>1, OlderIs
  <1>4. snap.quote <= snap.fetched + Limit => q <= f + Limit
    BY <1>1, LimitIs DEF Older, Age
  <1> HIDE DEF q, f
  <1>5. o \in Snapshot /\ o.quote = q /\ o.fetched = f /\ o.stale = snap.stale
    BY <1>3 DEF Snapshot
  <1> HIDE DEF o
  <1>6. QED
    BY <1>2, <1>4, <1>5 DEF f

\* Elapse, for a reader: the outstanding request is a tick older, and so is the
\* first answer, if there is one.
LEMMA ElapseReader ==
    ASSUME IInv, Elapse, NEW r \in Reader
    PROVE  Sound(rd'[r]) /\ rd'[r].pc = rd[r].pc
  <1> DEFINE b == rd[r]
             w == Older(b.first)
             a == [b EXCEPT !.wait = b.wait + 1,
                            !.first = IF b.request > 1 THEN w ELSE b.first]
  <1>1. Sound(b) /\ b \in ReaderRecord /\ b.pc \in {"idle", "ask"} /\ b.wait < Timeout
    BY DEF IInv, Sound, Elapse, Waiting
  <1>2. rd'[r] = IF b.pc = "ask" THEN a ELSE b
    BY DEF Elapse
  <1>3. CASE b.pc # "ask"
    BY <1>1, <1>2, <1>3
  <1>4. CASE b.pc = "ask"
    <2>1. rd'[r] = a
      BY <1>2, <1>4
    <2> HIDE DEF b
    <2>2. /\ b.wait \in 0 .. Timeout /\ b.first \in Age /\ b.provider \in Provider
          /\ b.request \in Nat /\ b.request \in 1 .. Requests[b.provider]
          /\ b.first <= Timeout * (b.request - 1) + b.wait
      BY <1>1, <1>4 DEF Sound, ReaderRecord
    <2>3. w \in Age /\ w <= b.first + 1 /\ b.first <= w
      BY <2>2, OlderIs
    <2> HIDE DEF w
    <2> DEFINE f == IF b.request > 1 THEN w ELSE b.first
    <2>4. f \in Age /\ f <= b.first + 1
      BY <2>2, <2>3, LimitIs DEF Age
    <2>5. b.wait + 1 \in 0 .. Timeout
      BY <1>1, <2>2, PriceAssumption
    <2> HIDE DEF f
    <2>6. a = [b EXCEPT !.wait = b.wait + 1, !.first = f]
      BY DEF f
    <2> HIDE DEF a
    <2>7. /\ a \in ReaderRecord /\ a.pc = "ask" /\ a.request = b.request
          /\ a.provider = b.provider /\ a.wait = b.wait + 1 /\ a.first = f
      BY <1>1, <1>4, <2>4, <2>5, <2>6 DEF ReaderRecord
    <2>8. a.first <= Timeout * (a.request - 1) + a.wait
      <3>1. b.request - 1 \in Nat /\ Timeout \in Nat
        BY <2>2, PriceAssumption, ProviderIs
      <3>2. Timeout * (b.request - 1) \in Nat
        BY <3>1
      <3>3. f \in Nat /\ b.first \in Nat /\ b.wait \in Nat
        BY <2>2, <2>4, LimitIs, PriceAssumption DEF Age
      <3>4. QED BY <2>2, <2>4, <2>7, <3>2, <3>3
    <2>9. Sound(a)
      BY <2>2, <2>7, <2>8 DEF Sound
    <2>10. QED
      BY <1>4, <2>1, <2>7, <2>9 DEF b
  <1>5. QED BY <1>3, <1>4

\* Elapse: a tick passes for everything at once.
LEMMA ElapseKeeps ==
    ASSUME IInv, Elapse
    PROVE  IInv' /\ \A r \in Reader : rd'[r].pc = rd[r].pc
  <1>1. \A r \in Reader : Sound(rd'[r]) /\ rd'[r].pc = rd[r].pc
    BY ElapseReader
  <1>2. rd' \in [Reader -> ReaderRecord]
    <2>1. \A r \in Reader : rd'[r] \in ReaderRecord
      BY <1>1 DEF Sound
    <2>2. rd' = [r \in Reader |-> rd'[r]]
      BY DEF Elapse
    <2>3. QED BY <2>1, <2>2
  <1>3. cache' \in Snapshot \cup {NULL} /\ CacheSound'
    <2>1. cache' = OlderSnap(cache)
      BY DEF Elapse
    <2>2. CASE cache = NULL
      BY <2>1, <2>2 DEF OlderSnap, CacheSound
    <2>3. CASE cache # NULL
      <3>1. /\ cache \in Snapshot /\ cache.quote <= cache.fetched + Limit
            /\ ~cache.stale
        BY <2>3 DEF IInv, Typed, CacheSound
      <3>2. /\ cache' \in Snapshot /\ cache'.quote <= cache'.fetched + Limit
            /\ ~cache'.stale
        BY <2>1, <3>1, OlderSnapIs
      <3>3. QED BY <3>2 DEF CacheSound
    <2>4. QED BY <2>2, <2>3
  <1>4. lkg' \in Snapshot \cup {NULL} /\ live' \in Age /\ LkgSound'
    <2>1. lkg' = OlderSnap(lkg) /\ live' = Older(live) /\ live \in Age
      BY DEF Elapse, IInv, Typed
    <2>2. live' \in Age
      BY <2>1, OlderIs
    <2>3. CASE lkg = NULL
      BY <2>1, <2>2, <2>3 DEF OlderSnap, LkgSound
    <2>4. CASE lkg # NULL
      <3>1. lkg \in Snapshot /\ lkg.quote <= lkg.fetched + Limit
        BY <2>4 DEF IInv, Typed, LkgSound
      <3>2. lkg' \in Snapshot /\ lkg'.quote <= lkg'.fetched + Limit
        BY <2>1, <3>1, OlderSnapIs
      <3>3. QED BY <2>2, <3>2 DEF LkgSound
    <2>5. QED BY <2>3, <2>4
  <1>5. nap' \in 0 .. Interval
    <2>1. /\ nap' = IF rd[Monitor].pc = "idle" THEN nap + 1 ELSE nap
          /\ rd[Monitor].pc = "idle" => nap < Interval
      BY DEF Elapse
    <2>2. nap \in 0 .. Interval /\ Interval \in Nat
      BY PriceAssumption DEF IInv, Typed
    <2>3. QED BY <2>1, <2>2
  <1>6. seen' \in Age
    BY OlderIs DEF Elapse, IInv, Typed
  <1>7. calm' \in [Provider -> Age]
    <2>1. 0 \in Age
      BY LimitIs DEF Age
    <2>2. \A p \in Provider : Older(calm[p]) \in Age
      BY OlderIs DEF IInv, Typed
    <2>3. QED BY <2>1, <2>2 DEF Elapse
  <1>8. up' \subseteq Provider
    BY DEF Elapse, IInv, Typed
  <1>9. Typed'
    BY <1>2, <1>3, <1>4, <1>5, <1>6, <1>7, <1>8 DEF Typed
  <1>10. QED
    BY <1>1, <1>3, <1>4, <1>9 DEF IInv

\* A program starts with nothing cached and nothing known.
LEMMA InitIInv == Init => IInv
  <1> SUFFICES ASSUME Init PROVE IInv
    OBVIOUS
  <1>1. Cap \in Age /\ 0 \in Age /\ Interval \in 0 .. Interval
    BY LimitIs, PriceAssumption DEF Age
  <1>2. Sound(Idle) /\ Idle \in ReaderRecord
    BY IdleSound DEF Sound
  <1>3. rd \in [Reader -> ReaderRecord] /\ \A r \in Reader : Sound(rd[r])
    BY <1>2 DEF Init
  <1>4. Typed
    BY <1>1, <1>3 DEF Init, Typed
  <1>5. QED
    BY <1>3, <1>4 DEF Init, IInv, CacheSound, LkgSound

\* Every step of the program keeps the invariant.
LEMMA StepIInv == IInv /\ [Next]_vars => IInv'
  <1> SUFFICES ASSUME IInv, [Next]_vars PROVE IInv'
    OBVIOUS
  <1>1. CASE \E r \in Reader : ReaderStep(r)
    <2>1. PICK r \in Reader : ReaderStep(r)
      BY <1>1
    <2>2. CASE Fetch(r)
      BY <2>2, FetchKeeps
    <2>3. CASE Answer(r)
      BY <2>3, AnswerKeeps
    <2>4. CASE Fails(r)
      BY <2>4, FailsKeeps
    <2>5. CASE StoreCache(r)
      BY <2>5, StoreCacheKeeps
    <2>6. CASE StoreLkg(r)
      BY <2>6, StoreLkgKeeps
    <2>7. CASE Respond(r) \/ Cancel(r)
      BY <2>7, RestKeeps
    <2>8. QED
      BY <2>1, <2>2, <2>3, <2>4, <2>5, <2>6, <2>7 DEF ReaderStep
  <1>2. CASE MonitorTick
    BY <1>2, MonitorTickKeeps
  <1>3. CASE \E p \in Provider : Toggle(p)
    BY <1>3, ToggleKeeps
  <1>4. CASE Elapse
    BY <1>4, ElapseKeeps
  <1>5. CASE UNCHANGED vars
    BY <1>5 DEF vars, IInv, Typed, CacheSound, LkgSound, Sound
  <1>6. QED
    BY <1>1, <1>2, <1>3, <1>4, <1>5 DEF Next

\* The inductive invariant holds in every reachable state of price/mod.rs and
\* the monitor.
THEOREM AlwaysIInv == Spec => []IInv
  BY InitIInv, StepIInv, PTL DEF Spec

-----------------------------------------------------------------------------
(* What follows.                                                           *)

\* The price state is well-typed: a reader asks a provider of the chain, for a
\* request it takes, for no longer than the time-out.
THEOREM AlwaysTypeOK == Spec => []TypeOK
  <1>1. IInv => TypeOK
    BY DEF IInv, Typed, Sound, TypeOK
  <1>2. QED
    BY <1>1, AlwaysIInv, PTL

\* A price that the monitor evaluates is as fresh as the cache may be, and was
\* sent in the time a provider has.
LEMMA CurrentIs == IInv => TriggersAreCurrent
  <1>1. SUFFICES ASSUME IInv, Evaluates(Monitor)
                 PROVE  rd[Monitor].snap.quote <= TriggerAge
    BY DEF TriggersAreCurrent
  <1>2. Sound(rd[Monitor])
    BY <1>1, PriceAssumption DEF IInv
  <1>3. /\ rd[Monitor].snap \in Snapshot /\ rd[Monitor].snap.fetched < Ttl
        /\ rd[Monitor].snap.quote <= rd[Monitor].snap.fetched + Limit
    BY <1>1, <1>2 DEF Evaluates, Sound
  <1>4. rd[Monitor].snap.quote \in Nat /\ rd[Monitor].snap.fetched \in Nat
    BY <1>3, SnapshotIs
  <1>5. QED
    BY <1>3, <1>4, LimitIs, PriceAssumption

\* Triggers are evaluated with a live price only (run_price_monitor): quoted no
\* longer ago than the cache keeps it and a provider takes to send it, whoever
\* fetched it.
THEOREM AlwaysTriggersAreCurrent == Spec => []TriggersAreCurrent
  BY CurrentIs, AlwaysIInv, PTL

\* A reader that asks goes on with a price, or with none, only when the last
\* provider has failed it.
LEMMA OnlyFailsDecides ==
    ASSUME IInv, [Next]_vars, NEW r \in Reader, rd[r].pc = "ask",
           rd'[r].pc \in {"use", "error"}
    PROVE  Fails(r)
  <1>1. CASE \E q \in Reader : ReaderStep(q)
    <2>1. PICK q \in Reader : ReaderStep(q)
      BY <1>1
    <2>2. CASE q # r
      <3>1. rd'[r] = rd[r]
        BY <2>1, <2>2 DEF ReaderStep, Fetch, Answer, Fails, StoreCache, StoreLkg,
                          Respond, Cancel, IInv, Typed
      <3>2. QED BY <3>1
    <2>3. CASE q = r
      <3>1. CASE Answer(r)
        BY <3>1, AnswerGoesOn
      <3>2. CASE Cancel(r)
        <4>1. rd'[r].pc = "idle"
          BY <3>2, RestKeeps
        <4>2. QED BY <4>1
      <3>3. CASE Fails(r)
        BY <3>3
      <3>4. CASE Fetch(r) \/ StoreCache(r) \/ StoreLkg(r) \/ Respond(r)
        BY <3>4 DEF Fetch, StoreCache, StoreLkg, Respond
      <3>5. QED
        BY <2>1, <2>3, <3>1, <3>2, <3>3, <3>4 DEF ReaderStep
    <2>4. QED BY <2>2, <2>3
  <1>2. CASE MonitorTick
    <2>1. /\ rd'[Monitor].pc = "idle" /\ rd' = [rd EXCEPT ![Monitor] = Idle]
      BY <1>2, MonitorTickKeeps
    <2>2. r # Monitor => rd'[r] = rd[r]
      BY <2>1 DEF IInv, Typed
    <2>3. QED BY <2>1, <2>2
  <1>3. CASE \E p \in Provider : Toggle(p)
    BY <1>3, ToggleKeeps
  <1>4. CASE Elapse
    BY <1>4, ElapseKeeps
  <1>5. CASE UNCHANGED vars
    BY <1>5 DEF vars
  <1>6. QED
    BY <1>1, <1>2, <1>3, <1>4, <1>5 DEF Next

\* There is a price, stored no longer ago than this.
Backed(price, age) == price # NULL /\ price.fetched <= age

\* A reader is between its two stores.
Storing == \E q \in Reader : rd[q].pc = "lkg"

\* A live price that is cached, used, or was gone on with has been stored as the
\* last known good one since it was fetched, or it is about to be.
Known ==
    /\ live < Cap => Backed(lkg, live + Ttl - 1)
    /\ cache # NULL => Backed(lkg, cache.fetched)
    /\ \A r \in Reader : rd[r].pc = "use" /\ ~rd[r].snap.stale => Backed(lkg, rd[r].snap.fetched)

LiveSound == Storing \/ Known

\* A reader that moves on by itself keeps it, but for its stores.
LEMMA MoveLive ==
    ASSUME IInv, LiveSound, NEW r \in Reader, NEW x,
           rd' = [rd EXCEPT ![r] = x], rd[r].pc # "lkg", cache' = cache, lkg' = lkg,
           live' = live \/ (live' = 0 /\ rd[r].pc = "use" /\ ~rd[r].snap.stale),
           x.pc = "use" /\ ~x.snap.stale => cache # NULL /\ x.snap = cache
    PROVE  LiveSound'
  <1>1. /\ rd \in [Reader -> ReaderRecord] /\ rd'[r] = x
        /\ \A q \in Reader : q # r => rd'[q] = rd[q]
    BY DEF IInv, Typed
  <1>2. CASE Storing
    <2>1. PICK q \in Reader : rd[q].pc = "lkg"
      BY <1>2 DEF Storing
    <2>2. rd'[q].pc = "lkg"
      BY <1>1, <2>1
    <2>3. QED BY <2>2 DEF Storing, LiveSound
  <1>3. CASE Known
    <2>1. live' < Cap => Backed(lkg, live' + Ttl - 1)
      <3>1. CASE live' = live
        BY <1>3, <3>1 DEF Known
      <3>2. CASE live' = 0 /\ rd[r].pc = "use" /\ ~rd[r].snap.stale
        <4>1. Backed(lkg, rd[r].snap.fetched)
          BY <1>3, <3>2 DEF Known
        <4>2. rd[r].snap \in Snapshot /\ rd[r].snap.fetched < Ttl
          BY <3>2 DEF IInv, Sound
        <4>3. rd[r].snap.fetched \in Nat /\ Ttl \in Nat
          BY <4>2, SnapshotIs, PriceAssumption
        <4>4. lkg # NULL /\ lkg.fetched <= rd[r].snap.fetched /\ lkg.fetched \in Nat
          BY <4>1, SnapshotIs DEF Backed, IInv, Typed
        <4>5. lkg.fetched <= live' + Ttl - 1
          BY <3>2, <4>2, <4>3, <4>4
        <4>6. QED BY <4>4, <4>5 DEF Backed
      <3>3. QED BY <3>1, <3>2
    <2>2. cache # NULL => Backed(lkg, cache.fetched)
      BY <1>3 DEF Known
    <2>3. ASSUME NEW q \in Reader, rd'[q].pc = "use", ~rd'[q].snap.stale
          PROVE  Backed(lkg, rd'[q].snap.fetched)
      BY <1>1, <1>3, <2>2, <2>3 DEF Known
    <2>4. QED BY <2>1, <2>2, <2>3 DEF LiveSound, Known, Backed
  <1>4. QED BY <1>2, <1>3 DEF LiveSound

\* Fetch, Answer, Fails, Respond, Cancel: a live price to go on with comes from the
\* cache.
LEMMA ReaderLive ==
    ASSUME IInv, LiveSound, NEW r \in Reader,
           Fetch(r) \/ Answer(r) \/ Fails(r) \/ Respond(r) \/ Cancel(r)
    PROVE  LiveSound'
  <1>1. /\ rd \in [Reader -> ReaderRecord] /\ cache' = cache /\ lkg' = lkg
        /\ rd[r].pc # "lkg"
    BY DEF Fetch, Answer, Fails, Respond, Cancel, IInv, Typed
  <1>2. rd' = [rd EXCEPT ![r] = rd'[r]]
    <2>1. \E v : rd' = [rd EXCEPT ![r] = v]
      BY <1>1 DEF Fetch, Answer, Fails, Respond, Cancel
    <2>2. QED BY <1>1, <2>1
  <1>3. live' = live \/ (live' = 0 /\ rd[r].pc = "use" /\ ~rd[r].snap.stale)
    BY DEF Fetch, Answer, Fails, Respond, Cancel, GoesOn
  <1>4. rd'[r].pc = "use" /\ ~rd'[r].snap.stale => cache # NULL /\ rd'[r].snap = cache
    <2>1. CASE Fetch(r)
      <3>1. CASE cache # NULL /\ cache.fetched < Ttl
        <4>1. cache \in Snapshot /\ cache.quote <= cache.fetched + Limit
          BY <3>1 DEF IInv, Typed, CacheSound
        <4>2. rd'[r] = [Idle EXCEPT !.pc = "use", !.snap = cache]
          BY <1>1, <2>1, <3>1 DEF Fetch
        <4>3. rd'[r].snap = cache
          BY <3>1, <4>1, <4>2, UseSound
        <4>4. QED BY <3>1, <4>3
      <3>2. CASE ~(cache # NULL /\ cache.fetched < Ttl)
        <4>1. rd'[r] = [Idle EXCEPT !.pc = "ask"]
          BY <1>1, <2>1, <3>2 DEF Fetch
        <4>2. rd'[r].pc = "ask"
          BY <4>1, AskSound, ProviderIs
        <4>3. QED BY <4>2
      <3>3. QED BY <3>1, <3>2
    <2>2. CASE Answer(r)
      BY <2>2, AnswerGoesOn
    <2>3. CASE Fails(r)
      BY <2>3, AfterFailureIs, FailsKeeps
    <2>4. CASE Respond(r) \/ Cancel(r)
      BY <2>4, RestKeeps
    <2>5. QED BY <2>1, <2>2, <2>3, <2>4
  <1>5. QED BY <1>1, <1>2, <1>3, <1>4, MoveLive

\* StoreCache, StoreLkg: one store after the other, and then the newest price is
\* the last known good one.
LEMMA StoreLive ==
    ASSUME IInv, LiveSound, NEW r \in Reader, StoreCache(r) \/ StoreLkg(r)
    PROVE  LiveSound'
  <1>1. rd \in [Reader -> ReaderRecord] /\ Sound(rd[r])
    BY DEF IInv, Typed
  <1>2. CASE StoreCache(r)
    <2>1. rd' = [rd EXCEPT ![r] = [rd[r] EXCEPT !.pc = "lkg"]]
      BY <1>1, <1>2 DEF StoreCache
    <2>2. [rd[r] EXCEPT !.pc = "lkg"].pc = "lkg"
      BY <1>1 DEF ReaderRecord
    <2>3. rd'[r].pc = "lkg"
      BY <1>1, <2>1, <2>2
    <2>4. QED BY <2>3 DEF Storing, LiveSound
  <1>3. CASE StoreLkg(r)
    <2>1. /\ lkg' = rd[r].snap /\ rd[r].snap \in Snapshot /\ rd[r].snap.fetched = 0
          /\ cache' = cache
      BY <1>1, <1>3 DEF StoreLkg, Sound
    <2>2. ASSUME NEW age \in Nat PROVE Backed(lkg', age)
      BY <2>1, <2>2, SnapshotIs DEF Backed
    <2>3. IInv'
      BY <1>3, StoreLkgKeeps
    <2>4. live' + Ttl - 1 \in Nat
      <3>1. live' \in Nat
        BY <2>3, LimitIs DEF IInv, Typed, Age
      <3>2. ASSUME NEW k \in Nat PROVE k + Ttl - 1 \in Nat
        BY PriceAssumption
      <3>3. QED BY <3>1, <3>2
    <2>5. cache' # NULL => cache'.fetched \in Nat
      BY <2>3, SnapshotIs DEF IInv, Typed
    <2>6. \A q \in Reader : rd'[q].pc = "use" => rd'[q].snap.fetched \in Nat
      BY <2>3, SnapshotIs DEF IInv, Sound
    <2>7. QED BY <2>2, <2>4, <2>5, <2>6 DEF LiveSound, Known, Backed
  <1>4. QED BY <1>2, <1>3

\* Elapse: nobody is between two steps, and what is compared ages alike.
LEMMA ElapseLive ==
    ASSUME IInv, LiveSound, Elapse
    PROVE  LiveSound'
  <1>1. /\ \A r \in Reader : rd[r].pc \in {"idle", "ask"} /\ rd'[r].pc = rd[r].pc
        /\ lkg' = OlderSnap(lkg) /\ cache' = OlderSnap(cache) /\ live' = Older(live)
    BY ElapseKeeps DEF Elapse, Waiting
  <1>2. /\ Known /\ live \in Age
        /\ cache \in Snapshot \cup {NULL} /\ lkg \in Snapshot \cup {NULL}
    BY <1>1 DEF LiveSound, Storing, IInv, Typed
  <1>3. /\ live \in Nat /\ live <= Cap /\ Cap \in Nat /\ Ttl \in Nat \ {0}
    BY <1>2, LimitIs, PriceAssumption DEF Age
  <1>4. ASSUME NEW age \in Nat, Backed(lkg, age)
        PROVE  Backed(lkg', age + 1) /\ Backed(lkg', Older(age))
    <2>1. lkg \in Snapshot /\ lkg # NULL /\ lkg.fetched <= age
      BY <1>2, <1>4 DEF Backed
    <2>2. lkg' \in Snapshot /\ lkg'.fetched = Older(lkg.fetched)
      BY <1>1, <2>1, OlderSnapIs
    <2>3. lkg' # NULL
      BY <2>2, SnapshotIs
    <2>4. lkg.fetched \in Age /\ lkg.fetched \in Nat
      BY <2>1, SnapshotIs
    <2>5. Older(lkg.fetched) <= age + 1 /\ Older(lkg.fetched) <= Older(age)
      BY <1>4, <2>1, <2>4, LimitIs DEF Older, Age
    <2>6. QED BY <2>2, <2>3, <2>5 DEF Backed
  <1>5. ASSUME live' < Cap
        PROVE  Backed(lkg', live' + Ttl - 1)
    <2>1. live < Cap /\ live' = live + 1
      BY <1>1, <1>3, <1>5 DEF Older
    <2>2. Backed(lkg, live + Ttl - 1)
      BY <1>2, <2>1 DEF Known
    <2>3. live + Ttl - 1 \in Nat /\ (live + Ttl - 1) + 1 = live' + Ttl - 1
      BY <1>3, <2>1
    <2>4. QED BY <1>4, <2>2, <2>3
  <1>6. ASSUME cache' # NULL
        PROVE  Backed(lkg', cache'.fetched)
    <2>1. cache \in Snapshot /\ cache # NULL
      BY <1>1, <1>2, <1>6 DEF OlderSnap
    <2>2. Backed(lkg, cache.fetched) /\ cache.fetched \in Nat
      BY <1>2, <2>1, SnapshotIs DEF Known
    <2>3. cache'.fetched = Older(cache.fetched)
      BY <1>1, <2>1, OlderSnapIs
    <2>4. QED BY <1>4, <2>2, <2>3
  <1>7. \A r \in Reader : rd'[r].pc # "use"
    BY <1>1
  <1>8. QED
    BY <1>5, <1>6, <1>7 DEF LiveSound, Known

\* Nothing is cached and nobody has gone on when the program starts.
LEMMA InitLive == Init => LiveSound
  <1> SUFFICES ASSUME Init PROVE LiveSound
    OBVIOUS
  <1>1. \A r \in Reader : rd[r].pc = "idle"
    BY DEF Init, Idle
  <1>2. ~(live < Cap)
    BY LimitIs DEF Init
  <1>3. QED
    BY <1>1, <1>2 DEF Init, LiveSound, Known

\* Every step of the program keeps it.
LEMMA StepLive == IInv /\ LiveSound /\ [Next]_vars => LiveSound'
  <1> SUFFICES ASSUME IInv, LiveSound, [Next]_vars PROVE LiveSound'
    OBVIOUS
  <1>1. CASE \E r \in Reader : ReaderStep(r)
    <2>1. PICK r \in Reader : ReaderStep(r)
      BY <1>1
    <2>2. CASE StoreCache(r) \/ StoreLkg(r)
      BY <2>2, StoreLive
    <2>3. CASE ~(StoreCache(r) \/ StoreLkg(r))
      <3>1. Fetch(r) \/ Answer(r) \/ Fails(r) \/ Respond(r) \/ Cancel(r)
        BY <2>1, <2>3 DEF ReaderStep
      <3>2. QED BY <3>1, ReaderLive
    <2>4. QED BY <2>2, <2>3
  <1>2. CASE MonitorTick
    <2>1. /\ Monitor \in Reader /\ rd' = [rd EXCEPT ![Monitor] = Idle]
          /\ rd[Monitor].pc # "lkg" /\ cache' = cache /\ lkg' = lkg
          /\ live' = live \/ (live' = 0 /\ rd[Monitor].pc = "use" /\ ~rd[Monitor].snap.stale)
      BY <1>2, PriceAssumption DEF MonitorTick, GoesOn
    <2>2. Idle.pc # "use"
      BY DEF Idle
    <2>3. QED BY <2>1, <2>2, MoveLive
  <1>3. CASE \E p \in Provider : Toggle(p)
    BY <1>3 DEF Toggle, LiveSound, Storing, Known, Backed
  <1>4. CASE Elapse
    BY <1>4, ElapseLive
  <1>5. CASE UNCHANGED vars
    BY <1>5 DEF vars, LiveSound, Storing, Known, Backed
  <1>6. QED
    BY <1>1, <1>2, <1>3, <1>4, <1>5 DEF Next

\* When every provider has failed a reader (lkg_snapshot), it goes on with a price,
\* unless the last one that anybody went on with is older than LKG_MAX_AGE less its
\* time in the cache, or a fetch is between its two stores (fetch_snapshot); and it
\* never goes on with one quoted longer ago than LKG_MAX_AGE and the time to send it.
THEOREM AlwaysFallbackHolds == Spec => FallbackHolds
  <1>1. ASSUME IInv, LiveSound, [Next]_vars, NEW r \in Reader, rd[r].pc = "ask"
        PROVE  /\ rd'[r].pc = "error" =>
                     live + Ttl > MaxLkg \/ \E q \in Reader : rd[q].pc = "lkg"
               /\ rd'[r].pc = "use" => rd'[r].snap.quote <= LkgAge
    <2>1. CASE rd'[r].pc \in {"use", "error"}
      <3>1. Fails(r)
        BY <1>1, <2>1, OnlyFailsDecides
      <3>2. rd'[r] = AfterFailure(r)
        BY <1>1, <3>1, FailsKeeps
      <3>3. rd'[r].pc = "use" => rd'[r].snap.quote <= LkgAge
        BY <1>1, <3>2, AfterFailureIs
      <3>4. ASSUME rd'[r].pc = "error", ~Storing
            PROVE  live + Ttl > MaxLkg
        <4>1. lkg = NULL \/ lkg.fetched > MaxLkg
          BY <1>1, <3>2, <3>4, AfterFailureIs
        <4>2. /\ live \in Nat /\ live <= Cap /\ Cap \in Nat /\ Ttl \in Nat \ {0}
              /\ MaxLkg \in Nat /\ MaxLkg < Cap
          BY <1>1, LimitIs, PriceAssumption DEF IInv, Typed, Age
        <4>3. CASE live < Cap
          <5>1. Backed(lkg, live + Ttl - 1)
            BY <1>1, <3>4, <4>3 DEF LiveSound, Known
          <5>2. lkg \in Snapshot /\ lkg.fetched <= live + Ttl - 1 /\ lkg.fetched > MaxLkg
            BY <1>1, <4>1, <5>1 DEF Backed, IInv, Typed
          <5>3. lkg.fetched \in Nat
            BY <5>2, SnapshotIs
          <5>4. QED BY <4>2, <5>2, <5>3
        <4>4. CASE ~(live < Cap)
          BY <4>2, <4>4
        <4>5. QED BY <4>3, <4>4
      <3>5. QED BY <3>3, <3>4 DEF Storing
    <2>2. CASE rd'[r].pc \notin {"use", "error"}
      BY <2>2
    <2>3. QED BY <2>1, <2>2
  <1>2. IInv /\ LiveSound /\ [Next]_vars =>
          [\A r \in Reader : rd[r].pc = "ask" =>
            /\ rd'[r].pc = "error" =>
                  live + Ttl > MaxLkg \/ \E q \in Reader : rd[q].pc = "lkg"
            /\ rd'[r].pc = "use" => rd'[r].snap.quote <= LkgAge]_vars
    BY <1>1
  <1>3. QED
    BY <1>2, InitLive, StepLive, AlwaysIInv, PTL DEF Spec, FallbackHolds

-----------------------------------------------------------------------------
(* What the monitor has seen.                                              *)

\* How long the monitor has been asking, counting each request that has failed
\* or has been answered as a time-out.
Work(n)    == Timeout * n
Elapsed(x) == Work(Before(x.provider) + x.request - 1) + x.wait

\* How long ago, at most, the monitor began the sleep before this fetch; n is for
\* how long it has slept.
Since(x, n) ==
    CASE x.pc = "idle" -> n
      [] x.pc = "ask"  -> Interval + Elapsed(x)
      [] OTHER         -> Interval + LongestFetch

\* No provider has answered for longer than this, less a time-out.
NoneFor(c, k) == \A p \in Provider : c[p] + Timeout <= k

\* Either the newest evaluated price is no older than the last tick and what it
\* may have been then, or no provider answered throughout the fetch before it.
Recent(k, s, c) == s <= k + TriggerAge \/ NoneFor(c, k + LongestFetch)

\* A fetch that found no fresh price.
GivenUp(x) == x.pc = "error" \/ (x.pc = "use" /\ x.snap.stale)

\* A provider that has been passed over began to answer since it was asked, or
\* does not.
Passed(x, c) ==
    /\ x.pc = "ask" => \A p \in Provider :
                          p < x.provider => c[p] + Timeout <= Elapsed(x)
    /\ GivenUp(x) => NoneFor(c, LongestFetch)

StandInv ==
    /\ Passed(rd[Monitor], calm)
    /\ Recent(Since(rd[Monitor], nap), seen, calm)
    /\ \A p \in Provider : p \notin up => calm[p] = 0

\* More requests take no less time.
LEMMA WorkIs ==
    /\ \A n \in Nat : Work(n) \in Nat /\ Work(n + 1) = Work(n) + Timeout
    /\ \A m, n \in Nat : m <= n => Work(m) <= Work(n)
    /\ Work(0) = 0 /\ Work(1) = Timeout
    /\ Timeout \in Nat \ {0} /\ Interval \in Nat /\ TriggerAge \in Nat
  <1>1. Timeout \in Nat \ {0} /\ Interval \in Nat /\ TriggerAge \in Nat
    BY PriceAssumption, LimitIs
  <1>2. ASSUME NEW n \in Nat PROVE Work(n) \in Nat /\ Work(n + 1) = Work(n) + Timeout
    BY <1>1 DEF Work
  <1>3. ASSUME NEW m \in Nat, NEW n \in Nat, m <= n PROVE Work(m) <= Work(n)
    <2>1. PICK d \in Nat : n = m + d
      <3>1. n - m \in Nat /\ n = m + (n - m)
        BY <1>3
      <3>2. QED BY <3>1
    <2>2. Work(n) = Work(m) + Work(d)
      BY <1>1, <2>1 DEF Work
    <2>3. QED BY <1>2, <2>2
  <1>4. Work(0) = 0 /\ Work(1) = Timeout
    BY <1>1 DEF Work
  <1>5. QED
    BY <1>1, <1>2, <1>3, <1>4

\* The time up to the end of a provider's requests is within the longest fetch.
LEMMA ProviderWork ==
    ASSUME NEW p \in Provider
    PROVE  /\ Before(p) \in Nat /\ Requests[p] \in Nat \ {0}
           /\ Before(p) + Requests[p] \in Nat
           /\ Before(p + 1) = Before(p) + Requests[p]
           /\ Timeout <= Work(Before(p) + Requests[p])
           /\ Work(Before(p) + Requests[p]) <= LongestFetch
           /\ LongestFetch \in Nat
  <1>1. /\ p \in 1 .. Len(Requests) + 1 /\ p + 1 \in 1 .. Len(Requests) + 1
        /\ Len(Requests) + 1 \in 1 .. Len(Requests) + 1
    BY ProviderIs
  <1>2. /\ Before(p) \in Nat /\ Before(p + 1) \in Nat /\ Before(Len(Requests) + 1) \in Nat
        /\ Before(p + 1) = Before(p) + Requests[p]
        /\ Before(p + 1) <= Before(Len(Requests) + 1)
    BY <1>1, BeforeIs
  <1>3. Requests[p] \in Nat \ {0}
    BY ProviderIs
  <1>4. LongestFetch = Work(Before(Len(Requests) + 1))
    BY BeforeIs DEF Work
  <1>5. Before(p) + Requests[p] \in Nat /\ 1 <= Before(p) + Requests[p]
    BY <1>2, <1>3
  <1>6. QED
    BY <1>2, <1>3, <1>4, <1>5, WorkIs

\* So is the time a reader has spent on it.
LEMMA ElapsedIs ==
    ASSUME NEW x, Sound(x)
    PROVE  /\ Elapsed(x) \in Nat
           /\ Elapsed(x) <= Work(Before(x.provider) + Requests[x.provider])
           /\ Elapsed(x) <= LongestFetch
  <1>1. /\ x.provider \in Provider /\ x.request \in Nat /\ x.wait \in 0 .. Timeout
        /\ x.request \in 1 .. Requests[x.provider]
    BY ReaderIs DEF Sound
  <1> DEFINE n == Before(x.provider) + x.request - 1
             w == Before(x.provider) + Requests[x.provider]
  <1>2. w \in Nat /\ Work(w) <= LongestFetch /\ LongestFetch \in Nat
        /\ Before(x.provider) \in Nat /\ Requests[x.provider] \in Nat
    BY <1>1, ProviderWork
  <1>3. n \in Nat /\ n + 1 \in Nat /\ n + 1 <= w
    BY <1>1, <1>2
  <1>4. Elapsed(x) = Work(n) + x.wait
    BY DEF Elapsed
  <1> HIDE DEF n, w
  <1>5. /\ Work(n) \in Nat /\ Work(n + 1) = Work(n) + Timeout
        /\ Work(n + 1) <= Work(w) /\ Work(w) \in Nat
    BY <1>2, <1>3, WorkIs
  <1>6. x.wait \in Nat /\ x.wait <= Timeout /\ Timeout \in Nat
    BY <1>1, WorkIs
  <1>7. Elapsed(x) \in Nat /\ Elapsed(x) <= Work(w)
    BY <1>4, <1>5, <1>6
  <1>8. QED
    BY <1>2, <1>5, <1>7 DEF w

\* And the time since the sleep before it.
LEMMA SinceIs ==
    ASSUME NEW x, Sound(x), NEW n \in 0 .. Interval
    PROVE  Since(x, n) \in Nat /\ Since(x, n) <= Interval + LongestFetch
  <1>1. LongestFetch \in Nat /\ Interval \in Nat
    BY ProviderIs, ProviderWork, WorkIs
  <1>2. Elapsed(x) \in Nat /\ Elapsed(x) <= LongestFetch
    BY ElapsedIs
  <1>3. QED
    BY <1>1, <1>2 DEF Since

\* What is recent stays recent while no time passes.
LEMMA RecentLater ==
    ASSUME NEW k \in Nat, NEW m \in Nat, k <= m, NEW s \in Age,
           NEW c \in [Provider -> Age], Recent(k, s, c)
    PROVE  Recent(m, s, c)
  <1>1. LongestFetch \in Nat /\ TriggerAge \in Nat /\ Timeout \in Nat
    BY ProviderIs, ProviderWork, WorkIs
  <1>2. s \in Nat /\ \A p \in Provider : c[p] \in Nat
    BY DEF Age
  <1>3. QED
    BY <1>1, <1>2 DEF Recent, NoneFor

\* The monitor in an invariant state.
LEMMA MonitorIs ==
    ASSUME IInv
    PROVE  /\ Monitor \in Reader /\ Sound(rd[Monitor])
           /\ nap \in 0 .. Interval /\ seen \in Age /\ calm \in [Provider -> Age]
           /\ seen \in Nat /\ \A p \in Provider : calm[p] \in Nat
           /\ Since(rd[Monitor], nap) \in Nat
           /\ Since(rd[Monitor], nap) <= Interval + LongestFetch
  <1>1. /\ Monitor \in Reader /\ Sound(rd[Monitor])
        /\ nap \in 0 .. Interval /\ seen \in Age /\ calm \in [Provider -> Age]
    BY PriceAssumption DEF IInv, Typed
  <1>2. seen \in Nat /\ \A p \in Provider : calm[p] \in Nat
    BY <1>1 DEF Age
  <1>3. QED
    BY <1>1, <1>2, SinceIs

\* A step that leaves the monitor, its price and the providers as they are.
LEMMA OthersStand ==
    ASSUME StandInv, rd'[Monitor] = rd[Monitor], nap' = nap, seen' = seen,
           calm' = calm, up' = up
    PROVE  StandInv'
  BY DEF StandInv

\* A step of the monitor that takes no time.
LEMMA MonitorStands ==
    ASSUME IInv, StandInv, IInv',
           nap' = nap, seen' = seen, calm' = calm, up' = up,
           Since(rd[Monitor], nap) <= Since(rd'[Monitor], nap),
           Passed(rd'[Monitor], calm)
    PROVE  StandInv'
  <1>1. Sound(rd'[Monitor])
    BY PriceAssumption DEF IInv
  <1>2. Since(rd'[Monitor], nap) \in Nat
    BY <1>1, MonitorIs, SinceIs
  <1>3. Recent(Since(rd'[Monitor], nap), seen, calm)
    BY <1>2, MonitorIs, RecentLater DEF StandInv
  <1>4. QED
    BY <1>3 DEF StandInv

\* Fetch: the monitor wakes up after its sleep.
LEMMA FetchStands ==
    ASSUME IInv, StandInv, IInv', Fetch(Monitor)
    PROVE  StandInv'
  <1>1. /\ nap = Interval /\ rd[Monitor].pc = "idle"
        /\ nap' = nap /\ seen' = seen /\ calm' = calm /\ up' = up
    BY DEF Fetch
  <1>2. Since(rd[Monitor], nap) = Interval
    BY <1>1 DEF Since
  <1>3. LongestFetch \in Nat /\ Interval \in Nat /\ Before(1) = 0 /\ Work(0) = 0
    BY ProviderIs, ProviderWork, WorkIs, BeforeIs
  <1>4. CASE cache # NULL /\ cache.fetched < Ttl
    <2>1. rd'[Monitor] = [Idle EXCEPT !.pc = "use", !.snap = cache]
      BY <1>4, MonitorIs DEF Fetch, IInv, Typed
    <2>2. cache \in Snapshot /\ ~cache.stale
      BY <1>4 DEF IInv, Typed, CacheSound
    <2>3. rd'[Monitor].pc = "use" /\ rd'[Monitor].snap = cache
      BY <2>1 DEF Idle
    <2>4. Passed(rd'[Monitor], calm)
      BY <2>2, <2>3 DEF Passed, GivenUp
    <2>5. Since(rd[Monitor], nap) <= Since(rd'[Monitor], nap)
      BY <1>2, <1>3, <2>3 DEF Since
    <2>6. QED BY <1>1, <2>4, <2>5, MonitorStands
  <1>5. CASE ~(cache # NULL /\ cache.fetched < Ttl)
    <2>1. rd'[Monitor] = [Idle EXCEPT !.pc = "ask"]
      BY <1>5, MonitorIs DEF Fetch, IInv, Typed
    <2>2. /\ rd'[Monitor].pc = "ask" /\ rd'[Monitor].provider = 1
          /\ rd'[Monitor].request = 1 /\ rd'[Monitor].wait = 0
      BY <2>1 DEF Idle
    <2>3. Elapsed(rd'[Monitor]) = 0
      BY <1>3, <2>2 DEF Elapsed
    <2>4. Passed(rd'[Monitor], calm)
      <3>1. \A p \in Provider : ~(p < 1)
        BY ProviderIs
      <3>2. QED BY <2>2, <3>1 DEF Passed, GivenUp
    <2>5. Since(rd[Monitor], nap) <= Since(rd'[Monitor], nap)
      BY <1>2, <1>3, <2>2, <2>3 DEF Since
    <2>6. QED BY <1>1, <2>4, <2>5, MonitorStands
  <1>6. QED BY <1>4, <1>5

\* Answer: a request counts as a time-out once it is answered.
LEMMA AnswerStands ==
    ASSUME IInv, StandInv, IInv', Answer(Monitor)
    PROVE  StandInv'
  <1> DEFINE x == rd[Monitor]
             y == rd'[Monitor]
  <1>1. /\ Sound(x) /\ x.pc = "ask" /\ Sound(y)
        /\ nap' = nap /\ seen' = seen /\ calm' = calm /\ up' = up
    BY MonitorIs DEF Answer, IInv
  <1>2. /\ y.pc \in {"ask", "cache"}
        /\ y.pc = "ask" => /\ y.provider = x.provider
                           /\ y.request = x.request + 1 /\ y.wait = 0
    BY AnswerGoesOn, MonitorIs
  <1>3. /\ Passed(x, calm) /\ calm \in [Provider -> Age]
        /\ \A p \in Provider : calm[p] \in Nat
    BY MonitorIs DEF StandInv
  <1> HIDE DEF x, y
  <1>4. /\ x.provider \in Provider /\ x.request \in Nat \ {0} /\ x.wait \in 0 .. Timeout
    BY <1>1, ReaderIs, ProviderIs DEF Sound
  <1>5. /\ Elapsed(x) \in Nat /\ Elapsed(x) <= LongestFetch
        /\ LongestFetch \in Nat /\ Interval \in Nat /\ Timeout \in Nat
    BY <1>1, ElapsedIs, ProviderIs, ProviderWork, WorkIs
  <1>6. CASE y.pc = "ask"
    <2>1. Elapsed(y) \in Nat
      BY <1>1, ElapsedIs
    <2>2. Elapsed(x) <= Elapsed(y)
      <3> DEFINE n == Before(x.provider) + x.request - 1
      <3>1. n \in Nat /\ Before(y.provider) + y.request - 1 = n + 1
        BY <1>2, <1>4, <1>6, ProviderWork
      <3>2. Elapsed(x) = Work(n) + x.wait /\ Elapsed(y) = Work(n + 1) + 0
        BY <1>2, <1>6, <3>1 DEF Elapsed
      <3> HIDE DEF n
      <3>3. Work(n) \in Nat /\ Work(n + 1) = Work(n) + Timeout
        BY <3>1, WorkIs
      <3>4. QED BY <1>4, <1>5, <3>2, <3>3
    <2>3. Passed(y, calm)
      <3>1. ASSUME NEW p \in Provider, p < y.provider
            PROVE  calm[p] + Timeout <= Elapsed(y)
        <4>1. calm[p] + Timeout <= Elapsed(x) /\ calm[p] \in Nat
          BY <1>1, <1>2, <1>3, <1>6, <3>1 DEF Passed
        <4>2. QED BY <1>5, <2>1, <2>2, <4>1
      <3>2. QED BY <1>6, <3>1 DEF Passed, GivenUp
    <2>4. Since(x, nap) <= Since(y, nap)
      BY <1>1, <1>5, <1>6, <2>1, <2>2 DEF Since
    <2>5. QED BY <1>1, <2>3, <2>4, MonitorStands DEF x, y
  <1>7. CASE y.pc = "cache"
    <2>1. Passed(y, calm)
      BY <1>7 DEF Passed, GivenUp
    <2>2. Since(x, nap) <= Since(y, nap)
      BY <1>1, <1>5, <1>7 DEF Since
    <2>3. QED BY <1>1, <2>1, <2>2, MonitorStands DEF x, y
  <1>8. QED BY <1>2, <1>6, <1>7

\* Fails: the provider that failed does not answer, and the time-outs of its
\* requests are counted in full.
LEMMA FailsStands ==
    ASSUME IInv, StandInv, IInv', Fails(Monitor)
    PROVE  StandInv'
  <1> DEFINE x == rd[Monitor]
             y == rd'[Monitor]
             p == x.provider
  <1>1. /\ Sound(x) /\ x.pc = "ask" /\ Sound(y) /\ p \notin up
        /\ nap' = nap /\ seen' = seen /\ calm' = calm /\ up' = up
    BY MonitorIs DEF Fails, IInv
  <1>2. y = AfterFailure(Monitor)
    BY FailsKeeps, MonitorIs
  <1>3. p \in Provider
    BY <1>1, ReaderIs DEF Sound
  <1>4. /\ p < Len(Requests) => /\ y.pc = "ask" /\ y.provider = p + 1
                                /\ y.request = 1 /\ y.wait = 0
        /\ ~(p < Len(Requests)) => y.pc \in {"use", "error"}
    <2>1. CASE p < Len(Requests)
      <3>1. y = [Idle EXCEPT !.pc = "ask", !.provider = p + 1]
        BY <1>2, <2>1 DEF AfterFailure
      <3>2. QED BY <2>1, <3>1 DEF Idle
    <2>2. CASE ~(p < Len(Requests))
      <3>1. y = LkgSnapshot
        BY <1>2, <2>2 DEF AfterFailure
      <3>2. QED BY <2>2, <3>1, LkgSnapshotIs
    <2>3. QED BY <2>1, <2>2
  <1>5. /\ Passed(x, calm) /\ \A q \in Provider : calm[q] \in Nat
        /\ calm[p] = 0
    BY <1>1, <1>3, MonitorIs DEF StandInv
  <1> HIDE DEF x, y
  <1> DEFINE w == Work(Before(p) + Requests[p])
  <1>6. /\ Elapsed(x) \in Nat /\ Elapsed(x) <= w /\ Timeout <= w /\ w <= LongestFetch
        /\ LongestFetch \in Nat /\ Interval \in Nat /\ Timeout \in Nat
    BY <1>1, <1>3, ElapsedIs, ProviderWork, WorkIs
  <1>7. Work(Before(p) + Requests[p]) \in Nat
    BY <1>3, ProviderWork, WorkIs
  <1>8. ASSUME NEW q \in Provider, q <= p
        PROVE  calm[q] + Timeout <= w
    <2>1. CASE q = p
      BY <1>5, <1>6, <2>1
    <2>2. CASE q # p
      <3>1. q < p
        BY <1>3, <1>8, <2>2, ProviderIs
      <3>2. calm[q] + Timeout <= Elapsed(x)
        BY <1>1, <1>5, <3>1 DEF Passed
      <3> HIDE DEF w
      <3>3. QED BY <1>5, <1>6, <1>7, <3>2 DEF w
    <2>3. QED BY <2>1, <2>2
  <1>9. CASE p < Len(Requests)
    <2>1. Elapsed(y) = w
      <3>1. Before(p + 1) = Before(p) + Requests[p] /\ Before(p) + Requests[p] \in Nat
        BY <1>3, ProviderWork
      <3>2. Before(y.provider) + y.request - 1 = Before(p) + Requests[p]
        BY <1>4, <1>9, <3>1
      <3>3. Elapsed(y) = w + 0
        BY <1>4, <1>9, <3>2 DEF Elapsed
      <3>4. QED BY <1>7, <3>3
    <2>2. Passed(y, calm)
      <3>1. ASSUME NEW q \in Provider, q < y.provider
            PROVE  calm[q] + Timeout <= Elapsed(y)
        <4>1. q <= p
          BY <1>3, <1>4, <1>9, <3>1, ProviderIs
        <4>2. QED BY <1>8, <2>1, <4>1
      <3>2. QED BY <1>4, <1>9, <3>1 DEF Passed, GivenUp
    <2>3. Since(x, nap) <= Since(y, nap)
      <3> HIDE DEF w
      <3>1. QED BY <1>1, <1>4, <1>6, <1>7, <1>9, <2>1 DEF Since, w
    <2>4. QED BY <1>1, <2>2, <2>3, MonitorStands DEF x, y
  <1>10. CASE ~(p < Len(Requests))
    <2>1. Passed(y, calm)
      <3>1. ASSUME NEW q \in Provider
            PROVE  calm[q] + Timeout <= LongestFetch
        <4>1. q <= p
          BY <1>3, <1>10, ProviderIs
        <4>2. calm[q] + Timeout <= w /\ calm[q] \in Nat
          BY <1>5, <1>8, <4>1
        <4> HIDE DEF w
        <4>3. QED BY <1>6, <1>7, <4>2 DEF w
      <3>2. QED BY <1>4, <1>10, <3>1 DEF Passed, NoneFor
    <2>2. Since(x, nap) <= Since(y, nap)
      <3>1. Since(x, nap) = Interval + Elapsed(x)
        BY <1>1 DEF Since
      <3>2. Since(y, nap) = Interval + LongestFetch
        BY <1>4, <1>10 DEF Since
      <3>3. Elapsed(x) <= LongestFetch
        BY <1>1, ElapsedIs
      <3>4. QED BY <1>6, <3>1, <3>2, <3>3
    <2>3. QED BY <1>1, <2>1, <2>2, MonitorStands DEF x, y
  <1>11. QED BY <1>9, <1>10

\* StoreCache, StoreLkg: what the monitor stores, it may use.
LEMMA StoreStands ==
    ASSUME IInv, StandInv, IInv', StoreCache(Monitor) \/ StoreLkg(Monitor)
    PROVE  StandInv'
  <1>1. /\ nap' = nap /\ seen' = seen /\ calm' = calm /\ up' = up
        /\ rd[Monitor].pc \in {"cache", "lkg"}
    BY DEF StoreCache, StoreLkg
  <1>2. ~rd[Monitor].snap.stale /\ rd[Monitor] \in ReaderRecord
    BY <1>1, MonitorIs DEF Sound
  <1>3. /\ rd'[Monitor].pc \in {"lkg", "use"}
        /\ rd'[Monitor].snap = rd[Monitor].snap
    <2>1. CASE StoreCache(Monitor)
      <3>1. rd'[Monitor] = [rd[Monitor] EXCEPT !.pc = "lkg"]
        BY <2>1, MonitorIs DEF StoreCache, IInv, Typed
      <3>2. QED BY <1>2, <3>1 DEF ReaderRecord
    <2>2. CASE StoreLkg(Monitor)
      <3>1. rd'[Monitor] = [rd[Monitor] EXCEPT !.pc = "use"]
        BY <2>2, MonitorIs DEF StoreLkg, IInv, Typed
      <3>2. QED BY <1>2, <3>1 DEF ReaderRecord
    <2>3. QED BY <2>1, <2>2
  <1>4. Passed(rd'[Monitor], calm)
    BY <1>2, <1>3 DEF Passed, GivenUp
  <1>5. Since(rd[Monitor], nap) <= Since(rd'[Monitor], nap)
    <2>1. LongestFetch \in Nat /\ Interval \in Nat
      BY ProviderIs, ProviderWork, WorkIs
    <2>2. QED BY <1>1, <1>3, <2>1 DEF Since
  <1>6. QED BY <1>1, <1>4, <1>5, MonitorStands

\* MonitorTick: with a live price the newest evaluated one is that, and without
\* one no provider has answered throughout the fetch.
LEMMA TickStands ==
    ASSUME IInv, StandInv, IInv', MonitorTick
    PROVE  StandInv'
  <1>1. /\ nap' = 0 /\ calm' = calm /\ up' = up /\ rd'[Monitor].pc = "idle"
        /\ rd[Monitor].pc \in {"use", "error"}
    BY MonitorTickKeeps DEF MonitorTick
  <1>2. Passed(rd'[Monitor], calm)
    BY <1>1 DEF Passed, GivenUp
  <1>3. Since(rd'[Monitor], 0) = 0
    BY <1>1 DEF Since
  <1>4. LongestFetch \in Nat /\ TriggerAge \in Nat
    BY ProviderIs, ProviderWork, WorkIs
  <1>5. Recent(0, seen', calm)
    <2>1. CASE Evaluates(Monitor)
      <3>1. rd[Monitor].snap.quote <= TriggerAge
        BY <2>1, CurrentIs DEF TriggersAreCurrent
      <3>2. seen' = rd[Monitor].snap.quote
        BY <2>1 DEF MonitorTick
      <3>3. 0 + TriggerAge = TriggerAge
        BY <1>4
      <3>4. QED BY <3>1, <3>2, <3>3 DEF Recent
    <2>2. CASE ~Evaluates(Monitor)
      <3>1. NoneFor(calm, LongestFetch)
        BY <1>1, <2>2 DEF Evaluates, GivenUp, StandInv, Passed
      <3>2. 0 + LongestFetch = LongestFetch
        BY <1>4
      <3>3. QED BY <3>1, <3>2 DEF Recent
    <2>3. QED BY <2>1, <2>2
  <1>6. Recent(Since(rd'[Monitor], nap'), seen', calm')
    BY <1>1, <1>3, <1>5
  <1>7. QED
    BY <1>1, <1>2, <1>6 DEF StandInv

\* Toggle: a provider that comes or goes has not answered for long.
LEMMA ToggleStands ==
    ASSUME IInv, StandInv, NEW p \in Provider, Toggle(p)
    PROVE  StandInv'
  <1> DEFINE x == rd[Monitor]
             k == Since(x, nap)
  <1>1. /\ rd' = rd /\ nap' = nap /\ seen' = seen
        /\ calm' = [calm EXCEPT ![p] = 0]
        /\ up' = IF p \in up THEN up \ {p} ELSE up \cup {p}
    BY DEF Toggle
  <1>2. \A q \in Provider : calm[q] \in Nat /\ calm'[q] = IF q = p THEN 0 ELSE calm[q]
    BY <1>1, MonitorIs
  <1>3. /\ Sound(x) /\ Elapsed(x) \in Nat /\ LongestFetch \in Nat /\ Timeout \in Nat
        /\ k \in Nat
    BY MonitorIs, ElapsedIs, ProviderIs, ProviderWork, WorkIs
  <1>4. \A q \in Provider : calm'[q] + Timeout <= calm[q] + Timeout
    BY <1>2, <1>3
  <1>5. \A q \in Provider : calm'[q] \in Nat
    BY <1>2
  <1> HIDE DEF x, k
  <1>6. ASSUME NEW m \in Nat, NoneFor(calm, m)
        PROVE  NoneFor(calm', m)
    BY <1>2, <1>3, <1>4, <1>5, <1>6 DEF NoneFor
  <1>7. Passed(x, calm) /\ Recent(k, seen, calm)
    BY DEF StandInv, x, k
  <1>8. Passed(x, calm')
    <2>1. ASSUME x.pc = "ask", NEW q \in Provider, q < x.provider
          PROVE  calm'[q] + Timeout <= Elapsed(x)
      <3>1. calm[q] + Timeout <= Elapsed(x)
        BY <1>7, <2>1 DEF Passed
      <3>2. QED BY <1>2, <1>3, <1>4, <1>5, <3>1
    <2>2. GivenUp(x) => NoneFor(calm', LongestFetch)
      BY <1>3, <1>6, <1>7 DEF Passed
    <2>3. QED BY <2>1, <2>2 DEF Passed
  <1>9. Recent(k, seen, calm')
    <2>1. k + LongestFetch \in Nat
      BY <1>3
    <2>2. QED BY <1>6, <1>7, <2>1 DEF Recent
  <1>10. \A q \in Provider : q \notin up' => calm'[q] = 0
    BY <1>1, <1>2 DEF StandInv
  <1>11. rd'[Monitor] = x /\ Since(rd'[Monitor], nap') = k
    BY <1>1 DEF x, k
  <1>12. QED
    BY <1>1, <1>8, <1>9, <1>10, <1>11 DEF StandInv

\* Elapse: the monitor's sleep or request, the price and the providers are all a
\* tick older.
LEMMA ElapseStands ==
    ASSUME IInv, StandInv, IInv', Elapse
    PROVE  StandInv'
  <1> DEFINE x == rd[Monitor]
             y == rd'[Monitor]
             k == Since(x, nap)
  <1>1. /\ x.pc \in {"idle", "ask"} /\ Sound(x) /\ x \in ReaderRecord /\ Sound(y)
    BY MonitorIs DEF Elapse, Waiting, Sound, IInv
  <1>2. /\ y.pc = x.pc
        /\ x.pc = "ask" => /\ y.provider = x.provider /\ y.request = x.request
                           /\ y.wait = x.wait + 1
    <2>1. CASE x.pc = "ask"
      <3>1. y = [x EXCEPT !.wait = @ + 1,
                   !.first = IF x.request > 1 THEN Older(@) ELSE @]
        BY <2>1, MonitorIs DEF Elapse
      <3> HIDE DEF x, y
      <3>2. QED BY <1>1, <2>1, <3>1 DEF ReaderRecord
    <2>2. CASE x.pc # "ask"
      BY <2>2, MonitorIs DEF Elapse
    <2>3. QED BY <2>1, <2>2
  <1>3. /\ nap' = IF x.pc = "idle" THEN nap + 1 ELSE nap
        /\ seen' = Older(seen) /\ up' = up
        /\ calm' = [p \in Provider |-> IF p \in up THEN Older(calm[p]) ELSE 0]
    BY DEF Elapse
  <1>4. /\ seen \in Age /\ seen \in Nat /\ nap \in Nat /\ k \in Nat
        /\ \A p \in Provider : calm[p] \in Age /\ calm[p] \in Nat
        /\ LongestFetch \in Nat /\ TriggerAge \in Nat /\ Timeout \in Nat /\ Interval \in Nat
        /\ Elapsed(x) \in Nat /\ Elapsed(y) \in Nat
    <2>1. LongestFetch \in Nat /\ TriggerAge \in Nat /\ Timeout \in Nat /\ Interval \in Nat
      BY ProviderIs, ProviderWork, WorkIs
    <2>2. Elapsed(x) \in Nat
      BY <1>1, ElapsedIs
    <2>3. Elapsed(y) \in Nat
      BY <1>1, ElapsedIs
    <2>4. /\ seen \in Age /\ seen \in Nat /\ nap \in 0 .. Interval /\ k \in Nat
          /\ calm \in [Provider -> Age] /\ \A p \in Provider : calm[p] \in Nat
      BY MonitorIs
    <2> HIDE DEF x, y, k
    <2>5. nap \in Nat
      BY <2>1, <2>4
    <2>6. \A p \in Provider : calm[p] \in Age /\ calm[p] \in Nat
      BY <2>4
    <2>7. QED BY <2>1, <2>2, <2>3, <2>4, <2>5, <2>6, Zenon
  <1>5. seen' \in Nat /\ seen' <= seen + 1
    <2>1. Older(seen) \in Age /\ Older(seen) <= seen + 1
      BY <1>4, OlderIs
    <2>2. QED BY <1>3, <2>1 DEF Age
  <1>6. ASSUME NEW p \in Provider
        PROVE  calm'[p] \in Nat /\ calm'[p] <= calm[p] + 1
    <2>1. Older(calm[p]) \in Age /\ Older(calm[p]) <= calm[p] + 1 /\ calm[p] \in Nat
      BY <1>4, OlderIs
    <2>2. calm'[p] = IF p \in up THEN Older(calm[p]) ELSE 0
      BY <1>3
    <2>3. QED BY <2>1, <2>2 DEF Age
  <1>7. Passed(x, calm) /\ Recent(k, seen, calm)
    BY DEF StandInv
  <1>8. x.pc = "ask" => Elapsed(y) = Elapsed(x) + 1
    <2>1. SUFFICES ASSUME x.pc = "ask" PROVE Elapsed(y) = Elapsed(x) + 1
      OBVIOUS
    <2>2. x.provider \in Provider /\ x.request \in Nat \ {0} /\ x.wait \in Nat
      BY <1>1, ReaderIs, ProviderIs DEF Sound
    <2> DEFINE n == Before(x.provider) + x.request - 1
    <2>3. n \in Nat
      BY <2>2, ProviderWork
    <2>4. Work(n) \in Nat
      BY <2>3, WorkIs
    <2>5. Elapsed(x) = Work(n) + x.wait
      BY DEF Elapsed
    <2>6. Elapsed(y) = Work(n) + (x.wait + 1)
      BY <1>2, <2>1 DEF Elapsed
    <2> HIDE DEF n, x, y
    <2>7. QED BY <2>2, <2>4, <2>5, <2>6
  <1> HIDE DEF x, y
  <1>9. Since(y, nap') = k + 1
    <2>1. CASE x.pc = "idle"
      <3>1. Since(x, nap) = nap /\ Since(y, nap') = nap + 1
        BY <1>2, <1>3, <2>1 DEF Since
      <3>2. QED BY <3>1
    <2>2. CASE x.pc = "ask"
      <3>1. Since(x, nap) = Interval + Elapsed(x) /\ Since(y, nap') = Interval + Elapsed(y)
        BY <1>2, <2>2 DEF Since
      <3>2. QED BY <1>4, <1>8, <2>2, <3>1
    <2>3. QED BY <1>1, <2>1, <2>2
  <1> HIDE DEF k
  <1>10. Passed(y, calm')
    <2>1. ASSUME y.pc = "ask", NEW p \in Provider, p < y.provider
          PROVE  calm'[p] + Timeout <= Elapsed(y)
      <3>1. calm[p] + Timeout <= Elapsed(x)
        BY <1>2, <1>7, <2>1 DEF Passed
      <3>2. calm[p] \in Nat /\ calm'[p] \in Nat /\ calm'[p] <= calm[p] + 1
        BY <1>4, <1>6
      <3>3. QED BY <1>2, <1>4, <1>8, <2>1, <3>1, <3>2
    <2>2. ~GivenUp(y)
      BY <1>1, <1>2 DEF GivenUp
    <2>3. QED BY <2>1, <2>2 DEF Passed
  <1>11. Recent(k + 1, seen', calm')
    <2>1. CASE seen <= k + TriggerAge
      <3>1. seen' <= (k + 1) + TriggerAge
        BY <1>4, <1>5, <2>1
      <3>2. QED BY <3>1 DEF Recent
    <2>2. CASE NoneFor(calm, k + LongestFetch)
      <3>1. ASSUME NEW p \in Provider
            PROVE  calm'[p] + Timeout <= (k + 1) + LongestFetch
        <4>1. calm[p] + Timeout <= k + LongestFetch
          BY <2>2 DEF NoneFor
        <4>2. calm[p] \in Nat /\ calm'[p] \in Nat /\ calm'[p] <= calm[p] + 1
          BY <1>4, <1>6
        <4>3. QED BY <1>4, <4>1, <4>2
      <3>2. QED BY <3>1 DEF Recent, NoneFor
    <2>3. QED BY <1>7, <2>1, <2>2 DEF Recent
  <1>12. \A p \in Provider : p \notin up' => calm'[p] = 0
    BY <1>3
  <1>13. QED
    BY <1>9, <1>10, <1>11, <1>12 DEF StandInv, y

\* No provider has answered for any time when the program starts.
LEMMA InitStands == Init => StandInv
  <1> SUFFICES ASSUME Init PROVE StandInv
    OBVIOUS
  <1>1. IInv
    BY InitIInv
  <1>2. /\ rd[Monitor] = Idle /\ nap = Interval /\ \A p \in Provider : calm[p] = 0
    BY <1>1, MonitorIs DEF Init
  <1>3. rd[Monitor].pc = "idle"
    BY <1>2 DEF Idle
  <1>4. Timeout \in Nat /\ LongestFetch \in Nat /\ Interval \in Nat
        /\ Timeout <= LongestFetch
    <2>1. /\ Timeout <= Work(Before(1) + Requests[1])
          /\ Work(Before(1) + Requests[1]) <= LongestFetch
          /\ Before(1) + Requests[1] \in Nat /\ LongestFetch \in Nat
      BY ProviderIs, ProviderWork
    <2>2. Work(Before(1) + Requests[1]) \in Nat /\ Timeout \in Nat /\ Interval \in Nat
      BY <2>1, WorkIs
    <2>3. QED BY <2>1, <2>2
  <1>5. Since(rd[Monitor], nap) = Interval
    BY <1>2, <1>3 DEF Since
  <1>6. NoneFor(calm, Interval + LongestFetch)
    BY <1>2, <1>4 DEF NoneFor
  <1>7. QED
    BY <1>2, <1>3, <1>5, <1>6 DEF StandInv, Passed, GivenUp, Recent

\* Every step of the program keeps it: other readers fill the cache, which is no
\* part of it.
LEMMA StepStands == IInv /\ StandInv /\ [Next]_vars => StandInv'
  <1> SUFFICES ASSUME IInv, StandInv, [Next]_vars PROVE StandInv'
    OBVIOUS
  <1>1. IInv'
    BY StepIInv
  <1>2. CASE \E r \in Reader : ReaderStep(r)
    <2>1. PICK r \in Reader : ReaderStep(r)
      BY <1>2
    <2>2. CASE r # Monitor
      <3>1. rd'[Monitor] = rd[Monitor]
        <4>1. Monitor \in Reader /\ rd \in [Reader -> ReaderRecord]
          BY MonitorIs DEF IInv, Typed
        <4>2. \E v : rd' = [rd EXCEPT ![r] = v]
          BY <2>1, <4>1 DEF ReaderStep, Fetch, Answer, Fails, StoreCache, StoreLkg,
                            Respond, Cancel
        <4>3. QED BY <2>2, <4>1, <4>2
      <3>2. nap' = nap /\ seen' = seen /\ calm' = calm /\ up' = up
        BY <2>1 DEF ReaderStep, Fetch, Answer, Fails, StoreCache, StoreLkg,
                    Respond, Cancel
      <3>3. QED BY <3>1, <3>2, OthersStand
    <2>3. CASE r = Monitor
      <3>1. CASE Fetch(Monitor)
        BY <1>1, <3>1, FetchStands
      <3>2. CASE Answer(Monitor)
        BY <1>1, <3>2, AnswerStands
      <3>3. CASE Fails(Monitor)
        BY <1>1, <3>3, FailsStands
      <3>4. CASE StoreCache(Monitor) \/ StoreLkg(Monitor)
        BY <1>1, <3>4, StoreStands
      <3>5. ~Respond(Monitor) /\ ~Cancel(Monitor)
        BY DEF Respond, Cancel
      <3>6. QED
        BY <2>1, <2>3, <3>1, <3>2, <3>3, <3>4, <3>5 DEF ReaderStep
    <2>4. QED BY <2>2, <2>3
  <1>3. CASE MonitorTick
    BY <1>1, <1>3, TickStands
  <1>4. CASE \E p \in Provider : Toggle(p)
    BY <1>4, ToggleStands
  <1>5. CASE Elapse
    BY <1>1, <1>5, ElapseStands
  <1>6. CASE UNCHANGED vars
    <2>1. /\ rd'[Monitor] = rd[Monitor] /\ nap' = nap /\ seen' = seen
          /\ calm' = calm /\ up' = up
      BY <1>6 DEF vars
    <2>2. QED BY <2>1, OthersStand
  <1>7. QED
    BY <1>2, <1>3, <1>4, <1>5, <1>6 DEF Next

\* The price monitor (run_price_monitor) is not starved: a price that has stood for
\* Horizon, while some provider answered as long, has been evaluated, whatever
\* providers time out before that one and whoever keeps filling the cache.
THEOREM AlwaysStandingPriceSeen == Spec => []StandingPriceSeen
  <1>1. ASSUME IInv, StandInv PROVE StandingPriceSeen
    <2>1. SUFFICES ASSUME NEW p \in Provider, calm[p] >= Horizon
                   PROVE  seen <= Horizon
      BY DEF StandingPriceSeen
    <2> DEFINE k == Since(rd[Monitor], nap)
    <2>2. /\ k \in Nat /\ k <= Interval + LongestFetch /\ seen \in Nat /\ calm[p] \in Nat
      BY <1>1, MonitorIs
    <2>3. /\ LongestFetch \in Nat /\ TriggerAge \in Nat /\ Interval \in Nat
          /\ Timeout \in Nat \ {0}
      BY ProviderIs, ProviderWork, WorkIs
    <2>4. /\ Horizon \in Nat
          /\ Interval + LongestFetch + TriggerAge <= Horizon
          /\ Interval + LongestFetch + LongestFetch <= Horizon
      BY <2>3 DEF Horizon
    <2>5. Recent(k, seen, calm)
      BY <1>1 DEF StandInv
    <2> HIDE DEF k
    <2>6. CASE seen <= k + TriggerAge
      BY <2>2, <2>3, <2>4, <2>6
    <2>7. CASE NoneFor(calm, k + LongestFetch)
      <3>1. calm[p] + Timeout <= k + LongestFetch
        BY <2>7 DEF NoneFor
      <3>2. QED BY <2>1, <2>2, <2>3, <2>4, <3>1
    <2>8. QED BY <2>5, <2>6, <2>7 DEF Recent
  <1>2. QED
    BY <1>1, InitStands, StepStands, AlwaysIInv, PTL DEF Spec

===============================================================================
