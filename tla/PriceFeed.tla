------------------------------ MODULE PriceFeed ------------------------------
(***************************************************************************)
(* The price of Bitcoin as the pool learns it (price/mod.rs), and the      *)
(* monitor that fires price triggers with it (scheduler.rs, run_price_     *)
(* monitor).  The monitor and the handlers of the web API share a cache    *)
(* and a last known good price, each behind a lock of its own that nobody  *)
(* holds while providers are asked: any number of readers may find the     *)
(* cache expired and fetch at the same time.                               *)
(*                                                                         *)
(* Time passes in ticks.  A price is represented by its age, the ticks     *)
(* since a provider quoted it; the amounts play no part.  Steps that wait  *)
(* for nothing take no time (a tick is seconds).                           *)
(***************************************************************************)
EXTENDS Integers, Sequences, FiniteSets

SeqX == INSTANCE SequencesExt
SetX == INSTANCE FiniteSetsExt

CONSTANTS
    Reader,      \* the price monitor and handlers of the web API
    Monitor,     \* the price monitor
    Requests,    \* per provider of the chain, in order: the requests it takes
    Timeout,     \* PROVIDER_TIMEOUT, of one request
    Ttl,         \* CACHE_TTL
    MaxLkg,      \* LKG_MAX_AGE
    Interval,    \* the monitor's sleep between two ticks
    Cap,         \* bound: ages from Cap on are one age
    NULL         \* None

Provider == DOMAIN Requests

MostRequests == SetX!Max({Requests[p] : p \in Provider})

\* The age of the oldest price that fires triggers.
TriggerAge == Ttl - 1 + Timeout * MostRequests

\* The age of the oldest price that is shown.
LkgAge == MaxLkg + Timeout * MostRequests

\* The longest a fetch takes: every request of every provider times out.
LongestFetch == Timeout * SeqX!FoldLeft(LAMBDA n, k : n + k, 0, Requests)

\* A price that stands this long is seen by the monitor, if a provider stands
\* as long: a sleep and the fetch after it, and before them a fetch that failed,
\* or the age a cached price had when it was evaluated.
Horizon ==
    Interval + LongestFetch
    + IF LongestFetch > TriggerAge THEN LongestFetch ELSE TriggerAge

Age == 0 .. Cap

\* quote: since the provider answered the first request of the snapshot.
\* fetched: since fetched_at.  cached_at is stamped in the same tick.
Snapshot == [quote : Age, fetched : Age, stale : BOOLEAN]

ASSUME PriceAssumption ==
    /\ Monitor \in Reader
    /\ Requests \in Seq(Nat \ {0}) /\ Requests # <<>>
    /\ Timeout \in Nat \ {0} /\ Ttl \in Nat \ {0}
    /\ MaxLkg \in Nat /\ Interval \in Nat \ {0}
    /\ Ttl <= MaxLkg
    /\ Cap \in Nat /\ Cap > LkgAge /\ Cap > TriggerAge /\ Cap > Horizon
    /\ \A snap \in Snapshot : snap # NULL

VARIABLES
    up,     \* the providers that answer, with both prices
    cache,  \* the CachedEntry, or NULL
    lkg,    \* the last known good snapshot, or NULL
    rd,     \* the readers
    nap,    \* the ticks the monitor has slept
    \* --- history ---
    seen,   \* age of the newest price that triggers were evaluated with
    live,   \* since a reader last went on with a price that is not stale
    calm    \* per provider: for how long it has answered

vars == <<up, cache, lkg, rd, nap, seen, live, calm>>

ReaderRecord ==
    [pc       : {"idle", "ask", "cache", "lkg", "use", "error"},
     provider : Provider,      \* the provider being asked
     request  : Nat,           \* the request of it that is outstanding
     wait     : 0 .. Timeout,  \* since that request was sent
     first    : Age,           \* since its first request was answered
     snap     : Snapshot \cup {NULL}]

TypeOK ==
    /\ up \subseteq Provider
    /\ cache \in Snapshot \cup {NULL}
    /\ lkg \in Snapshot \cup {NULL}
    /\ rd \in [Reader -> ReaderRecord]
    /\ \A r \in Reader : rd[r].request \in 1 .. Requests[rd[r].provider]
    /\ nap \in 0 .. Interval
    /\ seen \in Age /\ live \in Age
    /\ calm \in [Provider -> Age]

Idle == [pc |-> "idle", provider |-> 1, request |-> 1, wait |-> 0,
         first |-> 0, snap |-> NULL]

\* The monitor's first tick is not preceded by a sleep.
Init ==
    /\ up \in SUBSET Provider
    /\ cache = NULL /\ lkg = NULL
    /\ rd = [r \in Reader |-> Idle]
    /\ nap = Interval
    /\ seen = Cap /\ live = Cap
    /\ calm = [p \in Provider |-> 0]

-----------------------------------------------------------------------------
(* fetch_snapshot.                                                         *)

\* The cache is looked at under its lock, which is then let go of.
Fetch(r) ==
    /\ rd[r].pc = "idle"
    /\ r = Monitor => nap = Interval
    /\ rd' = [rd EXCEPT ![r] =
                IF cache # NULL /\ cache.fetched < Ttl
                THEN [Idle EXCEPT !.pc = "use", !.snap = cache]
                ELSE [Idle EXCEPT !.pc = "ask"]]
    /\ UNCHANGED <<up, cache, lkg, nap, seen, live, calm>>

\* The outstanding request of r is answered.  Both prices of a provider come
\* from one request, but for Bitstamp, which is asked for each.
Answer(r) ==
    /\ rd[r].pc = "ask" /\ rd[r].provider \in up
    /\ \E age \in 0 .. rd[r].wait :
          LET first == IF rd[r].request = 1 THEN age ELSE rd[r].first
          IN  rd' = [rd EXCEPT ![r] =
                IF rd[r].request < Requests[rd[r].provider]
                THEN [rd[r] EXCEPT !.request = @ + 1, !.wait = 0,
                                    !.first = first]
                ELSE [Idle EXCEPT !.pc = "cache",
                        !.snap = [quote |-> first, fetched |-> 0,
                                  stale |-> FALSE]]]
    /\ UNCHANGED <<up, cache, lkg, nap, seen, live, calm>>

\* lkg_snapshot: how a reader goes on when every provider has failed.
LkgSnapshot ==
    IF lkg # NULL /\ lkg.fetched <= MaxLkg
    THEN [Idle EXCEPT !.pc = "use", !.snap = [lkg EXCEPT !.stale = TRUE]]
    ELSE [Idle EXCEPT !.pc = "error"]

\* Mutant: the first provider that fails ends the fetch.
Bug_AfterFailure(r) == LkgSnapshot

\* Mutant: one provider too many is asked.
Bug_ChainEnd(r) ==
    IF rd[r].provider <= Len(Requests)
    THEN [Idle EXCEPT !.pc = "ask", !.provider = rd[r].provider + 1]
    ELSE LkgSnapshot

\* fetch_fresh: the next provider of the chain, if there is one.
AfterFailure(r) ==
    IF rd[r].provider < Len(Requests)
    THEN [Idle EXCEPT !.pc = "ask", !.provider = rd[r].provider + 1]
    ELSE LkgSnapshot

\* An error, an incomplete answer, or none before the time-out.
Fails(r) ==
    /\ rd[r].pc = "ask" /\ rd[r].provider \notin up
    /\ rd' = [rd EXCEPT ![r] = AfterFailure(r)]
    /\ UNCHANGED <<up, cache, lkg, nap, seen, live, calm>>

StoreCache(r) ==
    /\ rd[r].pc = "cache"
    /\ cache' = rd[r].snap
    /\ rd' = [rd EXCEPT ![r].pc = "lkg"]
    /\ UNCHANGED <<up, lkg, nap, seen, live, calm>>

\* Mutant: only the first good price is kept.
Bug_StoreLkg(r) ==
    /\ rd[r].pc = "lkg"
    /\ lkg' = IF lkg = NULL THEN rd[r].snap ELSE lkg
    /\ rd' = [rd EXCEPT ![r].pc = "use"]
    /\ UNCHANGED <<up, cache, nap, seen, live, calm>>

StoreLkg(r) ==
    /\ rd[r].pc = "lkg"
    /\ lkg' = rd[r].snap
    /\ rd' = [rd EXCEPT ![r].pc = "use"]
    /\ UNCHANGED <<up, cache, nap, seen, live, calm>>

-----------------------------------------------------------------------------
(* What the readers do with the answer.                                    *)

\* Mutant: a stale snapshot is as good as a fresh one.
Bug_Evaluates(r) == rd[r].pc = "use"

\* run_price_monitor: triggers are not evaluated with a stale snapshot.
Evaluates(r) == rd[r].pc = "use" /\ ~rd[r].snap.stale

\* History: r goes on, with a live price or not.
GoesOn(r) ==
    live' = IF rd[r].pc = "use" /\ ~rd[r].snap.stale THEN 0 ELSE live

\* check_price_triggers, or not, and the sleep begins.
MonitorTick ==
    /\ rd[Monitor].pc \in {"use", "error"}
    /\ seen' = IF Evaluates(Monitor) THEN rd[Monitor].snap.quote ELSE seen
    /\ nap' = 0
    /\ rd' = [rd EXCEPT ![Monitor] = Idle]
    /\ GoesOn(Monitor)
    /\ UNCHANGED <<up, cache, lkg, calm>>

\* get_btc_price answers with the snapshot and its stale mark, or with 502;
\* list_transactions goes on either way.
Respond(r) ==
    /\ r # Monitor /\ rd[r].pc \in {"use", "error"}
    /\ rd' = [rd EXCEPT ![r] = Idle]
    /\ GoesOn(r)
    /\ UNCHANGED <<up, cache, lkg, nap, seen, calm>>

\* The client of a handler goes away, which drops the fetch where it waits.
Cancel(r) ==
    /\ r # Monitor /\ rd[r].pc = "ask"
    /\ rd' = [rd EXCEPT ![r] = Idle]
    /\ UNCHANGED <<up, cache, lkg, nap, seen, live, calm>>

-----------------------------------------------------------------------------
(* Time, and the providers.                                                *)

\* Bound: a provider comes or goes when nobody is between two steps.
Waiting == \A r \in Reader : rd[r].pc \in {"idle", "ask"}

Toggle(p) ==
    /\ Waiting
    /\ up' = IF p \in up THEN up \ {p} ELSE up \cup {p}
    /\ calm' = [calm EXCEPT ![p] = 0]
    /\ UNCHANGED <<cache, lkg, rd, nap, seen, live>>

Older(age) == IF age < Cap THEN age + 1 ELSE age

OlderSnap(snap) ==
    IF snap = NULL THEN NULL
    ELSE [snap EXCEPT !.quote = Older(@), !.fetched = Older(@)]

\* A request that is not answered in time fails, and the monitor wakes up.
Elapse ==
    /\ Waiting
    /\ \A r \in Reader : rd[r].wait < Timeout
    /\ rd[Monitor].pc = "idle" => nap < Interval
    /\ cache' = OlderSnap(cache)
    /\ lkg' = OlderSnap(lkg)
    /\ rd' = [r \in Reader |->
                IF rd[r].pc = "ask"
                THEN [rd[r] EXCEPT !.wait = @ + 1,
                        !.first = IF rd[r].request > 1 THEN Older(@) ELSE @]
                ELSE rd[r]]
    /\ nap' = IF rd[Monitor].pc = "idle" THEN nap + 1 ELSE nap
    /\ seen' = Older(seen) /\ live' = Older(live)
    /\ calm' = [p \in Provider |-> IF p \in up THEN Older(calm[p]) ELSE 0]
    /\ UNCHANGED up

-----------------------------------------------------------------------------
ReaderStep(r) ==
    \/ Fetch(r) \/ Answer(r) \/ Fails(r) \/ StoreCache(r) \/ StoreLkg(r)
    \/ Respond(r) \/ Cancel(r)

Next ==
    \/ \E r \in Reader : ReaderStep(r)
    \/ MonitorTick
    \/ \E p \in Provider : Toggle(p)
    \/ Elapse

Spec == Init /\ [][Next]_vars

-----------------------------------------------------------------------------
(* Properties.                                                             *)

\* A price that fires triggers is a live one: no older than the cache may be,
\* and the time its provider took to send it, also when other readers filled
\* the cache or all providers fail.
TriggersAreCurrent ==
    Evaluates(Monitor) =>
        rd[Monitor].snap.quote <= TriggerAge

\* Once anybody went on with a live price, a reader whom all providers fail is
\* not left without one before LKG_MAX_AGE is over, less the age that price had in
\* the cache, whichever reader fetched it and whoever else stores one meanwhile
\* (but for the moment between the two stores of a fetch); and no reader goes on
\* with a price quoted longer ago than LKG_MAX_AGE and the time to send it.
FallbackHolds ==
    [][\A r \in Reader : rd[r].pc = "ask" =>
         /\ rd'[r].pc = "error" =>
               live + Ttl > MaxLkg \/ \E q \in Reader : rd[q].pc = "lkg"
         /\ rd'[r].pc = "use" => rd'[r].snap.quote <= LkgAge]_vars

\* A price that stands for Horizon is one the monitor evaluates triggers with,
\* if any one provider answers as long, whatever the others do: it is not
\* starved by time-outs before that provider, nor by a cache that the web API
\* keeps filling.
StandingPriceSeen ==
    \A p \in Provider : calm[p] >= Horizon => seen <= Horizon
=============================================================================
