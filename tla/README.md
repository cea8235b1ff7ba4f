# Broadcast Pool: a verification project

Broadcast Pool (`src/sparrow-broadcast-pool`) sits between a Bitcoin wallet
(Sparrow, Liana) and a node.  To the wallet it is an Electrum server; a
transaction the wallet "broadcasts" is kept, shown in a virtual mempool, and
sent later: at a time, at a block height, at a price, or by hand.  This
directory holds TLA+ models of it, the TLC configurations that check them on
small instances, and proofs that TLAPS checks.

## 1. The system

| part | code | state | talks to |
|---|---|---|---|
| pool table | `db/mod.rs`, `db/schema.rs` | one SQLite table of transactions, one connection behind a mutex | every part below |
| PoolManager | `pool/manager.rs` | virtual mempool, indexer client, median-time cache, price feed | table, indexer, RPC |
| scheduler | `pool/scheduler.rs` | five endless loops, each holding the rows it has listed | PoolManager |
| Electrum server | `electrum_server/mod.rs` | one session per wallet connection; background ingest tasks | PoolManager, indexer, broadcast channel of pool events |
| virtual mempool | `pool/virtual_mempool.rs` | pure functions that merge held transactions into what the indexer says | Electrum server |
| web API | `api/mod.rs` | none of its own | PoolManager, configuration |
| command line | `main.rs`, `pool/broadcaster.rs` | a second process on the same table | table, indexer, RPC |
| configuration | `config.rs`, `discovery.rs` | one mutex, one file | API, PoolManager, background discovery |
| price feed | `price/mod.rs` | a cached price and the last known good one, a lock for each | HTTP price sources |
| clients | `rpc/` | none that lasts | Bitcoin Core, electrs or Fulcrum |
| migration plans | `migration/`, `db/mod.rs` | two more tables that no loop reads | command line |
| frigate app | `src/sparrow-frigate` | packaging of an external server, a static page | -- |

What is hard about it:

* **Listed rows grow old.**  Every loop lists rows and then works through them
  one statement or one network call at a time, while the API, the other loops, the
  ingest tasks and a second process change the same rows.  Nearly every `UPDATE`
  is unconditional (`WHERE id = ?`).
* **Sending and recording are two steps**, with a crash, a lost answer or a
  locked database possible in between.
* **The wallet is answered before anything is stored.**
* **Refusals are told apart by their text**, and a configured RPC client hides it.
* **Two backends**, of which one decides whether the loops run at all.
* **The wallet's view has two sources**, the virtual mempool and the indexer, read
  at different moments while a transaction moves from the one to the other.
* **Files outlive processes**: migrations without a transaction, a configuration file
  that is truncated and then written, and command lines that start like the daemon.

What makes it correct: a transaction is not sent before its release condition
holds; the table never claims what has not happened; a record, once made, is
not lost; a held transaction stays private and visible to its wallet; a matured
one is eventually sent, a dropped one sent again, a mined one confirmed; wallets are
told the truth by every connection; a price that fires a trigger is a live one; a
process that starts finds its table and its settings whole.

## 2. The modules

| module | models | checked by | proofs |
|---|---|---|---|
| `PoolDb` | one table row, every query and `UPDATE` of `db/mod.rs` that the daemon or the command line uses, as operators on the table | through `PoolLifecycle` | in `PoolLifecycleProofs` |
| `PoolLifecycle` | everything that works on the rows at once: five loops, ingest, API, a second process, restarts, node and indexer | `MCPoolLifecycle`, `Pool*.cfg` | `PoolLifecycleProofs` |
| `PoolPromise` | what the pool promises, with no loops, clocks, hands or backends | as the property `PromiseKept` of four pool runs | `PoolRefinementProofs` |
| `PoolRefinement` | the mapping from `PoolLifecycle` to `PoolPromise` | `PromiseKept` | `PoolRefinementProofs` |
| `ElectrumSession` | connections of wallets: lines, polls, broadcasts, notifications | `MCElectrumSession`, `Session*.cfg` | `ElectrumSessionProofs` |
| `WalletView` | what the answers contain: the pool and the indexer merged | `MCWalletView`, `WalletView.cfg` | `WalletViewProofs` |
| `ConfigLock` | the configuration mutex, its file and the indexer client | `MCConfigLock`, `Config*.cfg` | `ConfigLockProofs` |
| `Startup` | the start of a process: migrations, discovery, configuration file, rehydration | `MCStartup`, `StartFiles.cfg` | `StartupProofs` |
| `PriceFeed` | providers, cache, last known good price, and the price monitor | `MCPriceFeed`, `PriceChain.cfg` | `PriceFeedProofs` |

`FoldProofs` says what a sum over a finite set comes to; `WalletViewProofs` and
`PriceFeedProofs` rest on it.  `PROJECT.json` maps every definition to the lines it stands for.

### PoolLifecycle

`db` is the table, `vmem` the keys of `PoolManager.pending_txs`.  A step is one
SQL statement, one call to a backend or one change of the virtual mempool, and
what an actor has listed or read stays in its hands in between.  Some steps are
larger, which leaves interleavings out:

* an `UPDATE` and the removal from the virtual mempool that follows it without a call
  in between (`TickRecord`: `mark_broadcast` and `remove_pending_tx`, and likewise
  `RemoveTransaction`): `vmem` may lag behind the row for that moment in the code;
* the requeue of a start, which is a statement per row (`CliStart`, `Restart`);
* the read of the row and the send of a `pool broadcast` (`CliBroadcast`): the daemon can
  change the row in between, which the send, of the same transaction, does not notice;
* the two writes of `import --schedule` (`CliImportAt`), between which no actor lists the row.

The median time is kept for 10 s in the code (manager.rs:614-629) and read anew by every
check of the model: after a reorganisation the code may go on for these seconds with the
later of two times, and the node then refuses what is not final.

| variable | in the code |
|---|---|
| `tickPc`, `tickTodo`, `tickCur`, `tickRes` | `run_scheduler_tick`: mark due rows, requeue failures, send the batch one by one, record each answer |
| `blkTodo`, `prcSeen`/`prcTodo`, `confTodo`, `rebTodo` | the other loops of `pool/scheduler.rs` |
| `ing` | `intercept_and_handle_broadcast` and its background task, per row |
| `api` | a request between its read of the row and its write |
| `cliCur` | a `pool broadcast` process between send and record |
| `net`, `accepted`, `everMined`, `height`, `mtp`, `now`, `price`, `idxUp`, `rpcUp` | the world |
| `ask`, `priceMet`, `raced` | history: the user's last instruction per row, and whether an actor already held the row when it was given |

A transaction is a model value with a locktime (`LockOf`); height and time locks
are told apart by `LOCKTIME_THRESHOLD` as in the code (500 000 000 there, 10 in
the runs).  A refusal is one of the texts `is_retriable_broadcast_error`
tells apart.  `HasTxIndex` says that the node finds a mined transaction by its id;
without it nothing is ever confirmed.  `UserOps` and `EnvOps` switch commands and faults on; a fault
counts towards `MaxFaults`.

### PoolPromise and PoolRefinement

`PoolPromise` gives each row a `stage` (absent, waiting, sent, confirmed, removed).
Its owner releases it, an actor claims it, and only a claimed row is made public,
recorded or put back.  The mapping of `PoolRefinement`: `stage` is the status with
pending, scheduled and failed as one; `released` are the rows with an instruction or
a locktime of their own; `claimed` are the rows in the hands of a loop, an ingest or
a process that will send or mark them; `public` is `accepted` and `chain` what is
mined.  `PromiseKept` says that every step of `PoolLifecycle`, faults included, is a
step of `PoolPromise` or leaves its variables alone.

### ElectrumSession

The state of a transaction is the set of script hashes it is held under; a
status is the set of transactions it hashes.  `ses` is `SessionState` and where
`handle_connection` is, `chan` the receiver of the broadcast channel with its
`Lagged` report, `wal` the wallet and the socket.  `pop_client_line` (a broadcast
overtakes the lines read with it), the reply that does not wait for the indexer,
the one that does, the two stores of a broadcast, enrichment and removal are
actions; a notification is sent after the mutex is released, one per action.

### WalletView

One session and what its answers are made of.  `vm` is `pending_txs`, `known` what
the indexer has; a forwarded request reads the one, then the other, then the one
again (`AskForward`, `IndexerReads`, `Reply`).  `Inject` is what the three
`inject_*` functions share, `Listed` is `modify_upstream_response`; `get_mempool` is
merged like `get_history`.  The wallet fetches a history when it is told to.

### ConfigLock

`owner` is the holder of the `std::sync::Mutex`; `cfg`, `disk` and `client` are
what it protects, the file, and the client.  Each task is an API request or the
background discovery of `main.rs`.  A reconnect takes the lock for every look.
`std::sync::Mutex` is not re-entrant: `owner = NULL` guards every acquisition,
the holder's own included.

### Startup

`cols` are the columns the migrations add, `file` the configuration file, which is
`TORN` between its truncation and its write.  Each process goes through `main`:
`Load`, `Open`, one `Alter` per statement, `Discover`, `Truncate`, `WriteBack`,
`Rehydrate`.  A data directory, a configuration file or a database that cannot be opened
ends the start (`LoadFails`, `OpenFails`: every `?` before the migrations), a migration that
fails does not.  `execute_batch` stops at its first error, "duplicate column" among
them, and `run_migrations` goes on with the next migration.  The daemon and
command lines start at the same time on the same files.

### PriceFeed

A price is its age.  `rd` are the readers of `fetch_snapshot`, each with the request
it waits for; `cache` and `lkg` are behind their locks for one action at a time.  A
tick of the clock passes only when every reader waits for a provider or sleeps, so
that a request never outlives `Timeout`.  A provider takes as many requests as the
code sends it (`Requests`: Bitstamp two, the others one).

### How they compose

`PoolLifecycle` extends `PoolDb`.  `ElectrumSession` sees of a row only its end
(`RemovePendingTx`, any time after `JobInsert`), a superset of what the rows of
`PoolLifecycle` do; `PoolLifecycle` sees of a session only the broadcast it
acknowledges.  `WalletView` takes from both that a transaction may be stored again and
let go of at any time, and adds the indexer.  `Startup` and `ConfigLock` meet in
the settings (`SaveConfig`), `Startup` and `PoolLifecycle` in `Restart`, which takes
the columns for granted.  `PriceFeed` refines the `price` of `PoolLifecycle`:
`PrcFetch` reads a live price there, which is `TriggersAreCurrent` here.

## 3. The runs

| run | instance | question |
|---|---|---|
| `PoolManual` | 1 row without a locktime, both wallets, indexer only, a price that moves, 1 refusal | private until released, no early send |
| `PoolLocked` | 1 row, three locktimes (height, time, exactly the threshold), an indexer without RPC; refusal, outage, restart or reorganisation | no early send, no lost record, what waits stays visible |
| `PoolShared` | 2 rows of one transaction, a second process, failing statements, lost answers | no record undone, nothing done that was not promised |
| `PoolLive` | 1 row, height or time lock, RPC with txindex, blocks, one fault of any kind (a reorganisation, an eviction, a restart, ...), fair | nothing recorded that has not happened; what has matured is sent, what was dropped is resent, what is mined is confirmed |
| `SessionTold` | 2 connections, 1 broadcast, 2 lines each | both wallets are told the truth |
| `SessionDeaf` | 1 connection that may reconnect, 2 broadcasts of one transaction, channel of 2 | told of a removal while nothing is lost; every line answered even so; what is held is queued |
| `ConfigServe` | 2 requests and the background discovery, Umbrel and not, writes that fail | the settings in the file are those in force, on Umbrel its indexer and the client too; nobody waits for ever, except after a save that changes the indexer |
| `StartFiles` | a daemon and a command line, a table of any version, 1 save, 1 fault | columns, settings and virtual mempool whole after any start, refused only for a cause of its own |
| `PriceChain` | the monitor and one web request, 2 providers of 1 and 2 requests | triggers on live prices only, a standing price seen, nobody left without a price too early |
| `WalletView` | 2 addresses, a coin the indexer knows and its spend, each stored once, 1 unanswered request | two sources merged once; what was sent is seen |

`PoolManual`, `PoolLocked`, `PoolShared` and `PoolLive` also check `PromiseKept`.  In `PoolShared` the
transaction is final only at the last height, so that nothing is mined there;
confirmations, and what undoes them, are in `PoolLive`.  `MinedIsConfirmed` assumes `HasTxIndex`.

Two more runs end in a violation.  Each checks what a document or a message of
the program says, against what the code does:

| run | property | what happens |
|---|---|---|
| `ConfigSave` | `RequestAnswered` | `save_config` reconnects with the config guard alive and waits for itself; everything that reads the configuration stops.  On Umbrel the dashboard's "Save Settings" always takes this path when electrs is known |
| `PoolOutageForever` | `SentWithoutIndexer` | with an indexer configured and down the loops do nothing, although RPC is there |

Other departures the models contain.  A passing property excepts them by name, and
shows the case when the exception is dropped; or the instance is changed as said:

* a minimum delay is cut short by an earlier `schedule_at`, because
  `schedule_transaction` leaves `defer_until` alone (`Overruled`);
* `import --schedule T` (`main.rs:80`: "Schedule broadcast at a specific time") writes
  `T` and then overwrites it with a random delay (`CliImportAt`; the instruction
  recorded is the delay, since that is what the code then keeps);
* a row requeued by a restart is missing from the virtual mempool, and a start without an
  indexer leaves it empty for good (both excepted in `HeldStaysVisible`, the second in
  `ServesRehydrated`), and the removal of one row hides a transaction that another row
  still holds;
* a transaction that the wallet was told is "broadcast" is lost when its insert fails or
  the daemon dies before it (`IngestFail`, `Restart`): `HeldStaysVisible` speaks of what
  something still keeps waiting;
* `schedule_at` puts a broadcast or confirmed row back into the queue (`Instruct`);
* a connection whose receiver lags goes on showing what has left (drop `~lost`
  in `OutputsTold`);
* a wallet that goes before its acknowledgement leaves a transaction in the virtual
  mempool that no row will send, and so does a failed insert (`orphans` in
  `HeldIsQueued`), though `umbrel-app.yml:16` says that what is held there waits for
  the scheduler; the second store of a broadcast brings back what has left (`gone`);
* the session's last broadcast is shown for every address and its removal told only
  to its own (put `Sh` in place of `vm[t]` in `RemovePendingTx`);
* while anything is held for an address, its history and status are made from the
  pool alone, so that confirmed transactions disappear from it (`owed` is emptied
  by `AskFast`); upstream notifications are never relayed, so a removal that comes
  before the indexer knows the transaction is the last news of it (`t \in known` in
  `owed`);
* a balance counts twice what the indexer knows and the pool still holds
  (the `>=` in `HeldIsShownOnce`, which is not an `=`), and neither balance nor coins leave out what a held
  transaction spends;
* an indexer of the user's that is down during one start is replaced for good by one
  that is found, though `config.rs:63` says "when true, startup skips
  auto-discovery", and any start overwrites a save it overlaps (`excused` in
  `SettingsKept`);
* a migration cut short is never completed (`cut` in `SchemaWhole`), and every query of
  the table fails from then on;
* `cached_prices` (`price/mod.rs:278`) has no age limit, so the dashboard's list may
  show any old price as the current one (not modelled: no action depends on it);
* a save on Umbrel while electrs does not answer forgets the indexer, and a
  discovery whose file cannot be written never connects (drop `cleared` or
  `failed` in `ClientIsConfigured`).

### Bounds, and why they are enough

`MaxTime`, `MaxHeight`: the clock and the chain pass every locktime and every
time a command may choose, with one step to spare.  `MaxFaults` is 1: each fault
may fall between any two steps; properties that need two faults are named above.
`MaxLines`: a poll and a broadcast in either order on each connection, and a
wallet that reconnects starts over (`AckedIsPolled` speaks of any later poll without
needing its line).  `ChanCap`: 10 where nothing may
be lost (more than the notifications of a behaviour), 2 where the receiver must
lag.  `MaxTries`: the background discovery gets a second attempt.  `MaxStores`: one
store each, since the spend and its coin already overlap in every order.  `MaxErrors`, `MaxSaves`: one, at
any moment.  In `PriceFeed`, ages from `Cap` on are one age (`PriceAssumption`
makes `Cap` larger than every limit an age is compared with), and providers change only while readers wait (`Waiting`), which
leaves out changes between two steps that take no time.  `Timeout`, `Ttl`, `MaxLkg`,
`Interval` keep their order of the code (8 s, 60 s, 600 s, 60 s).  `Horizon` is
tight: `StandingPriceSeen` fails with one tick less.  One row shows
every interleaving about a row; two show the effects between rows (a batch that
is abandoned, a virtual mempool entry shared).

`CHECK_DEADLOCK FALSE` stands in the `Session` runs, where the wallets fall silent
when their lines are used up and everything is delivered, and in the `Config`
runs, where the program really stops, and in `WalletView`, where the wallet has
everything and nothing is left to store.  Symmetry is used for rows (`PoolShared`)
and sessions (`SessionTold`), only with safety properties.

### Fairness

`PoolLifecycle`: each loop is an endless task and begins and continues its passes;
an ingest runs to its end; a request or a process in its second half finishes.
`BackendFairness` (outages end) is separate, so that `OutageSpec` can do without.
The user and the node owe nothing.  `ElectrumSession`: the runtime runs every
connection and job that can go on, and a forwarded request ends in its time-out;
wallets owe nothing, and the receive branch is fair only while it is enabled.
`ConfigLock`: threads that are not blocked run.  The number of requests is finite,
so weak fairness is enough to give a free mutex to whoever waits.  `Startup`: a
process that has begun to start is run; saves, faults and exits owe nothing.
`WalletView`: a request is answered, and notifications and refetches are strongly
fair, because a session that is busy with other requests comes back to its `select!`
after each of them and a wallet sends what it was told to fetch; the indexer's
learning and the pool's letting go owe nothing.  `PriceFeed` needs none: time does
not pass while a step is due.

## 4. The proofs

Each component's theorems are in a module of their own and hold for every value of
its constants: any rows, transactions, connections, processes, requests, providers,
capacities and bounds, and any set of commands and faults.

| module | theorem | states |
|---|---|---|
| `PoolLifecycleProofs` | `AlwaysTypeOK` | `[]TypeOK` |
| | `AlwaysRecordedMeansHappened` | `[]RecordedMeansHappened` |
| | `AlwaysRecordIsKept` | `RecordIsKept`, of every step |
| | `AlwaysHeldStaysVisible` | `HeldStaysVisible`, of every step |
| | `AlwaysInstructionHonoured` | `InstructionHonoured`, of every step |
| `PoolRefinementProofs` | `StepImplements`, `Refinement` | `PromiseKept`: the pool implements `PoolPromise` |
| | `AlwaysHeldStaysPrivate` | `[]HeldStaysPrivate` |
| `StartupProofs` | `AlwaysTypeOK`, `AlwaysSchemaWhole`, `AlwaysServesRehydrated`, `AlwaysSettingsKept` | the invariants of those names |
| | `NeverRefusedOtherwise` | `RefusedForCause`, of every step |
| `ConfigLockProofs` | `AlwaysTypeOK`, `AlwaysClientIsConfigured`, `AlwaysFileIsCurrent` | the invariants of those names |
| | `AlwaysGuarded`, `HungForEver` | who may hold the mutex, and that a save that hangs does so for good |
| `WalletViewProofs` | `AlwaysTypeOK`, `AlwaysHeldIsShownOnce` | the invariants of those names |
| `ElectrumSessionProofs` | `AlwaysTypeOK`, `AlwaysOutputsTold`, `AlwaysAckedIsPolled`, `AlwaysHeldIsQueued` | the invariants of those names |
| `PriceFeedProofs` | `AlwaysTypeOK`, `AlwaysTriggersAreCurrent`, `AlwaysStandingPriceSeen` | the invariants of those names |
| | `AlwaysFallbackHolds` | `FallbackHolds`, of every step |

Hardly any of these is inductive as it stands.  What each needs besides:

**Pool.**  A loop records an answer for a row that the table may have changed since.
`IInv` adds `Hands`, what every actor may rely on about the row it holds: rows in
hand are known and keep their transaction for ever, an "ok" in hand means that the
node accepted that transaction, a row the confirmation checker has seen mined was
mined.  Most statements bring no news of the network (`Quiet`): one
lemma carries the invariant through all of them (`QuietKeeps`), one through steps that
leave the rows alone (`SameRows`), one through actors that do nothing (`Undisturbed`).
`AlwaysRecordIsKept` follows from `IInv` by a look at each statement.
`AlwaysHeldStaysVisible` has no hypothesis on commands or faults.  Few steps take anything from
the virtual mempool (`StepHides`): the record of a send, by which time a node has the
transaction (`Hands`), and a removal; a restart reads the waiting rows back (`RestartShows`).

**No early send.**  `InstructionHonoured` speaks of the moment of a send only, and the row
is listed, marked and claimed long before.  `WaitInv` says of every row the table has known
whose instruction is not fulfilled yet that the broadcast loop's batch does not hold it
and that it waits in one of five ways (`Awaits`): untouched and without a time
(`AwaitsRelease`), for its price (`AwaitsPrice`), for its time (`AwaitsTime`), all three
with no loop about to mark it; behind a `defer_until` not before what was asked, which
`is_tx_due_for_broadcast` obeys whoever marks the row (`AwaitsDefer`); or for its block,
which `is_locktime_satisfied` checks in the same place (`AwaitsBlock`).  `LeavesAlone`, `MarksRow` and `Fixes` classify the
statements by what they may do to a waiting row, and every actor comes down to one of
`UndisturbedWaits`, `MarkedWaits` and `ReleasedWaits`.  The theorem needs `MaxHeight <
LOCKTIME_THRESHOLD` (`PoolAssumption`): a locktime of exactly 500000000 is neither height
nor time for `resolve_ingest_plan`, but a height for `is_locktime_satisfied`, which no
chain reaches.  If one did, a delay given to such a row between its ingest's insert and
its mark would be overwritten by the mark.

**Refinement.**  The mapping forgets who holds a row and how.  `HoldInv` says what it
needs: a row that nobody released waits without a time, a price or a block of its own
(`Withheld`), so that no query of `db/mod.rs` lists it; every actor holds released rows only
(`HandsReleased`); what is public was released (`PublicReleased`).  Statements are then
classified by what they do to the stages of the promise (`Stays`, `StagesSettle`), and
each group of actions is shown to be a step of `PoolPromise` or none
(`IngestImplements`, `TickImplements`, `LoopsImplement`, `CommandsImplement`,
`WorldImplements`).  `HeldStaysPrivate` is a consequence.

**Start.**  Two invariants that read nothing of each other, each proved from the types:
`SchemaInv` (where a process is in its migrations, who else is in the same one, and
which columns of a migration can be missing and why) and `FileInv` (a file that is not
what was saved has a named reason, and every process that is starting holds what
was saved, or has one).  `NeverRefusedOtherwise` follows from the second: a start that cannot
read its file finds one that is being written, or whose write was cut short.

**Configuration.**  `IInv` ties the program counters to the mutex: a task in a handler's
body holds it, and who holds it is there or is a save that hangs (`GuardsHeld`).
On Umbrel the indexer is set at most once without a save that drops it, so that at most one
reconnect is under way and what it has read is still true (`OneReconnects`).
`HungForEver` generalises the run `ConfigSave`: in no instance does a save that has come
to its reconnect, with the guard alive, move again, and nobody changes the mutex, the
configuration or the file after it.

**Answers.**  A forwarded request remembers a subset of what the same filter would find
now (`KeptIsPending`): transactions leave that set when the pool lets go of them, and
stores only add to it.  The balance adds amounts where the lists merge coins: it is shown to
be a sum over `Tx` (`PaidIsSum`) of what each side knows, with what is on both counted twice
(`BalanceCounts`), so that it is no less than the coins of the two sides together.

**Sums.**  The folds of the community modules are `CHOOSE`n recursive functions on sets,
and the induction theorems of the library are out of reach.  `FoldProofs` does
without them: a set of numbers has a least member (`Least`), a family of finite sets
one of which no part is in it (`Smallest`), so that a set for which the recursion
has no solution, or two, would have a smaller one.  From that come the existence of the
fold (`FoldExists`), that the order does not matter (`FoldIsSum`), that a sum depends on
its values only (`SumsAgree`), and that two sums together count twice what is in both
(`SumTwo`).

**Sessions.**  The invariant has four layers, each proved from the ones before: each line
a wallet has sent is in one place (`LineInv`); each broadcast is counted once and no row has more inserts than
broadcasts, so a session that acknowledges one finds a job that is free
(`CountInv`); what is held has a row, a job or a session behind it, and is held under all its
outputs (`HeldInv`); what a wallet was told is the truth or the news is on its way,
through a channel that may lose its oldest entries (`ToldInv`).

**Price.**  The age of a price is bounded at every stage of its way: at most `Timeout` per
request while a provider is asked, that plus the time since it was stored in the
cache, and what a reader holds (`Sound`, `CacheSound`, `LkgSound`).  `FallbackHolds` compares the
last known good price with `live`, the time since any reader went on with a live one: between
the two stores of a fetch apart, the one stored is never older than `live` and the time a
price may spend in the cache (`LiveSound`), whichever of several fetches is stored last.  `MostRequestsIs` and `LimitIs` are about the
chain itself.

`StandingPriceSeen` needs to know what the monitor did since its last sleep.  `StandInv`
measures that time (`Since`: the sleep, and the requests asked so far, of which each took
at most `Timeout`) and says that either the evaluated price is no older than it and
`TriggerAge`, or no provider answered for the whole of it and a longest fetch before
(`Recent`).  A provider can be passed over only while it does not answer, so every
one before the provider that is being asked has answered for less time than the monitor
has asked since (`Passed`).  The cache does not disturb it: a snapshot from it is
never stale, whoever put it there.  How long the chain takes is a sum over its providers
(`Before`, `ProviderWork`).

Assumptions, each named in the module that declares the constants and evaluated by TLC:
`PoolDbAssumption` and `PoolAssumption` (types, a clock that passes the threshold, and a
chain that does not);
`StartupAssumption` and `ValueAssumption`, `ConfigAssumption`, `SessionAssumption`,
`ViewAssumption`, `PriceAssumption` (types, `Ttl <= MaxLkg` as in `price/mod.rs`, and a
`Cap` above every limit).  Several say that `NULL` is none of the values it may stand
beside (a snapshot, a set of script hashes), and that there are finitely many
connections and, in `WalletView`, transactions.

Model-checked only: all liveness (`MaturedIsSent`, `DroppedIsResent`, `MinedIsConfirmed`,
`EveryLineAnswered`, `OutputsLearnLeaving`, `AnsweredUnlessSaved`, `LoopsUnlessSaved`,
`StartEnds`, `SentIsSeen`), because the prover has no rules for fairness and `ENABLED`.
Every invariant and every action property that a passing run checks is also a theorem.

## 5. Not modelled

* Wire formats, hex, scripts, addresses, fees and time-outs of the clients; the
  scan of `discovery.rs` (its result is nondeterministic).
* Fee, header and handshake answers, and the chain tip cache behind the header
  answer; batches that mix a broadcast with other requests.
* `migration_plans` and `migration_utxos`: no loop reads them.
* The start on Umbrel (its discovery is in `ConfigLock`), environment overrides.
* Several networks: rows of another network are invisible to every query.
* `src/sparrow-frigate`, packaging, the dashboard page.

## 6. Plan

1. Done: `PoolDb`, `PoolLifecycle` with its first theorems, `ElectrumSession`,
   `ConfigLock`; `PoolPromise` and the refinement, `Startup`, `PriceFeed`, `WalletView`.
2. Done: the theorems of section 4 (the refinement, and with it `HeldStaysPrivate`; the
   invariants of `Startup`, `ConfigLock`, `WalletView`, `ElectrumSession`, `PriceFeed`).
3. Done: `InstructionHonoured`, with the invariant that says, per instruction, what the row
   of the table says and who may hold it.
4. Done: the sums (`FoldProofs`), and with them the balance in `HeldIsShownOnce` and
   `StandingPriceSeen`.
   What is left to prove is liveness, which waits for a prover that has it.
