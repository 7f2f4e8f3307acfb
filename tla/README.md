# MEV-Bot-V2: verification project

TLA+ models of the concurrent core of MEV-Bot-V2, TLC configurations that check
them on small instances, and TLAPS proofs of the main results for all instances.
Paths below are relative to the repository (`src/` in PROJECT.json).

## 1. The system

Two programs share the repository: `bot/cmd/bot-v2-alpha` (dispatcher and executor
modes, the production path described in `docs/App Summary.md`) and `bot/cmd/bot-v2`
(pool listeners writing reserves to SQLite). Around them lie a GMX dashboard,
Solidity contracts and command line tools.

### bot-v2-alpha, dispatcher mode

    chain --logs--> Subscriber --App.Logs--> App.Run --go--> EventRouter.HandleLog
                                                               |         |
                                        known pool: ProcessSwap|         |unknown pool
                                                               v         v
        Market cache (RWMutex) <--- Market.Service      DiscoveryQueue -> Discovery.Run
             ^      ^                 pendingLogs  <------- ProcessPendingLogs / Cleanup
             |      |                    |                       |
          Updater  Scanner <- Scan ------+                       v
                     |  \------ opportunities, swaps, pools --> DBWriter -> SQLite
                     v
                  Hub (WebSocket) --> clients of executor mode --> Executor --> node

| component | state it keeps | operations | what is hard | what makes it correct |
|---|---|---|---|---|
| Subscriber, App.Run (`bot/Subscriber`, `bot/App`) | subscription channel, `App.Logs` (1000) | forward or drop a log, start a handler | logs before the subscription, a full channel, handlers in any order | a log is handed to exactly one handler or dropped |
| EventRouter | none | `HandleLog` | check-then-act over two locks and a queue | every log is applied, waits, or is given up on purpose |
| Discovery | `DiscoveryQueue` (1000), `failedDiscoveries` | `processDiscovery`, `discoverAndCachePool` | several discoveries of a pool at once; early returns; chain state newer than the log | each pool's waiting logs are drained once; records before swaps |
| Market | `pendingLogs` | `ProcessSwap`, `AddPendingLog`, `ProcessPendingLogs`, `CleanupPendingLogs` | one goroutine per log on shared `PoolState`s | no update lost or doubled |
| Cache | `TickerToPools`, `PoolToTicker`, RWMutex | lookup, append, `GetPoolByAddress` | Go's RWMutex (waiting writers block new readers) | readers see whole states |
| Scanner | none | `Scan` | blocks on the Hub and the DB queue under the read lock | reads no half-done update; always returns |
| Updater | none | `updatePools` | fetch outside the lock, apply inside | refreshes end |
| Dispatcher Hub | `clients`, three unbuffered channels | register, unregister, broadcast | one goroutine serves all; a write may fail or block | working connections get everything |
| Arbitrage client | connection, `reconnectDelay` | dial, read, hand over | lost connections, back-off | nothing is executed twice |
| Multicall service (`bot/Multicall`) | `tokenCache` (10000) | `GetTokenMetadataBatch`, `FetchPoolReservesBatch` | batches of which one call fails; two discoveries of one token | a token has the same metadata everywhere |
| Executor | `nextNonce`, `nonceInited`, mutex | `Execute`, `createDynamicTx` | concurrent nonce allocation, errors after allocation, node answers that hide an effect | unique, contiguous nonces; every call returns |
| DBWriter | `WriteQueue` (2048), `batch` (100), SQLite | enqueue, commit, roll back | failing transactions, crash with a half-full batch | FIFO, all-or-nothing groups, references intact |

### bot-v2

    factories --> ListenV2/V3FactoryEvents --newPoolChan--> New Pool Manager
                                                         |             |
                                            activeV2/V3Pools   restartV2/V3ListenerChan
                                             (poolsMutex)              |
                                                         v             v
    pools --> ListenV2/V3Events  <---start, cancel, wait--- managePoolListener (V2, V3)
                     |
              processedDataChan -> cache updater -> dbWriteChan -> DB writer -> SQLite

| component | state it keeps | operations | what is hard | what makes it correct |
|---|---|---|---|---|
| factory listener (`bot/blockchain/factory_listener_*`) | subscription, log in hand | historical scan, subscribe, report | blocked on a full `newPoolChan` at shutdown | returns when its context is done |
| New Pool Manager (`main.go:161`) | active pools, under a mutex | verify, add, signal | its signal is dropped when one is pending | no active pool is forgotten |
| listener manager (`main.go:282`) | the current listener's context and wait group | restart, stop | the old listener may be fetching, subscribing, listening, or dead | one listener per protocol; returns after it |
| event listener (`listener_*`) | subscription | initial fetch, subscribe, listen | cancelled at any point | stops |
| update pipeline (`main.go:101-159`, `storage`, `cache`) | two channels (1024), cached and stored pools | cache, forward or discard, save, drain | send with a timeout, drain at shutdown, logs of the past sent again | new data never goes back; what is forwarded before the shutdown is saved |

### Other parts

* `GMX/`: a websocket hub of its own, an RPC server, a terminal UI.
* `contracts/`: a diamond with an arbitrage calculator library.
* pricing, event decoding, quote checker: pure computation or RPC.

PROJECT.json lists every part with its status, and under `hazards` every place that is
hard to test, at its line.

## 2. Modules

| module | models | state and actions |
|---|---|---|
| `PoolDiscovery` | Subscriber, App.Run, EventRouter, Discovery, pending logs | one control state per `HandleLog` and per `processDiscovery` goroutine; one action per critical section or channel operation. Reserves are the *set of swaps they count* (`seen` by the fetch, `applied` since), because V2 deltas commute. `ProcessSwap` gives up the logs that do not parse (`Unparsable`), which are then `dropped` |
| `SwapLedger` | (abstract) | what `PoolDiscovery` promises: the fate of a swap (counted, lost, dropped as unparsable, or discarded with others of its own pool) is decided once and for all |
| `MarketState` | `ProcessSwap`, `Scan`, the Updater on the cache's RWMutex | the RWMutex with its waiting readers; two fields per pool, written one after the other; prices as the pair of values they were computed from. A read racing with a write may return anything (`Torn`) |
| `AtomicUpdates` | (abstract) | what `MarketState` promises: updates of a pool happen one at a time, none is lost |
| `DBWriter` | `Database.DBWriter` and its clients | queue, batch, committed rows; begin errors, roll-backs, crashes |
| `LossyLog` | (abstract) | what `DBWriter` promises: accepted requests become durable in order and in groups, or are lost in groups |
| `PoolRecords` | `DBWriter` together with `discoverAndCachePool`, `GetTokenMetadataBatch`, `loadAndCacheFromDB` | extends `DBWriter`: each request gets its content (a token's decimals); token cache, `PoolState`s, table rows; calls that fail or answer wrongly; the reload at a restart |
| `Prices` | the two price formulas, the liquidity check and `Scan`'s choice of pairs | a V2 and a V3 pool moving on chain; prices as exact fractions, on a scale small enough to enumerate |
| `Executor` | `Executor.Service` and the node | mutex, counter, one control state per `Execute`; the node's pool and the mined nonce; restarts |
| `Dispatcher` | Hub, `ServeWs`, client loop | Hub's loop split at each write; links that break, wires that lose |
| `PoolTracking` | bot-v2's factory listeners, New Pool Manager, listener managers, the life of the event listeners, `main`'s start and shutdown | one control state per goroutine, parameterised by the protocol (as far as it is modelled, the V2 and V3 files are the same code); every listener a manager ever started, with its pools, its context and its state; the restart channel as a Boolean |
| `UpdatePipeline` | bot-v2's initial fetches, event loops, `processedDataChan`, cache updater, `dbWriteChan`, DB writer, restarts and shutdown | a pool's data is its *version*, one for its first log from `cfg.StartBlock` on and one more with every swap; a subscription may first send the logs of the past again (`query.FromBlock`), which the model marks as `replayed`; both channels as sequences; one control state per goroutine; which protocols fill the cache their event loop looks into (`Caching`) |
| `SeqFacts`, `*Proofs` | | lemmas on sequences; the proofs of section 4 |
| `MC*` | | the constants of the runs |

The components meet at the following seams. `PoolDiscovery` treats `ProcessSwap` as one
step that adds the swap to the applied ones or, if it does not parse, drops it;
`MarketState` takes that step apart and shows (by refinement of `AtomicUpdates`) that a
swap's delta is added at once and at most once. That a swap which parses is added at all
is `PoolDiscovery`'s to say, on the assumption that the step ends: `AtomicUpdates` permits
a swap never to be counted. `MarketState` treats the DB
queue as a bounded counter and the Hub as busy or free; `DBWriter` and `Dispatcher` model
them. `MarketState` does not repeat the insertion of pools or `HandleLog`'s own lookup:
they take the same lock in the same way. In `MarketState` a `Scan` may report any pairs;
`Prices` has the choice. `PoolRecords` composes `DBWriter` with the discoveries that are
its clients and with the start that reads its rows; each of its steps is one of
`DBWriter` or leaves it alone, so what is proved of `DBWriter` holds in it.
`PoolDiscovery` has several discoveries of a pool at once, `PoolRecords` one.
`Dispatcher` hands opportunities to a client, each of which is one `Execute` of
`Executor`.

`PoolTracking` and `UpdatePipeline` are the other program. `PoolTracking` decides when a
listener is started, with which pools, and when it stops; `UpdatePipeline` has what a
listener sends and what becomes of it, and takes the signals as given (`TakeSignal` may
happen at any time).

Mutants (operators named `<action>_<what>` directly before the action) are plausible bugs
of the action; each property of each passing run fails for one of them.

## 3. Runs

| run | instance | what it shows |
|---|---|---|
| `discovery` | two swaps of an unknown pool, one of which does not parse, and one of an address that is no pool; `LogsCap = DiscoveryCap = 1`; deadlock checked except at the end | in every interleaving a swap is nowhere twice and does not vanish: it waits, is processed, or is dropped or discarded; the pool's records precede its waiting swaps; handlers and discoveries finish although the queue blocks them; an active discovery drains the queue; the fate of a swap is final (`SwapLedger`) |
| `discovery_stranded` | two swaps of one pool | fails: a log queued after the drain waits for ever, and keeps later ones from starting a discovery |
| `discovery_counted_twice` | two swaps of one pool | fails: the swap that caused a discovery is in the fetched reserves and added again |
| `executor` | three `Execute`s, three sends each, one restart | nonces are unique and contiguous; every `Execute` returns |
| `executor_gap` | two `Execute`s | fails: a nonce lost by an error after allocation blocks every later transaction |
| `records` | a V2 and an Algebra pool sharing a token; queue of 1, batch of 2; one roll-back, one crash, one token answered wrongly | the writer implements `LossyLog`; as long as nothing failed all that is sent is saved; references hold until a roll-back; a wrong answer stays with its token, and is the same everywhere from the first restart on |
| `market` | two swaps of a V2 pool never fetched, one of a V3 pool, one Updater round | whole states, no lost update, scans exclude updates, nobody stuck unless the Updater has called `GetPoolByAddress` |
| `market_refresh` | two swaps of a V2 pool | fails: the Updater waits for its own lock |
| `prices_inverted` | a V2 and a V3 pool of one ticker | fails: the V3 price is the reciprocal of the V2 price, so pools at the same price are reported as an opportunity |
| `dispatcher` | two clients with two connections each, two opportunities, two failed dials in a row, `MaxDelay = 3` | a working connection misses nothing; nothing is delivered twice; the Hub never waits for itself; back-off |
| `tracking` | a configured and a new V2 pool, a V3 list with an entry that is no address, either factory listener on or off, `NewPoolCap = 1` | dropped restart signals cost no pool; one listener per protocol; every active pool gets into a listener's list; the shutdown ends every goroutine |
| `pipeline` | a V2 pool that never changes, a V3 pool with one swap (versions 1 and 2); one listener of the first, up to two of the second; both channels of size one; at most two logs of the past per subscription | only a log of the past takes cache or newest row back to older data; what was forwarded before the shutdown is taken before the writer returns; the event of a fetched V3 pool reaches the cache; the shutdown ends every goroutine |

**Bounds.** Queues of size one or two are full and empty within a few steps, which is
where they matter; the code's sizes (1000, 2048, 1024, 100) would only make those states
rarer. Two swaps of one pool are the smallest case of every race found in discovery
and market, two versions of one pool in the pipeline; the third process is there to disturb (another address, a V3 pool, a
third nonce). `MaxRestarts`, `MaxCrashes`, `MaxRollBacks`, `MaxMisread`, `MaxConns`,
`MaxFailures`, `MaxRounds`, `MaxFound`, `MaxVersion`, `MaxStarts` bound counters, and
`MaxReplay` the logs of the past, that the code does not bound; each is used as a guard,
and one occurrence (two for failed dials, listeners and logs of the past) reaches every
control state of the component. `discovery` starts with an empty cache
(`Preloaded = {}`): a pool loaded at the start differs from a discovered one only in who
put it there, and three requests on a queue of one are needed to block a handler when
`Run` stops receiving; with a larger queue it takes as many more requests. `records` has
no swaps among the writer's clients (`Events = {}`): they have no metadata, and the proofs
about `DBWriter` cover them.
In `prices_inverted`, `Q = 4` stands for 2^96 and both tokens have no decimals: the
formulas only use that the scale is fixed. The proofs of section 4 hold without any of
these bounds' values. `CHECK_DEADLOCK FALSE` is set where the supply of swaps, requests
or opportunities ends and the component really stops.

**Fairness.** Weak fairness of each goroutine's next step (the Go scheduler is
preemptive) and of node calls (they have contexts or return errors); no fairness for the
chain, failures, crashes or restarts. `DBWriter` (and `PoolRecords` with it) adds that
the ticker's commit succeeds eventually: `BeginError` alone may not go on for ever.
`Dispatcher` has strong fairness for the Hub's channels, since `select` chooses at random
among ready channels and each channel serves its senders in order; it states it for
`ConnectedReceive`, and its run needs none. `PoolTracking` adds that a `select` in which
the context stays done takes that case eventually, and owes neither a subscription that
succeeds nor the shutdown. `UpdatePipeline` needs less: its goroutines as a whole do not
stop while one of them can go on (`WF(Progress)`), because between two steps of chain,
signals and shutdown each can take only finitely many. `PoolDiscovery`'s fairness assumes
that `ProcessSwap` returns, that is, that the cache's lock comes free: `market` shows it
does until the Updater's first refresh, and `market_refresh` that it does not after that.
`HandlersFinish`, `DiscoveriesFinish` and `ActiveDiscoveryDrains` hold on that condition,
so in the program until the first refresh.

`MarketState`'s `NobodyStuck` and `Dispatcher`'s `HubNotStuck` are absence-of-deadlock
invariants: as every goroutine there has finitely many steps, they give termination
without the cost of a liveness run.

**Observed and not given a run**, because the runs above show the same cause or nothing
in the repository promises otherwise.

In bot-v2-alpha:

* two logs of an unknown pool start two discoveries (`EventRouter.go:39`, checked before
  it is set), which both append a `PoolState` (`discovery.go:219`). `docs/App Summary.md:210`
  says that `pendingLogs` prevents multiple discovery attempts: it does not;
* `Execute` may report a failure for a transaction the binding had sent
  (`executor.go:142`);
* a rolled back batch may hold a pool's tokens or the pool itself, which stays known to
  the cache and is never saved (`database.go:129`);
* a price may mix two states of its pool, being computed after the lock was released
  (`market.go:119`; stated as `PriceNeverTorn` in `MarketState`), and of two swaps the
  older price may be stored last (`market.go:122`);
* a client that does not read stalls all others, as the Hub writes to one after the
  other (`dispatcher.go:55`; stated as `ConnectedReceive` in `Dispatcher`, and proved as
  `StalledHoldsUpAll`);
* of two discoveries at once that share an uncached token, one may get an answer and the
  other the default of a failed call: their `PoolState`s then disagree on its decimals
  until the next restart;
* a reloaded Algebra pool has the V2 style: its protocol is stored as `ALGEBRA_...` and
  looked for as `Algebra` (`App.go:112`). None of its swaps parses, so each of them is
  `dropped` in the sense of `PoolDiscovery`.

In bot-v2:

* a V2 Sync event is always skipped: `CacheV2PairTokens`, which fills what the event loop
  looks its tokens up in, has no caller (`listener_v2.go:192`, `258`). The V3 listener
  fills its own cache when it fetches a pool;
* if that fetch fails, the pool's events are skipped until the next restart of the
  listener (`listener_v3.go:180`);
* a swap between the initial fetch and the subscription is in neither, unless
  `cfg.StartBlock` is set and the node sends the logs since then;
* those logs of the past (`listener_v2.go:123`, `listener_v3.go:110`; the log line there
  says `Will also fetch historical Sync events from block %d`) come after the initial
  fetch, and nothing compares them with it: they take a V3 pool's cache entry and rows back
  to what it was at `cfg.StartBlock`, from where it catches up log by log
  (`EventReachesCache`). If the listener is stopped before that, the pool stays old until
  the next one fetches it. V2 ones are skipped like all V2 events. Many nodes ignore
  `FromBlock` in a subscription: the model has both;
* after the DB writer has drained its channel the cache updater may still forward to it
  (`main.go:117`, `148`);
* a pool created between the historical scan and the subscription is reported by neither
  (`factory_listener_v2.go:48`), and a listener whose subscription breaks is not replaced
  until the next new pool (`listener_v2.go:178`).

## 4. Proofs

All for arbitrary values of the constants, from the named assumptions in the modules
(capacities positive, mappings well typed). Each `IInv` is a conjunction of named parts,
proved inductive one action at a time.

* `PoolDiscoveryProofs`: `TypeOK`, `NoSwapHeldTwice`, `NoSwapVanishes`,
  `SavedBeforePendingSwaps`. None of them is inductive: that a swap is not applied twice
  needs that logs sit in one channel only while their handler is on the wire
  (`WireInv`), that a discovery is started by one request (`RequestInv`), that a batch
  is non-empty exactly in the draining state (`BatchInv`) and holds only logs of its own
  pool (`OwnPoolInv`); that `ProcessSwap`'s early return is never taken needs that
  whoever is about to call it knows the pool is in the cache (`KnownInv`); its other early
  return, for a log that does not parse, makes the swap a dropped one. The last of
  them holds because a discovery reaches the pending swaps only through its three sends
  (`SavedInv`), although another discovery of the address may take those swaps first.
  `DiscoveryComes` is the positive side of `discovery_stranded`: a handler that found its
  pool pending, or has asked for it, has a discovery queued, running, or ended with an
  outcome (`AskedInv`, `EndedInv`). `FatesAreFinal` is the refinement of `SwapLedger`,
  with a mapping that reads a swap's fate off the reserves, the pending logs and the
  goroutines (`Fate`): a counted swap stays counted when its pool is discovered again, a dropped or
  discarded one is never counted, and all that a failing discovery discards was waiting
  for its own pool.
* `ExecutorProofs`: `TypeOK`, `NoncesUnique`, `NoncesContiguous`, `CounterNeverGoesBack`,
  from mutual exclusion (`MutexHeld`) and "no nonce is out before the counter is set".
  `OnlyFailuresStall` is the positive side of `executor_gap`: a nonce below the counter
  that the node neither has nor has mined belongs to an `Execute` that is still to send or
  that gave up between its nonce and the binding's `ok`. No retry, order of mining or
  restart opens such a gap on its own. `ExecuteIsBounded`: every step of an `Execute`,
  the retry of a failed send among them, lowers a natural number (`Remaining`) that is
  `MaxRetries + 5` at first and that no other step raises. `LockComesFree`: whoever waits
  at the mutex waits for an `Execute` between `Lock` and `Unlock`.
* `DispatcherProofs`: `TypeOK`, `NothingMissed`, `NoOpportunityTwice`,
  `FailedIsForgotten`, `BackOff`. What a connection was sent, read or on the wire, is a
  piece of what the Hub has received, from the moment it was registered (`PieceInv`);
  while it works the piece reaches to the end, but for the message the loop has not come
  to write (`UpToDateInv`), which needs that the loop visits registered connections, each
  once (`LoopInv`). A later connection of a client joins after what the earlier one read
  (`SequelInv`), because only the newest works and is read (`NewestInv`), and the Hub
  takes an opportunity once (`OnceInv`). All rest on the life of a connection: dialled,
  registered once, asked to leave only after it failed (`LifeInv`). `BackOff` needs that a
  sleeping client's delay is the one before its last failure (`DelayInv`), and that
  `PowerOfTwo` is what its recursive definition says (`PowerFacts`). `LoopIsFinite`: what
  a loop over the clients has left is a natural number that each of the Hub's steps in it
  lowers, however many clients there are (the registered ones are a finite set,
  `FiniteInv`); so only a write that blocks can keep the Hub from its `select`, and
  `StalledHoldsUpAll` says that one such write keeps it from everything.
* `PoolRecordsProofs`, first about `DBWriter`: `TypeOK`; that it implements `LossyLog`
  with `pending` the batch followed by the queue and `durable` the rows (each commit takes
  a front of `pending`, each crash the whole of it); and `PoolRowsReferenceTokens`. The
  last needs that a pool's tokens stand before it wherever it is waiting (`TokensFirst`),
  and that until a roll-back what a discovery has sent is waiting or stored, or the
  process has been started anew since (`SentIsSomewhere`). `RequestsAreHeld`: until a
  roll-back nothing a discovery has sent is lost, and until a crash nothing any client has
  sent. Then about `PoolRecords`: every
  step of it is a step of `DBWriter` or leaves its variables alone (`WriterImplemented`),
  so all three carry over; `RecordsTypeOK`, `OthersAreRight` and `MetadataSettled`.
  `OthersAreRight` is inductive only together with the same fact about what is on its way,
  in requests and in discoveries (`RightInv`). `MetadataSettled` rests on two facts about a
  token of a loaded pool: once settled, its cache entry is never replaced and every request
  and row of it repeats that entry (`SettledInv`); and while pools are still being
  reloaded, nothing has been discovered and no token waits to be written (`LoadingInv`), so
  no older answer is on its way.
* `MarketStateProofs`: `TypeOK`, `StateWhole`, `ScanAlone` and the refinement of
  `AtomicUpdates`, from the lock's invariant (`WriterInv`) and what a goroutine has read
  of the pool it is updating (`UpdateInv`). And that nothing deadlocks before the Updater
  calls `GetPoolByAddress` under its own lock (`SomebodyMayGo`): who is among the readers
  or waits behind a writer is known from its program point (`ReaderInv`), so whoever holds
  the lock can go on, or waits for the Hub or the DB writer, which need no lock.
  `NobodyStuck`, which TLC checks, adds that the guards named there (`MayGo`) are exactly
  those of the actions; that half is about `ENABLED`.
* `PoolTrackingProofs`: `TypeOK`, `CoveredOrSignalled`, `OneListener`. The second is
  inductive only together with `OwnProtocol` (the signal for a pool goes to the channel of
  the protocol whose list it is in) and `Candidate` (the manager has a pool in hand when
  it signals); `IInv` is the conjunction of the five. Restarting a listener keeps
  `OneListener` because the manager waits before it appends one. `CoverageGrows`: no
  restart drops a pool from the list of a protocol's listener. `WaitsAreServed`: a manager
  waits for a listener it has cancelled (`AwaitedIsCancelled`), and a factory listener's
  send has a reader until the shutdown releases it (`EndsWithContext`).
* `UpdatePipelineProofs`: `TypeOK`, `DrainIsComplete`, `OnlyReplaysGoBack`. No stage
  compares versions, so that new data never goes back is a fact about all stages at once.
  `NewsInOrder`: what fetches and new logs say of a pool is ordered along its way,
  `dbWriteChan` <= the update being forwarded <= `processedDataChan` <= what the listener
  holds <= the chain, and inside each queue, whatever logs of the past lie between; and
  cache and newest row are no newer than any news still to come to them. The order survives a
  restart because the new listener fetches only after the old one's goroutines have
  returned. `NewsNotOvertaken` is that order; `OnlyThePastGoesBack` the action property it
  implies: what takes cache or rows back is a log of the past. `DataOnlyGetsNewer`: without
  `cfg.StartBlock` (`MaxReplay = 0`) there are none, and nothing goes back at all.
  `DrainInv`: what was forwarded before the shutdown and not yet taken is still in
  `dbWriteChan`. `NobodyLeftBehind`: a manager waits only for a listener whose context is
  done, a stopped listener leaves no fetch and no event under way, and when the managers
  have returned `processedDataChan` has no sender, so nobody is left to send to the cache
  updater after its return (`EndInv`).
* `SeqFacts`: the lemmas on `Head`, `Tail`, `Append`, `\o` and injective sequences they
  use, and the least element of a set of numbers, which stands for induction.

Only model-checked: liveness (`HandlersFinish`, `DiscoveriesFinish`,
`ActiveDiscoveryDrains`, `ExecuteReturns`, `SentIsSaved`, `ActiveIsCovered`,
`ShutdownCompletes`, `EventReachesCache`, `PipelineStops`) and what is said with `ENABLED`
(`HubNotStuck`, and of `NobodyStuck` that its guards are those of the actions): both are
beyond the prover. The safety half of most of them is proved: that a wait is for
something under way (`DiscoveryComes`, `LockComesFree`, `WaitsAreServed`,
`NobodyLeftBehind`), that work is finite (`ExecuteIsBounded`, `LoopIsFinite`) and that
nothing on its way is dropped (`RequestsAreHeld`, `CoverageGrows`); the step from there to
"eventually" needs fairness and stays with TLC. What the algorithms of `Prices` compute is evaluated, not proved.

## 5. Not modelled, and what is left

Left out for good: ABI and log decoding, big-number and floating point arithmetic (but
for the formulas in `Prices`), SQL text, flag parsing and logging, one-shot command line
tools, generated bindings, the Solidity library of heuristics that no contract calls, and
two parts that no `main` starts (the arbitrage bot skeleton, the quote checker).
A log that does not parse is dropped in `PoolDiscovery` and in `MarketState` (`Lookup`), and
left out in bot-v2 together with logs a reorganisation removes, which the listeners ignore. A `json.Marshal`
error of the Hub's message cannot happen for its struct. A subscription error of
bot-v2-alpha ends the process (`log.Fatalf`). The eviction of the 10000-entry token cache
is not modelled. `GetLatestPoolUpdate` and the memory cache's readers have no caller;
`IsReversed` is not stored and so not restored at a start.

At least four files do not build as committed. `bot/Executor/executor.go` declares fields
of its struct twice; the model takes them once, as the code evidently means.
`bot/blockchain/multicall_service.go` declares the package `Multicall` and lacks the
`GetTokenSymbolAndDecimals` its neighbours call; bot-v2's token look-up is therefore
modelled from its callers, as a call that answers or fails. `bot/config/config.go` holds
two files, each with its package clause, and has neither the `Load` nor the `StartBlock`
that `bot/cmd/bot-v2/main.go` uses; the model takes `cfg.StartBlock` as a block number
that is set or not. That `main.go` uses `ethclient`, whose import is commented out.

Left for later, in this order:

1. The GMX websocket hub, whose sends drop slow clients.
2. Concurrent discoveries in `PoolRecords`, and the eviction of its token cache.
