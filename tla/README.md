# Verification of the quarcc trading engine

TLA+ modules that model `engine-cpp` (the order path, the engine around it, the
journal, market data, the gateways) and the adapter process it talks to, TLC
configurations that model-check them on small instances, and TLAPS proofs of the
invariants the rest depends on. Paths below are relative to the repository root; `PROJECT.json` maps
every definition to the lines it translates.

## 1. The system

A strategy process calls the engine over gRPC. Inside the engine each strategy has
one **OrderManager**, which owns a gateway, an order store, a journal, a risk
manager and a position keeper. Client calls and execution reports become events in
the manager's queue; one dispatch thread handles them one by one.

```
 gRPC threads --commands--> +-----------------+ --submit/cancel/replace--> gateway
   (block on a future)      | queue_ -> dispatch thread |                     |
 StreamFills  <--fills----- +-----------------+ <------execution reports------+
                              |      |      |                (its own threads)
                         order store journal positions
```

### Inventory

| Component | State | Operations | Hard behaviour | What makes it correct |
|---|---|---|---|---|
| `OrderManager` (core/order_manager) | event queue, id mapper, `open_order_count_`, fill sink, dispatch thread | `process_signal` (submit, cancel, replace), `cancel_all`, `handle_*`, `set/clear_fill_sink`, destructor | commands and reports interleave; each handler makes several calls any of which can fail half-way; clients block on futures; draining at destruction | mapper, counter, store, positions and journal agree after any interleaving and failure; every future is fulfilled; terminal orders stay terminal |
| `EventQueue` (utils/event_queue.h) | queue, counters | `push`, `try_push`, `pop`, `mark_processed`, `wait_idle` | stop token and condition variables, market-data limit | commands and fills get through however much market data there is; `pop` ends only on an empty queue |
| `OrderIdMapper`, `OrderIdGenerator` | two hash maps; an atomic counter | add, remove, get | the order of remove and add in a replacement | the maps are inverse |
| `SQLiteOrderStore` | table `orders` | insert, three updates, two reads | UNIQUE broker id, updates that match no row, running average in SQL | rows follow the life of an order; the average is volume-weighted |
| `RiskManager` | limits | `check` | `int` passed as `size_t`, off-by-one | what is open stays within a bound |
| `PositionKeeper` | quantity, entry price, realised profit per symbol | `on_fill` | add, reduce, flip, flatten | profit identity; position equals what the store recorded |
| `SQLiteJournal` | bounded queue, writer thread | `log`, `flush`, history, destructor | batches, dropped entries, failing INSERTs, uniqueness, one condition variable for two waiters, kills and losses of power | what a flush covered stays; the history is in order; flushing ends unless logging never does |
| `PaperGateway`, `GatewayDispatchBase` | pending orders, report queue, simulation and dispatcher thread | submit, cancel, replace, simulate a pass, deliver, stop | two threads of its own; a report may be anywhere between execution and the manager; `stop` joins both | no fill of a live order is lost or doubled; `stop` drains and returns |
| `GrpcGateway`, Python adapters | channel, stream thread, seen execution ids, per-strategy queues | RPCs, reconnection, deduplication | RPC failure after execution, lost or replayed fills, stop races, a crash in the middle of a call | an execution counts once; what is live can be reached; the stream the engine reads is the one that is fed |
| `TradingEngine` | `managers_` and its shared mutex, `running_` | register, route, stop strategy, halt, `Run`, destruction | raw pointers used after the lock, kill switch waiting under an exclusive lock, registration during a halt, shutdown order | feed and streams never reach what is gone; a stopped strategy leaves nothing live but what could not be cancelled; every call and `Run` end, with the exceptions named |
| `FeedRegistry`, feeds | subscriptions, bar accumulators | subscribe, tick, unregister, start, stop | raw pointers to managers, start before subscribe, unlocked reads, invalid periods | the pointers are valid while the feed runs; bars are those of their ticks; who is subscribed is fed |
| `gRPCServer` | streams | RPC handlers, `StreamFills` | a blocking write on the dispatch thread, two streams of one strategy, `Shutdown` | a manager only calls writers of calls in progress |
| `AdapterManager` | child processes | spawn, wait, stop | readiness timeout under the engine's lock | adapters outlive their users; a late adapter blocks nobody for ever |
| `AlpacaGateway` | totals per order | calls, `onUpdate`, start, stop | updates carry totals, may be missed or repeated | the increments add up to the totals, a final fill each time it comes |
| contracts, main, config, strategy client, test scripts | | | data, start-up code or examples | not modelled |

`PROJECT.json` lists the hazards of each component at the line where they bite,
with the properties that cover them, or the reason why none does.

## 2. The modules

| Module | Models | Used by |
|---|---|---|
| `OrderIds`, `OrderIdMapper` | ids as counter values; the two maps as total functions with `None` | all |
| `Rationals` | fractions with a positive denominator (prices and profits are doubles in the code) | the accounting |
| `OrderStore` | the `orders` table; one operator per SQL statement | `OrderManager` |
| `RiskManager`, `PositionKeeper` | `check`; `on_fill` with its branches | `OrderManager` |
| `OrderManager` | the queue, the dispatch thread and every path of every handler, clients, fill sink, destruction, failing store calls, **any** gateway | everything below |
| `OrderLifecycle` | abstract specification: the life of an order | refined by `OrderManager` (`LifecycleRefined`) |
| `PaperGateway` | pending orders, simulation thread, dispatcher thread with its wait on the condition variable, `stop` | `PaperTrading` |
| `PaperTrading` | `OrderManager` composed with `PaperGateway`, with fairness | the runs |
| `TradingEngine` | the engine around the managers: RPC threads, `managers_mu_`, kill switch, feed registry, market-data streams, signal, `Run` and the destruction of the engine; a manager is reduced to its queue, its sink, its lifetime and whether an order of it is live | `EngineAdapters`, one run |
| `EngineAdapters` | `TradingEngine` composed with `AdapterManager`: registrations that wait for an adapter under the lock, adapters stopped by the last destructor | one run |
| `StreamThread` | the reconnecting stream thread that `GrpcGateway` and `GrpcMarketDataFeed` have in the same words, and its `stop` | the next two, `AdapterFeed` |
| `BaseAdapter` | the Python adapter: which orders are routed, one `StreamFills` handler per stream, the queue registered last | `GrpcGateway` |
| `GrpcGateway` | the stream thread with deduplication and reconnection | `AdapterTrading` |
| `AdapterTrading` | `OrderManager` composed with `GrpcGateway`, `BaseAdapter` and a venue; RPCs in three steps; crash and restart | one run |
| `Journal` | `log`, `flush`, writer thread, table, destructor, kill and loss of power | one run |
| `SimulatedFeed`, `AdapterFeed` | the two feeds: counted subscriptions, ticks and bars; buffered subscriptions and a stream thread that reads them without a lock | `FeedRegistry` |
| `FeedRegistry` | one feed of either kind, managers that subscribe, receive and are unregistered | `MCMarketData` |
| `EventStreams` | one order manager between producers and streams: `EventQueue` with its limit, the dispatch thread that writes to gRPC streams, server threads, clients that read, stop reading or cancel | `MCMarketData` |
| `FillAccounting` | `on_fill` and `apply_fill` on all short sequences of fills, against the cash that moved | `MCFillAccounting` |
| `PositionQueries` | `GetPosition` and `GetAllPositions` over the managers in any order, against the weighted price | `MCFillAccounting` |
| `AlpacaGateway` | cumulative updates turned into increments, against the totals | `MCFillAccounting` |
| `MCOrderManager`, `MCPaperTrading`, `MCFillAccounting`, `MCMarketData` | bounds and symmetry for TLC; the last two put modules that share nothing side by side, each behaviour exercising one of them | the runs |
| `Arithmetic`, `OrderManagerProofs`, `PaperProofs`, `EngineProofs`, `JournalProofs`, `ProfitProofs`, `MarketDataProofs`, `AdapterProofs` | lemmas and theorems (section 4) | TLAPS |

### State and actions

The variables of `OrderManager` carry the names of the members (`queue_`,
`id_mapper_`, `open_order_count_`, `positions_`, ...). `waiting` is the set of
clients blocked in `future.get()`, `phase` the progress of the destructor,
`broker_count` the gateway's id generator, `streamed` what a `StreamFills` client
has been sent per broker id, and `journal_` the set of `(event, order)` entries.

Every handler is a disjunction of its paths (`SubmitNotStored`,
`SubmitRefusedByRisk`, `SubmitRejectedByGateway`, `SubmitNotRecorded`,
`SubmitAccepted`, ...). The parameter `fail` is the set of store and clock calls
that fail in this execution; `FaultyCalls` bounds it. Each path has exactly the
state changes made before its `return`: for example a failed status update after
the gateway has cancelled leaves the order unmapped, its row open and the counter
where it was.

**Why a handler is one step.** The dispatch thread is the only writer of the store,
the mapper, the counter and the positions, and their readers outside it are not
part of the model. Client threads only append to the queue. Reports that arrive
during a handler are appended and handled after it. The gateway is called at one
point of a submission, cancellation or replacement, under its own mutex: a
simulation pass before that point commutes to before the handler, one after it to
after the handler. The kill switch makes one gateway call per order; a pass between
two of these calls fills some of the orders not yet cancelled, and the same outcome
is reached by a pass before the handler that fills just these. The fill sink is
read under its mutex at the end of `handle_fill`.

**Abstractions.** An order is a symbol, a side and a quantity (the manager creates
MARKET, DAY orders for one account). Quantities are integers, as the paper gateway
fills them; prices are exact fractions, so floating-point rounding is out of scope.
Random draws are nondeterministic. Timestamps appear only as the clock call that can
fail. The text of messages and errors is left out.

**TradingEngine.** `call[c]` is what an RPC thread, or the thread of `Run` (`"main"`),
is doing: `found` holds a manager pointer after the shared lock was released,
`waiting` blocks on a future, `streaming` is the loop of `StreamMarketData`,
`sweeping` is between two steps of `stop_strategy`, `halt_all` or `Run`. A call
arrives in the step that takes the lock; a call that is refused (unknown or existing
strategy) changes nothing and is no step. `SubmitSignal`, `CancelOrder` and
`ReplaceOrder` differ only in what the manager does, so they are one kind of call,
whose effect on `live` is arbitrary. A use of a manager that is gone is undefined
behaviour: the call fails on a broken promise, hangs, or the process crashes.
A `cancel_all` leaves the orders without a broker id and those whose cancellation is
refused or lost (order_manager.cpp:334-353); the manager is destroyed all the same. `left`
is history: the managers with a live order that a `cancel_all` left, or that came of a
signal queued while the kill switch already had the lock (kind `raced`).
`managers_mu_` is held from the lookup of the kill switch until the last manager is
destroyed. `life[m]` follows the destructor: `stopping` while the dispatch thread drains the
queue; `hung` if `gateway_->stop()` (order_manager.cpp:72) never returns, because the
dispatcher of the gateway missed its stop (`lost_wakeup`); `reading` if the dispatch thread
has ended and the destructor of a `GrpcGateway` joins a stream thread that its stop missed,
until the adapter ends the stream (`StreamEnds`, `StopEndsUnlessMissed`); `dead`.
`Shutdown` of the gRPC server is external: it accepts no call any more,
cancels the streams and returns when every handler has returned. The feed is one whose
`stop` joins its thread, as `SimulatedFeed` does. `EngineAdapters` adds the state of the
one adapter (`absent`, `running`, `stopped`) and the caller that is `pinging` it with
`managers_mu_` held; a process that answers too late is forgotten by the engine and
therefore is not in the state. If it is the feed that needs the adapter, the manager is there
already and stays when the wait fails (trading_engine.cpp:142-150).

**Journal.** `caller[t]` is where a thread is in `log` (the timestamp is taken before the
mutex, from a clock that may be set back, so entries may be queued out of the order of their
timestamps) or in `flush` (it
tests the predicate, blocks, is woken, checkpoints). `writer` is `waiting` only inside the
condition variable, and `notify_one` chooses any waiter. `journal` is the table, `durable`
the part a loss of power cannot take; a power loss takes any number of the newest rows
beyond it. `accepted`, `failed`, `lost` and `flushed` are history and say which entries
have an excuse for being missing. Which INSERTs of a batch fail is arbitrary, and so is
whether a checkpoint completes (its result is ignored, sqlite_journal.cpp:240); `flushed` is
raised only if it does.

**AdapterTrading.** The handlers of the order manager are the ones of `OrderManager`; a
submission or replacement that the venue accepts is taken apart into `Place` (the venue has
the order), `RouteOrder` (the adapter can route its reports) and the rest of the handler,
because the venue may execute and the engine may crash in between. Whether the RPC will be
answered is chosen in `Place`; nothing else depends on it before. A crash keeps the store
as it is after any of the handler's statements, and the adapter and the venue as they are.
The stop of the stream thread is not part of this module: `FeedRegistry` checks the same
loop step by step.

**FeedRegistry.** `emit` is where the emitting thread is: it copies the symbols and tick
subscriptions, prices one symbol after the other (adding the tick to every bar of the
symbol in one step, under `data_mu_`), then hands on the tick and the completed bars.
`subscribe` with a period that `period_to_ns` rejects leaves an accumulator with period 0,
and the next tick divides by it (`crashed`). The clock read by a pass is `system_clock`: any
second of the instance, before or after the last one. A subscription made while the adapter feed's
thread copies `subscriptions_` is a data race: the copy is any part of the list, or the
process crashes. `SimulatedFeed::unsubscribe` has no caller in the engine; the model calls
it for subscriptions the registry has dropped.

**EventStreams.** `in_hand` is the event the dispatch thread has popped and whether it is in
a `Write`. A `Write` succeeds while the client has fewer than `Window` events unread and
fails once the call is cancelled (external: gRPC's flow control). While it blocks, the
mutex of the sink is held, so no server thread can install or clear one.

**FillAccounting, PositionQueries, AlpacaGateway** compare code with a reference over all
short inputs. A manager met by a query holds nothing or what one fill gave it. Alpaca's
stream delivers the updates of a connection in order; it may miss some and repeat any.
`finals` counts the fills that completed an order and reached the gateway.

## 3. What the runs check

| Run | Instance | Properties |
|---|---|---|
| `any_gateway` | 2 orders, 1 client, quantity 2, all seven store and clock calls may fail, 2 arbitrary reports | `MapperInverse`, `MappedOrdersAreOpen`, `CountCoversMapped`, refinement of `OrderLifecycle` |
| `paper_safety` | 2 orders, 2 clients (symmetric), quantity 2 (so partial fills happen), limit of 1 open order, fill stream attached and detached at will, no destruction (`TradingSpec`) | `LiveOrdersAreTracked`, `FillsAreConserved`, `PositionMatchesStore`, `AuditTrail`, `KillSwitchCancelsAll` |
| `paper_shutdown` | 2 orders, 1 client, failing store, destruction at any moment, weak fairness | `ShutdownDrains`, `EveryClientIsAnswered`, `DestructionEndsUnlessLost` |
| `fill_accounting` | all sequences of up to 4 fills, 3 quantities, 3 prices, both sides; 3 managers in any order; 2 Alpaca orders with 4 updates | `ProfitIdentity`, `StoreAverageIsVolumeWeighted`, `EntryPriceIsAttainable`, `QueriesAgree`, `ReportsAddUpToTotals` |
| `engine_routing` | 2 strategies behind one adapter, 2 server threads, 2 managers ever created (so an id is registered again after a stop), market-data limit of 1 event, weak fairness | `FeedReachesLiveManagers`, `KilledStrategiesLeaveNothingLive`, `WritersAreAlive`, `NothingLiveAfterRun`, `AdaptersOutliveTheirUsers`, `EveryCallReturns`, `RunEnds` |
| `journal` | 2 threads that flush, one of which logs 3 entries of one order and event; queue and batch of 2; a clock of 2 ticks in one second that may step back; failing checkpoints; 1 kill or loss of power | `FlushedIsDurable`, `NoLostWakeup`, `HistoryInLogOrder`, `ResumingSkipsNothing`, `FlushReturns` |
| `market_data` | 1 symbol, periods of 2 s, 3 s and an invalid one, 2 prices, 3 seconds in any order, 3 ticks, 2 managers, 2 subscriptions; and 2 fill streams of one strategy, 3 events, a market-data limit and a window of 1 | `BarsSummariseTheirTicks`, `NoTickIsLost`, `SubscribersAreFed`, `TicksArriveWithoutGaps`, `CrashesAreExplained`, `ReconnectionRequestsAll`, `StopEndsUnlessMissed`, `OnlyUnreadStreamsBlock` |
| `adapter_trading` | 2 orders of 2 units, 2 commands, 2 executions, 2 streams, a window of 1 id, one execution sent again or one order ended by the venue, 1 crash, status updates and clock may fail | `EachExecutionCountsOnce`, `LiveOrdersStayReachable`, `OpenStreamsAreFed` |
| `risk_limits`, `dropped_fill`, `lost_wakeup`, `stale_manager` | the smallest instance that shows it | each refutes a statement, see below |

**Bounds.** `MaxOrders` bounds the ids handed out (and with them submissions and
replacements), `MaxReports` the reports of the arbitrary gateway, `MaxFills` the length of a
sequence of fills, `MaxMet` the managers a query meets, `MaxUpdates` what Alpaca sends. Two
orders are enough for a replacement, for a report about one order while the other is being
handled and for a sweep over more than one. Quantity 2 gives one partial fill before the
last one. Cancellations, sweeps, stream changes and simulation passes are not bounded. The
queues are bounded by the clients, each of which has one command in flight, and by the
orders.

In `journal`, three entries exceed both the queue and a batch, and two of them can have the
same timestamp, so that one is ignored; two ticks in a second make the loss of milliseconds
visible; two threads let a flush run beside a log and beside another flush. In
`market_data`, seconds 7 to 9 contain an edge of the period of 2 s (8) and one of that of 3 s
(9), at different seconds; three ticks are a bar
completed, a bar being built and one more; two subscriptions of two managers share a symbol,
a key or neither. Two streams of the same kind are what can replace and clear each other's
sink; market-data streams take the same path and are not in the instance (ticks are produced
and find no sink). In `adapter_trading`, `MaxCommands`, `MaxExecutions`, `MaxStreams`,
`MaxSurprises` and `MaxRestarts` bound the environment; two commands are an order and its
replacement or cancellation, two executions fill an order, two streams are one reconnection.
The window `kMaxSeenIds` is 1 there and 10 000 in the code; the assumption
`kMaxSeenIds >= 2 * Resent - 1` says how many of its latest executions the venue may send
again: beyond that a duplicate is counted twice.

**Failures.** `any_gateway` and `paper_shutdown` let store calls fail.
`LiveOrdersAreTracked`, `FillsAreConserved`, `PositionMatchesStore`, `AuditTrail`
and `KillSwitchCancelsAll` are stated for a store that does not
fail (their runs have `FaultyCalls = {}`): with a failing store the code does not
promise them, for instance an order whose broker id was not recorded is skipped by
the kill switch. `adapter_trading` loses answers, reports and the process; `unrecorded` are
the orders whose acceptance never got to the store, and `LiveOrdersStayReachable` says that
there are no others out of reach. `journal` fails INSERTs, kills the process and cuts the
power.

**Fairness.** `PaperFairSpec` asks weak fairness of the threads the code creates: dispatch
thread, simulation thread, dispatcher and the destructor once it has begun. Each is a loop
that waits only for what its guard says. The wait of `EventQueue::pop` uses
`condition_variable_any` with the stop token, which cannot miss a stop, so fairness of the
dispatch thread is justified. The wait of the gateway's dispatcher has no such protection
and is modelled in its steps (`checking`, `blocking`, `waiting`); fairness is asked of the
steps the thread can take, never of a wakeup. Clients and the decision to destroy are not
fair. `EngineFairSpec` asks it of calls that have their manager, of dispatch threads and of
`Run`, and of the end of a stream once the server shuts down; no call has to get the lock,
no client has to come, no stuck `gateway_->stop()` has to return and no adapter has to end a
stream that was not cancelled. It presumes that the RPCs to an adapter return, which have no
deadline, and the writes of a stream, which a client that stops reading can prevent.
`EngineAdaptersFairSpec` adds that a wait for an adapter ends, by its own deadline, and that
the last destructor runs. `StreamsFairness` is about just that client: the dispatch thread
and the server threads run, a client reads unless it has stopped reading, and
`OnlyUnreadStreamsBlock` shows that one that has stopped is all that can block an answer.
`JournalFairness` schedules threads and never the timeout of the writer's wait, so that
`FlushReturns` does not rest on `BATCH_INTERVAL_MS`. That property excepts a thread that
goes on having entries accepted for ever: the wait is for whatever has been pushed by the
time it wakes (sqlite_journal.cpp:235). `MaxLogged` ends all logging in the instance, so the
exception is stated and not shown there; for the destructor, beside which nobody logs, there
is none. `MarketFairness` runs the stream thread of the adapter's feed, whose steps wait for
nothing but the end of the stream (cancelled by `stop`) and a two-second sleep. Connections
break or not, clients and producers come or not.

**Deadlock** is checked in the runs of `OrderManager` and `PaperTrading`. The others really
end: `fill_accounting` with its inputs, `engine_routing` and `stale_manager` with the
process, `journal` when it is closed, `market_data` and `adapter_trading` when their
environment is exhausted. There the liveness properties say that nobody waits for ever. Two
terminal situations have an explicit stuttering step: `Destroyed`, and `Hung`, where
`join()` waits for a dispatcher that missed its stop.

### Disagreements the violation runs show

* `risk_limits`: `check` compares the count before the new order with `>`, so
  `max_open_orders + 1` orders are open, against "Max amount of open orders at the
  same time" (risk_manager.h:14), and a replacement is not checked at all, against "Max
  quantity in a single order" (risk_manager.h:12). The counterexample ends in a state that
  exceeds both. `TrackedOrdersBounded` proves that one order more is the worst case.
* `dropped_fill`: a fill executed before a cancellation and handled after it is
  dropped, and the position never learns of it, against "Called by
  OrderManager::process_fills() whenever a fill arrives from the gateway"
  (position_keeper.h:23). `FillsAreConserved` shows that fills of orders that are
  still tracked are never lost.
* `lost_wakeup`: `stop_dispatcher` notifies without the mutex; when that falls between
  the predicate and the wait of the dispatcher, `gateway_->stop()` and with it the
  destructor hang. `DestructionEndsUnlessLost` shows that nothing else can hold up
  the shutdown described at order_manager.cpp:66-71.
* `stale_manager`: an RPC uses the manager it found after releasing `managers_mu_`,
  and the kill switch may have destroyed it, against "managers_ is read by many gRPC
  threads concurrently and written only by RegisterStrategy"
  (trading_engine.h:75-76). The properties of `engine_routing` show what holds all the
  same: `EveryCallReturns` and `RunEnds` except a call that met a destroyed manager, and a
  destructor that waits for a thread of its gateway (next section).

### What the passing runs leave to argue about

Properties that hold with an exception name it, and the exception is what the code does:

* A stop of a stream thread that falls between the test of the stop token and the new
  context is missed, and the thread reads until the adapter ends the stream
  (`StopEndsUnlessMissed`, grpc_gateway.cpp:105-110). `GrpcMarketDataFeed` is documented
  to be started after its subscriptions are made and to be joined by `stop()`
  (grpc_market_data_feed.h:17-23); the engine starts it first (trading_engine.cpp:147), the
  thread reads `subscriptions_` without a lock, and `stop()` does not join
  (`ReconnectionRequestsAll`, `CrashesAreExplained`). Its thread can therefore push to
  managers that `~TradingEngine` destroys before `feed_registry_`, and that of
  `GrpcGateway` to the queue of a manager that is being destroyed.
* A fill stream whose predecessor ends late is cut off: the `finally` clause of the adapter
  removes whatever queue is registered (`OpenStreamsAreFed`, `displaced`), and
  `ClearFillStream` whatever sink is installed.
* A lost answer, a failing store or a crash in the call leaves an order at the venue that
  the kill switch does not reach (`LiveOrdersStayReachable`, `unrecorded`). Duplicates are
  recognised within the window of ids only.
* The kill switch erases a manager whether or not its `cancel_all` could cancel: an order
  without a broker id is skipped, one whose cancellation is refused or lost is only logged
  (`KilledStrategiesLeaveNothingLive`, `NothingLiveAfterRun`, `left`;
  order_manager.cpp:334-353, trading_engine.cpp:400-402).
* A stop that the gateway's dispatcher or its stream thread misses holds up the destructor of
  the manager, and with it `stop_strategy` and `halt_all`, which hold `managers_mu_`, and the
  end of `Run` (`EveryCallReturns`, `RunEnds`).
* A thread that never stops logging can keep `flush()` from returning (`FlushReturns`).
* An invalid bar period ends the process at the next tick (`CrashesAreExplained`).
* Two events of one order and type within a millisecond are one row of the journal, and a
  failed INSERT is counted as committed; a checkpoint that fails is not noticed
  (`FlushedIsDurable`).
* While the clock stands behind a bar that is being built, after a step back, ticks are added
  to that bar (simulated_feed.cpp:213-217, `BarsSummariseTheirTicks`).
* The price `GetPosition` reports depends on the order of the managers when the positions
  met first cancel out; it never sets the realised profit, and `GetAllPositions` reports
  that of the first manager (`QueriesAgree`).
* Alpaca's cancellations, expirations and rejections reach nobody: rows and mappings of
  such orders stay open (alpaca_fix_gateway.cpp:84-92). A fill that completes an order and
  comes again is reported again in full, because the totals are erased with the first copy
  (alpaca_fix_gateway.cpp:68-70, `ReportsAddUpToTotals`).
* An adapter that is not ready in time stays as a process nobody stops
  (adapter_manager.cpp:38).

## 4. What is proved

Every safety property and every action property that a passing run checks is the statement
of a theorem, for all values of the constants. The proof modules:

| Proof module | About | Rests on |
|---|---|---|
| `Arithmetic` | fractions: the types of sums, multiples and quotients, what they represent; finite sums (`MapThenSumSet`) | |
| `OrderManagerProofs` | types, tracking, the bound on open orders, the refinement of `OrderLifecycle` | `Arithmetic` |
| `PaperProofs` | the order manager with the paper gateway | `OrderManagerProofs` |
| `AdapterProofs` | the order manager with the remote gateway, the adapter, a venue and crashes | `OrderManagerProofs` |
| `ProfitProofs` | profit, averages, position queries, Alpaca's increments | `Arithmetic` |
| `EngineProofs` | the engine with adapters: types, feed pointers, kill switch, stream writers, shutdown | |
| `JournalProofs` | the journal | |
| `MarketDataProofs` | feeds, bars and the registry | `Arithmetic` |

The assumptions are those the modules name. Most bound the environment or give the
constants their types. Those that say more:

* `NoneIsNotARow`, `NoneIsNotPending`, `NoneIsNotAHolding`, `NoneIsNotAVenueOrder`, and
  `NoId \notin Nat` in `SeenAssumption`: the value that stands for "nothing" is not something.
* `AccountAssumption`: no fill has price 0. `on_fill` takes 0 for a price that is not known
  and then moves the quantity only (position_keeper.cpp), so the cash of such a fill cannot
  be accounted for.
* `ClockAssumption`: the clock never reads a time before the end of the first period after
  1970; nothing else is assumed of it. `bar_start_ns` 0 means
  that there is no bar, so a bar that began at 0 would be started again at the next tick.
* `VenueAssumption`: `kMaxSeenIds >= 2 * Resent - 1`, see section 3.

### The order manager against any gateway

These theorems are about `Spec` of `OrderManager`: any gateway, any failing calls, any
constants that satisfy the named assumptions (`OrderIdsAssumption`, `SignalAssumption`,
`NoneIsNotARow`, `RiskAssumption`, `OrderManagerAssumption`).

* `TypeCorrect`: `Spec => []TypeOK`. It rests on `Arithmetic`, which shows that the
  fractions always have a positive denominator and that filled quantities stay natural.
* `MapperStaysInverse`, `TrackedOrdersAreOpen`, `CountNeverLosesAnOrder`: the three
  tracking invariants that `any_gateway` checks.
* `TrackedOrdersBounded`: the open-orders limit, plus one, bounds what is tracked.
* `OrdersLiveOnce`: `Spec => LifecycleRefined`, the safety of `OrderLifecycle`.

The inductive invariant is

    TrackingInv == TypeOK /\ IdsIssued /\ MapperInverse
                   /\ MappedOrdersAreOpen /\ CountCoversMapped
    LifeInv     == TrackingInv /\ PendingHasNoBroker

No conjunct is inductive alone. `IdsIssued` (both generators are ahead of every id in
use) is the strengthening: it makes the ids of a new mapping unmapped, so that adding
it keeps the maps inverse and adds exactly one tracked order. `MapperInverse` is what
lets `handle_fill`, which enters through the reverse map, conclude that the order it
unmaps was tracked, so that releasing the counter by one is sound. The cardinality
steps (`CountKept`, `CountReleased`) then carry `CountCoversMapped`. The proof has one
lemma per handler, over three lemmas for the effects a handler can have on the mapper
(`Forgetting`, `Tracking`, `TrackingNothing`). The bound on open orders uses a second
invariant, `CountBounded`, about the counter: only an accepted submission raises it,
after the check has read it; that it is not negative, hence not wrapped by the
conversion to `size_t`, is `CountCoversMapped`.

The refinement goes step by step: every handler leaves the table alone or does one
step of `OrderLifecycle`. That an order opens under an unused id is `IdsIssued`, that a
command or a report reaches only working orders is `MappedOrdersAreOpen`.
`PendingHasNoBroker` is for the kill switch, which sweeps the table and not the mapper:
a row that was never recorded as SUBMITTED has no broker id, so the sweep skips it.

### The order manager with the paper gateway

`PaperRefinesAnyGateway` (`PaperSpec => Spec`) carries the theorems above over to the
composition. Then, whichever calls fail:

* `GatewayTypeCorrect`: the gateway's variables keep their types. `GatewayInv` adds that
  reports are generated within a pass only, and finitely many.
* `DestructionDrains`: `ShutdownDrains`. `StopOrder` says that the simulation has ended
  before the dispatcher may end, and the dispatcher with an empty queue before the
  dispatch thread may; `WaitersAreQueued` that every blocked client has a command in the
  queue.

And under the hypothesis `FaultyCalls = {}` (no store or clock call fails; any clients,
orders, quantities, prices, random draws and interleavings):

* `LiveOrdersStayTracked`, `NoFillIsLostOrRepeated`, `PositionsFollowTheStore`,
  `JournalTellsEveryFate`: the four invariants of `paper_safety`.
* `KillSwitchLeavesNothingAlive`: its action property.

The hypothesis is the one under which these properties are claimed: a store call that
fails after the gateway has acted leaves a row, a position or a journal entry behind
(section 3), and `paper_safety` has the same `FaultyCalls = {}`. Unlike that run, the theorems
include destruction. The inductive invariant

    TradeInv == LifeInv /\ GatewayInv /\ RowsAreLinked /\ LiveOrdersAreTracked
                /\ NothingIsOverfilled /\ ReportsArePlain /\ FillsAddUp
                /\ StreamNeverAhead /\ PositionMatchesStore /\ AuditTrail
                /\ JournalIsBehind

was checked by TLC on the instance of `paper_safety` before it was proved. What each
strengthening is for:

* `RowsAreLinked`: open rows are exactly the tracked ones, each with the broker id it is
  mapped to, and no two rows share one. Without it a fill, which enters by broker id,
  could be charged to another row, and the sweep, which reads the table, could miss a
  tracked order.
* `ReportsArePlain`: a report on its way is a fill of an order the gateway accepted, with
  the symbol and the side of the row it is mapped to. `apply_fill` takes the quantity to
  the row, `on_fill` takes symbol and side from the report; this is why the two agree.
* `NothingIsOverfilled`: an order still pending has something left, so the pass that
  completes it is the one that removes it.
* `FillsAddUp`: the row plus what is in `generated_fills_`, the dispatcher's queue and the
  engine's queue is what the gateway executed. The three ways on (`EnqueueFill`,
  `DeliverReport`, `handle_fill`) move one report from one sum to the next
  (`MovingReports`); a pass adds to the first and to the gateway's count (`PassKeeps`).
* `JournalIsBehind`: no entry is about an order still to come, so a new row starts with a
  clean history.

Every command handler is reduced to one statement, `CommandEffect(gone, new)`: it closes
the tracked orders `gone`, opens `new` or nothing, and does the same to table, mapper,
gateway and journal. A fill is `FillEffect` or `DropEffect`. The invariant is then proved
once per effect and not once per path.

The sums of the model are `MapThenSumSet`, which the community module defines by a
recursion over subsets. `Arithmetic` proves what the theorems need of it (adding, removing or
changing one element, appending to a sequence). The library's induction theorems cannot be
instantiated, so these lemmas take a smallest counterexample instead, which exists by
`WFMin` on the subsets of a finite set.

`NoneIsNotPending` (the value for "no order" is not an order) is the only assumption the
gateway adds.

### The engine

`EngineProofs` is first about `EngineSpec`, for any strategies, threads, managers and queue
depth (`EngineAssumption`):

* `EngineTypeCorrect`: `EngineSpec => []EngineTypeOK`.
* `FeedPointersValid`: `EngineSpec => []FeedReachesLiveManagers`, for a feed whose `stop`
  joins its thread. The property is not inductive: whether a manager may be destroyed is
  decided by the progress of the call that destroys it. The invariant `FeedInv` adds
  `Unsubscribed` (a manager marked for destruction and no more for cancellation has no
  subscription), `Created` (only created managers are registered or marked, so a new
  subscription is never that of a marked manager), `RunIsLast` (`Run` destroys managers only
  when the feed is stopped) and `SubscribersExist`, which says of a feed that is not started
  yet what the property says of a running one.
* `FeedPointersValidWithAdapters`: `EngineAdaptersSpec => []FeedReachesLiveManagers`. The
  same invariant is kept by the steps of `EngineAdapters`: a registration that waits for
  its adapter changes nothing that `FeedInv` speaks of until it goes on to
  `create_strategy`, and adapters are stopped when `Run` has ended.

Then it proves of `EngineAdaptersSpec` the other four safety properties of
`engine_routing`:

* `KilledStrategiesAreQuiet` (`KilledStrategiesLeaveNothingLive`) and
  `RunLeavesNothingLive` (`NothingLiveAfterRun`);
* `WritersOutliveTheirUse` (`WritersAreAlive`);
* `AdaptersStopLast` (`AdaptersOutliveTheirUsers`).

The invariant `KillSwitchInv` is `FeedInv` with adapters, `AdaptersLast` and `SweepInv`.
`SweepInv` says how far a kill switch or `Run` is and what that means for every manager:
the map holds exactly the living managers (`MapHoldsTheLiving`), who holds `managers_mu_`
(`LockHolder`), what a call knows of a manager it looked up (`LookupsHold`), that a sweep
cancels the living and destroys one at a time (`RunSweeps`, `SweepShape`,
`StoppingIsSwept`), and that a queued command is awaited by exactly one caller
(`EventsAreAwaited`). The last is what ties the answer of `cancel_all` to the sweep that
waits for it; `CancelSettles` then says that a manager that has answered is settled: no
order live but those in `left`, and no signal queued but those that raced. `SinksAreCleared`
says that a stream in progress finds its own manager again, if that is alive, to clear the
writer.

### The journal

`JournalProofs` is about `JournalSpec`, for any threads, queue depth, batch size, failing
INSERTs and crashes (`JournalAssumption`, and `EventAssumption`: an entry's event is one of
the enumeration):

* `JournalTypeCorrect`, `FlushKeepsItsPromise` (`FlushedIsDurable`), `WriterIsWoken`
  (`NoLostWakeup`), `IdsFollowLogOrder` (`HistoryInLogOrder`), `ResumedHistoryIsComplete`
  (`ResumingSkipsNothing`).

The invariant `JournalInv` ties counters to entries. `CountersMatch` is
`pushed_ = committed_ + Len(batch) + Len(write_queue_)`, `QueueHoldsTheNewest` says which
entries the batch and the queue are, so a flush that has seen `committed_` reach its target
knows which entries went through a transaction; `PromisesKept` says they are in the table
or excused, for the flushes in progress and those that have returned. `WaitersHaveReason`
is why a notification is never taken by the wrong thread: a blocked flush means that
something is not committed, so the writer is not waiting. `RowsAreEntries` makes ids
grow no faster than the numbers of the entries, so that a row written after a crash comes
after those that are kept, and `DestructorWaits` makes the promise of the destructor one
about all entries.

### Money

`ProfitProofs` is about sequences of any length, over any prices and quantities.

* `ProfitIdentityHolds`, `StoreAverageHolds`, `EntryPriceHolds`: the three properties of
  `FillAccounting`. The arithmetic of the code divides, so the invariant `AccountInv` is
  about what a fraction represents: `Represents(r, n, d)` is `r = n / d` without the
  division, and a lemma of `Arithmetic` says for each operation what its result represents.
  `Accounts(position, cash)` says that the profit is `cash + quantity * price` over the
  denominator of the price, and `FillAccounts` shows that each branch of `FilledPosition`
  keeps it: opening, adding (`AddingKeepsBooks`), reducing (`ClosingPays`), flipping and
  going flat. That an average lies between what it averages is `MeanAtLeast` and
  `MeanAtMost`; a short position averages with both signs turned.
* `QueriesAlwaysAgree`: `QueriesAgree`. `QueryInv` states it for the list met so far, with
  the case that makes it inductive: the value of the units met is that of the price, or all
  positions met are flat (and worth 0), or some have cancelled out. What a list comes to is
  a recursive function (`Book`); `BookAppend`, by the smallest length at which it fails,
  gives its step.
* `ReportsAddUp`: `ReportsAddUpToTotals`. `AlpacaInv` says of the updates under way that
  they come in the order of the executions, that none shows less than the gateway was shown
  before and none more than was executed, and that one that ends an order is followed by its
  copies only (`Consistent`); of each order that the gateway remembers the totals it was
  shown last, or was told that it has ended; then it remembers nothing, and all that may
  come are copies (`SoundOrder`, `Over`). The increment pays the difference
  (`IncrementPays`), also after updates were missed, nothing for a partial fill repeated,
  and everything once more for a copy of the final fill (`ReportedInFull`, `TimesNext`).

### Market data

`MarketDataProofs` is about `MarketSpec`, for any symbols, periods, prices and managers, and
any number of ticks:

* `SubscribersFed`, `NoGapsInTicks`, `CrashesExplained`, `NoTickLost`, `BarsAreRight`: the
  five safety properties of the feeds in `market_data`.

What `MarketInv` adds to them:

* `BarsFit` (`Fits`, `Builds`): where the ticks of the bar being built begin on the tape of
  its symbol, and that open, high, low, close, volume and notional are those of the tape from
  there to its end; together with the completed bars they make up the tape since the
  subscription. Of the clock it says that the first of these ticks reached the period of the
  bar, that none before did and that none is past its end; nothing says that it does not step
  back. `PassIsDated`: a pass has read a time the clock can show.
* `ListsCounted`, `CountedArePriced`, `ListsRequested`, `ListsNeedAFeed`: the feed counts at
  least what the registry lists, what is counted is priced and has an accumulator. The feed
  may count more: a manager that leaves is taken from the lists, and the feed is told later
  or not at all.
* `HearersListed`, `HearersCopied`, `TickIsLatest`: whoever has heard a tick is in the list
  and, while a pass has its symbol still to go, in the copy that the pass works from.
* `BadPeriodsKnown`: an accumulator with period 0 came from an invalid period.

### The remote gateway, and crashes

`AdapterProofs` is about `AdapterTradingSpec`: the order manager behind `GrpcGateway`, with
lost answers, failing calls, executions sent again, reconnections, and crashes after any
statement of a handler.

* `StreamsFed`: `OpenStreamsAreFed`.
* `ExecutionsCountedOnce`: `EachExecutionCountsOnce`. `VenueInv` says which broker ids are
  taken, by whom, and that a call in progress is that of the command at the head of the
  queue. `WindowInv` is about deduplication: ids are read in the order of the executions up
  to `Resent` places (`NotOld`), so a window of `2 * Resent - 1` holds every id that may come
  again. `CountInv` then says that what a row has counted and what it may still be given
  (`ToCount`: reports in the engine's queue and executions not seen that are on the stream
  or may be sent again) is no more than the venue executed.
* `LiveOrdersReachable`: `LiveOrdersStayReachable`, under the hypothesis
  `"update_broker_id" \notin FaultyCalls`, which the run has too. If that call fails, the row
  stays without the broker id of a live order, and the kill switch, which reads the table,
  skips it. All other calls may fail. `ReachInv` needs that the end of an order is
  reported only of orders that are dead at the venue (`EndsSent`, `EndsQueued`), and that a
  replacement whose answer is awaited has already replaced the old order (`ReplacedIsDead`).
* `OrdersLiveOnceAcrossCrashes`: `AdapterTradingSpec => LifecycleRefined`. A crash keeps
  what the statements before it wrote, which is a prefix of a handler; the proof maps each
  prefix to one step of `OrderLifecycle`. The order manager that starts afterwards reads
  nothing from the table, so the orders of before are never touched again; that its own
  never meet them rests on `IdsIssued`, which a crash in a call keeps by counting the id.
* `TrackingAcrossCrashes`: the three tracking invariants of `any_gateway` hold here too.

`VenueInv`, `WindowInv`, `CountInv` and `ReachInv` were checked by TLC on the instance of
`adapter_trading` before they were proved, `LifecycleRefined` and the tracking invariants
too.

### What is only model-checked

* Liveness (`EveryClientIsAnswered`, `DestructionEndsUnlessLost`, `EveryCallReturns`,
  `RunEnds`, `FlushReturns`, `ReconnectionRequestsAll`, `StopEndsUnlessMissed`,
  `OnlyUnreadStreamsBlock`): fairness is about ENABLED, which the prover does not handle.
* The properties of the violation runs, which are false.

## 5. Not modelled

LIMIT orders in the paper gateway (the order manager creates none); floating-point
rounding; in `TradingEngine`, fill streams (the same calls on another sink; `EventStreams`
has them) and a feed whose `stop` does not join; what a stream thread of `GrpcGateway` still
pushes into the queue of an order manager that is being destroyed (only that its join can
wait is in `TradingEngine`); a timestamp of the journal that cannot be converted, which is
stored as 'UNKNOWN' (sqlite_journal.cpp:80-85); a COMMIT that fails and leaves the transaction
open, so that the next BEGIN fails as well (one that rolls back is the case of a batch whose
INSERTs all fail); an RPC to the adapter that never returns (it has no deadline);
events of an adapter's market-data stream after it is opened; the adapter's market-data
queues and its loop that reconnects to the broker; several venues or accounts; adapter
processes that were not ready in time; the conversion of orders to the types of Alpaca's
SDK, which is not in the repository (the gateway is compiled only with it). The contracts,
the configuration, `main`, the strategy client and the test scripts have no behaviour of
their own to check.

## 6. Plan

Done: the order manager, its paper gateway and its accounting; the engine with adapters;
the journal; feeds, event queue and streams; the remote gateway with the adapter and
restarts; position queries and Alpaca's conversion; the theorems of section 4, which cover
every safety property the runs check. What could follow:

1. A safety property of `EventStreams` (what a fill stream has been sent is a part of what
   was pushed, in order) and its proof; only its liveness is checked now.
2. The destruction of an order manager that trades through `GrpcGateway`, whose `stop` does
   not join, and with it the hazard at grpc_market_data_feed.cpp:86.
3. Registration that fails half-way (the hazard at trading_engine.cpp:160), with a feed
   that refuses a subscription.
