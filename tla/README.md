# A TLA+ model of jt-trader

jt-trader runs trading scripts. In production each script is a *runtime* inside
the engine's process, fed with market data of real exchanges and trading on an
account or on paper; in a back test each set of parameters is a child process
that replays history against a paper exchange. A browser client talks to the
engine over a socket. This directory models the parts whose correctness depends
on order, interleaving and failure, checks them with TLC on small instances, and
proves its safety properties, for every size, with TLAPS.

The engine is Node.js: one thread, so that everything between two `await`s is
one step. A TLA+ action is what the code does from one `await` (or event) to the
next; a call that awaits is a slot or a record with a program counter. Paths
below are in the repository; `PROJECT.json` maps every definition to its lines.

    model                                            small instances    proofs
    ScriptRuntime --implements--> RuntimeRegistry    ScriptRuntimeMC    ScriptRuntimeProofs
    PaperExchange, MockExchange                      PaperExchangeMC    TesterTickProofs (paper),
                                                                        ScriptRuntimeProofs (mock)
    TesterTick --EXTENDS--> PaperExchange            TesterTickMC       TesterTickProofs
    TesterScheduler (TesterSchedulerMC); HistoryBars TesterMC           TesterSchedulerProofs;
                                                                        ServicesProofs
    DataFeed                                         DataFeedMC         DataFeedProofs
    ScriptContext --EXTENDS--> LeakyBucket; Bundles  ScriptContextMC    ScriptContextProofs
    Session, Requests                                ServicesMC         SessionProofs
    Jobs, Settings, ChartPlayback, BarsLoader,
    ReportView, LogView                              ServicesMC         ServicesProofs
    ScenarioGrid, ScenarioReport                     ServicesMC         ServicesProofs

    Sums: the sum of a list; InductionProofs: what the proofs know of sums and lists

## 1. Inventory

| Part | State it keeps | Operations | Talks to | Hard behaviour | Correct when |
|---|---|---|---|---|---|
| Runtime service and process registry (`src/environment/script/script.service.ts`, `process/script-process.factory.ts`, `process/script-process.ts`, `main.ts`, `exception/main-process-exception.handler.ts`) | `runIsLocked`, the map of processes, flags of a process, marks in the cache, rows of runtimes | run, stop, stopAll, restore, save, remove, SIGINT, fatal exception | gateway and system scripts call it; it calls bundler, exchange, script, cache, database | starts and stops that overlap over 5-6 awaits, scripts that throw, crash and restore, a save during a start | the limit holds, the lock is released, a stop reaches what runs, a boot revives what ran, a script has its row's arguments |
| Script contexts (`process/script-process-context*.ts`) | subscriptions, `tickIsLocked`, cached balance and positions, channels, timers | subscribe, unsubscribe, call the script, call the exchange | data feeds, SDK, bucket, cache driver | ticks during a tick, a push that meets an older answer, a stop at any point | ticks do not overlap, caches follow the feed, a stopped script is silent |
| Data feeds and exchange SDK (`environment/data-feed/*`, `exchange/ccxt-sdk.factory.ts`, `exchange/ccxt.service.ts`) | feeds by key, subscribers by id, `isStopped`, the SDK's `isFailed` and next retry | subscribe, unsubscribe, loop, monitoring | contexts subscribe; loops poll exchanges | loops and a timer share flags, feeds share an SDK, a subscriber may throw | one loop per feed, no call in a backoff, subscribers get data |
| Mock exchange of real tickers (`exchange/multi-cart-order.service.ts`, `ccxt.service.ts`, `ccxt-sdk.factory.ts`) | exchanges by key, a cart per symbol | getSDK, create, trigger, checkOrdersUpdates | contexts, feeds of orders, paper exchange | exchanges shared by several runtimes, polls that take everybody's updates | orders go where they belong, each update is heard once |
| Paper exchange (`exchange/order.service.ts`) | orders, positions, price gate, profit, updates | create, update, setNewCandle, trigger, check...Updates | tester SDKs and carts | the price gate is a cache; one-way and hedge mode; reduceOnly | positions and profit are what the fills make them; no crossed order is hidden |
| Tester SDKs (`exchange/tester-sync-sdk.ts`, `tester-async-sdk.ts`, `ccxt-mock-*.service.ts`) | where the tick is, rows left | runTicker, processUpdates, create/edit/cancelOrder | paper exchange, script | orders made inside callbacks of the same tick | no look-ahead, every update once and in order |
| Tester scheduler (`environment/script-tester/script-tester.service.ts`) | children, queue, queue of results | runScenarioInChild, runInChild, onChildStop, processQueue, stopAllProcesses | gateway, child processes, database | check before an await, `error` and `close` of one child, writes by timer | slots are freed, no wake-up is lost, results are not reordered |
| Scenarios and their reports (`script/scenario/*`, `script/storage/script-scenario-storage.service.ts`) | scenarios, sets, reports | compileAndSave, updateScenarioReport | client form, scheduler | combinations under a limit, charts with different times | sets are the form's combinations, the report adds up |
| History bars (`environment/history-bars/*`) | archives and files on disk | checkAndDownloadCsv, unpack, read | sources, s3, scheduler, children | several preparers of one file, an archive that does not unpack | a test reads whole months, a preparation ends |
| Leaky bucket (`common/leaky-bucket.ts`) | capacity, queue, timer | throttle, refill, pay | contexts, before each call of an exchange | rates and timers | calls keep to the rate and are not lost |
| Bundler, site API, cache (`script/bundler/*`, `common/api/site-api.ts`, `common/cache/*`) | texts, token and marks by key | generateBundle, generatePreviewExecutionBundle, getBundle, pushBundle, invalidateCache | rollup, the site, redis or a table | keys that lack what the text depends on, a cache emptied during a call | a start after the cache was emptied gets no older text |
| Gateway and connections (`events/*`) | users, sockets, ticker subscriptions | connect, authenticate, disconnect, messages | all services | several sockets of one user, messages during an authentication | no subscription outlives its user, events arrive once |
| Configuration, accounts, exchange connector (`environment/config/*`, `account/*`, `exchange/exchange-connector/*`) | rows of parameters | read, save, delete | gateway, starts | read-then-write by concurrent requests | what is saved is kept, keys are of one state |
| Artifacts and logs (`script/artifacts/*`) | reports, log files | save, read | scripts, gateway, client | event and file in either order | pages show what was saved |
| Client (`src/client`) | socket, requests, loader of bars, chart playback, pages | emit, load, play, pause, open, close | gateway | answers of concurrent requests, reconnects, loops that sleep | answers reach their request, pages show what is there |
| Data proxy (`data-proxy/*`) | sources by key | subscribe, remove unused | feeds, redis | keys spelt in two ways | every client gets quotes once |
| Monitoring, markets, console processes, user interface | - | requests, metrics, start of a child, rendering | - | - | - |

Hazards of all parts, each at its line, are in `PROJECT.json`; section 4 names
those that no property covers.

## 2. Plan

The most important behaviour came first: **ScriptRuntime** with
**RuntimeRegistry**; **PaperExchange**; **TesterTick**; **TesterScheduler**;
**DataFeed**; **LeakyBucket**; then **ScriptContext** over the bucket,
**Session** and **Requests** (sockets and what waits for answers on them),
**HistoryBars**, **Settings**, the client's **BarsLoader**, **ChartPlayback**,
**ReportView** and **LogView**, **ScenarioGrid** and **ScenarioReport**; at last
**MockExchange** beside PaperExchange, **Bundles** beside ScriptContext, and
**Jobs**, the runtimes as the pages see them. The proofs followed the same order
(section 5).

Open:

1. Abstract specifications: an exchange whose book has no gate, refined by
   PaperExchange; a pool of slots, refined by TesterScheduler.
2. Positions and balances of a mock's cart; the data proxy, once its keys agree
   with those of the feeds.

## 3. The modules

A property that has several sides is one definition, the conjunction of named
parts, each with its own comment.

### ScriptRuntime and RuntimeRegistry

`run(id)` is a call in a slot of `RunCalls`; its `pc` names the await it is in:
`lookup` (getRuntimeById), `limit` (processesLimit), `build` (bundle, markets),
`init` (ScriptProcess.init), `start` (the script's run), `mark` (the cache).
`RunLookup` ... `RunMark` are the steps that follow each await; `RunThrows` is
what every exception does: the `finally` of run frees `runIsLocked`, and a
restore that awaited this run is over. `stop(id)`, `stopAll` (SIGINT, fatal
exceptions) are calls in `StopCalls`: `BeginStop` runs the synchronous part of
`ScriptProcess.stop` for all keys, `ScriptStopped` deletes an entry when its
script has stopped, `Unmark` clears the marks when all have. `entry` and
`isEnabled` are the map of ScriptProcessFactory, `procs` the flags of process
objects, `marks` the `ENABLED_RUNTIME_PREFIX` keys, `rows` the Runtime table.
`Crash` loses memory and keeps the database; `Boot`, `RestoreNext`,
`RestoreDone` are `restoreRunningProcesses` before `app.listen`; `ExpireMark` is
the cache's time to live. `owed` is a history variable: what ran when the engine
went down.

`Overlap` says whether a call about a runtime may overlap another one about it,
`Events` what the environment does. `RuntimeRegistry` is what clients see: a set
`running` in which runtimes start one at a time within the limit, and stop. The
refinement maps `running` to the enabled entries of the map.

### Jobs

The same service as two pages see it: `Request` is a message that a page's list
offers (`JobControlButtons.tsx`), and its `pc` goes through the gateway's
handler. `WriteRow` is the database's part of a save or a removal, `CheckEnabled`,
`ReadRow` and `ApplyArgs` the way of new arguments to a running script
(`updateRuntime`, `forceUpdateProcessArgs`), `TakeRunLock` ... `Started` and
`BeginStopOf`, `Stopped` a start and a stop as far as entries and arguments are
concerned, `ListRows` and `SendList` the two steps of `getRuntimeList`. `Halted`
is `stopAll` after an exception without a cause. `seen`, `lastBy` and `missed`
are histories.

### PaperExchange

`Create`, `Edit`, `Cancel` (update), `SetNewCandle`, `Trigger` with `MatchNext`
(its loop, one order per step), `CheckOrdersUpdates`. `Execute` returns the
book after one fill: clipping of a reduceOnly order, averaging, reducing,
turning, the side of an emptied position. A position keeps entryPrice times
contracts, so that averages are exact; prices and amounts are ticks and lots.
`cash` is a history variable. Left out: balance, margin, leverage and fees
(numbers no decision reads) and the market's slippage beyond a half spread that
market orders pay.

### MockExchange

Runtimes of `gateio-mock` beside runtimes of `gateio`. `sdks` is the map of
CCXTService, under a key without the suffix; an exchange is a mock if whoever
asked first was one. `RegisterTrader`, `UpdateArgs`, `SubscribeTrader` are a
start; `CreatePaperOrder`, `CancelPaperOrder` the calls of the script; `Ticker`
fills what a price has reached; `Poll` is a second of a feed of orders, which
takes the updates of every cart; `MonitorWatcher`, `DropTicker` and `OrphanPolls`
what becomes of feeds nobody listens to. What a cart does with an order is PaperExchange:
here an order is filled at once, by a ticker, or canceled, and a cart that
`updateConfig` never reached has no position to fill.

### TesterTick

EXTENDS PaperExchange. `stage` walks through the order of events in `runTicker`,
which differs between the testers (`Stages`); `sync` chooses the tester. The
script creates, edits and cancels orders wherever the tick waits (`Waits`), and
not in its callbacks alone: `DataFeed.onData` drops the promise of the
subscriber (`data-feed.ts:75`, `:95`), so that `emit` (`TickEmitted`,
`UpdateEmitted`) returns at the callback's first await, and what follows it goes
on beside the updates, the end of the tick and the next candles. Only from the
matching to the taking of the updates there is no await for it to come in at.
`TakeUpdates` and `UpdateEmitted` are the rounds of `processUpdates`. `told`,
`born` and `filledAt` are histories. `ScriptKnowsItsOrders` promises the report
of a fill in the same candle for what the matching fills and for what runOnTick
trades before its first await; an order placed behind it may come after the
last round of updates and is reported with a later candle.

### TesterScheduler and HistoryBars

`launch` is the loop of `runScenarioInChild` per scenario, `task` what a
`runInChild` awaits, `child` the process of a set (`forked`, `failed`,
`running`, `exiting`, `warned`, `closed`), `handlers` the calls of `onChildStop`
in flight, with the step they are at (`FreeSlot`, `Finish`, `MakeReport`,
`MarkScenario`, `QueueProcessed`). `WriteResult` is the timer that writes the
queue of results. A set's pid stands as the set. Left out: the log map of the
current scenario. A write of a result is taken to end before the timer's next
tick, `MaxChild` to be the same for all accounts, and every set to be run once.

HistoryBars is the preparation before the sets: `NextMonth` goes through the
months of the range, `CheckCsv`, `SourceAnswers`, `NotFound`, `Uploaded` look
for an archive, `Unpack`, `Unpacked`, `UnpackFails` write the file, of which a
reader may see a part. Preparers are the engine's scenarios and children of the
asynchronous tester, which may be killed (`ChildKilled`).

### ScenarioGrid and ScenarioReport

Two pure algorithms as state machines, compared with what they stand for.
ScenarioGrid: `Prepared` (what the client sends), `WithFloatArg` (one parameter
multiplied out, cut to the limit) and `SaveScenario` (a set for each symbol and
combination), against the product of the ranges. ScenarioReport: `AddUp` walks
the times of the first chart and carries what it last knew of the others,
against the sum defined directly. A chart that starts later than the first one
counts with `undefined`, which makes the sums NaN (`NoNumber`).

### DataFeed

`dataFeeds` is the factory's map, `feed` the fields of DataFeed objects, `loop`
how many of a feed's loops await the SDK or are about to resume with data or an
error. `LoopTop` is the top of the `while` of `run`, `CallSucceeds` and
`CallFails` the end of `_superWsMethodCall`, `Deliver` and `Catch` what the loop
does then, `Monitoring` the timer that drops empty feeds and retries stopped
ones, `BackoffEnds` the passing of `nextRetryTms`. `Throwers` are subscribers
whose callback throws (in the code: the subscriber of positions, which reads
`this.positions` before anything has set it, `script-process-context.ts:108`).
Left out: the length of the backoff, the synchronous feeds of the tester (they
are TesterTick), subscriptions through the data proxy; the feeds of mocked
exchanges, which do not pass through `_superWsMethodCall`, are in MockExchange.

### LeakyBucket and ScriptContext

The bucket as a context makes it (`capacity` the account's limit, `interval` 1)
and uses it (`throttle(1)`): `Resolve` and `Reject` are the two outcomes of
throttle with the refill and the payment they include. With the timeout equal to
the interval nothing ever waits in the queue, so that the queue and its timer
are not modelled, nor are pause, drain, end and events, which nothing calls.
Units are chosen so that a refill is whole; the code computes with floating
point numbers. `calls` is a history of the last second, which `SumTo` (Sums) adds up.

ScriptContext EXTENDS it: `LoadCall` ... `SubscribeDataFeeds` are a start, `Tick`
and `TickEnds` the wrapper of `_callInstance` with its lock, `CallExchange`,
`ExchangeAnswers`, `CallReturns` a call of the script through the bucket,
`Push` the feeds of balance and positions, `SubscribeChannel`, `SetTimeout` what
a script leaves behind, `Stop` what takes it back, once, before the script's own
stop is awaited. `setTimeouts` counts the timers by whether they were set before
that or since. Values of an account are
numbered in the order the exchange makes them, so that "older" is a comparison.

### Bundles

Which text of a strategy a start, a preview or an upload gets. A call goes from
`BeginBuild` through the caches (`LookForPreview`, `LookForBundle`), the build
(`Build`) or the site (`TokenRead`, `SiteGivesBundle`, `SiteTakesUpload`) to
what it keeps (`KeepBundle`, `KeepPreview`). `Edit`, `LogIn`, `Expires` happen
beside them; `ReadKeys` and `DeleteKeys` are the two steps of
`deleteAllHostKeys`. A text is the version it was built from. `floor` is a
history: what a call that begins after the cache was emptied may rely on.

### Session, Requests and Settings

Session: tabs with `_socketAuth` and `_events` (`socket.ts`), sockets that are
lost before the gateway hears of it, the calls of `authUser` in flight; a login,
which passes the queue of a socket that is not authenticated (`socket.ts:82`);
the records of ConnectionService and the ticker subscriptions behind them. Requests:
six kinds of requests that wait for an event, which differ in what they compare
and in when they unsubscribe. Settings: the save, deletion and reading of
parameters row by row, by several requests.

### Client: BarsLoader, ChartPlayback, ReportView, LogView

BarsLoader: a load of several months (`GetBars`, `TakeMonth`), whose replies go
to every load that waits; `Holds` compares the file name within the archive.
ChartPlayback: the loops of `play()` with their sleeps, the button and the
events. ReportView and LogView: a page that is opened, fetches, hears of updates
and is closed, over one place of the store. A line of a log is written with an
event (`Log`) or without (`LogWithoutEvent`: `script-process.factory.ts:103`,
`script-process-context-base.ts:194`, the exception handler), and a file that
cannot be parsed is answered with no lines (`ReadLog`).

## 4. The runs

An MC module may hold several components. They share no variable: `part` says
which of them a behaviour is of, and the others keep their first state, so that
the numbers of states add up.

| Run | Question | Bounds, and why they are enough |
|---|---|---|
| `runtime_overlap` | Do the map, the lock and the limit survive any overlap of starts, stops, SIGINT and fatal errors while scripts throw? Is the registry implemented? Does a stop that throws leave the others alone? | 2 runtimes, limit 1, 2 slots of each call, 2 process objects: one runtime more than the limit, two starts and two stops at once; the theorems below cover every size |
| `runtime_crash` | Does a boot after a crash revive what ran, is everything enabled marked? | 2 runtimes within a limit of 2, so that a restore has two steps; one start and two stops at once; rows are removed |
| `runtime_live` | Do the lock, restores and stops come to an end; does every process with feeds count and can it be stopped? | 2 runtimes, limit 1; calls about one runtime do not overlap: with overlap both safety properties fail, see below; scripts that throw and start others, crashes, expiring marks |
| `paper` | Do positions, profit and gate follow from the fills? Do mocks and an account stay apart and hear of their orders? | 3 orders: open, enlarge or reduce, turn or close; prices 12 and 24 with a half spread of 6, so that averages are whole; 1 or 2 lots, so that an order exceeds the position. Mocks: two symbols on one exchange, one of another market under the same symbol, a runtime with a key; two orders of two runtimes, or one order and three starts |
| `tick` | Is the script told everything in order and nothing filled by what it has seen? | 2 candles, 2 orders, 1 edit: an order that waits for the next candle and one made in a callback of the same tick or behind its await; limits of both sides, stops and market orders of one (`paper` has the others); both testers |
| `tester` | Are slots and queue kept together and served? Is what a test reads whole, and does a preparation end? | 1 slot, scenarios of 2 and 1 sets of which one has been tested before: a queue, a launch beside a launch. Bars: 2 months, two scenarios and a child that need both or one, 2 sources to fall back on |
| `feeds` | Do loops, retries and subscriptions stay together, does data arrive? | 2 keys of one SDK, 2 subscribers on one of them and one that throws on the other, 2 failures (a retry may fail again), up to 5 subscriptions to a feed of the one key and one of the other before it is made anew |
| `context` | Do lock, caches, rate and silence of a script hold? Is the text it runs current? | Budgets divide what a script does: 5 calls, 5 ticks, 2 calls against 2 changes of the account, or 3 channels and a timer set before or after, each with a stop at any point; a limit of 2 calls in 4 ticks of the clock, so that a burst and a refill meet in one window. Bundles: 3 calls in 2 slots, 2 versions of file and store, the cache emptied once |
| `services` | Ten parts around the engine, one at a time | Two tabs with two sockets or three without events, a login among the events of one or two sockets, two pairs of one exchange to subscribe to, one tab that is forced to reconnect; 3 candles of 2 ticks and 6 clicks; 4 requests about 2 fields; 3 requests at once; loads of 3 and of 1 months that share none or one reply; 2 reports whose pages are opened three times, and 2 logs with 2 lines; forms of 2 parameters and a limit of 4 sets; 3 charts over 3 times; a job, two pages, two requests at once, 5 in all |
| `runtime_limit` (violation) | `README.md:127` | overlap allowed |
| `runtime_restart` (violation) | `main.ts:32` | a SIGINT, nothing else |
| `tester_limit` (violation) | `README.md:130` | two scenarios at once, no other event |

`CHECK_DEADLOCK FALSE` is set where the system really ends or rests: the tester
after its last set, a tick at the end of the data, feeds without subscribers, a
budget of requests that is used up. Symmetry is used in runs without liveness
only, and over constants that the configuration treats alike. The view of
`paper` drops the queue of updates, which no action of that run's properties
reads.

What the violations show:

- **`runtime_limit`**. `ScriptProcess.stop` of a process that is not inited only
  sets `isStopped`, which `start` does not read. A stop during a start removes
  the entry; the start goes on, subscribes its feeds and sets the entry again;
  a second stop that was still waiting deletes that entry and leaves a process
  that trades outside the map, and the limit does not count it.
- **`runtime_restart`**. The SIGINT handler (also used for the client's reboot)
  calls `stopAll`, which clears every mark, so that the restore of the next boot
  finds nothing, though `main.ts:32` says "Restore running scripts after
  restart or crash".
- **`tester_limit`**. `runInChild` compares the number of children with the
  limit before it awaits the look for cached results, and adds its entry after
  it: two scenarios take the last slot.

### What the properties had to leave out

A property of a passing run is as strong as the code allows. Where it names an
exception, the code does what the exception says:

- one start that throws, or a script's own start that holds the lock, ends the
  restore of all the runtimes behind it; a mark expires after four days while
  its runtime runs (`runtime_crash` has no `throw`, `scripts` or `expire`);
- a tick that is skipped opens the lock of the one that runs
  (`OverlapOnlyAfterSkip`); a forced fetch may write an older state over what
  the feed pushed meanwhile (`CachesFollowFeed`); a channel that a script
  subscribes twice is unsubscribed once, and timers and channels that a script
  adds while its own stop is awaited, or later in code that was under way, call
  it after its end (`StoppedIsSilent`);
- orders that runOnTick places behind its first await are reported with a later
  candle than the one they are traded in (`ScriptKnowsItsOrders`);
- a login overtakes the events that wait for the authentication
  (`EventsArriveOnce`);
- an open log misses the lines that have no event, until its file is read again,
  and all of them when the file cannot be parsed (`LogFollowsFile`);
- each context has a bucket of its own, which lets up to one call less than
  twice the limit through in a second, though `README.md:129` calls it the
  "Maximum allowed number of exchange API calls per second"
  (`RateFollowsLimit`), and `sdkCall` (`script-process-context-base.ts:275`)
  calls the exchange without asking the bucket, so that the property is about
  the calls that do;
- a save of a runtime during its start, or during another save of it, may not
  reach the script, which runs with the arguments of before until it is saved or
  started again, and a script that throws at new arguments leaves the page that
  saved them without a new list (`missed`, `lastBy` in `JobsAgree`);
- the poll of one mock takes the updates of the others, and so does the last
  poll of a feed that was dropped; a script whose exchange was always its own
  misses none (`UpdatesHeardOnce`). The mock and the runtime without a key share
  an exchange, and the first of them decides what it is: a mock that comes
  second sends its orders to an exchange without a key, which refuses them
  (`OrdersGoHome`). `register` configures the carts of swaps only, so that an
  order of a mock of spot cannot be filled and its ticker's feed fails;
- a call that was under way when the cache was emptied writes its old text back
  (`TextsAreCurrent` promises the new text only when none was under way, and
  says nothing of the mode: a bundle that was asked for by a test may be given
  to a runtime, as the key has no mode);
- a closed socket stays listed when its user had several or was still being
  authenticated, and so do its ticker subscriptions; their ids are counted per
  feed, so that a record's removal of an id takes the subscriptions of other
  pairs with it, which stay in their feeds (`RecordsFollowSockets`);
- of two writers of a parameter each may make a row, and a deletion then brings
  the older value back (`SettingsFollowRequests`);
- answers of kinds that compare no id are taken by any request of that kind
  that waits (`OwnAnswers`); a runtime chart whose source fails answers under
  the tester's event and cuts a load of bars short, which is then cached
  (`KeptIsWhole`); two loops of a player may draw on one chart
  (`PlaybackFollowsButtons`); a subscription to a report is never taken back
  (`PageShowsLastReport`);
- an archive that cannot be unpacked leaves its scenario waiting for ever, and
  a part of a file behind (`PreparationEnds`, `PreparedIsWhole`);
- a set answered from the cache keeps an entry under the engine's own pid
  (`script-tester.service.ts:275`), so that `QueueAndSlotsMove` speaks of
  behaviours without cached sets only.

Of some hazards the exception is the whole case, so that no property covers
them and `PROJECT.json` gives the reason: a stop and a start of one runtime that
meet (the start wins, `script-process.factory.ts:156`), the entry of a cached
set, an archive that does not unpack, two writers of one parameter, the data
proxy. Of others a part is left: a second loop on a chart, the text that a call
under way writes back, and what a stopping script adds.

Also observed, without a property: in one-way mode a reduceOnly order on the
side of the position enlarges it, and in hedge mode a stop order with the
direction of its position is not reduceOnly, against the comment at
`order.service.ts:117`; the check for a 'Loop in onOrderChange' in
`tester-sync-sdk.ts:79` asks for `i > 2` inside `i < 3` and cannot fire; the
price gate of `order.service.ts:240` asks whether the candle reaches the lowest
price from below or the highest from above, and so is open whenever orders wait;
a step of 0 makes the loop of `script-scenario.service.ts:48` endless; the
gateway's case of a reboot (`events.gateway.ts:343`) falls through to the
removal of a runtime; a failed start sends the asker's list to everybody, and
the update of jobs after a fatal error sends the list of scenarios, so that the
pages keep showing runtimes that were stopped; saving or removing a runtime
whose row is gone throws without a cause, which stops all runtimes; emptying the
cache removes the site's token and the marks of running runtimes too; the
client's `pullUserSourceCode` succeeds by its timeout only.

### Fairness

- ScriptRuntime: weak fairness of the steps of calls and of the restore. The
  promises the engine awaits (database, exchange, the script's methods) settle;
  nobody is obliged to call anything. A script that never resolves blocks its
  start in the code too.
- TesterMC: weak fairness of `FairStep`, which is launches, tasks, children,
  handlers and the timer taken together, and of the steps of preparers.
  `execTimeout` (`script-tester.service.ts:378`) ends children that do not end
  by themselves; a client may stop all tests at any time. Downloads settle; what
  does not settle is the promise of an archive that fails to unpack, and there
  no step is enabled.
- DataFeed: weak fairness of calls, resumptions and the backoff; calls of an
  exchange settle, failures are bounded by `MaxFailures`, so that the exchange
  answers in the end. Strong fairness of `Monitoring`: an interval timer waits
  until the queue of microtasks is empty, which happens again and again without
  lasting.
- The other modules have safety properties only.

### Mutants

Each property of a passing run has a mutant of the code, or several, written
beside the definition it changes and commented with the bug it stands for: a
check of the limit off by one, a lock without `finally`, a stop that keeps the
feeds, a gate that a candle must cross and not just touch, a loop that does not
look at its SDK's flag, a key without the API key in it, a poll that empties one
cart only, arguments read before the row was saved.

## 5. The proofs

TLC looks at the small instances of section 4; the theorems hold of every value
of the constants. They rest on the assumptions that the modules name, which say
that bounds are numbers, prices and amounts positive, the spread below the
prices, ids and "nothing" different things, and that the requests of an
instance are of the shape the code gives them; each is evaluated in the runs.

| Module | Theorems: the inductive invariant, and what follows from it |
|---|---|
| ScriptRuntimeProofs, the service | `InvariantCorrect`: `TypeCorrect`, `LockCorrect`, `LimitCorrect`, `FeedsCorrect`, `ReplacementCorrect`, `ImplementsRegistry`; `ApartCorrect`: `NoOrphanCorrect`, `RunningLimitCorrect`, `MarksCorrect`; `RestoreCorrect` |
| ScriptRuntimeProofs, mock exchanges | `MockInvCorrect`: `OrdersGoHomeCorrect`; `HeardInvCorrect`: `UpdatesHeardOnceCorrect` |
| TesterTickProofs, the paper exchange | `PaperInvCorrect`: `ProfitCorrect`, `SidesCorrect`, `CrossedOrdersMatchedCorrect`, `ReduceOnlyReducesCorrect`, `BookCorrect` |
| TesterTickProofs, the testers' tick | `TickInvCorrect`: `TickRunsExchange`, `NoLookAheadCorrect`, `ScriptKnowsCorrect` |
| TesterSchedulerProofs | `SchedulerInvCorrect`: `SetsAreServedCorrect` |
| DataFeedProofs | `FeedInvCorrect`: `OneLoopCorrect`, `SubscriberInFeedCorrect`, `OnlyHoldersServed` |
| ScriptContextProofs | `BucketCorrect`; `ContextInvCorrect`: `TicksApartCorrect`, `CachesCorrect`, `StoppedCorrect`; `RateCorrect`; `BundlesInvCorrect`: `TextsAreCurrentCorrect` |
| SessionProofs | `RecordsInvCorrect`: `RecordsFollowSocketsCorrect`; `EventsInvCorrect`: `EventsArriveOnceCorrect`; `RequestsInvCorrect`: `OwnAnswersCorrect` |
| ServicesProofs | `BarsInvCorrect`: `PreparedIsWholeCorrect`; `LoaderInvCorrect`: `KeptIsWholeCorrect`; `JobsInvCorrect`: `JobsAgreeCorrect`; `ViewInvCorrect`: `PageShowsLastCorrect`; `LogInvCorrect`: `LogFollowsFileCorrect`; `SettingsInvCorrect`: `SettingsFollowCorrect`; `PlaybackInvCorrect`: `PlaybackFollowsCorrect`; `GridInvCorrect`: `SetsCoverFormCorrect`; `ReportInvCorrect`: `ReportAddsUpCorrect` |

Few of the properties are inductive. Most speak of a quiet state, or of what has
arrived, and their invariants say what holds on the way there.

**ScriptRuntime.** `EnabledWithinLimit` needs that the count `register` took
several awaits ago is still right when the entry is enabled: `ChecksStillHold`,
which holds because `LockHeldByOneRun` lets no other start come between and
stops only lower the count. `EnabledHasFeeds` and `OnlyIdleProcessReplaced` need
that the process being started is nobody else's and idle (`StartedIsFresh`,
`EntriesDistinct`) and that only enabled entries have feeds (`FeedsEnabled`).
`IInv` is their conjunction with the types. The proof of types (`NextType`) and
that of the rest (`Core`, preserved by `CoreNext`) are separate, each with a
lemma per action; steps that only delete entries share `CoreDrop`.
`LimitCorrect` rests on two lemmas about cardinality (`FewerEnabled`,
`OneMoreEnabled`). The refinement maps a step that enables an entry to `Start`,
one that removes entries to `Stop`, all others to a stutter.

`NoOrphanProcess`, `RunningWithinLimit` and `EnabledIsMarked` are false when
calls about a runtime overlap: `runtime_limit` shows it. Their theorems have the
hypothesis `Alone`, that they do not, and that nothing stops all runtimes
(`stopAll` is a call about every one of them); `MarksCorrect` that no mark
expires, too. `ApartInv` adds to `IInv` that each runtime has one call at a time
(`CallsApart`) and what then follows: no process that is started or runs has
been stopped, and a stop waits for processes without feeds only.

`RestoreRevives` is about the end of a boot, and is proved of the behaviours in
which nothing gets in its way (`Undisturbed`): calls stay apart, no start fails,
no mark expires, no script calls its service while it is restored, and there is
room for every runtime. The room is needed because a crash may come between the
end of a stop and the removal of its mark: then one mark too many is restored,
and may take a place below the limit from a runtime that ran. `BootInv` follows
the restore along its list: whoever ran as the engine went down and still has a
row is enabled, or its mark is still to be read, or its start is on its way.

**Mock exchanges.** `OrdersGoHome`: an exchange with a key is no mock, a runtime
that may call its exchange has one, and a mock of swaps has its cart from
`register` on, not only when it runs. `UpdatesHeardOnce` needs that queues and
scripts have true updates of their carts' orders, each in one place
(`QueuesTrue`, `HeardTrue`), that an order belongs to a runtime that still runs
or to an exchange that is shared (`OrdersOwned`), and that an exchange which is
not shared is polled by the feed of its owner and no other (`FeedsOwned`).

**The paper exchange.** `CrossedOrdersMatched` needs that the gate covers the
price of every waiting order (`LimitsCross`), `ProfitMatchesCash` that an empty
position is a new one, `ReduceOnlyReduces` that a reduceOnly order of hedge mode
stands against its position. Averages stay whole because a position keeps
entryPrice times contracts. `BookFollowsFills` adds sums over the orders:
`FillsInv`. `TickRunsExchange` maps every step of the testers to a step of the
exchange or a stutter, so that all this holds inside them; `NoLookAhead` and
`ScriptKnowsItsOrders` need the stage at which orders are born and filled
(`HistoryInv`), that the updates on their way lead from what the script was told
to what is (`SeesInv`, over `Leads`), and that after a round of
`processUpdates` none of this tick's fills is left behind (`TradeInv`).

**The scheduler.** A set is queued, looked at, run or reported, in this order
and in one place (`PlaceInv`); a scenario whose sets are done is marked or
somebody will still look at it (`MarkInv`); and the number of slots taken plus
those who will look at the queue is at least the number of slots while a set
waits (`SlotInv`).

**Feeds, contexts, bundles.** Feeds of two keys differ and give each id once
(`FeedsApart`, `IdsGivenOnce`), and nobody who has left is in a feed
(`OnlyHolders`). An answer older than what the feed pushed was on its way then
(`AnswersFollowFeed`); a channel's subscription is no newer than the map's
(`ChannelsMapped`). `RateFollowsLimit` is about the last second only and
becomes inductive when it is said of the last n ticks for every n
(`SpentWithin`): what their calls cost and what the bucket holds is between
what n ticks refill and that plus a full bucket. A text under a key is as new as
the key says (`CacheFits`), a call knows what it may rely on (`CallsFit`), and a
sweep of the cache that no call has met sees all keys (`SweepFindsAll`).

**Sessions and requests.** The feeds hold exactly what the records list and
what was lost (`Held`), and every socket with a user is listed until the
gateway hears of its end (`UsersListed`). An event is in one place (`InOnePlace`)
and the places are in order but for logins; before a tab's first authentication
nothing but logins has left it (`NothingWaits`). A request that waits while the answer of another of
its kind is to come has met that one (`MeetingsKnown`).

**Services.** Bars: the months behind a preparer are there, a part of a file has
a writer or was broken off. Loader: what a load has put together is the first of
its months. Jobs: for every job a request is about to give the script its row
(`ArgsOnTheWay`), for every page one is about to send a list (`ListsOnTheWay`).
Report: an answer has the saved version or an announcement behind it
(`AnswersRecent`). Logs: every line of the file is in the view, in an event with
no answer behind it, or lost, as those are that have no event (`LinesCovered`). Settings: fields no two writers
have met in have one row at most, and a reader has read what was settled when it
began. Playback: until two loops draw at once, the player is in one of four
phases.

**Scenarios.** The rows after p ranges list the combinations of the first p of
them, each once (`RangesDone`, `EachOnce`); that the next range keeps this is
what a quotient and a remainder say of the places of a table (`Places`).
`SetsCoverFormCorrect` has two hypotheses: a limit of zero leaves no combination,
of which the code makes one set without parameters, and a symbol that is entered
twice gets its sets twice. `ReportAddsUp`: the points made so far are the sums at
the times that are done (`SeriesSoFar`), and what is carried along is what every
chart was last known to be (`LastKnown`).

**Sums and lists.** The library's theorems of induction take the claim as an
operator, which the provers cannot instantiate. `Least` (InductionProofs), that
a set of numbers that is not empty has a least element, can be used: of a
counterexample one takes the least. From it follow what `SumTo` and `FlattenSeq`
compute (`SumSteps`, `SumChanged`, `FlattenOnce`), and that division with a
remainder exists (`DivModExist`). `BookCorrect`, `RateCorrect`,
`UpdatesHeardOnceCorrect` and the theorems about scenarios rest on them;
PaperExchange, LeakyBucket and ScenarioReport add up with `SumTo` for that
reason.

What the proofs corrected in the model: a scheduler's slots that nobody watches
(`NoIdleSlot`); a report's page that is opened for A, B and A again while the
first answer is on its way (`late` in PageShowsLastReport); what a tester's
script knows of its orders between two rounds; the ids of ticker subscriptions,
which are counted per feed, so that a record's removal of an id takes the
subscriptions of other pairs with it.

Only model-checked are the properties with fairness (`CallsEnd`,
`QueueAndSlotsMove`, `PreparationEnds` and `FeedDelivers`), which the prover
cannot reach, and `StopTakesEffect`.

## 6. Not modelled

- The data proxy (`data-proxy/*`), a separate process that publishes prices to
  redis when `DATA_PROXY_MODE` is set. The feeds subscribe to keys with the market
  type in upper case (`data-feed.factory.ts:74`), the proxy publishes and
  remembers its sources under the lower case (`data-source.service.ts:48`):
  nothing it publishes reaches a script, every subscription adds a source, and
  `removeSource` takes the type for the symbol. There is no promise to state of
  it until the keys agree.
- Monitoring and markets, the console processes (the scheduler sees their spawn,
  error, exit and close), the user interface: no state that later decisions read.
- Within the modelled parts: balances, margins, leverage and fees of the paper
  exchange; the texts and tables of reports; the transformation of a strategy's
  text; the tree of strategy files and the code editor; the lists of scenarios
  and strategies; the drivers of the cache; constants such as the lists of
  exchanges and of messages, which are most of the repository's longest files.
  More than half of the lines that no definition maps are the client's
  components, which render what the modelled services hold.
