# Quanteo in TLA+

Quanteo trades Korean and US stocks through one Toss account. This directory
holds TLA+ models of the parts of it where the order of things matters, the TLC
runs that check them on small instances, and theorems about them that TLAPS
proves for every size.

Paths are relative to the repository (`core/`, `info/`, ...); in `PROJECT.json`
they carry the prefix `src/`.

## 1. The system

`quanteo-core` is one Python process with one asyncio event loop
(`core/app.py`, `run`). Whatever runs concurrently in it is a task of that loop,
so the only points where another task can come between are `await`s. All tasks
share one SQLite connection (`core/store/db.py`): a statement executed by one
task is visible to all at once and is made durable by *anybody's* `commit()`.

| Component | State | Operations | Talks to |
|---|---|---|---|
| Order executor (`core/execution/executor.py`) | rows of `orders`, `fills` | `submit`, `record_fill` | broker, store, bus |
| `OrderSyncFeed` (30 s, only with trading) | none between cycles | poll `get_order` for pending rows | broker, store, bus |
| `OrderHistorySyncFeed` (60 s) | `_closed_history_backfilled` | mirror OPEN and CLOSED lists | broker, store |
| Order routes (`core/api/routes/orders.py`) | none | cancel, modify | broker, store |
| Toss access token (`core/adapters/toss/auth.py`) | token in memory, cache file, refresh task, lock | get, refresh on 401, renew before expiry | token endpoint |
| Toss REST client, throttler | token bucket | requests with one retry on 401, back-off on 429 | Toss |
| `PositionSyncFeed` (15 s) | failure count, lock | mirror the holdings | broker, store, bus |
| Risk manager, control routes | halt level, orders of the day | `evaluate`, `check_exit`, pause, resume, kill | bus |
| Event bus | queue of 1000 | publish (never waits), dispatch in order | everybody |
| Telegram notifier | urgent queue 20, normal 100 | send, drain at the end | Telegram |
| `/stream` | a queue of 500 per client | forward every event | dashboard |
| Market feed and collector | symbols, market tables | poll prices | broker, store |
| Strategy engine (`core/strategy/engine.py`) | candle buffers, failed strategies | register, warm up, hand a tick to each strategy, publish its signal | bus |
| Leverage/inverse strategy | the position it believes in | on tick: enter, leave or reduce | engine |
| CCI/BBC strategy, `MultiTimeframeLoader` | none; cached frames with a time to live | on tick: a signal or none; load the frames | engine, Toss |
| InfoSystem (optional) | seen URLs, FX base, dead-letter queue | news, calendar, FX alerts | Telegram, Claude, Google Calendar |
| Stock Miner (own process) | file caches, last summaries, watchlist, dead letters | daily pipeline with retries, report, buttons | KRX, DART, Claude, Telegram |
| Backtest, dashboard, read-only routes | none that matters | replay, display, query | |

Signals are published, but nothing in the repository carries one from the bus to
`RiskManager.evaluate` and `OrderExecutor.submit`, nothing publishes a tick or a
candle in production, and nothing registers a strategy; the models of these
therefore let the caller call at any time, twice, and concurrently.

**What is hard.** An operation reads the table, awaits the broker, and writes
what it decided before; another task wrote in between. The broker does what it
is asked and the answer is lost. The process restarts between two steps. Two
listings of one cycle are taken at different times. One of several statements
fails on a connection everybody shares. Queues are bounded and drop. Tokens
invalidate each other.

**What makes each part correct.**

* Orders: a client order reaches the broker once; it is in the table before it
  is at the broker; a row belongs to its own order and an order to one row; the
  table never says "filled" of an order that is not; what the broker decided
  reaches the table; old history is not lost.
* Token: callers never destroy each other's token; the lock is always freed;
  memory, cache and server agree.
* Positions: the table comes to agree with the account; the events tell every
  change.
* Risk: no order past a limit or a halt; a kill stays until a restart.
* Bus and notifier: accepted events reach each subscriber once and in order;
  only overflow and stop lose any; an urgent message is not behind a normal one.
* Strategies: what is sold was bought; one candle does not trade back and forth;
  the frames that are looked at together fit together; a better market never
  turns a purchase into a sale.
* InfoSystem: no alert vanishes without a trace; an item is alerted once a
  day, an entry is in the calendar once; an FX alert is about today.
* Stock Miner: the files that outlive a run are right; each stock of a report is
  told once; the buttons under it work; every run ends with a report or an alert.

`PROJECT.json` lists the components and the hazards, each at its line, with the
properties that watch them.

## 2. What is modelled

### `OrderLifecycle`: the orders table and its writers

A row is keyed by its `client_order_id`; the key `toss-native-b` of an order the
bot did not make is the broker id `b` itself. `status` and `bid` are the columns
`status` and `broker_order_id`; `issued`, `bstatus` and `cid` are what the broker
knows. Quantities, prices, symbols and times are left out: no branch of these
operations reads them.

| Code | Actions |
|---|---|
| `OrderExecutor.submit` | `SubmitCheck` (the SELECT), `SubmitInsert`, `SubmitPlace` (the broker took the order or not, and the answer came or not), then `SubmitStore` or `SubmitFailed` |
| `OrderSyncFeed.sync_once` | `OrderSyncSnapshot`, and per row `OrderSyncFetch`, `OrderSyncStore` |
| `OrderHistorySyncFeed.sync_once` | `HistoryListOpen`, `HistoryListClosed` per page, and per listed order `HistorySelect`, `HistoryWrite` (the two awaits of `upsert_broker_order`) |
| `cancel_order` | `CancelRequest`, `CancelStore` |
| `modify_order` | `ModifyRequest` |
| restart (`_log_persisted_state`) | `Restart`: volatile state is gone, nothing is resubmitted |
| Toss (external) | `ForeignOrder`, `PartialFill`, `Fill`, `Reject`, `CancelDone`, `Expire`, `ReplaceDone`, `RequestRefused` |

One action is the code between two awaits that touch the broker or read the
table for a later write. `execute` and the `commit` after it are one step.
A failed broker read or database write, and a lost answer of a cancel, is the
disjunct `Fault` of its action. One cancel is under way at a time (`apiHold`).
`Echo` says whether Toss returns a `clientOrderId` in its listings; the docstring
of `upsert_broker_order` says it does not always.

`ClientOrder` is the abstract specification of what the caller of `submit` is
promised: the order is written, then sent, once; it is decided once; its row
comes to point at it and at no other, for good; and a fill is told only of an
order that was filled. `OrderPromise` has `OrderLifecycle` implement it, with the
orders at the broker, their final statuses, the rows and `announced` as its state.

### `TossAuth`: the access token

Tokens are numbered as the server issues them, and the newest is the one it
accepts. `queue` is the `asyncio.Lock`: the head holds it, the others wait in
order. `phase` is the holder's progress through `_issue_token`. `timer` is the
task of `_schedule_proactive_refresh`, which can be asleep, in the lock's queue,
or gone. Time appears as the age of a token (`fresh`, `near`: less than 60 s
left, `dead`); since a call takes seconds and a token lives an hour, no token
issued during a call grows old in it. `Call` and `Serve` are `_do_request` with
its one retry. `OtherInstance` is a second process with the same credentials and
cache file, which `auth.py` names as a cause of a 401.

### `PositionSync`: the positions table and its events

`work` is the table as the connection sees it and `db` what is committed, since
`_sync_once_locked` writes row by row and commits at the end. `Fetch` is
`get_balance` and the SELECT, `Upsert` and `Liquidate` are one statement each,
`Commit` and `Publish` follow. `WriteFails` abandons the sync without a rollback,
as `run` does; `OtherCommit` is another task's `commit()`. `told` is what a
dashboard knows that loaded the positions and then follows `POSITION_UPDATED`.
A holding stands for the pair of quantity and average price.

### `RiskManager`: the gate between a signal and an order

`evaluate`, `check_exit`, `graduated_halt` and the three control routes do not
await between reading and writing the manager's fields, so each is one action;
`RefreshedCount` is the lazy reset of the day's count. Nothing in the repository
calls `evaluate` outside the tests (the executor's docstring shows the intended
call), so signals arrive in any order and with any portfolio that was true once:
`LoadPortfolio` reads the account anew. Around the gate, `account` and `buying`
tell what the approved orders amount to, and `blind` remembers whether a BUY was
ever approved on a portfolio that showed less than is held or on order. The
limits are linear in the price, so each symbol keeps one price; a SELL is only
known to be open, since it adds nothing to a limit.

### `Messaging`: bus, notifier, `/stream`, and the end of the process

Events are numbered as they are published; of an event only matters which queue
of the notifier it goes to (`Kinds`). `bus`, `urgent`, `normal` and `outbox` are
the bounded queues. `Dispatch` is one round of `_dispatch_loop` with the
handlers of `wire_notifier` and `/stream`, which only put into queues and hence
suspend nowhere. `phase` is where the notifier's `run` is suspended: polling, in
`_send_message`, in its rate limit, in the drain; `stage` is the queue the drain
is at. A call to Telegram may fail before or after the message got through.

`StopBus`, `StopNotifier` and `CancelPendingTasks` are `_shutdown` and what
follows it in `_wait_stop`. After `notifier.stop()` nothing suspends before the
cancellation unless an InfoSystem is stopped in between (`watch = "info"`), so
the drain normally runs in the `finally` of a cancelled `run`, and with an
InfoSystem the cancellation may meet the drain. `TaskFails` is the TaskGroup's
own cancellation when some task raises; the bus is not in the group and
dispatches on until `Exit`. `trouble` records what went wrong, for the
properties only.

`LossyChannel` is the abstract specification of what a subscriber is promised:
each event once and in order until something breaks, and afterwards none twice
and none late. `Messaging` implements it three times (`UrgentView`, `NormalView`,
`StreamView`), with what Telegram or the client got as `received` and the causes
that count for that subscriber as `broken`.

### `InfoSystem`: scheduler, news, FX, calendar, alerts

Each job of `InfoScheduler`, and the loop over dead letters, is a coroutine of
its own. `todo[j]` is what job `j` still has to do, a list of pairs of what and
about what; a step takes the first, may put new ones in its place, and any other
job may run before the next. So a news poll is `fetch`, then `mark` (the seen
store, on disk), `item` (Claude) and `news` (the message) per item.

| Code | Definitions |
|---|---|
| `InfoScheduler._register_jobs`, its jobs, market hours | `StartsAt`, `Fire`, `Plan`, `JobFails` |
| `RssCollector.fetch`, `_mark_seen`; `FinnhubCollector.fetch` | `RssFetch`, `MarkSeen`, `Later`; `UsFetch` |
| `ClaudeFilter.classify` | `Classify`: an answer, or the fallback, which alerts nothing |
| `FxRateMonitor.snapshot`, `check_and_alert` | `FirstBase`, `FxCheck` |
| `InfoNotifier._send_text`, `retry_dlq` | `SendText`, `Failed`, `RetryDlq` |
| `GoogleCalendarClient._add_event_sync` | `CheckEntry`, `AddEntry` |
| `InfoSystem.start`, `stop` | `Init`, `Started`, `Restart` |

`Wirings` tells what `InfoNotifier` wraps: `"direct"` is a notifier that raises
when a message does not get through, for which its retries are written and which
its tests use; `"queued"` is the `TelegramNotifier` that `InfoSystem.start`
builds, whose `send` only queues (`Queued`) and whose queue nobody empties.
`owed` keeps the books of the messages: one is entered when it is composed and
written off when it is delivered or given up, and `gone` says in which ways some
were given up: the dead letters were full, the queue was full, the job failed
before it, or the process stopped. `astray` remembers the items and entries that
were given up or may be added twice.

The clock (`Hours`) has the hours at which something starts. `Tick` moves it
through outages and with dead letters about, and over the jobs of `Late` while
they have something to send, classify or retry; the feeds and the rate are read
within the hour, since they have time-outs of seconds.

### `StockMiner`: the daily screener

`DailyJob._run_once` is a chain of stages, each an action: `ReadUniverse`,
`Filter`, `ReadBooks`, `Rank`, `Judge`, `CreateBatch`, `Poll`, `FetchResults`,
and `SendRaw` per attempt to send a message. A stage that raises goes to `Fails`,
which repeats the run or sends the alert. `cache` and `books` are the parquet
files, which nobody reads again once written; a day without data falls back to
the day before (`FetchUniverse`); the averages of `Filter` and of `Rank` read days
and may fail to. A batch whose status cannot be read, or that takes too long, is
given up for the fallback (`Poll`). The pure parts are operators:
`AverageOverTradingDays`, `FilterUniverse`, `Streak`, `AxisScore`,
`WeightedScore`, `RankTopN`. A process that starts again has lost the summaries,
while the messages with their buttons stay on the phone (`lines`). A message is a
pair of its day and what it is about, a stock or the header or the alert, which
the model assumes not to be names of stocks.

### `StrategyEngine`, with `MultiTimeframe`, `LeverageInverse` and `CciBbc`

The engine has one strategy of one symbol (`plugin`). Its handlers are
synchronous, so each is one action; a dropped signal is a disjunct of `Publish`.

* `LeverageInverse` is `LeverageInverseStrategy.on_tick` as a function of a
  position and a *reading*: the last values of its three indicators, close and
  swing edges. The leveraged and the inverse product mirror each other in the
  code, so one definition with a `side` stands for each pair of functions.
  Readings change only with the candles, and are otherwise arbitrary within
  `Steady`: a CCI of 20 candles lies within 667 of zero, so a mean of ten of
  them moves by at most 134.
* `MultiTimeframe` is `MultiTimeframeLoader`: a frame is the number of its
  candles, the minute its data are of and the minute it expires. `LoadBegins`,
  `DailySettled` and `LoadEnds` are the stretches of `load` between its awaits;
  a minute may pass in each. `Assess` is `TimeframeJudge`, whose direction
  is free once there are candles enough.
* `CciBbc` is `CciBbcStrategy.on_tick`, with everything it calls: candle
  classes, crosses, head and shoulders, the four day types, the principles of
  buying and selling, score and size. It keeps nothing between ticks, so it is a
  function of the input, over integer prices with the fractions multiplied out.
* The engine's `asked` adds up, per product, what the published signals asked to
  buy less what they asked to sell; `astray` says that belief and signals were
  torn apart by a dropped signal or a restart.

Where several definitions serve one function of the code, `map` names the one
that uses the others, and its lines are those of all of them.

## 3. What TLC checks

Each property has a mutant in `PROJECT.json`: a plausible bug in one mapped
definition that makes the same run fail.

| Run | Instance | Shows |
|---|---|---|
| `order_submit` | one client order, two callers, two new orders and two old ones, pages of one, two pages a cycle, one fault, one restart | `TypeOK`; the order is sent once (`OneOrderPerClientId`), goes the way of `ClientOrder` (`OrderPromise`), has one row if listings carry client ids (`OneRowPerOrder`), and a completed backfill has read all of the past unless something failed (`BackfillCoversPast`) |
| `order_requests` | one bot order, one order of the user, cancels and modifies granted and refused, no client ids in listings | stale answers invent no fill (`FilledIsReal`) and attach no row to another order (`RowTracksItsOrder`) |
| `order_live` | two callers, one order, partial fills, rejections, cancels, lost answers, one fault, one restart, listings with client ids | the broker's final word reaches the row (`FinalStatusReachesTable`) |
| `auth` | two callers, three calls, a renewal, another instance, one fault, one restart | the lock's queue is sound (`TypeOK`), memory, cache and server agree unless something interfered (`OneValidToken`), a request is denied only if somebody else's token came between (`DeniedOnlyWhenOvertaken`), every request ends (`RequestsEnd`) |
| `position` | two symbols, two trades, one failed read, one failed statement, one restart | the table comes to agree with the account (`TableFollowsAccount`); the events handed to the bus tell every change as long as no statement fails (`EventsTellTableUnlessTorn`); what the bus drops is the subject of `messaging` |
| `risk` | two symbols (one twice as dear), two orders a day, two days, two starts, all halt levels | the day's limit per start (`DailyLimit`), both value limits as long as no BUY was approved on an incomplete portfolio (`LimitsUnlessBlind`), a kill lasts (`KillHolds`) |
| `messaging` | three events of any kind, bus and queues of two (urgent: one), a client that comes and goes, a shutdown, a failing task | each subscriber sees a lossy channel, and urgent goes first (`Channels`); the drain leaves nothing unless it was cut (`ClosedIsDrained`); messages arrive and the notifier ends (`MessagesArrive`) |
| `info` | a day and the next morning of all jobs, one item of each feed, one entry, both wirings, one outage of any length, failed job or lost answer, one restart, polling on or off | the books of the messages are right (`MessagesAccounted`): a message is under way until it is delivered or given up in one of the four ways. It does not say that messages arrive: with the wiring of `start()` none does (section 5). A marked item is alerted, on its way to Claude or given up (`MarkedAreHandled`); an item is alerted once a day, an entry is added once (`NothingTwice`); an FX alert is a move since today's opening (`FxAlertsAreOfToday`); the jobs and the dead letters get done (`AllSettled`) |
| `miner` | two stocks, two markets, three days with any holidays, two attempts of a run, one failed read, request or outage, one restart | caches hold the last trading day and all years unless a read failed (`CacheTruthful`); streaks and scores agree with their definitions (`RankingIsSound`); each message is accounted for once, in order (`ReportAccounted`); buttons of the day's messages find their summary (`ButtonsWork`); every run ends with a report or an alert composed and tried (`EveryRunEnds`), which is not to say that it arrived |
| `strategy` | both strategies, units of two and three, 96 readings about every threshold, CCI/BBC on 1298 inputs with all directions, five minutes of loads with one failed request, one fault | what is asked to sell was asked to buy (`SellsCovered`); a candle brings an exit and an entry at most (`NoChurn`); frames of a load fit together (`FramesAligned`); a better frame buys no less (`BetterFramesBuyNoLess`) |

The bounds are the smallest at which the case that matters occurs: two callers
for a race between check and insert, two orders for a row to be attached to the
wrong one, two old orders in pages of one for a second page and, once a new
order closes, for the page limit,
one fault and one restart because the code keeps nothing that would make a
second one different (`_consecutive_failures` apart, which only triggers an
alert). Ids that were handed out bound the state space, and every such bound is
a constant beginning with `Max` or `Last`. In `info` nine `MaxHours` are a day of
six and three more, so that a job of the first day meets the second, and `Late` has
one job with feeds and the loop over the dead letters. Queues of two show both order and overflow.
Two days are what a base rate, a seen item or a summary needs to grow old. In
`miner` one poll and two tries of the results stand for the 120 and three of the
code, and streaks cover the whole calendar of the run. In
`strategy` a buffer of one candle that is ready at once stands for any, since
`Readings` says what it reads as and every candle may change it; the times to
live are 2, 3 and 1 minutes, so that each frame expires while another is fresh.
In the order, position, risk
and messaging models nothing is ever stuck, so deadlock is checked; in the
others the bounded calls, days or minutes run out and an idle process waits, so
it is not.

### Where the code and its documentation part

Two runs are expected to fail; `findings` quotes the lines.

* `order_409`: every 409 to a cancel is taken for success, so an order that is
  already filled is recorded as cancelled.
* `strategy_gate`: a frame is documented to be neutral below 20 candles. The
  judge counts CCI values that are left after the signal line was aligned, so it
  takes 58. The loader asks for 500 daily candles, which are 24 months: the
  month is neutral for good, and CCI/BBC never buys.

### Fairness

`FairSpec` of `OrderLifecycle` has weak fairness of each call of `submit` under
way, of the two feeds and of the cancel route's write: the event loop runs every
task that can run, and the feeds' `run` loops catch every exception and poll
again. Nothing is assumed of the market, the user or new calls, and a faulty
step is bounded by `MaxFaults`, not excluded by fairness. `TossAuth` has it of
the lock's holder (the HTTP client has a timeout of its own), of the sleep that
is over and of the server's answer to each request; `InfoSystem` of each job's
step and of the end of an outage; `StockMiner` of the run under way, whose reads
and polls have timeouts; `PositionSync` of the sync
step; `Messaging` of the dispatch loop, the notifier (whose HTTP client has a
timeout) and the shutdown once it began, but of no client, signal or failure. With two overlapping feeds weak fairness is enough, because each feed's
step stays enabled until it is taken.

`order_live` assumes that listings echo the client id, since a row whose answer
was lost can be found by nothing else, and that the order is on the newest CLOSED
page, which holds there because `PageLimit` is not below `MaxOrders`: after the
backfill the code reads no other page.

## 4. What is proved

`OrderLifecycle_proofs` proves, from `ConstantsAssumption` alone (sizes, and that
`NULL` is nothing else), that the specification has these properties, for any
number of client orders, callers, broker orders, faults and restarts, any page
limit and any echo of client ids:

* `Typing`: `TypeOK`
* `Idempotence`: `OneOrderPerClientId`
* `RowBeforeOrder`: `WrittenAhead`
* `KeepsItsPromise`: `OrderPromise`, the refinement of `ClientOrder`
* `RowsNeverCross`: `RowTracksItsOrder`
* `NoInventedFill`: `FilledIsReal`
* `PastIsCovered`: `BackfillCoversPast`
* `OneRowWithEcho`: `OneRowPerOrder` and `NativeRowsAreForeign`, provided that
  `Echo = {TRUE}`. Without that it is false: see section 5.

None of these is inductive by itself. `IInv` of `OrderLifecycle` adds

* `BrokerInv`: only issued orders have a status and a client id;
* `CallsInv`: a call past its INSERT owns the client id, and until the broker is
  asked there is no order for it. This is what the UNIQUE constraint gives, and
  it is why a second call that also found nothing cannot send;
* `RowsInv`: a row with a broker id exists and points at an issued order;
* `OrderSyncInv`, `HistoryInv`: what the feeds remember across their awaits is
  still true where it matters when they write it. A snapshot's broker id is
  still the row's, since no step changes a broker id once it is set; a final
  status seen is still the order's status, since final statuses are final; an
  open status may be stale, but no open status is mapped to "filled".

The proof has three layers. `Forward` collects what no step takes back (issued
orders, their client ids, final statuses, rows, broker ids), and `BrokerMoves`
shows that of the broker. The `...Kept` lemmas carry a part of `IInv` over any
step that goes forward and leaves the part's own variables alone. Then each
action has a lemma `...Keeps` that deals with what the action itself touches, and
`NextKeeps` combines them. `OneRowWithEcho` adds `EchoInv`: a native row is of an
order without client id, and whatever the history feed holds carries the client
id the broker has. `PastIsCovered` follows the backfill over its pages and cycles:
while it reads pages, an old order at its cursor or above is on a page it has
read, in its hand, or in the row of its own name, and one below comes on a page
still to be read (`Fetched`, `BackfillInv`). Such a row can belong to nothing
else, since the listing shows old orders without client id (`PastInv`).

For `KeepsItsPromise` each action is a step of `ClientOrder` or a stutter. Only
`SubmitInsert` and `SubmitPlace` write and send (`SubmitSeen`). The broker decides
of one order of the bot at a time (`OrderStep`). Every other write of the table is
one lemma, `RowStep`: it touches one row of the bot, and what `IInv` says of that
row before and after leaves nothing but a record of its own order.

`RiskManager_proofs` proves, from `RiskAssumption` alone, for any symbols, prices,
limits, days and restarts:

* `GateTyping`: `TypeOK`, with the counter within its limit
* `OrdersOfADay`: `DailyLimit`
* `ValuesWithinLimits`: `LimitsUnlessBlind`, the limit on each position
  (`PositionValueUnlessBlind`) and the one on all of them (`TotalExposureUnlessBlind`)
* `KillLasts`: `KillHolds`
* `OnlyHandsLower`: an escalation that comes late never takes back an operator's
  pause or kill (`LoweredByHand`)

`DailyLimit` is not inductive: a restart gives the limit anew but keeps what was
approved. `CountInv` says that the earlier starts of the day account for at most
the limit each and the counter, as its next reader will see it, for the rest.
The limit on one position is inductive with the types; the step that matters is
`EvaluateKeeps`, where a portfolio that overlooks nothing bounds what is
committed. The limit on all positions is a sum over the symbols, of which there
are finitely many. It is defined as the size of a set, `Money`, with one
member for each unit of money in each symbol, so that its monotonicity is that
of cardinality and no induction is needed.

`StrategyEngine_proofs` proves from `EngineAssumption` and `ReadingAssumption`,
for any units, readings, candles, ticks and faults:

* `SellsAreCovered`: `SellsCovered`
* `NeverChurns`: `NoChurn`
* `FramesFit`: `FramesAligned`, from `FrameAssumption` besides
* `EngineTypes`: `TypeOK`
* `BetterFramesAlways`: `BetterFramesBuyNoLess`

`SellsAreCovered` rests on `PartialIsPart`: a part of more than one is at least one and
never the whole. `NeverChurns` is about one reading. What makes the strategy enter
contradicts each of the three confirmations of an exit
(`EntryConfirmsNoExit`), and does not warn (`EntryWarnsNot`), since the signal
line would have to move further than it can. So after an entry the same reading
gives nothing more, and after a partial exit only a full one; `IInv` counts the
signals of a reading against the phase reached. `TickSplits` divides a tick into
four cases, which the `...Keeps` lemmas take one at a time.

`FramesFit` stands on the lemmas on the frames, which show that a step of
the loader keeps `FrameInv` (`InitFrames`, `LoaderKeeps`); the engine adds that a
restart does. An expiry says how old a frame may be. A resampled frame is
computed from daily candles that are fresh, or from those whose renewal just
failed, so it may be as old as both times to live together; this and that the
rest of a load without failures looks at fresh frames is `CacheInv`.
`BetterFramesAlways` is about CCI/BBC alone: the score is a sum in which each
direction has a part that only grows as it gets better (`ScoreIs`, `WorthIs`), and
the size of a purchase grows with the score.

`PositionSync_proofs` proves, for any symbols, holdings, trades and restarts:

* `SyncTyping`: `TypeOK`
* `EventsTell`: `EventsTellTableUnlessTorn`

`SyncInv` follows a sync through its statements: what is not yet written is still
as the snapshot had it, what is written is either in `changes` or was no change,
and the dashboard knows the snapshot until `Publish` brings it up to date.

`TossAuth_proofs` proves, for any callers and bounds:

* `QueueIsSound`: `TypeOK`
* `DeniedOnlyThen`: `DeniedOnlyWhenOvertaken`
* `OneTokenForAll`: `OneValidToken`

The lemmas in front are about the queue of the lock: what remains of it when its
head leaves, when the refresh task is cancelled out of it, and when somebody
joins (`Leaving`, `Cancelling`, `Joining`). `QueueInv` matches each job in it with
the state of its caller. `TokenInv` is what a 401 can mean: the tokens issued
during a call are not old, so a call that is refused with the token of its
second attempt was overtaken by a newer one. `AgreeInv` says that between two
holders of the lock memory, cache and server agree; within one, `answer` is the
token they will agree on.

`Messaging_proofs` proves, for any messages, kinds and sizes of queues:

* `MessagingTyping`: `TypeOK`
* `ClosedDrained`: `ClosedIsDrained`
* `AllChannels`: `Channels`, of which `UrgentGoesFirst`, `StreamIsChannel` and
  `NotifierIsChannel` are the parts

`DrainInv` has the bus stopped before the notifier drains, so the urgent queue,
once left behind, stays empty. The other parts are refinements: `InitImplements`
and `NextImplements`, and their like for the notifier, map each step to a step of
`LossyChannel` or to a stutter. `StreamInv` says that what the client was shown,
what waits for it and what the bus holds ascend in this order, and are everything
published as long as `StreamTrouble` did not occur; `ChannelInv` says it of the
messages of each kind, with the one in hand and the two queues of the notifier
between bus and Telegram.

`InfoSystem_proofs` proves, from `InfoAssumption`, for any items, entries, rates,
days, faults and restarts:

* `Typing`: `TypeOK`
* `BooksBalance`: `MessagesAccounted`
* `NoMarkInVain`: `MarkedAreHandled`
* `NoRepeats`: `NothingTwice`
* `AlertsAreOfToday`: `FxAlertsAreOfToday`

The books are an equation of numbers: a message is owed as often as it occurs
in the lists of the jobs, the dead letters, and the queue of a wrapped notifier.
It is proved for both wirings and over restarts, at which everything under way is
written off as given up by the stop. That a notifier which raises gives nothing up
without a fault or a stop needs that an outage is a fault (`down => faults > 0`).
`Copies` counts on one list and `ToDo` over all jobs; `Moving` and `Doing` turn a
step of one job, which takes the first work of its list and puts others in its
place, into sums and differences, so that each action's lemma is arithmetic.
`MarksInv` bounds the alerts of an item together with those on their way to
Claude by the days on which it was marked. `CalendarInv` has an entry added right
after the look for it. `BaseInv` says which opening a base rate can be.

`StockMiner_proofs` proves, from `MinerAssumption`, for any stocks, markets, days,
attempts, faults and restarts:

* `Typing`: `TypeOK`
* `CachesAreTrue`: `CacheTruthful`
* `EachMessageOnce`: `ReportAccounted`
* `ButtonsFind`: `ButtonsWork`
* `RankingSound`: `RankingIsSound`

The stages of a run send nothing (`RunInv`), and once it reports, the outbox is
the rest of the report (`SentInv`). A message that is not in doubt is in exactly
one of the `Places`; letters of earlier days (`OldLetters`) are not among those
of today, which is why a run that starts anew after a failure cannot repeat one.
`RankingSound` is about the pure part. The streak is a recursive function that
walks back over the calendar; `WalkIs` shows that the equation it is defined by
has a single solution, and what that is, by looking at a least day where it would
fail. For the scores, `LevelMonotone` and `LevelBounds` show that a better figure
is never on a lower level and that levels stay within 1 to 5. The proof found that
a CASE of the model had overlapping arms, which leaves open which one is taken;
there is an IF now.

Every safety property that a passing run checks is thus proved, and so is every
part of `Channels`. Only model-checked is liveness: `FinalStatusReachesTable`,
`RequestsEnd`, `TableFollowsAccount`, `MessagesArrive`, `AllSettled` and
`EveryRunEnds` need fairness, and with it ENABLED, which is out of the prover's
reach. So is induction as a rule; where numbers are concerned, a least
counterexample takes its place, since the order of the naturals is known to be
well-founded.

## 5. Not modelled, and why

* `record_fill`, the fills table, quantities: nothing calls `record_fill`
  outside the tests.
* Back-off on 429 and the throttler: they delay and repeat one request, which
  the models allow anyway by letting any call take any time.
* A statement that fails between `execute` and `commit` in the order operations:
  there each write is one statement, so it counts as failed as a whole.
* Market feed and collector: they poll and overwrite; no decision rests on an
  earlier state.
* `MACross`, the replay harness, backtest and its metrics, and how indicators get
  their values from prices: floating-point arithmetic without control worth
  checking.
* DART collector, KRX client, `build_watchlist`, the sources of briefs and
  reports: external reads.
* Parsing, formatting, configuration, read-only routes, the dashboard, scripts.

### Observations

What came up while modelling, on which no run rests.

*Orders.* The docstring of `upsert_broker_order` says that a `toss-native` key
tells an order the bot did not make; an order listed without its client id
before `submit` has stored the answer gets such a second row
(`store/db.py:274`). A restart between the INSERT of `submit` and the stored
answer leaves a pending row without a broker id, which every feed skips, though
the architecture document promises recovery. A fill the history feed sees first
is never announced, and one is announced again if a stale OPEN listing makes the
row pending in between. A refused cancel is a closed record of its own in the
repository's copy of the Toss API, and is stored as a row that stays "pending"
for good (`order_history_sync.py:53`). The backfill's flag is raised before its
upserts run (`order_history_sync.py:166`), so a failed upsert loses an old order.

*Token.* Of two requests refused together, the second refresh destroys the token
the first one's retry carries, and that request fails although the token endpoint
works (`auth.py:133`); `DeniedOnlyWhenOvertaken` says how far it goes.

*Positions.* After a failed statement the rows already executed stay on the
connection, the next sync takes them for old, and the change is never published
(`position_sync.py:154`).

*Risk.* The architecture document has every signal pass a check for duplicate
orders; `check_exit` returns a second exit order while the first is open
(`manager.py:164`). Both value limits look at the portfolio alone, so two BUYs
approved before the first fills can pass them together: this is what `blind`
stands for. Under a kill any SELL passes, not only a stop-loss.

*Messages.* A KILL_SWITCH is urgent in the notifier only, and waits behind ticks
in the bus. What is in the bus when it stops is never dispatched. With an
InfoSystem the cancellation after its `stop()` can cut the drain off (`"cut"`),
and after a failed task the bus goes on putting messages into a notifier that
drains or has closed; `ClosedIsDrained` and `UrgentFirst` say so.

*InfoSystem.* **As shipped, no alert arrives.** `info/main.py:74` wraps a
`TelegramNotifier` whose `run()` nobody starts and whose `send()` never raises (or,
without credentials, a `MockNotifier` that only logs): alerts pile up in its queue, a full queue refuses the rest with a log entry, and
no retry and no dead letter ever happens, while the task list forbids silent loss
(`specs/tasks.md:291`). The model has this wiring (`"queued"`), and
`MessagesAccounted` says of it what is true: nothing is delivered, the dead
letters stay empty, and a message ends by the full queue or the stop. The retries
and dead letters that the rest of `info` is about need the other wiring.
`retry_dlq` empties the queue before it sends, so a stop loses all the letters it
has in hand; the books write them off as given up by the stop, and nothing claims
that they survive. The daily FX report is sent twice
(`daily_report.py:50`, `scheduler.py:222`). An item is marked before it is
classified, so a failed job or an unreachable Claude silences it. The base rate is
set once per process, so from the second day on moves are measured against the
first day's opening. A lost answer of the calendar, or a failed look for
duplicates, adds an entry twice.

*Stock Miner.* A failed read of every market is taken for a holiday, and the day
before is kept in the file of the day for good (`pykrx_client.py:84`). The streak
counts a holiday as a break. After a restart "add to watchlist" overwrites name
and score of the row with nothing (`callback_handler.py:50`). A restart after
18:35 loses the day's run. `ScreenerNotifier.retry_dlq` is never called.
`build_watchlist` takes the last of the years, which are listed newest first.

*Strategies.* With `qty_per_unit = 1`, which is allowed, the partial exit sells
everything and the full exit sells it again (`leverage_inverse_strategy.py:371`,
`:389`); `SellsCovered` begins at two. A strategy never hears that its signal was
dropped and forgets its position in a restart. CCI/BBC returns before most of its
exits when the month does not rise, though the strategy document calls them
unconditional; every sale asks for `qty_per_unit`, whatever its percentage; the
oldest candle of the buffer stands for the day's open; the 50 % rebound of the
head-and-shoulders top never decides; and with nothing kept between ticks it buys
again at each tick of the same candle. A weekly frame resampled from expired
daily candles gets a fresh time to live.

## 6. Plan

Done, with proofs of all safety properties: `OrderLifecycle` with `ClientOrder`, `TossAuth`,
`PositionSync`, `RiskManager`, `Messaging` with `LossyChannel`, `InfoSystem`,
`StockMiner`, and `StrategyEngine` with `MultiTimeframe`, `LeverageInverse` and
`CciBbc`.

Next, in this order:

1. An abstract specification of the gate that `RiskManager` implements, and of
   a retried message for `InfoSystem` and `StockMiner`.
2. `FillLedger` for `record_fill`,
   `MarketCollector`, `MACross` and the harness.
