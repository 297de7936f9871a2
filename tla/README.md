# A TLA+ model of the IBKR gateway and its tools

This directory holds the formal model of the parts of the repository that keep
state and run side by side: the Python gateway to Interactive Brokers
(`ib_gateway_app`), the commands, the SQLite store and the WebSocket bridge
built on it, the dashboard's server and page, and the two C++ tools that read
its events.  The specifications are translated from the source.  Where the
repository's README or a comment says what the program promises, the property
quotes it.

Contents: [inventory](#inventory), [modules](#modules),
[runs](#runs), [fairness](#fairness), [proofs](#proofs),
[what the checks found](#what-the-checks-found),
[what is not modelled](#what-is-not-modelled), [plan](#plan).

## Inventory

| Component | Source | State | Operations |
| --- | --- | --- | --- |
| Gateway session | `ib_gateway_app/gateway.py` | next request and order ids, one `threading.Event` per request or stream, `_ready_event`, failure flag and message, under `_state_lock` | `connect_and_start`, `request_*`, `cancel_*`, `place_order`, `wait_*`, `sleep_while_connected`, `shutdown`; the `EWrapper` callbacks |
| Command runner, collector | `ib_gateway_app/cli.py` | the tracker (newest bar, last bar's time, pacing errors), window, deadline | `run_command`, `_run_historical_collector` |
| Option strip | `ib_gateway_app/cli.py` | the request ids of the strip, the spot price; the database is its memory | `_run_option_strip` and its queries |
| SQLite event store | `ib_gateway_app/persistence.py` | seven tables; request contexts in memory | `handle_event`, called by `emit_event` for each event; `close` |
| WebSocket bridge and Python client | `ib_gateway_app/websocket_bridge.py`, `ib_gateway_client.py` | event queue, client set, three tasks | serve, dispatch a command, broadcast, monitor; connect, send, receive, close |
| Option panel | `ib_gateway_app/visualization.py` 482-703 | none; it reads the tables the strip fills | `/api/options-probability` |
| Dashboard server | `ib_gateway_app/visualization.py` | the cache in SQLite, `_bootstrap_lock`, a watcher per bootstrap | `/api/bars`, `_bootstrap_historical_cache` |
| Dashboard page | `dashboard/live_ticker.html` | stream flags, two timers, what the chart holds | start, stop, change settings, refresh |
| C++ event processor | `IBEventProcessor.cpp` | symbols by request id, quotes by symbol | `handleEvent` for each line of the log |
| C++ historical store | `IBHistoricalStore.cpp` | the two tables it shares with the Python store | `fetchAndStore` |
| Contract builders, parsers | `contracts.py`, `parsing.py` | none | conversions |
| Launchers, examples, experiments | `*_main.cpp`, `Makefile`, `examples/`, `experimental/` | none that the others share | |

How they interact.  `run_command` makes an `IBGateway`, registers the store as a
listener, connects, runs a command, closes the store and shuts the gateway
down.  The IBKR API calls the `EWrapper` methods on two threads of its own, the
one that runs `EClient.run` and the reader of the socket.  The two sides meet in
the Events and in `emit_event`, which writes a JSON line and calls every listener on the
thread that emits: the store, the collector's tracker, the dashboard's watcher,
and the bridge, which hands the event to its event loop.  The C++ processor
reads the lines afterwards.  The collector, the dashboard's bootstrap, the strip
command and the C++ store are separate processes on one database file.

What is hard, and the properties that make each component correct:

- *Gateway session.*  Three threads; a failure is reported by setting the very
  Events that announce success; an answer may be there before its request
  returns; a wait reads the Event once more at its deadline.  Correct when
  nothing is asked before the handshake, an answer is never lost, a wait that
  succeeded is explained, the error that is raised is the first and only one, no
  order id is used twice, a failure ends the session, and every call returns.
- *Event store.*  Events are handled in two or three commits each; an
  instrument starts as a provisional row and is renamed, merged and deleted as
  details arrive; a crash may come between two commits; an exception leaves the
  transaction open, with what its event had changed.  Correct when no bar and no name is lost, no row is filed
  under another contract, and the details of a contract leave one row of it.
- *Shared database.*  Python writers wait five seconds for the write lock, the
  C++ tool not at all; the tool's UNIQUE constraint does not see NULL strikes.
- *Bridge.*  One slow client shares a task with all others; clients join and
  leave in the middle of a broadcast; answers race with acknowledgements; the
  error of the monitor skips a part of the clean-up.  Correct when every client
  gets an uninterrupted piece of the event stream, knows the id of its request first,
  and is let go of in the end.
- *Collector.*  Retries, late answers, a feed that stalls, pacing errors and a
  deadline nest in each other.  Correct when nothing is left running at IBKR,
  the backoff and the deadline are kept, and the tails leave no hole.
- *Option strip.*  Request ids start at 1000 in every session and the database
  keeps the rows of all of them; ticks go on arriving while the strip is cancelled.
- *Option panel.*  It may be asked between any two commits of the strip, and IBKR
  sends computations with columns left out: what was complete must stay on the curve.
- *Dashboard server.*  Threads test the cache, queue for a lock and test again;
  a bootstrap may fail at each of a dozen steps; the store drops bars of a request it has
  not been told of, and whatever finds the database locked, and nobody notices.
- *Dashboard page.*  Clicks, two timers and late answers all start refreshes.
- *Event processor.*  Lines of several requests and sessions in any order, lines
  that two threads wrote into each other, and lists its parser does not know.

`PROJECT.json` lists these hazards, each at its line, with the properties that
catch it going wrong.

## Modules

| Module | Models | How state and actions correspond to the code |
| --- | --- | --- |
| `Gateway` | one `IBGateway` as `run_command` drives it | threads `Main`, `NetworkThread`, `ReaderThread`, a program counter each; an action is a stretch of code between two accesses to shared state, named after its method (`PollCheck`, `PollWait`, `PollRecheck` are the loop of `connect_and_start`). `events` is the map of Events, `failure` the failure flag, `lastError` its message, `lock` is `_state_lock`. Command sequences are arbitrary: `Begin`, `BeginWait`, `BeginSleep` in any order |
| `Session` | what a session promises its caller | abstract: phase, asked, arrived, answered, placed, error |
| `GatewayProofs`, `SharedDatabaseProofs`, `BridgeProofs`, `CollectorProofs`, `DashboardServerProofs`, `DashboardPageProofs`, `OptionStripProofs`, `EventFlowProofs` | theorems about the module they are named for; `SharedDatabaseProofs` also about `InstrumentStore`, `OptionStripProofs` about `OptionPanel`, `EventFlowProofs` about `FlatJson` | |
| `Broadcast` | what a client of the bridge may rely on | abstract: one log, one position, what each client is due and was written |
| `InstrumentStore` | what `handle_event` does to the database, one step per commit | `instruments` and `rows` are the tables, `requests` the contexts in memory, `job` the event that is handled, `writer` the process that keeps SQLite's write lock across steps and `uncommitted` the merge its open transaction holds, which its next commit keeps. The two look-ups of the upsert are steps of their own. `Restart` is a crash or a close |
| `SharedDatabase` | several store processes and the C++ tool on one file | extends `InstrumentStore` with the busy timeout (`WriteTimesOut`) and with `fetchAndStore`: fetch, upsert, select, insert |
| `Bridge` | `serve_forever`, the handlers, the broadcaster, the monitor, the clients | an action is a task between two awaits; `out` is what each client was written |
| `Collector` | `_run_historical_collector` and its tracker | `now` is the clock; `asks` the requests as IBKR sees them; `duration` is `--duration`, an amount and a unit, with what IBKR serves for the unit (`UnitSeconds`) and what the code takes it for (`IntervalUnits`); `arrived` are the bars the tracker counts, those the store drops included; `Ahead` is how far the clock of the bar times is ahead of the computer's, and `BarSizeParses` whether the bar size is one the code knows |
| `OptionStrip` | `_run_option_strip` with its database queries | `pc` follows the function; `ticks`, `greeks`, `chains` are the tables, each row with a ghost session number. `DatabaseFails` is a read or write that finds the database locked, `Announce` the request event, which the store may fail to keep |
| `OptionPanel` | the selection behind `/api/options-probability` | extends `OptionStrip` with operators only: `LatestGreeks` is the ranking query, `ProbabilityExpiry` the choice of the expiry, `Curve` the answer |
| `FlatJson` | `JsonLineCursor`, the line parser of the processor | a line is a sequence of tokens; the cursor's loop is a recursive function over it |
| `EventFlow` | the lines the gateway writes and the C++ processor that reads them | a value is the number of the line that brought it, so a quote shows where each field came from |
| `DashboardServer` | `DashboardRequestHandler` | a program counter per handler thread; `query` is IBKR's side of a bootstrap. `Ask` is the API call and `Announce` the event after it; `known` are the stores that have its context, without which `BarArrives` drops the bar |
| `DashboardPage` | the page's script | `page.running` are refreshes suspended at an `await`. The settings are what the page watches and the expiry mode; a refresh reads the first at its start and the second between its two requests |
| `MC...` | instances for TLC | values of constants, and symmetry |

`SharedDatabase` composes the store's processes with the C++ tool, `EventFlow`
the gateway's threads with the processor, `OptionPanel` the strip with the dashboard
that reads its tables; `Gateway` refines `Session` and `Bridge` refines `Broadcast`; `Bridge`, `Collector`, `OptionStrip` and `DashboardServer`
use of the gateway what `Gateway` shows of it: a wait ends with the answer, at its deadline or
with a ConnectionError, an id is fresh, an End comes after the
events before it.  Each module says at its top what it abstracts.  Ghost
variables (`skipped`, `kept`, `pacedAt`, `outcome`, `succeeded`, `dropped`, `missed`,
`raised`, `completed`, the sessions of rows) record history for the properties
and appear in no guard.

The operators and actions marked `Mutant` are wrong on purpose: each is a
plausible slip in the code that one property rules out.  No specification uses them;
`PROJECT.json` says which definition each replaces.

## Runs

Run one with `tlc -config X.cfg MCModule`.  The figures are distinct states.

| Run | Shows | Bounds, and why they are enough |
| --- | --- | --- |
| `gateway_safety` (`Gateway_safety.cfg`, 3.3 M) | `HandshakeFirst`, `RaisedErrorIsFinal`, `EndIsNotLost`, `WaitTrueIsExplained`, `OrdersAreNew` | one stream, one request id, two orders, two failures: two failures race for the first report, two orders for an id. The theorems lift the bounds |
| `gateway_live` (`Gateway_live.cfg`, 300 k) | `ImplementsSession`, `FailureEndsSession`, `CallsReturn` | no orders, one failure: orders take part in no wait, and the refinement of orders is proved |
| `gateway_store` (`Gateway_store.cfg`) | `EndEventsStored` is violated | no failure is needed |
| `store_one` (`InstrumentStore.cfg`, 1.8 M) | `RowsKeepTheirContract`, `BarsSurvive`, `NamesSurvive`, `DetailsUnify` | one process, two contracts, each with and without its name, six events, three row ids, one crash: enough for a row to be split, merged, deleted and its id used again, with a bar, a tick and greeks on it |
| `store_shared` (`SharedDatabase.cfg`, 1.6 M) | `LocksNeedFailure`, `OneHome` | two processes, two runs of the tool, one contract, three events: enough for a constraint to fail in one process while the other writes, and for the runs of the tool to overlap |
| `bridge` (`Bridge.cfg`, 290 k) | `ImplementsBroadcast`, `AckFirst`, `ClientsReleased`, `EventsReachClients`, `FailureStopsBridge` | two clients, of which one can block the other; one request, two further events |
| `collector` (`Collector.cfg`, 680 k) | `NothingLeftRunning`, `OverrunBounded`, `NoHole`, `BackoffKept` | 9 seconds, bars of 2, polls of 2, waits of 2, backoff of 4: a retry, a stalled feed and several refreshes fit before the deadline. The duration is 2 days of 6 seconds, which a tail that forgot the amount would not cover, or a month of 12 that is read as a minute of 4. The code's 30, 300, 60, 60 s are scaled down |
| `strip` (`OptionStrip.cfg`, 4.1 M) | `StripIsAroundSpot`, `NothingLeftRunning`, `OwnPrices`, `CompleteStaysOnCurve`, `FreshIdsFilledIn` | one symbol listed in two rows with different expiries, three strikes in all, a price below them and one above, where the slice is cut at its lower and its upper end: up to four options of two expiries. Two ticks, greeks or request events that are not kept in all, a greeks row with all columns or with one: a complete row and the partial one after it, two options with prices, or a price that hides another. The panel's `LIMIT` is 4 |
| `strip_again` (`OptionStrip_again.cfg`) | `BackfillFillsIn` is violated | two sessions on one database |
| `flow` (`EventFlow.cfg`, 790 k) | `JoinedRight`, `OutputIsNormalized`, `ErrorsCounted` | two sessions, two symbols, two requests each, four lines: a request, a tick, the request of the next session under the same id and its tick. `ReadsAtOnce` makes the processor read a line as soon as it is whole, which changes nothing it writes, for it reads one line at a time and the writers do not see it; a chain with one expiry and one with two stand for short and long texts |
| `page` (`DashboardPage.cfg`, 12 k) | `OneRefreshAtATime`, `FailuresSurface`, `OnePicture`, `StoppedStaysStopped`, `SettingsReachChart` | two contracts in two expiry modes: four settings, so the shown, the asked for and the wanted one differ, and the mode may change alone |
| `server` (`DashboardServer.cfg`, 210 k) | `OneSession`, `FilledHasBars`, `BootstrapOnce`, `RequestsEnd` | two threads, two keys of which IBKR has one, three requests |

`CHECK_DEADLOCK FALSE` stands where the instance runs out of events, fetches,
lines or sessions, which are bounds of the model; elsewhere the end of the
program is an explicit stuttering action and a deadlock would be reported.

What bounds are named: `Max...` constants and, in `Collector`, `Runtime`.  Each is
a guard of the action that counts.

Assumptions of the instances, beyond size: in `collector` bar times are of a
form `_parse_ib_timestamp` knows and of the computer's time zone, the bar size is one
`_parse_ib_interval_seconds` knows, and `--runtime-seconds` is shorter than a
duration in days; `NoHole` leaves out the durations in months, which the code
reads as minutes.  The theorem takes any form, any bar size and any clock that is not
ahead.  In `strip` the symbol is spelt as IBKR spells it, and a
positive price stands for one the volatility can be solved for.
`store_one` is about one process; what a second one can do to it is under
[what the checks found](#what-the-checks-found).  An event that merges two rows and then
fails takes two processes and six events that name a contract by two names, which is
beyond `store_shared`; with the bars left out TLC reaches it.

## Fairness

- `Gateway`: `Main` runs, and a callback that has begun finishes.  IBKR owes
  nothing: no answer, no handshake, no failure.  Deadlines expire only where
  a property says so (`DeadlinesExpire` is the premise of `CallsReturn`, and
  `FailureEndsSession` does without it).  The operating system schedules Python threads, and
  `_state_lock` is held for two assignments.
- `Bridge`: the event loop runs its tasks.  A client that
  does not read is drained or dropped, because the library's keepalive
  closes a connection that answers no ping; the server closes its connections
  when it is left.
- `DashboardPage`: the browser fires its timers and each request is answered or
  fails.
- `DashboardServer`: handler threads run and their waits time out.  The number of
  requests is bounded, so a lock that is not fair among its waiters is enough.
- The other modules state safety only.

## Proofs

TLAPS proves the following for every value of the constants: any number of
threads' streams, contracts, ids, clients, requests, keys, settings, crashes, and any bounds.

| Module | Theorem | Statement |
| --- | --- | --- |
| `GatewayProofs` | `Invariance`, `TypeCorrect` | `Spec => []IInv`, type correctness |
| | `HandshakeTheorem`, `ErrorTheorem`, `EndTheorem`, `WaitTheorem` | the state invariants of `gateway_safety` |
| | `OrderTheorem` | `OrdersAreNew`, an action property |
| | `Refinement` | every behaviour of the threads is one of `Session` |
| `SharedDatabaseProofs` | `RowsKeepTheirContractHolds` | an invariant of `store_one` |
| | `BarsSurviveHolds`, `NamesSurviveHolds`, `DetailsUnifyHolds` | its action properties |
| | `LocksNeedFailureHolds` | an invariant of `store_shared` |
| | `OneHomeHolds` | its other invariant, for one gateway process and any number of runs of the tool |
| `BridgeProofs` | `BridgeBroadcasts` | every behaviour of the bridge is one of `Broadcast` |
| | `AcknowledgedFirst`, `NoneRegistered` | `AckFirst`, `ClientsReleased` |
| `CollectorProofs` | `NothingRuns`, `OverrunIsBounded` | `NothingLeftRunning`, `OverrunBounded` |
| | `NoHoleHolds` | `NoHole`, under `OutlastsRuntime` |
| | `BackoffIsKept` | `BackoffKept`, an action property |
| `OptionStripProofs` | `NothingIsLeftRunning`, `PricesAreOwn`, `FreshIdsAreFilledIn`, `StripIsAround` | the invariants of `strip` |
| | `CompleteStays` | `CompleteStaysOnCurve`, an invariant of `OptionPanel` |
| `EventFlowProofs` | `OutputIsNormalizedHolds`, `JoinedRightHolds`, `ErrorsCountedHolds` | the invariants of `flow` |
| `DashboardServerProofs` | `OneSessionHolds`, `FilledHasBarsHolds`, `BootstrapOnceHolds` | the safety properties of `server` |
| `DashboardPageProofs` | `OneRefreshHolds`, `FailuresSurfaceHolds`, `OnePictureHolds`, `StoppedStaysStoppedHolds` | the safety properties of `page` |

Each module also has `Invariance`, that its inductive invariant holds.  They rest on the
named assumptions about constants, which TLC evaluates in the runs of the
component: `ClientAssumption`, `BoundAssumption` and `NoneAssumption` of bridge and page,
`ThreadsDistinct`, `NumberAssumption` and `CodeAssumption` of `Gateway`
(different threads, streams below the request ids, IBKR's error codes none of the
gateway's own); `ConstantAssumption` of the others (bounds are naturals, the
values for "none" are no members of the sets they stand beside) and
`NoContractAssumption`; `InstrumentAssumption` of the shared database (a
contract is written with an instrument) and `ListedAssumption` of the strip (what
IBKR lists for a symbol is of that symbol).  Two hypotheses are stated in the theorems themselves:

- `OneProcess`: the theorems of the store, and `OneHomeHolds`, are about one
  gateway process, as `store_one` is.  With two, those of the store do not hold, see
  below; `OneHome` is checked with two within the bounds of `store_shared`, and not proved,
  because the look-up of one may be stale when the other merges a row.
- `OutlastsRuntime`, of `NoHoleHolds`: no bar's time is read as later than it is
  (`Ahead <= 0`), the command has a deadline, and what IBKR
  serves for the duration reaches back at least from the deadline, a delay and a bar
  on, to the start.  The code guarantees none of them: a clock ahead of the computer's
  leaves a hole, and so does, without a deadline, a feed that stalls for longer than the
  duration, see below.  The instance
  of `collector` meets the hypothesis exactly (12 >= 9 + 1 + 2).

The arguments.  No property is inductive alone.

- *Gateway.*  `HandshakeFirst` depends on how `_ready_event` came to be set, and a
  failure sets it too: `HandshakeInv` explains a set `_ready_event` by the
  handshake, a recorded failure or the shutdown, and uses that `PollRecheck` looks
  at the failure flag *after* the Event.  `RaisedErrorIsFinal` needs that a failure
  is recorded before its flag shows (`FailureInv`) and that the lock is held in
  between (`ThreadsInv`).  `OrdersAreNew` needs that an id taken from the counter lies
  below it and is not among the placed (`CallsInv`); `WaitTrueIsExplained` that a
  set Event is explained by its answer, a failure or the shutdown (`AnswersInv`).
- *Store.*  `UniqueInv`, no two rows of one contract, must come with
  `UpsertInv`: what the two look-ups found, and what they did *not* find, still holds when the
  upsert writes.  That is where a second process breaks it.  From both, the
  provisional row and its duplicate differ exactly when the event names a
  contract, and the merge leaves one row of the name.  `RowsInv` and `RowInv` tie rows and the job to
  instruments of their contract; an id is used again only after a merge has
  emptied it, because the next id is larger than every id in use
  (`NewIdIsNew`, from the well-foundedness of the naturals).  `CommittedInv`: an event
  that merges two rows does not fail, since the duplicate was the only row of the name
  (`MergeSucceeds`).
- *Shared database.*  `LockInv`: a process keeps the write lock across two steps
  only by failing; every other write ends in a commit.  `HomeInv`: gateway and tool
  name different contracts without a strike (`KindsInv`), because the tool writes NULL for it
  and the gateway 0; the gateway finds its own row (`LookedUpInv`, `OneRowInv`); and the
  rows the tool adds with each run have ids above all others, so the first row of the
  contract, which the tool selects, stays the one its bars hang on (`HomesInv`).
- *Bridge.*  The refinement maps the events emitted to the log, those taken from the
  queue to the position, and each client's place in the broadcast to the event it is
  due.  `Registered` ties connections, handlers and the client set; `Sending` says
  that the broadcaster sends the last event it took; `Numbered`, that no event is
  about a request yet to be made; `Acknowledged`, that no event about a request is
  sent while its command is dispatched, because from the request to its reply the
  handler awaits nothing.
- *Collector.*  `LiveInv`: only the subscription and the request the command waits for
  or is about to cancel are live, and a refresh that is answered is not.
  `DeadlineInv`: a request is asked for before the deadline, and what is
  waited or slept for ends no later than a wait after it.  `BackoffInv`: away from
  the backoff itself the last one has passed, or was cut short at the
  deadline, after which `Retry` asks for nothing.  `HoleInv`: bars lie on
  the grid of the bar size (`GridInv`); each request has brought all from its first bar up to
  where it stands, and an answered one ends after the newest bar of the start (`SegmentsInv`);
  the first requests ask for the whole duration, each later than the one before
  (`FirstInv`); and below a bar, a request or the tail that is about to be asked for nothing is
  missing (`TailsInv`), since the window is no shorter than what has passed since the newest bar.
- *Dashboard server.*  `LockInv`: sessions, stores and queries are those of the handler that
  holds the lock.  `WatcherInv`: an End that was heard came after the bars, each of which an
  open store has kept or dropped, and a dropped one is remembered in `dropped`.
  `OnceInv` and `FilledInv` carry this to the handler that looks again: a key whose bootstrap
  left bars stays cached.
- *Dashboard page.*  `Good`: the flag is set just while a refresh is suspended (`Single`); a page
  that does not stream waits for no timer (`Quiet`); at its second await a refresh has put its own
  bars on the page, if a restart has not cleared them (`Picture`), and still knows what its
  first request came to (`Banner`).
- *Option strip.*  `RunningInv`: what IBKR keeps subscribed is, label by label,
  the strip's ids, the one that is emitted, or those left to cancel.  `IdsInv` and `RowsInv`: an id
  is taken once in a session, and the rows of this session under an id are about the
  option it was taken for.  `FilledInv`: the back-fill is done with the ids that are not left.
  `ChainInv` and `StripInv`: the chain the command read is all of it, and the ids taken, then
  the options left to do, are at each step the strip around the spot price.
- *Option panel.*  Rows are only added, so a complete row keeps its rank over the
  incomplete rows of its option, whatever comes after it.
- *Event processor.*  The parser is a recursive function over a text, so it is first shown to
  satisfy its own equation for a text of any length (`ParseFromIs`, from a least counterexample),
  and then followed token by token through each text the gateway writes
  (`RequestLine` to `TornLine`).  The rest is about lines: `MapsInv` and `QuotesInv` say
  of the processor's maps and quotes what the lines it has read say, and none of this depends on
  later lines (`LineFrame`).  `SessionsInv`: the sessions follow each other in the lines, so
  when a request of an event's own session precedes it, no other
  session's request under the id comes in between.

Only model-checked: liveness (`FailureEndsSession`, `CallsReturn`,
`EventsReachClients`, `FailureStopsBridge`, `RequestsEnd`, `SettingsReachChart`), which is
out of the prover's reach, and `OneHome` with two gateway processes.
No module declares a RECURSIVE operator.

## What the checks found

Two disagreements between the code and its documentation have a run that shows them:

- `EndEventsStored` (`gateway.py:560`): README.md:445 says all emitted events
  are written to `raw_gateway_events`.  An End callback wakes the command before it
  emits its event; the command may return and close the store first.
  `connection.closed` is emitted after the store is closed in every session.
- `BackfillFillsIn` (`cli.py:688`): README.md:377 promises that
  volatilities are filled in when IBKR sends no greeks.  The command looks for
  greeks by request id, the ids start at 1000 in each session, and so what an earlier
  session left in the database counts as this one's.

Others were met while modelling; the properties are stated so that they say what
holds in their presence, and no run is spent on them:

- Details of a contract of which two rows hold the same bar are dropped: the merge
  violates UNIQUE (`persistence.py:485`), the exception is swallowed, and the open transaction
  keeps the write lock until the process handles its next event, so other processes time out
  (`persistence.py:295`, README.md:107).  `LocksNeedFailure` says that this is
  the only way to get there.
- A process that merges an instrument between another's look-up and insert leaves a row
  that refers to nothing (`persistence.py:501`); the FOREIGN KEY of line 145 is
  not enabled.  A process whose look-ups are stale may merge two rows and then fail to name
  the one that is left (`persistence.py:296`); its next event commits the merge.
- A `conId` is overwritten with 0 by a later request that has none
  (`persistence.py:444`).
- A contract without a strike gets another `instruments` row with each run of
  the C++ tool, and the row its bars hang on keeps the metadata of the first
  run (`IBHistoricalStore.cpp:377`).  `OneHome` is what still holds.
- The collector takes its newest bar for the end of what it has, so bars an
  update of a stalled feed passed over are not fetched (`cli.py:131`, README.md:322).
  `NoHole` excepts exactly those.  A feed that stalls for longer than the duration, which
  only a run without a deadline can see, leaves a hole that no tail reaches (`cli.py:153`,
  against README.md:322): with `Runtime = 0` the run violates `NoHole`.  "1 M" is read as one minute (`cli.py:42`), so
  a tail is never longer than that: without its guard on the unit `NoHole` fails
  in the run `collector`.  The tail is measured from a bar's time to the computer's
  (`cli.py:162`, README.md:322); where the clock of the bars is ahead, every tail is one bar long:
  with `Ahead = 4` the run `collector` violates `NoHole`.  With bar times in a form `_parse_ib_timestamp` does not know, refreshes are not
  paced (`cli.py:127`).
- The strip may be laid around a price of any age or of -1 (`cli.py:778`, 524),
  compares expiries by local and by UTC time (`cli.py:467`, 559), and fifty bid
  ticks hide an ask (`cli.py:640`).
- A bootstrap may count as done with an empty cache (`gateway.py:225`, README.md:351): bars
  that come before the request's event, which follows the API call, or whose request's event
  found the database locked, are dropped (`persistence.py:502`, `gateway.py:449`), and the End is
  heard all the same.  `FilledHasBars` excepts exactly the bootstraps whose store dropped
  a bar; without the exception (`dropped`) it fails in the run `server`.
- A bootstrap that found nothing is tried again at every poll of every tab
  (`visualization.py:853`, README.md:346); a longer duration is not
  bootstrapped for a key with a few bars (`visualization.py:168`, README.md:351); a
  database that is locked outside the `try` ends the thread without the 503
  (`visualization.py:786`, 861).
- The end of a refresh may set "Streaming" after a stop (`live_ticker.html:2032`), and a
  refresh that runs when the page is stopped still makes its second request
  (`live_ticker.html:2008`).  `StoppedStaysStopped` is about refreshes.
- A tick that precedes its request's event, which follows the API call (`gateway.py:186`), gets
  the symbol an earlier session's request had under the id (`IBEventProcessor.cpp:449`,
  README.md:607): without its antecedent `JoinedRight` fails in the run `flow`.
- The processor's values end at the first comma or space, so an option chain with two expiries or
  strikes is a parse error (`IBEventProcessor.cpp:287`), though README.md:607 says the
  processor understands the gateway's flat JSONL.  `ErrorsCounted` says that these lines and
  those that hold two events are the errors, and no others.
- A quote of the event processor mixes the contracts of a symbol
  (`IBEventProcessor.cpp:423`); two threads may write into one line of output
  (`gateway.py:440`), and both events are lost.
- A computation without a volatility counts as greeks, so nothing is filled in for its
  option (`cli.py:688`).  The panel may choose an expiry of which every row is incomplete
  (`visualization.py:559`), may cut the chosen expiry at its `LIMIT`
  (`visualization.py:632`), and shows no point for an option whose newest row with a
  volatility has no price (`visualization.py:622`).

## What is not modelled

- `contracts.py`, `parsing.py`, `_parse_ib_timestamp`, the C++ tool's command lines: conversions without state, abstracted to what the properties
  tell apart.
- The Black-Scholes solver, the formula of the terminal probability, the `bars` and
  `ticks` commands, plots and layout of the dashboard: numeric or presentation code.
- `build_parser`, the `*_main.cpp` files, `Makefile` and wrappers: they
  start what is modelled.
- `examples/` and `experimental/`: not part of the supported program
  (docs/repo_layout.md).
- The IBKR API, SQLite, `websockets` and the browser, of which the modules say
  what the code relies on: these definitions are marked external.

## Plan

Order of the work, most important behaviour first:

1. `Gateway` with `Session` and its proofs (done): everything else runs on it.
2. `InstrumentStore`, `SharedDatabase` (done): what is kept must be right.
3. `Bridge`, `Collector`, `DashboardServer`, `DashboardPage`, `OptionStrip`,
   `EventFlow` (done).
4. `Broadcast` and the refinement of it by `Bridge`; `FlatJson` under `EventFlow`;
   `OptionPanel` on `OptionStrip` (done).
5. Proofs of `InstrumentStore`, `SharedDatabase`, `Bridge`, `Collector`,
   `DashboardServer`, `DashboardPage`, `OptionStrip`, `OptionPanel`, `EventFlow` (done).
6. Still worth doing: a cache that is filled once per key as the abstract
   specification of `DashboardServer`; the queries of the `bars` and `ticks` commands; options in the
   shared instance of `SharedDatabase`; the two uses of a resolved instrument by
   concurrent processes (`persistence.py:501`).
7. Theorems: `NoHole` of `Collector`, the strip's and the panel's properties,
   `OneHome` for one gateway process, and the properties of `EventFlow` (done).  Left:
   `OneHome` beside several gateway processes, whose stale look-ups need
   an invariant of their own.
