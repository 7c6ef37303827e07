# Verification of the BTC 5-minute collector

The repository collects Polymarket "BTC up or down, 5 minutes" markets with the
data around them into PostgreSQL and back-tests strategies on them. This
directory holds TLA+ modules of the parts whose correctness is hard to test,
the TLC configurations that check small instances of them, and TLAPS proofs.
Paths below are relative to the repository; `src/poly_btc/` is left out where a
file name is enough.

## 1. The system

Two processes share one database: the collector (`main.py`, one asyncio event
loop) writes, the Streamlit app (`backtest/`) reads. Inside the collector:

| part | state | operations | interacts with |
|---|---|---|---|
| discovery, `gamma.py` | `_seen` | `scan_once` every 30 s: fetch 27 slugs, upsert, announce new ones | `markets`; the two clients through `on_new_market` |
| trades client, `rtds_client.py` | `_slugs`, `_subscribed_slugs`, `_ws`, `_send_lock` | `add_slug`, connect, initial frame, read, ping, reconnect with backoff | discovery; batch writer |
| book client, `clob_client.py` | `_tokens`, `_subscribed`, `_ws`, `_send_lock` | `add_tokens`, the same life cycle | discovery; batch writer |
| Binance client, `binance_client.py` | none | reads trades, skips those that do not convert, reconnects | batch writer |
| Chainlink rotator, `chainlink_snapshot.py` | none | every 45 s: connect, take a 60 s snapshot, close | batch writer |
| batch writer, `db.py` | three lists, `_stopping`, the runner task | `add_*`, `_flush` every second, `stop` | `btc_spot`, `pm_book`, `pm_trades` |
| resolver, `resolver.py` | none but the database | every 5 s: two UPDATEs in one transaction | `markets`, `btc_spot` |
| compactor, `compactor.py` | none but the database | every 10 min: up to 20 markets older than 7 days, one transaction each | `pm_book`, `markets` |
| life cycle, `main.py` | a stop event | start, priming scan, cancel, stop, close the pool | all |

The app keeps three things per browser session (`backtest/app.py`): the controls,
the URL they are saved in, and a cache of dataset rows by market and X, filled by two
queries of `backtest/sql.py` on connections of their own. Every change of a control
runs the script again from its top. The strategy (`backtest/core.py`) is pure.

What is hard here, and what makes each part correct:

- **Batch writer.** A flush runs three transactions under `asyncio.gather`,
  which returns at the first failure and leaves the others running; a commit may
  be acknowledged or not; the process may stop or be killed at any moment. Rows
  must not be stored twice or forgotten, one table must not pay for another, and
  an orderly shutdown must store everything.
- **Discovery and the clients.** `add_*` races with the initial frame, with
  drops, with reconnects and with the ping task over one lock; `_ws` is read
  before the lock is waited for. What a client was given must end up subscribed.
- **Messages.** Times come in a unit that has to be guessed, events are dropped on
  purpose, an item that raises ends a connection with all that was still to be read, and
  one that does not convert is passed over or recorded in part, without a word. What
  is recorded must have been so at its time, and a client that has read all it
  was sent must have missed nothing but what it passed over, for no longer than until
  the next quote.
- **Rotator and resolver.** Ticks come in bursts, minutes apart, and show late; flushes
  and captures fail; the resolver looks when it looks and writes once. The recorded
  outcome must match the recorded prices, come, and rest on the ticks that are nearest
  in the stream, as far as the timing of rotation and grace can give them.
- **Compactor.** Statements of one transaction have different snapshots, quotes
  keep arriving, transactions abort and processes die. Readers must not be able
  to tell that it ran, and no market may be half done.
- **The app.** Markets resolve between its two queries, runs are interrupted or fail
  half-way, the cache is never refreshed by itself, and the URL is written last. A
  page must be complete, and its rows stale only in the way it says.
- **Several collectors on one database**, which `README.md:41` calls safe.

`PROJECT.json` lists every hazard with its line and the properties about it.

## 2. The modules

Each component is a module with its constants, variables, one action per step of
the code that other tasks can see, the properties, and small *variants* of single
definitions: plausible bugs, each of which breaks one property. The `MC` modules
give the constants values; every `.cfg` uses one of them.

### RowSink and BatchWriter

`RowSink` is the promise: a row that is offered is pending until it is kept or
lost, for good; rows are kept a batch at a time; the first batch kept decides
which spot row is seen under a key.

`BatchWriter` is the code. `buf` is `_spot`, `_book` and `_trades` as sets, with
`arrival` for their order; `live` the batches the current `_flush` awaits;
`orphans` those that go on after `gather` raised; `pc` where `_runner` is;
`phase` how far `_amain` is. `FlushBegin` is the end of the sleep and the swap,
`Commit` one `insert_*_many`, `Fail` and `FailUnacked` an exception out of it
before and after the server committed, `Loop` a turn of the loop or the final
flush, `CancelTasks`, `StopWriter` and `Exit` the end of `_amain`, `Crash` and
`Restart` the container runtime. `lost`, `failed` and `killed` are history.
The pool of connections is not modelled: running out of it is a failing INSERT.

### MarketFeed

Discovery, `on_new_market` and the two clients, which share their connection
handling line for line. `wanted` is `_slugs` / `_tokens`, `marked` is
`_subscribed_slugs` / `_subscribed`, `ws` is `_ws` (a socket that was closed stays
in it until it is cleared), `rpc` the place in `run_forever`, `dpc` that of
the discovery task, `lock` the holder of `_send_lock`. Whoever gets the lock calls
`ws.send` at once, which raises if the socket is closed or None: `doomed`.
`server` is what the other side has subscribed on the open connection. An
`asyncio.Lock` serves its waiters first (`Busy`). Code between two awaits is one
action: that is why `Upsert` goes up to the first `send`. A connection ends because its
socket closed (`Drop`, `Disconnected`) or because `_handle_message` raised on an open one:
`HandlerRaises` runs the `finally` clause, and only `Closed`, the end of `async with`,
closes the socket, on which somebody may still be sending. Backoffs, pings
and scan intervals take any time, so their lengths do not appear.

### Ingest

What `MarketFeed` leaves out: one connection of one of the three clients, message by
message, from the exchange's book and trades (`levels`, `past`, `made`) over the
messages in flight (`wire`) to the rows given to the writer (`quotes`, `trades`,
`ticks`). `Receive` is a turn of `async for raw in ws`, with `_handle_message` and
`_dispatch`. Time is counted in milliseconds, Kilo to a second, and no two events happen
in one. `ParseTs` takes the unit from the magnitude of a number, Kilo being a thousand and
`Epoch` large enough for the ranges of the four units to be apart, as they are for
today's times (`RangeAssumption`). A message in seconds says the second its event was
in, so its rows are dated up to a second early (`RightTime`). An item without a time, or with
a string that is none, is recorded with the present, also if its
envelope has one: `rtds_client.py:123` hands `_parse_ts` a datetime, which it does not
recognise. `TickOf` is `_floor_to_sec`, and of a second's ticks the first is kept.

A message may arrive otherwise than it was meant, in the three ways the code tells apart:

| | what arrives | what the code does |
|---|---|---|
| `SendUnread` | items that are no dicts or lack an `asset_id` or price, frames that are no JSON; of Binance, a trade whose time or price is missing or does not convert | nothing; goes on |
| `SendFlawed` | a time that is no time; a price of a `best_bid_ask`, or a level of a `book`, that does not convert | records the present; None; the top of the other levels |
| `SendRaising` | a level that is no dict, a time outside `datetime`; of Binance, a frame that is no UTF-8 or no dict | records the items before it; the exception ends the connection (`Break`, `AfterError`) and what is in flight |

`damage` is history: which facts came in the first two ways. `CaughtUp` and `RowsAreTrue`
say what remains true of the rest, and how far from true a damaged row can be: dated too
late, never too early; a worse top, never a better one. Nothing is repaired by the code,
only made good by the next quote of the token; so `Excused` allows a token whose last word
from the exchange was damaged, or behind a quote that was dated too late.

Assumed of the exchanges, from how the code and its comments use them: a subscription
is answered with a book per token; a change of the top is announced with a
`best_bid_ask` after the `price_change` (`clob_client.py:174-177`); a trade is not
repeated. Subscriptions are constant here. Of a trade only its time is modelled, and of a
price only that it converts or not: `float` also reads "nan", which nothing excludes.

### Resolver

The clock, the rotator, the flush and the resolver over `btc_spot` and `markets`. `stream`
is when Chainlink has ticks: any set of `Streams`, with pauses longer than a snapshot
among them, as `resolver.py:27-28` says. A snapshot shows the ticks of its last
`Snapshot` units but possibly those of the last `Delay` (`History`). A strike or close is
represented by the tick it was copied from, so that properties can speak of its time. The UPDATEs are two actions each, reading
and writing, since another transaction may hold the row lock in between; after a
wait PostgreSQL (READ COMMITTED) re-evaluates only the outer WHERE clause.
Markets are known before they start, as `PROBE_FORWARD` sees to; upserts do not
touch the columns in question.

### Compactor

`raw` is `pm_book` without its 'compact' rows, `copies` counts the 'compact' rows
made from each raw row, `ins` and `del` are what a transaction did but
has not committed. `arrived` is history: what the table would hold without a
compactor. Of several latest quotes with one timestamp `DISTINCT ON` keeps any one, and
two compactors may keep different ones: `Selections` are the possible results. `SecondView`
and `LastQuote` are the two ways `sql.py` reads the table, the first one cut off at `t_entry`
and `window_end`. A compact row is moved to the start of its second, across the
second cut if the second is the one that begins at `window_end`: the history's last row
then shows a quote from after the window. `SecondsKept` leaves that row out, because no
attempt reads it: `core.py:179` ends the attempts before `window_end`. `Poison` markets stand for those whose transaction fails every time.

### Strategy

One market of the back-test, from the quotes of its two tokens to a trade or a
`skip_reason`. `DecideSide` is `_decide_side`, `Gates` the checks of
`_build_trade_row` in their order, `First` and `Attempt` the turns of
`_walk_retries`. `Entry`, `BookAge` and `History` are the parts of the query in
`sql.py` that feed it: the last quote at or before `t_entry`, its age rounded to
seconds, and one quote per second of `[t_entry, window_end]`. The properties compare
what comes out with the whole book (`KnownBy`), which the code never sees. Spot
prices enter as their ages and the comparison with the strike, the
pre-entry ticks as their percentage. A token has one quote per instant: which of
two with one timestamp PostgreSQL picks is not specified. Payoffs and the
summary are arithmetic on the result and left out.

### Session

One browser session of the app over a database in which markets resolve (`Resolve`) and
the data of resolved ones changes (`Move`: late rows are flushed, quotes compacted), which
`version` counts. `cache` is `st.session_state["_market_cache"]`, `url` is
`st.query_params`. `ListSlugs` is the first query of `cached_dataset`, `Fetch` the second
with the top-up, since the database moves in between; `QueryFails` is either of them
raising, `Stop` the `st.stop` of a page without trades, `Persist` the end of the script.
`Clear` and `Open` (a reload or a shared link) are the two ways the cache is lost.
X and N stand for all controls, as only they reach the queries; whether a row becomes a trade
is left open, so `Stop` and `Persist` are both possible when there are rows.

Streamlit is external. A control without a key is identified by its parameters, the
default among them, and the app takes the defaults from the URL it wrote in the run
before: a control whose default changed is a new control and has that default
(`Rendered`). A second change of one control, without a run in between that took up the
new default, is therefore undone: this can be seen in the model but no document
says otherwise. A default outside the allowed values raises (`Renders`), so a link with
`n_markets=0` shows no page.

## 3. The runs

| run | instance | shows |
|---|---|---|
| `writer` | two ticks with one key, a book row, one restart | nine properties of the write path, with the refinement of `RowSink` |
| `feed` | two markets, two drops or handlers that raise, one failed connect or upsert | six properties of discovery and subscriptions |
| `feed_lost` | the same, one drop | a market can be seen and never subscribed for its book |
| `ingest` | each client in each unit; three events, one drop, one message that is not as it was meant | four properties of what is recorded |
| `resolver` | two adjacent windows, two streams with pauses, ticks up to one unit late, one resolver, two failures | seven properties of ticks and outcomes |
| `resolver_close` | one market, a tick in every unit, no failures | the ticks of the end can land after the close was recorded |
| `resolver_shared` | one market, a tick in every unit, two resolvers | a recorded outcome can change |
| `compactor` | three windows, six quotes, two of which tie, two compactors, one abort or kill | five properties of compaction |
| `compactor_lookup` | the same, one compactor | whole-second lookups see the future |
| `session` | three markets, two values of each control, any URL, one change of data, one failing query | three properties of the page |
| `session_reload` | the same | a page without trades is not saved in the URL |
| `strategy` | every book of up to three quotes in ten instants and three prices, with four retry settings; every combination of the gates' inputs | six properties of side, gates and retry walk |

The runs that expect a violation check a sentence of the repository which the
code does not keep; `PROJECT.json` quotes it. They are facts about the code as
it is, kept so that a fix can be seen to fix them. Four divergences that follow from the
definitions alone have no run: `StrikePick` may take a tick from before window_start, where
the docstring at `resolver.py:4` has the first tick at or after it: `StrikeIsFirst`
states what the query does, the first tick since window_start less the lookback (line 39),
which with a sparse stream may be minutes after it. Two compactors may both insert
a market's compact rows, which is why `CopiesBounded` bounds the copies of each
compactor and not of all (`compactor.py:71` against lines 12-13). `Snapshot` may
show a quote from up to a second after an attempt (`core.py:107` against lines 95-96),
which is what `BoughtInTime` bounds. And compaction may change the history's row at
`window_end`, see above (`compactor.py:16-18`).

### Bounds

- *writer*: three rows are the least with which a key is contested, and two tables
  are in one flush so that one of them can be orphaned; flushes are unbounded
  because each needs a row only to matter. One restart separates the first life
  from a later one. The proofs cover every number of rows, tables' keys and restarts.
- *feed*: an add that races with a frame holding another item needs two markets. Two
  drops let a reconnect be broken again, one failure a connect or an upsert
  fail at each place in turn. Scans and pings are unbounded.
- *resolver*: one stream has its bursts long after the first window's start and before the
  second one's end, the other is dense from the first end on. A capture and its flush, a few
  seconds in the code, take less than a unit. The durations keep the order of the real
  ones, lookback 5 < grace 30 < rotation 45 < snapshot 60 < lookahead 180 <
  window 300 seconds, as 1 < 2 < 3 < 4 < 5 < 6, and the phase of the rotation is
  any. With these values NoGap and CloseIsRecent are tight: the variants of a
  slower rotation and of a shorter wait break them. Of that order only grace <= rotation
  is assumed, and that rotation and delay are not longer than a snapshot: in the code
  ticks may show up to 15 s late before snapshots leave gaps. Time is bounded by MaxTime
  beyond the last moment at which anything can be written; at the last moment the
  resolver goes on, so deadlock is checked.
- *compactor*: two instants to a second are the least that tell truncation from
  identity. The quotes of the second window are three of one token in one second, two of
  them at one time, one of the other token, and one just after `window_end`; a quote
  without prices lies beyond the scope of the third. Batch is 2, with
  one market that always fails: the head of the batch is blocked but not all of it.
  Two assumptions concern durations: `After + Late < Age`, which seven days against
  30 s and the delay of a quote justify, and that a scope begins and a window ends with a
  whole second, since windows begin and end at multiples of 300 s and `Before` is 5 s.

- *strategy*: two instants to a second, three seconds to the window. Three quotes give
  an entry, a quote and a newer one in the same or a later second; the prices are
  below the limit, at it, and a dollar. Intervals are none, zero, one and two, so
  that attempts fall on every second, between quotes, and beyond the last second.

- *ingest*: three events are a first top, a newer one, and one in between that does not
  change it, or two trades of one second; an announcement of a
  new top has two items, so that what is in front of a bad one counts. One token, since
  tokens do not interact, and two prices, so that a level that does not convert leaves a
  worse top or none. One drop and one handler that raises end a connection twice.
- *session*: three markets, of which N shows one or two, let a newer market resolve
  between the queries while an older one is missing. A URL can hold values that are not
  allowed and ones that are no numbers. Reloads, changes and clears are unbounded.

The writer's run does not check deadlock, since after the last restart the process
may stay down; nor do those of the strategy, which ends with its result, and of the
messages, where the exchange may fall silent for good.

### Fairness

Weak fairness, for what the event loop and the operating system guarantee: a
ready task runs, a sleep ends, a statement or a send returns or raises, the server
decides every transaction. There is none for ticks, scans, pings, signals,
drops, failures, crashes and restarts. In `MarketFeed` fairness is on the discovery
task and each client's runner as a whole; failed connects are bounded, so that an
eventual connection is what the bound gives. In `Ingest` it is on
reading what has arrived and on the end of the sleep before a reconnect; drops and
messages that are not as they were meant are bounded. `Strategy` is a function that runs. `Session` promises
nothing about time and has none.
In `Resolver` and `Compactor` failures
are bounded by `MaxMisses` and `MaxAborts`; liveness is thus "after the last failure".

## 4. The proofs

`BatchWriterProofs` proves, for every set of rows and keys and every number of
restarts: type correctness, `AtMostOnce`, `NothingForgotten`, `CleanExit`,
`LossIsolated`, `FirstTickWins`, and that `BatchWriter` implements `RowSink`. The
assumptions are those on the constants, which TLC evaluates in the `writer`
run: rows have a table and a key, `NoRow` is no row, `MaxRestarts` is a natural.

None of the safety properties is inductive. `AtMostOnce` needs to know that a row
is in one place only, and that needs batches to be disjoint and to hold rows
of their own table. The strengthening `IInv` has these parts:

- `Filed`: a row is only in lists, batches and transactions of its own table;
- `Apart`: list, current batch and abandoned transactions are pairwise disjoint.
  Two abandoned ones may even have the same table, from different flushes;
- `Idle`: a runner that sleeps or ended awaits nothing, so a swap overwrites nothing;
- `Accounted`: a row never added is nowhere, one in memory neither stored nor lost;
- `Orderly`: without failures nothing is abandoned, and after the final swap the
  lists stay empty because the producers are gone by then;
- `InOrder`: without failures what is in the current batch was added before what is
  in the list, and a key without a stored row had no row inserted.

The module proves `Init => IInv`, one lemma per part for every action, and from
them `IInv /\ [Next]_vars => IInv'`; each theorem is then one temporal step. The
refinement maps a row's place to its status; `FlushBegin`, `Loop` and the phases
stutter, `Commit`, `FailUnacked` and `OrphanCommit` keep a batch, and `Fail`,
`OrphanAbort`, `Exit` and `Crash` lose rows. With `IInv` each of these is a step of
`RowSink`.

`StrategyProofs` proves the safety properties of `Strategy` for every window, length
of a second, book, and parameter; the assumptions are the types of the inputs and
one quote per token and instant. That an attempt sees in the history what the
whole book would show is `SnapshotIsKnown`: the newest quote known by a
second is either in the history or the entry quote, which was turned down. It
rests on every bounded set of quotes having a newest one (from well-founded
induction) and on division rounding down. `IInv` adds to the properties that a side has
been decided and its entry quote passed the gates (`Decided`, `Passed`), that the walk
stands at a multiple of the interval with every earlier attempt in vain (`Walking`),
and that nothing is bought before the end (`Pending`, `AtEntry`). `BoughtFresh`
follows since the previous attempt would have bought an older quote.

`SessionProofs` proves the three safety properties of `Session` for every finite set of
markets, every set of values of the controls and every number of changes and failures; the assumptions are those
of the module, among them that a default is an allowed value. A page is complete
because every missing market of the list is among the rows of the second query, although
that selects the newest of those it is asked for, up to as many as there are:
`FetchedIsMissing`. Resolved markets stay resolved, so all of the missing ones qualify, and
none of them can have as many newer ones among them as there are in all. `IInv` adds
that a cached row is filed under its own market and X (`Filed`), that it is
up to date unless its market is in `moved` (`Aged`), and that the list in use is
resolved (`Listed`).

`IntegerFacts` holds what several components need of integers: bounded sets have least
and greatest elements, which is what `ORDER BY ... LIMIT 1` picks, and division rounds
down.

`MarketFeedProofs` proves the five safety properties of `MarketFeed` for every set of
markets and every number of drops, raising handlers and failures. `InSync` speaks of an open
connection at rest; the invariant has to follow an item through the race with the
initial frame and the lock:

- `DoomIsKnown`: who is inside `send` on a socket that is closed, or no longer the
  client's, will get an exception, so that nothing counts as sent that was not. While a
  connection is closing this is open, and decided with the socket;
- `Between`: between connections nothing is open, and the clients start after the
  scan that primes them;
- `Given`: nothing is marked, in a frame or subscribed that the client was not given;
- `OnItsWay`: all a client was given is subscribed, in the frame being sent, or the
  one item discovery is about to send (`Coming`);
- `Unbroken`: without a drop every send succeeds, and what is announced has reached
  the book client as well. This fails after the first drop, as `feed_lost` shows.

`ResolverProofs` proves what concerns the feed for any number of resolvers (`FeedInv`), and
what concerns one row for a single one (`RowInv`). The feed has at every moment all
ticks of the stream that had shown by the last capture, or that capture is buffered and it
has all that had by the one before (`Fed`, `Landed`); since a snapshot is at least as long
as a rotation and the delay, nothing of the stream falls between two of them.
Hence a strike is the first of its range: had an earlier tick not landed, the later
one could not have either (`TimelyStrike`). And a close is as near as any tick that
must have landed by the end of the grace period (`TimelyClose`). `Timely` says so of recorded
rows, of uncommitted ones and of what a subquery has read, because another transaction
may hold the row lock in between. `OutcomeMatches` and `WriteOnce` are theorems under
`OneResolver`: a transaction then writes only what its row still lacks. With two
resolvers this is false, which is what `resolver_shared` shows.

`CompactorProofs` proves the four safety properties of `Compactor` for every finite set of
compactors and any windows, quotes, aborts and kills. `IInv` follows a transaction
statement by statement (`PassGoesOn`, `Inserted`, `Deleted`), describes a market without
a stamp (`Whole`) and one with (`Compacted`, `OnlyKept`, `OutsideIsRaw`), and counts the
compactors that may still copy a quote (`Counted`). `Deleted` rests on `Old` markets
getting no more quotes; `Inserted` on a compactor having selected, second by second, one of the
latest of all of the market's quotes, unless another one has committed the market by then.
`Spent` has each compactor copy from a market only once. `SecondsKept` then
follows second by second. Before the end of a window all quotes of a second are in the scope
or none is, as scope and window begin and end with whole seconds, and the cuts of a history
that begins with a whole second fall between them; `Compacted` gives each such second a
quote that was one of its last.

`IngestProofs` proves the three safety properties of `Ingest` for every finite set of tokens,
every set of prices with a highest one, and every number of events, drops and messages
that are not as they were meant.
That a stamp is read back as the moment it was made at, or the start of its second (`ParseTs`),
needs the ranges of the units to be apart up to the last moment the bounds allow, so `Spent` pays
for each instant of the clock by an event, a message or a connection. `Messages` and
`History` say that what is in flight was so at its time or is damaged (`Exact`, `Honest`), `Ordered`
that it comes in order and after what is recorded, which makes the first tick of a second
the earliest. The heart is `AllComes`: what was told last of a token, and every trade since the
connection came up, is recorded, or in flight, or behind an item that will end the connection,
or damaged. A message taken off the wire moves its items from the second case to the
first; when the wire is empty only the first and the last are left. From there it is one more
step to `CaughtUp`: no other quote of the token is newer than the one told last, in whole
seconds none is later, unless one with a wrong time is ahead.

So every safety property of a run that passes is proved. Only model-checked are the
liveness properties (`EverySettles`, `StopTerminates`, `EventuallyInSync`,
`EventuallyCaughtUp`, `EventuallyResolved`, `EventuallyCompacted`, `Terminates`), which are
beyond the prover's reach, as fairness and ENABLED are. The properties of the runs that
expect a violation are false.

## 5. What is not modelled

- Parsing of a market (`_parse_market`) and the moving window of candidate slugs.
- The contents of rows beyond what a property tells apart: sizes, sides, hashes, raw JSON.
- The payoffs, PnL and summary of a back-test: arithmetic on the trades of `Strategy`.
- The spot lookups and window statistics of `sql.py`, which are inputs of `Strategy`.
- The connection pool, the schema, configuration and logging; lengths of backoffs.
- The app's charts and tables, its two read-only pages and the scripts, which are
  presentation and diagnosis.
- `remove_tokens`, which the program never calls, and the clients' `stop`, which runs when
  their tasks are gone.

## 6. Plan

What is left, in this order:

1. `Strategy` on a compacted book: whether compaction can change a trade's second.
2. Proofs of refinements beyond `RowSink`: the compactor against a table in which a
   market is replaced by its compacted quotes in one step, and one resolver against
   a market that is open, then has a strike, then an outcome.
3. The probe window of discovery, as a refinement of `MarketFeed`'s scans.
4. Payoffs and the summary as operators, against a definition by outcome.
