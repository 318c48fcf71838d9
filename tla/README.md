# PolyInsight: a verification of the bot's concurrent core

PolyInsight listens to Polymarket's trade feed, picks out large bets of
inexperienced wallets and sends an alert to each Telegram user whose filters
match. Users can also follow wallets and then get every trade of theirs. The
program is one Go process with a PostgreSQL database, a Redis cache and several
dozen goroutines. This directory holds TLA+ modules of its core, the TLC runs
that check them on small instances, and TLAPS proofs, for all sizes, of every
invariant and action property the runs check. Paths like `sendq.go:59` are under
`src/internal/` unless they name `main.go`, which is `src/cmd/bot/main.go`, or the
`README.md` of the repository.

## Inventory

| Component | State | Operations | Talks to |
|---|---|---|---|
| Send queue, `bot/sendq.go` | channel `sendCh` (20000), mutex, flag `sendDone` | `Enqueue`, the sender loop, `DrainAndClose` | called by the alert loop; main shuts it down; sends to Telegram |
| Trade feed, `tracker/websocket.go`, `main.go:108-126` | connection, backoff | `StartSocket`, the reconnect loop | puts raw trades on the `jobs` channel (5000) or drops them |
| Workers, `tracker/worker.go` | local variables of 32 goroutines | one loop body for each trade | `jobs`, follow cache, Polymarket API, `SendAlert`, counters |
| Alert loop, `bot/alerts.go` | none | `SendAlert` | subscriber cache, click table, `Enqueue` |
| Caches, `bot/sub_cache.go`, `tracker/follow_cache.go` | one published value each | query, then publish, every 5 and 30 s | database; read by the workers |
| Watchlist, `db/watchlist.go` | table `watchlist` | `AddWatch`, `RemoveWatch`, queries | handlers; follow cache |
| Users and settings, `db/users.go`, `db/settings.go` | tables `users`, `user_settings` | `Subscribe`, `Unsubscribe`, `GetSettings`, `UpsertSettings` | handlers; subscriber cache |
| Update handlers, `bot/handlers.go` | none; one goroutine for each update | messages, buttons, Mini App data | all tables, sessions, Telegram |
| Sessions, `bot/session.go` | maps `sessions`, `pendingCats`, `settingsMsgs` with expiry | set, get, clear, cleanup every 5 min | handlers |
| API clients, `polymarket/` | entries in Redis | `GetMeta`, `GetTradeCount`, `GetWalletStats` | workers, the statistics button |
| Click tracking, `db/clicks.go`, `HandleRedirect` | tables `alert_clicks`, `click_events` | register, increment, log | alert loop, HTTP server |
| Start and shutdown, `main.go` | | starts all of these, waits for a signal | |
| Formatting, keyboards, metrics, GeoIP, shortener, configuration | | | |

What is hard about it:

- **Concurrency.** Each Telegram update runs in a goroutine of its own
  (`bot/handlers.go:39-48`), so the updates of one user overlap; 32 workers and
  the shutdown meet at one mutex and one channel; two caches are replaced under
  the workers' feet.
- **Stale values.** A worker reads followers when it takes a trade and subscribers
  after up to 45 seconds of API calls; handlers read a settings row, change one
  field and write the whole row.
- **Failure.** Remote calls fail, hang or are cut short, and what they leave in the
  cache outlives them; a connection can be half open without anybody noticing. SQL
  statements and Telegram calls fail, and most errors are logged
  and otherwise ignored; in-memory state expires and is lost in a restart, while
  the rows and the keyboards in the chats stay.
- **Limits.** Two bounded channels that drop, a pool of 20 connections, a list of
  ten wallets, a sentinel at one end of the category selection and the empty list
  at the other, 999 standing for an API error.

What makes each part correct: the queue neither panics nor reorders nor blocks,
and a shutdown that is given the time calls `SendMessage` for the whole backlog but
at most its last message; alerts go to exactly the users whose filters
or watchlists ask for them, and the counters add up; a watchlist holds each
wallet once, nothing without its user and not much more than its limit; saved
settings are those the user was told are saved, as far as his updates did not overlap; cached answers end with their
lifetime and errors are kept no longer than meant; a link leads to the wallet of its
own message, and no table or counter of clicks runs ahead of the one before it; a
feed that is up is read within a bounded time. `PROJECT.json` lists the hazards line
by line with the properties that guard them.

## Modules

| Module | Models | Checked by | Proved in |
|---|---|---|---|
| `Outbox` | what the send queue promises: a bounded queue that drops | `send_queue` | `SendQueueProofs` (implemented) |
| `Database` | what the tables promise: users, their settings and their wallets, changed one step at a time | `watchlist`, `settings_overlap` | `WatchlistProofs`, `SettingsProofs` (implemented) |
| `SendQueue` | `sendq.go` and the shutdown in `main.go`; implements `Outbox` | `send_queue`, `send_queue_exit` | `SendQueueProofs` |
| `AlertPipeline` | feed, workers, caches and alert loop, with `Database` for the tables and `Outbox` for the queue | `pipeline_filters`, `pipeline_caches` | `AlertPipelineProofs` |
| `Watchlist` | `db/watchlist.go`, users, cascade and pool, with the handlers that use them | `watchlist`, `watchlist_limit` | `WatchlistProofs` |
| `Categories` | the selection, its marks on the keyboard and a tap, as pure operators | through `Settings` | `SettingsProofs` |
| `Settings` | every path by which one chat changes its settings | `settings_serial`, `settings_overlap` | `SettingsProofs` |
| `ApiCache` | `polymarket/markets.go` and `trades.go` over `cache/redis.go`, and how tags and slugs become a category | `api_cache`, `market_blacklist` | `ApiCacheProofs` |
| `Clicks` | `db/clicks.go`, `HandleRedirect`, the `click:` button and their counters | `clicks` | `ClicksProofs` |
| `Reconnect` | the connection of `websocket.go` and the loop in `main.go` around it | `reconnect` | `ReconnectProofs` |

`FoldTheorems` has the lemmas about recursion and sums that several proofs need. The
`MC...` modules give values to the constants. Operators whose comment
describes a slip ("the same with the test dropped") are plausible bugs of the
code; each property is shown to fail under one of them (`mutants` in
`PROJECT.json`). They are used nowhere else.

### SendQueue

A step is what another goroutine can observe: `Lock`, the test of `sendDone`
(`CheckDone`), the non-blocking send (`Select`: put, discard or panic), `Unlock`;
the sender's `Receive` (the `range` takes a message off the channel),
`CallSendMessage` and `SendReturns`; and the shutdown one statement at a
time (`Signal`, `DrainDone`, `MainLock`, `SetDone`, `CloseChannel`, `MainUnlock`,
`ProcessExit`). `Kill` stands for `log.Fatal` (`main.go:78`) and signals that
cannot be caught. Time is one flag, `late`: the 30 seconds are over. Delivery is
"handed to `SendMessage`", because an error there is only logged and nothing is
sent again. Between `Receive` and `CallSendMessage` the channel can look empty to the
drain while the message is only in the sender's hands, so `BacklogHanded` excepts one
message. `accepted`, `handed` and `backlog` are history.

### Database

Three tables meet here: `users`, `user_settings` and `watchlist`. The abstract
specification says what the rest of the program may rely on: a change is one
subscription, one cancellation, one save or one wallet followed or dropped; settings
and wallets are those of users; leaving takes them along. `Watchlist` implements it
with the rows as `watch` and the lower-case spellings as `Wallets`; `Settings`
implements it for one chat, with `Stored` (the row, or the defaults) as its settings.
In `AlertPipeline` the users' requests are `Database` steps, so its caches are checked
against exactly the tables the two detailed modules can leave.

### AlertPipeline

A worker takes a trade in one step up to its first remote call (parsing, price
guard, followers, volume, ban words), then one step for each call (`Meta`,
`TradeCount`, `StartAlert` after the statistics), one round of the subscriber
loop at a time (`Visit`) and `Finish`. Each cache has a query step and a publish
step, between which the database may change; a failed query is a step not taken. The
queries run under `context.Background()` (`sub_cache.go:21`, `follow_cache.go:31`), so
one may hang and end the refreshes for good: that a query ends is a hypothesis of
`CachesConverge`, not fairness.
Handlers appear as the steps of `Database`; `Watchlist` and `Settings` have their
own. The results of the API are any category or nil and any count or 999;
the click table and the texts are left out. Amounts are compared in integers
(cents, hundredths), exactly; a stored NaN passes each filter that 0 passes, so the
settings of this module need no such value. `held` and `followed` remember which settings and
follows ever existed, `sent` what was passed to `Enqueue`.

### Watchlist

One statement of PostgreSQL at READ COMMITTED is split where it matters: the
`INSERT ... SELECT` of `AddWatch` counts in its snapshot (`AddCount`) and inserts
later (`AddInsert`), the unique constraint and the foreign key being tested at the
insert; the second count (`AddExists`) has a snapshot of its own. A statement in
progress holds one of `Conns` connections, and `others` of them are held by the
workers, refreshes and redirects, which share the pool. Any statement may fail,
before or after its effect. `Canon` is `strings.ToLower`.

### Settings and Categories

All state is keyed by the chat, so the module follows one chat whose updates
overlap. A handler's step is one access to a map, one SQL statement or one edit of
a keyboard. An expired map entry is the same as none. Amounts are integers in
dollars, odds in hundredths; the value `NaN`, which `ParseFloat` accepts, is in the
model, though no run types it.

A chat holds several settings panels (`Panels`): `/settings` sends one, the reply to a
typed value sends one and leaves the old (`handlers.go:331-333`), a restart leaves them
all. Each can show a category keyboard (`shown`), while there is one pending
selection. A tap on a stale keyboard therefore changes other marks than it
shows, and its save stores them. `current` is history: the keyboard that was opened
or tapped last, as long as nothing else has touched the pending selection; of that one
`TapDoesWhatItSays` says that a tap does what its marks promise. `want` is history
too: what the confirmations add up to, field by field. A value is `Unsure` after an
overlap, a failed write, a failed read that was written back, or (the categories
only) a save on a keyboard that was not current, and sure again with its next
confirmation. Expiry and restarts change nothing in it.

`/settings` replaces a panel or leaves it (`ReplacePanel`); which one `settingsMsgs`
remembers is left open. The Mini App's numbers are clamped, and the user is told
"saved" without being told what; its categories are stored as they come
(`handlers.go:658`), so `Selection` has lists with unknown names (`Unknown`), with the
sentinel among categories, and the sentinel alone. A list with unknown names can be
as long as the table of categories and then be folded into "all" by a tap, so a tap on
one promises nothing. A list is modelled by the set of its names: a name sent twice counts once,
where the code's test of the length counts it twice.

### ApiCache

A task is a trade in a worker, with a deadline, or a press of the statistics
button, without. Its steps are the accesses to Redis and the remote calls, in the
order of the code: the category, the count, then the statistics with the count once
more and one page of closed positions after the other. The same context goes to
Redis and to the calls, so after the deadline (`Deadline`, at any point) reads miss,
calls fail and writes are lost. Values are abstracted to what the properties ask of
them: how old they are, whether they are errors, whether a deadline cut them short,
and for the statistics the numbers of wins and losses on the pages read. Time is
counted in ticks that outlast a task. Redis itself is taken to answer: an outage
reads as misses and lost writes, which is what the deadline already does.

### Clicks

An alert is one fill: transaction, wallet and market. Its short id is the pair of
transaction and wallet (a hash that is taken not to collide), so fills of one
wallet in one transaction share a row. A click is a request that goes through the
statements one at a time: count and find the target, read the category, increment
the counter, look up the country, read the category again and store the event.
Each statement may fail, and where a failure is ignored the request goes on with
what it has. Fills and labels are finite sets, as their counters are summed. `Restart` keeps
tables and chats and loses requests and counters.

### Reconnect

A timed model in units of five seconds. `End` is the code after `StartSocket` has
returned; `Connect`, `ReadFails`, `Message` and `WatchdogExpires` are `StartSocket`.
The world is `Disturb`: the server goes down, is silent or is up, at any moment, and
whatever was under way then may hang without an error. `Tick` lets time pass but
not beyond a timeout. `calm` and `shorts` are history; `Doubled[n]` is what the
loop's `backoff *= 2` makes of the base in n rounds. The write of the
subscription has no deadline in the code (`websocket.go:38`); it is a few bytes on a
new connection and is taken to return.

## Runs

| Run | Instance | Result |
|---|---|---|
| `send_queue` | 2 producers, 3 messages, capacity 1, fair | 9 properties hold, 179590 states |
| `pipeline_filters` | 1 worker, 1 trade out of 6 kinds, 2 chats, 2 settings and the default, counts 1, 5 and 999, 1 edit | 2 hold, 4.0 million states |
| `pipeline_caches` | 2 workers, 2 trades, both channels of capacity 1, 1 edit, fair | 5 hold, 223666 states |
| `watchlist` | 2 handlers, 2 wallets in 3 spellings, limit 1, 2 connections shared with the rest, fair | 6 hold, 83841 states |
| `settings_serial` | 1 handler, 2 panels, 2 fields, Mini App lists with an unknown name, faults, restarts | 3 hold, 4.0 million states |
| `settings_overlap` | 2 handlers, 1 panel, 1 field, faults, restarts | 3 hold, 2.5 million states |
| `api_cache` | 2 tasks, lifetimes of 2 ticks (1 for an invalid market), 5 positions on pages of 2, at most 2 pages | 5 hold, 3.7 million states |
| `clicks` | 3 fills of 2 wallets in 1 transaction, 2 requests, 2 clicks | 4 hold, 150108 states |
| `reconnect` | the times of the code in units of 5 s | 3 hold, 505600 states |
| `send_queue_exit` | 1 producer, 2 messages | `InFlightNotLost` fails |
| `watchlist_limit` | 2 handlers, limit 1, 2 connections | `LimitHolds` fails |
| `market_blacklist` | 2 tasks, a market with a blacklisted tag | `BlacklistedIsDropped` fails |

Why the bounds are enough: capacity 1 with three messages fills, overflows and
refills a channel, and two producers with main are enough for every order at the
mutex. In the pipeline every initial database is tried, so one edit gives each
"before and after" a cache can straddle; the six trades and three settings make
every filter pass some trade and stop another, and with two chats the loop can wrongly
skip or add one subscriber because of the other. In the watchlist, limit 1 makes
"one below", "at" and "above" the limit reachable with two wallets, and two
handlers share two connections with the rest of the program, which may hold both.
For settings, two categories already
have each kind of selection (all by the empty list or by name, one, none, and with
the sentinel or an unknown name). The typed 9 is under the least amount and a good
number of trades, 10 is the least amount, and the Mini App sends 0. Two panels are
a current and a stale one, and the hazards of overlap are those of pairs of updates,
for which one panel and one field are enough: both handlers act on the one pending
selection and write the whole row.
In `api_cache` an entry lives two ticks (a negative one, one) and a task sees at
most one tick, so a value can be read fresh, aged and at the end of its lifetime;
five positions are three pages, of which at most two are read, so statistics are
complete, cut by an error or cut by the limit. `clicks` has three fills of two
wallets in one transaction: two of them share a row and all share the transaction,
and two requests overlap at every pair of statements. `reconnect` has the
real times; its one bound, 7 short sessions, lies beyond the point where the
backoff reaches its limit (5 s doubled six times is over 300 s). The bounds on
edits, received messages and clicks limit histories, not states a step can see.
Deadlock is checked except in the runs of `SendQueue`, whose process ends.

**Symmetry** is used in safety runs only, over interchangeable handlers and panels.

**Fairness.** Goroutines that can run do. `SendQueue`: strong fairness of `Lock`
and `MainLock` (a Go mutex in starvation mode is handed to its longest waiter),
weak fairness of the sender (its call has a 15 s timeout), of the deadline and of
main's steps; none of signals, kills and calls. `AlertPipeline`: weak fairness of
workers (45 s timeout), of the sender (15 s timeout) and of the publication of what a
refresh has read; none of the refreshers' queries, which have no timeout, nor of
users and feed. The edits are finite, so `CachesConverge` says what holds once users
rest, if queries go on being answered.
`Watchlist`: strong fairness of steps that wait for a connection, because
`database/sql` serves waiters in order, and weak fairness of the steps that end a
statement, those of the rest of the program included. The statements have no
timeout either, so this takes a database that answers. The runs of `Settings`,
`ApiCache`, `Clicks` and `Reconnect` are safety runs without fairness;
`FeedIsBackInTime` bounds the time instead of promising "eventually".

## What the code does not do

Three statements of the repository are refuted by runs; `PROJECT.json` quotes them:

1. *"so in-flight messages are not lost"* (`sendq.go:72-73`). The drain looks at the
   channel's length only; the message in the sender's hands, even one it has not yet
   called `SendMessage` with, and those enqueued between the last look and the flag die
   with the process. The run shows the first. What does hold is `BacklogHanded`.
2. *"eliminates TOCTOU race"* (`db/watchlist.go:22-23`). Two statements may both see
   room. What does hold is `OvershootBounded`: the excess is less than the number
   of connections.
3. *"returns nil when the market should be dropped (inactive, closed, blacklisted
   tag)"* (`markets.go:14-15`). The tags are decoded without looking at the error
   (`markets.go:80`), so when the body is cut short the market has no tags, and its
   category is kept for 12 hours.

Smaller ones were seen with TLC and are kept as hazards, not as runs:

- The volume filter is "applied for everyone else" (`README.md:84`), but one
  follower lifts it for all subscribers.
- Categories are "only written to DB when user clicks Save" (`session.go:43`), but
  typing an amount writes back the categories that were read before
  (`handlers.go:290`), and may so undo a save. `NaN` is accepted as an amount.
- The counter of follow alerts grows by all followers of a trade, subscribers or
  not, and the counter of perfect alerts includes dropped messages.
- Between the start of the workers and the first load of the follow cache, and up
  to 30 seconds after a follow, a followed wallet's small trade is filtered.
- "ensuring no trades are missed" (`README.md:57`) is false when the buffer
  overflows, and that is counted.
- A user can be told that the list is full when the request itself saw room (a
  concurrent request inserted the same wallet, and another removed it again).
- A tap or a save on a settings keyboard that is not the one used last acts on the
  other keyboard's selection.
- The Mini App's list of categories is not checked; one with unknown names enables
  only the known ones, and a tap on the keyboard may turn it into "all".
- A failed trade count (999) inside the statistics is kept with them for 15 minutes
  (`trades.go:92, 191`), while a failed count alone is not kept at all.
- Two quick taps may leave the keyboard showing the marks of the first.
- "We paginate until an empty page is returned" (`trades.go:130-132`), but an error
  and the twentieth page end it too, and what was read so far is cached for 15
  minutes. As the losses come last, the win rate is then too high
  (`RateNeverUnderstated`), never too low.
- The category of a click is read again "so it's always consistent"
  (`db/clicks.go:17`); when that read fails the event is stored with none.
- The first pause after a failure is 10 seconds, because the doubling comes before
  the sleep (`main.go:114-124`).

## Theorems

All are proved for every value of the constants that satisfies the named
assumption of the module, which each run's TLC evaluates as well.

- `SendQueueProofs`, from `SendQueueAssumption`. The inductive invariant is the type
  invariant, `Mutex` (who holds the mutex, by program counter), `Phases` (flag and
  channel follow main's program counter; a producer about to send finds the flag
  unset), `FifoDelivery` and `Drained` (once the drain is over the backlog has left the
  channel, unless the deadline passed; it may still be in the sender's hands).
  `NoPanic` alone is not inductive: the step
  that sends tested the flag one step earlier, and only `Mutex` says that main
  cannot have closed the channel since. `ShutIsFinal` and the refinement of
  `Outbox` follow step by step.
- `WatchlistProofs`, from `WatchlistAssumption`. `OvershootBounded` counts rows
  *and* statements that saw room and have not inserted yet, which makes it
  inductive: admitting one more is possible only below the limit, with a free
  connection, and each admitted statement holds one (`Pool`). `FollowedOnce` needs
  that all rows are in canonical spelling (`Canonical`). `SoleReplyIsTrue` needs two
  parts for each goroutine: `Lone`, nobody else serves its chat as long as `alone`
  holds, so every step of another goroutine leaves its list as it is; and `Told`,
  what a statement has seen of the list (full, wallet present, wallets still to
  remove) holds until the reply. `ImplementsDatabase`: an insert is a `Follow` because
  the foreign key is tested when the row is written, however long ago the request
  began; a removal is an `Unfollow` of the stored spelling; all else stutters.
- `AlertPipelineProofs`, from `PipelineAssumption`, with four invariants on top of the
  types. `OnlySoundAlerts`: what the worker tested stays true of the trade it
  carries (`WorkersOK`). `AlertsJustified`: `Remembered` says that everything a cache,
  an unpublished query or a worker holds was once in the database, so staleness
  loses the date and not the fact. `AudienceIsExact`: a trade is in one place (feed,
  channel or one worker, `OnePlace`) and what was sent about it went to subscribers
  the loop has visited (`Unvisited`). `MetricsBalance`: each step moves a trade
  between the terms of the sums. The composition needs no theorem: tables and queue of
  the pipeline are instances of `Database` and `Outbox`, which `Watchlist`, `Settings`
  and `SendQueue` are proved to implement.
- `SettingsProofs`, from the assumptions of `Categories` and `Settings`. First, two
  facts about the pure operators: a tap flips exactly one mark, and every key does
  what the user expects, for any finite set of at least two categories and any list
  without unknown names. The inductive invariant has four parts besides the types.
  `WorldOK`: the row is well-formed, at or above the floors, that of a user, and says
  what `want` says. `Mine`, for each handler: what it carries from its read to its
  write is well-formed and above the floors whatever overlaps (`Good`), the marks it
  was tapped on are those of its selection (`SeenFits`), what it is about to write is
  the row with what the user is about to be told (`WriteFits`), and if another handler
  overlaps, nothing is sure. `Sole`: a handler that is `alone` is the only one.
  `KeyboardFits`: the current keyboard shows the pending selection, unless a handler
  is about to paint it. `ImplementsDatabase` needs that a row belongs to a user: a
  save that `/stop` overtook writes nothing.
- `ApiCacheProofs`, from `ApiCacheAssumption`. The age of an entry and what is left of
  its lifetime add up to at most the lifetime and one tick (`MetaKept`, `CountKept`,
  `StatsKept`), because a task sees at most one tick between a call and its write: so
  a value a worker uses is at most one lifetime and one tick old, and a shown one,
  which may hold a count read from another entry, at most both. That a count is real
  is claimed of the entry of a count and of the one a worker filters by, not of the one
  inside the statistics. A value that a
  deadline cut short is carried by tasks
  past their deadline only, whose writes are lost, so none is kept. Pages come with
  profits first: what was read never has more losses per win than the whole.
- `ClicksProofs`, from `ClicksAssumption`. A row never changes but for its clicks and
  belongs to a fill with its short id (`Owned`), so what a request reads, now or later,
  is about its own message. `EventsMatchClicks` counts the events that are still
  under way (`Pending`) besides those stored, which makes it inductive.
  `CountersNeverRunAhead` compares sums over rows, categories and link types;
  inductive is that the rows are ahead by at least the requests between row and
  counter (`RowsAhead`), and a category's clicks by those between counter and country
  (`ClicksAhead`), so that each step moves one request from one side to the other.
- `ReconnectProofs`, from `ReconnectAssumption`. `InTime` bounds, for each place of the
  loop, how long the server can have been up by then; each bound is the sum of the
  timeouts passed, and the largest is `Worst`. `BackoffFollowsHistory` needs that
  `Doubled` is well defined and that doubling a capped pause is capping the doubled
  one.
- `FoldTheorems`, from nothing. Induction and recursion theorems that quantify over an
  operator cannot be instantiated by the provers used here, so the lemmas say the same
  of *sets*: `NumberInduction` and `SubsetInduction` (a set that has the first element
  and is closed under the step has all), `NumberRecursion` (the sequence that starts
  with a value and iterates a function exists), `SumExists`, `SumUnfolds` and
  `SumOneMore` (the fold of the community modules over a finite domain is the sum,
  whatever order it takes, and raising one entry by one raises it by one).

Only model-checked: the liveness properties (`EnqueueReturns`, `QueuedIsHanded`,
`ShutdownCompletes`, `TradesAreFinished`, `CachesConverge`, `RequestsAreAnswered`),
which need reasoning about `ENABLED` that the proof system does not support, and the
three violations, whose witnesses are behaviours.

## Not modelled

- Which panel `settingsMsgs` remembers, and the close button, which deletes a panel:
  `ReplacePanel` may delete any panel or none.
- The pace of the sender (25 messages a second) and retries inside the libraries.
- The country of a click and its cache: a label that nothing depends on.
- A Redis that neither answers nor fails before the deadline, and connecting to it at
  start-up.
- The profit and loss figure of the statistics, a separate call whose result is only
  shown.
- Texts, layout, gauges and histograms, the HTTP endpoint, the configuration and the
  schema migration.
- The link shortener and `SendFollowAlert`, which nothing calls; the Mini App page,
  which is not in the repository (what it sends is an input of `Settings` and
  `Watchlist`). `click:` buttons are modelled, though the keyboards of this version no
  longer have them: they remain in older chats.
- The data race on the follow cache's first assignment (`follow_cache.go:20`), both of
  whose outcomes are an empty cache.

## Plan

Done, in this order: `SendQueue` with `Outbox` and its proofs; `Watchlist` with
proofs; `AlertPipeline` on top of `Outbox`; `Categories` and `Settings` with proofs;
`ApiCache`; `Clicks` and `Reconnect` with proofs; the pool shared with the rest of the
program; the proofs of the pipeline and of `SoleReplyIsTrue`; the proofs of `ApiCache`,
of `RowIsAsConfirmed` and `TapDoesWhatItSays`, of the sums of `Clicks` and the powers of
`Reconnect`; `Database` between `Watchlist`, `Settings` and `AlertPipeline`, with its
refinements; the panels of `Settings`. Left: an exact account of what a failed or
overlapping update of the settings can leave (`RowIsAsConfirmed` calls it unsure until
the next confirmation), and an abstract specification
of the category cache that the pipeline's `GetMeta` could be checked against.
