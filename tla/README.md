# Formal models of tradingsys

TLA+ models of the trading process in `src/`: what the code does when calls
overlap, connections break, processes die, tables are damaged and files change,
checked with TLC on small instances and, for the parts that matter most, proved
with TLAPS for every instance. `PROJECT.json` lists every run, the source lines
each definition translates, the hazards the properties are for, and a mutant of
the code that breaks each property.

The repository is the foundation of a trading system: there is no venue, no
strategy and no backfill yet. What it has is the ground those will stand on, and
that is what is modelled: an audit log nobody can quietly rewrite, a process that
starts and stops in order and answers for itself, market data that does not change
once it is history, the calendar and the carry of an instrument, the amounts of an
order and what a venue reports of it, and the configuration that decides whether
money is real. Where the code is made for a caller that does not exist yet (a
venue, a backfill, a consumer of a stream), the model has a plain one, marked
external, and the properties say what it may rely on.

## Inventory

| Component | Source | State | Operations | Interacts with |
|---|---|---|---|---|
| Audit log | `persistence/audit.py`, migration 0001 | the `audit_log` table | `append`, `head`, `count` | pool; advisory lock and constraints of PostgreSQL; called by the lifecycle |
| Audit verification | `persistence/audit.py`, `persistence/database.py` | none | `read`, `verify`, `verify_chain`, `entry_from_row` | the table, its JSONB codec |
| Process lifecycle | `app/runtime.py`, `__main__.py` | pool, redis client, `_started`, shutdown event, server task | `main`, `run`, `start`, `serve`, `stop`, signal handlers | every other part |
| Database pool | `persistence/database.py` | asyncpg pool | `connect`, `acquire`, `transaction`, `ping`, `close` | used by repositories, audit log, health |
| Repositories | `persistence/repositories.py` | tables of instruments, bars, ticks | `upsert`, `upsert_many`, `store_bars`, `store_ticks`, range queries, `latest_bar_start` | pool; row locks and the deadlock detector; a backfill |
| Trading schedule | `core/schedule.py` | none (value) | validation, `is_open`, `next_open`, `next_close`, the stored form | financing, instruments |
| Financing | `core/financing.py` | none (value) | `funding_events_between`, `rollover_events_between`, the stored form | schedule |
| Health and readiness | `observability/health.py`, `observability/server.py` | registered checks, the gauge | `evaluate`, checks under deadlines | pool, redis, HTTP server |
| Operational server, correlation | `observability/server.py`, `correlation.py` | a context variable per task | `/health`, `/ready`, `/metrics`, the middleware, `bind`, `clear`, `require` | health, metrics, whatever records an entry |
| Metrics and logging | `observability/metrics.py`, `logging.py` | counters and gauges | updates, redaction | all |
| Configuration | `config/` | files, environment, `ContextVar` | `load_settings`, sources, validators | lifecycle |
| Instruments and numbers | `core/instrument.py`, `money.py`, `numeric.py`, `rounding.py`, `currency.py` | none (values) | validation, rounding, conversion, margin | order requests, repositories |
| Venues | `venues/` | none (values); an abstract interface | `OrderRequest`, `validate_against`, capabilities, the constructors and queries of quote, book, order, fill, position, account | instruments, repositories |
| Clock, deployment | `core/clock.py`, `deploy/`, Alembic | none | | |

**What is hard here, and what makes each part correct**

* *Audit log.* Several coroutines and processes append. Each reads a head and
  inserts a row that must link to it; a commit may take effect though its answer
  is lost or a timeout strikes, or after the caller was told of a failure; a session
  may outlive its client and keep the lock. Correct: the committed rows are one
  unbroken, append-only chain; an answer is true for good; an error of `AuditEntry`
  or of PostgreSQL means that nothing was recorded, where a timeout, a cancellation
  and a broken connection mean nothing at all; every call ends.
* *Verification.* Rows may be lost, altered or rewritten and the log continued
  afterwards. Correct: no false alarm, a break reported at its first entry, a
  sound last row vouches for everything before it in the range, and what is
  stored can be read again.
* *Lifecycle.* Every await of start, serve and stop may raise, be interrupted or
  be the last thing the process does. Correct: what was opened is closed, in
  order, whatever failed; nothing is served that the log does not know of; the
  log brackets the runs.
* *Repositories.* Batches of upserts meet one another's row locks in the caller's
  order; a backfill is interrupted between two of them, while bars close and
  others write. Correct: batches are atomic, closed bars and ticks are final, no
  call waits for ever, and a backfill that resumes where the bars end leaves no gap.
* *Calendar and carry.* Sessions wrap round the week, holidays cut them, the clock
  changes, carry is asked for in pieces and by one process after another. Correct:
  open as declared, and every settlement and rollover charged once and only once.
* *Readiness.* Checks hang, dependencies come and go, evaluations overlap and the
  pool is exhausted. Correct: every request is answered, and "ready" was earned
  during that very request.
* *Configuration.* Four layers are read at different moments. Correct: real money
  only when two separate switches say so, secrets never from a committed file.
* *Operational server.* Contexts are copied from task to task, and an id bound
  without a scope stays. Correct: what belongs to one request or message is found
  under one id, and nothing else is.
* *Order entry and venues.* Fills come in pieces, orders are cancelled half way,
  positions grow and turn. Correct: what is brought onto the grid is never refused
  as off the grid or out of range; what is rounded down is never more than was
  wanted; no truthful report is refused; the fills add up to the position; an
  order to close never adds.

## Modules

`X.tla` models a component; `MCX.tla` gives its structured constants values for
TLC; `XProofs.tla` holds its theorems.

| Module | Models | State and actions |
|---|---|---|
| `AuditChain` | entries, hashes, links | Operators only. A hash is the tuple of what it is computed over, so equal hashes mean equal contents. The code joins the fields with a separator, and writes a missing instrument as an empty text and a missing payload as `{}`: a body stands for the joined text, so two calls that join to one text are one body here. |
| `AuditLog` | `AuditLog.append` against PostgreSQL | `Call`, then one action per await (`Begin`, `TakeLock` or a bypasser's `SkipLock`, `ReadHead`, `Insert`, `Commit`, `Return`; `Refuse` and `InsertFails` where they raise). At each, `Fault(w)`: `Fail` (an error of the server), `Interrupt` (a timeout or a cancellation, also once the commit took effect), `Disconnect` or `LoseAnswer`. A disconnected client's session lives on until its COMMIT is executed after all (`CommitLate`) or `Reap(w)` aborts it. |
| `AuditLedger` | what an append promises | `Call`, `Record` at most once, `Answer` or `Raise`. A call that raises with its COMMIT under way is left in doubt: `RecordLate` or `Forget` settles it, and until then no writer that takes the lock records. It is the abstract specification `AuditLog` refines, and the audit log of `Runtime`. |
| `AuditLogProofs` | | theorems about `AuditLog` |
| `AuditVerify` | `read`, `verify`, `verify_chain`, the JSONB round trip | `append`, and the ways a table is damaged: `Lose`, `Alter`, `Rewrite`. A row holds what JSONB keeps of its payload, and the hash of the payload itself. What is read is a set of rows; the entry before another is the one of the next lower sequence. |
| `AuditVerifyProofs` | | theorems about `AuditVerify` |
| `Runtime` | `main`, `run`, `start`, `serve`, `stop` | `pc` is the await the main task stands at. `Step` is its normal outcome, `DependencyFails` its exception; `Signal`, `Interrupt`, `Kill`, `ServerEnds`, `Restart` come from outside, and `Settle`: a COMMIT in doubt is executed or aborted, in the next life perhaps. |
| `RuntimeProofs` | | theorems about `Runtime` |
| `InOrder` | `sorted` and `ORDER BY` | a finite set of numbers as a sequence, each member at its rank: a definition that proofs can expand |
| `MarketRows` | the `ON CONFLICT` clauses and the range queries | operators |
| `MarketData` | the repositories' transactions | `Store` (the call), `Write` (one statement, waiting for row locks), `Commit`, `Return`, `LoseAnswer`, `Fail`, `DetectDeadlock`; a session whose connection broke (`Disconnect`) keeps its locks until `Reap`, or `CommitLate` executes the COMMIT it was sent. |
| `Backfill` | `latest_bar_start`, and `fetch_candles` of the test venue, over `MarketData` | `Resume`, `FetchPage`, `StorePage`, `NextPage`, `Abandon`; `PassTime` closes a bar, `StoreOther` is everyone else's call |
| `AtomicTables` | what a batch promises | one step per batch, which leaves of each row what `leaves` says in one formula: the abstract specification `MarketData` refines |
| `MarketDataProofs` | | theorems about `MarketData` and `Backfill` |
| `TradingSchedule` | `core/schedule.py` | operators on instants, on readings of a zone's clock, and on a week of sessions; the stored form |
| `Financing` | `core/financing.py` | `Charge`: a caller asks for the carry from where it stopped last; `Reload`: it starts again with the instrument as it is stored |
| `FinancingProofs` | | theorems about `TradingSchedule` and `Financing` |
| `Readiness` | `HealthRegistry.evaluate` over the pool | an evaluation per request, a probe per check with its `Deadline`, dependencies that `Change`, other users that `Borrow` |
| `OperationalServer` | `server.py`, `correlation.py` over `Readiness` | `Receive` (the middleware), `StartChecks`, `Respond`, `Raise`; `Take`, `Record` of each decision and `Done` of a stream's messages. `context` is the context variable, one value per task. |
| `ServerProofs` | | theorems about `Readiness` and `OperationalServer` |
| `Configuration` | `SettingsContext`, `TomlLayeredSource`, `SecretsDirSource`, validators | one action per read of a layer, `Validate`, `Restart`; `Edit`, `Copy` and `Damage` of files in between |
| `ConfigurationProofs` | | theorems about `Configuration` |
| `Instrument` | `core/instrument.py` | operators; a decimal is a number of smallest units, a quotient a fraction |
| `OrderEntry` | an order from the definition of its instrument to validation | `Define`, `Price`, `Size`, `Request`, `Offer`, `Validate` |
| `OrderEntryProofs` | | theorems about `Instrument`, `OrderEntry` and `Venue` |
| `VenueModels` | `venues/models.py`, `venues/enums.py` | operators: which values the constructors accept, and what is derived of them |
| `Venue` | an order after `OrderEntry` | the venue's `Submit`, `Fill`, `End`; the caller's `Repeat` and `Close` |

`Runtime` is built on `AuditLedger`, which `AuditLog` is shown to implement, so
the lifecycle is checked against a promise that the detailed log keeps.
`Financing` is built on `TradingSchedule`, `OrderEntry` on `Instrument`; `Venue`
goes on where `OrderEntry` ends, with its variables and actions. `Backfill` runs
over `MarketData` whole: its pages are `Store` calls like any other, and its
fetches read the venue's side of `VenueModels`. `OperationalServer` extends
`Readiness`, whose evaluations are its requests to `/ready`; the pool is shared
with other statements, modelled as anonymous borrowers.

## Runs

| Run | Bounds | States | What it shows |
|---|---|---|---|
| `audit_log` | 3 writers (1 bypasses the lock), 3 calls (1 with arguments `AuditEntry` refuses), pool of 2 | 33,064 | Chain unbroken and append-only, answers true, no decision twice, lock holders never collide with each other, an error of the server means that nothing is recorded, refinement of the ledger, every call ends |
| `audit_verify` | 4 rows, 3 damages | 22,165 | No false alarm; a sound last row vouches; the break named is the first |
| `audit_verify_prefix` | 3 rows, 1 damage | | finding: a missing prefix is not noticed |
| `audit_verify_payload` | 3 rows, no damage | | finding: payloads that can be stored and never read again |
| `runtime` | 3 lives | 8,955 | Closing, draining, recording and bracketing; a signal ends the run |
| `runtime_lost_start` | 1 life | | finding: a start without its stop |
| `market_data` | 2 writers, one of them the backfiller; 3 calls; 2 instants; batches that repeat, reverse and share keys; pages of 1 bar; 1 bar closes meanwhile | 338,918 | History final, batches atomic, answers true, every call ends, a finished backfill leaves no gap |
| `financing` | days of 8 ticks, 2 ticks a second; 8 days from the start of the third week; steps of 1, 5 and 16 ticks; starts on and off a day's edge; every session shape alone and beside another, four sets of holidays; a fixed zone and five that change by two ticks forward or back, about noon or midnight of the Sunday | 62,992 | Open as declared, one session at a time, next open and close, each rollover once, each settlement once, seven nights a week |
| `financing_first_open` | same, one start and step | | finding: `next_open` misses a session resumed after a holiday |
| `operations` | 2 requests to `/health` or `/ready`, pool of 1, 1 other borrower, 1 change of a dependency, 2 messages of up to 2 decisions, 1 id from outside | 685,550 | Ready is earned; every request is answered; no trace is shared |
| `configuration` | developer's machine and armed production host, 3 edits, copies or losses | 271,494 | Live trading is deliberate; secrets come from outside |
| `order_entry` | every valid and invalid definition from a small product, budget 13, leverages 1 and 3, asked prices on and off the grid, attached to orders as well, on and off it and not positive; 2 orders at the venue, 4 order books, accounts with and without equity | 5,379,188 | Sized orders are valid; rounding down stays within budget; reports are accepted; the ledger is the position; closing reduces |

**Why the bounds are enough.** A fork of the chain takes two writers; the third
makes a queue for the lock behind a bypasser and exhausts a pool of two. Every
failure of an append leaves at most one lingering session per writer, so three
calls are enough for one of each outcome after another, and for a straggler whose
COMMIT comes late between a bypasser's row and a lock holder's. A damage that hides
another takes two, a third changes a row next to them, and four rows leave one
untouched on either side. Runs of the process meet only through the log: three
lives have a first, a last and one between. Deadlock takes two writers and two
rows. Eight days hold a whole week from either start, and start two weeks after the
epoch of the model, so that sessions opened in the week before are found. A change
of the clock by two ticks of eight leaves readings on either side of what it skips
or repeats. A gap takes two bars, one that is missing and one behind it; pages of
one bar and an interruption leave every bar once in between. One id from outside
and one of each task's own are enough to tell a shared one, two decisions on a
message to tell whether they share theirs; a pool of one is
exhausted by one borrower. Two orders are the least that build a position and
close it, or turn one that a partial fill left. The theorems have no bounds.

**What the properties except.** `RaisedMeansNotRecorded` speaks of the errors that
answer a statement. After a timeout, a cancellation or a broken connection the row
may be in the table, or may come; the model has all of that, and no caller that
repeats such a call, because the code has none. `EachSettlementOnce` has
the settlements where the docstring of `funding_anchor` has them, at the anchor and
whole intervals from it, if the anchor is on a whole second; from any other anchor it
says by how much they come early, because the code cuts it (see Findings).
`BackfillLeavesNoGap` leaves out a backfill that
resumed while a bar before the newest was missing or incomplete, and another
writer had stored bars: a live feed that begins past the end of history makes
`latest_bar_start` resume beyond the gap, so whoever writes the backfill has to
finish it before the feed begins. It also rests on the default
`include_incomplete=False`: with pages that end in a bar that forms, an
interrupted loop can leave it incomplete behind its resume point. The venue of the
model has a bar for every instant; one that was closed has real gaps, which are
then nobody's fault. A page stored twice is not told from one stored once: a store
changes nothing it finds. `Undisturbed` leaves out of `IsOpenAsDeclared` and
`OneSessionAtATime` the instants about a change of the clock for a schedule with a
session that begins or ends at a reading that is skipped or repeated: what such a
session means is a matter of convention. Rollovers at such readings are counted:
they happen once. A rollover in the time that is skipped, or a midnight in the
middle of it, is not instantiated. Nor is a clock that is put back across midnight,
so that a day begins, ends and begins again, nor one session's end just behind
another's in skipped time: `NextOpenIsOpen` and `NextCloseEndsTrading` are claimed for
the other schedules only (see under *Findings*). `ClosingReduces` allows that a
position has no valid order to close it, when a partial fill has left less than the
minimum, or several orders more than the maximum: the model then is `stuck`, as a
caller of `closing_side` would be.

**Deadlock.** `CHECK_DEADLOCK FALSE` is set where a bounded model comes to its
end: all calls made, all lives lived, the horizon reached, the requests answered,
the order filled or refused. Waiting for ever is covered by the liveness properties. `configuration`
never stops and keeps the check.

**Fairness.**

* `AuditLog`: strong fairness of each writer's statement, because the pool and
  PostgreSQL's lock queue are first in, first out: a waiter that is enabled again
  and again is served. Weak fairness of `Reap`: the server's keepalive ends the
  session of a client that is gone, unless its COMMIT has. No call has to be made, and no failure has to
  happen.
* `Runtime`: weak fairness of the main task's step, because each await has a
  timeout or a peer that answers or fails, and of the server's end once it was
  told to drain: it cancels what outlives the grace period. Dependencies that
  never answer are what the pool's own timeouts turn into failures.
* `MarketData` and `Backfill`: weak fairness of each writer's statements and of
  `Reap`, as in `AuditLog`, and of PostgreSQL's deadlock detector. Two writers queue for a row without overtaking.
  The backfill itself may stop anywhere.
* `OperationalServer`: weak fairness of a request's own steps, which the event
  loop runs, and of the deadlines, which its timer ends. None for checks,
  borrowers or dependencies: a silent dependency may stay silent and an exhausted
  pool exhausted. No request has to come.

The other specifications have no liveness property and need no fairness.

## What is proved

All proofs are checked by TLAPS from the constants' named assumptions alone, which
TLC evaluates on the instances of the runs. Each module of theorems has an
invariant that is inductive (`IInv`, in `OrderEntryProofs` also `TradeInv`, in
`FinancingProofs` also `AsStored`, `SInv` and `RInv`, in `MarketDataProofs` also
`BInv`); its theorem is `Invariance` or ends so, `AsStored`'s is `ReadBack`, and the properties follow from it.

`AuditLogProofs`, for every set of writers, of bypassers and of refused calls,
every pool size and number of calls:

* `TypeCorrect`, `ChainIsUnbroken`, `StoredIsRecorded`, `RaisedIsNotRecorded`,
  `EachDecisionOnce`, `LockKeepsApart` (invariants), `LogIsAppendOnly` (an action
  property) and `Refinement` (the detailed log implements the ledger).
* The chain invariant is not inductive: it says nothing about transactions under
  way. `IInv` adds what they hold: committed sequences are exactly `1..n`, a head
  that was read was a row, an uncommitted row follows a committed one and
  collides with no other, because the unique constraints make an insert wait. A
  commit then extends the chain by one.
* `BodyInv` relates each call to the rows that carry its decision, and keeps a call
  that raised a definite error from ever having a row; from it follow the theorems
  about answers and the refinement, whose mapping reads the ledger off the committed
  rows and a call's phase off its session: one that is orphaned with its row inserted
  is in doubt.
* `LockInv` says what a lock holder knows: its head is the newest row unless a
  bypasser has inserted since. Only then can it collide.

`AuditVerifyProofs`, for every set of payloads, any number of rows and any damage:

* `HashVouchesForRange` (`LastRowVouches`), `BreakIsTheFirst` (`BrokenAtIsFirst`)
  and `UndamagedVerifies` (`NoFalseAlarm` and `StoredReadsBack`). The last has a
  hypothesis: no payload holds a float that `canonical_json` renders with an
  exponent, a minus zero, or a dictionary keyed by numbers (`Unstable`). Without it
  both are false, which is the finding of `audit_verify_payload`.
* Damage leaves little of a table to rely on: its key, and that a body is what
  JSONB can hold. `IInv` keeps the other half of the argument apart, in the rows that were
  written before any damage: each carries the hash of its contents and links to
  another such row. Where verify finds no break, the highest row that append did
  not write would have a written row above it that links to it; equal hashes then
  make it the written row that one was appended to (`HashVouches`).

`RuntimeProofs`, for any number of launches: `TypeCorrect`, `ClosesAreAttempted`,
`DrainsBeforeClose`, `ServesRecorded`, `LogTellsRunsApart` and
`CleanRunIsRecorded`, each the property of a similar name. Every one speaks of what
an earlier step did; `IInv` remembers it by the await the main task stands at:
what is open, started and attempted there (`Control`), which entry a call may be
open for (`Calling`), and what the log holds of this run and of none later
(`Logged`).

`MarketDataProofs`, for any writers, instants and batches:

* `HistoryKept` (`HistoryIsFinal`, an action property), `AnswersAreStored`
  (`ReturnedIsStored`), `TypeCorrect`, and `Refinement`: statement by statement
  under row locks, a batch has the effect it would have at once, whether its caller
  still waits for it or not.
* The core of `IInv` is `Progress`: what a transaction sees of a row is what its
  statements so far leave of what is committed there *now*. It survives the
  commits of others because a written row is locked, and a tick that was met is
  final. At the commit, all the statements together are what `AtomicTables`
  promises. For that, `leaves` states the effect of any number of upserts of one
  row without recursion, and `LeftNext` shows that one more upsert is one step of it.
* `BackfillIsOrdinary`: a backfill beside other writers is a behaviour of the
  repositories. So the theorems hold of `BackfillSpec` (`BackfillKeepsTables`),
  which is what the run checks.
* `NoGapIsLeft` (`BackfillLeavesNoGap`), for pages and series of any length. The
  property speaks of a job that is done; `BInv` says what it knows on the way. Up
  to the start of its next page every bar is closed, unless it resumed past one
  that was missing (`Filled`); the page it fetched leaves out none between its ends
  (`IsPage`, `PageFetched`), and its answer means that all of them are stored
  (`Committed`); while no other caller has stored bars there is no gap to resume
  past (`Alone`), because every open transaction on bars, of a job that was given up
  as well, holds a page that continues what is closed (`Continues`). That a query then returns just one
  bar for an instant is division by the width of a bar (`OneBarEach`).

`FinancingProofs`, for every length of a day and a second, any instruments, starts
and steps:

* `SettlesOnce` (`EachSettlementOnce`). `IInv` says that the charges are exactly
  the settlements numbered from those due by the start to those due by the end of the latest
  call (`Settled`); the number due by an instant is a quotient (`settled_by`), and
  `DueBy` shows that it counts them. Calls then join (`SettledJoin`), and reading the
  instrument back changes nothing.
* `ReadBack`: the instrument in use is always one that was declared, whole: its
  sessions in their order, each time of day from its text, every holiday once from a
  list in order, the optional fields of the carry present or absent as they were
  (`AsStored`; `ScheduleReadBack`, `FinancingReadBack`). The theorems below rest on
  it, because `Reload` may come between any two charges.
* `SessionsApart` (`OneSessionAtATime`) and `OpenAsDeclared` (`IsOpenAsDeclared`),
  for every accepted schedule and any change of the clock, however large. Away from
  the change, a reading has come just when its instant has (`ClockOrder`), so
  occurrences can be compared on the clock. There a session's occurrences
  lie whole weeks apart (`InWeeks`) and it lasts no more than a week
  (`SessionShape`): one that runs opened within the days looked at, and two that
  run at once overlap in the week (`MeetingOverlaps`), which the constructor
  refuses.
* `OpensWhenItSays` (`NextOpenIsOpen`) and `TradesUntilItSays`
  (`NextCloseEndsTrading`), for every accepted schedule that is `Quiet`. What is
  looked at three weeks ahead holds the first beginning and the first stop there
  are; between an instant and the first stop after it the same occurrence runs and
  the day is no holiday, so the market stays open.
* `RollsOnce` (`EachRolloverOnce`). Each day has one moment of its rollover, and the
  moments come in the order of the days (`MomentsInOrder`): the days looked at are
  those between the two instants and one more, so what is charged between two
  instants is in one-to-one order with the days whose moment lies between
  (`RolloverDays`). `RInv` says that the charges are those days' from the start
  on; a call joins its own to them (`InOrderJoin`).
* `SevenNightsAWeek` (`AWeekIsSevenNights`), for any number of weeks. A day and the
  one seven later trade alike and weigh alike (`SameDaysEachWeek`), so the nights of
  k weeks are k copies of the first week's, counted as a set of pairs and not by a
  sum: cardinalities need no induction.

`ServerProofs`, for any number of requests, other users of the pool and
connections: `ReadyWasEarned` (`ReadyIsEarned`), `TracesApart`
(`NoTraceIsShared`) and `TypeCorrect`, by which the connections that are lent are
never more than the pool has. A step of the server is one of the readiness registry or leaves it
alone; `Earned` relates each evaluation's answers to what was up while it ran, and
`Traced` each task's context to the request or message it was copied for.

`ConfigurationProofs`, for every deployment, whatever its layers hold and however
they are edited between the reads: `LiveWasDeliberate` (`LiveIsDeliberate`) and
`SecretsFromOutside` (`SecretsComeFromOutside`). `IInv` holds at every read: the
environment variable has settled which file is layered on the base, no file read
so far sets a secret, and what was loaded is what was read and is valid.

`OrderEntryProofs`, for every definition of an instrument, amount, leverage,
rounding mode and order book:

* `SizedIsValid` and `DownFitsBudget`, the first for every price that an order names,
  those of its attached orders included. Both rest on `StepsBetween`: no whole
  number of steps lies between a number and what it is rounded to. The minimum and
  the maximum are whole numbers of steps, because `__post_init__` insists, so
  rounding cannot cross them; without that check the maximum could be crossed, and
  the mutant of `IsLimited` shows it. `IInv` carries this from `Define` to
  `Validate`.
* `LedgerFollowsPosition` (`LedgerIsPosition`), `ReportsFit`
  (`ReportsAreAccepted`) and `CloseReduces` (`ClosingReduces`), through any number
  of orders, partial fills, reductions and turns, and `SizingSurvivesTrading`: the
  two above with a venue behind. `TradeInv` holds that the order, its fills
  and the exposure stay on the grid of quantities, which is what makes an order for a
  position's whole quantity one that the instrument accepts.

**What the proofs assume.** `PayloadsAssumption` and the like give the constants
their types. Those with more to them: distinct writers have distinct names, a
request is not a statement of another user of the pool, nor the stream's consumer
(`PoolAssumption`, `ServerAssumption`); the items of a batch are for one table
(`BatchesAssumption`); a definition and a book have whole numbers
(`DefinitionsAssumption`, `VenuesAssumption`); an optional field holds at most
one value, a session's days are days of the week (`InstrumentsAssumption`);
funding intervals are whole seconds (`IntervalAssumption`); the series that is
backfilled has a bar at every width (`BackfillAssumption`). None says that a value
is valid: which are is decided by the constructors of the code.

Three theorems about the schedule and the rollovers have a hypothesis on the
schedule in use, stated in the theorem and not assumed of the constants. Each is
about how the clock changes; a zone that never changes meets all of them.

* `Quiet`: the readings that the change skips or repeats are of one day, a change
  forward is by less than a day, and no session begins or ends at a reading that is
  skipped. Where a clock goes back across midnight both properties are false (see
  *Findings*). The instant that stands for a skipped reading comes later than those
  of the readings after it, so a session that opens at a skipped reading and closes
  when the clock is through never runs, though `next_open` names it; and one that
  closes there hides from `next_close` a holiday that begins just after the change.
  TLC shows both on instances made for it. Of the 426 accepted schedules of the run
  393 are `Quiet`, 232 of them in zones that change; the others have a session's
  end at the skipped noon or midnight of a Sunday, but nothing behind it that close.
* `RolloversShown`: no rollover is at a reading that is skipped. The code charges
  one there at the instant that stands for it, which the property, that reads the
  clock, does not count. Every instrument of the run with rollovers is so.
* `WholeWeeks`: the start and the end of the weeks are the first instants at which
  the clock shows what it shows there, and it shows the end of the first week. A
  week that begins in the second pass of a repeated hour is an hour short.

**Only model-checked.**

* Liveness: fairness and ENABLED are beyond the prover.
* The four properties of the schedule and the rollovers where the clock is not
  `Quiet`, or a week does not begin where `WholeWeeks` says: the run has such
  instruments and starts, and finds no violation on its instance.
* The findings' own properties: they are violated.

Two things about the prover shaped the models. Induction over data is out of its
reach, but that a set of numbers has a least is not: it follows from the
well-foundedness of `<` (`NatMin`), and replaces induction where the last, the
first or the highest is all that is needed. So do the cardinalities of finite
sets: `InOrder` sorts a set by how many of its members lie below each, and the nights
of a week are counted as pairs, where a sort or a sum over a sequence would be an
induction. And it cannot expand `:>` and `@@`,
so `MarketRows` has `over` for a row written over a function.

## Findings

1. `AuditLog.verify` says that verifying from the beginning proves the whole log;
   it does not check that the first entry is the first (`audit_verify_prefix`).
2. A float of 1e16 or more, a minus zero or a dictionary keyed by numbers in a
   payload is hashed in one form and read back in another, so its entry fails its
   own hash for good (`audit_verify_payload`).
3. The startup entry whose commit takes effect without an answer, or after `start`
   raised, has no matching shutdown entry (`runtime_lost_start`).
4. `next_open` during a holiday skips the rest of a session that resumes after it
   (`financing_first_open`).

Seen and not given a run:

* A `funding_anchor` at a fraction of a second is accepted and cut to a whole one
  (`financing.py:191`), so that every settlement comes early by the fraction, also the
  one that the docstring (`financing.py:90-92`) says is known to occur at the anchor.
  The run `financing` has such anchors, and `EachSettlementOnce` states the fraction.
* An unknown environment name, or a file that is not UTF-8, raises `ValueError`, and
  a secrets directory that may not be listed `OSError`, and not the
  `ConfigurationError` the loader's docstring promises, so the process ends
  with a traceback instead of exit code 78. A test expects the `ValueError`;
  `Configuration` and `Runtime` both have the outcome.
* A funding interval that divides the day but is no whole number of seconds is
  accepted, expanded as if its fraction were not there, and stored without it; one
  below a second divides by zero when it is expanded, and its stored form, of zero
  seconds, is refused by the constructor. No venue settles so often;
  `IntervalAssumption` of `Financing` says so.
* The middleware's docstring says that every response carries the id. One to a
  request whose handler raised is sent outside of the middleware and does not
  (`Raise` of `OperationalServer`); no handler is known to raise.
* Where a clock is put back across midnight (St John's changed at 00:01 until 2011), a
  day begins, ends for a while and begins again. `next_close`, asked in between,
  has a holiday that begins behind it already, and answers with the end of the
  session although trading stops at the second midnight; `next_open` of a venue
  that always trades takes the first midnight for passed, and answers with an
  instant that is still the holiday. TLC finds the first with a change at tick 161
  by -2. No zone of today changes so.
* Of a session that opens in the hour which daylight saving time skips and closes at
  the end of it, `next_open` says that it begins; it never does. And `next_close` of
  a session that ends in that hour does not see a holiday that begins at the end of
  it. No venue has such sessions: the hour is on a Sunday, before its markets open.
* An `Order` whose `updated_at` precedes its `created_at` is refused, so a venue
  that stamps the two by different clocks would be. The models have no clock.
* `FundingRate.charge_on` is positive where a long pays, `SwapRates.charge` negative
  where the holder pays. Nothing adds them up yet.

## Not modelled, and why

* *`running()`* (only tests use it), *two concurrent `connect` calls* (start is
  called once), *a liveness registry* (none is ever supplied), *`register` after
  start*.
* *Metrics and logging*: nothing else depends on them, but for the readiness gauge,
  which is modelled.
* *The venue interface*: `base.py` has abstract methods and prose, and no venue
  implements it. What the prose asks of a venue (an idempotent `place_order`,
  reconnecting streams) is not in any code to translate; the test doubles refuse to
  trade. The constructors and queries it exchanges are modelled.
* *Carry amounts, candle prices, timestamps and currencies* of the venue's values:
  no control depends on them.
* *Malformed stored forms*: what is read back was stored by the same code.
* *A zone with several changes*: the horizon is eight days. Datetimes with
  `fold = 1` are not built by the code.
* *The 34 digits of the decimal context*: decimals are exact in the models.
* *The currency registry, pips, case of environment names, the report of a
  configuration error, field types of the settings.*
* *Two sessions of one caller* on market data: while a session of its lingers, its
  next call waits. The calls of the other writers meet it.
* *Foreign keys* between bars and instruments, and column contents beyond what
  the properties tell apart.

## Plan

1. Narrow `Quiet`: an end at a skipped reading does harm only with another end, or
   a midnight, right behind the change, and only about that day.
2. Extend the models as the code grows: a venue adapter with its streams and
   `place_order`, the backfill that is external here, carry amounts once something
   adds them up; `running()` and interrupts in it.
3. Replace the shallower properties as deeper ones are found; a run for the
   configuration error that escapes, if one is freed.
