# Bientôt in TLA+

Specifications of Bientôt, a small monitoring system: an **agent** on each
machine collects metrics every 30 s and pushes them, signed, over mutual TLS to
one **dashboard**, which stores them in SQLite and shows them as web pages.
This directory holds TLA+ modules translated from the Go and JavaScript code,
TLC configurations that check them on small instances, and proofs checked by
TLAPS. `PROJECT.json` maps each definition to the lines it stands for.

## 1. Inventory

| Part | Source | State it keeps | Operations |
|---|---|---|---|
| nonce cache | `internal/dashboard/nonce/cache.go` | map nonce → time, under a mutex | `CheckAndAdd`, `Evict`/`evictOnce` |
| mTLS server | `internal/dashboard/server.go` | keys and cache of one lifetime | `handlePush`, `handlePing`, `Run` |
| storage | `internal/dashboard/storage/` | SQLite tables `pushes`, `metrics`, `agents`; one connection | `Open`, `Close`, `SavePush`, five queries |
| dashboard process | `cmd/dashboard/main.go` | two servers, an errgroup, one context | start, signal, failure, shutdown |
| agent | `internal/agent/`, `cmd/agent/` | ticker, active modules | `pushLoop`, `doPush`, `Client.Push` |
| collectors | `internal/modules/`, `internal/shared/promparse/` | none | `Detect`, `Collect`, `Extract`, `Parse` |
| API | `internal/dashboard/api/` | none | agents, latest metrics, metric points, health |
| pages | `internal/dashboard/web/` | parsed templates | home, overview (KPI and module cards, sidebar) |
| charts | `web/static/js/overview.js` | range, two charts, fetches under way | click, resize, render |
| identity | `internal/shared/{keys,mtls,crypto}`, `internal/config` | files read at start | load, sign, verify |

How they interact. The agent's loop calls each module in turn, then
`Client.Push`, which stamps, signs and posts. `net/http` runs `handlePush` in a
goroutine per request; handlers share the nonce cache (mutex), a goroutine that
evicts from it, and the storage (a `sql.DB` of one connection). The page and API
handlers read the same storage from a second HTTP server of the same process.
The browser fetches series from the API and draws them. A page is put together
from several queries, each on its own, while pushes commit.

What is hard here: three clock readings, taken by goroutines that may stall
between them, must together close the replay window; the network may lose, delay
and repeat; the process may die between two SQL statements; a restart forgets
the cache but not the database; one connection is shared by everybody; two
servers must stop together and close the storage last; one deadline covers a
whole collect-and-push; a page reads the clock and four queries one after the
other; the agent's clock and the server's disagree on every timestamp; a browser
page starts fetches it never cancels. The list
with its lines is under `hazards` in `PROJECT.json`.

What makes each part correct:

- *cache*: a nonce is refused for its whole window and not longer, and forgotten soon after;
- *ingestion*: a push is stored and acknowledged at most once, never acknowledged unless stored, only from whom it claims to come from; every request is answered;
- *storage*: the tables agree with each other after any failure;
- *process*: all or nothing runs, and it stops cleanly;
- *agent*: nothing ends the loop or keeps a live agent from being seen;
- *collectors*: a scrape is read as it was written and reported whole, or not at all;
- *pages and API*: their parts agree with each other and with what was saved, as far as clocks and waits allow, and links lead somewhere;
- *charts*: what is shown is what was selected, or an error; every sample of the window is drawn at its own time.

## 2. The modules

| Module | Stands for | State ↔ code |
|---|---|---|
| `NonceTable` | what each critical section does to `Cache.seen` | operators `Put`, `Rejects`, `Evicted` |
| `ReplayWindow` | *abstract*: the promise of `CheckAndAdd` | when each nonce was last declared fresh |
| `NonceCache` | `cache.go` with its callers and its evictor | `call`, `evictor`: a goroutine that has read the clock and not yet the mutex; `nextTick`: the ticker |
| `PushLog` | *abstract*: what ingestion promises | an append-only log without repetition, acknowledgements |
| `PushIngest` | `handlePush` and `SavePush` | `pc`, `req`, `at`, `code`: a handler's position, request, last clock reading and status; `conn`, `work`: the transaction on the connection; `db`: committed rows; `seen`: the cache |
| `Lifecycle` | `main` and `Server.Run` | one variable per goroutine, `storage` for the handle, one state per request |
| `AgentLoop` | `Build`, `New`, `Run`, `pushLoop`, `doPush` and the status rule | `setup`: the configuration; `active`: the places, in the configuration, of `Agent.modules`; `left`: those that `doPush` has still to collect; `tick`: the ticker's one-slot channel; `elapsed`: time in the current `doPush`; `age`: time since the last accepted push; `well`, `carried`: how long a module has worked, and whose data the last accepted push carried |
| `Scrape` | one `Collect` of the system module, `promparse` and `Extract` | `facts`: what the exporter measures; `samples`, `data`: what `Parse` and `Extract` have made of it |
| `DashboardReads` | home, overview page, agents and latest-metrics endpoints, the queries of `queries.go` | `log`, `agents`: committed rows; `saving`: handlers between `receivedAt` and their transaction; `req`: the request served, its steps to come and what it has read |
| `MetricPoints` | the metric-points endpoint, `GetMetricPoints`, `pointsToUPlotData` | `pushes`: saved samples; `query`: the parameters; `fetch`: one request per curve, its window and its points |
| `Charts` | the rounds of `overview.js` and the limit of `metric_points.go` | `waiting`: fetches of each round's `Promise.all`; `charts`: the reference; `alive`: what is in the DOM |
| `MC*` | instances for TLC | values of the constants, symmetry |
| `PushIngestProofs`, `NonceCacheProofs`, `LifecycleProofs`, `AgentLoopProofs`, `ScrapeProofs`, `ChartsProofs`, `DashboardReadsProofs`, `MetricPointsProofs` | theorems on these modules | |

`PushIngest` composes the operators of `NonceTable` with the handler and the
database; `NonceCache` checks the same operators under the cache's own
concurrency. `NonceCache` implements `ReplayWindow`, and `PushIngest` implements
`PushLog`, each by an `INSTANCE` whose specification is a PROPERTY of a run.

Choices a reader should know:

- **Where a step ends.** A handler's step ends where another goroutine can come
  in between with an effect: at a clock reading, a mutex, the wait for the
  connection, each SQL statement, the answer. `Receive` covers all checks up to
  the signature, since they read only the request, the constants and one clock
  value.
- **Time.** `now` is an integer clock. The code assumes that a goroutine does
  not sleep for ever between reading the clock and using the value; `Stall`
  bounds that wait, by not letting `Tick` pass it. The server's clock does not
  step back.
- **Who may have been sent what.** `sent` only grows and any handler may receive
  any element at any time: loss, delay, reordering and duplication at once.
  Refused requests are `Receive` steps that answer at once.
- **Requests refused early.** A method other than POST (405) changes nothing and is left
  out; a body that cannot be read is a 400 of `Receive`, at any time, and the wait for it
  comes before everything the handler shares with others. `Commit` may be followed by
  200 or 500: the answer itself may fail to be marshalled (`server.go:225-230`).
- **Requests and shutdown.** A request may still begin on a connection accepted before
  `Shutdown`, until its server has drained (`PushArrives`, `PageArrives`).
- **An oversized body** is cut by the `LimitReader`. What remains may fail to
  decode (400) or decode without its last field, the signature (401 or 403): any
  of the three.
- **Restart** empties everything in memory and keeps `db`. It may happen between
  any two steps, also between `Commit` and `Reply`.
- **Statements** write to `work`, a copy of the database that `Commit` makes
  current and `Abort` discards. A cancelled context makes `database/sql` roll
  back and the next statement fail: `SaveFails`.
- **Stopwatches.** `AgentLoop` measures time by stopwatches that stop at the
  highest value any rule distinguishes, so its runs have no end and liveness is
  about infinite behaviours.
- **One request at a time** in `DashboardReads`: requests share no state and
  write none, so only pushes can come between their queries; while an answer is
  shown nothing else happens, for it changes no more.
- **A line of the exporter** is a sequence of tokens in `Scrape`: the marks the
  parser looks at one by one, and words for what stands between them. Numbers
  are natural and exact; a number that does not parse is a token outside of
  `Number`. Any set of tokens, of machines and of label values will do
  (`TokenAssumption`, `MachineAssumption`, `ValueAssumption`), a comment is any line that
  is blank or begins with `#`, and a damaged line is any that lacks a number, the
  end of its labels, something after them, or a pair of quotes (`Damaged`). A line
  that is damaged into another good one cannot be noticed, and is left out.
- **Three clocks.** `Skew` bounds the agent's clock against the server's when a
  push is checked, `Delay` the way from a module's `Collect` to `receivedAt`,
  `Stall` a goroutine's wait.
- **In `MetricPoints`** a unit of time is a nanosecond, a millisecond has `Milli`
  of them, and an int64 goes to `Half - 1` and wraps where the code converts.
  `AgentExists` and the query of the points are one step: agents only appear.
- **History variables** (`lastFresh`, `passed`, `acked`, `last`, `fault`, `well`, `carried`, and the fields `since`, `asked`, `committed`) are read by
  properties only.

## 3. The runs

Run one with `tlc -workers 2 -config <cfg> <module>`.

| Run | Question | Bounds |
|---|---|---|
| `nonce_cache` (`MCNonceCache.cfg`) | Does the cache keep the promise of `ReplayWindow` (`KeepsReplayWindow`), and does it stay small (`ResidencyBounded`)? | 2 nonces, 2 callers, TTL 4, period 2, stall 1, clock to 11: a nonce can be recorded, expire, be evicted and recorded again, twice over |
| `push_replay` (`MCPushReplay.cfg`) | Who leaves a trace (`OnlyVouched`), and can one push pass the cache twice in a lifetime (`NoSecondPass`)? | one unit = one minute, skew 1 and TTL 5 as in the code; 7 installations: one good and ahead by the whole skew, and one each with a wrong certificate, key, machine, size, version, clock; 1 nonce, 3 handlers, clock to 7 > TTL + skew |
| `push_store` (`MCPushStore.cfg`) | Do the tables agree (`TablesAgree`), is it a log (`ImplementsPushLog`), is everybody answered (`EveryRequestAnswered`)? | 2 agents, 2 handlers, 2 nonces; clock to 1, for the three properties depend on order and not on durations |
| `lifecycle` (`MCLifecycle.cfg`) | `PagesServedToTheEnd`, `StopsTogether` | 2 requests to each server |
| `agent_loop` (`MCAgentLoop.cfg`) | `HealthyShownOnline`, `RecoveredModulePushed`, `FreeAtTick`, `KeepsTrying` | unit 5 s: interval 30 s, timeout 10 s, latency 5 s; the two modules of the repository, configured in every way. The threshold is 35 s, far below the default 120 s: it is the lowest that holds (30 s fails). A recovered module is carried after an interval and a latency, and not before |
| `scrape` (`MCScrape.cfg`) | Is a scrape read as written (`ReadsEveryLine`), reported whole or not at all (`WholeOrNothing`), and true of the machine (`ReportsTheMachine`)? | up to 2 cores and 2 filesystems, a second one at `/`, marks inside a label value; boot time before and after the clock; every style of a line, comments, damaged lines, a cut body |
| `dashboard_reads` (`MCDashboardReads.cfg`) | What may a page show? (`BoundedStaleness`, `PartsAgree`, `OnePushPerCard`, `AgeHonest`, `LinksHold`, `NeverGoesBack`) | 2 handlers, 2 machines, 2 pushes that carry all metrics or none, clocks at both ends of the skew; skew, stall and delay 1, threshold 2, clock to 4: every request can be overtaken by a push, and every push by another |
| `metric_points` (`MCMetricPoints.cfg`) | Is an answer true of its window (`WindowHonoured`, `WindowsJoin`, `KeptBackBySkewOnly`), and the chart of its answers (`ChartIsFaithful`, `NewestOfMillisecond`)? | 2 curves, 3 pushes, one over the limit of 2 points, whose samples are ahead by the whole skew or behind by skew and delay (1 each); clock from 2 to 5 and a default range of 4, so that samples stand on both sides of each bound of the window; 2 ns to a millisecond, integers of 5 bits: default, longest and absolute windows, one whose end wraps, and two malformed requests |
| `charts` (`MCCharts.cfg`) | `OneInstance`, `LastRoundRules`, `LoadingEnds` | one chart of three fetches, 3 rounds, every age class for the limit |
| `lifecycle_push`, `charts_late`, `charts_week` | three statements of comments and documents that the code does not keep | as above, smaller |

What they show:

- **The replay window is closed, with a margin that is exactly known.** A push is
  acceptable for `2 * Skew`; two handlers serving it may be a further `2 * Stall`
  apart; the cache remembers for `TTL`. `2 * Skew + 2 * Stall < TTL`
  (`WindowAssumption`) suffices, for any instance (theorem), and `TTL = 4` with
  skew and stall 1 already fails. In the code's numbers: stalls up to 90 s are
  harmless.
- **After a restart only `UNIQUE(nonce)` is left.** The same push may pass the
  new cache, and then gets 500 from `DuplicateNonce`, not 409: it is never
  stored twice (`ImplementsPushLog`; removing the constraint breaks it).
- **The bound of `ResidencyBounded`**, TTL + period + two stalls, is reached.
- **Every request is answered** as long as the deferred `Rollback` is there.
- **The web server drains, the mTLS server does not**: section 6.
- **A page is torn one way only.** Each part of the overview page is at least as
  new as the part read before it; read in another order (metrics before agents)
  they contradict each other.
- **How old a shown value may be.** The latest metric is the one with the greatest
  agent timestamp, so an agent whose clock jumps back shows older values; by at
  most `2 * Skew + Delay`, because the skew check has seen both pushes. With a
  check of one side only there is no such bound.
- **Ages** are wrong by at most one stall, also when pushes commit in another order
  than they were stamped and `last_push_at` goes back. The page, which reads the clock
  before the rows, may show a negative age, by the wait of the request itself
  (section 6). The API answers no age, only the time of the last push and the status.
- **A scrape is all or nothing**: no damaged or cut answer is reported in part.
- **Windows.** A relative window never wraps; the new samples it keeps back are those
  of an agent whose clock is ahead, for no longer than the skew, and the old ones it
  drops early are those of a clock behind, or long on their way from `Collect`, by no
  more than the skew and the delay. Absolute windows
  join without a seam. A bound after the year 2262 wraps in `UnixNano`, and the
  answer is empty though its window holds samples: `WindowHonoured` excludes it
  by `Representable`.

Every property of a passing run has a mutant, a definition next to the one it
mutates, named after the mistake (`EvictedEarly`, `InsertMetricNoTx`,
`AbortKeepsConnection`, ...): replaced by it, the run finds the property violated.

`CHECK_DEADLOCK FALSE` only in the lifecycle runs and in `agent_loop`, where the
process exits.

### Fairness

- `PushIngest`: weak fairness of each handler's own steps (the Go scheduler runs
  every runnable goroutine). None on `Send`, `Receive`, `Tick`, the evictor,
  failures or restarts. Weak fairness suffices for `BeginTx`, for a handler
  overtaken at the connection is overtaken only finitely often: nonces are
  finite, and each passes the cache a bounded number of times between restarts.
  On an endless stream of pushes the argument is the queue of `database/sql`,
  which this model does not have.
- `Lifecycle`: every goroutine of the process runs, but no request is promised to
  finish; the five seconds of `Shutdown` are what ends the wait.
- `AgentLoop`: time passes, the ticker fires, the goroutine runs. Nothing is
  assumed of modules or network.
- `Charts`: each fetch ends, in success or failure (the browser gives up in the
  end). The user owes nothing.

## 4. The proofs

Every theorem holds for all values of the constants that satisfy the named
assumptions of its module, which TLC evaluates in every run.

`PushIngestProofs`:

- `TypeCorrect`: `Spec => []TypeOK`. By step on each action (`TypeStep`), with
  lemmas on the operators: `PutType`, `EvictedType`, `UpsertType`,
  `MachineOfType`, `RefusalsType`.
- `ReplayWindowClosed`: `Spec => NoSecondPass`. `NoSecondPass` is an action
  property, and nothing in `TypeOK` implies it: it holds because what the cache
  has passed in this lifetime is still remembered for as long as any push with
  that nonce is acceptable. The inductive invariant `ReplayInv` says so in four
  parts:
  - `UniqueNonces`: no two sent pushes share a nonce;
  - `PassedWereSent`: a passed nonce belongs to a sent push;
  - `OnTheirWay`: a handler between its skew check and the cache serves a push
    whose timestamp is within the skew of its last clock reading (and one stall
    more once it has read the clock again for the cache), and that reading is at
    most a stall old;
  - `PassedAreRemembered`: a passed nonce is in the cache with a time no earlier
    than the first moment its push was acceptable (`ts - Skew`), or a whole TTL
    has gone by since that moment.

  `ReplayStep` proves it inductive, one lemma per part; `PassIsFirst` shows that a
  step which passes a nonce already passed contradicts it, by the window
  assumption.
- `TracesVouched`: `Spec => []OnlyVouched`. What is in the cache or in a table does not
  say who sent it, so `VouchedInv` carries the evidence along: a handler past the
  checks serves a push that passed them, and nonces, the open transaction's rows
  and the committed rows all come from such pushes.
- `TablesAlwaysAgree`: `Spec => []TablesAgree`. `TxInv` says that at most one handler
  is inside a transaction, and it has the connection; that nothing is pending
  when nobody is; and that `work` is `db` plus the rows of one push, as far as that
  handler's position says. `Commit` then makes an agreeing database current, and
  every other end discards `work`.
- `Refinement`: `Spec => ImplementsPushLog`. `Commit` is `Append` of the abstract log, a
  200 answer is its acknowledgement, everything else stutters. `AckInv` adds what
  this needs: only a handler about to answer may acknowledge, its push is stored
  and not acknowledged yet, no two handlers would acknowledge the same one, and
  what is acknowledged is stored.

`NonceCacheProofs`:

- `TypeCorrect`; `Refinement`: the cache implements `ReplayWindow`. The time
  of an entry and the moment its nonce was declared fresh differ by at most a
  stall, and a nonce that has left the table was declared fresh at least a TTL
  less a stall ago (`Remembered`); nobody acts on a time older than a stall (`Prompt`).
- `Bounded`: `Spec => []ResidencyBounded`, assuming that a stall is shorter than the TTL
  and no longer than a period. In the code the TTL is 5 minutes and the period
  1 minute. `OnSchedule` relates the entries to the last eviction and the next.

`LifecycleProofs`: `TypeCorrect` (with the types, that a server which listens has
somebody who will shut it down, and that an exit code means an exit), and `PagesServed`, `Spec => []PagesServedToTheEnd`, for any
number of requests. `ShutdownInv`: main is closing only after the whole group has
returned without an error, and a web server that has shut down without an error
has no request left.

`AgentLoopProofs`, for any modules, configurations and environments. Each theorem
names the relation between the times that it needs; the defaults of the code
have all three (10 s for a push, 30 s between them, 2 minutes for the badge):

- `TypeCorrect`.
- `NeverPastTheTick`: `Spec => FreeAtTick`, when `Timeout < Interval`. `OnTime`: while the loop
  is busy no tick waits, and as much time has passed since the last tick as since
  the push began; a push over its deadline lets no time pass.
- `RecoveredIsPushed`: `Spec => []RecoveredModulePushed`, when `Latency <= Interval`. That a module
  works says nothing of what was collected before it did, so `Recovering` goes by
  the position of the loop: a push begun since the module works has collected it
  or will, and is over within the latency; one begun before is over soon, and the
  next tick comes within an interval; between two pushes either the last tick was
  before it worked, or that tick's push was accepted with its data.
- `HealthyIsOnline`: `Spec => []HealthyShownOnline`, when also `Interval + Latency <= Threshold`, from
  the same invariant: what carried the data also reset the age.

`ChartsProofs`: `TypeCorrect`; `NoInstanceLost`, `Spec => []OneInstance`, which is inductive
given the types; `LastRound`, `Spec => []LastRoundRules`, by `RoundInv`: only rounds
that have begun are waited for or over, and the last one was asked for the
selected range.

`DashboardReadsProofs`, for any machines, metrics, handlers, waits and bounds:

- `TypeCorrect`, with a request as a function of its fields.
- `EveryLinkHolds`: `Spec => []LinksHold`. `Leads`: rows of `agents` are never removed, the
  sidebar shows some of them, and a redirect has one to lead to.
- `StalenessIsBounded`: `Spec => []BoundedStaleness`. `Stamped`: an agent's timestamps are
  within the skew and the delay of `receivedAt`, in both directions, so of two
  pushes the one with the later timestamp cannot have come much earlier
  (`LatestIsFresh`); `MetricsOrder`: a request has either its metrics still to read, or
  failed, or read them `Fresh`, and a log that only grows keeps them so. The bound
  rests on `OffsetsAssumption`, which stands for the skew check of the ingestion.
- `NoPageGoesBack`: `Spec => NeverGoesBack`. Committed rows stay (`LogGrows`), and the query
  answers a row with the greatest timestamp (`LatestIsARow`).
- `AgesAreHonest`: `Spec => []AgeHonest`. `Held`: a handler commits a time it has held for at
  most a stall, so the row of an agent is never further behind a committed push,
  and is always the row of one. `NotAhead`: no push in the tables, on its way there or in
  an answer bears a time to come; `ApiOrder`: the API reads the clock after the
  rows. `ApiPhase` and `OverviewPhase` carry what was read along
  the queries of a request.
- `PagePartsAgree`: `Spec => []PartsAgree`. `OverviewPhase` has one disjunct per query still to
  come: what is read later is at least as new as what was read before
  (`LogGrows`), and the agent that was found stays.
- `CardsMixNoPushes`: `Spec => []OnePushPerCard`, when the metrics of a card are of one module, as
  they are in `kpis.go:73-119`: the rows of one module in one push have one time,
  and the latest of each name are of the same one.

`MetricPointsProofs`, for any width of an integer, length of a millisecond, skew,
delay, limit, parameters, and any number of curves and pushes:

- `TypeCorrect`. `StoreInv`: the sample of a saved push is at most the skew after its receipt,
  and at most the skew and the delay before it. `RequestInv`: a
  request that is served has the window of its parameters at the time it was
  asked, and is answered with rows of that window, all those that were there when
  it was sent, in order.
- `JoinedWindowsMeet`: `Spec => []WindowsJoin`; `WindowsAreHonoured`: `Spec => []WindowHonoured`. By arithmetic:
  `WrapKeeps` (a number that fits is itself), `Product` and `Quotient` (rounding down to
  milliseconds respects the order, and undoes the multiplication), `Accepted` (what
  `parseTimeRange` lets through).
- `NewestComeInTime`: `Spec => []KeptBackBySkewOnly`. A relative window is always representable
  (`WindowIs`), and the time of a push's receipt says where its samples lie: from the
  skew and the delay before it to the skew after it, so those received more than the skew
  ago and no more than the range less the skew and the delay are all answered. It
  rests on `DriftAssumption`: see section 5.
- `ChartsAreFaithful`: `Spec => []ChartIsFaithful`; `NewestIsDrawn`: `Spec => []NewestOfMillisecond`. Both need that
  finite sets of integers can be sorted and have a greatest member. These would be
  inductions over the set; instead `Rank` counts the members below a member, which
  is an injection into `1..Cardinality(S)`, hence takes every rank (`RankOnto`). The same
  lemma carries the order of neighbours to the order of all (`OrderedThroughout`).

`ScrapeProofs`, for any machines (cores, filesystems, families), tokens, label values,
ways of writing, comments and damaged lines:

- `EveryLineIsRead`: `Spec => []ReadsEveryLine`; `ScrapeIsWholeOrNothing`: `Spec => []WholeOrNothing`. The
  inductive invariant is `ReadInv`: what has been collected is the beginning of what
  the exporter writes, a fault has ended the collection, and only a collection
  that is done has metrics. Its step needs to know what the parser makes of a line:
  - `SampleIsRead`: a rendered sample is read as it was meant. Found token by token:
    the name ends at the first brace or space (`BracedLine`, `BareLine`), the labels at
    the first closing brace, which no value holds; a comma cuts the labels where
    the number of quotes before it is even (`TopLevelIs`, `PairsAre`); each pair splits
    at its first equal sign (`PairIsRead`), whatever marks its value holds;
  - `CommentIsSkipped`: what is blank or begins with `#` is passed over;
  - `DamageIsNoticed`: each of the four kinds of damage makes `IsSample` fail, by what
    stays of a text within its parts (`Within`).
- `MachineIsReported`: `Spec => []ReportsTheMachine`; `ScrapeTypes`: `Spec => []TypeOK`. By `ReportInv`, on top
  of `ReadInv`: when the body ends every sample is there, so each place of the answer
  is known (`SamplesByKind`), hence the samples of each family, mode and mount point
  (`NamedAre`, `ModeSamples`, `RootSamples`), hence the first of them (`DiskIs`, `PlainIs`), the sum
  over them (`SecondsAre`) and the number of different cores (`CoresAre`, a bijection).
  A sum is a recursive function over places; that it exists, is a number and adds
  up core by core (`SumsExist`, `TotalIsNumber`, `RoundsAddUp`) are inductions, done by the
  least counterexample (`Least`, from the well-foundedness of `<` on the naturals).

Checked by TLC only: liveness (`EveryRequestAnswered`, `StopsTogether`, `KeepsTrying`, `LoadingEnds`),
which TLAPS cannot prove under fairness. Every other property of a passing run is
the conclusion of a theorem.

## 5. What is not modelled

Cryptography, TLS and protobuf encoding (a certificate bears a name, a signature
has a key); YAML, PEM and environment parsing; logging; HTML, CSS and how
durations, bytes and percentages are worded; the template renderer, whose cache
is filled before the first request and only read afterwards; build and
deployment files. `/ping`, health, `Cache.Size` and `Storage.Ping` change
nothing. `module_state` has no writer. The server checks the stamp of a push and never
that of a module's samples (`server.go:160`, `pushes.go:89`): that the two are made by one
clock, which is not turned in between, and at most `Delay` before receipt is an
assumption of `DashboardReads` (`OffsetsAssumption`) and `MetricPoints` (`DriftAssumption`). The x axis of a chart is in milliseconds,
not in the fractions of a second that uPlot receives. A label value of the
exporter has no closing brace and no quote (`ValueAssumption`): see section 6. A
filesystem that node_exporter could not read is not among its samples, and so not
in `Scrape`.

## 6. Where the code and its documents differ

| Run | Code | Statement |
|---|---|---|
| `lifecycle_push` | `Server.Run` returns when its listener closes (`server.go:105`); nobody waits for the goroutine that drains, so a clean exit leaves pushes in flight, with the storage closed under them | `server.go:91-94`: the context keeps the "graceful shutdown window" |
| `charts_week` | more than 10000 points are refused (`metric_points.go:82`): 84 hours of pushes at 30 s put the 7d button out of service | `REFONTE.md:236`: "Range selector [1h] [24h] [7d]" |
| `charts_late` | a click does not cancel earlier fetches (`overview.js:206`): late answers replace the selected range | `overview.js:34-37`: the axis "adapts format based on currentRange" |

Limits of what holds, met on the way:

- `FreeAtTick` needs `Timeout < Interval`. The default interval has it, but
  `config.go:74` accepts any `push_interval` from 1 s on, and with 10 s or less a
  stuck push is still under way at the next tick.
- `receivedAt` is read before the wait for the connection (`pushes.go:42`), so
  `last_push_at` may go back, by no more than that wait (`AgeHonest`).
- `promparse.go:72` ends the label set at the first closing brace, also inside a
  quoted value: a mount point with a brace in its name fails every scrape.
- Milliseconds beyond what int64 nanoseconds hold (`metric_points.go:128`,
  `queries.go:231`) give an empty answer instead of an error.
- The overview page reads the clock before the agents (`overview.go:39-41`): a push saved
  in between has a negative age, shown as a dash, and `funcs.go:54-56` calls a time in the
  future a bug. `AgeHonest` allows it, and bounds it by the wait of the request.
- One deadline covers all modules and the push (`agent.go:94`), and the system module's
  own timeout is as long (`system.go:30`): a module that hangs makes what follows it in
  the tick fail, the push included. No property forbids it; `HealthyShownOnline` and
  `RecoveredModulePushed` exclude hangs by name, `FreeAtTick` and `KeepsTrying` say that the loop
  survives them.
- The nonce is recorded before `SavePush` (`server.go:194`, `200`): a push whose save
  failed is refused when it is sent again, and its samples are lost.

## 7. Plan

Done: 1 `NonceTable`, `NonceCache`, `ReplayWindow`; 2 `PushIngest`, `PushLog`;
3 proofs of `PushIngest` (types, replay window, vouching, agreement of the tables,
refinement of `PushLog`); 4 `Lifecycle` and its proofs; 5 `AgentLoop` with its
start; 6 `Charts` and its proofs; 7 `DashboardReads`; 8 `Scrape`;
9 `MetricPoints`; 10 proofs of `NonceCache` (types, residency, refinement); 11 proofs of
`DashboardReads` (all its properties); 12 proofs of `AgentLoop` (all but liveness);
13 proofs of `MetricPoints` (all its properties);
14 `Scrape` over any tokens and its proofs (all its properties).

Left: the four liveness properties, which stay with TLC; the hazards without a property
(`hazards` in `PROJECT.json`), which are about configuration fixed for the life of a process.
