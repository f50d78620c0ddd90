# A verification project for datastar-go-template

TLA+ modules, TLC runs and TLAPS proofs for the Go web scaffold in this
repository: an HTTP server (chi, templ, Datastar SSE) over Postgres (pgx, sqlc)
and NATS JetStream, with commands that seed and migrate the database and fetch
the browser bundle. Source paths below are relative to the repository.

The repository has no tests. Its logic is small, but most of it is about things
a unit test hardly reaches: the order of startup, shutdown and deferred
releases among goroutines, requests that are in flight meanwhile, an
asynchronous connection to NATS, a `sync.Once` and a channel shared by open
pages, a counter without a lock, a fork and join with an error channel,
migration commands that run beside each other.

## 1. Inventory

| Component | State | Operations | Interacts with | What makes it correct |
|---|---|---|---|---|
| Web process, `cmd/web/main.go` with `database/database.go`, `natsx/nats.go` | where `run()` is, signal context, the errgroup's first error, two goroutines, pool, NATS connection | open, dial, ensure streams, set up routes, listen, wait, shut down, deferred closes | net/http, errgroup, pgx, nats.go, the OS | nothing is released under a request; every path releases what it opened; SIGINT ends the process; exit status tells the truth |
| Index feature, `features/index` | `count` (package variable) | `/`, `/increment`, `/nats/ping`, `POST /jobs/demo` | pool, NATS, stream, Datastar in the page | a request ends with an answer; the count shown after a publish includes it; clicks are taken back only by clicks that overlap them |
| Demo jobs stream, `natsx/jetstream.go` | the stream in the NATS server | ensure, publish, count | index feature, NATS | acknowledged jobs are kept until they are too old |
| Hot reload, `router/router.go` and the layout | `sync.Once`, channel of capacity one; each tab's page and its request | `/reload`, `/hotreload`; load, reload, retry, restart | open pages, `air` | a page reloads once per cause, nobody is kept waiting, a new build reaches a tab |
| Downloader, `cmd/web/downloader/main.go` | files on disk, error channel | remove, create, download, join | the network, the file system | success means a complete, consistent bundle |
| Seeder, `cmd/seed/main.go`, `database/queries/seed.sql` | three tables, one transaction | upserts | Postgres | running again converges; a failure leaves nothing |
| Migrations, `cmd/migrate/main.go`, `database/migrations` | schema and version | up, down, status | Postgres, goose | the version says what the schema is |
| Identifiers, `00001_init.sql` | none | `prefixed_nanoid`, `is_prefixed_pid` | table defaults and checks | what the one makes the other accepts |
| Configuration, `config` | read once | parse, panic | environment | no value changes its meaning on the way |
| Auth feature, `features/auth` | none (a stub) | form, redirect | | |
| Pages, layouts, sqlc code, static assets | none | render, serve | | |
| `.plans/auth-scaffold` | documents of code that does not exist | | | |

How they meet: `run()` creates the pool and the NATS client and passes both to
the router, whose handlers call them with the request's context. That context
descends from the signal context (`BaseContext`), so the signal reaches every
request; the errgroup's context reaches only the stopping goroutine and the
setup of the routes. `/reload` requests are long-lived requests of the same
server.

The hard behaviours, each with its line, are listed as hazards in
`PROJECT.json`, with the properties that cover them.

## 2. Modules

| Module | What it is |
|---|---|
| `WebServer` | the process, its goroutines, its connections and the stages of all handlers |
| `GracefulStop` | what a gracefully stopping service promises; `WebServer` implements it |
| `WebServerProofs` | proofs about `WebServer` |
| `HotReload` | the development endpoints of one process |
| `DevPages` | extends `HotReload` with browser tabs, new builds and restarts |
| `HotReloadProofs` | proofs about both |
| `HitCounter`, `HitCounterProofs` | the unlocked counter and the pages that show it, and proofs about them |
| `DemoJobs`, `DemoJobsProofs` | publishing to the stream, across link failures and restarts, and proofs about it |
| `JobLog` | what the stream promises a publisher; `DemoJobs` implements it |
| `Downloader`, `DownloaderProofs` | the fetch command, over several runs and kills, and proofs about it |
| `Seeder`, `SeederProofs` | the seed command, repeated and concurrent, on tables that are not empty, and proofs about it |
| `Migrations`, `MigrationsProofs` | the migration command, several of them on one database, and proofs about it |
| `MCWebServer`, `MCDevPages`, `MCHitCounter`, `MCDemoJobs`, `MCDownloader`, `MCSeeder`, `MCMigrations` | instances for TLC |

Operators whose comment begins with "Mutant:" are faulty variants of the
definition that follows them. No specification uses them; replacing the
definition by its variant must make TLC refute the property named for it in
`PROJECT.json`, which shows that the property can fail.

### WebServer

`pc` walks through `run()`: `loadConfig` (package `config` reads the settings
before `main`, and panics when one is missing or cannot be parsed), `openDB` (main.go:42), `dialNATS` (48),
`ensureStreams` (54), `setupRoutes` (66), `serve` (108, inside `eg.Wait`), then
the defers in reverse order, `closeNATS`, `closeDB`, and `return`. A failed
step goes to the part of the defers that has been registered (`StartupFails`).
`interrupted` is the signal context's `Done`, `err` the error `run()` will
return, for the errgroup the first one only.

`srv` is the goroutine of main.go:84 and `shut` the one of main.go:95.
`http.Server.Shutdown` is modelled by what it does: it sets `inShutdown` and
closes the listener (`BeginShutdown`), waits for `Serve` to return, and polls
(`PollConns`): idle connections are closed, connections on which no request has
been read only after they are five seconds old, and it returns when none is
left. The five-second context can only make it return after a poll
(`ShutdownTimesOut`). It cancels no request.

A connection is `closed`, `new`, `idle`, `active` or `hungup` (active, and its
client gone). `at` and `status` are the request on it. Stages name what
a handler waits for: a pool connection (`acquire`), the query, a publish, the
count of the jobs (for the page, or after a publish), the ping, the reload channel; `render` is the templ or SSE output, which
refuses a context that is done, and `write` the answer on its way to a client
that may be slow. `RequestDone` is `r.Context().Done()`: the signal, or the
client. The login page is rendered like the others
(`login`). Routes that only write (assets, the redirect of a submitted login,
`/hotreload`) are one route, `static`, and go to `write` at once.

`CloseNATS` starts the drain (nats.go:62), which `NATSLink` ends at some later
time. `CloseDB` refuses new acquires and then waits until every pool connection
is back, as `pgxpool.Pool.Close` does. `Kill` is SIGKILL or SIGTERM: main.go:34
passes `os.Kill`, which cannot be caught, and not SIGTERM.

`PoolSize` is `int32(config.Env.DBMaxConns)` (database.go:16): the value wraps
around without a check, and pgxpool refuses a pool below one. `Half` is 2^31; the
instance uses a narrower integer, so that `MaxConns = 5` becomes a pool of 1.

Abstractions: time is a choice (an armed timeout may fire at any moment);
a step of startup is one action that succeeds or fails; the health query takes
and returns the pool connection, `Scan` closes its rows; a hung-up client is
noticed at once (net/http reads in the background).

### HotReload

`once` and `queued` are the `sync.Once` and the channel of router.go:39-40;
`at` is where each `/reload` handler is, `gone` its context. `opened` and
`posts` are bounded by `MaxOpened` and `MaxPosts`; `accepted` and `reloads`
are history. A failed `ExecuteScript` is only logged, so sending and failing to
send are the same step.

### DevPages

One process of the server is `HotReload`; `Restart` puts a new build and a new
process in its place, with a fresh Once and an empty channel. Every tab shows the
page of some build (`page`), and the layout of every page asks for `/reload`
(`Connect`, base_templ.go:66). When the handler writes the script (`Send`), the
tab is `told` and reloads itself (`Refresh`), which loads the page of the running
build and opens another request.

What the page does with its request is Datastar's doing, and is modelled from the
version under `web/resources/static/datastar` (v1.0.2): a request that fails is
retried; a stream that ends in good order is not (`ended`); a GET is aborted when
its tab is hidden and made anew when it is shown (`asleep`, `Lose`, `Show`).
`air`, as `mise.toml:72` runs it, kills the old process, so its requests fail;
when it is interrupted instead, its handlers return and its streams end, which
`Restart` allows as well. The options of base_templ.go:66 include
`retryMaxWaitMs`, which this Datastar does not know (it has `retryMaxWait`); it
makes retries slower, not fewer, and time is not modelled.

`lost` is history: a tab was closed, hidden or cut off since the last restart. The
script may have gone to that tab, so `SomeTabCatchesUp` promises nothing then.

### HitCounter

`count++` (handlers.go:41) is `Load` and `Store`, with other handlers in between,
and `Read` the second look at the variable (line 44, and 35 for the page). A data
race in Go may do worse in principle; on the platforms Go supports a word is
loaded and stored as a whole, which is what is modelled. `page[b]` is the number
on the page of browser `b`, `owner[r]` the browser that still waits for the
answer of `r`: Datastar aborts the request of the last click when the button is
clicked again (`Send`), and sends a click again whose request failed or whose tab
was hidden (`Fail`, `Retry`). The server does not notice: `Increment` does not
look at its context before it counts. A click whose answer was lost is therefore
counted twice; nothing in the repository promises otherwise.

`count` belongs to the process (line 11). `Restart` ends it at any time and starts
the next one, with a count of 0: its handlers are gone, the pages stay, and the
browsers whose clicks were not answered send them again. `stale` is history: the
pages whose number an earlier process counted and that have not had an answer since.
The next answer may take such a page from 5 to 1, so `PagesGoForward` says nothing
of these pages, nor of the others once clicks have overlapped; the other two
properties are about what one process has counted.

`floor`, `base` and `overlapped` are history too, and begin anew with the process:
`floor` is the count when last no handler was between its load and its store,
`base[r]` the floor when the handler of `r` began.

### DemoJobs

Each job is its request (the id is a fresh UUID). `buffered` is the client
library's reconnect buffer, `sent` what is on its way, `acks` what is on its way
back. A link failure or a crash loses any part of `sent` and all of `acks`.
`LinkDrops` also stands for a restart of the NATS server, whose stream uses file
storage (jetstream.go:20). `Crash` stands for every end of the process, and
`EnsureStreams` for its next start. `shown[j]` is the set of jobs whose number
the answer shows. Because `MaxAge` is 24 hours, a job does not expire while its
own request is answered.

### Downloader

`Remove`, `Create`, `Spawn`, one goroutine per file with the steps of
`downloadFile`, `Send` into the error channel, `Join`. `disk` tells whether a
file is absent, of an earlier run (complete or cut off, also by a kill), cut off in
this run, or new. `Kill` may come anywhere and `Start` runs the command again: what
is there then is `"old"`. A `Close` that fails is only logged (main.go:149-154,
`CloseFails`), and what the disk holds of that file is then unknown;
`BundleIsOfThisRun` allows for it, and for the failed downloads of `download_exit`,
but not for anything `"old"`.

### Seeder

A row is its table, its id, its other unique key (email, slug, or team and user)
and its remaining columns. `db` holds the committed rows, `mine[s]` what the
transaction of run `s` wrote; `View` is what its statements see, and `Waits` when
one of them waits for another transaction: Postgres makes it wait for whoever
wrote or replaced a row with the same value of either unique key. `Upsert` is one
statement with its conflict target (`Conflicting`), what it sets (`Written`: all
but the id) and the constraints (`Legal`, `Accepted`). A violated constraint ends the run
(`"conflict"`), everything else that goes wrong before the commit is `"failed"`;
both roll back. A run whose `Commit` was not answered is `"lost"`: it reports an
error and its rows are there. `ConvergesOnSuccess` and `RunsAgree` are about every
run that has committed, so they cover the run that repeats a lost one. Foreign keys take
weaker locks that are left out: with every run locking the first user first, no
run gets as far as the memberships beside another. Names, roles and `citext`'s
ignoring of case are abstracted into `data` and `key`. `After(rows)` is what the
first statements, none to all of them, make of the rows when a run is alone;
`AllOrNothing` says that each change of the committed rows is a whole such run.

### Migrations

goose, as `UpContext` and `DownContext` use it: `EnsureDBVersion` reads the
version table and creates it when it is missing, `NextMigration` picks a migration
by the version, the script runs statement by statement (`Create`, `Drop`) and
`Commit` changes schema and version in one transaction. `rows` is the version
table in the order of its ids. The commit of a down deletes the rows of its version,
which stay in the sequence as `Deleted`, because an id is never given again; the
version is that of the last row which is not deleted. goose takes no lock of its
own; what keeps two commands apart is that PostgreSQL lets a statement wait for
whoever has created or dropped the same object (`TouchedByOthers`), and refuses
what exists already. `GiveUp` is the deadline of main.go:47, a broken connection
or a kill. The server keeps the transaction of such a command, and its locks, until
it notices (`ServerNotices`), and other commands wait meanwhile. A `Commit` whose
answer is lost fails its command and stays; a command counts as running until the
server has decided its commit, also if it was killed while it waited for the answer.

Objects are groups that the scripts treat alike: the extensions (with the schema
paradedb), the functions, the enum type and the tables. `down` drops the extension
citext with `CASCADE`, which takes columns of tables that exist: such tables are
`damaged`.

`mixed` is history: an up and a down were running at the same time. Nothing
protects that case. A down that drops the functions while an up has created the
tables and not committed does not see them and drops what they use; the rows of
the version table can end up as 0, 2, 1. The model takes these steps; the
properties exclude them because no text of the repository says that the commands
may be mixed, and goose's session locker, which would prevent it, is not used.

## 3. Runs

| Run | Bounds | Shows |
|---|---|---|
| `web` | 2 connections, pool of 1 | `TypeOK`, `ReleaseAfterDrain`, `ReleasedOnReturn`, `ExitZeroIsOrderly`, the refinement `ImplementsGracefulStop`, and the liveness properties `InterruptLeadsToExit`, `ServerFailureLeadsToExit`, `PoolWaitEnds` |
| `web_inflight` | same | refutes `InFlightRequestsComplete` |
| `web_drain` | same | refutes `DrainedBeforeExit` |
| `reload` | 2 tabs, 2 builds, 3 requests at a time, 4 in all, 2 posts, 3 events of users and network | `PagesTypeOK` (no two pages share a request, none keeps a finished one), `ReloadsArePaidFor`, `OneRunsOnce`, `NobodyStuckInOnce`, `PendingReloadTaken`, `SomeTabCatchesUp` |
| `count` | 2 browsers, 3 handlers at a time, 6 requests, restarts at any time | `CountedIsKept`, `AnswerCountsClick`, `PagesGoForward` |
| `migrate` | 3 commands, a database at any version | `SchemaMatchesVersion`, `VersionsInOrder`, `UpReachesLatest`, `OneMigrationAtATime`, `EveryCommandEnds` (commands never wait for one another in a circle, nor for ever for one that is gone) |
| `jobs` | 3 jobs, 2 faults | `AckedIsKept`, `CountIncludesOwn`, `ImplementsJobLog` |
| `jobs_failed` | 2 jobs, 1 fault | refutes `FailedIsNotStored` |
| `download` | 2 files, 2 runs | `BundleIsOfThisRun`, `JoinEnds` |
| `download_exit` | 2 files, 1 run | refutes `ExitZeroMeansFetched` |
| `seed` | 2 runs, 550 contents of the tables before them | `AllOrNothing`, `ConvergesOnSuccess`, `RunsAgree`, `EveryRunEnds` |
| `seed_ids` | 1 run, the same contents | refutes `SeededIdsAreFixed` |

Why the bounds are enough. Two connections and one pool connection give a
request that holds the pool and one that waits, one connection that is idle or
new beside one that is active, and a request that outlives the grace period
beside one that does not; connections do not depend on each other otherwise.
Two tabs and three requests give one request inside the Once, one blocked before
it and one whose tab has gone; four requests in all let both tabs connect to both
processes, and three events open two tabs and disturb one. `OutOfRequests` names
the one case in which that bound, and not the code, keeps a tab waiting. Three
handlers give two that overwrite one another and a third that reads in between;
six requests let a click be aborted, fail and be retried in both browsers. Three
commands give two that overlap and one that comes after them and finds what they
left; both migrations, of two and of two statements, are applied or undone. With two faults a job can be buffered, lost or delivered late, and
the process restarted after that. Two files give a success beside a failure, and
two runs a leftover. The seeder starts from every legal mix of the 14 rows of
`MCLeftovers`: seeded rows, older data under the same keys, and rows that share
the id or the other key only; the second run comes after the first or beside it.
None of the runs checks deadlock: the process ends, or the
bounded supply of requests does.

Each of the five refuted properties states what a document or the program's own
text says:

- README.md:258 "graceful HTTP shutdown with `errgroup`": SIGINT cancels every
  request in flight, because `BaseContext` is the signal context.
- README.md:264 "NATS drain on shutdown": the drain is only started.
- `features/index/handlers.go:66` "failed to publish demo job": the job may be
  stored.
- `cmd/web/downloader/main.go:111` and 41-43: the error of a failed download is
  made, collected and dropped.
- `.plans/auth-scaffold/02-seed-data.md:23` "teams (upserted by hardcoded UUID)":
  the team upsert names the slug and leaves the id of a row it finds.

One more difference needs no model. `.plans/auth-scaffold/02-seed-data.md:66-69`
makes the admin a member of both teams and the member one of `platform` only;
`cmd/seed/main.go:46-57` makes both members of operations and nobody a member of
platform, so no seeded user exercises several teams. `Seeder` has the memberships
of the code. README.md:234 speaks of "local-friendly defaults"; the same paragraph
says that these are the committed `.env`, which sets every variable that `config`
requires, so that the panic without them contradicts nothing.

`ServerFailureLeadsToExit` has a second disjunct, because the code has a hang: when
the server fails without a signal, `db.Close` (main.go:46) waits for a query that
nobody cancels, as `cancel` is deferred to run after it. No text of the repository
promises an exit then, so this is listed as a hazard and not as a refuted property.

## 4. Fairness

`WebServer`: the steps of `run()`, the two goroutines' own steps and the end of
a backend call whose context is done (`Abort`) are weakly fair: the Go scheduler
runs what can run, startup's calls and Shutdown carry timeouts, and pgx and
nats.go return when their context is done. `Acquire` is strongly fair because
the pool's semaphore serves its waiters in order of arrival. Nothing is assumed
of clients, of the database, of NATS, or of a client's reading its answer: a
handler that is writing may stay so, which is why Shutdown's timeout matters.
`PoolWaitEnds` takes the one assumption on the database it needs as its
antecedent.

`DevPages`: handlers run. That includes sending the script inside the Once: it
is the first and only thing written and fits the socket's buffer. A tab that was
told to reload does, and a tab that asks for `/reload` gets through to a server
that runs: it retries a thousand times. Nobody need open, show or close a tab,
and no build need follow.
`DemoJobs`: nothing. That a publish ends rests on the timeout jetstream gives a
call whose context has no deadline; a liveness property would only repeat that
assumption. `Downloader`: goroutines that have finished their transfer run;
transfers need not end. `Seeder`: Postgres executes the statements that wait for
no lock; that runs do not wait in a circle is `EveryRunEnds`. `Migrations`: Postgres answers
a statement that waits for no lock (`Proceeds`), and notices that a client is gone.
The deadline of main.go:47 is not counted on (`GiveUp` is not fair), because with it
every command would end whatever the locks do; `EveryCommandEnds` says that the
locks themselves let every command through. `HitCounter` checks safety only.

## 5. Proofs

For any set of connections and any pool size, `WebServerProofs` proves `TypeOK`,
`ReleaseAfterDrain`, `ReleasedOnReturn`, `ExitZeroIsOrderly` and that the process
implements `GracefulStop`. The properties are not inductive: that resources are
released after the last request rests on what Shutdown saw when it returned, on
both goroutines being over before the defers run, and on a server that has been
shut down not accepting again. `IInv` collects these facts, one named part each:
a handler runs exactly on active connections; the two goroutines start together
and nothing is connected before; the defers run after both or after a failed
startup; an orderly return of Shutdown leaves no connection and no listener;
every end of the group has a cause; and which resource is open at each point of
`run()`. `NextIInv` proves it step by step; the steps of a handler that stay on
its connection share the lemma `StageChange`. The refinement maps each step to
one of `GracefulStop` or to a stutter: `GroupWait` and failed startup steps
release, `BeginShutdown` drains, `ShutdownTimesOut` ends the grace period,
`Request` begins and `Finish` ends work.

`HotReloadProofs` proves `ReloadsArePaidFor` and `OneRunsOnce` for any number of
requests and any bounds; together with `TypeOK` they are inductive. It proves them
again for `DevPages`, where pages reload because of them and processes come and
go, together with `PagesTypeOK`: a page's request is at a handler that has not
returned, is not given up, and belongs to no other page.

`HitCounterProofs` proves the three properties of `HitCounter` for any browsers,
requests and bounds. `CountedIsKept` needs that every value a handler is about to
store is at least the floor, and `AnswerCountsClick` that a handler's base never
exceeds the floor and that the count stays above the base of every click that
has been stored. `PagesGoForward` needs more: while clicks have not overlapped,
each store adds one, so no page and no answer under way is above the count, and
the answer a page still waits for is not below what it shows, because a browser
has one request that is not aborted. All of that is about pages that are not
`stale`; a restart leaves no other page with a number.

`DemoJobsProofs` proves `AckedIsKept`, `CountIncludesOwn` and that `DemoJobs`
implements `JobLog`, for any jobs and faults. The strengthening says that a job is
in one place only (kept by the connection, on its way, in the stream, or too old),
so that what `Store` appends is new to the log; that every acknowledgement, also
one on its way, is of a job the stream has taken; and that a job in progress has
not expired.

`DownloaderProofs` proves `BundleIsOfThisRun` for any finite set of files and any
runs, failures and kills: how far a file's goroutine is says what is on disk
(`Progress`), starting from directories without files (`CleanStart`). Its type
invariant counts the errors: the channel holds one for each file that failed.

`DemoJobsProofs` and `HitCounterProofs` prove the type invariants with their
bounds too. For `HitCounter` that takes counting: the counter, or what any handler
holds, plus the number of handlers that have not yet stored is at most the number
of clicks made (`RoomForPending`), so a store never passes it.

`MigrationsProofs` proves `TypeOK`, `SchemaMatchesVersion`, `VersionsInOrder`,
`UpReachesLatest` and the action property `OneMigrationAtATime` for any number of commands. Nothing in goose keeps two of them
apart, so the argument has to say what PostgreSQL's locks give: an object has been
touched by one open transaction at most (`Exclusive`), and as long as ups and downs
do not mix (`OneWay`), the transaction of a running up has made just what its script has
executed, none of which is in the committed schema (`UpInTx`), and that of
a down has dropped what was there (`DownInTx`). An up that has executed its whole
script therefore found nothing of its migration; the schema being that of the
version, its migration is the next one, and the commit adds the next version to
the rows, although it picked the migration long before. A down that a faster one has
overtaken finds nothing to drop (its statements say `IF EXISTS`) and deletes no row.
`VersionRows` and `VersionsInOrder` together say that the rows which are left are
those of 0 to the version, which is why deleting one version's row makes the version
the one before. `UpReachesLatest` is part of the invariant and needs that no down
ran.

`SeederProofs` proves `TypeOK`, `ConvergesOnSuccess`, `RunsAgree` and
`AllOrNothing`, for any number of runs and any rows they may find. From its first
statement on a run holds the row of the first user (`Locked`), for which all others
wait (`OneWriter`), so that it sees the committed rows as its own statements, alone,
have left them (`AsIfAlone`): that is `After`, up to its position, with a row for
each entry it has passed. Its commit makes that the committed rows. `Ends` carries the rest:
after a commit, answered or lost, every entry has its row, and a conflict has shown that the tables
are not `Smooth`, that is, that no run could get through. They exclude each
other because upserting an entry whose row is there changes nothing
(`UpsertStays`, `SeededSmooth`). The lemmas about an upsert say that it makes the row
of its entry, keeps those of all others (no two entries of a table share an id or a
key, `SeedDistinct`), and looks the same seen through a transaction (`UpsertSeen`),
which needs that the rows are `Legal`.

The proofs use only the assumptions of the modules (`PoolAssumption`,
`BoundsAssumption`, `FaultsAssumption`, `FilesAssumption`, `PagesAssumption`, `CounterAssumption`); those of `Seeder` and `Migrations` use none. Every safety
property that a run checks without refuting it is stated by a theorem. Liveness is
only model-checked: fairness and ENABLED are beyond the prover. `After` is a recursive
function, but over the seven statements of the seed, so the proof unfolds it
(`AfterIs`) and needs no induction.

## 6. What is not modelled, and the plan

Not modelled because there is no state to go wrong: what the auth stub will once do,
generated markup and queries, the asset handlers. Not modelled because it is not there: the
designs under `.plans/auth-scaffold`. Not modelled because nothing is left to
check: the identifiers of `00001_init.sql`. `prefixed_nanoid` is a loop over random
bytes; its alphabet (58 characters, all within the mask of 63) and the character
class of `is_prefixed_pid` name the same characters, its length is the one the
check asks for, it ends with probability one, and two equal ids are refused by
`UNIQUE`. Parsing the settings is the standard library's.

Model-checked only: everything about liveness (`InterruptLeadsToExit`,
`ServerFailureLeadsToExit`, `PoolWaitEnds`, `NobodyStuckInOnce`, `PendingReloadTaken`,
`SomeTabCatchesUp`, `JoinEnds`, `EveryRunEnds`, `EveryCommandEnds`), and the five properties the code does not have, which TLC refutes.

Next, in this order:

1. A composition of `WebServer` and `HotReload`, in which requests waiting for the
   Once hold up Shutdown, and a proof that its steps are steps of both.
2. An abstract specification of the development session that `DevPages`
   implements: tabs, builds and which build each tab shows.
