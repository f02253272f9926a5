# A TLA+ verification of Kolas

Kolas is a web-application skeleton in Rust: a small framework (dependency
injection, configuration, database access, logging, scheduling, console, HTTP)
and an application written on it. This directory holds TLA+ models of the parts
whose behaviour depends on what runs at the same time, fails, or comes in the
wrong order, the TLC configurations that check them, and TLAPS proofs.

Paths below are relative to `src/src/framework/` unless they say otherwise.

## 1. The system

| Component | State it keeps | Operations | Interacts with |
|---|---|---|---|
| **DI container** `di/container.rs`, `entry.rs`, `key.rs` | frozen maps `entries` and `groups`; one `OnceCell` per singleton; the task-local chain `RESOLVING_STACK` | `resolve`, `resolve_tagged`, `resolve_all`, `resolve_all_group`, `contains` | factories call it again; scope; handlers and commands call it |
| **Container builder** `di/builder.rs` | a list of registrations | `singleton*`, `transient*`, `scoped*`, `multibind*`, `build` | the providers of the application |
| **Request scope** `di/scope.rs`, `scope_middleware.rs` | per request: a map of slots, each a `OnceCell` | `resolve_for`; opened and dropped by the middleware | container, HTTP |
| **Schedule** `schedule/registry.rs`, `event.rs`, `frequency.rs` | the list of events; each has a frequency, restrictions and its first error | some 35 builder methods, `expression`, `build_cron`, `validate` | the cron parser; the console kernel (known commands) |
| **Scheduler** `schedule/scheduler.rs`, `commands/work.rs` | the `JoinSet` of running tasks, the deadline of the sleep | `work`, `run_once`, `dispatch_due`, `reap`, the drain | schedule, lock store, server selector, shutdown channel |
| **Overlap locks** `schedule/lock.rs` | id -> time of acquisition | `try_lock`, `release` | scheduler |
| **Database log sink** `logging/sink/database.rs` | a bounded channel, `dropped_count`, the worker's batch and backoff | `on_event`, the worker's loop, `flush_batch` | every thread that logs; database manager |
| **Queue and file sinks** `logging/sink/queue.rs`, `file.rs` | a bounded channel and a driver; log files | `on_event`, the worker; rotation, retention | threads that log; file system |
| **Logger set-up and guard** `logging/subscriber.rs`, `guard.rs` | handles of the workers | `init_with`; `drop` | sinks; bootstrap |
| **Database manager** `database/manager.rs` | two maps of pools behind `RwLock`s | `install_global`, `connection_for`, `any_pool_for` | sqlx; sink; migrations |
| **Migrations** `database/migrate.rs` | the migrations table | `migrate`, `rollback` | manager |
| **Configuration** `config/config.rs` | a TOML tree, a set-once global | `load`, environment overrides, `get` | everybody |
| **Console kernel** `console/kernel.rs`, `args.rs` | registered commands | dispatch, argument parsing | scheduler's tasks |
| **HTTP** `routing/route.rs`, `http/middleware/`, `src/src/app/http/` | routes and layers | building the router, `TrimStrings` | scope, container |
| **Bootstrap** `src/src/bootstrap/` | process-wide singletons | the boot order and teardown | all of them |

### What is hard, and what makes each part correct

* **Container.** Any number of Tokio tasks resolve at once; a factory resolves
  its own dependencies, one after the other or joined; it may fail, and the
  future of a call may be dropped at any await. Correct means: one instance per
  singleton and per scoped entry of a request, in everybody's hands; no
  `OnceCell` locked by a call that is gone; a cycle is reported when there is
  one, and only then; every call ends; groups come complete and in order;
  nothing scoped leaves its request.
* **Scheduler.** The loop sleeps to a computed deadline, looks one minute back,
  spawns; tasks end at any time, well or badly; shutdown comes at any time.
  Correct means: each occurrence is dispatched, once; no two runs of an
  exclusive task overlap, and a run is skipped only while another is in
  progress; a lock belongs to somebody; shutdown drains and leaves nothing.
* **Schedule.** Calls are chained in any order and may be wrong. Correct means:
  the first mistake surfaces and keeps the event from running; restrictions
  restrict; a schedule that validates runs some day.
* **Sink.** Threads must never wait, the worker is slow and may fail, and what
  it does must not feed it. Correct means: every event accounted for exactly
  once; each thread's events in order; drops reported; rest when nobody logs; a
  clean exit when the channel closes.
* **Logging tasks.** Each sink's task is spawned while the sinks are built, and
  the init may still fail; sweeps work from a listing that is out of date.
  Correct means: one ordered stream of publications, no worker left behind, the
  newest files of every prefix kept.
* **Database manager.** Two first users build a pool each. Correct means: one
  pool per connection and cache in everybody's hands; an outcome that depends on
  the configuration, not on who came first; no lock waits for itself.
* **Migrations.** Servers and consoles of several releases meet on one database;
  a rollback decides before it has the lock; statements fail, processes die.
  Correct means: no version applied before an earlier one, success means the
  release's own state, a rollback spares what it was not asked to undo.
* **Configuration.** Files, `.env` and process variables come in the system's
  order and may contradict each other's shape. Correct means: a tree comes out,
  and it is the files overlaid with the variables.
* **`schedule:run`.** One process a minute, late, slow, overlapping with the
  next. Correct means: an occurrence falls to exactly one of them.

`PROJECT.json` lists the hazards at the lines where they bite, each with the
properties that watch it.

## 2. Modules

| Module | Models | Builds on |
|---|---|---|
| `BuildOnce` | abstract specification: a cache whose cells are published at most once | |
| `Container` | concurrent resolution, scopes | refines `BuildOnce` |
| `ContainerBuilder` | what `ContainerBuilder::build` makes of a list of registrations, and the container that resolves from it | `Container` |
| `MCContainer` | four small applications | `ContainerBuilder` |
| `ContainerProofs` | theorems about cells, calls and registrations | `ContainerBuilder`, TLAPS |
| `DueEvents` | the events of a schedule and `is_due_with`'s window | |
| `Scheduler`, `MCScheduler` | `Scheduler::work` and the lock store | `DueEvents` |
| `ScheduleRun`, `MCScheduleRun` | `run_once` in processes that cron starts | `DueEvents` |
| `SchedulerProofs` | theorems about `Scheduler` and `ScheduleRun` | both, TLAPS |
| `Schedule`, `MCSchedule` | registry, fluent builder, compiled expression | |
| `ScheduleProofs` | theorems about `Schedule` | `Schedule`, TLAPS |
| `DatabaseSink` | database log sink and the guard's drop | |
| `DatabaseSinkProofs` | theorems about `DatabaseSink` | `DatabaseSink`, TLAPS |
| `DatabaseManager`, `MCDatabaseManager` | the set-once manager and its two caches of pools | refines `BuildOnce` |
| `DatabaseManagerProofs` | theorems about `DatabaseManager`, the refinement among them | `DatabaseManager`, TLAPS |
| `Migrations`, `MCMigrations` | `migrate`, `rollback` and the boot's `auto_migrate` | |
| `MigrationsProofs` | theorems about `Migrations` | `Migrations`, TLAPS |
| `Logging`, `MCLogging` | the life of the logging tasks: init, queue worker, retention, guard | |
| `LoggingProofs` | theorems about `Logging` | `Logging`, TLAPS |
| `Config`, `MCConfig` | loading, overriding, installing and reading the configuration | |
| `ConfigProofs` | theorems about `Config` | `Config`, TLAPS |

`*Mutant of X*` comments mark operators that are a wrong version of the
definition below them. They are not part of the models; each shows that a
property fails when the code is wrong in that way.

### Container

A call is a pair of its task and the path of requests from the task's own code
down to it; the keys on the path are the immutable chain of `RESOLVING_STACK`.
`calls` maps live calls to a program counter (`entry`, `insert`, `cell`,
`build`, `done`, `failed`), the position among the entries asked for (a group
has several), the instances so far and the error. `cells` maps
`<<Process, entry>>` (singletons) and `<<task, slot key>>` (the scope of the
task's request) to the permit holder and the published value.

| Action | Code |
|---|---|
| `Resolve`, `ResolveDependency` | a new call, up to its first entry: cycle check and map look-up in the code's order (`container.rs` 199-275) |
| `UseValue` | `Entry::Value` |
| `FindSlot`, `InsertSlot` | `Scope::resolve_for`'s read lock, then its write lock (`scope.rs` 62-89), with whatever happens in between |
| `ReuseCell`, `BeginBuild` | `OnceCell::get_or_try_init`: published value, or the free permit |
| `FinishBuild`, `FailBuild` | the factory returns; its error, or a dependency's, gives the permit back and drops the branches below |
| `DropCall` | the result is taken, or the future is dropped |
| `EndRequest` | `ScopeMiddleware::handle` returns and the scope goes away |

A waiter on a permit is a call that may neither reuse nor build; when the
initializer fails it becomes one that may build, as `OnceCell` waiters do. An
instance is its entry and the number of the factory run; panics in factories are
failures, and code that races two dependencies and keeps one is left out. An
error carries the call it arose in, task and path, so that an error taken over
from another task's factory run is told from one's own even where both tasks
stand at the same path.

### Scheduler

Time is discrete. An event is the set of its occurrences, so that the cron
library is outside the module. The tasks of the `JoinSet` run on other worker
threads, so the loop is a step at a time, and a task may end, the clock move and
Ctrl-C come between any two of them:

| Action | Code |
|---|---|
| `Plan` | the first clock reading and the deadline, cut to `Ms`, a millisecond (`scheduler.rs` 153-156) |
| `Wake`, `Shutdown` | the two arms of `select!` |
| `Join` | one turn of `reap`'s loop, or of the drain's: `handle_join` |
| `Reaped`, `Stop` | these loops find nothing more |
| `Look` | the second clock reading and the events it makes due |
| `Skip`, `Dispatch` | the pass over them, event by event: `try_lock` says no, or the event is spawned; each `try_lock` reads the clock itself |
| `Finish` | a task ends, as `ok`, `failed` or `panicked` |
| `Tick` | the clock, up to `MaxLate` past a deadline, `MaxGap` from the end of a sleep to the next planning, `MaxRun` in a run |

`inflight` and `readings` are history: which runs were in progress when the
reaping before the pass ended, or were spawned by the pass, and at which times a
pass looked. Two clock readings of the loop are never equal (a bound of `Wake`):
a sleep of nothing is a sleep of one unit. A task that ends between the reaping
and `try_lock` still has its lock, so an event may be skipped for a run that is
over; `SkippedOnlyForARun` says what is true, that the run was in progress when
the reaping ended. `NoOverlap` is checked with `MaxRun + MaxGap < Ttl`: with runs
longer than `LOCK_TTL` (24 hours) the lock is taken over by design
(`scheduler.rs` 15-18).

### Schedule

A cron field is the set of values it admits, an expression a sequence of five or
six fields, refused text the empty sequence; `Matches` states the meaning of the
cron library, its "either day" rule included. Each group of builder methods is
an action on the last registered event. `first` is history: the first error
each event's chain ran into. The calendar is cut to a few values per field (the
weekdays are the real ones), and inputs go one beyond each range.

### DatabaseSink

`Emit` is `on_event` up to `try_send`; `CountDrop`, its `fetch_add`, is a step
of its own, because the worker may swap the counter in between. The worker's
steps follow the awaits of `spawn_db_worker` and `flush_batch`; one INSERT is
one step and may fail. `DropGuard` and `GuardReturns` are `LoggingGuard::drop`
on either kind of runtime. Durations are left out: a timeout may fire at any
time its guard allows. The INSERT a worker is aborted in has happened or has
not, which are the abort after `Insert(TRUE)` and the abort before it. A
target stands for all targets with its prefix; of the excluded ones it is sqlx's
that the worker itself causes, one event for each INSERT. `DropSubscriber` stands
for a subscriber that is dropped: the global one never is (`guard.rs` 90-92),
one that is installed for a scope is.

### DatabaseManager

A caller's record says where its use is (`look`, `build`, `insert`) and what
came of it (`got`, `failed`). `InstallWith` is the `OnceLock`'s `set`; `Ask`
covers every accessor of the facade, the panic without a manager and the missing
default; `LookUp`, `Build` and `Insert` are the three parts of `connection_for`
and `any_pool_for`, under the read lock, no lock and the write lock of the cache.
Tokio's `RwLock` is fair, so each is a `line` of its holders and waiters, first
come, first served: a reader has the lock when no writer came before it, a writer
when nobody did (`Has`). Asking for the lock (`Request`) is the end of the step
before, dropping the guard (`LetGo`) the end of `LookUp` and `Insert`. `Drop` is
the end of the use, `Cancel` that of its future at one of the two awaits: it
leaves the line, and the pool it built is gone. A pool is known by its driver
and its builder. A connection's entry is abstracted to what `driver.rs` tells
apart: its driver, the parsers that accept its `url`, whether host and database
are there, and whether the address made of its parts is a URL (`any_url` puts
credentials into it as they are). `anyDrivers` is the `Once` of sqlx's drivers.

### Migrations

A process runs one command at a time: `RunCommand` is `migration:migrate` and
`migration:rollback` with and without `--connection`, `Boot` the loop of
`bootstrap/app.rs` over `auto_migrate_targets`. `Open` reads the directory and
looks the connection up, `List` is `last_applied_versions` without a lock; the
rest (`Lock`, `Load`, `Apply`, `Revert`, `Unlock`) is sqlx's `run` and `undo`,
modelled from their use, a migration per step. `QueryFails` and
`StatementFails` end a command with an error, the latter with a half-run
migration where DDL is not transactional; `Crash` may do the same anywhere. A
connection outside `Locking` (sqlite) has no migration lock.

### Logging

`BuildSink` is one turn of `init_with`'s loop: the task of a sink runs from then
on, and a builder's error drops the layers, hence the senders, of the sinks
before it. `Receive`, `Publish`, `ReturnFromLoop` are the queue worker;
`BeginSweep`, `RemoveFile`, `EndSweep` the retention task, whose removals go on
on a blocking thread after an abort; `DropGuard` and `Await` the guard, worker by
worker; `Log` and `Write` the application. Log files come in series, one for each prefix
and rotation, with a file for each period: a sink opens the file of the current
period when it is built, and its appender goes on to a later one with a write
(`Period`, `Open`, `WriteTo`; a sink that never rotates stays with one). Sinks of
one prefix and rotation share a series; a sweep matches by prefix alone, so it
counts the files of other series too (`Excess`). Time is only the order of writes. A
database sink's worker does here nothing but end; what it does with its entries
is `DatabaseSink`.

### Config

A tree is a function from paths to values, whose inner nodes hold `Table`.
`ReadFile` takes the files in any order and may fail, `Override` takes the
variables in any order, each through `SetPath`, which is `set_path`'s walk as one
function: what is above the path becomes a table, what was at it or below goes.
`given` keeps `.env` and the process's variables apart, so that the property can
say which wins. `ReadSection` is `try_value` of a struct: one misfit and the
section reads as its default.

### ScheduleRun

Each minute's process reads the clock once (`Start`), then passes over the
events in order: `PassOver` for those not due, not led, locked or invalid,
`Execute` and `Complete` around the awaited task, `Die` for a panic or a kill,
`Exit` for the command's result. Every process has its own lock store.

## 3. Runs

| Run | Shows | Bounds and why they are enough |
|---|---|---|
| `ContainerDiamond` | permits, agreement, one build, genuine cycles, and (with fairness) every resolve ends | two tasks, one top-level request each: a race needs two; the graph has a diamond (the false-cycle case), a leaf that may fail, a key registered twice, a cycle, and a scoped service outside a request |
| `ContainerRequests` | isolation of scopes, order and completeness of groups, own errors, no standstill, refinement of `BuildOnce` | two requests; every lifecycle inside a group, a group inside a group, a key registered twice, two branches that want one slot, a scoped service and a singleton that may fail while others, the other task on the same path among them, wait for them |
| `ContainerPair` (violation) | two tasks deadlock on a cycle of two singletons | |
| `SchedulerMinute` | lock discipline, occurrences repeated or passed over only by an early wake-up, skips justified, shutdown drains and stops | three events, two of them of one exclusive command, one that may panic; three minutes, a minute of four units and a millisecond of two, so that sleeps end early, in time and late; runs longer than a minute; slow turns of the loop |
| `SchedulerMixed` (violation) | an every-second event multiplies a daily one | |
| `ScheduleBuilder` | restrictions, first error, validity | one event: a builder method reads and writes only the last one; two values of second, minute, day and month, three hours (a range can be proper), seven weekdays |
| `ScheduleRun` | each occurrence is executed by one pass, and not lost | three minutes: a pass can overlap with its next and its next but one; a minute of three units, so that starts differ within it; two events of one command with an invalid one between them |
| `DatabaseSink` | conservation, order, clean exit, rest, reports | two threads of two events, a channel of one (drops) and a batch of two (partly filled, full, and next batches) |
| `DatabaseManager` | agreement, outcomes as configured, refinement of `BuildOnce`, every use ends | two callers: a race needs two, and a third only repeats the loser's part; one alone can wait for itself, two for each other; every kind of entry; a name nobody configured; two rival installations |
| `Migrations` | no holes, success means released, rollbacks spare the rest, every command ends | an old and a new release, a database with a lock and one without, versions that only the new release knows, a directory that is missing, a connection that is not configured |
| `Logging` | publications in order, newest files kept, no worker left | two inits that may race, fail half way or come second; two file sinks of one series that keep one and two files; two events, two files made or writes, which is a rotation under a sweep, a channel of two |
| `Config` | a tree, which is the overlay | two sections, seven variables: two spellings of a path, one below it, a new table, an unknown section, no `__`; every subset in `.env` and in the process |

`CHECK_DEADLOCK FALSE` in all runs but `Migrations`: these systems may stop,
because nobody asks for anything more, the clock or the history is at its bound,
or the process ends. In `Migrations` processes come back for ever, and TLC finds
no state without a step.

Further configurations are kept beside the runs for the disagreements below:
`ContainerComposite`, `SchedulerEarly`, `SchedulerLost`, `SchedulerPanic`,
`SinkGuard`, `ScheduleModifiers`, `ScheduleRunOverlap`, `MigrationsRollback`,
`RetentionOmitted`, `RetentionMixed`, `ConfigNumeric`. Each has one property, which TLC finds
violated. The type invariants and the inductive invariants (`TypeOK`, `IInv`,
`RollbackInv`, `PassInv`, `Shaped`, `Told`) were checked by TLC before they were proved; any of these
configurations takes them as a further `INVARIANT`.

### Fairness

* `Container`: weak fairness of each task's polling. Tokio polls a task that was
  woken, and factories end. No task has to ask for something or give up.
* `Scheduler`: weak fairness of the loop's own steps and of tasks ending, strong
  fairness of `Shutdown`: `select!` polls its arms in random order, so a signal
  that waits is not passed over for ever in favour of sleeps that have ended. None
  of the clock (it stops at its bound) nor of a signal.
* `DatabaseSink`: weak fairness of the worker (its timers fire, its queries end)
  and of a thread leaving `on_event`; nobody has to log, install or stop.
* `DatabaseManager`: weak fairness of each caller's steps, which a lock held by
  another does not enable: that everybody's turn in the line comes is what
  `EveryUseEnds` shows. Nobody has to ask.
* `Migrations`: strong fairness of a process's progress, because the lock comes
  and goes and databases queue those who wait for it; weak fairness of the exit
  of a command that failed. Servers need not stop; no query has to fail, so that
  a wait for the lock is not cured by a timeout the code does not set.
* `Logging`: weak fairness of the workers and of the guard's timeouts; sweeps,
  events and writes need not happen.

### Disagreements found

1. `container.rs:270` A group key and a singular key of one type are equal in the
   chain: a default `T` built from all multibound `T`s is refused as circular,
   though the two "never collide" (`ContainerComposite`).
2. `container.rs:316` The chain is per path, so a cycle entered from two ends by
   two tasks deadlocks instead of being reported (`ContainerPair`).
3. `scheduler.rs:163` Every wake-up looks a whole minute back, whatever came
   before: events of different granularity multiply each other
   (`SchedulerMixed`).
4. `scheduler.rs:195` The sleep is cut to milliseconds and may end before its
   occurrence, within the window of the previous one, which is then found again
   (`SchedulerEarly`, an `every_minute` event alone). The early pass does not find
   its own occurrence; if the next planning comes only after it, the loop sleeps
   for the one after that and the occurrence is lost (`SchedulerLost`).
5. `scheduler.rs:270` A panicked task's lock is never released
   (`SchedulerPanic`).
6. `event.rs:338` `between` and the weekday filters replace fields instead of
   restricting them (`ScheduleModifiers`).
7. `guard.rs:114` The guard does not flush (`SinkGuard`).

8. `migrate.rs:57` A rollback does not always revert "exactly one migration"
   (`documentations/database.md:179`): another process may have reverted the
   newest in between, or migrated further, and then it reverts none or several
   (`MigrationsRollback`).
9. `logging/sink/file.rs:156` A sweep matches names by prefix alone. Of a daily
   and an hourly sink with one prefix, each keeping a file, one's sweep removes
   the file the other is writing, where the comment N-5 (`file.rs:159`) is at
   pains that the active file is not taken for the oldest (`RetentionMixed`).
10. `logging/config.rs:27` `keep_files` omitted keeps seven files, where
   `config/logging.toml` says "omit for unlimited" (`RetentionOmitted`).
11. `config.rs:230` A variable's text decides its type, so that a password of
   digits makes the whole `database` section unreadable, and its reader takes the
   default, where `documentations/configuration.md:3` says any value can be
   overridden (`ConfigNumeric`).
12. `lock.rs:22` Two `schedule:run` processes overlap on a `without_overlapping`
   event, because locks are in memory, though `src/src/app/console/schedule.rs`
   says of its hourly example that it is skipped while the previous run is in
   progress (`ScheduleRunOverlap`).

Number 2 and number 3 are listed as runs; the others are the configurations named.

Seen while modelling, without a configuration of their own:

* the group `""` and the default group share slot labels (`container.rs:276`);
* INSERT failures neither back off nor are retried, though `sink/database.rs:74`
  speaks of the next flush cycle;
* an event's command whose name starts with `closure-` escapes `validate`
  (`registry.rs:74`);
* `millis_until_next` promises one clock reading per tick and the loop takes two
  (`scheduler.rs:154,163`);
* `main.rs` boots through the console and its `serve` command, which never run
  the `auto_migrate` loop that `documentations/database.md` describes; only
  `bootstrap::app::run` does;
* sqlx's error path returns without unlocking: the lock is free only when the
  pool closes that session;
* the sqlite driver has no migration lock: two processes may collide there, which
  is why the properties of the history speak of `Locking` connections;
* configuration keys with capital letters cannot be reached by a variable, since
  the variable's name is lower-cased;
* `default_level` of the logging section is read by nobody;
* an init that fails after a file sink was built leaks that sink's retention
  task; `keep_files = 0` lets a sweep delete the file in use, and so does a prefix
  that starts with another's (`KeepsTheNewest` is stated for series that no other
  series' sweep matches, `Lone`).

## 4. Proofs

`tlapm` checks every theorem below for all values of the constants, from the
named assumptions `ContainerAssumption`, `BuilderAssumption`, `DueAssumption`,
`SchedulerAssumption`, `ScheduleRunAssumption`, `ScheduleAssumption`, `SinkAssumption`,
`ManagerAssumption`, `MigrationsAssumption`, `FilesAssumption`, `LoggingAssumption`
and `ConfigAssumption` (types of the
constants, non-empty groups, `None` distinct from values, maps built from the
registrations; TLC evaluates them all).

**ContainerProofs.** `Invariance` proves `Spec => []IInv`. The wanted
invariants are not inductive: that a published cell is not overwritten depends
on its builder having the permit, which depends on the call being at the entry
whose cell it locked, which depends on its position among its entries. `IInv`
therefore says, per call, that it stands at one of its entries with an instance
for each before it (`WellPlaced`), that its program counter agrees with the
lifecycle and the cell (`HasItsCell`) and that it holds what is published
(`HasPublished`); per cell, that the permit's holder is a live call building for
that very cell and that nothing is published yet (`CellOK`); per singleton, that
an unpublished one was never built (`SingletonOK`). Each action has a lemma; the
ones that drop futures share lemmas on what survives (`Survivors`, `Released`).
`TypeCorrect`, `PermitsAreReturned`, `HoldersAgree` and `SingletonsAreBuiltOnce`
follow from it: `TypeOK`, `PermitHeldByBuilder`, `Agreement`, `BuiltAtMostOnce`.
`PublishesOnce` shows by the same invariant that `Container` implements
`BuildOnce`: a step opens a cell, publishes in one, lets calls obtain what is
published, closes the cells of a request that ends, or changes none of it.

Single calls: `Movement` sums up a step from the view of one call: it
stays as it is, is opened by a task or by a build above it, or moves, and what
it gets is its entry's value, a fresh instance or its cell's content. `PathInv`
says that the keys above a call that was not refused are distinct and that an
error arose in the call's own task, at or below the call; `RecursionEnds` (`ChainsAreDistinct`,
which no run repeats) and `NobodyElsesErrors` follow. `NoFalseCycles` assumes
`KeysApart`: the chain holds keys only, so a key asked for both alone and as a
group is refused without a cycle (`ContainerComposite`). `OriginInv` says that a
cell's instance is of the one entry the cell belongs to, numbered by what that
entry has built, and that no two cells hold the same instance;
`GetsWhatItAskedFor` and `RequestsDoNotShare` follow. They assume
`GroupsAreNamed`: the slot keys of a multi-binding write no group as the empty
name (`container.rs:276`), so a group of that name would share its slots.

Registrations: under the same hypothesis `GivesWhatWasRegistered` compares what
a call got with the list of the builder's calls. That takes three facts about
the built maps: the entry of a key is that of its last place (`MaxFacts`); the
places of a group have ranks, each rank once (`Ranks`), so that `Pushed` lists
them in order (`PushedInOrder`); and every registration is an entry of its own,
so that an instance tells its registration. `DoneIsHonoured` adds that a call
that is done has an instance for every entry it asked for, in their order.

Deadlock: the chain of ancestors finds a cycle on one path only, so whether
calls can wait for each other's permits is decided by the registrations.
`Acyclic` says that entries can be ranked, with a factory asking only for
entries of lower ranks; `ContainerRequests` is such an application, while
`ContainerPair` is not and comes to a standstill. Then
`NeverAtAStandstill`: of the unfinished calls, look at one whose entry has the
least rank. The holder of a permit it waits for is at the same entry
(`HolderFacts`, because a cell belongs to one entry), and whoever builds there
has no unfinished dependency, since that would rank lower (`BuilderFacts`); so it
asks for the next one, returns or fails. `Ready` lists these cases without
`ENABLED`, which the prover does not know; TLC finds `Ready(c)` equal to
`ENABLED Poll(c)` in all four applications. `NobodyWaitsInACircle` says more of
the waiting calls: `Descent` adds to `IInv` that everything a live call stands
below is alive and that ranks fall along a path, so a call waits only for work of
a lower rank than its own (`WaitsDescend`). Both bound what fairness has to do
in `EveryResolveEnds`. The code does not reject a cycle of registrations at build
time: `Acyclic` is a condition on the application.

**SchedulerProofs.** The loop promises what it does only under conditions, which
the theorems name; `SchedulerMinute` satisfies all of them, and for two of
them a configuration of section 3 shows what happens otherwise.
`NoExclusivePanic` (a task without overlap does not panic; see
`SchedulerPanic`): `OwnInv` says that every lock was taken by a run not yet
reaped, that such a run gives it back, and that during a pass `inflight` is all
of the `JoinSet`, since nothing is joined then: whoever has the lock was in
progress when the reaping ended, or is the pass's own, whether it has ended
since or not. `LocksOwned`, `SkippedForARun` and `DrainedClean` follow.
`ShortRuns` (a run, and the turn of the loop it ends in, are over before
`LOCK_TTL`): `LockInv` says that an exclusive run holds the lock it took, at that
time, alone among its id; it is younger than the lock's life, and one that ended
during the pass was running when the loop woke, so the lock is not free for
another. `RunsDoNotOverlap` needs no hypothesis on panics: a leaked lock keeps
others out. `WholeMinutes` (see `SchedulerMixed`): whatever a millisecond is,
`TurnInv` says that the loop sleeps to less than a millisecond before some
occurrence and that every earlier pass was before that one; occurrences are whole
minutes, so a pass at or after it finds nothing an earlier one found, and
`DueOnce` is left with the pass that is early (`SchedulerEarly` shows it). With
`SmallDelays` (what a sleep oversleeps and a turn takes stay below a minute
together), `CoverInv` says that each occurrence below the one the loop sleeps for
was found, or narrowly missed by an early pass (`Known`), and that after a pass
this holds until well after the next planning, hence `NoneLost` (`SchedulerLost`
shows the exception). `TypeCorrect` is the type invariant, which no run repeats.

`schedule:run` (`RunSpec`) takes its place in the same module because it shares
the events and their window. `InOrder` says that a process stays in its minute,
holds a lock only while a task of that id executes, and has run what was due
among the events it is past. `RunsOnce` adds, under `WholeMinutes`, that whole
minutes less than a minute apart are equal; `RunsAll` is that invariant at the
end of the pass.

**ScheduleProofs.** `EventsTyped` proves the types, which say that checked
values are in range and that a range of hours is never empty. `FirstErrorStays`
adds that an event's error is the history's first one. `ValidEventsComeDue`
shows that all checked frequencies compile to six fields with a value in each
(`Inhabited`), that restrictions keep it so, and that such an expression has an
occurrence. `ModifiersRestrict` shows that restrictions of open fields admit
exactly the named occurrences; the "either day" rule needs that a weekday filter
is never all weekdays.

**DatabaseManagerProofs.** `IInv` says that every cached pool is sound (its
entry is in order, the driver is the entry's, sqlx's drivers are registered
where that matters) and that a caller about to insert has a sound pool, one that
was served has the cached one, one that failed has the error it deserves.
Outcomes are not inductive without it: a caller served from the cache never
looks at the entry. The order of the line plays no part in them: safety rests on
the look-up and the insertion being a step each, which the locks make them. `UsersAgree`, `OutcomesAreConfigured` follow, and
`PublishesOnce` shows by the same invariant that every step is a step of
`BuildOnce` or leaves its variables alone.

**MigrationsProofs.** `RollbackSpares` needs no assumption on the releases: what
a rollback undoes lies above the version it chose, and of those it listed only
one does (`RollbackInv`, with finite tables, since only then does a count of one
name a version). `HistoryIsWhole` and `ReleaseIsReached` assume `LinearHistory`:
the releases are points of one history and every migration has its down file,
which is how the documentation wants the files. `IInv` then says that who is
between the load and the unlock holds the lock, that no version is dirty there,
and how the table, what is left to do and the directory add up.

**DatabaseSinkProofs.** What is on its way are the rows, what is left of the
batch and the channel, in this order; `Ordered` says that each of them has each
thread's entries in order, that those further back come later, and that none has
a number its thread has not reached. `Placed` ties the worker's place to the
batch and to the closed channel. `StoresInOrder`, `ExitsClean` and `TypeCorrect`
follow. `Pure` (nothing of the worker's own activity enters the sink) is what
keeps `Insert` from growing the channel. `EventsAreConserved` needs no induction over
the entries: `Counted` says that what is in the pipe and what is gone (failed
with an INSERT, lost with a flush, discarded with the channel) are apart, all
were issued, and together with the drops are as many as were issued. A step moves
entries from the pipe to where they go (`LeavesCounted`), adds one, or counts a
drop; order makes the parts of the pipe disjoint.

**LoggingProofs.** `Published` follows an event from `on_event` to the
publication: a worker's published entries, the one it is at and its channel are
rising in this order, below the number of the next event, and only the installed
subscriber's tasks ever have any; a task belongs to a sink that was built, of its
caller's configuration, and sinks never change (`Placed`, `Lasting`).
`SweepsKeepTheNewest` rests on `Kept`: a series' files have numbers of their
own, a later one was written later (`Numbered`), and what a sweep has yet to
remove lies at least `keep` numbers below the newest (`SweepOK`). A listing made
before a rotation stays true, because numbers only grow; that it is true when
made is a counting argument (`ExcessIsOld`: the newer files of a series map into
the numbers above). A sink with `keep_files = 0` removes the file in use, and then
nothing is claimed of its series. The property speaks of a series that is `Lone`:
no sink built so far with another prefix or another rotation has a prefix that
covers its own or is covered by it. `RetentionMixed` shows what happens otherwise.

**ConfigProofs.** The paths above a path are its proper prefixes
(`NodesAreAbove`), so what `set_path` makes of a tree is a tree
(`SetPathIsTree`): a table it makes or keeps is above everything that stays.
`Shaped` adds that the files, whose nodes begin with their section, never meet;
`RootIsATree` needs nothing else. `Told` says, at every moment of the overriding,
what `LoadedIsOverlay` says at its end, with the variables written so far
(`Written`) for all of them: the next variable, apart from those, takes nothing of
theirs away. `LoadsTheOverlay` follows. The theorems assume of a file only that it
is a tree and of a path that it is not empty (`ConfigAssumption`).

Model-checked only: liveness (`EveryResolveEnds`, `ShutdownStops`,
`ComesToRest`, `DropsAreReported`, `EveryUseEnds`, `EveryCommandEnds`,
`NobodyIsLeft`), which needs fairness and is beyond the prover. Every other
property of a passing run is a theorem.

## 5. Not modelled, and the plan

* **HTTP routing and middleware, `TrimStrings`**: building a router is a
  sequential composition of axum's; a body is rewritten or passed on as a whole.
  No state is shared and no step is left open between them.
* **Console kernel and arguments**: a table of commands that is complete before
  anything is dispatched, and a parser of words.
* **Global container**: a `OnceLock` with the same set-once behaviour as the
  database manager's, which `DatabaseManager` models.
* **Bootstrap**: the boot order as such; the parts of it where something can go
  wrong are in `DatabaseManager` (use before installation), `DatabaseSink` (a
  worker before the manager), `Logging` (init and guard) and `Migrations` (the
  boot loop).
* **`migration:create`**: two new files, named after the time.
* **Captive dependencies**: a singleton's factory may keep a scoped instance; the
  container promises nothing about it.
* Wording and formats of log lines, error pages and CLI output
  (`logging/format.rs`, `error.rs` files), since no behaviour depends on them;
  the cron, sqlx, axum and tracing libraries, which are modelled from their use;
  the example application in `src/src/app/`.

Next: a composition of the boot order with guard, manager and container.

## 6. Running

    tlc -workers 2 -config ContainerDiamond.cfg MCContainer
    tlapm ContainerProofs.tla
    tlc -config MigrationsRollback.cfg MCMigrations    # a disagreement of section 3

Each `.cfg` names its run; `PROJECT.json` says which module it belongs to.
