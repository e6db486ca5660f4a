# A TLA+ model of upwatch

upwatch watches services: it runs a check of each monitor at an interval,
confirms an outage after a number of equal results, opens an incident, alerts,
and keeps the history. This directory models it where order, concurrency,
failure and boundaries decide whether an operator is told the truth: first the
core - scheduler, incident engine, batch writer, dispatcher, and how they stop
together - and then the services around it: reminders, rollup, the sentinel,
the probe agent, push monitors, maintenance, the trees of monitors and groups,
accounts and scopes, the event stream, the panel, announcements and the public
page, channels and delivery, secrets, and the verdicts of the checkers.

TLC checks the modules on small instances; TLAPS proves the main safety results
of eighteen of them for every value of their constants. `PROJECT.json` lists the
runs, the map from definitions to source lines, the hazards and the findings.

To run: `tlc -config EngineCrash.cfg MCIncidentEngine.tla` or `tlc -config
Services.cfg MCServices.tla` (about four minutes; see the table of runs for the
others), `tlapm IncidentEngineProofs.tla` (likewise the other seven `...Proofs`
modules; each takes a minute or two, `MonitoringProofs` nine and `AccessProofs` five).

## 1. The system

### Components

| Component | Source | State | Operations | Talks to |
|---|---|---|---|---|
| scheduler | `internal/scheduler` | `index`, `queue` (heap of entries), `wake` (buffer of one), the semaphore, the goroutine of each check | `Upsert`, `Remove`, `Run`, `takeDue`, `reschedule`, `signal`, `runCheck` | calls the checker, then the sink: writer and engine |
| incident engine | `internal/incident/engine.go` | `monitors`, `states`, `aliveAt`, `failingSince` under one mutex; tables `monitor_state`, `transition`, `incident` | `Load`, `Upsert`, `Remove`, `Submit` (`screen`, `evaluate`, `record`, `notify`) | forwards heartbeats to the writer, alerts to the dispatcher; asks the calendar |
| confirmation machine | `internal/incident/state.go` | none (a pure function) | `Next` | used by the engine |
| batch writer | `internal/store/writer.go` | queue, buffer, counters | `Submit`, `Run`, `drainQueue`, `flushAll`, `flush`, `retain` | one transaction per batch |
| alert dispatcher | `internal/notifier/dispatcher.go` | queue, one delivery per worker, counters | `Enqueue`, `Run`, `work`, `drain`, `deliver` | the channels |
| process lifecycle | `cmd/upwatch/main.go` | one context, one wait group | `run`, the stop | starts and awaits the components |
| dependency tree and monitor API | `internal/domain/dependency.go`, `group.go`, `internal/api/monitor_handlers.go`, `dependency_handlers.go`, `group_handlers.go` | group and parent of each monitor, parent of each group | `ParentCycle`, `DownAncestor`, create, update, delete, the children of a parent | the database, then `Upsert`/`Remove` of scheduler and engine |
| maintenance calendar | `internal/maintenance`, `internal/domain/maintenance.go` | windows, targets, groups, in tables and in a cache | `Reload`, `Run`, `Covering`, `NextOccurrence`, the requests that write windows | asked by the engine |
| push | `internal/checker/push.go`, `internal/domain/push.go`, `internal/api/data_handlers.go` | the last signal of each monitor and whether it was evaluated | the receiving handler, `Check`, `observe`, `MarkPushEvaluated` | checked by the scheduler |
| request limit | `internal/api/ratelimit.go` | a bucket for each origin | `allow`, `forgetIdle` | in front of the push and setup handlers |
| reminders and acknowledgement | `internal/incident/reminder.go`, `internal/api/incident_handlers.go` | `reminded_at`, `acknowledged_at` of the incidents | `Tick`, `MarkReminded`, `Acknowledge` | reads open incidents, enqueues alerts |
| rollup and retention | `internal/rollup` | watermark, statistics | `RunOnce`, `aggregateResolution`, prune | reads what the writer writes |
| network sentinel | `internal/sentinel`, `internal/checker/checker.go` | cached verdict, `proven` | `NetworkUp` | asked by checks that failed |
| checkers | `internal/checker` | assertions kept per monitor, sessions on a database | `Check` of each type | the targets |
| probe agent | `internal/probe`, `cmd/upwatch-probe` | the file, the workers, one-slot outboxes, the file of states | `Update`, `reload`, `Apply`, `Post`, `deliver`, commands and interface | sends push signals |
| accounts, sessions, scopes | `internal/auth`, `internal/store/sqlstore/auth.go`, `internal/api/access.go` | accounts, failures of login, sessions, what each reaches | setup, login, `SetAccess`, `ChangePassword`, delete, the guards | every handler |
| event stream | `internal/api/events.go` | subscribers, their buffers and scopes | `publish`, the handler of a stream | fed by engine and API |
| panel and summaries | `internal/api/group_handlers.go`, `summary_handlers.go`, `internal/summary` | none | the cards, the problems, the summaries, the lines | reads everything |
| timeline | `internal/api/monitor_events.go`, `internal/store/sqlstore/timeseries.go` | none (the reader keeps a cursor) | pages of events, incidents, heartbeats | reads while checks write |
| announcements, public page | `internal/api/statuspage_handlers.go`, `internal/statuspage` | pages, sections, components, announcements and their timelines | create, edit, publish an update, the page | read by visitors |
| channels and delivery | `internal/api/channel_handlers.go`, `internal/notifier` | configuration with a credential, targets | create, edit, `CarrySecrets`, `Send` | sent to by the dispatcher |
| secret box | `internal/secretbox`, `internal/store/sqlstore/secrets.go` | the key, the sentinel row, sealed values | `verifyKey`, `sealAtRest`, `RotateSecretKey`, `Forget` | the monitors' credentials |
| SQL text, configuration, web interface, metrics | respective directories | - | - | not modelled, see section 6 |

### How they interact

A slot of the scheduler runs `Check`, then `Engine.Submit` in the same
goroutine. `Submit` screens the heartbeat (maintenance, a parent in an outage, a
parent that may be going down with the child), hands it to the writer's queue
(waiting up to five seconds for room), and evaluates it: read the state under
the mutex, decide outside it, write it under the mutex, then save, record the
transition, open or close the incident and enqueue the alert, each a call of its
own. The API edits scheduler and engine from its own goroutines, after its
write to the database. All components share one context: the signal to stop
ends it for all of them at once, and the process exits when all have returned.

### What is hard

- `Submit` is a sequence of critical sections and store calls, with everything
  else running between any two of them, and a crash possible there too.
- A check of a monitor outlives the removal of the monitor, and its return.
- Parent and child fail together and are noticed apart.
- Queues, the backlog and the slots have limits and each has its own policy at
  the limit: wait, drop the newest, drop the oldest.
- The stop is concurrent with everything.
- The API and the workers read, decide and write in separate statements. What
  protects them differs from case to case: a condition in the statement that
  writes, a transaction, a lock, or nothing.
- Caches (calendar, scope of a stream, sentinel, assertions, compiled rules)
  answer with what was true earlier.
- Wall clocks skip and repeat hours; windows and schedules are on wall clocks.

What has to be right, per component: the confirmation machine confirms exactly
after N agreeing measurements; the engine alerts once per outage, only about
open incidents, crash or no crash, and its memory, its saved rows, its history
and its incidents agree; the scheduler neither loses, duplicates nor starves a
monitor and never checks one twice at a time; the writer conserves heartbeats
in order and loses only the oldest; the dispatcher accounts for every alert;
the stop loses nothing that was accepted. Of the services it is said with each
module below.

## 2. Modules

| Module | Models | Extends / instances |
|---|---|---|
| `Confirmation` | `incident.Next` as operators | - |
| `ConfirmationLog` | every sequence of observations through that function, with the sequence recorded | `Confirmation` |
| `IncidentEngine` | the engine, its tables, crash and restart | `Confirmation` |
| `AlertContract` | what the engine promises those it alerts (abstract) | instanced by `IncidentEngine` |
| `Scheduler` | loop, queue, tasks, API edits | - |
| `BatchWriter` | queue, buffer, flush, database | - |
| `Dispatcher` | queue, workers, retries, drain | - |
| `Shutdown` | the three above under one context | instances `Scheduler`, `BatchWriter`, `Dispatcher` |
| `Reminders` | the reminder loop, acknowledgement, the engine that closes | - |
| `Rollup` | heartbeats into statistics, retention | - |
| `Aggregation`, `Summary` | the numbers of a bucket, of a window, of a page | `Summary` extends `Aggregation` |
| `Sentinel` | the cached verdict on the network of the host | - |
| `Checks`, `SqlCheck` | verdicts of the checkers; the check of a database | - |
| `Probe`, `ProbeFile` | the probe agent's daemon; the writers of its file | - |
| `Push`, `RateLimit` | signals, windows and schedules; the limit on requests | - |
| `Calendar` | occurrences, coverage, the cache and its reloads | - |
| `Topology` | groups, parents, the scheduler, under concurrent requests | - |
| `Accounts`, `Scopes` | accounts and sessions; what restricted accounts may do | - |
| `Events`, `Panel`, `Timeline` | what a signed-in reader is shown | - |
| `Announcements`, `StatusPage` | what a visitor is shown | - |
| `Channels`, `Delivery` | configuration of channels; one alert on its way out | - |
| `Secrets` | credentials at rest | - |
| `IncidentEngineProofs`, `ShutdownProofs`, `RemindersProofs` | theorems | the module they are about, `TLAPS` |
| `SchedulerProofs`, `BatchWriterProofs`, `DispatcherProofs` | theorems, and a part each for `SqlCheck`, `Timeline`, `Delivery` | the module they are named after; instances of the others |
| `MonitoringProofs` | theorems, a part for each of `ConfirmationLog`, `Topology`, `Probe`, `Rollup`, `Push`, `Calendar`, `Sentinel`, `ProbeFile`, `RateLimit` | instances these |
| `AccessProofs` | theorems, a part for each of `Accounts`, `Scopes`, `Events`, `Secrets`, `Channels`, `Announcements`, `StatusPage` | instances these |
| `MCServices` | one instance or two of each service, for TLC | instances the services |
| other `MC...` | the instances for TLC | |

Definitions that begin with the comment "Mutant of" (or "Mutant:") are plausible
bugs. Nothing uses them in the specification: each is put in the place of the
definition it varies to see that the property named for it notices.

### Confirmation, ConfirmationLog

`Count`, `Moves`, `Confirms`, `NextState` follow the branches of `Next` and
`Announces`, `Resolves` those of `confirm` and `StateChange.Resolves`. The
instants (`Since`, `At`, `Duration`) are copied by the code and never compared,
and are left out. `ConfirmationLog` records the observations and
`StatusIsLastAgreement` recomputes the status from them with a definition that
has no counter in it.

### IncidentEngine

- A call of `Submit` is a row of `pc`, `beat`, `seen`, `rules`. Its steps:
  `Begin` (the check ended), `Screen` (one critical section: `track`, the
  ancestors, the undecided parent, maintenance), `Read`, `Write` (the two
  critical sections of `evaluate`), `Save`, `Record`, `React` (open or resolve
  the incident), `Notify`.
- `Overlap` says whether two calls for one monitor may be in course at once. The
  scheduler is meant to exclude it and does so except as the run
  `scheduler_returns` shows; the proofs and the runs assume it away, and finding
  2 says what follows from it.
- `Upsert`, `DeleteRow` and `Remove` are the API: the deletion of the row, then
  the removal from memory, as two steps. `Forgotten` is what `Remove` deletes.
- `Restart` is a crash at any point followed by `loadMonitors` and `Load`. `cut`
  remembers the monitors whose call was cut short: what that call still had to
  write is never written, and the two properties that this touches
  (`ConfirmedByRun`, `LedgerMatchesState`) say so.
- `Effective` is what a statement about a monitor does: nothing if its row is
  gone (foreign keys), nothing if the database fails (`StoreFails`), else it
  takes effect. Every such error is logged and otherwise ignored by the code.
- `targeted` is the set of monitors that the calendar says a window points at;
  it changes at any time. The calendar's arithmetic is in `Calendar`.
- Left out: names, messages, group paths, counters. The reminder is in
  `Reminders`, the choice of channels in `Channels`.

### Scheduler

An entry is a Go pointer; `index` maps a monitor to its entry, `queue` is the
heap as a set, `due` what `takeDue` took and `Run` has not yet handed to a slot.
Delays replace instants: `Tick` shortens those of queued entries and of the timer
of the loop. `Enter` takes any first delay below the interval (`firstDelay` derives it
from the id). `owed` are API goroutines between the unlock and the signal.

### BatchWriter

A heartbeat is its number of acceptance and its monitor. A flush is atomic (a
transaction) and fails when the database is away or a row the batch refers to
is gone. The timer may fire whenever the loop waits and has something. After the stop
the loop may still pick a heartbeat or the timer before it sees the end of its
context: the flush it then tries has that context and fails, what it holds is retained,
and `FlushAll`, which uses a context without the end (`WithoutCancel`), writes it.

### Dispatcher

One row of `item`, `attempt`, `phase` per worker and for the goroutine of `Run`,
which drains after the workers. `Send` may succeed, be refused for good, fail in
passing, or fail although the alert arrived.

### Shutdown

Each slot's goroutine does `Forward` (into the writer's queue, or five seconds
pass) and `Evaluate` (perhaps an alert into the dispatcher's queue) in place of
the scheduler's own `Submitted`. `Cancel` is the end of the context for all. The
HTTP server, the rollup worker, the calendar and the session sweeper share no queue
with the three and are not composed. The reminders enqueue into the dispatcher
(reminder.go:199) and are not composed either: an alert of theirs enters the queue as
one of the engine's does. `PromisesKept` says of the heartbeats that they are written
if they fit in the backlog (`BacklogHolds`): a batch, a queue, and what is accepted
after the signal. With a ceiling below that, a flush under the ended context fails and
`retain` drops what was promised; the defaults (500, 4096 and 50000) are far from it.

### Reminders

The loop of `Tick` reads the list of open incidents page by page, takes one row
in hand at a time (`todo`, `read`), decides on it (silence of a parent, of a
window, the interval of monitor, group or installation), marks it with the
conditional statement of `MarkReminded` and then sends. People acknowledge and
the engine closes and opens between any two of these. `RemindersKept`: one author
of each acknowledgement, nothing after it, the interval between two reminders,
one open incident per monitor. `ClosedRowsKept`: a closed row is not written again.

### Rollup, Aggregation, Summary

`Rollup` is the worker's cycle, bucket by bucket and layer by layer, with the
table of heartbeats filled meanwhile, late ones too, and a failure or a crash
between any two writes. A statistic is the set of heartbeats it sums up.
`PrunedOnlyCounted` and `MarkedIsWhole` are claimed of heartbeats that reached the
table before their bucket was over; of late ones the code promises nothing, and
does not count those whose bucket is marked. `Retention.Validate` accepts any positive
raw retention. One that holds a bucket and a cycle (`RawOutlasts`; the default of seven
days does) loses none of these heartbeats; with a shorter one the worker prunes of a
bucket that is still open, which no cycle could have summed up, and `PrunedOnlyCounted` says
that this is all it loses. The part "short retention" is that case. The ghost `summed` is what each layer ever
summed up, as with equal retentions the statistic of a bucket goes before its last
heartbeats. `CountedOnce` holds of all.
`Aggregation` adds heartbeats one by one and compares counts, percentiles and
availability with definitions that sort nothing; `Summary` compares the ways in
which the same window is told: from heartbeats, from buckets, as a line, as the
bars of the public page.

### Sentinel

Ages replace instants. A check that failed asks, with what is left of its own
deadline: cache, dials one after the other, the store of the verdict, each a
step, several checks at once. `VerdictSound`: what is thrown away is thrown away on
evidence, within the life of the cache and the round of dials that filled it,
that each target was away or that a dial was cut short; and never by a sentinel
that reached nothing yet. `MCSentinel` is the instance of finding 5.

### Checks, SqlCheck

`Checks`: the conditions of HTTP, the assertions on JSON, those of Redis, the
verdicts of DNS, certificate and ping, and the assertions kept per monitor while
checks and edits overlap. `PassesEachCondition` relates the verdict of a check to
each condition of the configuration it began with; `VerdictsAgree` is said once of
the verdicts that depend on the answer alone; a Redis must also answer the PING, and
its numbers are compared as floats. `SqlCheck`: session, limit agreed with
the server, read-only transaction, query, rows; every answer takes any time. The limit
is sent in whole milliseconds (`Truncated`; MariaDB's is rounded, `Rounded`) while
MySQL's check compares the time passed, counted from before the transaction, with the
one before truncation: a query cut in the last millisecond of its limit may count as up, which
`UpIsTrue` says. The query goes on in the server when the check gives up: `NeverPilesUp`,
`ServerGivesUpFirst`, `UpIsTrue`, `LongAnswersAreUp`, `SuperusersRunNothing`.

### Probe, ProbeFile

`Probe`: the daemon's reload (by its loop and by the interface), the runner with
one worker per job, the worker's two goroutines and the outbox of one signal, in
the steps of `Post` and `deliver`. `NewestLast` (the server never hears an older
result after a newer one), `LatestIsTried`, `WorkersAreJobs`, and
`ReloadIsNotAwaited`, the freedom from deadlock of the locks. `ProbeFile`: commands,
assistant, interface and editor write one file through `Update`, which compares and
then renames. `NothingLost` compares the file with the acknowledged changes made one
after the other, and excludes the window between comparison and rename, which the
code leaves open; `FileLoads`, `TokenLasts`, and `NeverOpen`: with no token, or with one
too short (`minUITokenLength`), the interface admits nobody.

### Push, RateLimit

`Push`: signals on their way, the row that keeps the last, the check that reads,
compares, records and marks, with edits and failures between; windows and
schedules, the schedule in wall-clock minutes of a zone whose offset changes. The
cron library is external: the next instant whose wall clock is a run.
`SignalsCountOnce`, `SilenceIsReal`, `SilenceIsFound`, `EachRunOnce`, and
`SignOfLifeIsFresh`, which bounds by how much the engine's `aliveAt` may be too young.
`RateLimit` is the token bucket with its forgetting; `FairLimit` compares every
answer with the record, of each origin and instant, of the grants since.

### Calendar

The arithmetic of occurrences (the estimate in days and the neighbours it tries)
over zones that skip or repeat hours; targets through groups and parents; the
cache and its reloads, each three queries and then the installing of what they read. `OccurrencesAreFound` compares with a
definition that tries every day. `SameWallClock`, `EndIsFinal`, `SeenAtOnce` (if no
other reload overlapped), `CalendarCatchesUp` (whatever overlapped, after the next
reload that works), `AskedAsStored`.

### Topology

Requests that create, change and delete monitors and groups and set the children
of a parent, two at a time: what each reads, its checks, its write with the
conditions in the statement, its call of the scheduler. `TwoLevels` and `NoOrphans`
hold whatever overlaps, because a statement or a transaction decides; `NoCycle`,
`MonitorsOnLeaves` and `SchedulerFollowsStore` hold while requests do not overlap,
and the code has nothing that would make more of them true: the comments of the source
speak of one request, and what overlapping ones break is listed with the hazards.

### Accounts, Scopes

`Accounts`: setup, login with its lockout, sessions, changes of role, password and
scope, deletion, in transactions under SQLite's one writer. `FullAdminStays`,
`NothingUndone`, `LockIsEarned`, `SessionsHaveAccounts`. `Scopes`: what an account that
does not reach everything does to groups, monitors and accounts, while one that
does changes the same rows. `NobodyReachesMore` compares what anyone reaches with
what was granted by those who reach everything; `OutsideUntouched`, `FullUntouched`,
`TellsNothing`.

### Events, Panel, Timeline

`Events`: the hub drops rather than blocks, the stream cuts by a scope it read
earlier. `ScopeCatchesUp`, `StreamEndsWithSession`, `ScreenIsVisible`. `Panel`: cards,
problems and summaries put together from several queries while states and monitors
change; the engine's part is two steps, the state saved (`Confirm`) and the incident
opened or closed (`React`), and the process may stop between them. On tables at rest `CardsAddUp`, `GreenIsUp`, `SilenceHasACause`; in motion
`SteadyIsShown` and `CausesAreFound`. `Timeline`: cursors over two tables merged by
instant, written and pruned meanwhile, also between the two queries of a page (`ReadChanges`,
`Page`). `ShownOnceInOrder`, `NothingSkipped`,
`WindowsEndNow`; one origin is taken to measure once per millisecond at most. The code
compares origins as strings and the database by its collation; the only origin it writes is
"local", for which the two agree, and the model takes one order for both.

### Announcements, StatusPage

`Announcements`: create, edit and publish, each read, then write, two at a time and
with a failure half way; and the page, a query at a time. `StampFollowsPhase` holds
always; `StampKept` and `PhaseFollowsTimeline` of requests that do not overlap;
`ShownIsForPage` compares the page with what was for it at some instant of its
reading. `StatusPage`: pages, sections, components, the default, the building of a
page. `RowsHaveOwners`, `OneDefault`, `ShowsItsComponents`, `WholeCoversRows`,
`FoundStaysFound`.

### Channels, Delivery

`Channels`: edits that say more or less of a credential the form never sees, and
the ties to monitors and groups. A masked header means "as it was" on an edit
only; on a creation the code stores the mask as the value, and so does the model. `SecretsStayPut` (a credential stays with the
destination it was given for) holds whatever overlaps; `EditsKeepSecrets` of edits
that do not; `AnsweredIsStored`, `TiesHold`, `DestinationsAreListed`. `Delivery`: one
alert over SMTP, webhooks and ntfy, every answer or none.
Webhooks go through Go's default client, which follows redirects: after 301, 302 and 303
a GET without the alert goes in its place and a 2xx to it counts as a delivery (`told`
is then "visit"), after 307 and 308 the alert goes again, and the token with it while
the host is the same, encrypted or not. `NoSecondCopy` and `NothingInTheClear` name these
two exceptions. `NothingInTheClear`, `NoSecondCopy`, `GivesUpOnlyWhenHopeless`,
`TellsWhatItMay`.

### Secrets

The start of an instance (key, check, sealing), the change of key and the giving up
of secrets as transactions with a crash between any two, several instances at once,
and what an edit of a monitor carries over: read and carried in one call of the store
(`Edit`), written in another (`Save`), with edits, changes of key and stops between
them (`hand`). `RunningOpensAll`, `NothingPlain`,
`TokensFind`, `OneKeyOpensAll` and, with text of an older version left,
`TwoKeysOpenAll`; `UsedAsGiven`.

### MCServices

The services share no state, so that their product would show nothing: a behaviour
of `MCServices` is one of a single service, the one that `part` names, and its
variables take generic slots `s1`, `s2` ... The properties of this run are one for
each group of services; each is the conjunction of the properties above, by the
name of the part they are about.

## 3. Runs

| Run | Instance | Shows |
|---|---|---|
| `engine_crash` | one monitor, a pull type with threshold 2 or a push type with threshold 3, all four results, a crash or a deletion at any step, maintenance, two instants | `ConfirmedByRun`, `AlertOnce`, `SavedIsMemory`, `LedgerMatchesState`, the inductive invariant `AlertInvariant`, and the refinement `KeepsContract` |
| `engine_family` | parent and child, two concurrent calls, the threshold of the parent raised and lowered, the parent paused, the child set free, fairness | `ToldOnlyOfOpenIncidents`, `PersistentOutageAlerts` |
| `engine_hold` | a push parent with one failure, and its child | *violation* of `HoldHasDeadline` |
| `scheduler_queue` | 2 monitors, 3 entries, 2 slots, 3 edits, stop, fairness | `OneCheckPerEntry`, `NobodyForgotten`, `NeverOversleeps`, `NobodyStarves`, the inductive invariant `QueueInvariant` |
| `scheduler_returns` | one monitor that leaves and returns | *violation* of `OneCheckAtATime` |
| `writer_failure` | 6 heartbeats of 2 monitors, queue 2, batch 2, backlog 3; database failing, deletion, stop; fairness | `Conserved`, `TheRecentSurvives`, `BacklogBounded`, `StopsEmpty`, `EventuallyWritten`, the inductive invariant `WriterInvariant` |
| `writer_poison` | as above, the database never fails | *violation* of `DropsOnlyIfDatabaseFailed` |
| `dispatcher_stop` | 3 alerts, 2 channels of which one dead, 2 workers, queue 2, 3 attempts, stop; fairness | `Accounted`, `AttemptsBounded`, `NothingLostUntried`, `EverySettled`, the inductive invariant `DeliveryInvariant` |
| `shutdown_promises` | one slot, one worker, 2 heartbeats, batches of 1, backlog 2, 1 alert, flushes that fail after the signal; fairness | `PromisesKept`, `StopEnds` |
| `shutdown_beats` | the same | *violation* of `MeasurementsSurviveStop` |
| `services` | the parts below, one at a time | the properties below |
| `sentinel_deadline` | one check, two targets that answer throughout | *violation* of `SilencedOnlyOffline` |

The run `services`, by property and part (the instances are in `MCServices`):

| Property | Parts | Bounds |
|---|---|---|
| `StatusIsLastAgreement` | confirmation | up to 6 observations, thresholds 0 to 3 |
| `RemindersKept`, `ClosedRowsRest` | reminders; acknowledgement | a child in a group under another, one edit, 2 incidents, pages of 1, 2 instants; two people, one monitor, a failure |
| `HistorySound` | rollup; short retention; aggregation | hours of 1 and days of 2 instants, 2 heartbeats, 6 instants, one failure or crash; the same with a raw retention below a day; buckets of up to 2 heartbeats, and of 23 and 24 |
| `ProbeSound` | probe; probe outbox; probe file | one name, two that reload, 2 edits and 1 measurement or 1 and 2, 2 attempts; 2 commands, an interface, an editor, 2 updates |
| `MeasurementSound` | sentinel; checks; database | 2 checks at once, 2 targets; 4 configurations, 6 answers, 17 JSON values, 2 checks and an edit overlapping; 5 databases of 4 kinds, 4 queries, 3 checks, a timeout of two and a half milliseconds |
| `TopologySound` | topology | 3 monitors, 3 groups, 2 requests at once |
| `AccountsSound` | accounts; scopes; decrees | 2 accounts, 2 clients, 4 requests, lockout after 2; 3 groups, 3 accounts, 2 requests at once; one request against one edit by who reaches all |
| `PushSound` | push; rate limit | 2 signals, one edit, one failure, a clock put back by two; a burst of 2.5 tokens, 2 origins of which one is remembered |
| `CalendarSound` | calendar; recurrence | two monitors, two groups, a window, 2 edits; daily and two-daily windows, starts 0 and 3, over 12 instants with a skipped or a repeated hour |
| `ShownSound` | events; timeline; panel; panel requests; announcements; announcement page; status page | one monitor that moves 3 times, a buffer of 2; 3 events per table, pages of 1 and 2; every tree of 3 monitors and their states; one change during one request; 2 requests at once and a failure; 2 announcements; 2 pages, 2 edits, 1 view |
| `SettingsSound` | channels; secrets; credential; delivery | 2 requests at once, 6 bodies; 2 instances, 2 keys and a drawn one, 3 starts; 3 edits of 2 monitors; 53 configurations, 8 answers of which 3 redirect, 2 attempts |
| `TypeOK` | all | |

### Bounds, and why they are enough

- Engine: threshold 3 is the smallest at which a count passes through a value
  that is neither the first nor the last; two monitors are the smallest tree; two
  calls are all that can differ between two monitors when calls of one do not
  overlap. `MaxRun` caps the ghost count of equal observations at the largest
  threshold. `MaxTime` caps the clock: 1 where instants only have to differ, 4
  where a hold limit must be able to pass.
- Scheduler: one entry per monitor and one more that a monitor leaves behind; two
  slots make two checks overlap, and three edits make a monitor come, leave and
  come back. Intervals of 1 and 2 make a changed interval matter.
- Writer: the backlog is larger than a batch and no multiple of it; six
  heartbeats fill queue, buffer and the excess. Queue, batch and backlog are
  2, 2 and 3 in place of thousands: the code only compares them.
- Dispatcher: three alerts are one more than the queue holds and than the
  workers hold.
- Shutdown: one of everything; two heartbeats so that one is accepted before the
  stop and one after it, and a backlog that just holds both, so that a flush that
  fails after the signal leaves to `FlushAll` all that was promised.
- Services: two of whatever races (requests, checks, reloads, instances), because
  each of these races is between one that read and one that wrote in between; a
  third of what the two are about where it must stay untouched (a group, an
  account). Pages of one or two rows, so that an answer takes several. Durations
  are the smallest that keep their order in the code (an interval above a delay, a
  window above an interval). Every definition of the code that can be broken in
  the way its mutant does is noticed within these bounds.

### Fairness, and why the code justifies it

`WF` on each goroutine's own steps: the Go scheduler runs every goroutine that
can run, a check has a timeout, `Send` has one, a timer fires, and the mutexes
guard sections without blocking calls. Nothing makes the operator edit, the
database fail or recover, or the process stop: those have no fairness. In
`Shutdown` the step by which a loop sees the end of its context has `SF`: it is
enabled at each select, and `select` picks among ready cases at random, so that
it is not passed over for ever. The premises of `EventuallyWritten`,
`PersistentOutageAlerts` and `NobodyStarves` state what the environment must do.

The services have no fairness and no liveness property: where one must not fall
behind (`ScopeCatchesUp`, `SilenceIsFound`, `CalendarCatchesUp`), the clock of its
module does not pass the instant at which something is due by more than the
delay named among the bounds, and the property bounds the time it takes.

## 4. Proofs

For each component one inductive invariant is proved and the properties are drawn
from it; those of the engine, the scheduler, the writer, the dispatcher and the stop
are checked by a run under the name the theorem states. The constants
are assumed to be what the component's `ASSUME` says (sizes are numbers above
zero, flags are Booleans, the absent value is no entry or alert) and nothing
more, except where stated. The modules that `MCServices` only instances have no
`ASSUME`, which TLC would not evaluate there: the theorems about them state what
they assume as hypotheses (`Sorts` of the reminders, and one for each part of the other
modules: `TreeSorts`, `ProbeSorts`, ... `TimelineSorts`), and the run `services` checks the same properties on its instances.

### Engine

`IncidentEngineProofs`, for any monitors, calls, trees, thresholds and results,
with the process crashing between any two steps:

- `TypeCorrect` - the types, without any further assumption.
- `Invariance` - `AlertInvariant` holds, if checks of one monitor do not overlap
  (`~ Overlap`) and the database answers (`~ StoreFails`).
- `AlertSentOnce`, `MemoryIsSaved` - the properties, from the invariant.
- `EngineKeepsContract` - the engine implements `AlertContract`.

`AlertOnce` alone is not inductive: that the next alert is about a new outage
depends on the state the call *read*, some steps ago, and on what a restart
would load. The invariant adds: a monitor has one call at a time (`Serial`); a
deleted monitor has nothing saved (`GoneIsGone`); an alert that stands is about
an outage that both memory and the saved row hold (`AlertedIsDown`), which makes
the restart harmless; what a call read still holds when it writes (`ReadStands`,
except for a `Remove` in between, which ends the alert); what it decided is in
memory until it ends (`DecisionStands`); and memory and database differ only
while a call is about to save (`SavedUnlessSaving`). The step lemma takes the
actions one by one; `StepFrame` and `OthersStand` say what a call leaves alone,
so that each action has only its own monitor to account for. The refinement maps
`outage` to "the state in memory is down" and `told` to the ghost `alerted`.

The assumptions are needed: with
`Overlap` `AlertOnce` does not hold (finding 2); with `StoreFails` a restart
loads an older state, and the outage may be alerted again, which the code
accepts (engine.go:336).

The same module, under the same two assumptions and from the invariant above, of
the history:

- `HistoryInvariance` - `HistoryInvariant` holds.
- `ToldIsOpen` (`ToldOnlyOfOpenIncidents`), `HistoryAgrees` (`LedgerMatchesState`),
  `ConfirmationIsEarned` (`ConfirmedByRun`) - the properties, from it.

The properties speak of a monitor between two calls, or of a call at its last step;
the invariant says what holds at each step in between. `OnRecord`: until a call
writes memory, the tables agree with memory; from then on, with the status it had
read, until its transition is recorded and its incident opened or closed; and what
makes no event leaves them as they must be, as only the first "up" makes none
(`SilentDecision`). `Counted`: the count of the machine is no longer than the run of
equal observations, which a call has extended before it decides, as far as the ghost
counts (`MaxRun`). A monitor a call of which a crash cut short (`cut`) is left
aside: nothing writes what that call owed. `OwnMonitorSuffices` reduces each step of
a call to what it owes its own monitor; a restart is harmless because a monitor no
call is about has its state saved (`SavedUnlessSaving`).

### Scheduler

`SchedulerProofs`, for any monitors, entries, slots and delays, with edits, stop
and checks interleaved in any way: `Invariance` (`QueueInvariant`),
`EntryCheckedOnce`, `QueueStaysIndexed`, `NobodyIsForgotten`, `NothingIsOverslept`
(`NeverOversleeps`).

An entry is a pointer, and what can go wrong is that two parties hold it at once.
The invariant says that an entry is in the queue, taken into `due`, in the hands
of a slot (`Held`), or nowhere, in one of these at most, and that the memory of
an entry is not reused while anything points at it, as the garbage collector
guarantees (`OnePlace`); that it has the mark `inFlight` when it is taken and not
when it is queued (`Marked`); at which steps loop and slots hold entries
(`Holding`); and that the index points at living entries of the right monitor
which are in some place while the loop runs (`Indexed`). `NobodyForgotten` and
`QueueIsIndexed` need all of them: whether an entry is given back depends on who
holds it, on its mark, and on whether the index still points at it.

`NeverOversleeps` is kept by every step together with `QueueInvariant`: what could
make an entry due before the timer is an edit or the end of a check, and both leave
a signal owed, about to be sent or waiting until the loop arms the timer again.

### Writer

`BatchWriterProofs`, for any number of heartbeats and monitors, any sizes of
queue, batch and backlog, and any behaviour of the database, of deletions and of
the stop: `Invariance` (`WriterInvariant`), `EveryHeartbeatConserved`,
`OldestDroppedFirst`, `BacklogStaysBounded`, `StopLeavesNothing`.

A heartbeat moves in four ways: into the queue (`Submitted`), from the queue to
the buffer (`Taken`), onto the disk with its batch (`Written`), out of the buffer
for good (`Discarded`); a lemma each says that it keeps `Conserved` and
`DroppedIsOld`. They rest on lemmas about sequences in order: cut in two (`Cut`),
joined (`OrderedJoin`), cut and joined elsewhere (`MoveKeepsAll`), or grown by a
largest number (`LargestLast`). `BacklogBounded` is not inductive without
`FlushesSome`: a flush asked for by a full batch starts from one heartbeat more
than the last one left. `StopsEmpty` needs `AwayIsFailed` and that every
heartbeat refers to a monitor, so that the last flushes commit.

### Dispatcher

`DispatcherProofs`, for any channels, workers, alerts and attempts: `Invariance`
(`DeliveryInvariant`), `EveryAlertAccounted`, `AttemptsStayBounded`,
`OutcomesAreTrue`.

The invariant ties the number of calls a destination received to the attempt its
worker is at (`SendsCounted`), which bounds the attempts when a stop cuts a wait
short and leaves one more; and says that a worker that is delivering has an
alert (`HandsFull`), that no alert is in two places (`Accounted`), and that an
outcome is what was seen of the channel (`NothingLostUntried`).

### Shutdown

`ShutdownProofs`, for any monitors, slots, channels, workers and capacities, with the
three components interleaved in any way: `Invariance` (`ShutdownInvariant`),
`StopKeepsPromises` (`PromisesKept`) and `NobodyLeavesBeforeTheSignal`. The sizes are
what `ShutdownAssumption` says.

`PromisesKept` is about the last state only; each part of the invariant says what
another one needs for it. The writer's last flushes commit what it holds because every
heartbeat refers to a monitor that exists, which it does because the scheduler checks
entries that are alive (`EntriesAlive`). Until then a flush of the loop may fail under its
ended context, and the theorem needs the premise of the property, that the backlog
holds what may wait. What was accepted is queued, buffered or written, what
was offered is queued, in a hand or settled (`BeatsKept`, `AlertsKept`): numbers left in
a queue that was seen empty after the signal were accepted after it. And no component
is past its end before the one signal (`Signalled`), so that this holds of all that the
signal promises.

### Reminders

`RemindersProofs`: `Invariance`, `PromisesKept` (`RemindersKept`) and `ClosedRowsStay`
(`ClosedRowsRest`), for any monitors, groups, people, edits and bounds, assuming only
that the absent value is none of them, that the bound on rows, the default and the
intervals of edits are numbers, and that edits are of monitors and groups (`Sorts`).
The loop decides on rows it read earlier. What makes this safe is that each statement
that writes is conditional, and the invariant says how: a row that was read is a row of the table, which since then has only been marked,
acknowledged or closed (`ReadsStand`); each row remembers its last mark, and marks
are an interval apart (`MarksSpaced`); what is acknowledged has its author and stays
quiet (`Authored`, `Taken`); a monitor has one open row (`OneOpen`).

### Confirmation

`MonitoringProofs`, as all up to the sentinel: `StatusFollowsMeasurements`, for any thresholds that
are natural numbers (zero and edits between any two observations included) and any number of
observations. The property reads the status from the record of measurements with
no counter in it; the invariant adds what the counter is: how many of the last
measurements are of the candidate, no more and no less, and that these are too few
(`TailCounted`). `LastAgreement` of a record that grew by one is then a matter of
cases over the four things an observation may do.

### Topology

`TreeKept` and `TreeIsSound` (`TopologySound`), for any monitors, groups, bodies and
requests, assuming that the values that stand for nothing are none of them and that the
list of children of a request is not empty (`handleSetChildren` returns before).

Two levels of groups and members that do not outlive their group are kept by the
conditions of the statements, however requests overlap. The rest the code keeps by
reading before it writes, and the invariant states it for requests one at a time
(`overlapped \/ OneAtATime`): what a lone request has read still holds (`ReadsHold`).
That `ParentCycle` finds every cycle would be an induction along the chain of parents;
instead `Apart` says that there is a set of monitors closed under "parent of" with the one
and without the other, the set the climb has looked at (`Climbed`) becomes such a set
when it ends at a root, and setting a parent apart from the child keeps `Acyclic`.
`Follows` compares the scheduler with the table for each monitor that no request has
yet to tell of (`Pending`).

### Probe

`AgentKept` and `AgentIsSound` (`NewestLast`, `LatestIsTried`, `WorkersAreJobs`), for any
names, files, reloads at once and attempts of a signal.

A result goes from the loop of a worker through a slot of one place to the sender and
on to the central. `InOrder` places the four: what was tried, what the sender has, what
is in the slot, what is measured and not offered yet, each newer than the one before;
that the slot is emptied and filled again in two steps is what makes the last case
necessary. `Carried` says where the last result is once it was offered. For the workers
the invariant says that the mutex is held by the one reload that is past it, that until
it stores the configuration again the workers are those of its jobs (`RunsAll`), and that
no worker is cancelled but by it (`Reloading`).

### Rollup

`HistoryKept` and `HistoryIsSound` (`PrunedOnlyCounted`, `MarkedIsWhole`, `CountedOnce`),
for any monitors and heartbeats, any lengths of hour and day, any retention of
heartbeats and of statistics, and any number of failures and crashes (`RollupSorts` asks for
numbers only). What a raw retention shorter than a bucket and a cycle prunes too early is in
the property.

A watermark is written after the buckets it vouches for, and pruning trusts that the
cycle has been through all of them. `SummedBefore` says of a resolution and an instant that
whatever came in time into buckets before it was summed up. The invariant holds it for
each watermark (`MarksHold`), for the bucket a cycle is at, and, once the cycle has left a
resolution, for the instant it began (`CycleHolds`), which pruning needs; each time the
instant is past, so that a heartbeat that arrives now is late for it (`StillSummed`).
Writing a bucket again replaces its rows, and loses nothing because the batch was read
from all of the bucket (`BatchHolds`) and the bucket was over when it was read
(`TakenIsOver`). The arithmetic is that of multiples of a duration: `Truncated`,
`NextBucket`, `BucketsApart`, `BucketOf`, `BucketsInOrder`.

### Push

`PushKept` and `SignalsAreSound`: `SignalsCountOnce`, `SilenceIsReal`,
`SignOfLifeIsFresh` and `SilenceIsFound`, for any interval, grace, schedule, zone, delays
and edits. It assumes that a request lasts no longer than the interval (`Validate` of
`domain/monitor.go` asks for a timeout below it) and no longer than a grace given for a
schedule: with a grace of a second and a delivery of two, a signal sent in time arrives
after its wait is over and is no sign of life, and TLC finds the counterexample.
The invariant bounds each wait by what may still happen before the check
(`TimesKept`), says of the signal that was not counted yet that it is read in time or
too late to count (`SignalsKept`), and, past the end of a wait, that a failure is reported
or the check that finds it has begun in time (`SilenceKept`). `EachRunOnce` is about the
table of a zone and stays with TLC.

### Calendar

`CalendarKept` and `WindowsAreKnown`: `EndIsFinal`, `SeenAtOnce`, `CalendarCatchesUp` and
`AskedAsStored`, for any windows, targets, trees, zones and requests. A reload reads three
tables one after the other while requests write them and other reloads install what
they read. `ReadsKept` says that what a reload has read and is no longer so was written
since it began; `TimerKept` bounds the age of what the calendar lacks by the next reload
of the timer, one more for each that failed. Proving it corrected the bound: with
failures and a delay longer than the refresh what is written is seen after
`(1 + MaxFailures) * (Refresh + MaxDelay) + MaxDelay`, since a failed reload may take the
delay as well (`Lag`). `OccurrencesAreFound` and `SameWallClock` are about the tables of zones and
stay with TLC.

### Sentinel

`DiscardsOnEvidence`, for any number of checks and targets and any
times, assuming that there is a target and that the times are natural numbers
(`SentinelSorts`). `Evidence` says that within an age each of the first k targets was
away or a dial was cut. The invariant carries it through each step of a check
(`Grounded`: before dial k it is about the first k - 1 targets and as old as those
dials may have lasted) and into the cache (`CacheGrounded`: older by the age of the
cache), whichever check stores last. The life of the cache and a round of dials
make up the window of the property.

### Accounts

`AccessProofs`, as all that follow: `AccountsKept` and `AccountsAreSound` (`AccountsSound`), for any accounts, requests at
once and times, assuming that a login is over before the lockout it may cause
(`Patience < LockoutWindow`, auth.go).

Several requests have each read what another is about to change. The invariant says
who may rely on what it read: the transaction that decides whether the last full
administrator goes holds the lock of writers, so what it counted still stands when it
commits (`Decides`); every other statement carries its condition. `Counts` relates the
record of failures of an account to the wrong passwords there were (`earned`): a record
that is not over counts no more than were made, one that locks counts enough, and a
login under way has met no older lock, for which the patience of a request matters.

### Scopes

`ScopesKept` and `ScopesAreSound` (`ScopesSound`), for any groups, monitors, accounts,
names, requests and decrees of those who reach everything. It assumes that a scope that
reaches everything lists no group, as `Normalize` of `domain/scope.go` leaves it, and
that the tables begin with no two groups of one name under one parent, the unique index.
`owned` is what the restricted accounts were ever entitled to. The invariant is that it is closed
downwards (`OwnedIsClosed`), that no restricted account is granted more
(`GrantsAreOwned`), and that a request, step by step, names, moves under and gives only
what is owned (`RequestSound`), although it read the tables earlier: what it read is out of
date only where the tables are owned, unless one who reaches everything wrote
since (`AsRead`); an account it is about is not one that reaches everything, or was made
one meanwhile (`Below`).

### Events

`StreamKept` and `StreamIsSound` (`StreamSound`), for any monitors, groups, size of the
buffer, life of a scope and delays. Two parts of the invariant are clocks: how long ago a
group of the scope in use was lost (`ScopeOfLate`), and how long ago the session ended
with no recheck since (`SessionOfLate`), each by the step the handler is at. The third is
about the buffer: the events of a monitor in it form a chain, which begins where the
reader's screen has it and ends where it is (`Told`), so that a stream that lost none has
`ScreenIsVisible` when it has told them all.

### Secrets

`SecretsKept` and `SecretsAreSound` (`SecretsSound`), for any rows, keys, texts and
instances, assuming that what stands for nothing is none of them. An edit in hand carries
a credential that was given for the target it has, whatever the row became meanwhile. Instances start,
change the key and write with no agreement but the sentinel row, a transaction at a
time. The invariant says what an instance may rely on: one that serves opens with one
key, one that changes the key with two (`BoxSound`); text in the clear was written by
an older version (`PlainIsOlder`); without a sentinel there is nothing to open, if
nothing met a running instance (`NoneUnguarded`). That two keys open everything
(`TwoKeys`) is stated apart from `TwoKeysOpenAll`, over keys instead of over a number
of them, and the number follows.

### Channels

`ChannelsKept` and `ChannelsAreSound` (`ChannelsSound`), for any channels, bodies, ties
and requests at once, assuming the shape of the bodies and that the marks for "nothing",
"gone", "omitted" and "masked" are none of the rest. An edit reads the row, carries over
what the form does not say, and writes later, whatever was written in between. What
is safe whatever overlaps is what a request carries (`OrdersAreGiven`): a row that
is complete, with a credential given for the destination that row has. What needs edits
one at a time is that it is still what the body asks of the row as it is
(`OrdersKeepSecrets`, with `TwoCross`).

### Announcements

`AnnouncementsKept` and `AnnouncementsAreSound` (`AnnouncementsSound`), for any
announcements, monitors, phases, requests and views, assuming that ids are finitely many
numbers and that the bodies are of the shape the handler parses.

A request reads the row and its components in two queries, adds an entry in a third
and writes the row back whole in a fourth. What it carries is what is stored but for
another request about the same announcement (`RequestsFit`, with `overlapped`), and its
entry comes after those there are (`EntriesInOrder`), so that the hour and the phase it
writes are those of the last entry (`RowsFit`). `ViewKept` says of the page what each of
its queries has decided already: a row taken was for the page then (`WasForPage`), and
of what is for it throughout (`always`), all is shown, taken and as stored, too old, or
after a page of others. The list is by hour and the page counts by id; both
agree because ids are given in the order of time (`IdsInOrder`).

### StatusPage

`StatusPageKept` and `StatusPageIsSound` (`StatusPageSound`), for any pages, groups,
monitors and edits, assuming that the tables begin with owners, as the foreign keys
leave them. What the visitor's request has read belongs to the page it found as long as
nobody wrote (`changed`), and to monitors that exist as long as none was deleted
(`dropped`); the statuses are those of the first components (`ReadSoFar`). That the
whole is no better than its rows needs that `Worst` of a sequence is one of its
severest members, which exists because the sequence is finite.

### ProbeFile

`FileKept` and `FileIsSound` (`FileSound`), for any names, checks, commands and
interfaces. It assumes that what is asked for and what an editor leaves is of the shape
the parser reads. `WritesWhole` says of a process about to compare or rename that what it
writes is the outcome of its change on what it read, or the file had gone missing
(`raced`), and is loadable either way; the rename sets `raced` when the file is no longer
what was read. `OneToken`: until a rotation or an editor
the file holds the only token that was ever given out. Every change that is not a rotation
keeps the token it finds (`TokenStays`), whichever of the five it is.

### RateLimit

`BucketsKept` and `LimitIsFair` (`FairLimit`), for any origins, burst, refill and times,
assuming that a burst is a token at least. The code keeps a number and an instant and
forgets idle buckets; the property counts grants. The invariant relates them: what a
bucket holds now is the least, over all instants up to now, of the burst and what
came back since less what was granted since (`OfRecord`). A bucket that was forgotten
would be full by now, so that a new one has what the record leaves (`ForgettingKeeps`).

### Delivery

`DispatcherProofs`: `MessageKept` and `DeliveryIsSound` (`DeliverySound`), for any
configurations, events, codes, attempts and alerts. It assumes that a token is of ntfy
alone, and that the readers of an e-mail are a list. `SpeaksRightly` says what a
conversation may have said at each step: past the greeting it is encrypted if the
channel asks for it, and from the message on somebody was accepted. `InCourse` counts the
copies: until the server has taken the message, each reader received no more than there
were answers lost, so that one attempt more makes one copy more at most. A request that
has lost its body to a redirect adds no copy.

### SqlCheck

`SchedulerProofs`: `DatabaseCheckKept` and `DatabaseCheckIsSound` (`SqlCheckSound`), for
any databases, queries, timeouts and rows. It assumes that the interval is no shorter than
the timeout, as `Validate` of `domain/monitor.go` asks, and that the part of the timeout left
over is a millisecond at least and less than all of it. A query goes on at the server when its check is over.
`InTime` says that it began within its check with the limit of the time that was left then,
and that the clock has not passed its end; `LeftOver` that the sessions at the server are
of the last check or, until the next begins, of the one before it. That there are two at
most follows from the limit: what is left of a check ends within a share of the timeout
past its deadline, the rounding to milliseconds included, before a second check after
it can begin.

### Timeline

`BatchWriterProofs`: `TimelineKept` and `TimelineIsSound` (`TimelineSound`), for any
instants, origins, limits, tables and writes meanwhile. It assumes that one origin
measures once in a millisecond and that a page has a place at least. The proof is about
orders: in a finite set with a total order each place is taken by one
member (`EachPlaceIsTaken`, by counting those ahead), so that the sorted page is the
first of what is still to come (`SortedEvents`, `PageIsFirst`), and one more than the
limit read of each of two tables is enough for the first of both together
(`FoundSuffices`), though the second is read later than the first. `ReadsOn` places what was shown before the cursor and what is to come
after it; `NothingSkipped` is kept because a page leaves out only what the cursor precedes.

### Only model-checked

Every liveness property (`PersistentOutageAlerts`, `NobodyStarves`,
`EventuallyWritten`, `EverySettled`, `StopEnds`), which is out of the prover's reach, and
`ReloadIsNotAwaited` of the probe, which says that a step is ENABLED;
`OneEventPerChange` of the confirmation machine; `EachRunOnce`, `OccurrencesAreFound` and
`SameWallClock`, which compare the tables of zones; and `Panel`, whose sums are over
sequences built page by page. What `Aggregation`, `Summary` and `Checks` say of data of
any size is induction over data, which is out of the prover's reach too.

## 5. What the runs found

Each is a run that ends in a violation, with the line of the code and the line
of the comment it contradicts in `PROJECT.json`.

1. *Hold without a deadline* (`engine_hold`): a parent with one unconfirmed
   failure, whose further checks only repeat it, holds its children's failures
   past the hold limit.
2. *A monitor checked twice at a time* (`scheduler_returns`): pause and resume
   during a check make a second entry for the monitor. As `evaluate` reads and
   writes the state in two critical sections, both checks may confirm the outage
   and its alert goes out twice.
3. *A poisoned batch* (`writer_poison`): one heartbeat of a deleted monitor blocks
   every batch behind it until healthy heartbeats are dropped.
4. *Measurements lost at the stop* (`shutdown_beats`): the writer returns while
   the scheduler still waits for its checks; so does the dispatcher, after its
   drain.
5. *The network blamed for a slow target* (`sentinel_deadline`): a check that failed
   by using up its time asks the sentinel with an expired deadline; every dial
   fails at once, and for the life of the cache failures are thrown away.

What the code claims of requests one at a time, and two that overlap may break, is
stated with that premise, and the premise is a variable of the model (`overlapped`,
`crossed`, `raced`): dependency cycles and monitors on leaves, a scheduler that
follows the store, the phase of an announcement, the credential of a channel, the
freshness of the calendar, the file of the probe between comparison and rename.

## 6. Not modelled, and why

- SQL text and migrations: two database engines' languages. Each statement a model
  depends on is modelled where it is called, with its conditions, its transaction
  and what it deletes along; the conformance tests of the store say the same of
  both engines and were read for it.
- Configuration: parsed once before anything runs.
- The web interface and metrics: presentation and counters.
- Routing, encoding, wording, layouts, validation of names and addresses: data
  without a protocol. Where wording matters (a secret in a text, a mention that
  wakes everybody) `Delivery` models it by what it does.
- The network, the drivers and the parsers behind the checkers: any answer.
- Floating point in the rate limit and in percentages: exact in the model; in the
  JSON assertions its precision is modelled (`Mantissa`).
- The read of `e.monitor` by `runCheck` outside the lock: a check carries no
  configuration in the model.
- The binary heap: the order of entries due at the same instant is not promised.
- `StoreFails` together with the history properties: the code accepts that they
  diverge.

## 7. What is left

1. `SharedOutage`, timed: no alert of a child precedes its parent's when both fail
   at once and the parent is checked within its window.
2. The HTTP server and the periodic workers in `Shutdown`.
3. A proof of `Panel`, which needs the counts of its cards as cardinalities.
