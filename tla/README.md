# Tuntu in TLA+

Specifications of Tuntu (`src/`): TLA+ modules of its stateful parts, TLC
configurations that check them on small instances, and proofs, checked by
TLAPS, that some of their properties hold for every instance. Paths below are
relative to `src/src/tuntu/` unless they begin with `docs/` or `tests/`.

## 1. The system

Tuntu is one process. It finds contents in rankings, searches candidates
(magnets, each known by its BTIH), filters and orders them, submits the best
to a CloudDrive2 server and follows the download until its files are complete.
All lasting state is in one SQLite file; the threads are those of the HTTP API
(Starlette's thread pool), and those of APScheduler's executor, which runs the
daily jobs of profiles and watchlists and the download poller.

| component | code | state | operations |
|---|---|---|---|
| download tasks | `downloads/service.py`, `downloads/poller.py` | rows and events of `download_tasks`, the position of each thread between two sessions | `submit_candidate`, `retry`, `manual_complete`, `poll`, `poll_once` |
| download table | `db/repository.py`, `db/models.py` | rows and unique indexes | `claim_download`, `append_download_event`, `next_download_generation` |
| status | `downloads/state.py` | none (a table) | `transition_status` |
| completion | `downloads/completion.py` | `completion_state_json` of a task | `observe_completion` |
| CloudDrive2 client | `downloaders/clouddrive.py` | a gRPC channel | `ensure_destination`, `submit`, `snapshot`, `get_task_signal` |
| runs | `runs/service.py`, run half of `db/repository.py` | profile locks, slots, rows of `runs` | `execute`, `create_run`, `finish_run`, `fail_interrupted_runs` |
| runtime | `runtime.py`, `api.py` | the current services | `reload`, `close`, `require`, `set_source_enabled` |
| scheduler | `scheduler.py` | jobs, executor threads | `start`, `sync`, `shutdown` |
| manual submission | `manual.py` | none of its own | preview and submission of numbers and magnets |
| watchlists | `watchlists.py` | lists and items | edits, automation, items tried again |
| authentication | `auth.py` | users, sessions, setup tokens | `bootstrap_if_needed`, `consume`, `login`, `authenticate`, `change_password` |
| settings, profiles | `settings.py`, `profiles.py` | rows of settings and profiles | read, merge, validate, write |
| providers | `providers/http.py`, `providers/runner.py` | caches per run, last request per host, source health | `request`, `finish_run`, `collect`, `search` |
| rules, selection | `rules.py`, `selector.py`, `pipeline.py` | none | evaluation and order of candidates |
| database | `db/database.py`, `db/migration.py` | the file and its backups | sessions, migration |
| parsers, identities | other `providers/*.py`, `magnet.py`, `normalization.py` | none | text to values |
| API, UI, CLI | `api.py`, `ui.py`, `cli.py` | none | requests and pages |

How they interact. A run (a job of the scheduler, or a request) collects and
evaluates candidates, and submits through the download service; a request may
submit, retry or complete a task as well. All of them meet the poller in
`download_tasks`. A change of the settings reloads the runtime, which replaces
every service by a new one while the threads of the API go on. CloudDrive2
changes its tasks and files whenever it likes and loses answers.

What makes it hard:

- Each operation is a sequence of database sessions and remote calls. What a
  session has read is old when the next one writes. pysqlite opens a
  transaction at the first statement that changes a row, so even the reads of
  one session are not isolated from its writes.
- The process may die between any two steps; answers of CloudDrive2 get lost
  after the request was carried out.
- Claims are excluded by two unique constraints (content and generation, BTIH
  and generation), destinations by a partial index over a column,
  `ownership_acquired`, that events set and reset.
- Locks and slots of runs live in a service object; a reload makes a new one.

What makes each component correct:

- *Claims* are unique, last for ever and precede every submission.
- *Destinations*: two tasks whose files cannot be told apart do not wait for
  the same one.
- *Completion* has evidence; the evidence is not lost or restarted.
- *Statuses* move along the table; every task settles.
- *Runs*: one per profile (a reload breaks that: `runs_overlap`), a bounded number
  in all, each of them ends, and a restart cleans up after the process before it.
- *Fallback*: a second candidate only after a refusal of the first.
- *Authentication*: a setup token works once; a change of the
  password ends the sessions opened before it.
- *Providers*: a failing source harms no other; a run sees one answer for a URL.
- *Selection*: what is accepted, taken and tried first depends on what the
  sources know, never on who answered first.
- *Schedules*: the jobs are those the table of profiles and lists asks for.
- *Settings*: what is stored goes together, and takes effect.
- *Watchlists*: works the user has decided about are left alone, and
  those among the first `top_n` of the others asked for.
- *Migration* loses nothing, wherever it stops, and the application starts again.

The hazards behind these, each at its line, are in `PROJECT.json`.

## 2. Modules

| module | models | uses |
|---|---|---|
| `DownloadState` | `downloads/state.py` | |
| `Completion` | `downloads/completion.py` | |
| `DownloadService` | `downloads/service.py`, `downloads/poller.py`, the download half of `db/repository.py`, what the client shows of CloudDrive2 | extends `Completion` and `DownloadState`, implements `DownloadLedger` |
| `DownloadLedger` | the abstract table of claims and destinations (ADR-001 to 003) | |
| `RunService` | `runs/service.py`, the run half of `db/repository.py`, reloads (`runtime.py`), start and shutdown (`scheduler.py`) | |
| `AutoSubmission` | the end of `_process_item` in `runs/service.py`, run items in `db/repository.py`, composed with the service, its poller and its users | extends `DownloadService` |
| `EventLog` | the event log of one task: `append_download_event` as its three database steps, and its callers | extends `DownloadState` |
| `ManualSubmission` | `manual.py`, claims of runs, fallbacks and retries beside it | |
| `Authentication` | `auth.py`, its routes, `reset-setup-token` | |
| `ProfileScheduling` | `profiles.py`, the automation of `watchlists.py`, `sync` in `scheduler.py`, their rows | |
| `RuntimeSettings` | `settings.py`, `reload` and `set_source_enabled` in `runtime.py` | |
| `ProviderHttp` | `providers/http.py`, `providers/runner.py`, `source_health` | |
| `Selection` | `models.py`, `rules.py`, `selector.py`, `pipeline.py`, the merge in `runs/service.py` | |
| `Watchlist` | `watchlists.py`, the runs of a list | extends `DownloadState` |
| `RemoteTree` | `ensure_destination` and `snapshot` in `downloaders/clouddrive.py` | |
| `Migration` | `db/migration.py` | implements `AtomicUpgrade` |
| `AtomicUpgrade` | the abstract database: of one revision or the other, changed in one step (`docs/architecture.md`, section 6) | |
| `TaskTable`, `EventTables`, `AccountTables`, `PlanTable`, `SettingsTable`, `ServedAnswers`, `SelectionTable`, `WatchTable`, `TreeTable`, `DatabaseFile` | the state that the properties of `ManualSubmission`, `EventLog`, `Authentication`, `ProfileScheduling`, `RuntimeSettings`, `ProviderHttp`, `Selection`, `Watchlist`, `RemoteTree` and `Migration` speak of, in that order, and those properties | extended by the module they belong to |
| `Ordering` | Python's `sorted` with a key, and slices | extended by `Selection` and `Watchlist` |
| `MCDownloadService`, `MCRunService`, `MCAutoSubmission` | model values, bounds and, where sound, symmetry for TLC | extend the module they check |
| `MCRequests`, `MCSources`, `MCProgress` | small instances of the modules from `EventLog` on, several to a run | instance them |
| `DownloadService_proofs`, `RunService_proofs`, `AutoSubmission_proofs`, `ManualSubmission_proofs`, `EventLog_proofs`, `Authentication_proofs`, `RuntimeSettings_proofs` | theorems | extend the module they are about; `AutoSubmission_proofs` also extends `DownloadService_proofs` |
| `Parts_proofs` | theorems about `ProviderHttp`, `ProfileScheduling`, `Selection`, `RemoteTree`, `Watchlist` and `Migration` | instances each of the six |

The small modules with the properties exist because a run of `MCRequests`,
`MCSources` or `MCProgress` puts several modules together as instances: the
variables that a property is about are declared once, and the run and the
theorem use one and the same definition of it.

### DownloadService

`rows` is the table, a function from task ids to rows. A row keeps the claim
(content, candidate, profile, generation, superseded task), the status, the
completion state, `ownership_acquired`, `manual_completed` and whether the
last error was an explicit rejection. Events are not kept: of the event log
only the comparison of an observation with the latest event matters, and that
is the choice of `PollSkips` (`EventLog` keeps them, for one task). `overdue` holds the tasks whose
`attention_after_at` has passed. `job[j]` says where thread `j` stands between
two sessions and what it has read; `poll` and `queue` say the same of the
poller. `offline` and `disk` are CloudDrive2: the offline task and the files of
each destination, one destination per profile and BTIH.

A step is a database session or a remote call: `SubmitNew` is the first claim;
`Resubmit` reads the next generation (for a retry, for a magnet that a user
forces, or for the next candidate of a run) and `ClaimRetry` claims it;
`EnsureDestination` stands for
`ensure_destination` and the snapshot before the submission; `AddOffline` makes
the call and takes the branch of its outcome (accepted, rejected, failed, not
known); `RecordResult` appends the event. `ManualComplete` reads and checks;
its append is a `RecordResult`. The poller lists (`PollCycle`), reads
(`PollRead`), asks for a signal (`PollSignal`), takes a snapshot
(`PollSnapshot`), then writes or skips. `Append` is `append_download_event`: it
writes the row without looking at the status it replaces, as the code does (in
one step here, in three in `EventLog`), or raises when the destination index refuses the row. CloudDrive2's status of a
destination is its last offline task's; `again` is a failed one for which
another request is on its way, which the client still reports as an error.

### AutoSubmission

The threads are the jobs of `DownloadService`: `Runners` execute runs, the
others serve users. `items` is the table `run_items`; `work[r]` is what runner
`r` does for its item between two sessions: claim the candidate at `index` of
the ranking, read the task, fall back, look for the conflict, report.
`ItemBegins` is `add_run_item` for a content with accepted candidates;
`ClaimsFirst` and `ClaimsNext` claim at generation 0 and at the one that
`FallsBack` has read (a `Fallback` of the service that supersedes the task just
read); `ReadsTask` is `get_download_task` and the branch on its row: an explicit
rejection leads to the next candidate, anything else to a status of the item.
`FirstRefused` and `NextRefused` are `IdempotencyConflict` and the refusal by the
destination index, which is looked at second; `FindsConflict` looks for a task
of generation 0, whatever the generation that was refused, as the code does.
Which of several it links to stays open.

An exception ends the item and leaves its status (`ItemFails`, `ServiceFails`,
and an event refused by the destination index in `SubmitEnds`); the run goes on
with its next item. A restart ends all work and keeps the tables. `Elsewhere`
is the poller, the clock and CloudDrive2. How a run gets to its items and what
becomes of it afterwards is in `RunService`.

### RunService

`table` is the table of runs; `finished` stands for the three statuses of
`finish_run`, `interrupted` for the failure that `fail_interrupted_runs`
records. Services are numbered as one process builds them: `locked` and `slots`
belong to a service, `current` is the one the runtime gives to requests,
`scheduling` the one that the started scheduler runs jobs in. `thread[t]` is the position in
`execute`: lock, slot, `create_run`, work, `finish_run` (check, then write),
release of slot and lock. `reload` is the position of the thread that holds the
runtime's lock: drain the scheduler, build and publish the services, read the
running rows, fail them and start. What a run does with its contents is the
step `Work`: it always leads to a status, by the handlers around it. Requests
read `current` once; skips and refusals leave audit events only, which are not
modelled.

### EventLog

One task, and the three threads that append to its log: the submission, the
poller and a user who completes it by hand. `log` has the events in the order
of their numbers, `row` the columns an event sets, `clock` is `datetime.now`.
`Load`, `ReadNumber` and `Flush` are what SQLite sees of
`append_download_event`; `Flush` writes only the columns that differ from the
row as it was loaded (SQLAlchemy's unit of work), and `FlushRefused` is the
unique constraint on the number. `Answers` are the five ways in which a submission
ends, each with its status. `completion` is the column `completion_state_json`:
a poll that has read a row without it appends `completion_baseline_unavailable`
(`PollWithoutBaseline`), each time; with it, `PollObserves` and `PollCompares` see
to it that an observation that repeats the last event is none. `crossed` says that the last writer had not
seen the event before its own: then, and only then, the row may disagree with
the log.

### ManualSubmission

Three kinds of magnets (ordinary, forced, for an item of a list) and the
candidate of a preview. `Checks` is `find_download_by_btih` and the two errors
about force, `ReadsGeneration` and `Claims` follow in sessions of their own,
`Audits` last. Runs, their fallbacks and retries claim at once: their steps
are in `DownloadService` and `AutoSubmission`. `second` is SQLite's
`CURRENT_TIMESTAMP`, by which the task to be replaced is chosen.

### Authentication

`tokens`, `sessions` and `users` are the tables. Transactions of SQLite begin
with the first write: a session that begins with an `UPDATE` is one step
(`RotateSetupToken`, `ConsumeSetupToken`, `ChangePassword`), one that
reads first is two (`AuthenticateReads`, `AuthenticateExtends`). Logins verify the
password (`LoginVerifies`) before they open a session (`LoginOpens`). `LoginOpens`
leaves out the new hash of a verified password (`auth.py:161-162`), which is due
only after the parameters of the hash have changed.

### ProfileScheduling

`rows` has the profiles and lists with the columns that the plan depends on.
An update loads, then writes what differs from what it loaded (`UpdateLoads`,
`UpdateWrites`, `Merged`); an audit event and `CallSync` follow. `sync` is four
steps for each kind of owner: read the table, add jobs one by one, find stale
ones, remove them. `Planned` is the job a row asks for. `PlanFollowsTable`
excuses a scheduler that two threads have been in at once (`clashed`) and rows
whose last change was not followed by a sync (`missed`).

### RuntimeSettings

Three settings stand for all: the disabled sources, which `set_source_enabled`
reads before it writes, and endpoint and password of CloudDrive2, which are
valid together only. `Put` and `Switch` begin an update, `Merge` and `Write` are its two
sessions, `CloseRuntime`, `ReadValues` and `ReadConfig` the reload under the
runtime's lock, which reads the settings twice. `unapplied` marks a request
that raised between write and reload.

### ProviderHttp

`StartRun`, `Operation` and `Report` are the runner: one source after another,
their failures recorded. `Request` waits for the lock of the client; `FindInRun`,
`FindInTTL` and `Miss` are the look into the two caches, `Send`, `Received`,
`Retry` and `Fails` the attempts, all under the lock. `FinishRun` removes the
answers of a run; `unfinished` are the runs whose end the database refused to
record, so that their answers stay. `Reload` closes the client under the calls that wait in it
(`Closed`). The runs are those of profiles, scheduled or by request: they keep the
client they began with. `probe_source` (`runtime.py:167-207`), which ends its run
on whatever client is current by then, is not modelled, and no property speaks of it.

### Selection

A sequential algorithm, made of operators: `Added` is the merge of one
answer, `Contents` the cut at `top_n`, `RuleSet.evaluate` the list of reasons,
`SortKey` the order. The actions take answers one by one, in every order; the
properties are definitions over the set of answers (`Proven`, `Better`), in
`SelectionTable`. `Sorted` is any ascending sequence of the elements; that
there is exactly one is a lemma, since the keys of no two elements are equal.

### Watchlist

Contents are a namespace and a key, since imports and runs name a work
differently (`Identity`, `RunIdentity`). `worker[t]` is where a run stands. `RunReads` takes the first `top_n`
pending items, `Execute` starts the run unless a running row of
the profile is there, and may skip any run (the slots, the lock of the profile, a
runtime without configuration, a failure before the first item: `RunService` has
them). `Reload` fails the rows of the runs under way, which go on (`cut`), so that
another run may begin beside them. `ProcessItem` takes the next work; a user imports, decides, gives magnets and
configures the automation meanwhile. `Settled` are the keys of which the user has
called every item owned or ignored; a run remembers those that were settled
when it read the list. `ItemState` is the state shown: the status
of the latest task, or the row's own. The process does not die in this module.

### RemoteTree

The tree changes by one entry at a time (`Change`), also between two listings
of one `snapshot`, which `DownloadService` takes as one step: `SnapshotsAreSound`
is what remains true of it. There are finitely many `Paths`: names and depth
are bounded in CloudDrive2, and a listing ends. `EnsureCreates` may find the folder made by
another thread, or get no answer; `EnsureChecks` looks again, as the code does. Each look
is a listing of the parent, which fails beyond the limit of entries (`Listed`): in
a parent at its limit a thread fails because another has made its folder
there. `EnsureIsHonest` admits that, and no other failure of two threads for each other.

### Migration

`file`, `backups` and `work` are files: revision, content counted in writes,
whole or half written. Each step may fail (`Fail`: an exception, a full disk, a
killed process); `Start` follows after any of them. `Atomic` maps the file to
`AtomicUpgrade`: its revision and what it holds.

### MCRequests, MCSources, MCProgress

Each has several modules as instances. Their variables are disjoint and a
behaviour is one of one of them (`part`): the sum of their state spaces, not
the product. The other parts rest in an initial state, which satisfies their
properties, so every property is checked in every state. `MCProgress` states the fairness
of its parts; a fairness condition is over the variables of one part.

## 3. Runs

| run | instance | checks |
|---|---|---|
| `download_races` | 2 tasks, 2 contents, 1 BTIH, 2 profiles, 2 threads, sizes 0 to 2, one fault | `TypeOK`, `ClaimPrecedesSubmission`, `CompletionHasEvidence`, `BaselineIsPermanent` |
| `download_retry` | 2 tasks of one claim at generations 0 and 1, 2 threads; or of two candidates of one content, before the first poll | `OneWaitingTaskPerDestination`, `PollTargetsAreLegal`, `ImplementsLedger` |
| `download_settles` | 2 threads, no retry, one fault, fairness | `Settles` |
| `download_terminal` | 1 thread, one manual completion | `TerminalIsFinal`, which is violated |
| `download_stuck` | 1 thread, one retry, fairness | `Settles`, which is violated |
| `auto_submission` | 1 content with 2 candidates, 2 tasks, 1 runner, 1 user thread, the poller, one fault; or 2 contents that share a candidate, 3 tasks, 2 items, 2 runners, one fault, before the first poll | `SwitchNeedsUser`, `SubmittedItemsAreHeld` |
| `auto_btih` | 2 contents that share a candidate, 2 items, 2 profiles, 1 runner, no faults | `OneTaskPerBtih`, which is violated |
| `runs` | 2 profiles, 2 API threads, 1 scheduler thread, 1 slot, 2 runs, 2 services per process, one crash, one fault, fairness | `TypeOK`, `LimitsAreAccounted`, `ScheduledRunsSurviveReload`, `RunningRunsAreLive`, `OverlapsAreCutShort`, `JobsUseCurrentServices`, `RunsEnd` |
| `runs_overlap` | 1 profile, 2 API threads, one reload | `OneRunPerProfile`, which is violated |
| `requests` | *accounts*: 2 threads, 2 passwords, 2 tokens, 2 sessions, clock 0 to 2. *scheduling*: 1 profile, 1 list, 2 API threads and a reload, 2 changes, 1 failed audit. *manual*: 2 threads, 2 works that share one of 2 candidates, 2 tasks when a request begins. *fallbacks*: 1 work, 2 candidates, 1 fallback, a clock that may or may not tell tasks apart. *events*: 3 threads, 3 events, a deadline. *long_log*: 4 events at one instant | `TokensAreUsedInTurn`, `ChangesEndSessions`, `PlanFollowsTable`, `ForcedAreLinked`, `OrdinaryComesFirst`, `RowFollowsLog`, `ManualCompletionIsMarked`, `StandstillIsLoggedOnce` |
| `sources` | *http*: 2 threads, 2 runs, 2 clients (one reload), 1 source and request, clock 0 to 3, interval and time to live 2, 2 answers, 1 retry. *numbers*, *attributes*: 2 sources about 2 candidates, 3 answers; sizes and seeders unknown, 0 or 1, or a truth value and keywords. *top*: 3 contents, 4 rankings, `top_n` 2. *list*: 2 works of which the sources know one, the daily run and a request, 2 tasks, reloads and skipped runs. *single*: 1 key in the namespaces `jav` and `general`, and a magnet. *tree*: 2 threads, 6 paths, 2 changes. *crowded*: the same, with more entries than are allowed. *at_limit*: a folder on the way with as many entries as are allowed, 1 change, 1 lost answer | `RunSeesOneAnswer`, `EndedRunsAreForgotten`, `AcceptedIsProven`, `BestIsTaken`, `DecidedAreLeft`, `SnapshotsAreSound`, `EnsureIsHonest` |
| `progress` | *settings*: 2 requests, a start, 1 failed audit. *http*: 2 threads, 2 clients, no answers. *list*: 2 works, `top_n` 1, no candidates, a daily run that may be skipped, a request, reloads. *database*: 1 process, 3 backups kept, 5 failures. Fairness in each | `StoredIsValid`, `SettingsTakeEffect`, `CallsReturn`, `PendingAreAsked`, `ApplicationStarts`, `MigrationLosesNothing`, `UpgradesAtOnce` |

The type invariants of the parts of `requests`, `sources` and `progress`, and
`AutoTypeOK`, are in no run: they are proved (section 4), and their runs are
for what types do not say.

Why the bounds are enough to be interesting. Two tasks and two threads
are what every conflict in the download table takes: one row in place, one
that comes; a third finds no state of the indexes that two do not produce. Two sizes greater
than zero let a file grow between observations, and `Required = 2` makes one
observation too few count. In `download_retry` the poller rests while two candidates
are claimed (`TwoBeforePolls`): a fallback and what else claims beside it is all
that the second candidate brings. One fault is one crash or one failed call at any
step. Two services are one reload, or one restart and one reload; one slot and
two profiles bring the limit and the lock into play. The theorems below
do without these bounds.

For `AutoSubmission` one content with two candidates is the smallest ranking
with a fallback, and a user thread meets it at each of its steps; no deadline
passes (`BeforeDeadlines`: `attention_required` is reached through
CloudDrive2's answers), an offline task that fails does so at once
(`BeforeProgress`; the theorems are about all of them), and there are no files, which play no part in a
submission. With two contents the run gives up the poller and the user
(`SharedContents`) for a second runner: only there a fallback finds its
destination busy or its candidate claimed. As no user acts in it, no two candidates of
a content may be held at all, unless the other content brings one.
`SwitchNeedsUser` excuses contents that a user has claimed again: ADR-001,
item 8 leaves a retry to the user, and one may come while the run falls back.

In `requests`, two threads are the least that race, and a third actor (the
reload, the poller, the runs) is a thread or an action of its own. Two tokens
and two sessions are one before and one after a rotation or a change; a clock
of 2 with a time to live of 1 lets each of them expire before and after a
use. All profiles have all sources, since what a validation refuses never
gets to the plan. Two changes overlap or follow each other over a reload.
The forced magnet needs one task to replace and one that comes in between;
with a fallback and a clock the latest task of a BTIH need not be of its last
generation. Three events are the two that cross and one before them;
four at one instant (*long_log*) are the claim, a poll and two observations of the
same files, or a return to polls without a baseline.

In `sources`, the clock of 3 lets an answer expire while a run waits behind
the retry of another. A third answer about
two candidates is the least that disagrees with one and leaves the other; all
unknown, zero and boundary values come up, and every order in which three
answers come. What a user calls ignored is treated as what is owned. The tree
has a folder, a file in it and an entry beside it; `MaxDepth` 1 cuts below
a folder in the folder; in *crowded*, three entries side by side are one more
than its `MaxEntries` of 2, and in *at_limit* a parent has two, so that the folder
of one thread is the third that the other meets.

In `progress`, four requests for settings and a switch of a source come in
pairs, over configured and empty settings with and without an environment
variable. The HTTP part has no answers: each call must come back by a refusal,
a timeout or a closed client, the cases in which nothing else ends it. At the
bound of the clock a wait cannot end, and `CallsReturn` excuses it there. Five failures
exhaust every step of a migration, and leave more backups than are kept.

Symmetry is used in runs of safety and action properties only, over task ids,
contents, candidates, profiles, passwords, runs and threads, none of which the
code orders.

Fairness. `Settles` assumes that the poller goes on (`WF(PollStep)`: `sync`
adds an interval job, with `coalesce` and `max_instances=1`) and that the clock
reaches each deadline. It assumes nothing about the jobs, which may stop at any
step, nor about CloudDrive2, and poll failures stay possible within `MaxFaults`.
`RunsEnd` assumes that a thread in `execute` goes on (each remote call has a
deadline), that a reload goes on once begun, and that a process which has
started begins its reload (`lifespan`). `RunsEnd` excuses two endings the code
does not handle: a process that is left without a runtime by a `SettingsError`,
where nothing recovers running rows, and a database that refuses to record the end.

In `MCProgress`: a request that has begun goes on (`WF(Step)`; its sessions
have a busy timeout), and a thread that waits for the runtime's lock, or for
the lock of an HTTP client, gets it if it becomes free again and again
(`SF`: Python's locks hand out no turns, but do not starve a waiter for ever
either). Time passes and each attempt of `httpx` ends by its timeout. The daily
job of a list comes again and its run goes on, but may be skipped every day. Docker starts the
application again when it has stopped (`restart: unless-stopped` in
`compose.yaml`), and a step of the migration ends; failures are bounded, by `MaxFaults`. `PendingAreAsked` has a premise of its own,
that the daily run is not skipped for ever; the code does not guarantee it (slots
are handed out in no order, and a request may have the profile at that time).

### What the violations show

- `auto_btih`: a claim conflicts with tasks of its own generation only, and a
  fallback claims at a later one. A BTIH that is the second candidate of one
  content and the first of another is submitted by both, without a user,
  contrary to ADR-001 and to `docs/PRD-v0.1.md`, line 550.
- `download_terminal`: `append_download_event` overwrites the terminal status
  of a task when the writer has read the task earlier: a poll takes a
  completion by hand back, contrary to `_ALLOWED` (`downloads/state.py:20-47`).
- `download_stuck`: an accepted task owns its destination by a signal, a
  retry claims the destination, and an observation without files takes the ownership
  of the older task away: `uq_download_tasks_destination_ownership` refuses the
  event in every cycle and the deadline of ADR-003, item 5 never has effect.
- `runs_overlap`: a reload fails the row of a run that a request has started,
  and the profile runs a second time beside it, contrary to ADR-002, item 6.

### What else the models show

Behaviours that no property denies, because the repository promises nothing
about them, or says so itself. They are worth knowing before the code is changed.

- Events carry the time at which an operation began, so the log of a task is
  ordered by its numbers, not by its times: a poll that began before the answer
  of the submission writes after it (`downloads/service.py:46`, `:138`).
- An update of the settings that read before another wrote takes the other back
  (`settings.py:123`; `set_source_enabled` in the same way). The settings stay
  valid, since an update writes all fields, and the runtime follows the last one.
- Two updates of a profile mix column by column, to an enabled profile whose
  sources neither of them asked for (`db/repository.py:394`).
- Two threads in `sync` at once may leave the job of a profile that has been
  archived, until the next reload (`scheduler.py:109`).
- The candidate of a preview is submitted without a look for tasks of its BTIH
  at later generations (`manual.py:172`), and a magnet given by hand beside a
  fallback that claims it between the check and the claim;
  `OrdinaryComesFirst` therefore speaks of the time before the first fallback.
- What raises between a forced submission and its audit event leaves a task
  nobody seems to have forced (`manual.py:124`).
- A health check that began earlier and ends later is recorded last
  (`providers/runner.py:87`).
- Works that no source knows stay pending at the front of a list; if there are `top_n` of
  them, the others are never asked for (`watchlists.py:186`), which is why
  `PendingAreAsked` is about the works among the first `top_n`.
- The daily run of a list can be skipped day after day, by the slots or by another
  run of its profile at that time (`runs/service.py:103-109`).
- A task without `completion_state` gets an event from every poll, as long as it
  is polled (`downloads/service.py:187-194`), and so does one whose polls raise;
  `StandstillIsLoggedOnce` is about observations of files. `tests/test_download_service.py:157`
  has the one event of a task that was accepted.
- In a folder with exactly as many entries as are allowed, `ensure_destination` of two
  threads fails for the one that comes second, because of the other's folder
  (`downloaders/clouddrive.py:443`).
- A probe of a source that ends after a reload removes the answers of its run from
  the new client, and finishes nothing in the one it has used (`runtime.py:207`).
- A login that finds old hash parameters writes the hash of the password it has verified,
  over one that was changed meanwhile (`auth.py:161`).
- A key that is not a code is imported as `jav` or `general` and searched as
  `manual` (`providers/manual.py:18`): its item stays pending when it has been downloaded.
  A work imported under both `jav` and `general` is two items, and a run takes it
  from the one though the user has called the other owned; `DecidedAreLeft`
  therefore speaks of keys all of whose items are decided.
- `reset-setup-token` migrates the database beside a running server
  (`cli.py:28`), and nothing excludes two migrations at once: then the copy of
  one may replace a database that the other has upgraded and written to.
  `Migration` is proved for any number of processes, provided that no two of
  them migrate at the same time; the run has one.

## 4. Proofs

All theorems are of the form `Spec => []P`, `Spec => [][A]_vars` or
`Spec => A!Spec` with an abstract specification `A`, for every finite or infinite choice of the constants that
satisfies the named assumptions of the modules (`NoTaskAssumption`,
`RequiredAssumption`, `ThreadsAssumption`, ...). TLC evaluates these assumptions
on every run. `LineageGrows` (`LineagesGrow`) and `UniqueClaims` (`ClaimsAreUnique`) are
proved only; the runs see the claims through `ImplementsLedger`.

`DownloadService_proofs` rests on four inductive invariants.

- `Typed` is `TypeOK` and the fact that a poll which takes a snapshot has read
  a baseline; without it the type of the event it writes is open. It gives
  `TypeCorrect`, and together with the unique claims and exclusive destinations,
  which each claim and each append checks, `ClaimsAreUnique`,
  `DestinationsAreExclusive` and `LedgerImplemented` (one lemma per kind of step:
  a claim, a release, a return, or a stutter).
- `EvidenceInv` adds to `CompletionHasEvidence` what the threads in
  flight will write: polls read unfinished tasks only (`ReadsUnfinished`), jobs
  write `completed` only by hand (`JobsCompleteByHand`), and a poll about to
  write `completed` has evidence that lasts (`PollHasEvidence`). Without these
  the append of a stale write could not be told from a completion without evidence.
- `LineageInv` adds to `LineageGrows` the claims that threads have read a
  generation for (`ClaimsToCome`): the bound holds when it is read, and lasts
  because tasks keep their claims. It gives `LineagesGrow`.
- `BaselineInv`: a task that still has no baseline recorded belongs to at most
  one submission (`SubmissionOwnsTask`), and the poller's copy of the
  completion state agrees with the row's (`PollAgrees`). It gives
  `BaselinesArePermanent`, an action property.

`RunService_proofs` rests on four.

- `Limited`, `TypeOK` with `LimitsAreAccounted`: for locks, that the set is
  the image of the threads that hold one, without collisions; for slots, that
  free and held ones add up, by the theorems on cardinalities. Types
  need the accounting (a slot given back must not exceed the bound). It gives
  `TypeCorrect` and `LimitsHold`.
- `RowsInv`: a working thread has a row of its own, of its profile
  (`RunsAreOwn`), one row runs per profile (`IndexHolds`), no scheduler
  thread is at work between drain and start (`Quiet`), and runs of the
  scheduler are running (`ScheduledRunsSurviveReload`, which depends on
  `RunsAreOwn`: `finish_run` of another thread touches another row). It gives `ScheduledRunsAreSafe` and
  `OverlapsAreBounded`.
- `LiveInv`: from the start of the scheduler on, and in the reload that leads to
  it for all rows but those about to be failed, a running row has a thread
  at work for it, as long as no call to the database has failed. It gives
  `RunningRowsAreLive`.
- `ServicesInv`: at each station of a reload, what the scheduler runs with is
  what requests use, and both are what was built last. That threads of the
  scheduler have left before the services change is what the drain is for. It
  gives `JobsAreCurrent`.

`AutoSubmission_proofs` shows that the composition is an implementation of
`DownloadService`: each step of a runner, a user or the rest is a step of the
service or leaves its variables alone (`AutoStepRefines`), hence `AutoSpec =>
Spec` (`ServiceImplemented`), and all theorems about the service hold of runs
that use it; with `LedgerImplemented`, runs implement the ledger of claims and
destinations as well (`LedgerImplementedByRuns`). The one fact about runners this needs is that they take their
candidates from the ranking, so it goes together with `ItemsOK`, which
needs in turn that rows are never deleted; both give `AutoTypeCorrect`.
`SubmittedItemsAreBacked` rests on two more.

- `BackedInv`, of the service alone: a status that speaks of progress
  (`submitted`, `downloading`, `completed`) belongs to a task that CloudDrive2
  has taken or that was completed by hand, in the rows (`RowsBacked`) and in
  all that jobs and the poller are about to write (`JobsBacked`, `PollBacked`).
  Observations of files count because files need a download
  (`FilesNeedDownload`); what CloudDrive2 has taken stays taken (`TakenStays`).
- `ItemsBacked`: a runner's task and claim are of its item's content and
  profile (`RunnerKnows`), and a status it is about to report is backed. It is
  not inductive without the first part: the task is read in one session, and
  the item updated in another.

`SwitchesNeedUsers` rests on `SwitchInv`, four facts about the tasks that a run
leaves behind. `SwitchNeedsUser` alone says nothing of what is on its way.

- `ChainInv`: the tasks of a content that no user has claimed again are for
  different candidates, and of any two of them a run has left one.
- `SparedInv`: what is given up (refused, left, or about to be left) is not
  being submitted and does not get there. A task both given up and held is one that
  another content's task of the same BTIH excuses.
- `RunnersInv`: a run that waits for the outcome of a task is alone with it, and
  has tried all candidates before it.
- `GroundsInv`: a claim to come replaces a row, by a user for the same
  candidate or by a run for its next one.

The proof goes by the kinds of claims (`FirstOfAll`, of a user, of a run); the
step that matters is a run's, which leaves a task only after reading its refusal.

`ManualSubmission_proofs` rests on `ManualInv`: generations do not
outrun the tasks (`TasksFollow`, without which there might be no largest one to
count on from); a request that has read something still finds it
(`RequestsAreSound`); forced tasks are linked. `OrdinaryIsFirst` needs
in addition that the first task of a candidate is of generation 0
(`CandidatesBeginAtZero`), so that the claim of a second ordinary one is refused by
the index. A fallback breaks that, which is why the theorem speaks of the
time before the first (`NoFallbacks`): the code promises no more (see
section 3). `MaxOfBounded` obtains the largest generation from the
well-foundedness of the numbers, as the least upper bound.

`EventLog_proofs` rests on `EventsInv`: nothing is read before the claim
(`ClaimComesFirst`), and a thread that has loaded the row knows it as it is until
the log grows (`SeenIsRow`). The columns an append believes unchanged are those
of the row it has loaded; without `SeenIsRow` nothing follows about the row after
it. It gives `RowShowsLastEvent` and `CompletionByHandIsMarked`. `StandstillInv`
adds that only the poller appends standstills and that what it is about to
append does not repeat the last event; the comparison reads the log before the
write does, so it must last until the write (`StandstillStays`), or the unique
number refuses the event. `BaselineInv` adds that a row whose files have been
compared has its `completion_state` for good, and that no poll which has read it
before that, and could append `completion_baseline_unavailable`, is still under
way (`BaselineStays`). Both give `StandstillsAreLoggedOnce`.

`Authentication_proofs` rests on `AccountsInv`: rows that threads have read are
still there, with a version not ahead of the changes made (`ReadsStand`); all
tokens but the last are used (`LastTokenOnly`), and so are those that have set a
password (`UsesSpend`). The first gives `PasswordChangesEndSessions`,
the others `TokensInTurn`.

`RuntimeSettings_proofs` rests on `SettingsInv`: a thread builds a runtime
exactly while it has the lock (`LockIsHeld`), and what is about to be written
is valid as a whole (`WritesAreValid`), whatever is stored by then. It
gives `OneReloadAtATime` and `StoredSettingsAreValid`. The
assumptions on requests and environments say that their values have the types of
the fields, which `SettingsUpdate` and the reader of the environment ensure.

`Parts_proofs` has six parts, each about one instance and with an inductive
invariant of its own. They share lemmas about numbers, orders and sequences.

- *The HTTP client* rests on `HttpInv`: the lock of a client is with the
  thread that asks over it (`LockIsHeld`), a run is with one thread until it
  ends (`RunsAreOwn`), what a run has been given is in the cache of its
  client until then, and nothing else is (`ServedIsKept`, `KeptIsServed`), what was missing
  when a thread took the lock is missing until it is answered (`MissLasts`), and
  answers expire in time (`AnswersExpire`). `MissLasts` is what the lock is for: without it a retry
  could put a second answer over the first. It gives `OneAnswerForARun`. `KeptForRuns` adds
  that what a client keeps is for the run of a thread that uses this client, or for
  one whose end was not recorded: a thread keeps its client over a reload. It
  gives `EndedRunsLeaveNothing`.
- *The plan* rests on `PlanInv`: at most one thread syncs (`OneSyncs`), jobs are of
  ids that sync knows or adds (`JobsAreKnown`), and each row is announced, still to be
  listed, listed as it is, or has the job it asks for (`PlanIsMade`). Its steps
  are those of one thread among many; `clashed` and `missed` cut off what
  the code does not prevent. It gives `PlanIsTheTables`.
- *The selection* rests on `SelectionInv`: the sequences that are merged have exactly
  the answers as their elements (`MergedIsAnswered`, `ItemsAreAnswered`), so no
  induction over them is needed: maxima, unknown values and truth values
  of merged evidence depend on the set of answers only. `SortedIsThere`
  shows that every finite set with keys that compare has an ascending sequence, by
  the well-foundedness of its subsets, and `SortKey` compares any two
  candidates as `Better` does. It gives `AcceptedAreProven`, `BestAreTaken` and `SelectionTypes`.
- *`ensure_destination`* rests on `EnsureInv`: the folders before the one
  at hand have been seen, and stay if nobody else changes the tree (`Behind`);
  what a refused thread looks for again is there (`Ensuring`). A thread that
  fails has a cause (`HasCause`): a fault, a change from outside, or more entries
  beside a folder on its way than are allowed (`Overfull`), which stay seen
  (`StaysOverfull`). It gives `EnsureIsHonestAlways`.
- *Snapshots* rest on `SnapshotInv`: each file that stays is in the snapshot or
  below a directory that waits (`Covers`); no directory that waits is above
  another one or above what is in the snapshot (`Apart`), so nothing is
  counted twice, and what waits has been seen (`Waiting`). With `Apart` the entries that are
  counted are disjoint sets of what has been below the destination, which is
  what the refusal needs. It gives `SnapshotsAreSoundAlways`; that the tree stays a tree
  (`TreeGoesOn`, with moves of whole folders) is also in `RemoteTypes`.
- *The migration* rests on `DatabaseInv`: while a process migrates, the backup that it has made is
  whole, is what the database holds, and is the newest, which pruning keeps
  (the newest n are no more than n: `NewestAreFew`), and the upgraded copy has all that the database has.
  The theorems have one hypothesis about the environment, `[]OneMigrates`: no two
  processes migrate at a time, which the code leaves to those who start them; any
  number of them start, write, fail and die before and after. They are `MigrationLosesNothingEver`,
  `MigrationIsAtomic` (every step of the migration is a step of `AtomicUpgrade` or
  leaves the database as it was) and `DatabaseTypes`.
- *Watchlists* rest on `ListInv`: what is decided is neither absent nor
  pending, and no work that a run has still to do has a key that was settled when it
  read the list: a pending item is undecided (`PendingIsUnsettled`), and so is what a
  daily run finds in the rankings (`DiscoveredAreUnsettled`). Of the runs of the list at
  most one has a running row (`Rowed`): a run begins beside those only that a reload has
  cut off (`ListKeepsReloading`). Keys relate to contents
  twice, by `Identity` and by `RunIdentity`, in lists of any namespaces. It gives
  `DecidedAreLeftAlone` and `ListTypes`.

Each of these invariants was checked by TLC on a small instance before it was
relied on.

Only model-checked: the liveness properties `Settles`, `RunsEnd`,
`SettingsTakeEffect`, `CallsReturn`, `PendingAreAsked` and `ApplicationStarts` (the
prover does not handle fairness and ENABLED). Every
safety invariant and action property of the runs that pass is stated by a
theorem.

## 5. What is left out, and the plan

Left out of the modules: the calendar, the executor and the misfires of
APScheduler, and that each `sync` starts the poller's interval again; the mapping of
gRPC errors, TLS, and the token kept for password logins; audit events, unless
they are a step that may fail; error texts; statistics of runs, and the rows of
evidence that a failed item leaves half written; formats of names, keys and
times; hashing, with the new hash at a login; `probe_source`.

Not modelled: source parsers and the normalisation of magnets and keys
(sequential text work without state, which fixtures test better), pages, the
command line, logging, and generated code. `PROJECT.json` names the files.

Planned, in this order:

1. More properties of the modules that there are: a session once revoked stays
   revoked; profiles are archived by a request only; requests keep the interval,
   and are not sent for what a cache holds.
2. `ManualSubmission` as an implementation of `DownloadLedger`; `EventLog` as a
   refinement of one task of `DownloadService`, and `RemoteTree` of its
   snapshots, with proofs.
3. `Migration` without `OneMigrates`, if the program comes to exclude two
   migrations at once.
