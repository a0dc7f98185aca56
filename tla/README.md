# megaParser: a TLA+ model of its scheduling, limits, accounts, discovery and process life

megaParser is one Python asyncio process beside a PostgreSQL database. It keeps a pool of
Telegram accounts, a table of tasks (scan a group, list its members, discover groups) and
eight worker coroutines that execute the tasks through the accounts, inside limits that
keep the accounts from being banned. An administrator steers it through a Telegram bot and
a command line. There is one thread; every interleaving happens at an `await`. The
repository has no tests, and what is hard about the program is what tests would hardly
reach: rows, copies of rows and flags that are read before an `await` and used after it, a
process that may die between any two of them, and time.

Source paths below are relative to `src/`; `runner.py` is `app/services/runner.py`, `repo.py`
is `app/db/repo.py`, and so on. Line numbers are in `PROJECT.json` ("map").

## 1. Inventory

| Part | State it keeps | Operations | Talks to | Correct when |
|---|---|---|---|---|
| Task pipeline (`runner.py`, `repo.py`) | `parser_tasks` rows; an `asyncio.Queue` of row copies; the worker's current copy; `run_event`, `stop_event` | create, fetch, seed, dispatch, done, error, retry, requeue, recover stale, start, pause, shutdown | rows through `repo.py`, accounts through `get_available`, bot through `ControlBus` | a row has one executor, is retried at most three times, is never reopened, is never lost, is finished in the end |
| Rate limiter (`rate_limiter.py`) | counters of the day and the hour, flood series, rest, work period, ban, per account | `can_continue`, `throttle`, `bump`, `handle_flood`, `mark_long_ban`, rolls | read by `get_available`, fed by scans and by the error handler, saved by the persist loop | the caps bound what an account does, pauses are served in full, no account is locked out for good |
| Account pool (`account_manager.py`, `repo.py`) | accounts, `connected`, the connect lock; `account_states` rows | `load_all`, `_connect_one`, `get_available`, `mark_banned`, `mark_dead`, `check_recoveries` | workers, monitor and recovery loop share it | nobody starts a client twice, flag and client agree, nobody waits for the lock for ever, bans end when, and only when, they have passed |
| Group catalogue (`repo.py`, `parser_messages.py`, `parser_members.py`) | `target_groups`: `scan_status`, `tg_id`, `cooldown_until`, depth | upsert, seed tasks, scan, duplicate handling, private, error | written by workers, bot, discovery; read by the poller | each group is scanned, one row per chat, none stuck in "scanning" |
| Discovery (`discovery.py`) | `discovered_links`: `resolved`, depth | seed, keyword and chain-walk phases | takes links, makes groups | each link is tried, depth is bounded |
| Monitor (`monitor.py`) | active account, its handler, watched ids | rebuild every 30 s, stop, store messages | picks a connected account of the pool; `/monitor` changes the rows it reads | one handler at most, and in time on a connected client, for the current ids |
| Process life, bot (`main.py`, `handlers.py`) | the two events, the three services under `gather` | start, `/start`, `/stop`, `/shutdown`, signals, disposal | everything | a pause pauses, a runner that has ended does nothing, nothing is torn down under somebody who uses it, a stop ends the process |
| Error classes (`errors.py`) | none | exception to class | error handler of the runner | - |
| Proxy pool (`proxy_pool.py`, `repo.py`) | `proxies`: active, failures, assigned account; the proxy copied into each account, and from there into each client | import, test, assign | accounts, and the processes that have built clients | no two accounts ever go out through one proxy |
| Command line, importer (`manage.py`, `importer.py`, `session_loader.py`) | none | edits rows, beside the running app | database only | an import does not undo what others rely on |
| Schema, settings, crypto, logging, client factory | none | - | - | - |
| Deployment (`_deploy/`, `docker-compose.yml`) | none | restart policy `unless-stopped` | - | - |

How the parts interact: the **poller** reads the table and fills the queue; **workers** take
copies from the queue, ask the **pool** for an account (which asks each **limiter**), call
Telegram, and write the row back by id without looking at what it says by now; the
**recovery loop** resets rows that have run for ten minutes and lifts passed bans; the
**persist loop** saves counters; the **bot** creates rows and flips the two events. Nothing
but the rows survives a crash, and the container is restarted.

The hard behaviours, each at its line, are the 40 "hazards" of `PROJECT.json`, with the
properties that cover them or the reason none does yet.

## 2. Modules

```
TaskLifecycle  <-- implemented by --  TaskQueue     <-- TaskQueueProofs
                                      RateLimiter   <-- RateLimiterProofs
Sessions       <-- implemented by --  AccountPool   <-- AccountPoolProofs
Crawl          <-- implemented by --  GroupCatalog  <-- GroupCatalogProofs
                     Monitor  <-- in --  Process    <-- ProcessProofs
                                      Supply        <-- SupplyProofs
```

Each `MC...` module names the model values TLC needs, and each `.cfg` is one run. A
definition called `Slip...` is no part of a model: it is a mistake the code could have made
at the definition after it, and the run must then find its property violated.

### TaskQueue

| Code | Model |
|---|---|
| `ParserTask.status`, `started_at`, `retry_count` | `status`, `age` (ticks since `started_at`, `NeverStarted` for NULL), `retries` |
| `Runner._queue`, a worker's `task` variable | `queue`, `held`: copies `[task, retry]` |
| position of `_db_poller_loop`, `_worker_loop` / `_dispatch` / `_handle_exception` | `poller`, `pc`, and `op`, the write a worker has decided on |
| `run_event`; the process and its `start()` | `runEvent`, `runner` (down, up, stopped) |

One `repo.py` statement is one transaction and one operator (`RequeueTask`, `MarkTaskDone`,
...). The fetch and its puts are one step, because a `put` that finds room does not suspend,
and `PutNeverBlocks` is the property that it finds room. A worker's deciding on a write and
the write are two steps. A write may fail: inside the `try` of `_dispatch` that is an unknown
error, outside it the copy is lost and the row stays running. `Unacknowledged` are the commits reported as
failed: a closed row whose worker goes on to retry it, a fetch that marked rows and queued none, a recovery at start. `Crash` and `BotShutdown` may
come between any two steps and wipe the memory (`Forget`). What the task did with Telegram is
abstracted to its class of outcome, account choice to whether there was one.

`TaskLifecycle` is what the table promises: a row waits, is taken, is given back or closed,
is retried at most `MaxRetry` times, and never changes once closed.

To `TaskLifecycle` a row that a worker executes is running until the worker lets it go: the worker of `Unacknowledged` that
closes a row, is not told so and retries it seems to go from running to pending at once.

**Four specifications.** `Spec` lets time pass at any moment. `LossySpec` adds `Unacknowledged`. There a row can be
reopened, but only by a copy somebody still has (`LetGoIsFinal`), and it is never lost. `PromptSpec` and `LossyPromptSpec` are
these two with one assumption: a row in the queue or in a worker does not reach the stale timeout. The
operator of the program must see to it (few rows in the queue, short tasks); *nothing in
the code enforces it*, and the run `queue_resurrect` shows what happens otherwise. A row has one executor, is judged by its
own retry count and follows `TaskLifecycle` in `LossyPromptSpec`; that a closed row is never written again (`TerminalIsFinal`) is
true of `PromptSpec` only.

### RateLimiter

One account and all workers that use it at once, for `get_available` leases nothing.
Timestamps, dates and slots are kept relative to now: `dayFresh` says that `day_date` is
today, `rest` is the ticks to `rest_until`, and so on. `Refuse`, `StartRest` and `Grant` are the
three outcomes of `get_available` and `can_continue`, each with the rolls they make. `Tick`
moves the clock around a day. `scansDay` and `scansHour` count what was really scanned, for
the properties. `FloodReset` and `FloodMax` bound `floodAge` and `floods`: beyond them the code
tells no values apart. `Persist` and `Restart` are the account row and `load_all`; in `RestartSpec` a process
ends only when its counter has just been saved into a row of today (`Saved`), so that no scan is forgotten by a crash.
Delays inside `throttle`, and the counters without a cap, are left out.

### AccountPool

`pc` says at which `await` of `_connect_one`, `mark_banned`, `mark_dead` a process is, and `Boot` is
`load_all`; `lock` is the connect lock; `client` is whether the Telegram client runs and
`connected` is the flag; `memBan` and `until` are the two copies of a ban. Every call can fail:
`start` raises when the client runs already, `get_me` when it was stopped or for any other
reason, every database write is rolled back. A failed call leads where the code's `except` leads.
The order of rotation is left open, an account can be passed over for any reason of its
limiter, and roles are left out. `expire_bans` is two statements (`SelectExpired`,
`UpdateExpired`) as READ COMMITTED lets others commit between them; a crash may come anywhere.
`Shutdown` is the end of `start()`, which cancels every loop at its await while process, bot and monitor live on
(`runner.py:70`): the lock is given back, nothing is saved, and a worker inside `mark_dead` never clears the flag (`pc` "cut").
`disconnect_all` runs only as the process ends: to this module that is a `Crash`, and Process models it.

`Sessions` is what the pool promises whoever asks it for an account: one process at a time opens the session of one account, and only
a closed one; a worker is given an open session, or the one it has just opened; only who has an account closes its
session, or the end of the process; a shutdown sends everybody away with the sessions as they are (`Dismiss`). Its session of an account is `connected`, its opener the process in `start`, `get_me` or at the flag that follows. Like the code, it
lets somebody who has an account close the session for all others who have it, and a worker keep an account whose flag another one has cleared
between its own connect and the state it saves.

### GroupCatalog

| Code | Model |
|---|---|
| `TargetGroup.scan_status`, `depth`, whether `tg_id` is set, the chat behind the name or id | `status`, `depth`, `known`, `chat` |
| `DiscoveredLink.resolved`, `depth`, by `target_username` | `link` ("new" until it is fetched, then "taken"), `linkDepth` |
| tasks waiting in the table or the queue | `waiting`: task `g` scans row `g` (`payload.group_id`), task `c` scans the row with the name of chat `c`, `Chain` is discover/chain |
| a worker: its task, the await it is at, `group`, `links` | `task`, `step`, `row`, `copy`, `todo` |

`TakeScan` is `_load_group`, `Adopt` what `parse_history` does once `get_chat` has answered (the row gets its
`tg_id`, or turns out to be a duplicate and the scan goes on with the canonical row), `Read`
the history and the links saved after it, `Mark` `mark_group_scanned`. `TakeWalk` is the fetch that
marks links as resolved, `Walk` one of them, with the depth test and the upsert. `Poll` is a whole turn
of the poller: the groups it seeds and the walk it adds. `Find` is one group that the seed and
keyword phases upsert; their tasks touch nothing else.

Of the pipeline only this is kept: any waiting task may be taken, and a worker may give its task back
(`Back`: requeue, retry, or a lost copy that recovery finds) or give it up at any step. A crash is
every worker giving back. In `AnySpec` recovery may also reset the row of a task that is still executed, so that the task waits
and runs at once (`Again`). Of the order of tasks, their retries and the queue's bounds TaskQueue keeps more, so `AnySpec`
allows more than it does, and what is safe there needs none of its timing assumptions. `Spec` is without `Again`; only
`GroupsAreTried` is about it. Messages, members and what a scan stores besides links are left out, and
so is a name that changes hands: a username stands for one chat, and a chat has one link. In the code the column is case-sensitive, so
two spellings of a name make two links, each taken once. A fetch of links that another one has locked skips them (`repo.py:436`)
and may return fewer if that other one then fails; here one fetch follows the other.

`Crawl` is what scans and walks are together: the exploration of a graph. `listed` are the chats of the table, `mentioned` the targets of
links, `due` those nobody has taken, `done` the chats with a row marked scanned. A chat is listed because somebody named it or because it was mentioned and
its mention was taken; reading a chat leaves none of its mentions behind; a chat is done when all its
mentions are there. It has no rows, tasks, copies or workers.

### Monitor, Process

| Code | Model |
|---|---|
| `_active`, `_active_ids`, the handlers added to each client | `active`, `activeIds`, `handlers` (a handler is the set of groups it filters) |
| where `monitor.start()` is; where its rebuild, or the loop that repeats it, is; what the query answered | `service`, `rebuild`, `seen` |
| rows with `monitor_enabled`; `connected`; `limiter.is_banned()` | `watched`, `connected`, `banned` |
| where `main.py` is, and the other two coroutines it gathers | `main`, `runner`, `polling` |
| `ControlBus`; each `_worker_loop` | `runEvent`, `stopEvent`, `worker` |
| the accounts `disconnect_all` has yet to come to; the main task is cancelled | `left`, `interrupted` |

Monitor has the steps of the service, Process adds who starts and stops it and who connects and bans
accounts meanwhile. `_rebuild_primary` awaits only its query, so it is two steps, `LoadIds` and `Rebuild`; the
group list may be old by the second. `gather` waits for all three coroutines, and each of them waits for
something different: the runner for `stop_event`, polling for its library, the monitor for an event
that only `monitor.stop()` sets, after `gather`. `RunnerUp` sets `run_event` whatever `/stop` has done to it during the
recovery of stale tasks. An `asyncio.Event` that wakes a waiter has woken it even if it is cleared before
the waiter runs: `SetStop` moves the runner to "stopping". `Interrupt` is Ctrl-C where the loop takes no signal handlers
(`main.py:44`): what is gathered is cancelled where it waits, the background tasks are not.

Of a worker Process keeps only whether it looks at the events, waits in `queue.get` or executes, and that it then
connects, disconnects or bans any account that is not for monitoring. External: `start_polling` may return when its
library decides. `late` counts the tasks a worker begins since a pause, for `PauseBound` (up to 2).

### Supply

| Code | Model |
|---|---|
| `TelegramAccount`: whether there is a row, `enabled`, `proxy` | `imported`, `enabled`, `proxy` (the row of `proxies` it was copied from, `Own` for one of the seller, `NoProxy` for NULL) |
| `Proxy`: host, port and username; `active`, `fails_count`, `assigned_account_id` | `address`, `active`, `fails` (as far as the limit), `assigned` |
| `assign_round_robin`: where it is, its two lists | `step`, `needy`, `free` |
| `test_all`: the bad proxies not yet marked | `failing` |
| `Client(proxy=...)` of each account, per process | `client` |

Every statement of `repo.py` is a step, so each command can be ended, and others can run, between any two of its reads
and writes. `Load` is `load_all` in the app or in a `health-check` beside it: its clients keep the proxies they were built
with. A proxy without username (`Open`) conflicts with nothing, for NULLs are distinct in the
unique constraint, and may be in the table twice. A seller's proxy is taken not to be one of the pool. Two `assign-proxies` at once
would give one proxy to two accounts; the model has one, and the administrator has to see to it. Of an import only `enabled` and
`proxy` are kept.

## 3. Runs

| Run | Question | Bounds, and why they are enough |
|---|---|---|
| `queue_any` | Under any timing, crashes, pauses, lost writes, commits not acknowledged: queue never overflows; every running row can be recovered; waiting rows look fresh; nothing but a copy somebody still has reopens a closed row; no row runs for ever while a runner is up | 2 rows (priorities differ from age order), 1 worker, fetch 2, queue 2, high water 0, one retry, timeout 1. `HighWater + FetchLimit = QueueMax` is the tight case; the row properties are per row, so other workers add nothing but stale copies, which recovery makes with one worker too |
| `queue_prompt` | When no live row gets stale, with lost writes and commits not acknowledged: one executor, current retry count, the abstract life cycle, every pending row is finished | 2 rows, 2 workers, fetch 1, queue 1: two workers to collide, two priorities to starve. `TerminalIsFinal` is false of this specification; of `PromptSpec` it is proved |
| `queue_resurrect` | (violated) `TerminalIsFinal` without that assumption | as `queue_any`, 2 workers |
| `limiter_day` | Overshoot of both caps is bounded; an hour's pause follows the last flood of a series; rests are not cut; the account is granted again and again | 2 workers on one account, a day of 2 hours of 2 ticks, a night tick inside it, caps 2 and 1, two lengths each of work and rest, floods up to 2. The overshoot needs two workers below the cap at once and one over midnight, and both happen |
| `limiter_restart` | (violated) the same daily bound over restarts that lose nothing | 1 worker, hourly cap out of the way: two scans, `Persist`, `Restart`, and two more. With a `day_date` that is restored too, TLC finds the bound kept |
| `pool_contention` | No double connect, no stale flag but that of a `mark_dead` cut short, the sessions of `Sessions`, no starved waiter, no row banned for ever without a ban in force | 1 account, 2 workers and `load_all`, bans of 2 ticks (so that memory and row can differ). Two accounts need more than 13 million states; the lock, the only thing accounts share, is contended with one already, and the safety properties are proved for any number |
| `pool_expiry` | (violated) a ban in force is not lifted | 1 account, 1 worker |
| `catalog_crawl` | Discovery stays within `max_depth` and the radius it implies; a scanned row has left its links; two walks share none; all of it implements `Crawl`; under `AnySpec` | 2 chats that mention each other, one of them seeded, 2 rows (so that one chat can have two), 2 workers, one waiting task of a kind. `MaxDepth` is 3: links have odd depths, so an even limit would hide an off-by-one. A third row takes more than 3.6 million states; that a walk comes upon a known row happens only with more chats, and is covered by the proof |
| `catalog_fair` | Groups that fail for ever stay at the head of the poller's order; while there are fewer than it takes per turn, no other pending group is starved | 3 rows of one chat, 2 groups per turn, the first row `Hopeless`: the turn is too small for all, and what is left of it must serve the other two. 1 worker, no links, so all rows have one depth and the order is by id; a third row with links takes more than a million states |
| `catalog_refused` | (violated) a private group is marked | 1 worker |
| `process` | One handler at most, that in time follows groups and accounts; one task at most begins after a pause; a runner that has ended begins none; clients are closed when the rest is taken down; a stop ends the process | one account for monitoring and one scanner, 2 groups, 1 worker. The handler needs two accounts to move between and two sets of groups that are not empty to confuse. What is said of workers is said of each, and proved for any number |
| `supply` | The two sides of an assignment agree; clients never share a proxy; an assignment is kept | 2 accounts, 2 rows of proxies, an address that conflicts and one that does not, 2 processes, failure limit 2 (3 in the code). Two rows suffice for one to be released and given again, or inserted twice; all is proved for any number. Accounts and processes are symmetric |

`CHECK_DEADLOCK FALSE` in the queue and pool runs only: there the model may stop, with every row
created and closed, or with the recovery having nothing to do. In all others deadlock is checked.

### Fairness

* `queue_any` asks only for the clock and the recovery loop, a timer that asyncio always
  resumes. No worker, call or administrator is fair.
* `queue_prompt` (`FavourableSpec`): poller and workers are weakly fair, because a coroutine
  whose wait is over is resumed, and a fetch tried every 30 s is not refused, or left unacknowledged, for ever. To finish a row
  the world must help: `Favourable(t)` says that a row tried again and again gets an account,
  an answer and a write at some time (strong fairness). Without `PromptSpec`, `Completion`
  is false: a row of higher priority, executed twice and reopened for ever, starves the other.
* `limiter_day`: time passes, operations end, and the account is asked for so often that a
  grant possible again and again is made.
* `pool_contention`: `asyncio.Lock` serves its waiters in order (strong fairness of `Lock`),
  calls end, the recovery loop runs, and its update is not refused for ever.
* `catalog_fair`: the poller goes on, a worker that has started does not stand still for ever (weak
  fairness), a waiting task is taken at some time (strong fairness, per row), no task is given back for ever (an error is retried
  three times; floods and missing accounts end), and the scans of a group fail a number of times only, but for the `Hopeless`, whose
  every scan may fail: nothing in the code makes it succeed, and nothing sets a failed group back, so with `SeedLimit` of them
  (20) the property is false. Seeds, walks and searches are not fair.
* `process`: timers expire, a coroutine whose wait is over is resumed, calls end (weak fairness), and the query of the monitor,
  repeated every half minute, does not fail for ever (strong fairness). Bot, signals, polling, workers and accounts are not
  fair. `HandlerFollows` is about runs in which from some time on the loop runs, the groups stay and some account, not always the
  same, is connected and not banned. `StopEndsProcess` says that polling and monitor are over, because nothing in the code makes them be.

## 4. Proofs

TLAPS proves, for any sets of rows, workers and accounts and any bounds that satisfy the named
assumptions of the modules (`queue` high water plus fetch fits the queue; a day is whole
hours; no rest is longer than an hour; names are distinct):

* **TaskQueueProofs.** `TypeCorrect`, `QueueHasRoom`, `RunningCanBeRecovered`, `WaitingHasNoStart`
  for `LossySpec`; the last three are inductive beside `TypeOK`, given that only the poller adds to the
  queue. `LetGo`, for `LossySpec` too: whatever a worker writes is on the row of its copy, and only pending rows are fetched. For
  `LossyPromptSpec`: `Exclusive`, `Current`, `Implements` from one invariant, `PromptInv`. None of them is
  inductive alone: that a worker's write finds its row running with the retry count of the copy needs
  that there is one copy of a row at all (`OneCopy`), in the queue or in a worker, and that
  copies are of running rows that are not stale, or of rows their worker has closed without being told (`CopiesAreFresh`,
  `ClosedUnheard`), for else recovery gives the row back and a second copy is fetched. `RetriesAreBounded` gives the retry step of
  the abstract life cycle. `Implements` is the refinement, step by step. `Final`, for `PromptSpec`, adds that there every copy is of a
  running row (`CopiesRun`).
* **RateLimiterProofs.** `DayBounded` and `HourBounded` are one argument with two instances,
  `Accounted`: each worker in flight has a place reserved under `cap - 1 + Users`, and scans that
  the counter forgets at its roll are by workers in flight when the day began, one each.
  `FloodPauseIsTaken` needs that no rest is longer than the flood pause (`RestInv`), for the flood overwrites whatever rest there is.
  `RestIsNeverCut` follows from the same.
* **AccountPoolProofs.** `ConnectsOnce` from `ConnectInv`: the lock's holder is exactly the process that
  connects, and one that is starting has seen `connected` false and nobody else can set it.
  `ConnectedRuns` is inductive: only `Stop` turns a client off, and the process that did it is
  still at `stopped`, or has been cut off there by `Shutdown`, after which no worker does anything. `Implements` is the refinement of `Sessions`; it needs `ConnectInv` again, for an opening that ends
  must be the one that began, and a session is opened closed.
* **GroupCatalogProofs.** All for `AnySpec`. `TypeCorrect` needs that a task which names a row by id names one that exists
  (`TasksHaveRows`). `RadiusBounded` needs three bounds at once (`RadiusInv`), for depth moves from row to copy,
  from copy to link and from link to row, and `WalkInv`, that what a walk has to do was taken.
  An old copy is harmless, because its depth was true of the same chat once, and a bound on the distance of a chat
  never ceases to hold. `ScannedComplete` needs that whoever is about to mark has saved its links;
  `WalksDisjoint` follows from `WalkInv`. `Implements` is the refinement of `Crawl`: that a mark is `Count` needs `CompleteInv`, that the
  outcome of a link is `Resolve` needs `WalkInv`, and that the types hold (`TypeInv`) makes every row's chat a chat.
* **ProcessProofs.** `OneHandlerAlways`: without the handler of `_active` there is none (`RemovedIsEmpty`), so
  a move leaves one; inductive with the fact that a process that is down has none (`HandlerInv`). `PauseBounded` from `PauseInv`: who is
  late waits for no other task. `ClientsClosed` and `EndedIsIdle` from one invariant, `CloseInv`: unless interrupted, the workers are
  gone whenever the runner is not between its start and its end, `main` gets past `gather` only with the runner ended, and so nobody connects what
  `disconnect_all` has passed.
* **SupplyProofs.** `NobodyShares` is not inductive: a client may be as old as one likes. `SupplyInv` says that
  whatever proxy a client has is assigned to its account still, which holds because assignments are for good
  (`AssignedForGood`), and they are because `free` has only proxies without account. `Linked` is the same for the rows.
  `MinIsMember` (the first free row is one of them) rests on the well-founded order of the library.

Only model-checked: all liveness (`NoStranding`, `Completion`, `GrantedAgain`, `Served`, `BanIsLifted`, `GroupsAreTried`,
`HandlerFollows`, `StopEndsProcess`), since TLAPS proves nothing about fairness and ENABLED, and the violations.

## 5. Findings

1. **A live task is reset as stale** (`queue_resurrect`, `repo.py:543`). `started_at` is set when
   a row is *fetched*; a hundred rows wait in memory, a chain walk resolves up to 500 links.
   After ten minutes the row is reset, executed again, and the slower worker reopens what the other closed.
2. **The daily cap starts anew at a restart** (`limiter_restart`, `rate_limiter.py:90`): `load_all`
   restores `groups_today` but no `day_date`, so the first roll wipes it, even if it was saved just before. (The row has a
   `day_date` of its own, which `persist_counters` does not write: after a midnight in the process, `reset_daily_counters`,
   `repo.py:185`, wipes what was saved today as well.)
3. **A new ban is lifted with the old one** (`pool_expiry`, `repo.py:176`): the UPDATE of
   `expire_bans` does not repeat the conditions of its SELECT.
4. **A private group is not marked if its scan was ordered by name** (`catalog_refused`, `runner.py:306`): the tasks
   of `/seed`, `seed-group` and `bulk-seed` carry no `group_id`. A row that had reached "scanning" keeps that for ever.

Seen while modelling, with no run of their own:

* Accounts. `max_concurrent_accounts` limits only the connects of `load_all`; `get_available` connects any candidate
  (`account_manager.py:151`), where README.md:106 and :112 treat it as how many are connected. After `get_me` fails, or `mark_dead` clears the
  flag under a new connect, the client runs while `connected` is false, and every later `start` raises. A worker that /shutdown
  cancels while it stops the client of a dead account leaves `connected` true for good: `except Exception` (`account_manager.py:166`) lets the
  cancellation through, and the monitor goes on taking the account for connected.
* Control. A worker already waiting in `queue.get` takes a row after `/stop`. A `/stop` given while the runner recovers stale
  tasks is undone by `run_event.set()` (`runner.py:57`). `/shutdown` ends the runner only: README.md:83 calls it a full graceful shutdown, but `gather`
  waits for polling and for a monitor that is enabled, which nothing tells; until a signal or an error ends them the process
  lives on, and `/start` answers "runner started" though nothing runs. A client whose `start()` is cut short by the cancellation
  of its worker is not flagged as connected, and `disconnect_all` passes it over.
* Monitor. A banned account keeps the handler. An account for monitoring that loses its connection or is banned is never
  connected again or marked, for no task asks for its role; the scanner that takes over has a client built without
  updates (`account_manager.py:88`) and keeps the handler when the other is back, so the failover of README.md:68 hears nothing.
  `monitor.min_accounts` is not read.
* Proxies. Two `assign-proxies` at once can give one proxy to two accounts. An account imported again without a proxy gets another one, and
  the old one stays assigned to it and unused; nothing releases a proxy, and a dead one is not replaced (README.md:141 asks to assign anew,
  and `assign-proxies` takes only accounts without proxy). A proxy imported again keeps its failures and its old password.
  The accounts that `assign-proxies` warns "will be disabled" (`proxy_pool.py:176`) are not. `health-check` connects the sessions the app is using.
* Scans. A flood wait or any other error in one letter of the member search is logged and skipped (`parser_members.py:39`): the
  task is done with part of the members, and the limiter is not told of the flood.
* Catalogue. Twenty groups whose scans go on failing with an unknown error, pending at the head of the order, keep every other one from being
  seeded (`repo.py:302`, `runner.py:317`): nothing sets a failed group back. Seeding is not idempotent, though manage.py:221 says so (two rows of one name, and every task by that name then
  raises `MultipleResultsFound`); the mark "duplicate" is overwritten with "scanned" a moment later; a
  scanned group never becomes pending again, so `cooldown_rescan_hours` has no effect; the links of
  a walk that stops are lost, being marked resolved first; and a mention costs two of `max_depth`,
  one for the link and one for the row.

## 6. Not modelled, and the plan

Not modelled for good: archives and session files, backup, displays, crypto, logging and the deployment
scripts (pure input and output, no state of their own), and the table in `errors.py`. A crash of the database, which
`synchronous_commit=off` lets forget the last commits, is not modelled either: the crashes here are those of the process.

Left for later: the messages and members a scan stores, and `members_status`; a composition of the limiter with the pool, in
which `get_available` asks the one about the accounts of the other.
