# OmniGrid in TLA+

OmniGrid is a single process (FastAPI, one asyncio event loop, SQLite) that
watches Docker Swarm clusters and bare hosts through Portainer, SSH and other
agents, and operates on them. Its page is an Alpine.js application that is fed by
polling or by a server-sent event stream. This directory models its
concurrent core, checks it with TLC on small instances and proves part of it with
TLAPS for every instance.

One convention holds for every module: all coroutines share one event loop, so
what the code does between two `await`s is one atomic step, and everything else
may happen between two steps.

Contents: [inventory](#inventory) - [plan](#plan) - [modules](#modules) -
[runs](#runs) - [findings](#findings) - [proofs](#proofs) -
[limits](#limits)

## Inventory

### Modelled

| component | state | operations | interacts with |
|---|---|---|---|
| **Operation registry** (`logic/ops.py`, `logic/ops_extras.py`, `main_pkg/ops_routes.py`) | `ops` dict, `ops_order` list, attributes of each `Operation`, `history` rows | `new_op`, `Operation.done`, `persist_history`, one `do_*` handler per operation type | called by routes, chat and assistant, by the scheduler and by a handler that has ended; invalidates the items cache; publishes `op:*` |
| **Image pre-fetch** (`logic/image_pull.py`, the convergence wait in `ops_extras.py`) | the locals of a handler's body; fetch jobs, images and `UpdateStatus`, all of them at Swarm | `ensure_images_on_nodes`, `_sweep_stale_jobs`, `_pull_via_swarm_job`, `_pull_via_portainer`, `_await_stack_convergence` | runs inside the handlers of the registry and asks the registry who owns a job |
| **Scheduler** (`logic/schedules.py`, `main_pkg/users_routes.py`) | `schedules` table, tick loop, a waiter task per fire | create, update, delete, run now, tick, fire, wait, stamp, ghost sweep at boot | registers operations or runs a task of its own; polls `ops` for outcomes |
| **Live updates** (`logic/events.py`, `/api/events`, `static/js/app-sse.js`, `app-admin.js`) | subscribers with a bounded queue and an overflow flag; a bounded local queue per connection; in the page the connection, two debounce timers and the reload in flight | publish, subscribe, drain, send, close; open, receive, reload | fed by every other component; the page answers with GET `/api/items` |
| **Items cache** (`logic/gather.py`, `main.py` `api_items`, `hosts_merge_routes.py`) | `_cache`, its `ts`, the `items_snapshot` row, the background task | gather, merge of direct Docker nodes, invalidate, save and seed the snapshot, GET `/api/items` | invalidated by handlers; gathered by page, scheduler and assistant; announces `cache:invalidated` and `cache:refreshed` |
| **Host failure counters** (`logic/host_metrics_sampler.py`, `logic/host_resume.py`, `main_pkg/hosts_*.py`) | `host_failure_state` rows per (host, provider) and per host; the curated host list and a cached copy of it; probes in flight | the two legs of the sampler, probes behind a host view, bulk pause and resume, resume of a row, save and import of the host list, orphan sweep | thresholds come from the settings; pages set off probes |
| **Settings store** (`logic/db.py`) | the `settings` table, `_SETTINGS_KV_CACHE` and its stamp, the refill lock, the deferred count and the pending flag, the write buffer | `get_setting`, `set_setting`, `batch_settings_writes`, `defer_settings_version_bump` | read by everything, worker threads included; other tabs watch `_settings_version` |
| **Telegram listener** (`logic/telegram_listener.py`, `logic/telegram_ai.py`) | `offset` and its saved copy, the window of seen ids, `_PENDING_ACTIONS` | poll, take an update, answer a request, run the action behind a button | keeps offset and switch in the settings store, defers its count while it works |

What is hard, and what makes each correct:

* **Registry.** Conflicts are looked up in a dict that a bounded list evicts from
  while operations run; handlers end in an `except`/`finally` ladder with awaits in
  it; a shutdown cancels them anywhere. Correct: exclusive per family and
  target, running implies registered, truthful history, everything that
  starts ends.
* **Image pre-fetch.** Jobs live in Swarm: one may exist before its id is known,
  outlive its creator and the process, or refuse to go; downloads and rollouts may
  take for ever. Correct: nothing is stopped before its images are there, a
  job that a running operation waits for is not swept, orphans have a reason and
  the next sweep takes them, green means still, every body ends.
* **Scheduler.** Tick, waiters and boot share rows that survive the process.
  "Still running" is inferred from a NULL column, from an age and from the
  registry, of which each alone is wrong at some time. Correct: no overlap, at
  most one fire per interval, the row tells the outcome of the fire it names,
  no row is locked for good, `last_run_at` is a fire time.
* **Live updates.** Two bounded queues drop in opposite directions, connections
  break, subscriptions lag behind the hello frame, reloads are single flight and
  debounced. Correct: no invalidation is forgotten, queues are bounded,
  dead clients unsubscribe.
* **Items cache.** Gathers take seconds, and several may run; invalidations fall in between; each
  of the parallel reads may fail by itself; a merge appends to shared state after its awaits.
  Correct: what is fresh is not older than what was announced, no duplicates, no part
  backwards, a down Portainer takes nothing away, eventually complete and up to date.
* **Host failure counters.** Several probers read a gate, await a host and then
  count in the same rows, while operators pause, resume and edit the host list and a
  guard works from a cached copy of that list. Correct: a pause has enough
  failures behind it and lasts until somebody lifts it, rows of pairs that are
  configured no more do not come back, the dead are given up and the healthy
  are clear.
* **Settings store and Telegram listener.** The loop changes the cache before it
  commits; a thread stores what it selected earlier; counts are owed over the
  awaits of a handler. The offset is memory, cache, row and a promise to Telegram.
  Correct: reads are current, changes are counted, a command runs once and is
  lost only where it must be.

### Not modelled

* **Authentication** (`auth.py`, `totp.py`, `auth_routes.py`): sessions, pending
  second factors, lockout, one-time codes. **Migrations**, **backups**.
* **Providers, clients, parsers** (Beszel, Pulse, Webmin, SNMP, node-exporter,
  ping, Portainer, SSH, registries, 67 app integrations, AI models): I/O whose
  answers and failures are nondeterministic choices of the modelled actions.
* **Presentation**: rendering, translations, charts, forms.

`PROJECT.json` lists every component and every hazard with its line; a hazard that
no property covers says why.

## Plan

Built: `TargetLock`, `OpsRegistry` with `ImageFetch` composed on top of it,
`Scheduler` (likewise on top of `OpsRegistry`), `EventStream`, `GatherCache`,
`HostFailures`, `SettingsStore` with `TelegramListener` on top of it, and the
proofs named below.

Next, in this order:

1. Calendar mode of the scheduler (`compute_next_run_at`) as a pure operator
   against a reference definition.
2. `GatherCache` with `EventStream`, so that a Live tab ends up *showing* the
   fleet and not only asking for it.
3. Authentication.

## Modules

Definitions whose names end in `Bug` are wrong on purpose. Each is a slip the code
could have made; no specification uses them, they serve to confirm that a
property would notice the slip.

### TargetLock and OpsRegistry

`TargetLock` is the abstract promise: a lock per (conflict family, target), taken
once by an operation, given back once, all given back by a restart. `OpsRegistry`
is the code: `NewOp` is `new_op` (conflict check, registration, list trimmed to
`MaxOps`, eviction of what no longer runs), the handler is
`working` -> `notifying` -> `ended`: its body and `done` are one step
(`Succeed`, `Fail`), the notification is the await before the history row
(`Finish`). `do_rollback_to_image` may register a fetch in that last step
(`FinishAndPrefetch`). `Restart` empties the registry and cancels handlers
wherever they are; a cancelled one writes its row from its `finally` clause with
the status it has.

### Scheduler

EXTENDS `OpsRegistry`: the prune kinds register real operations, all others
are the synthetic `gather_refresh`. `TickFires`, `RunNow` -> `Launch`* -> `Fired`
is one call of `fire_schedule`; the loop does not give way in between, so
`firing` blocks everything except a crash. `record_run` is translated with its
three callers. Time is counted in ticks as *ages*, capped at `Horizon`,
so behaviours may be infinite. `WaiterReady` and `Outcomes` are `_await_op_completion`,
which polls the registry; `PreviousRunActive` is the skip-if-running test; `Sweep`
is the ghost sweep at boot. `displaced` is a history variable: the fires that
their row stopped naming other than by a tick, because somebody pressed "Run now" or
because the waiter of another fire stamped the row.

### EventStream

`Publish`/`Push`/`HandedOver` are the bus, `Drain`/`Send`/`CloseStream` the two
tasks of `/api/events`, the rest one tab in Live mode. Subscribers are
independent, so one tab with several successive connections is enough. The
overflow marker follows the first queued event, because the subscription is
suspended in `queue.get()` when events get dropped. `gap` is a history
variable: it names the three ways in which the code really forgets an invalidation
(before the first subscription, local queue full, reload failed) so that the
invariant is exact about the rest.

### ImageFetch

EXTENDS `OpsRegistry` and replaces the one-step body of three handlers by what
they do: `Resolve` what to fetch, `List` and `Sweep` stale jobs, for every (node,
image) pair a Swarm job (`Created`, `Refused` or `CreateLost`; `Poll`,
`PollRaises`; `RemoveJob`, the `finally` clause) or a pull streamed through
Portainer (`Streamed`), then `Swap` and, for a stack, `ConvergencePoll` until
`WaitTimesOut`. A step that ends a body is `Succeed` or `Fail` of the registry,
so the two modules share one account of what a handler is. `SwarmCreates`,
`JobMoves` and `RolloutMoves` are Swarm, external and without fairness. The
property `ImplementsOps` is the registry's fair specification, under the identity
mapping. `left` and `due` are history: which jobs had to be left behind,
and which orphans a sweep has taken on.

### GatherCache

The fleet is a version number. `swarm` has a version for each of the parallel
reads of Portainer, 0 where that read failed; `direct` has one for each copy of the
direct node's items. A gather is `reading` -> `building` -> `published` ->
`merging` -> `ending`, one step for what happens between awaits that matter.
Its reads are sent together and answer one by one, each with some state of the fleet
since then (`Answers`), which gives the three outcomes of `_gather_impl`: `Read` if
all answer; `ReadInPart` if some fail, where the gather goes on and publishes the missing
part as empty and fresh; `PortainerDown` if all core reads (`Core`: not the stacks) fail,
where it keeps the last good items. A part that is missing leaves nothing to serve only
if it is one of those listed as items (`Listed`). `Kick` is the single-flight
guard; the scheduler and the assistant bypass it. `Abort` and `TimeOut` are
exceptions and cancellations. `overlap` and `missed` are history variables that
delimit the two exceptions of the properties.

### HostFailures

`row` is `host_failure_state`. The legs of the loop are `TickStarts` ->
`TickProbes` per host -> `ProbeFails`/`ProbeSucceeds`/`ProbeLapses` -> `TickEnds`;
`ViewProbes` is the probe behind a browser's view of the host. `Gate` is the row a
prober asks and `Records` the rows it writes, and they differ for the
node-exporter leg. `AfterFailure` is `record_provider_outcome` with its guard
(`Refused`, on the copy `Known` of the host list) and the counting and pausing of
`_record_failure` (`Failed`); `AfterSuccess` is `_clear_failure`. The successes of the
node-exporter leg are held until the whole tick has been stored. The other five
providers behave like the SNMP leg. `Event` bounds everything that is not the
probers' own work. `streak`, `unseen` and `stray` are history: failures since the
last recorded success or resume, pauses that came too late for a probe, rows that nothing had
to remove.

### SettingsStore and TelegramListener

`SettingsStore` gives the loop's writes in the steps a worker thread can tell
apart: in memory (`SetSetting`, `FillBuffer`), then `Commit` or `WriteFails`.
`loop` says which write is under way; as none of these functions awaits, nothing
else of the loop runs meanwhile. `WorkerSelects` and `WorkerStores` are the two
halves of a refill by a thread, `Refill` is the loop's. `Enter`/`LeaveDefer` are the
counting contexts. `TelegramListener` EXTENDS it: its offset is a row of the
table, its switch is read through the cache, and its batch is a deferring
context that is open over the awaits of its handlers. `Kept` and `Ordered`
are Telegram, which forgets what is below the offset of a poll and may send an update
once more.

`MCOps`, `MCImage`, `MCScheduler`, `MCEvents`, `MCGather`, `MCHost` and `MCTelegram`
instantiate them.

## Runs

| run | instance | shows |
|---|---|---|
| `ops` | 4 operations, 1 target, list of 2, 1 restart | exclusion, registered while running, truthful history, termination, refinement of `TargetLock` |
| `image_fetch` | 2 operations of 2 images each, 1 target, list of 1, 1 restart | images before the swap, awaited jobs stay, orphans explained and swept, green only when still |
| `image_ends` | the same with 1 image | with fairness, the bodies implement the registry with its fairness |
| `sched_ticks` | 2 nodes, 2 prune kinds, 2 fires and 1 run by hand | no tick doubles a `prune_node` run that its row names, row and outcome agree |
| `sched_faults` | 1 node, synthetic kind too, 1 restart, 1 fault | no ghost rows, spacing, fire times, no eternal skip |
| `sched_overlap` | 1 node, 3 fires, short interval | *violation* of the guide on `prune_all_nodes` |
| `events` | queues of 2, socket of 1, 4 events, 2 connections, 1 failed reload | nothing forgotten, all asked for, dead clients leave |
| `gather` | 2 callers, 2 reads, 2 fleet versions, 2 failures, 1 restart | no duplicates, nothing fresh older than announced, no part backwards, catches up |
| `gather_stale` | 1 caller | *violation*: invalidation undone by a gather |
| `host_failures` | 1 host, 2 providers, threshold 2 or off, 2 events | pauses are earned and stand, orphans stay away, dead pairs paused, healthy ones clear |
| `host_alone` | the same without events | *violation* of the guide on thresholds |
| `telegram` | 3 updates, 2 saves, 1 fault, 1 restart, 1 repeat | current reads, counted changes, commands and actions run once, lost only if cut |

**Why the bounds are enough.** A list of two with four operations pushes running and
ended operations off the list in every order. Two fires and the waiter timeout,
stuck threshold and interval in the order of the defaults (`1800 s < 3600 s`)
cover every relation of two runs. Of three fires, the last one can meet a row that the
waiter of the first took back from the second (see "met while reading"): such a
row is the named exception of `PruneNodeRunsDoNotOverlap`, and the theorem covers any
number of fires. (With the threshold below the waiter timeout, which the
settings page allows - it accepts 600 to 86400 s -
`PruneNodeRunsDoNotOverlap` fails: the order of the two is load-bearing.) Queues of two and four
events overflow both queues. Two gathers and one change let each overtake the
other; a third caller would only add a third copy. Two core reads, of which one is listed,
are answered by the same or by different states of the fleet, in part, or not at all; two
failures (the failing reads of one gather count as one) put a part that is missing before or
after an outage. The theorems cover all
subsets of the five reads, with the stacks, which are not core. All properties of `sched_*` are
about one row, and a tick decides each row by itself. Two operations that fetch at the
same time sweep each other's jobs, two images give a job behind and a job ahead of the
current one, and a list of one pushes a running operation off it. Rows of two
hosts never meet, and a leg keeps its successes back with one host as with many;
a threshold of 2 is the smallest at which counting and pausing are different
failures, and two events put a pause, a resume, an edit, an error or a restart before
and after another. Three updates are a request and two presses of the button it got;
two saves start and end while a batch is open. `_SEEN_UPDATE_IDS_CAP` (512) and
`_PENDING_ACTION_CAP` are out of reach of three updates; expiry of an action
(`ActionExpires`) may happen at any time instead.

`CHECK_DEADLOCK FALSE` is set everywhere because bounded instances run out of
operations, fires, events or restarts; the idle process is a legal state.

**Fairness.** Weak fairness only of what the event loop or a timer does by itself:
handler steps (every await of a handler has a timeout), launching, stamping and
sweeping, time, queue hand-over, a tab that reads and reconnects, gather steps,
expiry of the TTL, and a page that polls (`CacheCatchesUp` only: in Live
mode nothing polls the items, and without that fairness the property is not
claimed). `ImageFetch` assumes steps of a body and the observe timeout, and nothing of
Swarm. `HostFailures` assumes that both legs come due again and again and that a probe
which is out reports (strongly fair, because cool-downs and missing baselines may
take a turn, but not for ever), and that the copy of the host list expires; nobody
has to look at a host, act on it or mend it. No fairness of operators,
failures, publications, restarts, nor of synthetic tasks, which may hang:
`NeverSkippedForever` then rests on the stuck threshold alone.

## Findings

1. **Slow `prune_all_nodes` passes overlap** from the second run on
   (`schedules.py:2966`, run `sched_overlap`): firing does not reset
   `last_duration`, so the guide's "`last_duration` is NULL until the waiter
   resolves" holds for the first run only.
2. **An invalidation during a gather is lost** (`gather.py:3093`, run
   `gather_stale`): the gather's end sets `ts` to now over items it read before
   the change.
3. **A dead host is probed for ever** (`host_metrics_sampler.py:818`, run
   `host_alone`): the node-exporter leg asks the row of the whole host, which its
   failures never pause, and not the provider's row, which they do; the guide
   says that probes of a paused host are skipped entirely.

Met while reading, without a run of their own:

* *Registry:* a running operation that the list pushes out is not shown by `/api/ops`,
  against the comment at `ops.py:1476`, and its dict entry is never removed.
* *Image fetch:* the rollout wait takes only `updating` for in flight, so an update
  that Swarm has paused or rolled back is reported green (`ops_extras.py:573`
  against `task_diagnosis.py:149`).
* *Stream:* the `:local-overflow` hint goes into the queue that has just been found
  full (`ops_routes.py:891`, docstring at 879), and nothing listens for it; the
  overflow marker is yielded after, not before, the first queued event
  (`events.py:131`); a dead TCP connection in Live mode only flips a flag
  (`app-sse.js:957`), as no poller of items runs there.
* *Items cache:* when one to three of the four core reads fail, their part is published as
  empty, counts as fresh for a whole TTL and goes into the snapshot, which "always reflects the
  latest known good state" (`gather.py:655`); only all four failing keeps the last good items
  (`gather.py:1844`; `CacheNeverGoesBack` names it). Overlapping gathers list direct nodes twice until the next one
  (`gather.py:1636`; `DirectItemsOnce` names the exception); `api_items` logs "letting gather continue
  in background" when `wait_for` has just cancelled it (`main.py:1836`).
* *Scheduler:* the guide says a waiter that times out leaves the row unstamped, the
  code stamps `(0, "error")`. Skip-if-running "prevents overlapping prune_nodes against
  the same daemon" (`docs/guidelines/scheduler.md:174`), but a waiter stamps its own
  fire's id (`schedules.py:2775`): when a tick fires between the end of an operation and the
  next poll of its waiter, that waiter then takes the row back from the new fire, and
  the tick after next finds an ended operation there and starts a second run beside the
  new one. This takes three fires; `PruneNodeRunsDoNotOverlap` names it through
  `displaced`.
* *Hosts:* a bulk pause is lifted by the success of a probe already in flight
  (`PauseStands` names it); `service_sampler` asks for no pause; `_is_provider_paused`
  says "not paused" when the database cannot be read; a removed host's row can
  come back by a probe in flight and stays until the next save or boot; the
  "rounds" of a threshold count views of the host, too; a name that never resolves is
  skipped for ever and never counted; an imported host list neither sweeps nor
  drops the cached copies.
* *Settings:* a refill that a write overtakes is old for up to 3 s though the comment
  above `_SETTINGS_KV_CACHE` promises read-after-write; a failed flush of the buffer is
  swallowed and the save answered as done; `settings:updated` is published before the
  count, with the old version in it; the listener's deferral holds other people's counts
  back while a handler runs.
* *Telegram:* `_save_offset` lets a database error through after `offset` has moved, and
  the next poll drops that update (`LostOnlyIfCut` names it); a repeated update
  moves the offset back, which after a restart can run a command twice
  (`HandledAtMostOnce` names it); the offset is not kept per bot token; switching the
  listener off does not stop a poll or a batch under way; the switch is read outside the
  inner `try` (`telegram_listener.py:2291`), so a database error there ends the loop for good.

## Proofs

Eight modules hold theorems: `OpsRegistryProofs`, `SchedulerProofs`, `ImageFetchProofs`,
`EventStreamProofs`, `GatherCacheProofs`, `HostFailuresProofs`, `TelegramProofs` and
`DeliveryProofs`. They hold for every value of the constants that
satisfies the model's named assumptions (`OpsAssumption`, `SchedAssumption`,
`FetchAssumption`, `EventAssumption`, `CacheAssumption`, `HostAssumption`, `StoreAssumption`,
`ListenerAssumption`: types, positive bounds, ages that stay below the horizon, and
that a settings key is announced or quiet but not both). The bounds on updates,
failures, fires and restarts that TLC needs are parameters there, of any size. One theorem
has a hypothesis of its own, named below. Every invariant and every action property of a
passing run is a theorem.

**Registry.** `NoConflictingOps` is not inductive: an eviction could drop a
running operation and so hide it from the next check. `OpsInv` adds
`RunningIsRegistered`, the types, the shape of an operation in each handler
state, and that history rows are written once. `NewOpInv` is the main lemma; each
action has its lemma on top. `OpsImplementsLocks` shows that a
registration takes at most one free lock (families are disjoint), that `done`
releases it and that a restart releases all, everything else being a stutter.

**Scheduler.** `SchedInv` follows a fire through its stages (`FireOK`), ties its outcome to
its operations (`FireEnd`) and says what the row that names it shows (`RowOK`): stamps
of different waiters mix on one row, and `RowTellsTheOutcome` needs that a stamped
outcome comes with the id it belongs to. `FireAge` compares clocks: a row has run since
each fire stamped on it, hence `TickFiresSpaced`; and a waiter that still polls has a
fire younger than its timeout. `AtBoot` is why the sweep may close what it finds open.
`PruneInv` adds, for `PruneNodeRunsDoNotOverlap`, that the row names each run under way
that is not `displaced`; then `NothingUnderWay` is the argument of the skip test: the
registry has the running operation, and in a first run, whose row has no outcome
yet, the waiter is gone before the row counts as stuck. That takes
`WaiterTimeout < StuckAfter`, a hypothesis of this theorem only: the code's defaults satisfy
it and the settings page does not enforce it. `Onward` is all the scheduler needs to know of
the registry's own steps. `SchedImplementsLocks` adds that fires, which ask no route for
permission, respect the registry's locks.

**Image fetch.** `FetchImplementsOps` shows, step by step, that a body does to the
registry what a handler may do, so `OpsInv` holds while images are fetched. `Bodies`
ties the locals of a body to the stage of its handler and `Fetched` says that the pairs
behind it are on their node or refused, which gives `SwapOnlyWithImages`. `JobLife`: a
job is asked for once, by a body that has come to its pair, and from then on that body
minds it or it is in `left`, which gives `OrphansExplained`. `Sweeps`: what a sweep has
taken on is nobody's any more and still ahead of it. `AwaitedJobStays` and
`GreenOnlyWhenStill` are action properties that need the same invariant: a sweep asks
the dict, in which a running operation always is.

**Live updates.** `NoInvalidationForgotten` speaks of both ends of a connection, so
`Connections` says what holds between them: a connection with a successor is gone,
its two ends are at matching stages, and those being served are the subscribers. The
invariant is then kept because each step hands the reason to reload on: from the event or
marker in one queue to the next one, to a timer, to a reload, or to the reconnection.

**Cache.** `CacheInv` strengthens the three invariants by what a gather in flight
may still do: without an overlap there is one gather and what it appends meets a
stripped list (`Single`); no part it will publish is older than what was announced unless
`missed` (`Shown`), nor than what it replaces (`NoOlder`), and where a part is missing a core
read has answered (`CoreAnswers`), which is why `CacheNeverGoesBack` follows from the same
invariant. All of this is proved with reads that fail in any combination. The type
invariant is split into data and Boolean flags, because the SMT solver and
Zenon each handle one of them.

**Host failures.** A pause is judged by its count, so `HostPausedEnough` needs that
every count is backed by as many failures in a row (`CountsBacked`, together with
`PausedEnough` in `Earned`); then lowering a threshold or importing a host list cannot
make a pause come early. A failing probe writes a row only if the cached host list
still has the pair: `GuardCurrent` says when that list is the current one, and
`HostOrphansAreStray` follows. `HostPauseStands` is an action property: `PausesNoted`
says that every probe that could not see a pause is in the history variable
`unseen`.

**Settings store.** `StoreActs` lists what any step of listener and store
together may do to the store; `StoreSteps` shows that it is complete, and the store's
invariants are proved against it. `Counting` follows a count from the write to the
version row: while a row is written without one, a count is pending or was lost; and
`Deferring` says who holds the contexts open, so none is forgotten. `Current` says what
the cache is at each stage of a write, and that a refill selected what is still
committed unless a commit marked it late.

**Listener.** `Buttons`: an action that is registered, or was just taken out of the
store, has not run. `LostOnlyIfCut` is not inductive, because Telegram forgets what the
next poll's offset says: `Passed` states for the offset in memory, for the saved one,
for the ids seen and for the answer in hand (`NoneSkipped`) that what is behind them is
settled or in hand, and `SavedOffset` ties the row in the table to the loop's place.
`HandledAtMostOnce` rests on two independent arguments, one for each guard of the code:
as long as nothing is repeated ids grow (`IdsGrow`), and as long as the process lives
what was handled has been seen (`SeenIsDone`); so a second run takes both a repeat and a
restart.

**Only model-checked.** Liveness under fairness is out of TLAPS's reach: `EveryOpEnds`,
`NeverSkippedForever`, `EveryInvalidationAskedFor`, `DeadSubscribersLeave`, `CacheCatchesUp`,
`FailingPairIsPaused`, `HealthyPairIsClear`, and of `ImplementsOps` the part that says
the bodies keep the registry's fairness. The violations of the findings are TLC's
counterexamples. No definition of the proved
modules is recursive.

## Limits

Inside the modelled components: operation logs and messages, cancel, host reboot
and interface bounce; byte progress of downloads, digests and registry logins;
calendar schedules and time zones; event types other than
the two of the cache, tab self-filtering, throttled background timers; the
content of items and the reads per node and image that only fill it, the stats cache, host snapshots, an installation without
Portainer; samples, DNS cool-downs and the time-window mode of host pauses, which no
caller of the modelled legs uses; typed readers of settings and the bulk write of an
import; what a Telegram command does, authorisation, linking, the destructive
cool-down, batches of more than 100 updates. Garbage collection of background tasks
past the cap of `spawn_background_task` (`main.py:1519`). Threads: the modelled
code runs on the event loop; `asyncio.to_thread` is modelled where it matters, in the settings
store's refill, and otherwise does writes none of these states depend on.
