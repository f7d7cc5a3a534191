# A verification project for the django-paas-deployer control plane

This directory holds TLA+ modules that model the deployment control plane of the
repository and the site around it, TLC configurations that check them on small
instances, and proofs, checked by TLAPS, that hold for every instance. Paths below are
relative to the repository's root.

Contents: [the system](#1-the-system) · [the plan](#2-the-plan) ·
[the model](#3-the-model) · [the runs](#4-the-runs) · [the proofs](#5-the-proofs) ·
[what the code does against its own words](#6-where-code-and-words-differ) ·
[what is left out](#7-what-is-not-modelled-and-why).

## 1. The system

The program is a platform as a service: users create *services*, upload *deploys* (a
zip file and a configuration), and start, stop, rebuild and cancel them; the platform
builds an image and runs it as a Docker container. Around it there is a site with
accounts, a messenger and support tickets.

| Component | State | Operations | Modelled in |
|---|---|---|---|
| Status tables (`deployments/common/state_machine.py`) | none | legal transitions of `Service.status` and `Deploy.status` | `StateMachine` |
| Rows and `StateManager` (`services/models.py`, `deploy/models.py`, `deployments/core/state/manager.py`) | Postgres rows | checked transitions under row locks; whole-row edits; creation and deletion | `Platform`, `Workers`; `Edits`; `Resources` |
| Deploy task (`celery/services/deploy_service.py`, `deploy/deployment_state.py`, `celery/service_status.py`) | the task's locals | claim, start, build, replace, health check, roll back, finish | `Workers` |
| Orchestrator, rollback, health checker (`deployments/core/orchestrator.py`, `rollback.py`, `health.py`) | containers by name, images by tag, a snapshot | the pipeline from zip to healthy container | `Orchestrator`; merged stages in `Workers` |
| Stop task (`celery/services/stop_service.py`) | the task's locals | claim, stop, remove, finish | `Workers` |
| Advisory lock (`deployments/core/state/locks.py`) | Postgres session locks | try, hold, release | `Workers`, `DbDeploy` |
| Monitor (`deployments/celery/schedules.py`, `monitoring/`) | the scan in progress | reconcile deploys, re-enqueue, reconcile services | `Monitor` |
| API (`deploy/apis.py`, `services/api/`, `plans/apis.py`) | handlers, some without a lock | start, rebuild, select, stop, apply plan, cancel, force cancel; edit; create, delete | `Api`; `Edits`; `Resources` |
| Staff API (`services/api/admin_services.py`) | none | purge, delete, release and destroy | `Edits`, `Resources`, `Volumes` |
| Database deployments (`tasks.py: run_db_deploy`, `core/db_deployer.py`) | rows, container, data directory | claim, validate, replace, initialise, retry | `DbDeploy` |
| Live page (`core/sink.py`, `deploy/deployment_state.py`, `deployments/consumers.py`) | rows, channel group | record, publish, snapshot | `Live` |
| Deployment logs (`core/sink.py`, `deploy/apis.py`) | a second database | store, page by cursor | `Logs` |
| Volumes, quota | `Volume` rows, mounts | create, attach, detach, resize, delete | `Volumes` |
| Docker resources of rows (`services/signals.py`, `deploy/signals.py`, `volume_files.py`) | containers, images, volumes, networks | signals of deletion, helper containers | `Resources` |
| Calls (`messenger/api/calls.py`) | call sessions | ring, join, end, time out | `Calls` |
| Message cache (`messenger/message_cache.py`) | Redis window | insert, update, remove, trim, rebuild, page | `MessageCache` |
| Presence (`messenger/consumers.py`) | two cache keys | connect, ping, disconnect | `Presence` |
| Groups and invites (`messenger/api/members.py`, `groups.py`, `invites.py`) | members, roles, link | leave, transfer, approve, join | `Groups` |
| View-once media (`messenger/api/media.py`) | rows, tokens, files | open, download, purge, forward, delete | `Media` |
| One-time codes (`auth_users/`, `core/tasks/email.py`) | `AuthCode` rows, mails | ask, mail, guess, spend | `AuthCodes` |
| Signup by invite (`auth_users/`) | links, usages | resolve, sign up, count | `Invites` |
| Tickets (`tickets/`) | tickets, messages, files | open, answer, read, close, delete | `Tickets` |
| Cached lists and settings (`core/app_cache.py`, `services/cache_signals.py`) | cache keys | fill, delete | `Lists` |
| Rate limits (`core/throttling.py`) | counters | count, refuse, expire | `Throttle` |
| Users, plans, mail, CMS, Dockerfile generation | rows, text | CRUD, templates | not modelled |

**How they interact.** The API changes rows in a transaction and publishes a Celery
task after the commit. Celery runs over Redis and acknowledges a task on receipt, so
a message is delivered at most once, and prefetching workers may execute messages in
another order than they were published. A worker takes the task, takes the service's
advisory lock, claims the row and drives Docker, writing stages and progress into the
deploy as it goes. Every twenty seconds beat sends `monitor_services`, which compares
rows with Docker and repairs what it finds. The rows are the only shared memory:
nobody calls anybody, and each reads what the others left. The components of the site
share the database, Redis and the worker pool, but no row that decides anything, with
the exception of the service's own rows, which `Resources`, `Volumes` and `Edits` look
at from their side.

**What is hard.** Workers, monitor and requests interleave at every transaction and
every Docker call; the monitor inspects a container *before* it locks the row; workers
die with their message; messages are lost; cancellations are flags that are read at
some later stage; a forced cancellation kills a worker in the middle of anything;
timeouts race with late results. In the site, most requests read rows, check them and
save them later in no transaction, and caches are filled and deleted around commits.
`PROJECT.json` lists the hazards line by line, with the properties that cover them.

**What makes it correct.**

* One operation at a time: an accepted deployment or stop is not turned into another
  one, and it ends (`OneOperation`, `OperationsEnd`).
* Deployments of one service exclude each other (`OneDeployAtATime`, `DbAlone`), and so
  should a stop and a deployment (`StopExcludesDeploy`, which fails).
* A worker changes a service along the transition table and never overrides an
  operator's stop (`WorkersFollowTable`, `WorkersKeepStopped`, `DbStoppedStays`); the
  monitor never overrides an ended deploy (`MonitorKeepsEnded`).
* Whatever crashes or gets lost, the monitor can tell that an operation is overdue
  (`QueuedHasClock`, `RunningHasClock`), ends it (`DeploymentEnds`, `ExecutionEnds`),
  and notices dead containers (`DeathNoticed`).
* The task id on the row can be revoked safely: it belongs to an operation in progress
  (`TaskMeansBusy`).
* A container that serves is given up only for a healthy one, and a deployment says
  what it left behind (`OldUntilHealthy`, `SuccessServes`, `FailureAccounted`).
* What belongs to one service stays with it and goes with it (`VolumeExclusive`,
  `QuotaKept`, `NothingLeft`).
* What users are shown is what the rows say (`OutcomeShown`, `LogComplete`, `ListCurrent`,
  `PagesAgree`, `PresenceTrue`, `SeenTold`).
* Limits hold, exactly or up to what concurrency adds, and the properties say how much
  that is (`GuessLimit`, `CodeSpentOnce`, `Invited`, `TicketLimits`, `RateKept`).
* Roles, calls, codes and files end where they should (`OwnerKept`, `CallEndsOnce`,
  `CallVerdictKept`, `CodeMailed`, `ViewedOnce`, `FilesAgree`).

## 2. The plan

| # | Modules | Composes | State |
|---|---|---|---|
| 1 | `StateMachine`, `Platform`, `Workers`, `Monitor`, `Api`, `Lifecycle`, `Operation`; `MCLifecycle`; proofs in `LifecycleProofs` | workers, monitor and requests on one service; implements `Operation` | done, proved |
| 2 | `Edits`; `MCEdits`; proofs in `LifecycleProofs` | with all of 1 | done, proved |
| 3 | `Orchestrator`, `DbDeploy`, `Volumes`, `Resources`, `Live`; `MCHosting`; proofs in `DeploymentProofs`, `StorageProofs`, `HostingProofs` | each with the requests, workers and monitor it meets | done, proved |
| 4 | `Calls`, `MessageCache`, `Presence`, `Groups`, `Media`, `AuthCodes`, `Invites`, `Tickets`, `Lists`, `Throttle`, `Logs`; `MCSite`; proofs in `MessengerProofs`, `AccountsProofs`, `SupportProofs`, `SiteProofs` | each with its requests, tasks and sockets | done, proved |
| 5 | abstract specifications of single components, as `Operation` is one of the lifecycle: a lock for `DbDeploy`, a register for `Lists` and `MessageCache`, with refinement theorems | one component each | open |
| 6 | the retry helper's backoff, and the health checker's verdict against a reference definition | pure | open |

The modules were written to be proved about: parameters are constants with named
assumptions, each operation is an action, and no module declares a RECURSIVE operator.

## 3. The model

Each module's definitions are named after the code's; `PROJECT.json` maps each to its
lines. Definitions whose comment begins with "Mutant" are not part of the model: each is
what a plausible mistake would make of the definition after it, and `PROJECT.json` names
the property that notices.

### The lifecycle of one service

`Lifecycle` is the composition of the following modules: one `Service`, the set `Deploy`
of its deploys, the container that bears the service's name, the broker, the set `Worker`
of worker processes, one monitor, and the two request handlers that hold no lock.

#### `StateMachine`

The statuses and the two tables of `state_machine.py`. The table's wildcard source
(`None`) becomes a product. `ServiceMay` and `DeployMay` are `_check` with its
idempotence. The tables bind only the code that goes through `StateManager`: handlers,
tracker and monitor write rows directly, and the model keeps that difference.

#### `Platform`

| Variable | Code |
|---|---|
| `svc` | the Service row: `status`, `selected` (`selected_deploy`), `started` (`deploy_started`), `task` (`task_id`), `deployed` (`deployed_at` is set), `reselected` (`selected_deploy_at > deployed_at`) |
| `dep[d]` | a Deploy row: `status`, `started` (`started_at`), `cancel` (`cancel_requested`), `past` (running, stage and progress past the build: what the monitor calls not `still_building`) |
| `container` | the container named `get_docker_service_name()`: absent, exited or running, and the deploy whose image it runs |
| `queue`, `lastTask`, `revoked` | the broker's messages, the uuid supply, and revoked task ids |

A timestamp is a *clock*: null, fresh or old, old meaning older than the timeout the
monitor compares it with. Clocks age one by one and at any time, so every timeout is
allowed to fire at every moment after its clock has started; this includes all real
timings. `past` is only read while a deploy runs, and is false otherwise, to keep the
state space small. `Deployed`, `Cleared`, `TransitionService` and `SetStatus` are the
row updates that `StateManager` and `monitoring/actions.py` share.

#### `Workers`

A worker is a prefork child with a program counter and the task's local variables:
what the claim read (`cancel`, and the timestamps `is_restart_only` will compare), the
snapshot's image (`prev`) and the renamed old container (`old`). An action is one
transaction or one Docker operation.

* `Receive` is `execute()` with the lock: a revoked message is discarded and one that
  finds its key locked is dropped. The lock is held exactly as long as the worker is
  not idle. `Key` is the code's key: the deploy task passes a `UUID`, which `int()`
  accepts, the stop task a `str`, which is hashed with the seed of the worker's
  interpreter (`NodeOf`), so the tasks do not exclude each other.
* `Claim` is `lock_and_get_deployment`; `Begin` the cancelled-before-execution branch or
  `start()`; `Restart` and `Orchestrate` the two sides of `is_restart_only`.
* `Build` … `Complete` are the orchestrator. Before each stage the tracker's event sink
  raises the cancellation, so each stage has the guard `~Cancelling(w)`, and
  `CancelBuild`, `CancelStarted` and `Escape` are what happens instead. In `Escape` and
  in `CancelStarted` with a snapshot the handler's own event raises again and the
  exception leaves the orchestrator, which the code turns into a *failed* service.
* `FinishFailed`, `FinishCancelled`, `FinishRaised` are `finish()`, which writes its
  verdict without looking; `SyncRunning`, `SyncDeploy`, `SyncFailed`, `SyncStopped` are
  `sync_legacy_*`, which look.
* `ClaimStop` … `FinishStop` are `StopService`. Its tracker follows the selected deploy,
  so the verdict of a stop is written on that deploy.
* `Crash` is external: the process, its connection, hence its lock, and its message go.

Events that nothing but a cancellation can separate are merged with the Docker
operation they precede, and the last event of a deployment is merged with `finish()`.

#### `Monitor`

A tick is `Tick`, then for each active deploy `InspectDeploy` and one of
`ReconcileDeploy`, then `RetryScan` with `Retry` or `RetryFails` for each pending deploy,
then `InspectService` and one of `ReconcileService`. Between an inspection and the
transaction that uses it anything may happen; the transaction looks at the row again
(`Reconciling`, `Settling`), as the code does with `select_for_update`. One tick ends
before the next begins. `KeepDeploy` covers the promotion of a pending deploy whose
container runs: its log relates rows of two databases, `deploy/db_router.py` refuses,
and the exception rolls the promotion back.

#### `Api`

Start, redeploy and rollback by selection are `StartDeploy`; `Rebuild`, `SelectDeploy`,
`UnselectDeploy`, `RequestStop` and `ApplyPlan` are handlers under the row lock of the
service, one action each, which ends with the publication of the task: a failed or lost
publication is the fault `lost`. `cancel` reads and saves with nothing locked
(`CancelRead`, `CancelWrite`), and `force_cancel` is five steps (`ForceRead` …
`ForceStopped`), between which everybody else acts.

#### `Operation`

The abstract specification: `op` is none, a deployment or a stop; it is accepted only
when there is none and it ends. `Lifecycle` maps `op` to the service's status.

#### Constants of an instance

`Ops` names the requests users make and `Faults` what goes wrong: `lost` messages,
`crash` of workers, `docker` operations that raise, containers that `die`. `MaxTasks`
bounds the task ids, that is, the operations and retries of a behaviour. `MCLifecycle`
defines the sets the configurations use.

#### `Edits`

The requests that know nothing of the lifecycle, over the whole of `Lifecycle`: `PATCH` of
a service or of a deploy reads the row and saves every column of it later
(`ReadsService`, `SavesService`, `ReadsDeploy`, `SavesDeploy`), and the staff's purge reads
the status, removes the runtime and saves `stopped` (`ReadsStatus`, `RemovesRuntime`,
`SavesStopped`). One such request happens in a behaviour, at any time; `draft` is what it
has read. What it undoes may be a claim, a verdict, a timestamp or a task id. Some of the
lifecycle's invariants are lost with it (`TaskMeansBusy`, `OneOperation`), others are proved to survive
([section 5](#5-the-proofs)), and what is checked is that the monitor still recovers.

### The services' other components (`MCHosting`)

#### `Orchestrator`

The pipeline that `Workers` merges. `box` has every container by its name (the service's
and the renamed one's), with its image, state and health; `images` and `tagged` are Docker's
images and what the tags refer to; `job` is the orchestrator with the locals its handlers use
(`snap`, `renamed`, `started`, `rolled`). The stages are `Prepare` … `Succeed`; Docker may raise
in each of them, and the handlers of a failure (`Fail`, `FailOld`, `Rollback`, `Recreate`,
`Restart`, `Discard`, `Failed`) and of a cancellation (`Cancel`, `CancelNew`, `CancelOld`,
`CancelDone`) are actions too, since each may raise in turn. `Escape` is a log call inside a
handler that raises the cancellation once more. Health is polled: `MinPolls` consecutive polls
for an image without a HEALTHCHECK, Docker's verdict for one with it. Around it processes end,
workers are killed, other deployments prune images, and the stop task comes.

#### `DbDeploy`

`run_db_deploy` and `DBDeployer`. `db` has both rows, `dbBox` the container, `dbData` what the data
directory is (empty, initialised by the engine, reconciled), `dbQueue` the messages: a retry
is a message with one more try, and `DbTask` may take a message without removing it, which is
the duplicate delivery. The task claims the queued service, runs its checks, builds and
validates the configuration, takes the advisory lock or retries, and then goes through
`DbStage`: prepare, environment, networks, volumes, remove, wipe, host, create, start, ready, root,
user, verify. Requests queue, cancel,
cancel by force and stop, and the monitor times out, between any two of them. A verdict leaves a
stopped service alone and looks at nothing else. Engines differ in
what ready means: MySQL wants the log of an initialisation by this container and then has its root
password, user and databases set and verified (`DbReady` and what follows), the others are ready when
the container runs (`DbRunning`). A behaviour may go either way, with both outcomes of every command.

#### `Volumes`

Two services of one user (`owner`: status, container and its mounts, the worker's collected
volumes) and the rows of the volumes. A request checks first (`CreateVolume`, `ResizeVolume`,
`AttachVolume`, `DetachVolume`, `DestroyVolume`, `StaffVolume`, `PurgeOrDelete`), against the quota
(`Used`, `UsedWithout`), the state of the service (`Mutable`) and what is mounted
(`MountedAnywhere`), and writes what it read later (`WriteVolume`). `disturbed` says that
requests have overlapped, that the staff have taken a volume from a service in use, where the
code has no check, or that two requests have been allotted room in one service at once; no new
request follows then. `requests` are those in flight, and starts, workers and stops come
between their two halves as well; after a disturbance only what changes rows is followed.

#### `Resources`

One service with its network, deploys and volume, as rows, and Docker's side of them
(`store`: container, images, volume, network, and a helper container that reads the
volume). Rows are created, selected and edited by requests; `remover` is a request that
deletes a service, a deploy or a network, with its steps: the signal of the service, those of
its deploys, those of its volumes, then the commit, which a row created meanwhile makes
fail (`Conflict`). `runner` is a worker that claims, builds, creates network and container, and
dies. `excuse` collects why something may be left: `NothingLeft` names what is known to leak and
says that nothing else does. After the excuses `worker` and `docker` nothing more is
explored (`Followed`): the property would not speak of what follows.

#### `Live`

The row of one deployment, the task that works on it with the two ways to publish
(the tracker of applications, the sink of databases), the monitor's verdict, which publishes
before its transaction commits, and a browser: it joins the group, reads the row once, then
gets the group's messages in order, or loses them when its queue is full or the layer fails.
`unheard` says that an event was lost or an outcome not published at all.

#### `Logs`

The entries of a deployment, each stamped by its writer and stored later or not at all, in a
database that the row's transaction does not cover. A page opens at the newest entries, scrolls
back by the stamp of its oldest, and polls forward by the stamp of its newest (`ScrollBack`,
`PollForward`, with `PageLimit`). The ghost `late` of a page are the entries that were stored with
a stamp that the page had already passed.

### The site (`MCSite`)

* `Calls`: the sessions of a conversation and the ring-timeout task of each. `StartCall` ends a
  live call and starts one under the lock; `EndCall`, `JoinCall`, `RingTimeout` and `AskActive` lock
  the session; the task reads (`RingerReads`) and writes later (`RingerEnds`). `crossed` says that
  it wrote over a call that had ended in between.
* `MessageCache`: the rows by id, the Redis keys (`ids`, payloads, bounds), and the jobs that bring
  the keys up to date after a commit: add, trim, read and write of the bounds, update, remove,
  clear, seed and rebuild are steps of their own, a job may be lost, payloads and the whole window expire.
  Pages before, after and around an id are computed as `get_message_window` does. `calm` holds
  until jobs overlap, one is lost, or a message is scheduled.
* `Presence`: a user's sockets, each with its next cache command; the counter and the flag, which
  expire; what was last broadcast.
* `Groups`: members, whose rows stay when they leave; the requests that are half way, with what
  they read (`clerk`); succession in three saves; policies, join requests, the invite link.
* `Media`: one view-once picture, the recipients with their windows and cached tokens, the
  requests that open it, the purge with its two reads, the deletion of the message or of a
  forwarded copy, which shares the file.
* `AuthCodes`: the codes of one user per purpose; `visit` are the requests half way through an
  endpoint (OTP, final, set password, recovery, reset), with what they read; the mail task;
  `past` counts wrong guesses and uses per code.
* `Invites`: signup while it is closed: resolve the link, create the account, check and record the
  use, count it, each a step at which the link may expire, be deactivated or used up.
* `Tickets`: a user's tickets with messages and files; the limits are read before the rows are
  written; reading marks, then tells; the staff change any status.
* `Lists`: any of the cached lists, or the settings, as the version of the rows it was filled
  from. A writer deletes the keys in the signal, before or after its commit, in the view once
  more, or, for bulk updates, not at all.
* `Throttle`: the counter of one scope, which a request reads and then sets or increments, and
  which expires.

### Composition

The components of `MCHosting`, and those of `MCSite`, share no variable. Their product would
multiply their states and show nothing about them, so a variable `part`, chosen initially, says
which one works, and the others keep their initial state: one run checks each of them.
Where components do share state, they are composed step by step: `Lifecycle` (workers,
monitor and requests), `Edits` over all of `Lifecycle`, and within each module above the requests, tasks,
sockets and timeouts that meet on its rows.

Properties that hold only as long as requests do not overlap have a ghost (`calm`, `steady`,
`disturbed`, `crowded`, `crossed`, `alone`, `slip`) which says so. The ghost is a statement about the code: these
handlers take no lock, and the bound they break without it is described in
[section 6](#6-where-code-and-words-differ). Where the damage of an overlap has a bound, the
property states the bound instead (`TicketLimits`, `RateKept`), and where only some overlaps
do damage, it names them (`QuotaKept`: two allocations to one service).

## 4. The runs

| Run | Instance | Checks | Distinct states |
|---|---|---|---|
| `start_stop` | 1 deploy, 2 workers on 2 nodes, start and stop, crash and docker, 2 tasks | `TypeOK`, `OneDeployAtATime`, `QueuedHasClock`, `WorkersFollowTable`, `OneOperation` | 224 000 |
| `deploys` | 2 deploys, 1 worker, start, select, plan, lost and crash, 2 tasks | `RunningHasClock`, `MonitorKeepsEnded` | 463 000 |
| `cancel` | 1 deploy, 1 worker, start, rebuild, cancel, force, docker, 1 task | `TaskMeansBusy`, `WorkersKeepStopped` | 820 000 |
| `monitor` | 1 deploy, 1 worker, start, every fault, one edit or purge; 2 tasks, 1 with an edit; `MonitoredEditSpec` | `DeploymentEnds`, `ExecutionEnds`, `DeathNoticed` | 152 000 |
| `operations` | 1 deploy, 1 worker, start and stop, lost, docker, die, 2 tasks; `FairSpec` | `OperationsEnd` | 76 000 |
| `hosting` | `MCHosting`: 5 components | `HostingTypeOK` and 9 properties | 1 598 000 |
| `site` | `MCSite`: 11 components | `SiteTypeOK` and 16 properties | 683 000 |
| `stop_during_deploy`, `retry_unrequested`, `stale_start`, `plan_starved`, `stop_stuck` | see section 6 | one property each, violated | |

The runs of the lifecycle check for deadlock. `hosting` and `site` do not: in those components
every request may have been refused, and the bounds reached, and then the system rests.

**Bounds of the lifecycle.** Two tasks are enough for an operation to meet its successor or its
own retry, which is what the properties are about: a stale step belongs to one operation
and does harm to the next. Two workers are enough for two executions to meet, and two
deploys for the selected one and another. `cancel` has one task, and therefore one
deployment with everything that can cancel it at any step. In `monitor`, a behaviour with an edit has
one task (`EditedTasks`), and one without it two: the edit, the operation and the monitor's
verdict meet in one operation, and the recovery has no task of its own. Symmetry over
deploys and workers is used in the safety runs only.

**Bounds of `hosting`.**

* `Orchestrator`: two deployments of two tags, one of whose images declares a HEALTHCHECK, so
  that each may find the other's container, image and name, or its own; two polls make a healthy
  container.
* `DbDeploy`: two queueings, two workers, one retry: a message, its duplicate and its retry each
  meet a later queueing.
* `Volumes`: two services, two volumes, one without a path of its own, sizes 1 and 2 and a quota
  of 2: two small volumes fit, a large one fits alone, and growing a volume may not.
  Two requests at once, not the same, so that the quota is checked twice before it is written once, and any
  request meets any other.
* `Resources`: two deploys of one service, two starts. A helper container comes only while a deletion
  is about to remove the volume (`ReadVolume`); one that was there before is the same to it.
* `Live`: one event of progress, one browser (browsers do not know of each other), one
  verdict of the monitor.
* Symmetry (`Alike`): the deploys of a service, the workers of database deployments and the services
  that share volumes are called `a` and `b`, which the symmetry exchanges.

**Bounds of `site`.** `MessageCache`: three messages in a window of two, so one always falls
out, one edit each, two jobs. `Calls`, `Groups`, `Media`, `Invites`, `Tickets`: two or three of each actor,
limits of one or two, so that the limit is reached and passed by one. `AuthCodes`: two codes, one
wrong guess allowed, two rows, which needs two requests at once. `Presence`: three sockets.
`Lists`: two readers, two writers, three changes. `Throttle`: a limit of two, two callers.
`Logs`: five entries, pages of two, three ticks, so stamps coincide at a cut. What is
interchangeable is called `a` and `b` in every component, and the symmetry exchanges the two.

**Fairness.** `MonitoredEditSpec` assumes that beat keeps sending the monitor, that a tick
proceeds, and that time passes; beat is a scheduler of its own and the monitor catches
the exceptions of every row, so nothing in the application stops it. It is what the
recovery properties may rest on: workers need not run, and a request that edits may never
return. `FairSpec` adds that each worker takes messages and runs, and that a handler that has
begun returns. No request, fault or crash is ever assumed. `operations` leaves out `crash`, since
the end of a stop after a crash is just what `stop_stuck` refutes. The bound on tasks makes the
users' and the monitor's publications finite in number; a retry that cannot publish any more is
`RetryFails`, so the bound never blocks the monitor. The specifications of `hosting` and `site` are
safety specifications and assume nothing.

## 5. The proofs

Every safety property the passing runs check, invariant or action property, is a theorem: it
holds for all values of the constants. The instances of section 4 are small, the theorems are
about any number of deploys, workers, users, tickets, messages or requests, and any limits. What is
left to TLC alone is liveness.

| Module | Theorems about | Properties |
|---|---|---|
| `LifecycleProofs` | `Lifecycle`, `Edits` | `TypeOK`, `TaskMeansBusy`, `QueuedHasClock`, `RunningHasClock`, `OneOperation`, `OneDeployAtATime`, `WorkersFollowTable`, `WorkersKeepStopped`, `MonitorKeepsEnded` |
| `DeploymentProofs` | `Orchestrator`, `DbDeploy` | `OldUntilHealthy`, `SuccessServes`, `FailureAccounted`; `DbAlone`, `DbStoppedStays` |
| `StorageProofs` | `Resources`, `Volumes`, `Live` | `NothingLeft`; `QuotaKept`, `VolumeExclusive`; `OutcomeShown` |
| `HostingProofs` | `MCHosting` | `HostingTypeOK` |
| `MessengerProofs` | `Calls`, `Presence`, `Groups` | `CallEndsOnce`, `CallVerdictKept`; `PresenceTrue`; `OwnerKept` |
| `AccountsProofs` | `Lists`, `Throttle`, `Invites`, `AuthCodes` | `ListCurrent`; `RateKept`; `Invited`; `GuessLimit`, `CodeSpentOnce`, `CodeMailed` |
| `SupportProofs` | `Tickets`, `Media`, `Logs`, `MessageCache` | `TicketLimits`, `SeenTold`, `FilesAgree`; `ViewedOnce`; `LogComplete`; `PagesAgree` |
| `SiteProofs` | `MCSite` | `SiteTypeOK` |

**Assumptions** are those of the modules, named where the constants are declared: sets that are
counted are finite, limits are positive, "nobody" is not somebody, bounds are naturals. For the
lifecycle: `None` is neither a deploy nor a number, requests and faults are among those named, and
`NodeOf` is defined on the workers and never yields the deploy task's key. Three were
found by the proofs: `DbDeploy` needs one queueing at least for its initial state to be typed, and `Volumes`
a size and a volume, since the placeholder of a missing row has one.

### The lifecycle

`TypeCorrect` is proved by one lemma per action; all others rest on it.

*The row of the service.* What a step can do to the row is one of five *effects*:
an operation is accepted, a deployment or a stop is claimed, an operation ends, or the
status is kept (`Accepts`, `Claims`, `ClaimsStop`, `Ends`, `Keeps`). A lemma for each
module shows that its steps have one of the effects, and the theorems about the row look at
effects and not at fifty actions:

* `TaskHeldWhileBusy`: `TaskMeansBusy` is inductive over effects together with typing.
* `ClockOfQueued`: where no plan is applied (`"plan" \notin Ops`), `QueuedHasClock` is
  inductive over effects. The assumption is needed: see `plan_starved`.
* `ImplementsOperation`: each effect is a step of `Operation` or a stutter, so `Spec`
  implies `Operations!Safe`.

*Mutual exclusion.* `OneDeployAtATime` is not inductive: it speaks of workers that
execute, and a worker that has received its message but not claimed may become one.
`OneDeployTask` says that at most one worker *holds a deploy task*, claimed or not; it is
inductive because `Receive` is the only step that begins a task, it needs the key free,
and all deploy tasks have the same key. `LockExcludes` follows.

*Rows of the deploys.* `ClockOfRunning` is inductive: only `Claim` and `Begin` make a
deploy running, and both set its start; nobody clears it.

*Actions.* `TableFollowed`, `StoppedKept` and `EndedKept` are action properties and follow
from the guards of the single steps with typing; they are proved per action, since
any one of them could break them.

*Edits.* A step of `EditSpec` is a step of the lifecycle that leaves the draft alone, or a step of the
request that edits (`EditOrNot`), so the lemmas about the lifecycle's steps are used again. What
a row says *of itself* survives: an edit writes a row as it was, and a purge writes stopped. The row in
the draft therefore joins the invariant (`DraftTyped`, `DraftClocked`), and `EditsTyped`,
`LockExcludesEdited`, `ClocksEdited`, `TableFollowedEdited`, `StoppedKeptEdited` and `EndedKeptEdited`
follow. `ClocksEdited` is what the recovery in the run `monitor` rests on. `TaskMeansBusy` and
`OneOperation` do *not* survive, since they relate a row to what happened meanwhile: a purge that
read the status before a start writes stopped and leaves the task id, and an edit that read
a deploying service may turn a stop back into a deployment.

### The components of `hosting`

* `Orchestrator` (`OrchestratorSafe`). `OldUntilHealthy` says that *some* name bears the old image; the
  induction has to know which: the service's name until the rename, the deployment's own after it
  (`OldKept`). `SuccessServes` needs that what is started was built (`NewServes`), `FailureAccounted` that each
  stage of a rollback has something to restore (`OldRestored`), and all three that a deployment in progress has a
  name of its own (`Begun`).
* `DbDeploy` (`DbUnclaimed`, `DbHeld`). A service that waits has not been claimed since it was queued, which makes the
  claim of a duplicate or an old retry fail; and whoever is between the acquisition and the verdict is the one
  holder of the lock.
* `Resources` (`ResourcesClean`, as long as behaviours are followed). `NothingLeft` is about the end of
  a deletion; the invariant says of each of its steps what has already been removed and stays removed
  (`RemovalClean`), and that images are of deploys that are there (`ImagesClean`).
* `Volumes`. For the quota, a service's volumes together with what the one request that has been allotted room
  is about to write are within the plan (`Budgeted`). For the mounts, whatever is in the hands of a service, as a mount, a collected list or
  a row, is in nobody else's, and the one request under way still finds what it checked (`HoldsClean`).
* `Live` (`Announces`, `Hearing`). The page shows the last message it will ever get, shown or still
  queued (`LastWord`); the invariant says what that word is at each stage of tracker and monitor.

### The components of `site`

* `Calls`: end messages are counted by status, and a call the task has read still rings unless it
  was crossed. `Presence`: for each command a consumer may be about to issue, what flag and last
  broadcast say now (`ToldBy`), and that the counter counts. `Groups`: without overlap there is one owner but while
  a request gives the ownership away, and an heir is still a member (`CalmGroup`).
* `Lists`: what a reader holds between its read and its write is as current as the cache, or
  a deletion is still to come (`PagesHold`). `Throttle`: each caller that has found no counter may start the
  count again once, and the admissions are bounded by how many such callers are left; the bound of `RateKept`
  is the invariant with none left. `Invites`: the counter is the cardinality of the guests
  who are in. `AuthCodes`: attempts of a row cover the wrong guesses of its code, its code is unspent, and no id
  or code is issued twice (`CodesHold`, `CountsHold`), and what a lone request has read is still so
  (`VisitHolds`); a usable code has been mailed, or a mail or a request that will send one is under way (`MailsHold`).
* `Tickets`: open tickets, those about to be reopened by a status somebody has read, and requests that
  have counted, together stay below the limit plus the requests (`OpensHold`); likewise attachments and
  requests that store. Files without rows are only of deleted tickets, each stored by a request under way at
  the deletion.
* `Media`: one request opens the picture for each recipient, and the purge's list of members includes every member
  from its read until its end, so that once it goes for the file nobody's window can still open (`TabsHold`,
  `PurgeHolds`).
* `Logs`: what a page lacks between its oldest and its newest entry shares its stamp with another entry. That a page
  of limited size has a next stamp at all needs that the entries are finitely many.
* `MessageCache` (`CalmHolds`). The window is the end of the conversation, with its bounds, but for what the one job
  under way has still to do; of each kind of job, at each of its steps, the invariant says what that is
  (`AddHolds`, `UpdateHolds`, `DeleteHolds`, `RefillHolds`). It also needs that ids come in order (`Numbered`): only then
  is a new message the newest, and adding it keeps the window an end. From there `PagesAgree` is about
  `Newest` and `Oldest` of a set: a page cut from an end of the conversation is a page of the conversation.

The search for this invariant corrected the model: the window could expire, and count as calm again,
while one job was under way. TLC then found `PagesAgree` violated with a single job. The ghost now becomes calm
only when no work is left (`LoneWork`).

**The whole.** `HostingComponents` and `SiteComponents` prove that the specifications the runs check,
`HostingSpec` and `SiteSpec`, imply the specification of every component: each step of the whole is a step of
the component or leaves its variables alone. So each theorem about a component is one about the run, and
`HostingTypeOK` and `SiteTypeOK` follow from the components' invariants.

**Only model-checked.** `DeploymentEnds`, `ExecutionEnds`, `DeathNoticed` and the
liveness half of `Operation` (`OperationsEnd`) rest on fairness, which is out of this
prover's reach. The violated properties of section 6 are, of course, not proved.

## 6. Where code and words differ

Each has a run whose counterexample shows it; `PROJECT.json` quotes the lines.

* `stop_during_deploy`. `stop_service.py` says the lock keeps a stop from racing with a
  deployment. The two tasks lock different keys (`locks.py:_key` with a UUID and with a
  `str`).
* `retry_unrequested`. The monitor's retry is meant for deployments whose message got
  lost, but enqueues every pending deploy of a queued service, and a new Deploy is
  pending by default. A worker may execute one that nobody started.
* `stale_start`. Starting a deploy again leaves `started_at` in place, so the monitor
  may fail it, and its service, while it waits in the queue.
* `plan_starved`. Applying a plan queues the service without `deploy_started`, and its
  deploy is not pending: if the message is lost, no timeout and no retry applies.
* `stop_stuck`. A service whose stop has been failed by a deploy's timeout is taken back
  to stopping by the stop task, without a timestamp; if the worker dies now, the monitor
  waits for ever.

What follows was met while modelling. The models do what the code does here, and the
properties exempt it by name or by a ghost.

**Lifecycle.** The tracker's `finish()` may turn a deploy the monitor has failed into a succeeded
one; the monitor confirms a freshly queued service by the old container, whereupon the
worker drops the task; `start()` clears a cancellation that arrived after the claim;
a first deployment that is cancelled leaves its service deploying until the monitor's
timeout, since `sync_legacy_stopped` refuses anything but stopping; the monitor's log puts
100 per cent on a deploy that is still building, and may then fail it when the old
container dies; selecting a deploy leaves `selected_deploy_at` alone, so that a restart
may bring back the old image; a stop that times out ends as stopped, not as failed. An edit
that was read during a deployment and saved after it leaves a running deploy that no worker has,
until the monitor times it out.

**Orchestrator.** A cancellation before the new container has started leaves the renamed old one
under its other name (`orchestrator.py:383`, whose comment says that it was never renamed). A
cancellation during the health check removes both containers, and the rollback's first event
raises again, although the comment at 381 says "we still try to roll back to the previous image".

**Database deployments.** When the advisory lock is taken, the task publishes itself again, but
the service is deploying by then and the retry refuses to claim it, so only the monitor ends it. A
redelivered message of an older rebuild with `force_reinit` may claim a later start that asked for
none, and wipe the data. The verdict of a task that was cancelled by force may show a running
service whose container is gone. MySQL on an initialised volume never logs what the readiness check
waits for; Postgres and MongoDB report success after an edited password while the old one stays. An exception
while the configuration is built ends the task without a verdict, and `Plan` lacks the method
`can_allocate_storage` that `tasks.py` asks it for.

**Live page and logs.** The monitor publishes before its transaction commits, and what rolls back has
been shown; failures of some checks are marked without an event; a pending deploy's
cancellation is not published. Two log entries with one stamp at the cut of a page are not both shown, nor
is one stored later than a page's newest; the monitor's events are stored twice, by itself and by the sink it
calls.

**Rows and Docker.** Images are tagged `name:<version>`, while purge and the signal of the service remove only
`name:latest`, so the image of a deploy that is not selected stays; a volume whose helper container outlived its
request can never be removed; deleting a user hard removes the networks first, while containers are
attached; the staff's deletion of a network does not ask for its services; a deletion that meets a deploy created
meanwhile rolls the rows back after Docker has been cleaned; a start published during a deletion
may leave a container without a row.

**Volumes.** A volume that is detached keeps its default path, and with it deployments mount it all the
same; the staff release or destroy volumes in use without a check; the quota is checked before the row is
written, without a lock.

**Messenger.** A task that read a call as ringing may write "no answer" over a call that was answered or ended
since. A reload of the page, whose old socket closes after the new one has opened, may leave a user offline, as does a counter that
expires. A sender's read of a cold window may put a scheduled message into everybody's window. A
former owner who joins again is owner again; approving a request that was cancelled adds the
member; `uses` of a link is saved as it was read. A forwarded picture shares the file and drops its
view-once flag; an opening in a second tab overwrites the first tab's token and then fails.

**Accounts and tickets.** The mail task takes any code of the user, and fails when there are two; a code that
is validated at one endpoint is consumed there, while the next one asks for it again; attempts and rows are saved as they were
read. A ticket may exist although its creation answered with an error; a late answer reopens a closed ticket;
reading by one colleague marks a message seen for all.

**Caches and limits.** `QuerySet.update` sends no signal, so "on ANY ORM change" does not hold for tasks; signals delete keys
before the commit, and a list that is read in between is cached again as it was; changes of members, pins and
reads do not delete conversation lists. Requests that find no counter set it one after the other and
start the count again.

## 7. What is not modelled, and why

* In the lifecycle: re-uploads of a deploy's file, Docker's restart policy, overlapping
  monitor ticks, several services (nothing is shared between two services but the broker
  and the workers), `rollback_status` and other columns nothing decides by. A service's `PATCH` may also
  write `status`, `task_id`, `deploy_started` and `selected_deploy`, which its serializer leaves
  writable; a model in which a user writes any status at any time
  would have no property left.
* Failures of Postgres itself: a transaction commits or has no effect, and a task whose
  database fails is a crashed worker.
* Platform detection and Dockerfile generation (`deployments/core/dockerfile.py`,
  `platform_bridge.py`, `platforms/`): files in, text out, without shared state.
* The retry helper's delays (`deployments/common/retry.py`), the parsing of Docker's answers, the
  streams of logs, statistics and shells to a container.
* Departments, categories, folders, pins, contacts, profiles, plans, CMS pages, mail templates, settings pages and the admin:
  CRUD of single rows without a protocol that a model would add to.
