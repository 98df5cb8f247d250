# Anthias, specified

TLA+ modules, TLC configurations and TLAPS proofs for
[Anthias](../src/README.md), a digital signage player.  A player shows a
rotation of web pages, images and videos on one screen; operators edit the
rotation through a dashboard and a REST API.  What is hard about it is not any
one function but the number of processes that share a database, a Redis, a
directory of files and a screen, and that each may be restarted at any moment.

Paths are relative to the repository, `src/`; `anthias_server`,
`anthias_viewer` and `anthias_webview` are directories of `src/src/`.

## 1. The system

### Processes and what they share

| process | what runs in it | restarted by |
|---|---|---|
| server | Django under uvicorn, one worker; synchronous views on a thread pool, so two requests interleave; WebSocket consumers on the event loop | its container |
| celery | one worker with the beat inside (`worker -B`), prefork pool; messages are acknowledged when they are taken | its container; a pool child by its hard time limit |
| viewer | the playback loop on the main thread, `ViewerSubscriber` and reporters on threads of their own | its container |
| AnthiasViewer | the web view, a C++/Qt process driven over D-Bus | the viewer |
| host agent, wifi-connect | what a container cannot do: addresses, reboot, hotspot | the host |

They share one SQLite database (WAL, `IMMEDIATE` transactions; no handler opens
a transaction around a request), Redis (pub/sub that keeps nothing for absent
subscribers, keys with expiry, the Celery queue, the channel layer), the asset
directory, and the settings file.

### Components

| component | state it keeps | operations | what makes it correct | module |
|---|---|---|---|---|
| Soft-time-limit guard (`anthias_server/lib/soft_timeout_guard.py`) | three globals of a pool child | task_prerun, task_finished, SIGUSR1 | a signal interrupts only the job it was sent for | `SoftTimeoutGuard` |
| URL revalidation (`anthias_server/celery_tasks.py`) | Redis lock, debounce and cooldown keys, a verdict per row | periodic sweep, recheck of one asset | no two sweeps at once; a verdict does not stay wrong | `UrlSweep` |
| Viewer scheduler (`anthias_viewer/scheduling.py`) | list, position, deadline, play-once bookkeeping | get_next_asset, refresh, jump, reverse | no edit is missed, every slot gets its turn, play-once slots play once | `Scheduler` |
| Play windows and evaluation (`anthias_server/app/models.py`, `playlist_eval.py`) | none | window filter, expansion, deadline | the list and the deadline agree with what the rows say | `PlaylistEval` |
| Viewer command bus (`anthias_viewer/messaging.py`, `send_to_viewer`) | subscription, back-off | subscribe, consume, retry | an outage of Redis does not end the subscription | `ViewerBus` |
| Playback loop (`anthias_viewer/__init__.py`) | stop and blank flags, skip event, what is on the screen | start_loop, asset_loop, command handlers | blanked is dark; a removed asset leaves the screen | `ViewerLoop` |
| Web view driver (same file, `anthias_webview/src/view.cpp`) | process, cached URL and headers | call, retry, bounce | a skipped load is on the screen; a blank screen is filled | `Webview` |
| Spawning AnthiasViewer (same file) | handle, bus name, pids | attempts, handshake, reclaim of the name | only its own process is signalled and used | `WebviewSpawn` |
| Web engine (`anthias_webview/src/`) | generation, page, image and video surface | loads, fetches, frames, watchdog | what was asked for comes up; frames are of the clip asked for | `ViewLoads`, `VideoSurface` |
| Video players (`anthias_viewer/media_player.py`, `gst_fbdev_player.py`) | instance, process handle | play, stop, reset | as above | `FbdevPlayer`, `Player` |
| Wayland watchdog and Wi-Fi setup (`anthias_viewer/__init__.py`, `anthias_server/lib/wifi_connect.py`) | restart counter, portal state, splash | tick, poll, setup page | restarts are capped; the screen follows the portal | `WaylandWatchdog`, `WifiSetup` |
| Playlist tree (`anthias_server/api/views/v2.py`, `app/models.py`) | playlists and their items | create, nest, remove, delete | a tree under Default | `PlaylistTree` |
| Play order (`app/helpers.py`, `api/helpers.py`, signals of `models.py`) | positions, play_order | reorder, insert, mirror | the order asked for is the order kept | `PlayOrder` |
| Scheduled display power (`anthias_server/celery_tasks.py`, `lib/display_power.py`, `lib/cec_client.py`) | a Redis key with expiry | the periodic task, CEC question | the screen follows the schedule | `DisplayPower` |
| HDMI-CEC (`anthias_server/lib/cec.py`) | adapters, addresses, worker threads | query, power on and off | an answer is never made up | `CecBus` |
| WebSocket authorization (`anthias_server/app/consumers.py`, `signals.py`) | a generation per server process, a stamp per socket | handshake, frame, revocation | no frame after a revocation | `WsAuth` |
| Account and settings (`settings.py`, `lib/auth.py`, migration 0005) | `anthias.conf`, dictionary, User rows | migration, load, save, change of account | a login is asked for only when there is an account | `OperatorAccount` |
| Asset pipeline (`anthias_server/processing.py`, `celery_tasks.py`, `app/views.py`) | row, files, messages | upload, download, normalise, retry, delete, reconcile, sweep | a ready row has its file; nothing processes forever | `AssetPipeline` |
| Chunked uploads (`app/views.py`, `static/src/home.ts`) | partial file, page | chunk, repeat, commit, sweep | the page tells the truth; one upload, one asset | `UploadChunks` |
| Backup and restore (`anthias_server/lib/backup_helper.py`) | pages, log, snapshot, archive | download, restore | a complete download holds every commit; no old log in a new database | `Backup` |
| Storage and undervoltage watchers (`anthias_common/`) | latches in Redis | sample, fold, render | warnings follow the device | `StorageHealth`, `Undervoltage` |
| Host agent (`anthias_host_agent/`) | cached addresses, ready flag | commands, polls | the addresses arrive | `HostAgent` |

Section 7 lists what is not modelled.  `PROJECT.json` says for each component
how much of it is.

They interact as follows.  The server writes rows and files, publishes commands
to the viewer (command bus) and sends tasks to Celery (pipeline, revalidation,
display power).  Celery writes rows and files and publishes commands.  The
viewer's subscriber thread turns commands into flags and events of the playback
loop; the loop asks the scheduler for the next asset, the scheduler reads the
database through the evaluation, and the loop drives the web view, whose process
draws with the web engine or a video player.  Dashboards hear of changes over
WebSockets.

### What is hard

* Interleaving: subscriber thread against main thread in the viewer; two
  requests in the server; the streaming thread against the GUI thread in the
  video surface; a signal between any two bytecodes of a receiver.
* Restarts: each process may die between two steps of an operation whose steps
  are visible to the others (a file renamed, a row not yet updated).
* Delivery: commands to the viewer and broadcasts are lost when nobody listens;
  a Celery message is lost with the worker that took it and duplicated by the
  reconciler; the answer to a request may be lost and the request repeated.
* Time: deadlines, expiring keys and locks, a back-off, time limits whose signal
  arrives late, threads that are abandoned and come back, and play windows that
  open without anything being written.
* Identity: a pid, a socket, a log file or a queued message may by now belong to
  somebody else than the one it was obtained from.

`PROJECT.json` lists each such hazard with its line.

## 2. Modules

| module | models | run by | proved about in |
|---|---|---|---|
| `SoftTimeoutGuard` | the receivers one assignment at a time, the pool parent and its timers | `MCCeleryWorker` | `CeleryWorkerProofs` |
| `UrlSweep` | sweep and recheck, their Redis keys, workers with soft and hard limits | `MCCeleryWorker`, as two instances | `CeleryWorkerProofs` |
| `Scheduler` | `get_next_asset()` one read or write of shared state at a time | `MCScheduler` | `SchedulerProofs` |
| `PlaylistEval` | windows, expansion, active filter, deadline; a clock that walks the week | `MCDatabase`, over tables of its own | `DatabaseProofs` |
| `Backup`, over `BackupPromise` | download thread, pipe, snapshot, restore, write-ahead log | `MCDatabase` | `DatabaseProofs` |
| `OperatorAccount`, over `AccountPromise` | settings file, dictionary, User rows, migration | `MCDatabase`, as two instances | `DatabaseProofs` |
| `ViewerBus` | subscriber thread, Redis, publishers | `MCDevice` | |
| `DisplayPower` | periodic task, CEC answer, viewer flag, Redis key | `MCDevice` | |
| `Undervoltage`, over `SupplyPromise`; `StorageHealth`, over `StoragePromise` | watcher threads, page renders, latches | `MCDevice` | `CeleryWorkerProofs` |
| `HostAgent` | agent, channel, cache, polls | `MCDevice` | |
| `ViewerLoop` | main loop and command handlers, statement by statement | `MCViewer` | `WebviewProofs` |
| `Webview` | driver, process and what is on the screen, call by call | `MCViewer` | `WebviewProofs` |
| `Player` | the promise of a `MediaPlayer` | `MCScreen`, refined | `ScreenProofs` |
| `VideoSurface` | both paths of the widget | `MCScreen` | `ScreenProofs` |
| `FbdevPlayer` | main thread, subscriber thread, helper processes | `MCScreen` | `ScreenProofs` |
| `ViewLoads` | the View widget and what the engine answers | `MCScreen` | `ScreenProofs` |
| `WaylandWatchdog`, `WifiSetup` | tick and restart counter; portal, reporter and loop | `MCScreen` | `ScreenProofs` |
| `PlaylistTree` | each request as a sequence of queries and row writes | `MCPlaylists` | `PlaylistTreeProofs` |
| `PlayOrder` | each request that writes positions or play_order | `MCPlaylists` | `PlaylistTreeProofs` |
| `WsAuth` | handshake, frames, changes of credentials from several processes | `MCPeers` | `PeersProofs` |
| `UploadChunks` | page, request threads, partial file | `MCPeers` | `PeersProofs` |
| `WebviewSpawn` | attempts of `load_browser()`, processes, bus | `MCPeers` | `PeersProofs` |
| `CecBus` | commands, adapters, abandoned threads | `MCPeers` | `PeersProofs` |
| `AssetPipeline` | one asset's row, files and messages; web, workers, reconciler, sweep | itself | `AssetPipelineProofs` |

`MCCeleryWorker`, `MCDatabase`, `MCDevice`, `MCViewer`, `MCScreen`,
`MCPlaylists` and `MCPeers` each put modules side by side that share no
variable: a variable `part` says which one moves and the others rest in an
initial state, so that one run explores the sum of their state spaces and not
the product.  What couples such modules in the program is in each of them as an
environment action (an outage of Redis, a restart, a command).  `BackupPromise`,
`AccountPromise`, `StoragePromise` and `SupplyPromise` hold the state and the
properties that the module that changes it and the MC module that runs it have in
common.

Conventions.  Variables and actions keep the names of the source where TLA+
allows it.  A step of a model is the code between two points where another
process may look: a read or write of the database, Redis, a file, a shared
attribute, or a D-Bus call.  Program counters are named for what comes next.
A definition marked "Mutant" is a plausible bug in the definition below it; no
specification uses it.  `PROJECT.json` "map" names, for each definition, the
lines it translates, and for each property the mutant that breaks it.

### How state and actions correspond

**SoftTimeoutGuard.**  `taskRunning`, `taskDeadline` and `limitResolved` are the
module's globals; the receivers' assignments are separate actions since SIGUSR1
may run between them.  The parent arms a job's timer at the handover; the child
computes its own deadline up to `Skew` later.  The parent drains results late,
so that a signal meant for one job can arrive in the next.

**UrlSweep.**  `lock` is the Redis key with its token and time to live,
`debounce` and `cooldown` the two keys of an asset, `task[w]` what a worker runs
and how old it is.  A sweep takes the lock, reads the rows, probes and writes
them one by one, and releases the lock in its finally block, comparing the
token.  The soft limit may land on any statement; the hard limit kills up to
`Slack` late.  An edit reads a row and saves it whole some steps later.

**Scheduler.**  `db` holds the catalogue and the file time; `loaded` is the
snapshot of the last refresh.  `GetNextAsset` begins a call; the refresh stores
the file time before it reads rows, as in the code.  `extra_asset` is read
twice.  Edits write; window flips do not.  Which slots are active is part of a
snapshot: `PlaylistEval` says how it follows from the rows.

**PlaylistEval.**  `MatchesPlayWindow`, `GetPlayDays` and `HasWindowFilter` are
the mixin; `ExpandOccurrences` is the depth-first walk, a recursive function
over the playlists seen so far; `ComputeDeadline` is the cap or nothing.  The
behaviour is one list and one deadline while the clock walks the week and the
viewer polls whenever the deadline has passed.

**ViewerBus.**  The subscriber thread subscribes, marks the viewer ready,
consumes; each may meet an outage.  The back-off doubles up to the cap and
starts over after a subscription.

**ViewerLoop.**  `script` is what is left of the handler of the subscriber
thread (`blank` writes a flag, switches off the output and sets the event one
after the other); the main thread reads flags between these.  There is one output.
A call that switches it may fail and may have switched it all the same; nobody
looks at the result, and `refused` remembers it for the properties.  The scheduler's
choice is any active asset, subject to the fairness `Scheduler` was checked for.

**Webview.**  `url` and `sent` are the caches, `staged` what the process holds
for the next page, `shows` what is on the screen with the headers it was loaded
with.  The process may die between any two calls; a launch takes up to
`MaxAttempts` attempts.

**WebviewSpawn.**  A pid is a number with the generation it was given at
(`gen`); a handle is a pair of the two.  An attempt waits for the compositor,
looks up the owner of the bus name, pins it (with a pidfd, or by its bare number
where the kernel has none), confirms that the name still is its, signals, and
spawns.  The bus hears of an exit later than the kernel does.  A number is
handed on only after the bus has seen its last owner go: the kernel gives
numbers out in turn, so that it takes a wrap of the pid space to meet one again.

**ViewLoads.**  `gen` and `request` are the load generation and what it asked
for; `engine`, `fetches` and `aborted` are answers that have yet to come, each
with the generation it was asked in.  `OnScreen` derives from the three surfaces
what the screen shows.

**VideoSurface.**  On the scene path the decoder queues frames to the GUI thread
(`incoming`), where the gate parks one while the last is being composited; what is
queued is delivered also after a `stop()` or `play()` that came first.  On the other
path the pipeline's streaming thread stashes a frame, tests and sets the drain flag
and posts a drain, each a step of its own beside the GUI thread's.  Bus messages
make the pipeline loop by segment seeks, or by a flushing restart when one is
refused; when that is refused as well the phase is "still".

**FbdevPlayer.**  `stop()` is terminate, wait, kill, wait, forget; the main
thread and the subscriber thread (through `reset()`) may be in it at once.  The
helper's phases are booting, starting, painting and exiting.

**WaylandWatchdog.**  A tick reads the kernel, then the compositor, then acts;
`restarts` and `thisBoot` are the file that outlives the exit by which it
recovers.  `spent` and `doubted` are histories the properties speak of.

**WifiSetup.**  The portal, its state file and heartbeat; the server's judgment
of them; the reporter thread that polls; the loop that shows the setup page and
then the splash.  `CacheRefreshes` stands for all of `HostAgent`.

**PlaylistTree.**  `item[p]` is the item that holds p, `req[r]` a request and
where it stands: read, walk up the ancestors one query at a time, detach,
attach, and for a delete cascade and re-home one child at a time.  A restart of
the server forgets the requests and keeps the rows.  `Acyclic` and
`EveryPlaylistIsScheduled` speak of sets of playlists: no set in which each has
its parent, and no set without Default that has all its parents.  On a finite
tree this is the same as following every chain up, and it takes no recursion to
say or to prove.

**PlayOrder.**  `row` and `slot` are the two tables, `handler` a thread with what
it has read.  `wish` is the order a request that comes alone was sent for; its field
`despite` says what it meets that the code does not reckon with: tied positions
("ties"), or a play_order that does not fall along the Schedule ("misfit").  The signal that keeps an item for every enabled asset and the
mirror that copies play_order to positions run inside the saves that trigger
them, statement by statement.

**DisplayPower.**  `last` and `since` are the Redis key and its age, `wanted`
what was last put to the display.  A CEC answer may be yes, no, busy, lost or
late; the viewer may restart, which forgets the blank flag.

**CecBus.**  A command fans out over the adapters with a link, one after the
other: `todo` are those to come, `results` what the others came to.  Each is
served by a worker thread that clears the address, configures, claims, transmits
and releases.  A thread that takes too long becomes the `straggler`, which goes on
with the same steps later.  The address of an adapter outlives everything.

**WsAuth.**  A change of credentials commits, then bumps the process's generation,
then publishes; a handshake stamps the generation, looks up the session and
accepts in three steps; each frame compares.  A broadcast closes sockets older
than its generation and may be lost; one from another process carries a
generation that compares with nothing.

**OperatorAccount.**  `conf` is the file, `mem` the dictionary all threads share,
`tx` what the open transaction of the migration holds, `req` what each request
has read.  `load()` reads and then assigns; `save()` truncates, then writes; each
may be cut off or fail in between.

**AssetPipeline.**  `row`, `disk` (original, staging file, converted file),
`queue`, one job per worker, the steps of a web request, the reconciler and the
hourly sweep.  A worker may be killed at any step, a message lost or repeated.

**UploadChunks.**  `page` is the loop of the page's script with its retries;
`request` holds every request sent, since one whose answer is lost goes on in
its thread; `file` holds the blocks by inode and `staged` is the inode at the
partial's path, so that a thread may hold a file that no longer has a name.

**Backup.**  `main` is the file (whose pages, which commits), `log` the
write-ahead log beside it and `orphan` a log whose name a restore removed while
somebody had it open.  `produce` packs, `reader` is the response, `recover` the
request that restores.  The response waits five seconds for the thread that packs: in time
it ends "complete" or "aborted", after that "late", which the client cannot tell
from "complete".  Whoever closes the database last copies the log back.

**Undervoltage, StorageHealth.**  A sample, the load of the latch and the save of
what was folded into it are three steps; a page render does the same beside the
watcher.  Redis, the driver and the process may go away between them.  `recent` says
that the kernel's last error of the card is dated into the start of this boot: the
start is worked out from the clock of the moment, which may lag at a reboot and be
set later (`ClockIsSet`).

**HostAgent.**  `queue` is the channel, which keeps nothing while the agent is
down; `pending` the debounce keys; `found` what the agent has read and not yet
written.

## 3. What is checked

| run | shows |
|---|---|
| `soft_timeout_guard` | the guard honours a genuine limit and spares the job that follows (`GenuineLimitIsHonoured`, `StaleSignalSparesTheRunningJob`); no two sweeps probe side by side within their limit (`NoRivalSweep`); a verdict does not stay wrong (`VerdictSettles`) |
| `scheduler` | play-once slots play once per window (`PlaysOnce`); a list that no longer is what the database gives is noticed by file time or deadline (`DriftIsNoticed`), and then evaluated anew (`EditReachesScreen`); every repeating slot comes round (`NoOccurrenceStarves`) |
| `database` | windows mean what they say, over midnight and Sunday; an answer without a deadline stays true; the expansion is every chain, once, in order; a download that completes in time holds every commit, no commit is lost before a restore, no old log is replayed into a new database; nobody is locked out |
| `asset_pipeline` | a ready row has its whole file; an upload survives kills; the sweep spares what is referenced; finished is finished; every upload settles |
| `playlists` | requests one at a time keep a tree under Default; a nest takes nothing out of a named playlist; a request that runs alone leaves the order it was sent for, an insertion if no two slots share a position and the save of an asset if play_order does not fall along the Schedule |
| `peers` | no frame after a revocation; a reconnect is not closed by the change it follows; an upload's report is true; only AnthiasViewer is signalled, and the handle owns the bus name; a CEC answer is not made up |
| `viewer` | a load is skipped only for what the living process shows; between two command handlers the flags agree, and the power of the output with them unless the last call for it failed (`FlagsAgree`); a blank screen is filled, a blanked display goes dark even if its output could not be switched off, and a removed asset leaves the screen (`ViewerFollows`) |
| `device` | the card is called failing only if it failed in this boot or as long as the clock dates an old error into it (`FailingOnlyIfHurt`); a brown-out is on record only if there was one, and then for the rest of the boot (`WarningIsHonest`); the subscriber and the addresses come back, the screen follows its schedule and the warnings follow the device (`DeviceFollows`) |
| `screen` | restarts for a display are capped; the splash shows the device's own address; nothing that answers late brings an earlier request back (`LateAnswersAreDropped`); what was asked for comes up, clips keep moving unless their last restart is refused too, a late display is bound, the setup page follows the portal (`ScreenFollows`); both players implement `Player` |
| `viewer_bus_reload` | (violated) a reload published by Celery reaches the handler |
| `playlist_tree_cycle` | (violated) the tree stays acyclic when two requests interleave |
| `play_order_mirror` | (violated) `POST /assets/order` reaches the order that is played |

Refinement.  `Player` is what the caller of a `MediaPlayer` may rely on: what comes
to the screen is of the clip asked for last, or of an earlier one if it was on its
way (`late`) when the caller turned away.  `stop()` clears the screen, and nothing
new sets out after it.  `PlayersKeepPromise` maps `VideoSurface` to it with the
frames that are queued or parked, and `FbdevPlayer`, which has none, with `late`
empty.  The framebuffer player keeps it until the
first `reset()` from the other thread; section 5 says what happens then.

### Bounds and why they are enough

* `SoftTimeoutGuard`: two jobs, limits 2 and 3, time up to 5.  A signal confuses
  at most one job with its successor; the theorems hold for any number.
* `UrlSweep`: for the lock two workers, hard limit 2, kills one tick late, one
  fault and no edits; for the verdicts one worker, two edits, one fault.  The lock's
  theorem holds for any number.
* `Scheduler`: three slots of two assets, one play-once playlist, five
  databases, two events.  `ReshuffleAfter` = 2 stands for 5 and `Cap` = 1 tick
  for 60 s; a wrap, a reshuffle, an edit and a flip fit in one behaviour.
* `PlaylistEval`: all one-parent trees of three items over three playlists, with
  a depth of 2 where the code has 8, and tables of windows that are plain,
  overnight, on two days, half filled and junk, through every moment of a week
  of three-tick days.
* `Backup`: one commit, two faults, and one download and one restore in a
  behaviour; the theorems hold for any number of commits and faults.  The
  fallback to a plain tar is one step, and the journal is the write-ahead log.
* `OperatorAccount`: two threads that set up the same name and nothing that
  fails; one thread, two names and two faults.  The theorem holds for any number.
  That the old key is missing is a choice at the import, one import stands for
  those of dbbackup, migrate and uvicorn, `load()` assigns all fields at once and
  `save()` writes the file at once after truncating it.  Celery's own race for
  the key is left out.
* `ViewerBus`: three outages, three messages; delays double from 1 and stop at 3,
  which is not a power of two, so the cap is met between two doublings.
* `DisplayPower`: the key lives 2 beats instead of 10; three changes of schedule
  and three faults.
* `Undervoltage`, `StorageHealth`, `HostAgent`: two dips or one error of the card,
  one or two faults, one change of addresses: each window between a read and a
  write is met by an outage or by the other writer.
* `ViewerLoop`: an image, a video and an asset that cannot be shown; three
  commands, which is enough for any pair of handlers around the loop's check.  A
  call that switches the output may fail at any time, without a bound.
* `Webview`: two pages of which one is not cached, three header values, an image,
  two faults: a death in any call of a load, and in its retry.
* `ViewLoads`: two pages, two images, three requests, one fault: an answer of the
  first request after the second, and after the third.
* `VideoSurface`, `FbdevPlayer`: two clips, three and two plays, two errors and one;
  one reset.  Two frames in the GUI thread's queue (`MaxQueued`), so that those of
  two clips may be in it; two refused seeks are a segment and the restart for it.
* `WaylandWatchdog`, `WifiSetup`: a cap of 3 as in the code, three changes of the
  display, three faults; two changes and two faults of the portal.
* `PlaylistTree`: Default and three more, two requests at a time, six in all.
  Depth 3 stands for 8 and is reached.  The cycle needs four requests.
* `PlayOrder`: two assets and a nested playlist, two items listed by one asset, three
  requests of which the last runs alone, so that two race before it.
* `WsAuth`: one socket, two writers, two changes, two handshakes.  Sockets meet
  only in what the writers do, and the theorem holds for any number.
* `UploadChunks`: three chunks (first, middle, last) of two blocks, two retries, five
  faults (`MaxMishaps` in the `.cfg`): a straggler, its repetition and a full disk fit in one behaviour.
* `WebviewSpawn`: two pids, two attempts, four crashes; the theorems hold for any
  number.
* `CecBus`: two adapters, two commands, one straggler, two faults (`MaxUnrest`).
* `AssetPipeline`: one asset, two workers, one queued duplicate, one fault of each
  behaviour, an hour per tick.  Two tasks never share a file unless they are for
  one asset, so one asset is enough; the theorems hold for any number of workers
  and faults.

`CHECK_DEADLOCK FALSE` is used where the bounds on jobs, commands or requests end
every behaviour, with a comment in the `.cfg`; the others never stop.

### Fairness and what justifies it

* Weak fairness of each thread's or task's next step: none of them waits for
  another except where the model's guard says so.
* `Scheduler`: of `GetNextAsset` and the clock.  The main thread calls it after
  every asset, and durations are finite.
* `ViewerLoop`: strong fairness of the choice of each active asset, which is what
  `NoOccurrenceStarves` of `Scheduler` shows; `Webview` likewise of each pick.
* `UrlSweep`: of the clock and each worker; strong for taking a waiting task, as
  the queue is served in order.
* `DisplayPower`: of the beat, the task, the consumer of commands and the start of
  the viewer (its container is restarted).
* `Undervoltage`, `StorageHealth`, `ViewerBus`: of the thread, and of Redis coming
  back; strong for the interval of the write check, which a restart interrupts.
* `HostAgent`: of the agent and its restart, the expiry of keys, and the polls of
  the viewer, which runs on; not those of a page.
* `ViewLoads`: of answers, which are late but arrive; strong for a load that is not
  disturbed by the abort of another, and for the watchdog when nothing loads: the
  two timers do not stay in step for ever.
* `VideoSurface`: of the threads; strong for a frame being pushed and drained, which
  the end of a very short clip may overtake now and then.
* `WaylandWatchdog`, `WifiSetup`: of the loop's ticks, of Docker, of time, and of the
  refresh of the addresses.
* `AssetPipeline`: weak for the upload, each worker, reconciler and sweep; strong
  for the clock, which other steps disable only while something is to be done.

Faults have a bound, that is: they do not go on for ever.  No fairness is assumed
of operators, faults, signals or lost messages.  Where several modules are run side
by side one condition may name an action of each: only that of the part that moves
is ever enabled, so it means the same.

## 4. What is proved

For all values of the constants under the named assumption of each module.  An
assumption is an `ASSUME` where it stands in a module a run extends, and a
hypothesis of the theorem where the module is only instantiated (`Backup`,
`OperatorAccount`); the runs' modules check it of their instances either way.
The theorems about `MCScreen` and `MCPeers`, and those about the order of the
Schedule and the flags of the loop, are about the specification the run checks
(`MCPlaylists`, `MCViewer`), whose parts keep their bounds as constants.  Every safety property and every
action property of a passing run is proved, but for the one named below.

| theorem | says | assumption |
|---|---|---|
| `GuardInvariant` | the inductive invariant of the guard, type correctness included | `GuardAssumption`: limits, skew and bounds are natural numbers; the model lets at most the skew pass between handover and task_prerun |
| `GuardRaisesOnlyIntoATask`, `GuardHonoursGenuineLimit`, `GuardSparesTheRunningJob` | a signal is never raised into an idle child, a genuine limit always interrupts, a stale signal spares the running job | the same |
| `SweepsHaveNoRival` | two sweeps are never both within their hard limit | `SweepAssumptions`: the soft limit is below the hard one, the rest are numbers |
| `PipelineInvariant`, `PipelineTypeOK` | the inductive invariant of the pipeline | `PipelineAssumption`: the two ages and the queue are at least 1 |
| `ReadyRowsHaveFiles`, `UploadsOutliveCrashes` | a ready row names a whole file; no kill takes the only copy of an upload that is downscaled or probed | the same |
| `SweepsSpareReferenced`, `FinishedRowsStay` | action properties: the sweep leaves the file alone that the row names by now; a finished row is failed by no late task | the same |
| `BackupInvariant`, `DownloadsHoldCommits`, `CommitsAreKept`, `OldLogsAreNotReplayed` | a download that completes once its thread has ended holds every commit there was when it was asked for; no commit is lost before a database is restored over it; no old log enters a new database nobody had open | `BackupAssumption`: the bounds are numbers |
| `NeverLockedOut` | after the migration a login is asked for only when there is an account | `AccountAssumption`: None is no name and no password |
| `SkipsAreSafe` | a load is skipped only for what the living process shows | `WebviewAssumption`: rotations are non-empty sets of assets, a header set has an owner |
| `SurfaceKeepsPromise` | `VideoSurface` implements `Player`: what comes to the surface is of the clip asked for or was on its way when the caller turned away | none |
| `FbdevKeepsPromise`, `CallersMayRely` | until the first reset `FbdevPlayer` implements `Player`; so does, at all times, whichever of the two `part` names | `ScreenAssumption`: None is no clip, at least one play, the bounds are numbers |
| `RecoveryIsCapped` | if no probe fails, the container is restarted at most as often as the cap allows until a display is bound or gone | `ScreenAssumption`: the cap is at least 1, the bounds are numbers |
| `SplashNeverShowsPortal` | the splash ends its wait for an address only when the server lists one of the device's own | none |
| `SchedulerTypeOK` | order and index belong to the evaluation that is loaded, whatever is written, flips or is commanded meanwhile | `SchedulerAssumption`: a slot has an asset, no evaluation lists a slot twice (a slot is a chain of playlist items, section 2), cap and reshuffle interval are at least 1 |
| `OnceMeansOnce` | a repeat=False slot is shown once while its evaluation stands | the same |
| `DriftAlwaysNoticed` | when the list in memory is not what the database would give, a newer file time is there to see or a deadline at most the cap away is pending, but for a write in the very tick of the file time on record | the same |
| `WarningsAreHonest` | no page warns of a brown-out in a boot in which the alarm was never shown, and within its boot the record of one is not taken back | none |
| `FlagsAlwaysAgree` | whatever commands come between any two statements of the main thread: between handlers a blanked display has a paused loop, and unless the last call to switch it failed the output is off exactly while it is blanked | none |
| `LateAnswersNeverShow` | between two requests what comes up is what was asked for last, or black where an image was | `ScreenAssumption`: pages, images, the clip and the blanks are different things |
| `FailingIsDeserved` | the verdict on the card is "failing" only in a boot in which it failed, or while an old error is dated into its start; nothing of such an error is in the latch once the clock is right | none |
| `StrangersAreSpared`, `HandlesOwnTheirName` | with pidfds only an AnthiasViewer is signalled; the process in use owns the bus name as long as it lives | `PeersAssumption`: None is no pid, the bounds are numbers |
| `UploadReportsAreTrue` | a file makes one asset; "ok" means there is one, a failure that there is none; unless a disk was full it is whole | `PeersAssumption`: at least two chunks, the bounds are numbers |
| `OutcomesAreHonest` | "on" and "standby" are what every display said that spoke to this command, and an error means that something was disturbed | `PeersAssumption`: adapters are numbers |
| `WsTypeOK`, `RevocationFailsClosed`, `ReconnectsAreSpared` | no frame reaches a user whose credentials the process has revoked, even if every broadcast is lost; a revocation closes only sockets older than it | `WsAssumption`: the bounds are numbers |
| `WindowsAreExact` | the window filter equals the meaning of a window at every moment | `EvalAssumption` |
| `NothingFlipsUnasked` | without a deadline the list in hand is the list a fresh evaluation gives | `EvalAssumption` |
| `TreeTypeOK` | items and requests refer to playlists that exist, in every interleaving and across restarts | `TreeAssumption`: Default is a playlist, the bounds are numbers |
| `NestSparesNamedPlaylists` | a nest never takes an item from a playlist other than Default | the same |
| `SerialEditsKeepSchedule` | as long as requests come one at a time and none is cut off, every playlist hangs under Default between requests | the same |
| `AskedOrderAlwaysKept` | a request that runs alone leaves the Schedule in the order it was sent for: an insertion provided no two slots share a position, the save of an asset provided play_order does not fall along the Schedule, every other one whatever ties and gaps racing requests left | `PlaylistsAssumption`: assets and playlists are finitely many and not the same, the bounds are numbers |

The arguments.

* *Guard.*  The properties speak of the last signal only and are not inductive.
  `GuardInv` adds what each global says of the job in hand at each place the
  receivers can be interrupted at (`DeadlineDescribesJob`,
  `ResolvedDescribesJob`, `FlagFollowsTracer`), that the handover is recent, and
  that a signal of the current job exists only after its limit
  (`TimersBelongToJobs`).
* *Sweeps.*  `SweepInv` adds to the types that a sweep within its hard limit owns
  the lock, and that the lock's time to live and the sweep's age together reach
  the hard limit (`LockCoversSweep`).  It is kept because the time to live is set
  after the task was taken, both run with the same clock, and the finally block
  compares the token before it deletes.  The theorem is about the specification
  the run checks, with both instances and the guard beside them.
* *Pipeline.*  `ReadyRowHasItsFile` depends on what a task is about to do.  `IInv`
  says that a row is created once and names the original while it is processed,
  as do all tasks (`RowIsOriginal`); that, while tasks do not overlap, a row with a
  task at work is on "processing" (`TaskOwnsRow`), so that no ready row has a task
  that could touch its file; that no half-written file is under a name that counts
  (`NoHalfFiles`, `ResultIsThere`); and that what a sweep is about to remove and
  the row names is too young for it (`SweepIsLate`), since no tick falls within a
  sweep or between writing a file and naming it (`WrittenIsYoung`).  The first two
  properties and the last hold as long as no form saves a row that changed under
  it and no two workers run the task at once; both do happen, and section 5 says
  what follows.
* *Backup.*  As long as no restore has written over the file, and again when one has
  removed the log with nobody looking, file and log belong together (`Together`):
  what the log holds and the file does not is still to be copied back, and everybody
  who is connected writes to the log that has the name (`LogHasItsName`).  So no
  commit is lost, and what was committed when a download was asked for is in file
  and log until the snapshot and in the archive from then on (`PackedSoFar`).
* *Account.*  No copy of the settings asks for a login before there is an account:
  not the file, not the dictionary (`StoresAreBacked`), not what a thread has read
  and has still to assign or write (`ThreadsAreBacked`), and not what the migration
  leaves when its transaction is rolled back (`MigrationBacks`).
* *Web view.*  `UrlIsShown`: a living process shows what the cached URL says, or
  the cache is empty.  Every step that makes another process forgets the URL.
* *Video surface.*  A step that hands over a frame shows one that was queued, parked
  or stashed earlier.  `FramesAreTraced` says which clips these may be of, which is
  why each such step is `Show` of `Player`; the lemmas go
  through the operations one by one, `Play` to `Play`, `Stop` and an error to `Stop`,
  an empty frame to `Clear`, and everything else to a stutter.
* *Framebuffer player.*  Until the first reset there is one instance and only the
  main thread is at it (`OneInstance`), and a helper that lives is the one it has a
  handle of (`HeldProcesses`): by the time it drops a handle the process is dead or
  has been sent SIGKILL (`StopFollowsProcess`).  So what paints is the clip asked for.
  A reset ends the refinement, and the mapping goes to the state that promises nothing.
* *Watchdog.*  Every restart since the last good look is on record and the record of
  this boot is within the cap (`RestartsAreOnRecord`); only a good look, or a probe
  that failed, clears it.
* *Splash.*  A splash follows an answer that named the portal; the reporter noted the
  gateway with that answer, before anything could become pending (`SplashKnowsPortal`).
* *Scheduler.*  What is remembered of a play-through belongs to the evaluation that is
  loaded: its members are those of that evaluation, and what was shown since it
  changed is on record as played (`ShownIsPlayed`).
* *Drift.*  The file time is stored before the rows are read and no time is ahead of
  the clock (`TimesInOrder`): a write shows in the file time unless it falls into the
  tick of the one on record.  A window that can flip was in the rows that were read,
  so the deadline it set is pending.
* *Warnings.*  `dipped` is a history variable: the alarm was shown in this boot.  What
  the two writers hold and what is on record for this boot was so shown
  (`WarningsEarned`), and a write that changes the record has a brown-out in it.
* *Flags.*  What a handler has still to assign is a tail of its script; `ScriptFits`
  says for each tail which flags are already as they will be.  The main thread
  assigns none of them.
* *Late answers.*  Whatever reaches the widget without the number of an older request -
  the load of the engine, the page of the watchdog, the page the refresh timer goes
  back to - is what was asked for last; the rest compares its number and is dropped.
* *Storage.*  As long as nothing went wrong in this boot, whatever the clock says, the
  watcher's copy and the facts hold nothing against the card, and a latch that does is of another boot
  (`CleanUnlessHurt`); a fold keeps a clean history clean.
* *Upload.*  No file has a hole and none is longer than the upload (`UploadTypes`),
  since a thread measures what it holds.  Requests of the last chunk are made once
  (`Fits`), so there is one asset.  As long as no disk was full, either nothing will
  be renamed any more (`Past`), or the partial was swept and all that comes is refused
  (`Cut`), or it holds what the page takes for sent (`Intact`); and the request the
  page waits for writes to what has the name (`LatestHasTheName`).
* *Displays.*  An adapter is to come, is asked, or has answered (`AskedOnce`), and
  what it is on record with is what its display said to this command, in both
  directions (`ToldWasHeard`, `HeardIsTold`).  Undisturbed, an operation has the
  address to itself (`OwnsAddress`), so that none fails (`NoneFails`).
* *Spawning.*  Generations only grow, so a handle whose generation is current is of
  the process it was obtained for (`HandlesAreOld`).  The bus knows no stranger, and
  only the process it knows has announced itself (`BusKnowsViewers`).  What is
  pinned is what was confirmed (`PinnedIsViewer`); the process in use is the one the
  bus knows, for as long as it lives (`BrowserIsServed`).
* *Sockets.*  `IInv` = `TypeOK`, `CurrentAreUnrevoked` (a socket whose stamp is
  current holds no user that was revoked) and `NoFrameAfterRevocation`.
  `CurrentAreUnrevoked` holds since the handshake stamps the generation before it
  reads the session, so that a session read too early shows up as an old stamp;
  the other order would break it.
* *Windows.*  A window opens only on its days and stays open less than a day, so
  what is open now opened today or yesterday; the rest is arithmetic by cases
  (no times, within a day, overnight).
* *Deadline.*  If nothing on the path of a slot carries a window filter, or
  something on it is disabled, the slot is active always or never.  The
  invariant adds to the property that a missing deadline means no boundary in
  the rows, and the number of ticks left never runs below zero.  The proof uses
  nothing of the expansion.
* *Tree.*  `IInv` = `TypeOK`, ids in use are remembered (so that a request that
  resumes does not meet a new row under an old id), no handler works on Default,
  and the item read under Default still is Default's when it is detached: this
  last part is why a slow request takes nothing out of a named playlist.
* *Tree, one request at a time.*  The walk has seen everything from the target to
  the playlist it has come to, and the child was not among it (`WayIsWalked`); at the
  root this is a way on which the child does not lie (`WayIsClear`), so that hanging
  it there closes no cycle.  A playlist without a parent is one that the handler at
  work has yet to give one (`NoneForgotten`).
* *Order.*  What the steps of a request that are still to come make of the tables, if
  nothing else writes them, is a function of the tables and of what the thread has read
  (`LeadsTo`); for a request that came alone this is the order it was sent for
  (`WishesComeTrue`).  Its steps keep that so, and no other thread writes before it is
  answered (`WishersAreAlone`).  The sort by position and id is written as a rank (how
  many items come before), so that it needs no recursion: `RanksAreDistinct` counts
  them, `SortedLists` and `TheOrderOfTable` say that a list whose neighbours are in
  order is the one the query returns, and `PlanMakesOrder` that renumbering by a list
  leaves that list, although rows that stand right already are not written.  The
  invariant also needs each nested playlist to have one slot (`OneSlotEach`), so
  that one whose slot is deleted can be placed again.

Only model-checked, and why:

* everything that depends on fairness or ENABLED: `VerdictSettles`,
  `EditReachesScreen`, `NoOccurrenceStarves`, `ViewerFollows`, `UploadSettles`,
  `DeviceFollows`, `ScreenFollows`;
* `ExpansionIsDepthFirst`, which speaks of a recursive function over a tree of any
  size: induction over data is out of the provers' reach;
* the three properties that the code does not keep, which section 5 is about.

## 5. Findings

* `viewer_bus_reload`: the two Celery publishers of "reload" (`celery_tasks.py:757`,
  `processing.py:531`) leave out the topic word that `_consume()` requires, so
  the viewer never hears of a finished download or conversion this way; it picks
  it up when the file time changes, at the next asset.
* `playlist_tree_cycle`: two requests that nest two playlists into each other both
  pass the ancestor walk before either writes.  The two playlists then hang in
  no tree, and `expand_occurrences()` never walks them.
* `play_order_mirror`: `POST /assets/order` renumbers `play_order` and permutes the
  positions of the asset items.  Permuting equal
  positions changes nothing.  In the trace the asset at position 0 is disabled in
  bulk; the upload form then counts no active asset and gives the one it adds
  play_order 0, and its slot is seeded with position 0 as well.  `POST /assets/order`
  with the two in the other order moves neither: the Schedule goes on in the order
  of item ids (`app/models.py:612`).

The modules state, under a heading of their own, further promises of comments
and docs that the code does not keep.  Stating the name of the module's
instance in the run's module, where it is one, and adding it to the `.cfg` reproduces
each.

| property | module | what happens |
|---|---|---|
| `ReshuffleOnlyAtCycleEnd` | `Scheduler` | "previous" onto position 0 counts as a cycle, and a jump or refresh takes the tick of the reshuffle: it comes in the middle of a play-through (`scheduling.py:206`) |
| `CurrentIsOnScreen` | `Scheduler` | `extra_asset` is read twice; a second "asset" command in between is reported, and forgotten, for the first (`scheduling.py:131`) |
| `CapTickKeepsPlayThrough` | `Scheduler` | one asset's window that flips inside a play-once playlist restarts the others' play-through (`scheduling.py:280`) |
| `SubscriberSurvives` | `ViewerBus` | a command before the scheduler exists raises AttributeError, which ends the thread (`anthias_viewer/__init__.py:885`) |
| `BlankWakesLoop` | `ViewerLoop` | the skip event of a blank is cleared between showing an asset and waiting (`__init__.py:3040`): the loop sleeps a whole duration on |
| `RemovedAssetIsCutShort` | `ViewerLoop` | the same clear loses the event of a reload |
| `StopPausesOnCurrentFrame` | `ViewerLoop` | "stop" wakes the loop before the flag is set, so the rotation moves on once more |
| `RemovalTakesEffect` | `ViewerLoop` | when only undisplayable assets are left active nothing is painted, and the removed one stays |
| `ClipKeepsLooping` | `VideoSurface` | "small seam, but the clip keeps looping": the flushing restart is refused too, and nobody looks at its result (`videoview.cpp:1658`); the clip stands still, and no message of the pipeline comes again |
| `StoppedIsBlack` | `VideoSurface` | "black beats a stale frame": a frame that was queued before `stop()` finds the gate open after it (`videoview.cpp:215` and 478) and stays on the surface |
| `PageCarriesItsHeaders` | `Webview` | the process dies between header call and load; only the load is repeated |
| `FailedFetchGoesBlack` | `ViewLoads` | the last image stays as the fallback of a blank when a later fetch fails |
| `ResetIsHarmless` | `FbdevPlayer` | a reset while the main thread is about to spawn leaves a helper without a handle: two paint to the framebuffer, and nothing stops the first |
| `CappedWithinBoot` | `WaylandWatchdog` | a probe that fails for a moment counts as "no display" and forgives the restarts |
| `SplashIsNotLost` | `WifiSetup` | the loop takes the flag of the splash between the reporter's two writes (`__init__.py:3412`) |
| `EveryPlaylistIsScheduled` | `PlaylistTree` | the target of a nest is deleted between detach and attach, or the server dies between cascade and re-homing: a playlist listed nowhere |
| `InsertionLandsInPlace` | `PlayOrder` | "Optional position inserts at that slot": on tied positions the blind shift takes the earlier slots of the tie along, behind the new item (`v2.py:2067`) |
| `SavesLeaveTheOrder` | `PlayOrder` | "the mirror is a no-op when order already matches": a drag of items leaves play_order alone, and the next save of any asset undoes it (`app/models.py:654`) |
| `EditsStayWithinDepth` | `PlaylistTree` | the edit-time bound looks up from the target, not down the nested subtree |
| `DisablingRestoresTheScreen` | `DisplayPower` | the schedule is disabled while the key has just expired: the screen stays dark |
| `SilenceMeansNobodySpoke` | `CecBus` | a display that answers nonsense is reported like one that is silent |
| `LastCommandWins` | `CecBus` | an abandoned thread sends its older command after the later one |
| `NoTwoRunsAtOnce` | `AssetPipeline` | a message that waited an hour has a duplicate, and two workers take the two (`celery_tasks.py:1712`, against line 1654) |
| `RowKeepsACopy` | `AssetPipeline` | the original is removed before the row names the converted file: a kill in between makes the row fail and the sweep take the only copy |
| `DeletedStaysDeleted` | `AssetPipeline` | a form that saves a whole row brings a deleted one back |
| `AssetIsWhole` | `UploadChunks` | a chunk that meets a full disk removes the partial while another request of the same upload holds it; what is created anew under its name has a hole (`app/views.py:183`) |
| `RestoredFileIsWholeTruth` | `Backup` | somebody who has the database open during a restore copies frames of the old log into the new file, or writes to a log without a name (`backup_helper.py:721`) |
| `FailureAbortsDownload` | `Backup` | the response waits five seconds for the thread (`backup_helper.py:601`); one that fails later leaves a download that ended like a good one |
| `SavedMeansStored` | `OperatorAccount` | another page's `load()` between the assignment of a setting and `save()` puts the old one back, and the page reports success (`settings.py:194`) |
| `CountsEvents` | `Undervoltage` | watcher and page render each count the same brown-out (`undervoltage.py:301`) |
| `FailureIsRemembered` | `StorageHealth` | a latch that could not be read is overwritten with one that knows of no failure |
| `OldErrorsStayOut` | `StorageHealth` | the hour that "keeps a skewed clock from dragging old errors into the current boot" bounds the window and does not close it: the clock lags, an old error falls into the hour, and the card is called failing until the clock is set (`storage_health.py:154`) |
| `NodeIpIsFresh` | `HostAgent` | the ready flag is raised before the addresses are read (`anthias_host_agent/__main__.py:146`) |

Seen while reading, and stated by no property: the docstring of migration 0005
says its steps "all happen or none do", which a power cut between `os.replace`
and the commit breaks; a `save()` that fails after truncating loses the settings,
and a `load()` in that moment reads an empty file; a header that was staged for
a page whose viewer then died goes with the next page the process loads
(`__init__.py:1907`); `start_server.sh` runs `dbbackup && migrate || dbrestore`, so
that a backup that fails restores an older one.

## 6. Running it

    tlc -workers 2 -config Scheduler.cfg MCScheduler
    tlc -workers 2 -config AssetPipeline.cfg AssetPipeline
    tlapm AssetPipelineProofs.tla

`PROJECT.json` "runs" pairs each configuration with its module.  The longest
runs take two to three minutes on two cores, the longest proof
(`PlaylistTreeProofs`) about ten.

## 7. Not modelled, and the plan

Not modelled because it has no state that outlives a call, or none of its own:
serializers and page contexts, board and codec tables, telemetry and release
checks, content integrations, the dashboard's scripts but for the upload, packaging.
Session and password handling is Django's.  Not modelled yet: replies of the viewer
by correlation id, and the order of the containers' start.

Abstracted: what a file contains, which codec a board plays, wording and
logging, JSON and ini parsing, wall-clock time beyond weekday and time of day,
rotation and geometry of the screen.

Left out of `AssetPipeline`, as no property rests on it: a soft limit or a database
error between the removal of an image's original and the UPDATE that names its
successor, which is modelled as a kill only; the metadata that a video which is then
rejected has stored by that time; a soft limit after the last UPDATE of a task; and
the partial file that a soft limit leaves when it falls into the rename of a
download, which the sweep removes.

Next would come `ReplyBus`: correlation ids and expiry of replies (`settings.py`),
composed with `ViewerBus`.
