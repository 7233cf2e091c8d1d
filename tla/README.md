# Moonraker, specified

TLA+ modules, TLC runs and TLAPS proofs for the parts of Moonraker (this fork's
`moonraker/`, about 38 000 lines of Python) whose correctness depends on the
order of events: tasks that share state across awaits, a Klippy that comes and
goes, restarts that take down the process that ordered them. Paths are relative
to `src/`.

`PROJECT.json` maps every definition to the lines it stands for, lists the runs,
a mutant for each property, the hazards at their lines, the findings and the
theorems.

## 1. The system

Moonraker is one Python process with one asyncio event loop. **A coroutine runs
undisturbed from one await to the next**, so an action of every module here is
the code between two awaits, and two tasks interleave only at awaits. Components
meet in four ways: method calls; events (`server.send_event` runs each async
handler as a task of its own, so handlers of consecutive events overlap);
timers (`delay_callback`, which turns into a task when it fires); and the
database, whose calls are awaited.

| Component | State | Operations | Hard about it | Correct when |
|---|---|---|---|---|
| Klippy connection `klippy_connection.py` | writer, `_state`, init flags, pending requests, subscriptions, cache, connection mutex, subscription lock | connect, initialize, request, subscribe, status update, close, reconnect | connection lost at any await; cancellation; updates that run as tasks after the close; state read before and used after an await | listeners hear of each connection in order; every request returns; nothing survives a lost connection; a live Klippy is found again |
| Job queue `job_queue.py`, job state `job_state.py`, `klippy_apis.py` | queued jobs, `queue_state`, `pause_requested`, pop timer, lock; last print_stats | add, delete, jump, pause, start, pop; ready, shutdown, complete, abort events | pause does not take the lock; the pop awaits four times while holding it; the state seen is the last reported one | only the head is printed, an aborted load never prints, what is printed leaves the queue, "loading" is never orphaned |
| Auto recovery `auto_recovery.py`, restart job `printer_services.py` | a database record, two locks, a recheck timer, a systemd unit; the projector's record and probe loop | handle shutdown, started, ready; recheck; restart all; reboot; probe, reset of port and hub | its own action kills it; handlers overlap on one record; the restart outlives the process | attempts are capped per incident, one restart at a time, a lasting fault is handed to a person; USB is reset once per outage |
| Server, event loop `server.py`, `eventloop.py` | components, `server_running`, configuration and its backup; tasks and timers | launch, load, initialize, stop, restart, signals | shutdown order, stops that overlap one another and the start | a stopped server leaves nothing open; the backup has worked |
| Remote connections, RPC, extensions `common.py`, `websockets.py`, `extensions.py` | message queue, busy flag, pending responses, clients, agents, bridges | queue, write, identify, register, call, close | close while a call or a write waits; messages handled after the close | every call answered, no message stays, agents stay reachable, a stop completes |
| Database `database.py` | command queue, provider thread, `restored` | get, insert, delete, transactions, backup, compact, restore | transactions of several commands share one connection | commands of others do not undo or keep what they should not; every call returns |
| History `history.py` and its fields | current job, totals, request lock, auxiliary fields | add, finish, delete, reset totals, measure | a start event is two critical sections; a measurement while a row is written | each print counted once, an interrupted print found, totals match |
| Update manager `update_manager/` | command lock, update info, refresh timer, a repository's state, packages | update, refresh, recover, roll back, install | checks before the lock, long waits, each git command may fail | a rollback leads back, "valid" is pristine, an update keeps work and upgrades all it lists |
| Power `power.py` | device state, request lock, timers | on, off, bound services, queries | switched by hand, by reports and by requests at the same time | what is said of a switch is so; services follow; "off" comes after a shutdown |
| File manager `file_manager.py` | tree of watches, notifications, metadata, sync lock | move, copy, upload, delete, scan | inotify tells late and in halves; threads; a print that begins meanwhile | metadata is of the file, the tree is the disk's, what is asked is printed |
| Machine `machine.py` | services, installation, sudo requests | service actions, validation, password | signals and polls cross requests; a restart in the middle | states are so; Moonraker does not stop itself; options go only with their links |
| Timelapse, firmware build, shell commands | frames, render flag; build lock; child processes | capture, render, recover; build, flash, cancel | frames during a render; cancelled before it runs | no frame lost; the lock is given back |
| HTTP client `http_client.py` | cache, GitHub's limit, a download's buffer | request, download | answers cross; chunks are written while more come and attempts fail | answers are of their time, downloads whole |
| MQTT, PanelDue, SimplyPrint, Spoolman, announcements | queues, subscriptions, what the other side knows | connect, publish, report, start, ask | a connection that goes and comes; lost answers | the other side knows what it should, once |
| Configuration, webcams, strips, buttons | texts beside parsed values; lists beside rows; what is said beside what is | edit, save, revert; add, rename; switch; debounce | partial failures; commands under way together | the two sides agree |
| Authorization `authorization.py` | the user's key, public keys, API key, rows | login, logout, refresh, new API key, restart | a save is two commands that others come between; a logout while a login waits | memory, public keys and rows agree; a session outlives a restart |
| Sensors, adapters, scripts, conversions | mostly mirrors of something external | | | |

`PROJECT.json` lists all of them with what is or is not modelled and why. The
hard behaviours, each at its line, are its "hazards".

## 2. The modules

| Module | What it is |
|---|---|
| `PrintQueue` | what a print queue promises: entries come, go and are reordered; only the first may be handed over, and nobody edits the queue while it is |
| `JobQueue`, `MCJobQueue`, `JobQueueProofs` | `job_queue.py`: callers, poppers, the lock, the awaits of `_pop_job`, Klipper's print; constants and symmetry; the theorems |
| `KlippyLifecycle` | what listeners are told of a connection |
| `KlippyConnection`, `KlippyConnectionProofs` | `klippy_connection.py`: the connecting task, `close()`, senders, subscriptions, updates, and Klippy; the theorems |
| `RecoveryIncident` | what a fault is entitled to |
| `AutoRecovery`, `AutoRecoveryProofs` | the MCU part of `auto_recovery.py` with `printer_services.py`; the theorems |
| `Database`, `History`, `MCHistory`, `HistoryProofs` | `database.py`, and `history.py` on top of it; the theorems |
| `Connections`, `MCConnections`, `ConnectionProofs` | connections and agents; the WebsocketManager with bridges and the end of the server |
| `Host` | what the optional components work in: tasks, Klippy, a print, a bounded world |
| `Spoolman` ... `Sessions` (23 modules) | one optional component each, EXTENDS `Host` |
| `Components`, `MCComponents`, `ComponentInvariants`, `HostedInvariants`, `ComponentProofs` | the optional components side by side; constants and budgets; invariants of twenty-four of them, and the theorems |

`PrintQueue`, `KlippyLifecycle` and `RecoveryIncident` are abstract; the detailed
modules instantiate them with a refinement mapping and have them as a PROPERTY.

### JobQueue

A *caller* is a request or an event handler; an idle caller that acts is a
request that has just arrived. A *popper* is a `delay_callback` of `_pop_job`,
then the task. `lock` is the `asyncio.Lock`: owner first, then waiters. `pc` is
the await at which a task is suspended: `query`/`canPrint`/`cannotPrint` is
`_check_can_print`, `gcode` the transition script, `start` the wait for the
connection, `started`/`lost` the start request. `queued_jobs` is a set with an
order relation, since the properties ask only who is first. `printer`,
`printing` and `jobActive` are what Klipper does and job_state reports.

### KlippyConnection

`conn` is the await at which the connecting task is suspended, one phase per
await of `_do_connect`, `_init_klippy_connection` and `_check_ready`; `closer`
is the task in `close()`. `HoldsMutex` derives `connection_mutex`. `req` is
each sender's request and its future, `pending` is `pending_requests`, `asked`
what Klippy has. The reply to `info` and to a subscription with webhooks carries
Klippy's state at the time it is made; `hookState` is what Klippy last reported,
`updates` the tasks that have not run. A closed connection cancels the
connecting task at its await, or, before Python 3.12 (`pyproject.toml` allows
3.7), does not when the awaited reply is there already. Of the status only
`webhooks.state` is kept. Klippy itself is external: it starts, becomes ready,
fails, shuts down, exits, answers and notifies.

### AutoRecovery

A *task* is a handler. `lock` is `_mcu_lock`; `pc` the await: the lock, the
database read (`load`), the five writes (`save...`), the restart lock
(`trigger`), `systemctl is-active` (`checking`), `systemd-run` (`starting`), the
announcement (`announce`), the reboot. The record `mcu` keeps attempt, rebooted,
gave_up, and for `triggered_at` whether the cooldown is running. `job` is the
systemd unit: it stops Klipper and Moonraker and starts them again, so a
Moonraker that comes up finds it running. `MoonrakerDies` clears what is in
memory. `reliable` is chosen once: without it systemctl, sudo and the script may
fail at any time. Klippy's "error" states that are no MCU fault cause no handler
and are left out.

### Database and History

A task's transaction is a sequence of *commands*; `commands` is the FIFO that the
provider thread works off, `view` what its one connection sees, `open` whether a
transaction is open, `disk` what is committed. As the event loop resumes tasks in
the order in which the thread answers, running a command and resuming its task is
one step. `pc` is the command or lock a task waits for. Because a transaction is
open between one task's statement and its commit, commands of others fall inside
it, and a commit or rollback of anyone takes them along: this is the code, and
the properties say what survives it. `History` has `request_lock`, the current
job and its row, the total; `life` takes Moonraker through boot, work,
`on_exit`, closing, and crashes at any command.

### Connections

A connection has a queue (`buf`), a writing task (`writer`, `out`), messages that
arrived and whose tasks have not run (`inbox`; they may run after the close), and
what is closed of it (`conn`). `agents`, `agent_methods` and `remote_methods` are
the dictionaries of the code; `call` are calls to agents with their futures.
Bridges are websockets that are passed through to Klippy (`toKlippy`,
`bridgeBusy`, `link`); `server` is the stop of the server. `AwaitsClients` is whether
`wait_closed` waits for the clients of the Unix socket, as from Python 3.12 on.

### The optional components

They share the event loop and no state, so a behaviour is about one of them:
`component` says which, and the others keep their initial state (`About`). The
product of 26 components would show nothing more. `pc[t]` is the await of a task:
requests, and one task each of a timer, an event, the start and a worker. Requests,
changes of the world and failures are taken from `left`, so that every behaviour
ends; `Budget[c].all` bounds their sum. A component that crashes keeps what is in
the database or on the disk.

| Module | State and steps |
|---|---|
| `Spoolman` | `pending` is `pending_reports`; the FlexTimer of `eventloop.py` with its start and stop during the callback; `report_extrusion` spool by spool; the websocket; the server, which charges, deletes and may lose its reply |
| `Power` | `queue` is `request_lock`; a gpio, rf, http and klipper device; the timer, the poll, the shutdown's delayed off, bound services, `restart_klipper_when_powered`; and what MQTT, TPLink, Tasmota, SmartThings and other switches answer and report, late, retained or lost (`future` is `query_response`) |
| `Mqtt` | subscriptions with handles and levels, packets on the wire, CONNACK, acknowledgements, response topics, timeouts, `close()` |
| `Updates` | `cmd_request_lock`, the full update, the refresh timer; git and net deployers: download, dependencies, detection, restart, each with its failure; `saved` is the database |
| `Repository` | git commands of `GitRepo` one by one, each failing or not; `repoKnown` beside the real branch, HEAD, remote and modifications; commits are numbers on one branch |
| `Packages` | PackageKit's transaction as a call plus signals, or apt; refresh, update, install; what the machine has beside what is listed and stored |
| `Files` | inotify events not yet read, moves in halves by cookie, deletes kept for a while, the metadata queue, the extraction script, `NotifySyncLock` |
| `Folders` | nodes and watches beside the real directories; create timers, halves of moves, scans of new directories |
| `FileRequests` | requests without an observer: check, thread, metadata, notification, answer; uploads with `start_print` |
| `Timelapse` | directories, each a function from the numbers of its files to the frames they hold; the capture lock, renders, `_reconcile_tmp_dir`, subscription answers that come late |
| `Firmware` | `job_lock` acquired by hand, the driver process, approval of the flash, `ShellCommand.run` and `cancel` |
| `Projector` | the probe loop, the record read and saved, resets of port and hub, crash |
| `Server` | `launch_server`'s loop, components, `_stop_server` by several tasks at once, SIGTERM, the backup of a configuration |
| `Machine` | `InstallValidator` in its order, the sudo request with `sudo_req_lock`, options in memory, pending and on disk; services: units listed, then listened to one by one, signals on their way, polls of systemctl and supervisorctl, requests |
| `ConfigFile` | two files as sequences of lines, beside the parser, the maps of sections and options, pending changes, backup; the saving thread |
| `HttpClient` | the cache of one address asked with two queries, attempts, GitHub's limit, a streamed download with its writing task |
| `Announcements` | one feed whose item is named after its version, etag in memory and database, `entry_id_map`, dismissals, the timer that goes through the subscriptions |
| `SimplyPrint` | job events told, missed and cached; files sent, demanded and started; the setup code under `announce_mutex` |
| `PanelDue` | lines from and to the panel, the gcode and command queues with their busy flags, dialogs, retries of the serial port |
| `Fields` | seven strategies of a tracked value, pauses, the row, the totals in memory and database |
| `Hardware` | strips of lights: commands in the order of `request_mutex`, whole or changed pixels, beside what the strip shows; buttons: edges, the debounce task, errors, templates with their context under the mutex |
| `Webcams` | cameras by name in memory, by uid in the database, writes of a thread, renames |
| `Sessions` | the user, its key and the API key in memory and as rows, public keys, saves of two commands on the shared connection, tokens that clients hold, restarts; addresses that are trusted, and the names kept of them |

A variable whose comment says "history", and ghosts such as `overtaken`,
`crossed` or `touched`, record what the properties must know. Where the code
itself breaks a property in a known case, the ghost marks that case and section 5
names it; the property then says that nothing else breaks it.

## 3. The runs

| Run | Bounds | Shows |
|---|---|---|
| `job_queue` | 2 callers, 2 poppers, 2 jobs, 2 configurations | type, `LoadingHasPop`, `PrintedEntryLeaves`, `PausedLoadNeverStarts`, refinement of `PrintQueue` |
| `job_queue_pause` | the same | finding: a pause answered while `start_queue` awaits under the lock is lost |
| `klippy_connection` | 1 client, 2 lives of Klippy | type, `ClosedMeansReset` (nothing of a lost connection is left, no request waits for a writer that is gone), `ShutdownFollowsStarted`, refinement of `KlippyLifecycle`, `Reconnects`, `EveryRequestReturns` |
| `klippy_deferred_shutdown` | 1 client, 1 life | finding: a shutdown during the registration of methods is never announced |
| `klippy_stale_state` | 1 client, 1 life | finding: a state change between `info` and the first subscription stays unseen |
| `auto_recovery` | 2 handlers, 2 attempts, reboot allowed, 1 fault of a ready Klipper, 2 user restarts | type, `AttemptsCapped`, `RestartsExclusive`, refinement of `RecoveryIncident`, `PersistentFaultGivesUp`, `ReadyResolves` |
| `auto_recovery_reboot` | 2 handlers, 1 attempt, 1 user restart | finding: the host reboots under a print that began during the announcement |
| `print_records` | 2 tasks, 2 prints, 2 lives; five budgets of requests, failures and events | type, `JobCountedOnce`, `InterruptedFound`, `UnsafeShutdownsCounted`, `NamespaceListed`, `FinishedRowsStay`, `EveryTaskEnds` |
| `database_backup_hangs` | the same, 1 life | finding: a backup inside an open transaction never returns |
| `database_restore_overwritten` | the same, 1 life | finding: the write of `close()` replaces the count that a restore brought |
| `connections` | 2 websockets, 1 Unix client, 1 bridge; six plans of who connects, sends and leaves | type, `AgentsReachable`, `EndsWithItsPeer` (`CallsEnd` and `BridgesEnd`), `EveryMessageLeaves`, `ServerStops` |
| `components` | `MCBudget`: per component up to 3 requests, 4 changes, 1 failure | type, `UsageCounted`, `RollbackIsPrevious`, `MetadataCurrent`, `FramesKept`, `KeptIsTrue`, `FollowsTheWorld`, `DoneOnce`, `EveryTaskEnds`, `UsageReported`, `PoweredOffAfterShutdown` |

`KeptIsTrue`, `FollowsTheWorld` and `DoneOnce` join what the modules of the components state, each
under a name of its own and with a mutant beside it:

| Property | Joins |
|---|---|
| `KeptIsTrue`: what is kept of the world is so | `ServiceFollows` (Power), `SubscriptionsMatch` (Mqtt), `InstallationTrue`, `AnnouncementsTrue`, `SwitchKnown`, `CloudKnowsJobs`, `BackupHasWorked`, `TotalsAddUp`, `ValidIsPristine`, `ServicesAreKnown`, `PanelKnowsPrinter`, `ConfigMatchesFiles`, `EntriesCurrent`, `AnswersAreCurrent`, `ListedCanBeUpgraded`, `StripAsSaid`, `EventsTakeTurns`, `WebcamsAreStored`, `SessionsAreKept` |
| `FollowsTheWorld`: what is watched or measured is followed | `FoldersFollowed`, `FieldIsDescribed` |
| `DoneOnce`: what must be done once, or for the one who asked, is | `ProjectorResetOnce`, `SentFileStartsOnce`, `SetupShownOnce`, `ServerLeavesNothing`, `UpdateKeepsWork`, `NeverStopsItself`, `PanelServed`, `PrintedAsAsked`, `DownloadIsWhole`, `UpdateUpgradesAll`, `TemplateHasItsEvent` |

*Why the bounds are enough.* Two callers and two poppers give every pair of
overlapping operations and the second pop that an abort followed by a start
leaves; two jobs give a head and an entry to jump over it. One client and the
connecting task contend for the subscription lock; two lives of Klippy give a
reconnect after every kind of loss, with leftovers of the first connection. Two
handlers overlap on the record; a Klipper that *starts* in a fault may do so any
number of times, so one fault of a ready Klipper and two user requests suffice to
interfere with every stage of an incident. Two tasks on the database put every
command of one between any two of the other; two lives give every crash its
restart; the five budgets and six plans are the groups of operations that touch
the same state, taken separately because their product is out of reach. For the
optional components two requests give every pair that overlaps, one failure fails
each call in turn, and two to four changes give a state of the world that is lost
and made again; two spools, two files and two prints are the least with which
each property has an instance, as the mutants show. Numbers that the code sets high are small: `MAX_ERRORS` 50 is 2, the ten
retries of the serial port are 2, `MAX_SIZE` 100 of a collection is 2, the retries
of a request are 2. The proofs have none of these bounds.

*Deadlock* is checked for the job queue. The other systems may stop: the server
is stopped or Klippy's lives are used up; Klipper is shut down on purpose; a
budget is spent. There the liveness properties say what must not stop.

*Mutants.* Each property has a variant of a definition, beside it in the module,
that a slip in the code could have been (a check dropped, a lock not taken, a
count missed), under which TLC finds the property violated.

### Fairness

`JobQueue` claims no liveness. In `KlippyConnection` every step of a task that
can run is weakly fair, because asyncio runs ready tasks in order. Opening the
socket and the polling of `info` come after a sleep; the model delays them until
whatever is ready has run, which comes and goes while clients keep asking, so
these two are strongly fair: a sleep ends however busy the loop is. `Answer` and
`Notify` are weakly fair: Klippy answers while it lives. Subscriptions time out
after 20 s. Nothing is assumed of clients, of Klippy's changes, or of the server
being stopped. In `AutoRecovery` tasks, timers and the restart job proceed, and
systemd brings Klipper and Moonraker up; nothing is assumed of users, prints and
faults. Its two liveness properties are for reliable system calls: when a
restart fails to start or a reboot is refused, the code announces it and
schedules nothing.

In `History` the database's thread works off its queue and a Moonraker that has
begun to stop goes on; nothing is assumed of starts, requests, prints and
crashes. In `Connections` handlers, writers and closing tasks proceed, and a peer
that has been closed notices. In `Components` there is one weak fairness
condition per component, on the steps its `...Works` names: tasks that can run,
timers that fire, processes and servers that answer or fail: a timeout or a
socket error ends each of those waits in the code, but for four, which
`EveryTaskEnds` of `Components` names. One is a request to the MQTT broker: its
`timeout` is None unless the client gives one (`mqtt.py:715`, `746`, `761`), so that
`TimesOut` is fair only for the tasks that are not in `patient`, and one that is
waits for as long as the broker says nothing (`WaitsForEver`). The others are a
metadata update that never awaits (`frozen`), a download whose disk is full
(`dl.stuck`) and a PackageKit that died (`TransactionLost`). Requests, changes by
others and crashes are never fair.

## 4. What is proved

`JobQueueProofs`, for any callers, poppers, jobs and configurations (assumed
only: these sets are disjoint and configurations are records of three flags):
`TypeCorrect`, `LoadingNeverStuck`, `PrintedOnce`, `PauseRespected`,
`ImplementsQueue`. None of these properties is inductive. The invariant behind
them has three parts: `LockOK` - no task is queued twice for the lock, waiters
wait, and a task inside the critical section is the owner, so that there is at
most one; what a pop in the critical section knows of its entry and of
`queue_state`; and that a queue that is loading has a timer armed or a pop on
its way. Each part is preserved action by action, and a task outside the lock
(pause, a timer that fires) is shown not to disturb what the owner knows.

`AutoRecoveryProofs`, for any number of handlers, attempts, faults and requests:
`TypeCorrect`, `AttemptsNeverExceeded`, `OneRestart`, `ImplementsIncidentSteps`;
assumed only: at least one attempt is configured, and handlers are not named
like a user or nobody. The number of restarts really done is compared with a
record that is written before the restart, put back when the restart was not
this attempt's, and read by handlers that wait in between.
The invariant says that the handler inside the critical section is the owner of
`_mcu_lock`, that what it read is still what the database holds up to its own
write (a cooldown that ends in between changes nothing it relies on), and that a
restart it has not started yet is already counted. A second part says that who
checks for a running restart, or starts one, holds `_restart_lock`; from it
follows that the check still holds when the job is started, also after a new
Moonraker has begun with a free lock while the old one's job runs.

`KlippyConnectionProofs`, for any clients and number of lives of Klippy (assumed
only: the connecting task is not named like a client, the number is a natural): `TypeCorrect`,
`ClosedLeavesNothing`, `ShutdownAfterStarted`, `ListenersToldInOrder`. The
invariant has a part for each thing the code relies on without a check. A task
that opens, initializes or closes the connection is the one holder of
`connection_mutex`, so that past the opening there is a writer, and none while
handlers of a lost connection run (`SocketOK`). Whoever Klippy is still to answer
is registered in `pending_requests`, so that the close ends it (`AskedOK`). The
connecting task is at most once at the subscription lock, and only while it
subscribes (`LockOK`). What has been announced is what the flags and the place of
the connecting task say (`ToldOK`), and before it subscribes nothing of an earlier
connection is left that could announce a shutdown: no update waiting to run, no
subscription, no answer unread (`QuietOK`). The last two parts carry the
refinement: each announcement of the code is the next one that `KlippyLifecycle`
allows. That a cancelled task may survive its cancellation, when the awaited
reply is there already, is what makes the case of the close long: each await at
which it can find the task is one of its own.

`HistoryProofs`, for any number of tasks, lives, requests, prints, rows and keys
(assumed only `DatabaseConstants`: names that differ from one another, row ids of
which any set has a greatest, prints numbered from 1): `TypeCorrect`,
`CountedOnce`, `NoneLeftInProgress`, `UnsafeCounted`, `NamespaceFound`, `RowsStay`
- every safety property of the two modules. The base is `LockOK`: a task at a
command of `add_job`, `finish_job`, a deletion or a rollback is the head of
`request_lock`, one in compact, backup or restore that of `backup_lock`; and
`MainOK`, which says where starting and stopping are in each `life`. On these rest

- for the totals (`Uncounted`): a task that will make its print the current job,
  now or after it has finished another, is alone with that print, which is not the
  current one and was not counted; the current print was not counted unless
  somebody is between the commit of its row and the end of `finish_job`;
- for the rows (`RowsKept`): what is seen and what is on the disk differ in
  nothing that is finished on the disk, rows are missing from what is seen only
  while a deletion waits for its commit, and the row of the job to be finished is
  in progress in both, so that a commit or a rollback by anyone, at any command,
  does no harm. A new id is no id of the disk for the same reason;
- for the starts (`InterruptedInv`): until the search for interrupted jobs nothing
  is uncommitted, and from its commit on rows in progress are of this life;
- for the counts (`UnsafeInv`, `ItemsInv`): these two are never part of an open
  transaction, `unsafe_shutdowns` in memory is the number of lives that ended
  badly, counted from the last restore, and the mark is gone once `close()` is past
  it. This holds as long as `close()` has written over no restored count
  (`overwritten`); `RestoredCountStays`, which TLC refutes, is about that.

`ConnectionProofs`, for any connections, agents, methods and calls (assumed only
`ConnectionsConstants`): `TypeCorrect`, `AgentsFound`. A call that waits in an
inbox is the only one of its number, which is free until it is taken (`CallsOK`).
Nothing is known of a connection that has not come (`AbsentOK`): else a writer
left from an earlier one could start. `AgentsInv` says that a live agent is
registered under its name, that whoever is registered is an agent of that name,
and that the owner of a method is registered too: each but for the connections in
`late`, that identified or registered a method after their `on_close` had run. An
agent's end and a second registration must both keep this.

`ComponentProofs`, for any requests, budgets and sets, with what the code gives
as assumptions (`HostConstants`, `SpoolmanConstants`, `UpdatesConstants`,
`TimelapseConstants`, `FilesConstants`, `ServerConstants`, `ServiceConstants`,
`PackagesConstants`, `PanelConstants`, `MqttConstants`, `WebcamConstants`,
`AnnouncementConstants`, `FieldConstants`, `ConfigConstants`: budgets are numbers,
tasks have names of their own, Klipper is among the applications, which have an order,
files are finitely many, `None` is none of the values it is beside). A step of
`Components` is a step of the component it is about, and leaves the variables of the
others alone, so a component's invariant is one of `Components` as soon as its own
actions keep it: `ComponentInvariants` and `HostedInvariants` have the invariants and
what the actions do to them, `ComponentProofs` the composition.

- `UsageIsCounted`. Use goes from pending reports to those under way and back, or
  to the server. Needed beside the sum: reports are under way exactly while the
  timer's callback sends (`SendingOK`: a FlexTimer that is armed is not in its
  callback), the use of the active spool is counted from where it began
  (`AimOK`), a spool announced as deleted is not on the server (`GoneOK`).
- `RollbackGoesBack`. Between the steps of a command what is known of an
  application is not what is on the disk; the invariant says what it is at each
  await (`StageOK`), which applications are between two versions (`Changing`,
  `Outdated`), that all others are as known, that what is saved is what is
  known but for the rollback version (`AppOK`) - which is what a crash goes back
  to - and that only the task at the head of `cmd_request_lock` is past waiting
  for it (`LockOK`).
- `FramesAreKept`. The frames of a directory have the numbers from 1 without a gap,
  and whoever counts in it (the current job, a capture under way, a render) has
  counted right (`CountsOK`); the lock is held by the one that captures, the
  render flag by the one that renders. The first attempt failed for a good reason:
  a directory can be taken up again while a capture of it is under way, and the
  count then misses the frame (`timelapse.py:250-276` and `437-475`). TLC found
  it on a larger budget; `overlapped` now says so, see section 5.
- `FilesKnown`. The metadata of a file is compared with the disk only when all is
  quiet; the invariant says what is under way before. The last inotify event of a
  file that is not read yet says whether the file is still there (`EventsOK`); a
  request in the queue, and what the script reads for it, is of what is on the disk,
  unless a change overtook it (`JobsOK`); the source of a rename that is not read
  yet is named by no event before it, waits for no delete, and its entry, if it has
  one, is that of the file under its new name (`MovesOK`): this holds because an
  extraction ends only when inotify has been read. A request knows its file
  (`FileRequestsOK`). An entry that none of them is about to change is current, or
  will be parsed or scanned (`CurrentOK`).

- `WhatIsDoneIsDoneOnce` is `DoneOnce`, and `WhatIsKeptIsTrue` is `KeptIsTrue`, from
  one invariant of each of twenty components (`HostedInv`):
  - *Projector*: a reset is on record before it is done (`ProjectorOK`).
  - *Buttons*: who renders holds the mutex and the context is that of its event; two
    calls that wait are never equal, and the last one is of the level that is being
    debounced (`ButtonsOK`).
  - *SimplyPrint*: what was told and what was missed make one sequence, in which
    nothing ends that did not begin; a file that is not demanded, or still on its way,
    has not been started; shown codes are those of the last setup while nobody holds
    `announce_mutex` (`SimplyPrintOK`).
  - *Server*: a stop that met a server that was up has it to itself, and what its place
    says is closed is closed; the backup and what was loaded are good (`ServerOK`).
  - *Services*: the last signal on its way says what the service is, its record does when
    there is none, and between list and listening nothing is on its way (`HearsOK`).
  - *Packages*: the signals of a transaction come in order and its end last, and what
    has been named and what is still to come are together what is upgradable
    (`TransactionOK`).
  - *PanelDue*: of the dialogs on the panel, on the lines and in hand there is one, and it
    is `confirmed`; the last status on its way is that of the printer (`PanelOK`).
  - *HTTP*: what is in the file, the buffer and still to come is one answer; an answer is
    at least as new as its request, and the body of an error comes with its code or
    from the cache (`HttpOK`).
  - *File requests*: what has been checked stays so while the request has its turn, what
    is to be printed is counted with who still owes it, as started, as queued, or as
    declined where prints are not queued (`AllRequestsOK`).
  - *Repository*: at each await of a refresh or an update, what has been read is so in
    the repository, unless it was modified since; a rollback goes to a commit of the
    remote (`StagesOK`, `KnownOK`).
  - *Webcams*: a row is as its camera, or the last write for it in the queue makes it so
    (`CamStored`).
  - *Strips*: for each thing that is said of a strip, the last command in the queue that
    decides it says the same, or, where none does, the strip shows it (`StripSays`).
  - *Sessions*: the last put in the queue of the database, or the row when there is none,
    is the user and the API key in memory; a key that is published is the one of the row
    on the disk, unless a logout overtook its login (`UserWillBe`, `PublishedOK`).
  - *MQTT*: from what the broker has, the packets on their way lead to the levels of the
    topics somebody listens to (`MqttOK`).
  - *Power*: a service that is not as its device has a task past the lock that will make
    it so, and nobody else changes the device meanwhile (`ServiceOK`).
  - *Switches*: who waits for an answer has the lock; with nothing asked and nothing on
    its way the last report is the wire (`ReportingOK`).
  - *Installation*: one task checks at a time; what its place says is done is done on the
    disk, and what is in memory is in the file but while it is saved (`InstallOK`).
  - *Announcements*: who adds a feed is alone with it, though it holds no lock while the
    component initializes; an etag in the database has its entries there, or has not been
    taken up (`AnnouncementsOK`).
  - *Auxiliary fields*: the totals in memory and in the database are the sum and the
    greatest of the rows, also between the two writes of a job's end (`FieldTotalsOK`).
  - *Configuration*: of each section the parser says what the lines say, which is what
    makes an edit of one line, in one file, something that can be followed: an option is
    in a file once, and the file that decides is among those on record (`Said`,
    `Consistent`); what a cancelled transaction puts back is what is on the disk; and a
    save writes all that is pending (`SourceOK`).

The proof of `UpdateKeepsWork` first failed for a good reason: while a recovery runs,
others may check out and commit, the refresh that follows takes their commit for
the one to roll back to, and a rollback that moves HEAD there and then fails on the
dependencies leaves it to the next update, which resets it away. TLC found it with
five requests, two changes and two failures; the property now leaves that case to
section 5.

Three of the other parts failed in the same way, each on a budget larger than that
of `components`, and each in a case that its condition had drawn too narrowly: a
switch that counts down after its last answer was "on" - it was asked meanwhile, or
switched on, which does not end the count-down - stays "on" after it has gone off,
because nobody looks again (`fooled`); an option is set whose section was removed from the file
and added again to the main one, so that the record still names a file without it; the
answer for a feed that was removed stores its etag for the same feed added again, which
never took the entries (`unread`). The conditions say so now, and the proofs show that
nothing else is left.

Each of these invariants was an invariant of a TLC run before it was proved, on
`MCComponents` or a larger budget of it.

*Only model-checked*: `FollowsTheWorld`, `PoweredOffAfterShutdown` and the types of
`Components`; and the violations. `FoldersFollowed` is about the paths of a tree and
`FieldIsDescribed` about the sum of the values a sensor sent: both are defined by
recursion over data, and what such a definition computes for every input needs an
induction that the prover does not have. `TypeOK` is the conjunction of the types of 26
components; the parts of it that a proof relies on are in the `...Types` of the
invariants above. All liveness is model-checked only: TLAPS does not prove liveness
under fairness here. The modules declare no RECURSIVE operator, so that proofs about
them remain possible.

## 5. Findings and what else the code does

Findings, each with a run that shows it and a text it contradicts:

1. `job_queue.py:231` a pause during `start_queue`'s query is lost.
2. `klippy_connection.py:488` a shutdown in the last part of the initialization
   is not announced.
3. `klippy_connection.py:654` the state in the first webhooks reply is not applied.
4. `auto_recovery.py:313` the reboot does not look at the print again.
5. `database.py:1377` a backup inside another task's open transaction retries for
   ever in the thread that should commit it.
6. `database.py:694` `close()` looks whether the database was restored when it queues
   its write; a restore that is in the queue before it loses its `unsafe_shutdowns`.

The models have more behaviours that a reader may not expect. The properties
leave these cases aside by a named condition; they are listed here so that nobody
takes a passing run for their absence.

*Job queue.* TimeoutError or CancelledError of `wait_started` is no server error:
`_pop_job` ends and leaves "starting" (`job_queue.py:142`, `PopWaitRaises`) with no
request under way, as which `docs/external_api/job_queue.md:18` explains that state;
a pause or an aborted job ends it.

*Database and history.* VACUUM and restore raise inside an open transaction
(1351-1421). After finding 6 the count is that of the life that wrote it, and
`UnsafeShutdownsCounted` says nothing more of it (`overwritten`). The end of a
print between the two critical sections of a start finds no job
(`history.py:383`; `docs/external_api/history.md:182` lists the states a job ends
in). A `finish_job` that fails is counted again by the next event. A rollback
after a wrong uid (301) undoes statements of others. Compact and restore look at
the print before they wait for their lock.

*Connections.* An agent that identifies or registers after its `on_close` stays
registered. A refused websocket handshake leaks the bridge's connection.
`WebsocketManager.close()` returns early without clients; a Unix client that
connects afterwards holds up the stop (`extensions.py:157`, Python 3.12).

*Server.* SIGTERM during a restart's stop may be lost (444-501). A stop that
meets the initialization leaves components open (`stopMetStart`). The backup of
the configuration can be cut off while it is written (`confighelper.py:540-547`),
and which configuration is the backup's is decided only when the process starts.

*Spoolman.* `klippy_ready` sets `_highest_epos` and not `_last_epos`.
`_check_spool_deleted` clears a spool chosen meanwhile (216-231). A lost reply
makes the same use charged twice; what is pending when Moonraker stops is lost.

*Power and switches.* An "on" that fails but took effect, with
`restrict_action_processing`; requests before the first state are ignored;
`need_scheduled_restart` outlives an "off"; `locked_while_printing` is looked at
before the HTTP request (449); a Klippy that starts in shutdown sends no
klippy_shutdown; an old subscription answer overwrites a newer state. A GPIO or RF
device whose first `set_power` fails is left in "error" until it is asked again
(646-659). TPLink and Tasmota with a `timer` pass for on when they are asked while
they count down (1042, 1085), an "on" does not end the count-down (1050, 1067), and
they stay "on" when they have gone off (`fooled`); the "off" of TPLink is two
commands, of which the first may be all that is done; an MQTT
report that comes while another is dealt with is overwritten by it (1462-1490);
a retained message that is read early leaves "error".

*MQTT.* A connection lost before CONNACK is not made again (535-550). `close()`
without a connection leaves pending requests waiting (850-851). A request without a
timeout, which is the default, waits for ever for a message that does not come
(`WaitsForEver`). Futures of
acknowledgements lost with a connection are not ended. A second message for a
future that is done raises. QoS 0 asked for becomes the default.

*Updates.* `/machine/update/full` does not look at the print
(`docs/external_api/update_manager.md` names the error for all updates), and the
others look before they wait for the lock (304). After dependencies fail,
`current_commit` is stale while the repository counts as valid (`halfDone`).
Recovery saves before it forgets the rollback. A release that does not validate
after its update, or at a refresh, keeps the rollback version it had and is not
valid; `settled` has it no more. A rollback whose checkout is done and whose reset
fails leaves HEAD at the remote branch (973-976, `halfDone`). A full update that fails forgets
the restarts that are due. A release is removed before the new one is unpacked.
`is_ancestor` answers yes when its command has failed three times
(`repoMisjudged`). With no commit to roll back to, a refresh takes the current one,
be it one that was made here (396); a rollback to it that fails on the dependencies
leaves it to the next update, which resets it away. A late failure of a refresh followed by a restart counts as valid.

*Packages.* After an update that failed packages stay listed until the next
refresh (`pkgHalf`), and a refresh that failed counts as one. When PackageKit
dies in a transaction, its future is never ended and `cmd_request_lock` stays
held (`TransactionLost`). A second result for the future raises, which is logged.

*Files.* `_process_metadata_update` may go round without an await for ever
(2559-2561, `frozen`). A file changed again before its last change is dealt with
(`overtaken`). An exception leaves `_gc_notify_task` set. `move_child_node`
flushes pending deletes of the source only (1558-1596); a directory moved out
whose name is used again within a second is not watched (1978-1997); a node timer
between the halves of a move leaves `is_processing_metadata` (1492-1514); a
directory moved into one that is not scanned yet stays unwatched; all in
`confused` or `scanned`. Without an observer: a print that begins while a thread
changes its file (519-525, 632-633), a forced removal that fails midway (523-526),
and a `start_print` whose answer is lost, so that the file is queued too (920).
With `queue_gcode_uploads` off, as it is by default, an upload to be printed that
may not start, or fails to, is neither started nor queued, which its answer says
(924-938, `declined`).

*Timelapse.* `_reconcile_tmp_dir` with a current job does not do what its comment
says (224-225). A capture and a render of one directory that meet lose or repeat
a frame, and so do a capture and a job that takes its directory up again: the
job counts the files while the snapshot's is not there yet (250-276, 437-475;
`overlapped`). A render in a print sets `current_job` to none; one that
is asked for while another runs is skipped.

*Firmware and shell.* `factory.close` iterates while `run()` removes. A cancel
before the process exists is forgotten. `run_cmd_async` retries a command that was
cancelled. A print may start before the flash.

*Recovery of the projector.* A print may begin between the last look and the
reset (383); a crash between save and reset spends the attempt.

*Machine.* A service that changes between the list and the listening stays stale
until it changes again (1286-1309); a D-Bus that is lost is not connected again;
where logind is missing a reboot runs and then raises (1221-1232). When
`extract_service_info` fails, a Moonraker under another name can be stopped by a
request. After a check that failed `cc_enabled` stays false (2077, `failedOnce`); a
data path whose copy failed is refused ever after; a wrong password replaces a
good one.

*HTTP client.* The cache's key drops the query, so that with dates a 304 may
stand for another query's content. A reply that reports an error is kept like any
other when it has an ETag or a date (154-158, 357-358), and a later 304 returns its
body as an answer; one without either, or no reply at all, drops the entry. A full disk
ends the writing task with `busy_evt` cleared, and `close()` waits for ever
(`dl.stuck`). Bodies of error replies are written to the destination; an answer
without content leaves no file or the old one.

*Announcements.* A removed feed keeps its etag. Adding or removing one while the
timer goes through them raises and ends the timer. A dismissal that resumes after
a removal writes the entry back (`strays`). A crash between etag and entries
loses these (`unread`).

*SimplyPrint.* A pause, resume or cancel that fails is told as "operational"; so
is a paused job after the socket dropped. Two file demands share `pending_file`.
The end of a job while Klippy is away is never told.

*PanelDue.* `_do_send` takes the last message first (`async_serial.py:134`). The
answer to a dialog does not say which (412); a cancel keeps `confirmed_gcode`.
`_process_klippy_ready` says ready though Klippy went meanwhile (214-219).

*Configuration.* Blanks at a line's end count as indentation (929); a removed
section leaves its options' entries (787-825), by which an option may later be set in a
file whose section is gone; a transaction that begins with
changes pending loses them (590, 849); a save that fails leaves a truncated file.

*Fields.* Totals of a basic field are not loaded (`history.py:236-249`), against
`docs/configuration.md:3574`. A job that ends without a value loses the field. A
measurement while the row is written is in the total only. `init_tracker` of an
average is ignored; a basic field without reset carries over.

*Webcams, strips, buttons.* A change that fails after the old name was taken
leaves the camera off the list (183-192), and a changed rotation is not checked
until the restart; a deletion does not wait for the database. One unreachable
strip ends the initialization of all; failed commands are not noticed (299-310); a
command repeated by `set_wled` may undo a later one (270-279). Too many errors
stop a pin for good; events shorter than the minimum time are passed over.

*Sessions.* An address that was trusted by its name stays so while its requests
come, whatever the name has become (`authorization.py:634-636`). A login that waits for its save while the user logs out publishes its
key afterwards (`authorization.py:426`), and the key stays until the restart
(`outlived`). A login whose save fails leaves the key in memory, so that later
logins are given tokens of a key that is not published. A save that fails rolls
back what another task has written and not committed (`authTorn`).

## 6. Not modelled

- Conversions and parsing (metadata extraction, RPC parsing, `source_info`,
  `sysdeps_parser`, versions, encodings of values): a model of them would repeat
  the code; where a component depends on one, its answer is any of its results.
- Passwords, secrets and the encoding of tokens: cryptography and comparison,
  which an abstraction would assume away. `Sessions` models when keys are made,
  published, stored and withdrawn, and when an address is trusted.
- `application.py`, `octoprint_compat.py`, `notifier.py`, `zeroconf.py`,
  `sensor.py`, `td1.py`, `proc_stats.py`, `data_store.py`, `health_monitor.py`,
  `presence_prune.py`: input, output and lists that nothing else decides on.
- `python_deploy.py`: the same order of steps as in `Updates`; what differs is pip.
- Scripts and the installation: not part of the running server.
- Within modelled components: PROJECT.json says at each what is left out. None is
  complete, because each also shapes answers, reads settings and logs.

## 7. Plan

Done: the job queue, the connection to Klippy and the recovery; history over
database, connections with bridges and the server's end; the optional components;
the theorems of section 4, which state every safety property of the runs but two.
Left:

1. `FollowsTheWorld`, for which paths and sums would have to be kept beside the state,
   as what is proved of them now needs an induction.
2. The types of `Components`.
