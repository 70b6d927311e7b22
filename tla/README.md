# Telegram-Minecraft-Server-Manager in TLA+

A Telegram bot and an HTTP API manage Minecraft servers on one machine, and on others
over SSH. Everything runs in one asyncio event loop with worker threads; the servers are
child processes that outlive the bot. This project models the parts that decide whether
a server is started twice, a world is archived while it is written, a backup is
forgotten, players are thrown out, or a user is given a right nobody meant, checks the
models with TLC and proves the main properties with TLAPS.

Files: one module per component, `<Module>_proofs.tla` with its theorems, `MC<Module>.tla`
and `<run>.cfg` for TLC, `PROJECT.json` with the map from definitions to source lines.
`tlc -config <run>.cfg MC<Module>` repeats a run, `tlapm <Module>_proofs.tla` a proof.
Definitions whose comment begins with "Mutant:" are not part of a specification: each is
a plausible bug, and putting it in the place of the definition below it breaks one
property.

## 1. Inventory

| Component | Source | State | Operations | Modelled by |
|---|---|---|---|---|
| Server process manager | `services/server_process.py` | `_lock`, `_child`, the PID record `run/<id>.json`, the process table | start, stop, restart, run_if_stopped, status, tail_output | `ServerProcess`, `ServerLifecycle` |
| Local backups | `services/backup.py` | `_backup_locks`, the ZIP files, the server's save-off flag | create_backup (manual, auto) | `LocalBackup` |
| Backup schedules | `services/auto_backup.py` | `_schedules`, `_retry_not_before`, `_locks`, `_write_lock`, the state file | set_interval, check_server, _run, shutdown, _load_state | `AutoBackup` |
| Auto-stop | `services/auto_stop.py` | `_tasks`, `_players`, `_overrides`, `_write_lock`, the state file | set_timeout, arm, handle_line, on_server_action, _countdown, bootstrap, shutdown | `AutoStop` |
| RCON client | `services/rcon.py` | one TCP connection per command | send_rcon_command | its outcomes, in `LocalBackup`, `AutoStop`, `ServerProcess` |
| Remote agent | `services/remote_agent.py` | an flock, the PID file, mod and backup files of the remote host | status, start, stop, restart, backup, mods, properties, tail | `RemoteAgent`, with the SSH client; configure_properties in `Settings` |
| Remote SSH client | `services/remote_ssh.py` | none; a connection per request | request, upload_mod, follow_log | request in `RemoteAgent` and `Settings` |
| Backup retention | `services/backup_retention.py` | the backup directory | prune_auto_backups | not modelled (section 6) |
| Access control | `services/access_control.py`, `middlewares/auth.py` | users, roles, grants; `users.json` | reload, permissions_for_server, can_server | `Settings` |
| Configuration scripts | `scripts/*.py` | `.env`, `servers.json`, `users.json`, the state files, `server.properties` | add, edit, remove a server; manage users; restore | `Settings` |
| Mod management | `handlers/mods.py` | the mods directory, pending uploads | list, upload, delete, commit | not modelled (section 6) |
| Log monitor | `services/log_monitor.py` | inode and offset of the log | tail_log | `LogMonitor` |
| Event history | `services/event_history.py` | an append-only JSONL file | record, read | not modelled: a log for people; `parse_minecraft_event` enters `AutoStop` as the kinds of lines |
| Control API | `services/control_api.py` | none of its own | routes that call the managers | its requests are the `Tasks` and `Users` of the modules |
| Telegram handlers | `handlers/`, `keyboards/` | none but chat messages | the same calls from buttons | likewise |
| Bot process | `main.py`, `deploy/systemd/` | the event loop | start-up, shutdown, log monitor task | its restarts, in `ServerProcess`, `AutoBackup`, `AutoStop` and `Settings`; the log monitor task in `LogMonitor` |
| Registry and settings | `services/server_registry.py`, `config.py`, `services/server_software.py` | read once at start-up | parse | what the bot builds from the files, in `Settings` |

How they interact:

- Handlers, API requests and the auto-stop countdown call `start`, `stop` and `restart`
  of a server's manager, which serialises them with one `asyncio.Lock`. `status` is
  called by everyone and takes no lock.
- The scheduler of automatic backups calls `run_if_stopped(create_backup)`: it holds the
  schedule lock of the server, then the manager's lock, then the backup lock. A manual
  backup holds the backup lock alone and talks to a live server through RCON.
- A remote server's calls go through one SSH request each to an agent process, which
  serialises them with those of other bots by a file lock on the host.
- The configuration scripts and the bot share files and no lock: a script compares what
  it read before it writes; the bot reads at start-up and rewrites the automation files.
- The log monitor feeds every line of `latest.log` to auto-stop, which arms and cancels
  its countdown; `execute_action` tells auto-stop of every start and stop.
- The PID record and two state files are what a new bot knows of the old one. The
  systemd unit kills only the bot (`KillMode=process`), so servers run on.

What is hard here, and what makes each component correct:

- *Server process manager.* restart releases the lock between its halves, stop may be
  cancelled at any await, status unlinks records without the lock, pids are reused, the
  bot dies between a spawn and its record. Correct: never two servers on one world, a
  running server is the one on record, no signal to another program, "stopped" is true,
  every call returns.
- *Local backups.* Two kinds of backup under two locks, RCON that loses commands or
  answers, starts and stops during the copy. Correct: an archive is not torn, saves are
  resumed, no deadlock between the locks.
- *Backup schedules.* Several writers of one state file, retries, crashes between the
  archive and the state write. Correct: an owed backup is never forgotten nor made twice,
  failures back off, a round survives one server's exception.
- *Auto-stop.* Cancellation at every await, settings whose writes overlap, log lines read
  late, restarts that forget the players. Correct: no known player loses the game, one
  countdown at most, "off" means off, an empty server is stopped.
- *Remote agent.* One process per request, an flock, a crash between Popen and the PID
  file, answers lost on the way. Correct: as the local manager, across processes.
- *Configuration scripts, access control.* Several files written one after the other, by
  programs that overlap, one of the files on another host. Correct: nobody gains a right,
  no edit is destroyed unread, the bot can start, secrets agree, what is removed is gone.
- *Log monitor.* Rotation and truncation between polls. Correct: no line twice or out of
  order, and the reader gets to the current file.
- *Mods, retention.* Lists gone stale, partial archives. Correct: the chosen mod is
  deleted, the newest archives stay.

`PROJECT.json` lists the hazards line by line, with the properties aimed at each.

## 2. The modules

### ServerProcess

One `ServerProcessManager`. A task is `pc`, the operation it performs, its last answer
and the record or child in its hands; a step ends where the code awaits (section 6 names
the awaits that cannot be cancelled).

| Code | Model |
|---|---|
| `_lock`, with its waiters | `lock`, `queue`; `RequestLocked`, `Acquire`, `Return` |
| `_get_managed_process` | `ReadPidRecord` then the branch: `FoundRunning`, `FoundStopped`, `StatusInspects`; `Alive` is the comparison of pid and create_time |
| start | `Spawn`/`SpawnRaises`, `Settle` (0.8 s), `WritePidRecord`/`WriteRaises` |
| stop | `RconStop`, `WaitStopped`, `TerminateProcessGroup`, `Killed`; `StopCancelled` |
| restart | a stop whose `Return` leads to `pause`, then `AfterPause` queues a start |
| run_if_stopped | the operation "offline", `OfflineDone` |
| status | `RequestStatus`, `StatusInspects`, and after its second await `StatusAnswers` |
| unit file | `BotRestarts` |
| the world | `ServerExits`, `OtherProgram`, `OtherExits`: processes end, pids are reused |

A process is a pid with the number of its birth, which stands for create_time.
`NoStaleReader` is a timing assumption, stated apart: a status thread that read the
record unlinks it within the 0.8 s of start; "slow" removes it.

`ServerLifecycle` is what the manager promises its callers: one server, started by one
call at a time and never during offline work, and answers that are true when a call that
holds the lock gives them. Of status() it promises less: between the inspection and the
answer a second thread measures memory (line 162), and a stop or an exit in that time is
not noticed. So a server it calls running was up at some moment of the call (`See`), and
"not running" says nothing. `ImplementsLifecycle` is the refinement: lock, record, threads
and signals vanish behind `down`/`up`.

### LocalBackup

Manual and scheduled backups of one local server. `managerLock` and `backupLock` are the
two locks, `server` and `saving` the server, `seen` and `paused` the locals of
`_create_backup_unlocked`. `torn[t]` collects what wrote the world since backup t paused
the saves or began to copy, and `archive` what the last archive contains. Every RCON
command is `Rcon(t, ok, failed, on)`: obeyed and answered, refused, or obeyed with its
answer lost. start and stop are reduced to their effect under the manager's lock, which
is what `ServerLifecycle` promises of them. `lost` is a history variable: RCON lost a save-on, or the answer of a
save-off. The two locks wake their waiters in turn, so the steps that take one are
strongly fair.

### AutoBackup

The schedules of several servers, in memory, in the state file and in the payload a task
has collected for it. A schedule is how many ticks are left and whether a backup is owed;
one `Tick` counts every copy down. `check_server` is `CheckServer`, `FindsRunning`/
`FindsStopped` (for status() and again for `run_if_stopped`), `Archived`, `ArchiveFails`
or `ArchiveRaises`, then `Collect` and `StateWritten` of `_persist`. `Locked(s)` is the
per-server lock, "writing" the write lock. `Shutdown` sets `_stop_requested`, `MayEnd` is
its wait for the scheduler, `Restart` loads the file. `sinceFailed` and `sinceMade` are
history variables.

### AutoStop

One server's auto-stop: the countdown tasks (`Timers`), the users, the log monitor and
Minecraft. `current` is `_tasks[server_id]`, and `Cancel` and `Schedule` are `_cancel` and
`_schedule`, called as in the code from `ReadReady`, `ReadJoin`, `ReadLeave`, `ArmEnds`,
`Persisted` and `AfterStop`. A cancelled countdown stays "cancelled" until it `Unwinds`
through its `finally`. Two `Timers` are a countdown under way and the one that takes its
place while the first unwinds. `log` is what Minecraft has written and the monitor has not
read: players join and leave before the bot knows. The manager's lock is held by whoever
is starting, stopping or halting. `failed` is a history variable: a setting that could
not be written was the last one.

### RemoteAgent

The bots that manage one remote server, the agent processes their requests start, and
the host. An agent is where it is (`at`), its action, the bot that still listens and the
server in its hands. `Finish` is the end of its operation: the lock is let go and the
answer is in its hands (`verdict`); it is printed and read in a later step, `Deliver`, and
in between another agent may take the lock and start a server. A bot that reads "stopped"
therefore knows what was so when the lock was let go (`AnswersTrue`), and no more. A
server is known by its pid and start_ticks together, `Ids`, which the next boot may hand
out again; `slot` says what runs under each.

| Code | Model |
|---|---|
| `request`, `RemoteServerProcessManager` | `Request`, `CheckStopped`/`RequestOffline` (run_if_stopped), `ConnectionLost`; `Deliver` ends a call |
| `operation_lock` (flock) | `Flock`, `FlockRefused` after 8 s; `LetGo` frees it, at the end of the operation (`Finish`) or of the process (`Gone`, `Killed`) |
| `pid_record`, `process_alive`, `get_status` | `Recorded`, `ProcessAlive`, `Running` |
| `launch` | `Look`, `Spawn`/`SpawnRaises`, `Record`/`RecordRaises`, `Settle` |
| `terminate` | `Find`, `RconStop`, `Wait`, `Term`, `Kill` (SIGKILL and the last wait) |
| restart | terminate, whose `Terminated` leads to `Look` |
| `make_backup` | `Ask`, `SaveOff`, `Flush`, `Clean`, `Copy`, `SaveOn`, with its `try`/`finally` in `LeaveTry` |
| the host | `Opens`, `Exits`, `OtherProgram`, `Reboot`, `Killed` |

The record is written before the 0.8 s of settling, not after as in the local manager.
`orphans` are servers that live although no agent recorded them, `torn` and `lost` as in
`LocalBackup`: histories the properties except by name.

### Settings

The files of the bot, the programs that rewrite them and the bot itself. A terminal
(`sess[x]`) is a program: its job, what it read (`seen`), the files it will replace
(`plan`, each with its old and its new content), those it read and leaves alone
(`reads`), and how many are replaced (`done`).

| Code | Model |
|---|---|
| wizards of `manage_servers.py`, `manage_remote_servers.py` | `Open`, `StageAdd`, `EditExistingSoftware`; `StageRemote`, and the requests to the agent |
| `remove_server.py` | `StageRemoval`, with `EnvWithout`, `RemoveServerPermissions`, `RemoveServerState`, `RemovalOrder` |
| `manage_users.py` | `OpenEditor`, `EditUser`, `DeleteOrRename`, `Reread` |
| `apply_files`, `atomic_save` | `Check`, `CopyRaises`, `Write`, `WriteRaises`, `Undo`, `UndoRaises`, `Undone` |
| the agent's configure_properties | `AgentCompares`, `AgentReplaces`, `AgentRaises`; `ConfigureRequest` is what it is asked, there and back |
| `AccessControl.reload`, `permissions_for_server` | `PermissionsForServer`, `Rights` |
| the bot | `BotStart` (registry, default server), `BotSaves` |

The agent's other operations hold its file lock; configure_properties does not
(`remote_agent.py:526-528`), and its comparison and its replacement are two steps: two
wizards may both pass the comparison, as two programs may on one machine, and then `race`
is recorded. An agent goes on after the wizard that sent it was told of a lost connection,
or was killed: the terminal stays taken until it is done, and `torn` is recorded when it
has replaced the file for nobody.

`Rights(disk)` is what a bot started now would allow, `granted` what the owners decided.
`lost`, `race`, `torn` and `unseen` are histories: each says that something happened after
which the code promises less, and no property but `EditsKept` promises anything of `lost`.

### LogMonitor

`tail_log` of one server and the loop in `main.py` that starts it again. A file is an
inode with a sequence of lines; `path` is what `latest.log` names. The reader's stat, open
and read are three steps: `StatFails`, `StatDiffers`, `StatSame`; `OpenFails`, `Open`;
`Delivers`, `FindsNothing`. Minecraft `Writes`, `RenamesAway`, `Creates` and `Truncates`
between any two of them. `AutoStop` reads lines that were delivered.

## 3. The runs

| Run | Instance | Shows |
|---|---|---|
| `ServerProcess_safety` | 3 tasks, 2 pids, 3 births, cancelled stops | `OneServer`, `RunningIsManaged`, `ImplementsLifecycle` |
| `ServerProcess_faults` | 2 tasks, 2 pids, 2 births, restarts of the bot, failed writes, cancelled stops, fairness | `SignalsOnlyServers`, `LiveRecordKept`, `CallsAnswered` |
| `ServerProcess_crash` | 2 tasks, restarts of the bot | `ReconnectsAfterRestart` is violated (finding 1) |
| `LocalBackup` | 2 manual, 1 scheduled, 1 caller, RCON loses commands and answers, fairness | `ScheduledArchivesConsistent`, `NoAutosaveInArchive`, `SavesRestored`, `BackupsEnd` |
| `LocalBackup_start` | 1 of each | `ArchivesConsistent` is violated (finding 2) |
| `AutoBackup_crash` | 2 servers, 1 user, the bot is shut down or killed | `SavedWhenUnlocked`, `OwedUntilMade`, `RetryBackoff` |
| `AutoBackup_liveness` | 2 servers, 1 user, archives and writes raise, fairness | `OncePerInterval`, `OwedIsAttempted` |
| `AutoBackup_retry_disk` | 1 server, interval 3, retry 2, writes raise | `RetryBackoff` is violated (finding 3) |
| `AutoStop` | 2 users, 1 player, 2 countdowns, 1 unread line, settings that cannot be written, restarts of the bot, fairness | `OneCountdown`, `DisabledMeansQuiet`, `KnownPlayersSpared`, `EmptyIsStopped` |
| `RemoteAgent` | 1 bot, 2 agents, 2 ids, 1 reboot, every fault, fairness | `OneServer`, `SignalsOnlyServers`, `ScheduledArchivesConsistent`, `SavesRestored`, `AnswersTrue`, `FlockFreed` |
| `Settings` | 2 programs at a time and 3 in all (`Bounded` says which after a race or a torn attempt), the bot, 3 servers, one of them remote, 1 user, full disks, SSH requests of unknown outcome, kills | `EditsKept`, `NoWidening`, `Forgotten`, `DefaultRegistered`, `RconReachable`, `RolledBack` |
| `LogMonitor` | 4 inodes, 3 lines, fairness | `NoReplay`, `CatchesUp` |

One run of each module checks its `TypeOK` too. All but the three that show a finding
pass, with deadlock checked but in `Settings`, where the bound on programs ends the run.

Why the bounds suffice. Three tasks are a restart in its pause, a start that slips in and
an observer of both; births are counted so that a pid can be a server's, another program's
and a server's again. Two manual backups and a scheduled one meet on the backup lock in
every order. Two servers are one that holds the scheduler up and one that waits; interval
and retry of one tick already separate "now" from "later", the proofs cover every length,
and the run of finding 3 has longer ones. Two users are two settings, or a setting and an
action, that overlap; a player who comes and goes is enough to empty a server, and an unread line to
know less than Minecraft (`PlayersSpared` is proved for any number of both). Two agents
are a request whose caller gave up and its retry; a second bot is one whose connection
ended; two ids are a server and an orphan, and one reboot hands both out again. Three
programs, two at a time, are every pair of writers and what a third inherits from them (a
server that is registered anew under a removed id). `Bounded` in `MCSettings` bounds what
is started once a history variable has excused something: nothing after `race` and
`unseen`, one program at a time and no bot after `torn`, so that a removal or a setup that
ended halfway is run again, alone. It belongs to the run: the specification, and so the
theorems, let everything go on. Three servers are the default, the
one that replaces it and a new one. Four inodes are the file that is read, the one that
stat saw, the one that was opened and the one after. Symmetry is used in safety runs only,
over constants nothing distinguishes.

Fairness. The event loop runs every task that is ready, threads and timers end: weak
fairness of each task's own steps. `asyncio.Lock` wakes its waiters in the order they
came: `ServerProcess` models the queue and needs no more; where a module leaves the queue
out, the step that takes the lock is strongly fair. Nobody is forced to make a call, and
no server to exit, boot excepted (`AutoStop`). An offline action and an archive end;
there is no assumption that a server obeys "stop" or SIGTERM. `EmptyIsStopped` lets users
and restarts interfere for ever, as its conclusion says. Every wait of an agent has a
deadline, so its steps are weakly fair; the lock is not handed out fairly, and only its
release is promised. The reader of `LogMonitor` is run again after each sleep: its steps
together are weakly fair, Minecraft's are not.

## 4. The proofs

All modules with proofs are checked by `tlapm` to the last leaf, for any sets of tasks,
pids, servers, users, players, agents and any bounds, under the `ASSUME`s of the module: distinct
model values, natural bounds, Retry between 1 and Interval.

| Theorem | For every instance |
|---|---|
| `ServerProcess_proofs`: `TypeCorrect`, `LockExclusion`, `OthersSpared` | types, the lock and `SignalsOnlyServers`, under every fault |
| `AtMostOneServer`, `ServerIsManaged`, `OfflineExclusion` | `OneServer`, `RunningIsManaged`, no server beside offline work; no fault but cancelled stops |
| `LifecycleImplemented` | `ImplementsLifecycle`: the refinement of `ServerLifecycle`, with what it says of status() (section 2); no fault but cancelled stops |
| `RecordKept` | `LiveRecordKept`; crashes, failing record writes and cancelled stops |
| `LocalBackup_proofs`: `TypeCorrect`, `LocksHeld` | types, and that both locks exclude |
| `ScheduledConsistency`, `PausedArchives` | the two archive properties, whatever RCON loses |
| `SavingRestored` | `SavesRestored`, whatever RCON loses |
| `AutoBackup_proofs`: `TypesKept` | types and exclusion, every fault |
| `NothingLost`, `OwedStays` | `SavedWhenUnlocked` and `OwedUntilMade`, state writes succeed; crashes anywhere |
| `OneArchivePerInterval` | `OncePerInterval`, state writes succeed and the bot is shut down, never killed |
| `FailedArchivesWait` | `RetryBackoff`, state writes succeed and failures are reported |
| `AutoStop_proofs`: `TypeCorrect`, `SingleCountdown`, `PlayersSpared` | types, `OneCountdown`, `KnownPlayersSpared`, every fault |
| `SwitchedOffIsQuiet` | `DisabledMeansQuiet`, every fault |
| `RemoteAgent_proofs`: `TypeCorrect`, `LockExclusion` | types, and that the file lock admits one agent, every fault |
| `AtMostOneServer`, `OthersSpared`, `AnswersAreTrue` | `OneServer`, `SignalsOnlyServers`, `AnswersTrue`, every fault |
| `ScheduledConsistency`, `SavingRestored` | `ScheduledArchivesConsistent`, `SavesRestored`, every fault |
| `LogMonitor_proofs`: `TypeCorrect`, `NothingReplayed` | types; `NoReplay`, while no inode number is used again (`Reuse` is FALSE) |
| `Settings_proofs`: `TypeCorrect`, `EditsAreKept`, `FailureRollsBack` | types, `EditsKept`, `RolledBack`, every fault |
| `StartsAlways`, `NothingRemembered`, `SecretsAgree` | `DefaultRegistered`, `Forgotten`, `RconReachable`, every fault |
| `RightsNotWidened` | `NoWidening`; `.env` holds the default server ("nodefault" is no fault) |

The arguments:

- `ManagedInv` (ServerProcess). None of the three properties is inductive alone: that no
  second server is spawned rests on the inspection under the lock, which is right only if
  every server is on record or in the hands of the task that spawned it
  (`EveryServerKnown`), which holds only if no status thread unlinks a newer record
  (`ReaderNotStale`) and stop works on the record itself (`HandleIsRecord`).
  `RecordInv` is the part of it that survives a crash. For the refinement, what the
  inspection finds is the truth (`FoundIsTrue`), so each step changes the abstract state
  as one action of `ServerLifecycle` does (`IsCall` ... `IsAnswer`), or not at all.
- `NamesInv`: a pid and a birth name one process, so a handle that is alive is a server.
- `LockInv`, `ScheduledInv`, `PausedInv` (LocalBackup): who is inside holds the lock;
  hence during a scheduled copy the server is down and nobody may start it; hence between
  save-off and save-on `saving` is false unless the server was started again.
- `SavedInv` (AutoBackup): the file differs from a schedule only while a task persists
  that server, and what is being written differs only where a task has yet to collect.
  `OnceInv`: ticks left of a schedule and ticks since the last archive add up to an
  interval at least, in memory, and in the file but for the archive that is being saved.
  `BackoffInv`: likewise ticks left of the backoff and ticks since the failure.
  `OwedInv`: the file is behind a schedule only where a user has yet to write, or where
  it still owes the backup.
- `Counters` and `Switched` (AutoStop): every step moves the entry and the countdowns
  together. `QuietInv`: with auto-stop off and a countdown under way, the user who
  switched it off is still writing the state file, and will cancel it then. `AgreedInv`: from the answer of `list` on, every
  join is unread, since reading it cancels the countdown.
- `ServerInv` (RemoteAgent): every live server is on record, was never recorded
  (`orphans`), or is in the hands of the agent about to record it; a record of this boot
  names no other program; who holds the file lock and found no server running knows that
  none is, or only unrecorded ones. `CopyInv`: so a scheduled copy that began with the
  server down ends with it down. `SavesInv`: who paused the saves still has its save-on
  ahead, or was killed, or RCON lost a command.
- `ReplayInv` (LogMonitor): what the reader has not read of its file is newer than all it
  delivered, and so is every file that took the place of its own; the reader's identity
  names another file only after a replacement between stat and open.
- `IInv` (Settings). What the configuration promises is not inductive: a rollback
  restores what a program once read, so what it read must have been right too. `Typed`
  and `Jobs` say what a staged plan promises whatever the files hold: its files differ,
  the registry is replaced last, each new content follows from the old one as the wizard
  computes it. `Windows` joins plan and files: until somebody races, a file holds its new
  content up to the counter `done`, its old content after it. `Recalled` ties the histories
  to what they excuse. Then `Starting` and `Forgetting` hold after every replacement, and
  for what a removal under way has read; `Agreeing` and `Granting` may fail only while a
  removal has written some of its files (`Busy`), which nobody else then touches without a
  race (`PutsAlone`); they come back with its last replacement or its last rollback.
  A step is classified first (`Classes`): it leaves the bot's four files alone, enters its
  window, puts one file (`Puts`) or puts one back (`PutsBack`).
  `RightsNotWidened` needs more than the others because without DEFAULT_SERVER_ID the
  editor's default is the first server of the file and the bot's is SERVER_ID: a legacy
  role is migrated to a server it was never valid on (section 5).

Only model-checked: the liveness properties (fairness and ENABLED are out of the prover's
reach).

## 5. What the code does otherwise

Findings, each with a run that shows it:

1. `server_process.py:217`. The server is spawned 0.8 s before its PID record is written.
   A bot that ends in between leaves a server the next bot reports as stopped and starts
   again, although the unit file promises that the manager reconnects.
2. `backup.py:26`. A manual backup of a stopped (or booting) server holds no lock that
   keeps a start out: the archive is torn, although the docstring says "consistent".
3. `auto_backup.py:164`. When the state file cannot be written the backoff is never set,
   and a failed archive is retried every 15 seconds instead of every five minutes.

Weaknesses the models show under faults that no document excludes. Each is the named
property with that fault in the constants of its run:

- stop() answers "killed" and removes the record of a server that outlives SIGKILL
  ("stuck", `ImplementsLifecycle`); the remote agent raises in that place.
- A save-off that was obeyed while its answer was lost leaves the server without saves
  ("answer"): `SavesRestored` has to except `lost`, here and in `RemoteAgent`.
- A bot killed between an archive and its state write makes the archive twice ("crash",
  `OncePerInterval`).
- A failed `list` ends the countdown and arms no other ("rcon", `EmptyIsStopped`); so does
  a status thread that answers "down" late ("slow"). set_timeout(0) that cannot write its
  file leaves the countdown running: `DisabledMeansQuiet` has to except `failed`.
- A server whose agent was killed before the record, or could not write it, is an orphan:
  until its ports open the next start does not see it (`OneServer` excepts `orphans`).
- Without DEFAULT_SERVER_ID the user editor migrates legacy roles to the first server of
  the file (`manage_users.py:412`), while the bot and the removal take SERVER_ID
  (`config.py:90`, `remove_server.py:124`): "nodefault" violates `NoWidening`.
- A status() that is measuring memory answers "running" of a server that was stopped
  meanwhile (`server_process.py:162`): `ServerLifecycle` lets it.
- An agent's answer may be out of date when the bot reads it: the lock is let go
  (`remote_agent.py:69`) before the answer is printed (569).
- A removal that ends between `.env` and `users.json` gives legacy roles to the new
  default server (`torn` in `NoWidening`); so does an outdated default that was read
  before the questions were asked (`unseen`).
- A program compares the files it rewrites, not those it only read: servers, rights and
  automation may be written for a server that was removed meanwhile (`unseen`). A bot
  that runs on writes the automation of a removed server back.
- The remote `server.properties` is rewritten before the local originals are compared
  (`manage_remote_servers.py:184`), and a comparison is not atomic with the writes after
  it, neither here nor in the agent, which replaces the file outside its lock (`race`):
  two wizards that add one installation at once may leave it with a secret that is not
  the one in `.env`. The editor reads `users.json` again after its save and takes what another
  program wrote in between for its own (`manage_users.py:278`).
- `latest.log` replaced between the reader's stat and its open is read twice
  (`again` in `NoReplay`). With `Reuse = TRUE` a new log that gets the inode of the old
  one after such a race is taken for it. What was not read of a log when it was renamed
  is not delivered, and a truncation is not seen when the file has grown past it.

## 6. Abstractions and what is left out

- Text, keyboards, messages, logging, the event history, the content of archives and
  packets.
- ServerProcess: cancellation while a call waits for the lock or in start (auto-stop
  cancels stops only), zombies (they count as not running) and the tolerance of one second
  in create_time. Cancellation while stop's inspection thread runs (line 261) is left out
  too: the lock is given back and the thread goes on without it, as that of a status()
  does. The operating system does not hand out a pid within the stop that works on it.
- LocalBackup: the remote branch of create_backup (the bot's side of `RemoteAgent`) and
  the retention that follows an automatic archive; a killed bot. A manual backup sees a
  booting server as running from its spawn on, the code only once its record is written,
  0.8 s later: before, the code would copy the world without asking for a pause, which is
  the case of finding 2.
- AutoBackup: one interval for all servers, and next_due_at as ticks left, so a clock that
  is set back is outside the model. A status() or run_if_stopped that raises (a remote host
  that cannot be reached) is left out: it ends the check of that server, changes nothing
  and sets no backoff.
- AutoStop: one server; the timeout's length (a countdown may expire at any time); Minecraft
  takes longer to boot than the 0.8 s of start and, unless "slow", than a status thread.
  A status() that raises in a countdown's verification (a remote host that cannot be
  reached) ends it like a failed `list` ("rcon") and is not modelled apart.
  The lines of a server are lost or kept as a whole when the log is replaced.
- RemoteAgent: an answer says up, down or neither; a bot's own lock is the order of its
  calls; the agent of status is one step, as it changes nothing; an agent runs at most
  once per member of `Agents` at a time. The check of restart (line 541) and the one launch
  begins with (144) are one step, `Look`: a restart that finds a server up between them
  answers "already running" in the code and an error in the model. The getpgid check, a
  failing ticks_for, and probe, tail, mods and file browsing are left out.
- Settings: one permission per user, the two automation files as one, an installation and
  its id as one, ports with the RCON secret, no os.environ overrides. The order in which
  terminals are used is fixed, and `MaxOpened` bounds what is started and decided. A
  remote setup is in its window from the agent's comparison on, for all of its files:
  what another program writes to `.env` before the local comparison counts as a race.
- LogMonitor: a line is written at once and lines have the same length; open and
  seek(0, 2) are one step; follow_log (`tail -F` on the host) is outside.

Not modelled:

- Backup retention: one call without state of its own, under both locks of a scheduled
  backup: a sort and a loop, with nothing that interleaves.
- Mod management: single renames and unlinks around chat state the framework keeps.
- Event history and RCON packets: their content feeds back nowhere; what a line means to
  auto-stop is its kind in `AutoStop`.
- Control API, Telegram handlers, keyboards: they call the managers; their calls are the
  actions of the tasks, users and bots of the modules, in every order.

## 7. What could follow

In order of importance:

1. Proofs: whether the agents of `RemoteAgent`, seen through their answers, implement
   `ServerLifecycle` as the local manager does while no agent is killed.
2. The unwritten order between an archive and its state write, should the code ever
   promise that a killed bot does not archive twice.
3. Mods and retention, when they keep state between calls.
