----------------------------- MODULE LocalBackup -----------------------------
(***************************************************************************)
(* services/backup.py for one local server: manual and scheduled backups   *)
(* against starts, stops and the server's own saving.                      *)
(*                                                                         *)
(* Every backup holds the per-server backup lock.  A scheduled one runs    *)
(* inside run_if_stopped, so it holds the manager's lock too, taken first; *)
(* a manual one does not take the manager's lock.  What the manager does   *)
(* under its lock is reduced here to its effect (ServerProcess has the     *)
(* detail): a start finds the server down and boots it, a stop ends it.    *)
(*                                                                         *)
(* torn[t] records what wrote the world since t paused the saves or began  *)
(* to copy: "save" (an autosave), "boot" (a start loads and writes it) or  *)
(* "exit" (a server that ends writes it whatever save-off said).           *)
(***************************************************************************)
EXTENDS Naturals, FiniteSets

CONSTANTS
    Manual,       \* tasks that serve a manual backup
    Scheduled,    \* tasks that make a scheduled backup
    Control,      \* tasks that start and stop the server
    NoTask,       \* the value of a lock nobody holds
    RconFaults    \* what RCON may lose: {"command", "answer"}

ASSUME BackupAssumption ==
    /\ NoTask \notin Manual \cup Scheduled \cup Control
    /\ Manual \cap Scheduled = {} /\ Manual \cap Control = {} /\ Scheduled \cap Control = {}
    /\ RconFaults \subseteq {"command", "answer"}

VARIABLES
    pc,           \* where each task is
    managerLock,  \* ServerProcessManager._lock
    backupLock,   \* _backup_locks[server_id]
    server,       \* "down", "booting" (RCON does not answer yet) or "up"
    saving,       \* the running server saves by itself
    lost,         \* history: RCON lost a save-on, or the answer of a save-off, and no
                  \* save-on has reached this server since
    seen,         \* status() said "running" to this backup
    paused,       \* saves_paused of this backup
    torn,         \* what wrote the world during this backup
    archive       \* the last archive: by whom, with saves paused or not, torn by what

vars == <<pc, managerLock, backupLock, server, saving, lost, seen, paused, torn, archive>>

Backups == Manual \cup Scheduled
Tasks == Backups \cup Control
Writers == {"save", "boot", "exit"}

\* create_backup between taking the backup lock and releasing it.
BackupPcs == {"status", "save_off", "flush", "undo", "copy", "save_on"}

TypeOK ==
    /\ pc \in [Tasks -> BackupPcs \cup {"idle", "queued", "check", "control"}]
    /\ managerLock \in Tasks \cup {NoTask}
    /\ backupLock \in Tasks \cup {NoTask}
    /\ server \in {"down", "booting", "up"}
    /\ saving \in BOOLEAN
    /\ lost \in BOOLEAN
    /\ seen \in [Backups -> BOOLEAN]
    /\ paused \in [Backups -> BOOLEAN]
    /\ torn \in [Backups -> SUBSET Writers]
    /\ archive \in [by : {"nobody", "manual", "auto"}, live : BOOLEAN, torn : SUBSET Writers]

Init ==
    /\ pc = [t \in Tasks |-> "idle"]
    /\ managerLock = NoTask
    /\ backupLock = NoTask
    /\ server \in {"down", "up"}
    /\ saving = TRUE
    /\ lost = FALSE
    /\ seen = [t \in Backups |-> FALSE]
    /\ paused = [t \in Backups |-> FALSE]
    /\ torn = [t \in Backups |-> {}]
    /\ archive = [by |-> "nobody", live |-> FALSE, torn |-> {}]

Goto(t, where) == pc' = [pc EXCEPT ![t] = where]
WorldWritten(how) ==
    torn' = [t \in Backups |->
                IF pc[t] \in {"flush", "copy"} THEN torn[t] \cup {how} ELSE torn[t]]

-----------------------------------------------------------------------------
(* The server and the calls that start and stop it.                          *)

Boots ==
    /\ server = "booting"
    /\ server' = "up"
    /\ UNCHANGED <<pc, managerLock, backupLock, saving, lost, seen, paused, torn, archive>>

Autosaves ==
    /\ server = "up" /\ saving
    /\ WorldWritten("save")
    /\ UNCHANGED <<pc, managerLock, backupLock, server, saving, lost, seen, paused, archive>>

\* /stop in the game, or a crash.
ServerExits ==
    /\ server # "down"
    /\ server' = "down"
    /\ WorldWritten("exit")
    /\ UNCHANGED <<pc, managerLock, backupLock, saving, lost, seen, paused, archive>>

ControlRequest(t) ==
    /\ pc[t] = "idle"
    /\ managerLock = NoTask
    /\ managerLock' = t
    /\ Goto(t, "control")
    /\ UNCHANGED <<backupLock, server, saving, lost, seen, paused, torn, archive>>

\* start() under the lock: a server that is down boots, with saving on.
Start(t) ==
    /\ pc[t] = "control"
    /\ IF server = "down"
       THEN server' = "booting" /\ saving' = TRUE /\ lost' = FALSE /\ WorldWritten("boot")
       ELSE UNCHANGED <<server, saving, lost, torn>>
    /\ managerLock' = NoTask
    /\ Goto(t, "idle")
    /\ UNCHANGED <<backupLock, seen, paused, archive>>

\* stop() under the lock: a server that runs ends, and writes its world.
Stop(t) ==
    /\ pc[t] = "control"
    /\ server # "down"
    /\ server' = "down"
    /\ WorldWritten("exit")
    /\ managerLock' = NoTask
    /\ Goto(t, "idle")
    /\ UNCHANGED <<backupLock, saving, lost, seen, paused, archive>>

-----------------------------------------------------------------------------
(* RCON: rcon(t, ok, failed, on) sends a command that sets saving to `on`    *)
(* and goes on at `ok`, or at `failed` when the answer starts with a cross.  *)

Delivered(t, where, on) ==
    /\ server = "up"
    /\ saving' = on
    /\ Goto(t, where)

Refused(t, where) ==
    /\ server # "up" \/ "command" \in RconFaults
    /\ UNCHANGED saving
    /\ Goto(t, where)

Rcon(t, ok, failed, on) ==
    \/ Delivered(t, ok, on) /\ lost' = (lost /\ ~on)
    \/ Refused(t, failed) /\ lost' = (lost \/ (on /\ server = "up"))
    \/ "answer" \in RconFaults /\ Delivered(t, failed, on) /\ lost' = ~on

-----------------------------------------------------------------------------
(* create_backup                                                             *)

\* Mutant: manual backups are not serialised.
RequestUnserialised(t) ==
    /\ pc[t] = "idle"
    /\ Goto(t, IF t \in Scheduled THEN "check" ELSE "status")
    /\ IF t \in Scheduled THEN managerLock = NoTask /\ managerLock' = t ELSE UNCHANGED managerLock
    /\ UNCHANGED <<backupLock, server, saving, lost, seen, paused, torn, archive>>

\* A manual request goes for the backup lock; a scheduled one takes the manager's
\* lock first (run_if_stopped).
Request(t) ==
    /\ pc[t] = "idle"
    /\ Goto(t, IF t \in Scheduled THEN "check" ELSE "queued")
    /\ IF t \in Scheduled THEN managerLock = NoTask /\ managerLock' = t ELSE UNCHANGED managerLock
    /\ UNCHANGED <<backupLock, server, saving, lost, seen, paused, torn, archive>>

ReleaseManager(t) == managerLock' = IF managerLock = t THEN NoTask ELSE managerLock

\* Mutant: the check under the manager's lock is dropped.
SkipCheck(t) ==
    /\ pc[t] = "check"
    /\ Goto(t, "queued")
    /\ UNCHANGED <<managerLock, backupLock, server, saving, lost, seen, paused, torn, archive>>

\* run_if_stopped: with a running server the backup is left for later.
CheckStopped(t) ==
    /\ pc[t] = "check"
    /\ IF server = "down"
       THEN Goto(t, "queued") /\ UNCHANGED managerLock
       ELSE Goto(t, "idle") /\ ReleaseManager(t)
    /\ UNCHANGED <<backupLock, server, saving, lost, seen, paused, torn, archive>>

TakeBackupLock(t) ==
    /\ pc[t] = "queued"
    /\ backupLock = NoTask
    /\ backupLock' = t
    /\ Goto(t, "status")
    /\ UNCHANGED <<managerLock, server, saving, lost, seen, paused, torn, archive>>

ReleaseBackup(t) == backupLock' = IF backupLock = t THEN NoTask ELSE backupLock

\* Leaving create_backup before anything was paused.
GiveUp(t) ==
    /\ ReleaseBackup(t)
    /\ ReleaseManager(t)
    /\ torn' = [torn EXCEPT ![t] = {}]
    /\ UNCHANGED <<server, seen, paused, archive>>

\* _prepare_live_backup asks status() before it sends anything.
AskStatus(t) ==
    /\ pc[t] = "status"
    /\ seen' = [seen EXCEPT ![t] = server # "down"]
    /\ Goto(t, "save_off")
    /\ UNCHANGED <<managerLock, backupLock, server, saving, lost, paused, torn, archive>>

\* os.makedirs(backup_dir) is outside the `try`: its OSError leaves create_backup.
MakeDirsRaises(t) ==
    /\ pc[t] = "status"
    /\ Goto(t, "idle")
    /\ GiveUp(t)
    /\ UNCHANGED <<saving, lost>>

\* save-off failed: with a server that status() saw this ends the backup; otherwise
\* the server counts as stopped and is copied as it is.
SaveOff(t) ==
    /\ pc[t] = "save_off"
    /\ Rcon(t, "flush", IF seen[t] THEN "idle" ELSE "copy", FALSE)
    /\ IF pc'[t] = "idle" THEN GiveUp(t)
       ELSE UNCHANGED <<managerLock, backupLock, server, seen, paused, torn, archive>>

\* save-all flush leaves saving as it is.
Flush(t) ==
    /\ pc[t] = "flush"
    /\ \/ server = "up" /\ Goto(t, "copy") /\ paused' = [paused EXCEPT ![t] = TRUE]
       \/ /\ server # "up" \/ RconFaults # {}
          /\ Goto(t, "undo")
          /\ UNCHANGED paused
    /\ UNCHANGED <<managerLock, backupLock, server, saving, lost, seen, torn, archive>>

\* Mutant: save-on is repeated until it is acknowledged.
UndoUntilAcknowledged(t) ==
    /\ pc[t] = "undo"
    /\ Rcon(t, "idle", "undo", TRUE)
    /\ IF pc'[t] = "idle" THEN GiveUp(t)
       ELSE UNCHANGED <<managerLock, backupLock, server, seen, paused, torn, archive>>

\* The flush failed: save-on is sent, its answer ignored, and the backup is given up.
Undo(t) ==
    /\ pc[t] = "undo"
    /\ Rcon(t, "idle", "idle", TRUE)
    /\ GiveUp(t)

\* Mutant: a scheduled archive gets a name of its own.
KindNamedApart(t) == IF t \in Scheduled THEN "scheduled" ELSE "manual"

Kind(t) == IF t \in Scheduled THEN "auto" ELSE "manual"

\* Mutant: save-on is sent only after a copy that succeeded.
CopyForgetsFinally(t) ==
    /\ pc[t] = "copy"
    /\ torn' = [torn EXCEPT ![t] = {}]
    /\ \/ /\ archive' = [by |-> Kind(t), live |-> paused[t], torn |-> torn[t]]
          /\ Goto(t, IF paused[t] THEN "save_on" ELSE "idle")
       \/ UNCHANGED archive /\ Goto(t, "idle")
    /\ IF pc'[t] = "idle"
       THEN ReleaseBackup(t) /\ ReleaseManager(t) /\ paused' = [paused EXCEPT ![t] = FALSE]
       ELSE UNCHANGED <<managerLock, backupLock, paused>>
    /\ UNCHANGED <<server, saving, lost, seen>>

\* make_archive ends, with an archive or with an exception; `finally` sends save-on
\* if the saves were paused.
Copy(t) ==
    /\ pc[t] = "copy"
    /\ torn' = [torn EXCEPT ![t] = {}]
    /\ \/ archive' = [by |-> Kind(t), live |-> paused[t], torn |-> torn[t]]
       \/ UNCHANGED archive
    /\ IF paused[t]
       THEN Goto(t, "save_on") /\ UNCHANGED <<managerLock, backupLock>>
       ELSE Goto(t, "idle") /\ ReleaseBackup(t) /\ ReleaseManager(t)
    /\ UNCHANGED <<server, saving, lost, seen, paused>>

\* The `finally` clause: a failed save-on is logged and nothing more.
SaveOn(t) ==
    /\ pc[t] = "save_on"
    /\ Rcon(t, "idle", "idle", TRUE)
    /\ paused' = [paused EXCEPT ![t] = FALSE]
    /\ ReleaseBackup(t)
    /\ ReleaseManager(t)
    /\ UNCHANGED <<server, seen, torn, archive>>

-----------------------------------------------------------------------------
Proceed(t) ==
    \/ CheckStopped(t) \/ TakeBackupLock(t) \/ MakeDirsRaises(t) \/ AskStatus(t) \/ SaveOff(t) \/ Flush(t)
    \/ Undo(t) \/ Copy(t) \/ SaveOn(t)

Next ==
    \/ Boots \/ Autosaves \/ ServerExits
    \/ \E t \in Control : ControlRequest(t) \/ Start(t) \/ Stop(t)
    \/ \E t \in Backups : Request(t) \/ Proceed(t)

Spec == Init /\ [][Next]_vars

\* Tasks that are ready run; asyncio.Lock serves its waiters in the order they came,
\* so one who waits for a lock that is free again and again gets it.
FairSpec ==
    /\ Spec
    /\ \A t \in Control : WF_vars(Start(t))
    /\ \A t \in Backups : WF_vars(Proceed(t)) /\ SF_vars(TakeBackupLock(t))

-----------------------------------------------------------------------------
(* Properties                                                                *)

\* A scheduled archive never holds a world that was written while it was copied,
\* whatever manual backups, starts, stops and RCON do at the same time.
ScheduledArchivesConsistent == archive.by = "auto" => archive.torn = {}

\* An archive of a paused server is torn by a start or a stop at most: between save-off
\* and save-on no autosave reaches the copy, also with another backup of the same
\* world on its way.
NoAutosaveInArchive ==
    archive.live /\ "save" \in archive.torn => "boot" \in archive.torn

\* The docstring of create_backup ("Create a consistent ZIP backup, coordinating with a
\* live server through RCON"), for every archive.
ArchivesConsistent == archive.torn = {}

\* When every backup is over a running server saves its world again, unless RCON lost
\* track of it (README: manual live backups pause saves, flush the world, archive it,
\* then re-enable saves).
SavesRestored ==
    (\A t \in Backups : pc[t] = "idle") => saving \/ server = "down" \/ lost

\* The backup lock and the manager's lock are taken in one order: every backup ends.
BackupsEnd == \A t \in Backups : pc[t] # "idle" ~> pc[t] = "idle"
=============================================================================
