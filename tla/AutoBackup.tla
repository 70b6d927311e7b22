------------------------------ MODULE AutoBackup ------------------------------
(***************************************************************************)
(* services/auto_backup.py: the schedules in memory, the state file, the   *)
(* scheduler task that goes round the servers, the users who change an     *)
(* interval, and restarts of the bot.                                      *)
(*                                                                         *)
(* A schedule is [due, pending]: `due` is how many ticks are left until    *)
(* next_due_at (0: it has passed), in memory and on disk alike, so a tick  *)
(* of the clock counts both down.  _retry_not_before is kept the same way. *)
(* The archive itself (LocalBackup) is its outcome here: made, reported as *)
(* failed, or an exception.  A task holds the lock of the server it works  *)
(* on while it is Busy, and the write lock while it is "writing".          *)
(*                                                                         *)
(* Faults: "restart" the bot is shut down and started; "crash" it ends at  *)
(* any point; "disk" writing the state file raises; "raise" the archive    *)
(* raises instead of reporting.                                            *)
(***************************************************************************)
EXTENDS Naturals

CONSTANTS
    Servers,     \* the ids of the servers
    Users,       \* tasks that call set_interval
    Scheduler,   \* the task that runs _run
    NoSchedule,  \* automatic backups are off
    Interval,    \* interval_seconds, in ticks
    Retry,       \* RETRY_INTERVAL_SECONDS, in ticks
    Faults

ASSUME AutoBackupAssumption ==
    /\ Scheduler \notin Users
    /\ Interval \in Nat \ {0}
    /\ Retry \in 1..Interval     \* 5 minutes against 6 hours or more
    /\ Faults \subseteq {"restart", "crash", "disk", "raise"}

Tasks == Users \cup {Scheduler}
Schedule == [due : 0..Interval, pending : BOOLEAN]
ASSUME NoScheduleAssumption == NoSchedule \notin Schedule

VARIABLES
    pc,          \* where each task is
    on,          \* the server it works on, or worked on last
    todo,        \* the servers left in this round of _run
    stopping,    \* _stop_requested
    backoff,     \* the scheduler persists after a failed archive
    payload,     \* what a task that writes the state file has collected
    schedules,   \* _schedules
    retry,       \* _retry_not_before: ticks left
    disk,        \* the state file
    up,          \* the servers that run
    sinceFailed, \* history: ticks since an archive failed in this run of the bot
                 \* (Retry: long ago, or never)
    sinceMade    \* history: ticks since the last archive was made (Interval: long ago)

vars == <<pc, on, todo, stopping, backoff, payload, schedules, retry, disk, up,
          sinceFailed, sinceMade>>
history == <<sinceFailed, sinceMade>>

Table == [Servers -> Schedule \cup {NoSchedule}]
PersistPcs == {"persist", "writing"}
BusyPcs == PersistPcs \cup {"status", "enter", "archive"}

TypeOK ==
    /\ pc \in [Tasks -> BusyPcs \cup {"idle", "next", "ended"}]
    /\ on \in [Tasks -> Servers]
    /\ todo \subseteq Servers
    /\ stopping \in BOOLEAN
    /\ backoff \in BOOLEAN
    /\ payload \in [Tasks -> Table]
    /\ schedules \in Table
    /\ retry \in [Servers -> 0..Retry]
    /\ disk \in Table
    /\ up \subseteq Servers
    /\ sinceFailed \in [Servers -> 0..Retry]
    /\ sinceMade \in [Servers -> 0..Interval]

NoSchedules == [s \in Servers |-> NoSchedule]

Init ==
    /\ pc = [t \in Tasks |-> "idle"]
    /\ \E s \in Servers : on = [t \in Tasks |-> s]
    /\ todo = {}
    /\ stopping = FALSE
    /\ backoff = FALSE
    /\ payload = [t \in Tasks |-> NoSchedules]
    /\ schedules = NoSchedules
    /\ retry = [s \in Servers |-> 0]
    /\ disk = NoSchedules
    /\ up \in SUBSET Servers
    /\ sinceFailed = [s \in Servers |-> Retry]
    /\ sinceMade = [s \in Servers |-> Interval]

Goto(t, where) == pc' = [pc EXCEPT ![t] = where]
Locked(s) == \E t \in Tasks : pc[t] \in BusyPcs /\ on[t] = s
Owed(schedule) == schedule # NoSchedule /\ (schedule.pending \/ schedule.due = 0)

-----------------------------------------------------------------------------
(* Time and the servers.                                                     *)

Less(n) == IF n = 0 THEN 0 ELSE n - 1
More(n, limit) == IF n = limit THEN limit ELSE n + 1
Sooner(table) ==
    [s \in Servers |-> IF table[s] = NoSchedule THEN NoSchedule
                       ELSE [table[s] EXCEPT !.due = Less(@)]]

Tick ==
    /\ schedules' = Sooner(schedules)
    /\ disk' = Sooner(disk)
    /\ payload' = [t \in Tasks |-> Sooner(payload[t])]
    /\ retry' = [s \in Servers |-> Less(retry[s])]
    /\ sinceFailed' = [s \in Servers |-> More(sinceFailed[s], Retry)]
    /\ sinceMade' = [s \in Servers |-> More(sinceMade[s], Interval)]
    /\ UNCHANGED <<pc, on, todo, stopping, backoff, up>>

\* run_if_stopped keeps the manager's lock: no start while the archive is made.
ServerStarts(s) ==
    /\ s \notin up
    /\ ~(pc[Scheduler] = "archive" /\ on[Scheduler] = s)
    /\ up' = up \cup {s}
    /\ UNCHANGED <<pc, on, todo, stopping, backoff, payload, schedules, retry, disk, history>>

ServerStops(s) ==
    /\ s \in up
    /\ up' = up \ {s}
    /\ UNCHANGED <<pc, on, todo, stopping, backoff, payload, schedules, retry, disk, history>>

-----------------------------------------------------------------------------
(* _persist                                                                  *)

\* Mutant: the state file is written without the write lock.
CollectUnlocked(t) ==
    /\ pc[t] = "persist"
    /\ payload' = [payload EXCEPT ![t] = schedules]
    /\ Goto(t, "writing")
    /\ UNCHANGED <<on, todo, stopping, backoff, schedules, retry, disk, up, history>>

\* All schedules are collected under the write lock.
Collect(t) ==
    /\ pc[t] = "persist"
    /\ \A u \in Tasks : pc[u] # "writing"
    /\ payload' = [payload EXCEPT ![t] = schedules]
    /\ Goto(t, "writing")
    /\ UNCHANGED <<on, todo, stopping, backoff, schedules, retry, disk, up, history>>

\* The caller of _persist leaves: it had no more to do under the server's lock.
Leave(t) ==
    /\ Goto(t, IF t = Scheduler THEN "next" ELSE "idle")
    /\ payload' = [payload EXCEPT ![t] = NoSchedules]
    /\ backoff' = IF t = Scheduler THEN FALSE ELSE backoff
    /\ UNCHANGED <<on, todo, stopping, schedules, up, history>>

\* A failed archive sets its backoff once the state file is written.
StateWritten(t) ==
    /\ pc[t] = "writing"
    /\ disk' = payload[t]
    /\ retry' = IF t = Scheduler /\ backoff THEN [retry EXCEPT ![on[t]] = Retry] ELSE retry
    /\ Leave(t)

\* _write_state_sync raises: the caller is left at once, the old file stays.
WriteRaises(t) ==
    /\ "disk" \in Faults
    /\ pc[t] = "writing"
    /\ Leave(t)
    /\ UNCHANGED <<disk, retry>>

-----------------------------------------------------------------------------
(* set_interval                                                              *)

\* Mutant: the first backup is due one tick after the interval.
SetIntervalLate(u, s, enable) ==
    /\ pc[u] = "idle"
    /\ ~Locked(s)
    /\ on' = [on EXCEPT ![u] = s]
    /\ schedules' = [schedules EXCEPT ![s] =
                        IF enable THEN [due |-> Interval + 1, pending |-> FALSE] ELSE NoSchedule]
    /\ retry' = [retry EXCEPT ![s] = 0]
    /\ Goto(u, "persist")
    /\ UNCHANGED <<todo, stopping, backoff, payload, disk, up, history>>

\* Under the server's lock a new schedule replaces the old one, with no backoff.
SetInterval(u, s, enable) ==
    /\ pc[u] = "idle"
    /\ ~Locked(s)
    /\ on' = [on EXCEPT ![u] = s]
    /\ schedules' = [schedules EXCEPT ![s] =
                        IF enable THEN [due |-> Interval, pending |-> FALSE] ELSE NoSchedule]
    /\ retry' = [retry EXCEPT ![s] = 0]
    /\ Goto(u, "persist")
    /\ UNCHANGED <<todo, stopping, backoff, payload, disk, up, history>>

-----------------------------------------------------------------------------
(* _run and check_server                                                     *)

\* The first round, or the end of the 15 s wait.
Round ==
    /\ pc[Scheduler] = "idle"
    /\ Goto(Scheduler, IF stopping THEN "ended" ELSE "next")
    /\ todo' = IF stopping THEN {} ELSE Servers
    /\ UNCHANGED <<on, stopping, backoff, payload, schedules, retry, disk, up, history>>

RoundEnds ==
    /\ pc[Scheduler] = "next"
    /\ todo = {}
    /\ Goto(Scheduler, "idle")
    /\ UNCHANGED <<on, todo, stopping, backoff, payload, schedules, retry, disk, up, history>>

\* Mutant: the backoff is not looked at.
CheckServerNow(s) ==
    /\ pc[Scheduler] = "next"
    /\ s \in todo
    /\ ~Locked(s)
    /\ todo' = todo \ {s}
    /\ on' = [on EXCEPT ![Scheduler] = s]
    /\ Goto(Scheduler, IF Owed(schedules[s]) THEN "status" ELSE "next")
    /\ UNCHANGED <<stopping, backoff, payload, schedules, retry, disk, up, history>>

CheckServer(s) ==
    /\ pc[Scheduler] = "next"
    /\ s \in todo
    /\ ~Locked(s)
    /\ todo' = todo \ {s}
    /\ on' = [on EXCEPT ![Scheduler] = s]
    /\ Goto(Scheduler, IF Owed(schedules[s]) /\ retry[s] = 0 THEN "status" ELSE "next")
    /\ UNCHANGED <<stopping, backoff, payload, schedules, retry, disk, up, history>>

\* The schedule of the server the scheduler works on.
SetSchedule(due, pending) ==
    schedules' = [schedules EXCEPT ![on[Scheduler]] = [due |-> due, pending |-> pending]]
Current == schedules[on[Scheduler]]

\* status(), or run_if_stopped under the manager's lock, sees a running server: the
\* backup is owed from now on.
FindsRunning ==
    /\ pc[Scheduler] \in {"status", "enter"}
    /\ on[Scheduler] \in up
    /\ SetSchedule(Current.due, TRUE)
    /\ Goto(Scheduler, IF Current.pending THEN "next" ELSE "persist")
    /\ UNCHANGED <<on, todo, stopping, backoff, payload, retry, disk, up, history>>

FindsStopped ==
    /\ pc[Scheduler] \in {"status", "enter"}
    /\ on[Scheduler] \notin up
    /\ Goto(Scheduler, IF pc[Scheduler] = "status" THEN "enter" ELSE "archive")
    /\ UNCHANGED <<on, todo, stopping, backoff, payload, schedules, retry, disk, up, history>>

Made == sinceMade' = [sinceMade EXCEPT ![on[Scheduler]] = 0] /\ UNCHANGED sinceFailed
Failed == sinceFailed' = [sinceFailed EXCEPT ![on[Scheduler]] = 0] /\ UNCHANGED sinceMade

\* Mutant: the next backup is due one interval after the last one was due.
ArchivedKeepsClock ==
    /\ pc[Scheduler] = "archive"
    /\ SetSchedule(Current.due, FALSE)
    /\ retry' = [retry EXCEPT ![on[Scheduler]] = 0]
    /\ Goto(Scheduler, "persist")
    /\ Made
    /\ UNCHANGED <<on, todo, stopping, backoff, payload, disk, up>>

\* The clock restarts when the archive is made.
Archived ==
    /\ pc[Scheduler] = "archive"
    /\ SetSchedule(Interval, FALSE)
    /\ retry' = [retry EXCEPT ![on[Scheduler]] = 0]
    /\ Goto(Scheduler, "persist")
    /\ Made
    /\ UNCHANGED <<on, todo, stopping, backoff, payload, disk, up>>

\* Mutant: an archive that failed restarts the clock.
ArchiveFailsAsMade ==
    /\ pc[Scheduler] = "archive"
    /\ SetSchedule(Interval, FALSE)
    /\ backoff' = TRUE
    /\ Goto(Scheduler, "persist")
    /\ Failed
    /\ UNCHANGED <<on, todo, stopping, payload, retry, disk, up>>

ArchiveFails ==
    /\ pc[Scheduler] = "archive"
    /\ SetSchedule(Current.due, TRUE)
    /\ backoff' = TRUE
    /\ Goto(Scheduler, "persist")
    /\ Failed
    /\ UNCHANGED <<on, todo, stopping, payload, retry, disk, up>>

\* Mutant: the exception ends the scheduler task.
RaiseEndsScheduler ==
    /\ "raise" \in Faults
    /\ pc[Scheduler] = "archive"
    /\ Goto(Scheduler, "ended")
    /\ Failed
    /\ UNCHANGED <<on, todo, stopping, backoff, payload, schedules, retry, disk, up>>

\* create_backup raises: check_server is left as it is, _run goes on.
ArchiveRaises ==
    /\ "raise" \in Faults
    /\ pc[Scheduler] = "archive"
    /\ Goto(Scheduler, "next")
    /\ Failed
    /\ UNCHANGED <<on, todo, stopping, backoff, payload, schedules, retry, disk, up>>

-----------------------------------------------------------------------------
(* shutdown, and the bot's next start.                                       *)

Shutdown ==
    /\ "restart" \in Faults
    /\ ~stopping
    /\ stopping' = TRUE
    /\ UNCHANGED <<pc, on, todo, backoff, payload, schedules, retry, disk, up, history>>

\* shutdown() waits for the scheduler, so that no archive is cut off.
MayEnd == (stopping /\ pc[Scheduler] = "ended") \/ "crash" \in Faults

\* The process ends and a new one loads the state file.
Restart ==
    /\ MayEnd
    /\ pc' = [t \in Tasks |-> "idle"]
    /\ todo' = {}
    /\ stopping' = FALSE
    /\ backoff' = FALSE
    /\ payload' = [t \in Tasks |-> NoSchedules]
    /\ schedules' = disk
    /\ retry' = [s \in Servers |-> 0]
    /\ sinceFailed' = [s \in Servers |-> Retry]
    /\ UNCHANGED <<on, disk, up, sinceMade>>

Persist(t) == Collect(t) \/ StateWritten(t) \/ WriteRaises(t)
Schedules ==
    \/ Round \/ RoundEnds \/ \E s \in Servers : CheckServer(s)
    \/ FindsRunning \/ FindsStopped \/ Archived \/ ArchiveFails \/ ArchiveRaises

Next ==
    \/ Tick
    \/ \E s \in Servers : ServerStarts(s) \/ ServerStops(s)
    \/ \E t \in Tasks : Persist(t)
    \/ \E u \in Users, s \in Servers, enable \in BOOLEAN : SetInterval(u, s, enable)
    \/ Schedules
    \/ Shutdown \/ Restart

Spec == Init /\ [][Next]_vars

\* Time passes, ready tasks run, archives and writes end; the asyncio locks serve
\* whoever waits.
FairSpec ==
    /\ Spec
    /\ WF_vars(Tick)
    /\ \A t \in Tasks : WF_vars(Persist(t)) /\ SF_vars(Collect(t))
    /\ WF_vars(Schedules)
    /\ \A s \in Servers : SF_vars(CheckServer(s))

-----------------------------------------------------------------------------
(* Properties                                                                *)

\* Nothing is lost on a restart: the state file has the schedule of every server whose
\* lock is free, however the writes of several tasks overlap (README: "Schedules and
\* pending backups survive bot restarts").
SavedWhenUnlocked == \A s \in Servers : ~Locked(s) => disk[s] = schedules[s]

\* A backup that is owed stays owed until it is made or a user changes the interval,
\* through failed archives, runs of the server and restarts of the bot.
ChangedByUser(s) == \E u \in Users : on[u] = s /\ pc[u] \in PersistPcs
OwedUntilMade ==
    [][\A s \in Servers :
          Owed(schedules[s]) /\ ~Owed(schedules'[s])
          => (sinceMade'[s] = 0 \/ ChangedByUser(s) \/ ChangedByUser(s)')]_vars

\* Missed intervals collapse into one backup: after one is made, none is begun for a
\* whole interval.  A shutdown waits for the state write; a bot that ends before it, or a
\* write that raises before a restart, makes the backup again.
ArchiveBegins == pc[Scheduler] # "archive" /\ pc'[Scheduler] = "archive"
OncePerInterval ==
    [][ArchiveBegins => sinceMade[on[Scheduler]] = Interval]_vars

\* README: "Failed archives are retried no more often than every five minutes", as
\* long as the bot runs: it keeps the backoff in memory.
RetryBackoff ==
    [][ArchiveBegins => sinceFailed[on[Scheduler]] = Retry]_vars

\* A backup that stays owed while the server stays down is attempted again and again,
\* whatever happens to the other servers' archives.
OwedIsAttempted ==
    \A s \in Servers :
        []<>(\/ ~Owed(schedules[s]) \/ s \in up
             \/ pc[Scheduler] = "archive" /\ on[Scheduler] = s)
=============================================================================
