---------------------------- MODULE ServerProcess ----------------------------
(***************************************************************************)
(* services/server_process.py: one ServerProcessManager, the asyncio tasks *)
(* of the bot that call it, the operating system's process table and the   *)
(* PID record that outlives the bot.                                       *)
(*                                                                         *)
(* start, stop, restart and run_if_stopped hold the manager's asyncio.Lock *)
(* (FIFO); status takes no lock and inspects the PID record in a worker    *)
(* thread.  A step of a task ends where the code awaits.  A process is     *)
(* known by its pid and by the moment it was born (psutil's create_time):  *)
(* the operating system may hand a pid out again, never the same birth.    *)
(*                                                                         *)
(* Faults names what may go wrong beyond a server that exits by itself:    *)
(*   "crash"  the bot's process ends at any point and is started again     *)
(*   "disk"   writing the PID record raises                                *)
(*   "stuck"  a server survives SIGKILL for longer than the 5 s wait       *)
(*   "slow"   a status thread may pause for longer than the 0.8 s of start *)
(*   "cancel" the task that awaits stop() is cancelled (auto_stop does so) *)
(***************************************************************************)
EXTENDS Naturals, Sequences

CONSTANTS
    Tasks,       \* the asyncio tasks that call the manager
    NoTask,      \* the value of lock while nobody holds it
    Pids,        \* the pids the operating system hands out
    NoPid,       \* the pid of "no record"
    MaxBirths,   \* bound: how many processes are ever born
    Faults       \* the faults of this instance (see above)

ASSUME ConstantsAssumption ==
    /\ NoTask \notin Tasks
    /\ NoPid \notin Pids
    /\ MaxBirths \in Nat
    /\ Faults \subseteq {"crash", "disk", "stuck", "slow", "cancel"}

VARIABLES
    pc,       \* where each task is
    op,       \* the operation it performs
    answer,   \* what the last operation returned or raised
    handle,   \* the record a task has read, or the child it has spawned
    lock,     \* the task that holds self._lock
    queue,    \* the tasks waiting for self._lock, in the order they came
    slot,     \* what the operating system runs under each pid
    record,   \* the PID record on disk
    births    \* how many processes were born so far

vars == <<pc, op, answer, handle, lock, queue, slot, record, births>>

LockedOps == {"start", "stop", "restart", "offline"}
Ops == LockedOps \cup {"status"}

\* The points of the code between taking self._lock and releasing it.
LockedPcs == {"read", "examine", "spawn", "settle", "write", "rcon", "wait_rcon",
              "term", "wait_term", "kill", "wait_kill", "offline"}
Pcs == LockedPcs \cup {"idle", "queued", "pause", "peek", "peeked", "measure"}

Answers == {"none", "started", "already_running", "error", "stopped",
            "already_stopped", "killed", "cancelled", "skipped", "done",
            "running", "not_running"}

NoRecord == [pid |-> NoPid, born |-> 0]
Identity == [pid : Pids, born : 1..MaxBirths] \cup {NoRecord}
Free == [kind |-> "free", born |-> 0]
Occupants == [kind : {"free", "server", "other"}, born : 0..MaxBirths]

TypeOK ==
    /\ pc \in [Tasks -> Pcs]
    /\ op \in [Tasks -> Ops]
    /\ answer \in [Tasks -> Answers]
    /\ handle \in [Tasks -> Identity]
    /\ lock \in Tasks \cup {NoTask}
    /\ queue \in Seq(Tasks)
    /\ slot \in [Pids -> Occupants]
    /\ record \in Identity
    /\ births \in 0..MaxBirths

Init ==
    /\ pc = [t \in Tasks |-> "idle"]
    /\ op = [t \in Tasks |-> "status"]
    /\ answer = [t \in Tasks |-> "none"]
    /\ handle = [t \in Tasks |-> NoRecord]
    /\ lock = NoTask
    /\ queue = <<>>
    /\ slot = [p \in Pids |-> Free]
    /\ record = NoRecord
    /\ births = 0

-----------------------------------------------------------------------------
(* The process table.                                                       *)

Servers == {p \in Pids : slot[p].kind = "server"}
IdentityOf(p) == [pid |-> p, born |-> slot[p].born]

\* Mutant: the record's create_time is not compared.
IgnoresCreateTime(h) == h # NoRecord /\ slot[h.pid].kind # "free"

\* _get_managed_process accepts a record when its pid runs and was born when the
\* record says; a zombie or another birth is "not running".
Alive(h) == h # NoRecord /\ slot[h.pid].kind # "free" /\ slot[h.pid].born = h.born

\* A server ends by itself: a crash, /stop in the game, or a signal it obeys.
ServerExits(p) ==
    /\ slot[p].kind = "server"
    /\ slot' = [slot EXCEPT ![p] = Free]
    /\ UNCHANGED <<pc, op, answer, handle, lock, queue, record, births>>

\* Another program takes the pid.  The operating system does not hand out the pid
\* a stop() is working on within that stop: pids wrap around in hours, not seconds.
OtherProgram(p) ==
    /\ slot[p].kind = "free"
    /\ births < MaxBirths
    /\ \A t \in Tasks : pc[t] \in LockedPcs => handle[t].pid # p
    /\ slot' = [slot EXCEPT ![p] = [kind |-> "other", born |-> births + 1]]
    /\ births' = births + 1
    /\ UNCHANGED <<pc, op, answer, handle, lock, queue, record>>

OtherExits(p) ==
    /\ slot[p].kind = "other"
    /\ slot' = [slot EXCEPT ![p] = Free]
    /\ UNCHANGED <<pc, op, answer, handle, lock, queue, record, births>>

-----------------------------------------------------------------------------
(* Calls, the lock, and the end of a call.                                  *)

Goto(t, where) == pc' = [pc EXCEPT ![t] = where]

\* The operation ends; `async with` releases the lock.  The stop half of a
\* restart() is followed by its pause, unless it raised.
Return(t, result) ==
    /\ answer' = [answer EXCEPT ![t] = result]
    /\ lock' = IF lock = t THEN NoTask ELSE lock
    /\ handle' = [handle EXCEPT ![t] = NoRecord]
    /\ Goto(t, IF op[t] = "restart" /\ result # "cancelled" THEN "pause" ELSE "idle")
    /\ UNCHANGED <<op, queue>>

\* Mutant: the lock serves the last comer first.
RequestLockedLifo(t, o) ==
    /\ pc[t] = "idle"
    /\ op' = [op EXCEPT ![t] = o]
    /\ answer' = [answer EXCEPT ![t] = "none"]
    /\ queue' = <<t>> \o queue
    /\ Goto(t, "queued")
    /\ UNCHANGED <<handle, lock, slot, record, births>>

RequestLocked(t, o) ==
    /\ pc[t] = "idle"
    /\ op' = [op EXCEPT ![t] = o]
    /\ answer' = [answer EXCEPT ![t] = "none"]
    /\ queue' = Append(queue, t)
    /\ Goto(t, "queued")
    /\ UNCHANGED <<handle, lock, slot, record, births>>

RequestStatus(t) ==
    /\ pc[t] = "idle"
    /\ op' = [op EXCEPT ![t] = "status"]
    /\ answer' = [answer EXCEPT ![t] = "none"]
    /\ Goto(t, "peek")
    /\ UNCHANGED <<handle, lock, queue, slot, record, births>>

\* asyncio.Lock wakes its waiters in the order they came.
Acquire(t) ==
    /\ pc[t] = "queued"
    /\ lock = NoTask
    /\ queue # <<>> /\ Head(queue) = t
    /\ lock' = t
    /\ queue' = Tail(queue)
    /\ Goto(t, "read")
    /\ UNCHANGED <<op, answer, handle, slot, record, births>>

\* Mutant: restart() starts without taking the lock again.
RestartUnlocked(t) ==
    /\ pc[t] = "pause"
    /\ op' = [op EXCEPT ![t] = "start"]
    /\ Goto(t, "spawn")
    /\ UNCHANGED <<answer, handle, lock, queue, slot, record, births>>

\* restart(): stop, sleep 1 s without the lock, then queue for start.
AfterPause(t) ==
    /\ pc[t] = "pause"
    /\ op' = [op EXCEPT ![t] = "start"]
    /\ answer' = [answer EXCEPT ![t] = "none"]
    /\ queue' = Append(queue, t)
    /\ Goto(t, "queued")
    /\ UNCHANGED <<handle, lock, slot, record, births>>

-----------------------------------------------------------------------------
(* _get_managed_process: the record is read, then examined, and unlinked     *)
(* when what was read does not run.                                          *)

ReadPidRecord(t) ==
    /\ pc[t] \in {"read", "peek"}
    /\ handle' = [handle EXCEPT ![t] = record]
    /\ Goto(t, IF pc[t] = "read" THEN "examine" ELSE "peeked")
    /\ UNCHANGED <<op, answer, lock, queue, slot, record, births>>

\* Mutant: the inspection always consumes the record.
UnlinkAlways(h) == record' = NoRecord

UnlinkUnlessAlive(h) ==
    record' = IF h = NoRecord \/ Alive(h) THEN record ELSE NoRecord

\* status(): the inspection, without the lock.
StatusInspects(t) ==
    /\ pc[t] = "peeked"
    /\ UnlinkUnlessAlive(handle[t])
    /\ IF Alive(handle[t])
       THEN Goto(t, "measure") /\ UNCHANGED <<op, answer, handle, lock, queue>>
       ELSE Return(t, "not_running")
    /\ UNCHANGED <<slot, births>>

\* A second thread adds uptime and memory.  A server that ended meanwhile is still
\* called running (psutil remembers create_time, memory errors are swallowed), unless
\* psutil raises.
StatusAnswers(t) ==
    /\ pc[t] = "measure"
    /\ \/ Return(t, "running")
       \/ ~Alive(handle[t]) /\ Return(t, "not_running")
    /\ UNCHANGED <<slot, record, births>>

\* start, stop and run_if_stopped branch on the inspection.
FoundRunning(t) ==
    /\ pc[t] = "examine"
    /\ Alive(handle[t])
    /\ \/ op[t] = "start" /\ Return(t, "already_running")
       \/ op[t] = "offline" /\ Return(t, "skipped")
       \/ /\ op[t] \in {"stop", "restart"}
          /\ Goto(t, "rcon")
          /\ UNCHANGED <<op, answer, handle, lock, queue>>
    /\ UNCHANGED <<slot, record, births>>

FoundStopped(t) ==
    /\ pc[t] = "examine"
    /\ ~Alive(handle[t])
    /\ UnlinkUnlessAlive(handle[t])
    /\ \/ op[t] \in {"stop", "restart"} /\ Return(t, "already_stopped")
       \/ /\ op[t] \in {"start", "offline"}
          /\ Goto(t, IF op[t] = "start" THEN "spawn" ELSE "offline")
          /\ handle' = [handle EXCEPT ![t] = NoRecord]
          /\ UNCHANGED <<op, answer, lock, queue>>
    /\ UNCHANGED <<slot, births>>

-----------------------------------------------------------------------------
(* start                                                                     *)

\* No server_dir, no start script, no such program: raised before the child exists.
SpawnRaises(t) ==
    /\ pc[t] = "spawn"
    /\ Return(t, "error")
    /\ UNCHANGED <<slot, record, births>>

Spawn(t, p) ==
    /\ pc[t] = "spawn"
    /\ slot[p].kind = "free"
    /\ births < MaxBirths
    /\ slot' = [slot EXCEPT ![p] = [kind |-> "server", born |-> births + 1]]
    /\ handle' = [handle EXCEPT ![t] = [pid |-> p, born |-> births + 1]]
    /\ births' = births + 1
    /\ Goto(t, "settle")
    /\ UNCHANGED <<op, answer, lock, queue, record>>

\* After 0.8 s the child is polled: an immediate exit is an error.
Settle(t) ==
    /\ pc[t] = "settle"
    /\ IF Alive(handle[t])
       THEN Goto(t, "write") /\ UNCHANGED <<op, answer, handle, lock, queue>>
       ELSE Return(t, "error")
    /\ UNCHANGED <<slot, record, births>>

\* Mutant: start() writes at once, without the 0.8 s.
NoSettleWait == TRUE

\* A status thread unlinks within 0.8 s of reading, unless "slow".
NoStaleReader ==
    "slow" \in Faults \/ \A s \in Tasks : pc[s] = "peeked" => handle[s] \in {NoRecord, record}

\* Mutant: the record lacks the create_time.
WritePidOnly(t) ==
    /\ pc[t] = "write"
    /\ record' = [pid |-> handle[t].pid, born |-> 0]
    /\ Return(t, "started")
    /\ UNCHANGED <<slot, births>>

WritePidRecord(t) ==
    /\ pc[t] = "write"
    /\ NoStaleReader
    /\ record' = handle[t]
    /\ Return(t, "started")
    /\ UNCHANGED <<slot, births>>

\* The temporary file or os.replace raises; the child is already there.
WriteRaises(t) ==
    /\ "disk" \in Faults
    /\ pc[t] = "write"
    /\ Return(t, "error")
    /\ UNCHANGED <<slot, record, births>>

-----------------------------------------------------------------------------
(* stop: RCON, then SIGTERM, then SIGKILL, each with its wait.               *)

\* An answer that leaves delivery uncertain is waited for like a delivered one.
RconStop(t) ==
    /\ pc[t] = "rcon"
    /\ \E delivery \in {"delivered", "uncertain", "refused"} :
          Goto(t, IF delivery = "refused" THEN "term" ELSE "wait_rcon")
    /\ UNCHANGED <<op, answer, handle, lock, queue, slot, record, births>>

\* _wait_stopped after RCON and after SIGTERM: the exit is seen, or the wait ends.
WaitStopped(t) ==
    /\ pc[t] \in {"wait_rcon", "wait_term"}
    /\ IF Alive(handle[t])
       THEN /\ Goto(t, IF pc[t] = "wait_rcon" THEN "term" ELSE "kill")
            /\ UNCHANGED <<op, answer, handle, lock, queue, record>>
       ELSE record' = NoRecord /\ Return(t, "stopped")
    /\ UNCHANGED <<slot, births>>

\* Mutant: SIGTERM is sent a second time instead of SIGKILL.
SigtermTwice(t) ==
    /\ pc[t] \in {"term", "kill"}
    /\ Goto(t, IF pc[t] = "term" THEN "wait_term" ELSE "wait_kill")
    /\ UNCHANGED <<op, answer, handle, lock, queue, slot, record, births>>

\* SIGTERM asks (ServerExits answers); SIGKILL ends the process, unless "stuck".
TerminateProcessGroup(t) ==
    /\ pc[t] \in {"term", "kill"}
    /\ Goto(t, IF pc[t] = "term" THEN "wait_term" ELSE "wait_kill")
    /\ \/ /\ pc[t] = "kill"
          /\ slot' = [slot EXCEPT ![handle[t].pid] = Free]
       \/ /\ pc[t] = "term" \/ "stuck" \in Faults
          /\ UNCHANGED slot
    /\ UNCHANGED <<op, answer, handle, lock, queue, record, births>>

\* The result of the last wait is not looked at.
Killed(t) ==
    /\ pc[t] = "wait_kill"
    /\ record' = NoRecord
    /\ Return(t, "killed")
    /\ UNCHANGED <<slot, births>>

StopPcs == {"rcon", "wait_rcon", "term", "wait_term", "kill", "wait_kill"}

\* CancelledError at an await of stop(): `async with` releases the lock.
StopCancelled(t) ==
    /\ "cancel" \in Faults
    /\ pc[t] \in StopPcs
    /\ Return(t, "cancelled")
    /\ UNCHANGED <<slot, record, births>>

\* run_if_stopped: the action ends and the lock is released.
OfflineDone(t) ==
    /\ pc[t] = "offline"
    /\ Return(t, "done")
    /\ UNCHANGED <<slot, record, births>>

-----------------------------------------------------------------------------
\* The bot ends and is started again: its tasks and its lock are gone, the
\* servers (KillMode=process) and the PID record stay.
BotRestarts ==
    /\ "crash" \in Faults
    /\ pc' = [t \in Tasks |-> "idle"]
    /\ op' = [t \in Tasks |-> "status"]
    /\ answer' = [t \in Tasks |-> "none"]
    /\ handle' = [t \in Tasks |-> NoRecord]
    /\ lock' = NoTask
    /\ queue' = <<>>
    /\ UNCHANGED <<slot, record, births>>

\* What a task does by itself, once it was called.
Advance(t) ==
    \/ Acquire(t) \/ AfterPause(t)
    \/ ReadPidRecord(t) \/ StatusInspects(t) \/ StatusAnswers(t)
    \/ FoundRunning(t) \/ FoundStopped(t)
    \/ SpawnRaises(t) \/ (\E p \in Pids : Spawn(t, p)) \/ Settle(t)
    \/ WritePidRecord(t) \/ WriteRaises(t)
    \/ RconStop(t) \/ WaitStopped(t) \/ TerminateProcessGroup(t) \/ Killed(t)
    \/ OfflineDone(t)

Next ==
    \/ \E t \in Tasks : \/ \E o \in LockedOps : RequestLocked(t, o)
                        \/ RequestStatus(t)
                        \/ Advance(t)
                        \/ StopCancelled(t)
    \/ \E p \in Pids : ServerExits(p) \/ OtherProgram(p) \/ OtherExits(p)
    \/ BotRestarts

Spec == Init /\ [][Next]_vars

\* The event loop runs every task that is ready, and every wait has a timeout.
FairSpec == Spec /\ \A t \in Tasks : WF_vars(Advance(t))

-----------------------------------------------------------------------------
(* Properties                                                                *)

\* No two tasks are at once between the check of the record and what they do about
\* it: run_if_stopped, start and stop exclude one another (`async with self._lock`).
LockExcludes ==
    \A t \in Tasks : pc[t] \in LockedPcs <=> lock = t

\* Two calls, however they interleave with status(), exits and other programs,
\* never leave two servers running on one world.
OneServer == \A p, q \in Servers : p = q

\* Whenever the lock is free, a running server is the one the PID record names, so
\* that the next call finds it (README: "PID + process creation time").
RunningIsManaged ==
    lock = NoTask => \A p \in Servers : record = IdentityOf(p)

\* While an offline action runs no server runs (docstring of run_if_stopped).
OfflineIsOffline ==
    (\E t \in Tasks : pc[t] = "offline") => Servers = {}

\* stop() signals a server of this manager or nothing, also when the pid in an old
\* record now belongs to another program.
SignalsOnlyServers ==
    \A t \in Tasks : pc[t] \in {"term", "kill"} => slot[handle[t].pid].kind # "other"

\* A record that names a running server is neither removed nor replaced, by any
\* caller, across restarts of the bot too.
LiveRecordKept == [][Alive(record) => record' = record]_vars

\* Every call is answered, whatever the others do and whether or not the server
\* obeys: no caller waits for the lock for ever.
CallsAnswered == \A t \in Tasks : pc[t] # "idle" ~> pc[t] = "idle"

\* The unit file's promise of a bot restart: once nobody is in the middle of a call,
\* a running server is the one the PID record names.
ReconnectsAfterRestart ==
    (\A t \in Tasks : pc[t] = "idle")
    => \A p \in Servers : record = IdentityOf(p)

\* The manager implements what it promises: the lock, the record and the threads
\* disappear behind ServerLifecycle.
Lifecycle == INSTANCE ServerLifecycle WITH
    server <- IF Servers = {} THEN "down" ELSE "up",
    phase <- [t \in Tasks |->
                 IF pc[t] = "idle" THEN "idle"
                 ELSE IF pc[t] \in {"settle", "write"} THEN "launching"
                 ELSE IF pc[t] = "offline" THEN "offline"
                 ELSE IF pc[t] = "measure" THEN "seen"
                 ELSE "pending"],
    answer <- answer

ImplementsLifecycle == Lifecycle!Spec
=============================================================================
