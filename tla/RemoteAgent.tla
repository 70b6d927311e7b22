----------------------------- MODULE RemoteAgent -----------------------------
(***************************************************************************)
(* services/remote_agent.py and services/remote_ssh.py: the bots that send *)
(* SSH requests, one agent process per request on the Minecraft host, and  *)
(* what outlives the agents there: the servers they start, the PID record, *)
(* the backups and the file lock.                                          *)
(*                                                                         *)
(* start, stop, restart and backup run under the host's file lock, so the  *)
(* host is safe from a second bot and from a retry; a bot's own lock only  *)
(* makes it wait for the answer of its request, or for the loss of the     *)
(* connection, before the next.  An agent outlives the connection it came  *)
(* on.  A server is known by its pid and start_ticks together (a member of *)
(* Ids); a boot hands none out twice, the next boot may.                   *)
(*                                                                         *)
(* Faults names what may go wrong beyond a server that exits by itself:    *)
(*   "link"   a request times out at the client, or its connection ends    *)
(*   "kill"   an agent is killed at any point                              *)
(*   "disk"   writing the PID record raises                                *)
(*   "rcon"   RCON loses a command or its answer                           *)
(*   "stuck"  a server survives SIGKILL for longer than the 5 s wait       *)
(*   "reboot" the host reboots                                             *)
(***************************************************************************)
EXTENDS Naturals, FiniteSets

CONSTANTS
    Bots,        \* the bots that manage this server
    NoBot,       \* the caller of an agent whose connection ended
    Agents,      \* agent processes, at most this many at a time
    NoAgent,     \* the value of flock while nobody holds it
    Ids,         \* what pid and start_ticks may be in one boot
    NoId,        \* the id of "no record"
    MaxBoots,    \* bound: how often the host reboots
    Faults       \* the faults of this instance (see above)

ASSUME RemoteAssumption ==
    /\ NoBot \notin Bots
    /\ NoAgent \notin Agents
    /\ NoId \notin Ids
    /\ MaxBoots \in Nat
    /\ Faults \subseteq {"link", "kill", "disk", "rcon", "stuck", "reboot"}

VARIABLES
    pc,        \* per bot: "idle", "checked" (run_if_stopped saw no server), "waiting"
    at,        \* per agent: where it is, "free" for no process
    job,       \* per agent: the action it was sent
    caller,    \* per agent: the bot that still listens
    child,     \* per agent: the server it read from the record, or spawned
    paused,    \* per agent: `paused` of make_backup
    verdict,   \* per agent: what the answer it is about to print says of the server
    torn,      \* per agent: a server that is no orphan wrote the world during its copy
    flock,     \* the agent that holds .telegram-mc-manager.lock
    slot,      \* what runs under each id in this boot
    boot,      \* boot_id
    record,    \* the PID file
    orphans,   \* servers that live without ever having been recorded
    saving,    \* the server that is open saves by itself
    lost,      \* an agent or RCON lost track of saves that are off
    archive    \* the last scheduled archive under its final name: was it torn?

agentVars == <<at, job, caller, child, paused, verdict, flock>>
host == <<slot, boot, record, orphans>>
world == <<saving, lost, torn>>
vars == <<pc, agentVars, host, world, archive>>

Jobs == {"start", "stop", "restart", "backup", "auto"}
StopPcs == {"rcon", "wait", "term", "kill"}
CopyPcs == {"flush", "clean", "copy", "save_on"}
LockedPcs == {"look", "spawn", "record", "settle", "find", "ask", "save_off"} \cup StopPcs \cup CopyPcs

\* What an answer says of the server: it lives ("started", "already_running", "Server is
\* running"), it does not ("stopped", "already_stopped", "killed"), or neither.
Answers == {"up", "down", "neither"}

NoRecord == [id |-> NoId, boot |-> 0]
Live == {"booting", "open", "closing"}

TypeOK ==
    /\ pc \in [Bots -> {"idle", "checked", "waiting"}]
    /\ at \in [Agents -> LockedPcs \cup {"free", "lock", "answered"}]
    /\ job \in [Agents -> Jobs]
    /\ caller \in [Agents -> Bots \cup {NoBot}]
    /\ child \in [Agents -> Ids \cup {NoId}]
    /\ paused \in [Agents -> BOOLEAN]
    /\ verdict \in [Agents -> Answers]
    /\ torn \in [Agents -> BOOLEAN]
    /\ flock \in Agents \cup {NoAgent}
    /\ slot \in [Ids -> Live \cup {"none", "other", "exited"}]
    /\ boot \in 0..MaxBoots
    /\ record \in [id : Ids \cup {NoId}, boot : 0..MaxBoots]
    /\ orphans \subseteq Ids
    /\ saving \in BOOLEAN
    /\ lost \in BOOLEAN
    /\ archive \in {"whole", "torn"}

Init ==
    /\ pc = [b \in Bots |-> "idle"]
    /\ at = [a \in Agents |-> "free"]
    /\ job = [a \in Agents |-> "start"]
    /\ caller = [a \in Agents |-> NoBot]
    /\ child = [a \in Agents |-> NoId]
    /\ paused = [a \in Agents |-> FALSE]
    /\ verdict = [a \in Agents |-> "neither"]
    /\ torn = [a \in Agents |-> FALSE]
    /\ flock = NoAgent
    /\ slot = [i \in Ids |-> "none"]
    /\ boot = 0
    /\ record = NoRecord
    /\ orphans = {}
    /\ saving = TRUE
    /\ lost = FALSE
    /\ archive = "whole"

-----------------------------------------------------------------------------
(* What the agent asks the host.                                             *)

LiveServers == {i \in Ids : slot[i] \in Live}
OpenServers == {i \in Ids : slot[i] = "open"}

\* process_alive: the process of this pid and these start_ticks runs.
ProcessAlive(i) == slot[i] \in Live \cup {"other"}

\* Mutant: the boot_id of the record is not compared.
RecordOfAnyBoot == record # NoRecord /\ ProcessAlive(record.id)

\* pid_record finds a process: the record is of this boot, and what it names runs.
Recorded == record # NoRecord /\ record.boot = boot /\ ProcessAlive(record.id)

\* Mutant: status asks the ports alone.
PortsOnly == OpenServers # {}

\* get_status: a recorded process, or else an open RCON or game port.
Running == Recorded \/ OpenServers # {}

\* A server that loads, saves or ends writes the world under whoever copies it.
WorldWrittenBy(i) ==
    torn' = [a \in Agents |-> torn[a] \/ (at[a] = "copy" /\ i \notin orphans)]

\* The pause of the saves ends with the server that was told of it.
SavesAfterwards ==
    IF \E i \in Ids : slot'[i] = "open"
    THEN UNCHANGED <<saving, lost>>
    ELSE saving' = TRUE /\ lost' = FALSE

-----------------------------------------------------------------------------
(* The servers and the host.                                                 *)

\* The ports open, saving is on; a second server on the same ports does not get here.
Opens(i) ==
    /\ slot[i] = "booting"
    /\ OpenServers = {}
    /\ slot' = [slot EXCEPT ![i] = "open"]
    /\ WorldWrittenBy(i)
    /\ UNCHANGED <<pc, agentVars, boot, record, orphans, saving, lost, archive>>

\* A crash, /stop in the game, or the end of a shutdown.
Exits(i) ==
    /\ slot[i] \in Live
    /\ slot' = [slot EXCEPT ![i] = "exited"]
    /\ orphans' = orphans \ {i}
    /\ WorldWrittenBy(i)
    /\ SavesAfterwards
    /\ UNCHANGED <<pc, agentVars, boot, record, archive>>

\* After a reboot another program may get the id that the old record names; programs
\* under ids that no record names cannot be told from free ids.
OtherProgram(i) ==
    /\ slot[i] = "none"
    /\ record.id = i /\ record.boot # boot
    /\ slot' = [slot EXCEPT ![i] = "other"]
    /\ UNCHANGED <<pc, agentVars, boot, record, orphans, world, archive>>

\* The host reboots: processes are gone, files stay, ids are handed out anew.  (Its
\* agents and servers end one by one in the steps before.)
Reboot ==
    /\ "reboot" \in Faults
    /\ boot < MaxBoots
    /\ \A a \in Agents : at[a] = "free"
    /\ LiveServers = {}
    /\ boot' = boot + 1
    /\ slot' = [i \in Ids |-> "none"]
    /\ UNCHANGED <<pc, agentVars, record, orphans, world, archive>>

-----------------------------------------------------------------------------
(* The bots: SSHRemote.request and RemoteServerProcessManager.               *)

Goto(a, where) == at' = [at EXCEPT ![a] = where]
Continue(a, where) == Goto(a, where) /\ UNCHANGED <<pc, job, caller, child, paused, verdict, flock>>

\* A request reaches the host: an agent starts and waits for the file lock.
Send(b, a, j) ==
    /\ at[a] = "free"
    /\ pc' = [pc EXCEPT ![b] = "waiting"]
    /\ Goto(a, "lock")
    /\ job' = [job EXCEPT ![a] = j]
    /\ caller' = [caller EXCEPT ![a] = b]
    /\ UNCHANGED <<child, paused, verdict, flock, host, world, archive>>

Request(b, a) ==
    /\ pc[b] = "idle"
    /\ \E j \in Jobs \ {"auto"} : Send(b, a, j)

\* run_if_stopped asks for the status first; that agent takes no lock and changes nothing.
CheckStopped(b) ==
    /\ pc[b] = "idle"
    /\ ~Running
    /\ pc' = [pc EXCEPT ![b] = "checked"]
    /\ UNCHANGED <<agentVars, host, world, archive>>

RequestOffline(b, a) == pc[b] = "checked" /\ Send(b, a, "auto")

\* "Operation may have completed remotely": the bot stops listening, the agent goes on.
ConnectionLost(a) ==
    /\ "link" \in Faults
    /\ caller[a] # NoBot
    /\ pc' = [pc EXCEPT ![caller[a]] = "idle"]
    /\ caller' = [caller EXCEPT ![a] = NoBot]
    /\ UNCHANGED <<at, job, child, paused, verdict, flock, host, world, archive>>

-----------------------------------------------------------------------------
(* The end of an agent.                                                      *)

\* What the agent held of the operation, its place in the file lock included.
LetGo(a) ==
    /\ job' = [job EXCEPT ![a] = "start"]
    /\ child' = [child EXCEPT ![a] = NoId]
    /\ paused' = [paused EXCEPT ![a] = FALSE]
    /\ flock' = IF flock = a THEN NoAgent ELSE flock

\* The operation returns or raises, and the agent leaves `with operation_lock`.  Its
\* answer is printed later, and by then another agent may hold the lock.
Finish(a, ans) ==
    /\ Goto(a, "answered")
    /\ verdict' = [verdict EXCEPT ![a] = ans]
    /\ LetGo(a)
    /\ UNCHANGED <<pc, caller>>

\* The process is gone, and with it the connection: the bot has its answer, or an
\* empty one.
Gone(a) ==
    /\ Goto(a, "free")
    /\ pc' = IF caller[a] = NoBot THEN pc ELSE [pc EXCEPT ![caller[a]] = "idle"]
    /\ caller' = [caller EXCEPT ![a] = NoBot]
    /\ verdict' = [verdict EXCEPT ![a] = "neither"]
    /\ LetGo(a)

\* The answer is printed, and read by the bot that still listens.
Deliver(a) ==
    /\ at[a] = "answered"
    /\ Gone(a)
    /\ UNCHANGED <<host, world, archive>>

\* Killed from outside: no handler of the agent runs, the kernel drops its lock.
Killed(a) ==
    /\ "kill" \in Faults
    /\ at[a] # "free"
    /\ Gone(a)
    /\ orphans' = IF at[a] = "record" /\ slot[child[a]] \in Live
                  THEN orphans \cup {child[a]} ELSE orphans
    /\ lost' = (lost \/ (at[a] \in CopyPcs /\ paused[a] /\ OpenServers # {}))
    /\ torn' = [torn EXCEPT ![a] = FALSE]
    /\ UNCHANGED <<slot, boot, record, saving, archive>>

-----------------------------------------------------------------------------
(* operation_lock                                                            *)

FirstStep(j) ==
    CASE j = "start" -> "look" [] j \in {"stop", "restart"} -> "find" [] OTHER -> "ask"

Flock(a) ==
    /\ at[a] = "lock"
    /\ flock = NoAgent
    /\ flock' = a
    /\ Goto(a, FirstStep(job[a]))
    /\ UNCHANGED <<pc, job, caller, child, paused, verdict, host, world, archive>>

\* After 8 s of waiting, or without the server's folder, the request is refused.
FlockRefused(a) ==
    /\ at[a] = "lock"
    /\ Finish(a, "neither")
    /\ UNCHANGED <<host, world, archive>>

-----------------------------------------------------------------------------
(* launch                                                                    *)

\* A restart refuses to start beside a server that still runs.
Look(a) ==
    /\ at[a] = "look"
    /\ IF Running
       THEN Finish(a, IF job[a] = "restart" THEN "neither" ELSE "up")
       ELSE Continue(a, "spawn")
    /\ UNCHANGED <<host, world, archive>>

\* The command is empty, its script is missing, or Popen raises.
SpawnRaises(a) ==
    /\ at[a] = "spawn"
    /\ Finish(a, "neither")
    /\ UNCHANGED <<host, world, archive>>

Spawn(a) ==
    /\ at[a] = "spawn"
    /\ \E i \in Ids :
        /\ slot[i] = "none"
        /\ slot' = [slot EXCEPT ![i] = "booting"]
        /\ child' = [child EXCEPT ![a] = i]
        /\ WorldWrittenBy(i)
    /\ Goto(a, "record")
    /\ UNCHANGED <<pc, job, caller, paused, verdict, flock, boot, record, orphans, saving, lost, archive>>

\* Mutant: the record names the process alone.
RecordIdOnly(a) ==
    /\ at[a] = "record"
    /\ record' = [id |-> child[a]]
    /\ Continue(a, "settle")
    /\ UNCHANGED <<slot, boot, orphans, world, archive>>

\* The identity is on disk before the wait of 0.8 s.
Record(a) ==
    /\ at[a] = "record"
    /\ record' = [id |-> child[a], boot |-> boot]
    /\ Continue(a, "settle")
    /\ UNCHANGED <<slot, boot, orphans, world, archive>>

\* mkdir, open, fsync or replace raises: the agent reports it and leaves the server be.
RecordRaises(a) ==
    /\ "disk" \in Faults
    /\ at[a] = "record"
    /\ orphans' = IF slot[child[a]] \in Live THEN orphans \cup {child[a]} ELSE orphans
    /\ Finish(a, "neither")
    /\ UNCHANGED <<slot, boot, record, world, archive>>

Settle(a) ==
    /\ at[a] = "settle"
    /\ IF slot[child[a]] = "exited"
       THEN record' = NoRecord /\ Finish(a, "neither")
       ELSE UNCHANGED record /\ Finish(a, "up")
    /\ UNCHANGED <<slot, boot, orphans, world, archive>>

-----------------------------------------------------------------------------
(* terminate                                                                 *)

\* What follows a server that is known to be down.
Terminated(a) ==
    IF job[a] = "restart"
    THEN Continue(a, "look")
    ELSE Finish(a, "down")

\* An open port without a record is somebody else's server, and is left alone.
Find(a) ==
    /\ at[a] = "find"
    /\ CASE ~Running -> Terminated(a)
         [] Running /\ ~Recorded -> Finish(a, "neither")
         [] OTHER -> /\ Goto(a, "rcon")
                     /\ child' = [child EXCEPT ![a] = record.id]
                     /\ UNCHANGED <<pc, job, caller, paused, verdict, flock>>
    /\ UNCHANGED <<host, world, archive>>

\* `stop` reaches whoever listens on the RCON port, or nobody.
RconStop(a) ==
    /\ at[a] = "rcon"
    /\ Continue(a, "wait")
    /\ \/ OpenServers # {} /\ slot' = [i \in Ids |-> IF slot[i] = "open" THEN "closing" ELSE slot[i]]
       \/ (OpenServers = {} \/ "rcon" \in Faults) /\ UNCHANGED slot
    /\ SavesAfterwards
    /\ UNCHANGED <<boot, record, orphans, torn, archive>>

\* Mutant: an acknowledged stop is taken for a server that is down.
StopAcknowledged(a) ==
    /\ at[a] = "wait"
    /\ Terminated(a)
    /\ UNCHANGED <<host, world, archive>>

\* Mutant: the wait has no deadline.
WaitWithoutDeadline(a) ==
    /\ at[a] = "wait"
    /\ ~ProcessAlive(child[a])
    /\ Terminated(a)
    /\ UNCHANGED <<host, world, archive>>

\* The wait ends with the process, or after stop_timeout (8 s if RCON failed).
Wait(a) ==
    /\ at[a] = "wait"
    /\ \/ ~ProcessAlive(child[a]) /\ Terminated(a)
       \/ ProcessAlive(child[a]) /\ Continue(a, "term")
    /\ UNCHANGED <<host, world, archive>>

\* SIGTERM to the process group: the server shuts down, in its own time.
Term(a) ==
    /\ at[a] = "term"
    /\ IF ProcessAlive(child[a])
       THEN /\ Continue(a, "kill")
            /\ slot' = [slot EXCEPT ![child[a]] = IF @ = "other" THEN "exited" ELSE "closing"]
       ELSE Terminated(a) /\ UNCHANGED slot
    /\ SavesAfterwards
    /\ UNCHANGED <<boot, record, orphans, torn, archive>>

\* SIGKILL, and 5 s later the answer, or an error when the process is still there.
Kill(a) ==
    /\ at[a] = "kill"
    /\ \/ /\ ~ProcessAlive(child[a])
          /\ Terminated(a)
          /\ UNCHANGED <<host, torn>>
       \/ /\ ProcessAlive(child[a])
          /\ slot' = [slot EXCEPT ![child[a]] = "exited"]
          /\ orphans' = orphans \ {child[a]}
          /\ WorldWrittenBy(child[a])
          /\ Terminated(a)
          /\ UNCHANGED <<boot, record>>
       \/ /\ "stuck" \in Faults
          /\ ProcessAlive(child[a])
          /\ Finish(a, "neither")
          /\ UNCHANGED <<host, torn>>
    /\ SavesAfterwards
    /\ UNCHANGED archive

-----------------------------------------------------------------------------
(* make_backup                                                               *)

\* Mutant: a scheduled backup of a running server is let through.
AskForgetsAutomatic(a) ==
    /\ at[a] = "ask"
    /\ CASE ~Running \/ job[a] = "auto" -> Continue(a, "clean")
         [] Running /\ job[a] # "auto" /\ ~Recorded -> Finish(a, "neither")
         [] OTHER -> Continue(a, "save_off")
    /\ UNCHANGED <<host, world, archive>>

\* A scheduled backup wants the server down; a manual one of a running server wants it
\* recorded, and pauses its saves.
Ask(a) ==
    /\ at[a] = "ask"
    /\ CASE ~Running -> Continue(a, "clean")
         [] Running /\ (job[a] = "auto" \/ ~Recorded) -> Finish(a, "neither")
         [] OTHER -> Continue(a, "save_off")
    /\ UNCHANGED <<host, world, archive>>

\* A save-off that was obeyed and whose answer was lost ends the backup before `try`.
SaveOff(a) ==
    /\ at[a] = "save_off"
    /\ \/ /\ OpenServers # {}
          /\ saving' = FALSE
          /\ paused' = [paused EXCEPT ![a] = TRUE]
          /\ Goto(a, "flush")
          /\ UNCHANGED <<pc, job, caller, child, verdict, flock, lost>>
       \/ /\ OpenServers = {} \/ "rcon" \in Faults
          /\ Finish(a, "neither")
          /\ UNCHANGED <<saving, lost>>
       \/ /\ OpenServers # {} /\ "rcon" \in Faults
          /\ saving' = FALSE
          /\ lost' = TRUE
          /\ Finish(a, "neither")
    /\ UNCHANGED <<host, torn, archive>>

\* Mutant: a failed flush leaves make_backup at once.
FlushReturns(a) ==
    /\ at[a] = "flush"
    /\ \/ OpenServers # {} /\ Continue(a, "clean")
       \/ (OpenServers = {} \/ "rcon" \in Faults) /\ Finish(a, "neither")
    /\ UNCHANGED <<host, world, archive>>

\* A failed flush raises inside `try`: `finally` sends save-on.
Flush(a) ==
    /\ at[a] = "flush"
    /\ \/ OpenServers # {} /\ Continue(a, "clean")
       \/ (OpenServers = {} \/ "rcon" \in Faults) /\ Continue(a, "save_on")
    /\ UNCHANGED <<host, world, archive>>

\* The way out of `try`: `finally` sends save-on if the saves were paused.
LeaveTry(a) ==
    IF paused[a]
    THEN Continue(a, "save_on")
    ELSE Finish(a, "neither")

\* The leftovers of killed agents go, and the own .partial file is created: files that
\* nothing but the next cleaning looks at.
Clean(a) ==
    /\ at[a] = "clean"
    /\ Continue(a, "copy") \/ LeaveTry(a)     \* no world directory, or an OSError
    /\ UNCHANGED <<host, world, archive>>

\* The walk is over and os.replace gives the archive its name; or it raised, and the
\* .partial file is unlinked.
Copy(a) ==
    /\ at[a] = "copy"
    /\ \/ job[a] = "auto" /\ archive' = IF torn[a] THEN "torn" ELSE "whole"
       \/ UNCHANGED archive
    /\ torn' = [torn EXCEPT ![a] = FALSE]
    /\ LeaveTry(a)
    /\ UNCHANGED <<host, saving, lost>>

\* A save-on that fails is printed to stderr and nothing more.
SaveOn(a) ==
    /\ at[a] = "save_on"
    /\ \/ OpenServers # {} /\ saving' = TRUE /\ lost' = FALSE
       \/ OpenServers # {} /\ "rcon" \in Faults /\ lost' = TRUE /\ UNCHANGED saving
       \/ OpenServers = {} /\ UNCHANGED <<saving, lost>>
    /\ Finish(a, "neither")
    /\ UNCHANGED <<host, torn, archive>>

-----------------------------------------------------------------------------
Proceed(a) ==
    \/ Flock(a) \/ FlockRefused(a) \/ Deliver(a)
    \/ Look(a) \/ SpawnRaises(a) \/ Spawn(a) \/ Record(a) \/ RecordRaises(a) \/ Settle(a)
    \/ Find(a) \/ RconStop(a) \/ Wait(a) \/ Term(a) \/ Kill(a)
    \/ Ask(a) \/ SaveOff(a) \/ Flush(a) \/ Clean(a) \/ Copy(a) \/ SaveOn(a)

Next ==
    \/ \E i \in Ids : Opens(i) \/ Exits(i) \/ OtherProgram(i)
    \/ Reboot
    \/ \E b \in Bots : CheckStopped(b) \/ \E a \in Agents : Request(b, a) \/ RequestOffline(b, a)
    \/ \E a \in Agents : ConnectionLost(a) \/ Killed(a) \/ Proceed(a)

Spec == Init /\ [][Next]_vars

\* Every wait of an agent has a deadline and every other step is its own.
FairSpec == Spec /\ \A a \in Agents : WF_vars(Proceed(a))

-----------------------------------------------------------------------------
(* Properties                                                                *)

\* "A lock on the Telegram bot would not prevent a second bot or a retry from starting
\* another JVM while Minecraft is still booting" (operation_lock): two servers live at
\* once only if one of them was spawned by an agent that failed to record it.
OneServer ==
    \A i, j \in LiveServers : i # j => i \in orphans \/ j \in orphans

\* A stop waits for, and signals, nothing but a server: the identity in the record is
\* checked against the boot it was written in.
SignalsOnlyServers == \A a \in Agents : at[a] \in StopPcs => slot[child[a]] # "other"

\* A scheduled archive holds the world of a server that was down for all of the copy, as
\* far as the host could know: only a server nobody recorded may have written it.
ScheduledArchivesConsistent == archive = "whole"

\* With no backup under way an open server saves its world, unless the agent that paused
\* it was killed or RCON lost a command or an answer.
SavesRestored ==
    (\A a \in Agents : at[a] \notin CopyPcs) /\ OpenServers # {} => saving \/ lost

\* What an agent answers of the server holds when it lets go of the file lock: with
\* "stopped" only a server nobody recorded may live, with "started" one lives.  It is no
\* promise of the moment in which the bot reads it.
AnswersTrue ==
    [][\A a \in Agents :
         at[a] # "answered" /\ at'[a] = "answered" =>
             /\ verdict'[a] = "down" => LiveServers' \subseteq orphans'
             /\ verdict'[a] = "up" => LiveServers' # {}]_vars

\* No agent keeps the host's lock for good, whatever the server, RCON and the bots do.
FlockFreed == flock # NoAgent ~> flock = NoAgent
=============================================================================
