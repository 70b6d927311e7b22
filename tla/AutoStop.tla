------------------------------- MODULE AutoStop -------------------------------
(***************************************************************************)
(* services/auto_stop.py for one server: the countdown tasks, the users    *)
(* who change the timeout or start and stop the server, the log monitor    *)
(* that feeds it lines, and restarts of the bot.                           *)
(*                                                                         *)
(* Everything runs in one event loop: a step ends where the code awaits,   *)
(* and a countdown may be cancelled at each of its awaits.  The manager's  *)
(* lock (ServerProcess has the detail) is held by a task that is           *)
(* "starting" or "stopping".  The log is the sequence of lines that        *)
(* Minecraft has written and the monitor has not read.                     *)
(*                                                                         *)
(* Faults: "rcon" `list` may fail or be unreadable; "disk" writing the     *)
(* state file raises; "slow" a status thread may pause for as long as a    *)
(* server takes to boot; "restart" the bot ends and is started again.      *)
(***************************************************************************)
EXTENDS Naturals, Sequences

CONSTANTS
    Timers,      \* the countdown tasks
    NoTimer,     \* _tasks has no entry for the server
    Users,       \* the tasks of Telegram and API requests
    Players,
    MaxLines,    \* bound: lines of the log that were not read yet
    Faults

ASSUME AutoStopAssumption ==
    /\ NoTimer \notin Timers \cup Users
    /\ Timers \cap Users = {}
    /\ MaxLines \in Nat
    /\ Faults \subseteq {"rcon", "disk", "slow", "restart"}

VARIABLES
    pc,        \* where each countdown and each user is
    op,        \* what each user asked for
    current,   \* _tasks[server_id]
    enabled,   \* timeout_seconds(server) > 0
    saved,     \* the same in the state file
    failed,    \* history: the last setting could not be written
    writers,   \* the users that hold or wait for _write_lock, in the order they came
    tracked,   \* _players[server_id]
    server,    \* "down", "booting" or "ready"
    online,    \* the players in the game
    log        \* lines not read yet

vars == <<pc, op, current, enabled, saved, failed, writers, tracked, server, online, log>>

LivePcs == {"asleep", "awake", "asking", "agreed", "halting"}
TimerPcs == LivePcs \cup {"free", "cancelled"}
UserPcs == {"idle", "persist", "arm", "arm_up", "arm_down",
            "stop", "stopping", "start", "starting"}
Ops == {"on", "off", "start", "stop", "restart"}

ReadyLine == [kind |-> "ready", who |-> "nobody"]
Lines == [kind : {"join", "leave"}, who : Players] \cup {ReadyLine}

TypeOK ==
    /\ pc \in [Timers \cup Users -> TimerPcs \cup UserPcs]
    /\ \A k \in Timers : pc[k] \in TimerPcs
    /\ \A u \in Users : pc[u] \in UserPcs
    /\ op \in [Users -> Ops]
    /\ current \in Timers \cup {NoTimer}
    /\ enabled \in BOOLEAN /\ saved \in BOOLEAN /\ failed \in BOOLEAN
    /\ writers \in Seq(Users)
    /\ tracked \subseteq Players
    /\ server \in {"down", "booting", "ready"}
    /\ online \subseteq Players
    /\ log \in Seq(Lines)

Asleep == [x \in Timers \cup Users |-> IF x \in Timers THEN "free" ELSE "idle"]

Init ==
    /\ pc = Asleep
    /\ op = [u \in Users |-> "start"]
    /\ current = NoTimer
    /\ enabled \in BOOLEAN
    /\ saved = enabled
    /\ failed = FALSE
    /\ writers = <<>>
    /\ tracked = {}
    /\ server = "down"
    /\ online = {}
    /\ log = <<>>

Live(k) == pc[k] \in LivePcs
At(x, where) == [pc EXCEPT ![x] = where]

\* The manager's lock is held.
Busy == \E x \in Timers \cup Users : pc[x] \in {"starting", "stopping", "halting"}

-----------------------------------------------------------------------------
(* _cancel and _schedule.  `now` is pc with the caller already moved on.     *)

Cancelled(now) == [x \in Timers \cup Users |-> IF x = current THEN "cancelled" ELSE now[x]]

Cancel(now) ==
    /\ pc' = Cancelled(now)
    /\ current' = NoTimer

\* Mutant: the timeout is not read again.
ScheduleUnchecked(now) ==
    \E k \in Timers :
        /\ now[k] = "free"
        /\ pc' = [Cancelled(now) EXCEPT ![k] = "asleep"]
        /\ current' = k

\* The countdown under way is cancelled, and a new one is armed if auto-stop is on.
Schedule(now) ==
    IF enabled
    THEN \E k \in Timers :
            /\ now[k] = "free"
            /\ pc' = [Cancelled(now) EXCEPT ![k] = "asleep"]
            /\ current' = k
    ELSE Cancel(now)

-----------------------------------------------------------------------------
(* Minecraft.                                                                *)

Joins(p) ==
    /\ server = "ready" /\ p \notin online /\ Len(log) < MaxLines
    /\ online' = online \cup {p}
    /\ log' = Append(log, [kind |-> "join", who |-> p])
    /\ UNCHANGED <<pc, op, current, enabled, saved, failed, writers, tracked, server>>

Leaves(p) ==
    /\ server = "ready" /\ p \in online /\ Len(log) < MaxLines
    /\ online' = online \ {p}
    /\ log' = Append(log, [kind |-> "leave", who |-> p])
    /\ UNCHANGED <<pc, op, current, enabled, saved, failed, writers, tracked, server>>

\* Booting takes longer than the 0.8 s of start() and, unless "slow", than a status
\* thread that found no server.
Boots ==
    /\ server = "booting" /\ Len(log) < MaxLines
    /\ \A u \in Users : pc[u] # "starting" /\ ("slow" \in Faults \/ pc[u] # "arm_down")
    /\ server' = "ready"
    /\ log' = Append(log, ReadyLine)
    /\ UNCHANGED <<pc, op, current, enabled, saved, failed, writers, tracked, online>>

ServerExits ==
    /\ server # "down"
    /\ server' = "down"
    /\ online' = {}
    /\ UNCHANGED <<pc, op, current, enabled, saved, failed, writers, tracked, log>>

-----------------------------------------------------------------------------
(* handle_line                                                               *)

Reads(kind) ==
    /\ log # <<>>
    /\ Head(log).kind = kind
    /\ log' = Tail(log)
    /\ UNCHANGED <<op, enabled, saved, failed, writers, server, online>>

ReadReady ==
    /\ Reads("ready")
    /\ tracked' = {}
    /\ Schedule(pc)

\* Mutant: the line itself is tracked.
ReadJoinTracksLine ==
    /\ Reads("join")
    /\ tracked' = tracked \cup {Head(log)}
    /\ Cancel(pc)

ReadJoin ==
    /\ Reads("join")
    /\ tracked' = tracked \cup {Head(log).who}
    /\ Cancel(pc)

\* Mutant: the leave of a player nobody saw joining is not counted.
ReadLeaveIfTracked ==
    /\ Reads("leave")
    /\ tracked' = tracked \ {Head(log).who}
    /\ IF tracked # {} /\ tracked' = {} THEN Schedule(pc) ELSE UNCHANGED <<pc, current>>

ReadLeave ==
    /\ Reads("leave")
    /\ tracked' = tracked \ {Head(log).who}
    /\ IF tracked' = {} THEN Schedule(pc) ELSE UNCHANGED <<pc, current>>

-----------------------------------------------------------------------------
(* _countdown and _verify_and_stop                                           *)

\* Mutant: the countdown that ends clears the entry, whosever it is.
FinallyAlways(k) == current' = NoTimer

\* The `finally` clause: the entry is cleared if it is still this countdown's.
Finally(k) == current' = IF current = k THEN NoTimer ELSE current

Ends(k) == pc' = At(k, "free") /\ Finally(k)

Expires(k) ==
    /\ pc[k] = "asleep"
    /\ pc' = At(k, "awake")
    /\ UNCHANGED <<op, current, enabled, saved, failed, writers, tracked, server, online, log>>

\* status(): without a running server the countdown ends.
Verifies(k) ==
    /\ pc[k] = "awake"
    /\ IF server = "down" THEN Ends(k) ELSE pc' = At(k, "asking") /\ UNCHANGED current
    /\ UNCHANGED <<op, enabled, saved, failed, writers, tracked, server, online, log>>

\* Mutant: the players the bot tracks are taken for the answer of `list`.
ListTracked(k) ==
    /\ pc[k] = "asking"
    /\ IF tracked = {} THEN pc' = At(k, "agreed") /\ UNCHANGED current ELSE Ends(k)
    /\ UNCHANGED <<op, enabled, saved, failed, writers, tracked, server, online, log>>

\* `list`: only an answer that says zero lets the countdown go on.
ListAnswers(k) ==
    /\ pc[k] = "asking"
    /\ \/ /\ server = "ready" /\ online = {}
          /\ pc' = At(k, "agreed")
          /\ UNCHANGED current
       \/ /\ server # "ready" \/ online # {} \/ "rcon" \in Faults
          /\ Ends(k)
    /\ UNCHANGED <<op, enabled, saved, failed, writers, tracked, server, online, log>>

\* manager.stop() under the manager's lock.
Halts(k) ==
    /\ pc[k] = "agreed"
    /\ ~Busy
    /\ IF server = "down"
       THEN Ends(k) /\ tracked' = {}
       ELSE pc' = At(k, "halting") /\ UNCHANGED <<current, tracked>>
    /\ UNCHANGED <<op, enabled, saved, failed, writers, server, online, log>>

Halted(k) ==
    /\ pc[k] = "halting"
    /\ server' = "down"
    /\ online' = {}
    /\ tracked' = {}
    /\ Ends(k)
    /\ UNCHANGED <<op, enabled, saved, failed, writers, log>>

\* A cancelled countdown gets its CancelledError.
Unwinds(k) ==
    /\ pc[k] = "cancelled"
    /\ Ends(k)
    /\ UNCHANGED <<op, enabled, saved, failed, writers, tracked, server, online, log>>

-----------------------------------------------------------------------------
(* set_timeout and arm                                                       *)

SetTimeout(u, on) ==
    /\ pc[u] = "idle"
    /\ enabled' = on
    /\ op' = [op EXCEPT ![u] = IF on THEN "on" ELSE "off"]
    /\ pc' = At(u, "persist")
    /\ writers' = Append(writers, u)
    /\ UNCHANGED <<current, saved, failed, tracked, server, online, log>>

\* arm() up to its await.
Arm(u) ==
    IF enabled THEN pc' = At(u, "arm") /\ UNCHANGED current ELSE Cancel(At(u, "idle"))

\* The write lock serves the users in the order of their settings, so the last one
\* that cancels or arms is the one whose setting stands.  The thread wrote the setting
\* it found: the user's own, or that of a user who waits behind.
Persisted(u) ==
    /\ pc[u] = "persist"
    /\ writers # <<>> /\ Head(writers) = u
    /\ writers' = Tail(writers)
    /\ saved' \in {op[writers[i]] = "on" : i \in 1..Len(writers)}
    /\ failed' = FALSE
    /\ IF op[u] = "off" THEN Cancel(At(u, "idle")) ELSE Arm(u)
    /\ UNCHANGED <<op, enabled, tracked, server, online, log>>

\* The exception leaves set_timeout: the new setting stands, but nothing is cancelled or
\* armed for it.
PersistRaises(u) ==
    /\ "disk" \in Faults
    /\ pc[u] = "persist"
    /\ writers # <<>> /\ Head(writers) = u
    /\ writers' = Tail(writers)
    /\ pc' = At(u, "idle")
    /\ failed' = TRUE
    /\ UNCHANGED <<op, current, enabled, saved, tracked, server, online, log>>

\* status() of arm(): a server that is being started has no PID record yet.
StatusAnswers(u) ==
    /\ pc[u] = "arm"
    /\ \/ server # "down" /\ pc' = At(u, "arm_up")
       \/ /\ server = "down" \/ \E v \in Users : pc[v] = "starting"
          /\ pc' = At(u, "arm_down")
    /\ UNCHANGED <<op, current, enabled, saved, failed, writers, tracked, server, online, log>>

ArmEnds(u) ==
    /\ \/ pc[u] = "arm_up" /\ Schedule(At(u, "idle"))
       \/ pc[u] = "arm_down" /\ Cancel(At(u, "idle"))
    /\ UNCHANGED <<op, enabled, saved, failed, writers, tracked, server, online, log>>

-----------------------------------------------------------------------------
(* execute_action: manager.start, stop or restart, then on_server_action.    *)

Calls(u, o) ==
    /\ pc[u] = "idle"
    /\ op' = [op EXCEPT ![u] = o]
    /\ pc' = At(u, IF o = "start" THEN "start" ELSE "stop")
    /\ UNCHANGED <<current, enabled, saved, failed, writers, tracked, server, online, log>>

\* stop() has returned: a restart goes on to its start.
AfterStop(u) ==
    IF op[u] = "restart"
    THEN pc' = At(u, "start") /\ UNCHANGED <<current, tracked>>
    ELSE Cancel(At(u, "idle")) /\ tracked' = {}

StopBegins(u) ==
    /\ pc[u] = "stop"
    /\ ~Busy
    /\ IF server = "down"
       THEN AfterStop(u)
       ELSE pc' = At(u, "stopping") /\ UNCHANGED <<current, tracked>>
    /\ UNCHANGED <<op, enabled, saved, failed, writers, server, online, log>>

StopEnds(u) ==
    /\ pc[u] = "stopping"
    /\ server' = "down"
    /\ online' = {}
    /\ AfterStop(u)
    /\ UNCHANGED <<op, enabled, saved, failed, writers, log>>

\* A new server replaces the log; what the monitor had not read of the old one may
\* be lost with it.
StartBegins(u) ==
    /\ pc[u] = "start"
    /\ ~Busy
    /\ IF server = "down"
       THEN /\ server' = "booting"
            /\ log' \in {log, <<>>}
            /\ pc' = At(u, "starting")
            /\ UNCHANGED <<current, tracked>>
       ELSE tracked' = {} /\ Arm(u) /\ UNCHANGED <<server, log>>
    /\ UNCHANGED <<op, enabled, saved, failed, writers, online>>

\* An exit within 0.8 s is an error: on_server_action is not called.
StartEnds(u) ==
    /\ pc[u] = "starting"
    /\ IF server = "down"
       THEN pc' = At(u, "idle") /\ UNCHANGED <<current, tracked>>
       ELSE tracked' = {} /\ Arm(u)
    /\ UNCHANGED <<op, enabled, saved, failed, writers, server, online, log>>

-----------------------------------------------------------------------------
\* The bot ends; the new one reads the state file, follows the log from its end and
\* runs bootstrap, here in one of the tasks.
BotRestarts ==
    /\ "restart" \in Faults
    /\ \E u \in Users : pc' = [Asleep EXCEPT ![u] = IF saved THEN "arm" ELSE "idle"]
    /\ current' = NoTimer
    /\ enabled' = saved
    /\ failed' = FALSE
    /\ writers' = <<>>
    /\ tracked' = {}
    /\ log' = <<>>
    /\ UNCHANGED <<op, saved, server, online>>

Monitor == ReadReady \/ ReadJoin \/ ReadLeave
Countdown(k) ==
    \/ Expires(k) \/ Verifies(k) \/ ListAnswers(k) \/ Halts(k) \/ Halted(k) \/ Unwinds(k)
Serve(u) ==
    \/ Persisted(u) \/ PersistRaises(u) \/ StatusAnswers(u) \/ ArmEnds(u)
    \/ StopBegins(u) \/ StopEnds(u) \/ StartBegins(u) \/ StartEnds(u)

Next ==
    \/ \E p \in Players : Joins(p) \/ Leaves(p)
    \/ Boots \/ ServerExits \/ Monitor
    \/ \E k \in Timers : Countdown(k)
    \/ \E u \in Users : \/ \E on \in BOOLEAN : SetTimeout(u, on)
                        \/ \E o \in {"start", "stop", "restart"} : Calls(u, o)
                        \/ Serve(u)
    \/ BotRestarts

Spec == Init /\ [][Next]_vars

\* The event loop runs what is ready, timers expire and every await ends.
FairSpec ==
    /\ Spec
    /\ WF_vars(Boots) /\ WF_vars(Monitor)
    /\ \A k \in Timers : WF_vars(Countdown(k))
    /\ \A u \in Users : WF_vars(Serve(u))

-----------------------------------------------------------------------------
(* Properties                                                                *)

\* No player the bot knows of loses the game to auto-stop: when a countdown begins to
\* stop the server, the join of everyone online is still unread, so it came after the
\* `list` that said zero (docs/CONTROL_API.md: player joins, timer is cancelled).
JoinUnread(p) == \E i \in 1..Len(log) : log[i] = [kind |-> "join", who |-> p]
KnownPlayersSpared ==
    [][\A k \in Timers :
          pc[k] = "agreed" /\ pc'[k] = "halting" => \A p \in online : JoinUnread(p)]_vars

\* There is one countdown at most, and it is the one that joins, stops and settings
\* can cancel.
OneCountdown == \A k \in Timers : Live(k) => current = k

\* Once auto-stop is switched off and every request is answered, no countdown is under
\* way, whatever requests and log lines overlapped; but for a setting that was not
\* written (set_timeout raised).
DisabledMeansQuiet ==
    ~enabled /\ (\A u \in Users : pc[u] = "idle") => failed \/ \A k \in Timers : ~Live(k)

\* A server that stays up and empty with auto-stop on is stopped in the end, unless
\* users go on asking, the bot goes on restarting or the setting was not written.
EmptyIsStopped ==
    <>[][~BotRestarts]_vars
    => []<>(\/ ~enabled \/ failed \/ server # "ready" \/ online # {}
            \/ \E u \in Users : pc[u] # "idle")
=============================================================================
