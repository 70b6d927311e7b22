----------------------------- MODULE AutoStop_proofs -----------------------------
(* Proofs about AutoStop, for any number of countdowns, users and players.        *)
EXTENDS AutoStop, TLAPS

USE AutoStopAssumption

Everyone == Timers \cup Users
Pcs == TimerPcs \cup UserPcs

\* What the other proofs start from: the types, and a single countdown.
Base == TypeOK /\ OneCountdown

\* The caller of Cancel and Schedule has moved on, no countdown has.
Moved(now) == now \in [Everyone -> Pcs] /\ (\A k \in Timers : now[k] = pc[k])
                                        /\ (\A u \in Users : now[u] \in UserPcs)

\* After Cancel or Schedule the countdowns are free, cancelled, or one that has just
\* been armed; nobody else has moved.
Switched(now) ==
    /\ pc' \in [Everyone -> Pcs]
    /\ current' \in Timers \cup {NoTimer}
    /\ \A k \in Timers : pc'[k] \in {"free", "cancelled", "asleep"}
    /\ \A k \in Timers : pc'[k] = "asleep" => current' = k /\ enabled
    /\ \A u \in Users : pc'[u] = now[u]

LEMMA CancelSwitches ==
    ASSUME Base, NEW STATE now, Moved(now), Cancel(now)
    PROVE  Switched(now)
<1>1. pc' = Cancelled(now) /\ current' = NoTimer
  BY DEF Cancel
<1>2. \A x \in Everyone : Cancelled(now)[x] = IF x = current THEN "cancelled" ELSE now[x]
  BY DEF Cancelled, Everyone
<1>3. Cancelled(now) \in [Everyone -> Pcs]
  BY DEF Cancelled, Everyone, Moved, Pcs, TimerPcs
<1>4. ASSUME NEW k \in Timers
      PROVE  pc'[k] \in {"free", "cancelled"}
  BY <1>1, <1>2 DEF Everyone, Moved, Base, OneCountdown, Live, LivePcs, TypeOK, TimerPcs
<1>5. ASSUME NEW u \in Users
      PROVE  pc'[u] = now[u]
  BY <1>1, <1>2 DEF Everyone, Base, TypeOK
<1>6. QED
  BY <1>1, <1>3, <1>4, <1>5 DEF Switched

LEMMA ScheduleSwitches ==
    ASSUME Base, NEW STATE now, Moved(now), Schedule(now)
    PROVE  Switched(now)
<1>1. CASE ~enabled
  BY <1>1, CancelSwitches DEF Schedule
<1>2. CASE enabled
  <2>1. PICK k \in Timers : /\ now[k] = "free"
                            /\ pc' = [Cancelled(now) EXCEPT ![k] = "asleep"]
                            /\ current' = k
    BY <1>2 DEF Schedule
  <2>2. \A x \in Everyone : Cancelled(now)[x] = IF x = current THEN "cancelled" ELSE now[x]
    BY DEF Cancelled, Everyone
  <2>3. Cancelled(now) \in [Everyone -> Pcs]
    BY DEF Cancelled, Everyone, Moved, Pcs, TimerPcs
  <2>4. pc' \in [Everyone -> Pcs]
    BY <2>1, <2>3 DEF Pcs, TimerPcs, LivePcs
  <2>5. \A x \in Everyone : pc'[x] = IF x = k THEN "asleep" ELSE Cancelled(now)[x]
    BY <2>1, <2>3
  <2>6. ASSUME NEW j \in Timers, j # k
        PROVE  pc'[j] \in {"free", "cancelled"}
    BY <2>2, <2>5, <2>6 DEF Everyone, Moved, Base, OneCountdown, Live, LivePcs, TypeOK, TimerPcs
  <2>7. ASSUME NEW u \in Users
        PROVE  pc'[u] = now[u]
    BY <2>2, <2>5 DEF Everyone, Base, TypeOK
  <2>8. pc'[k] = "asleep"
    BY <2>5 DEF Everyone
  <2>9. QED
    BY <1>2, <2>1, <2>4, <2>6, <2>7, <2>8 DEF Switched
<1>3. QED
  BY <1>1, <1>2

\* pc itself, and pc after its caller has moved, are fit for these lemmas.
LEMMA MovedFacts ==
    ASSUME TypeOK
    PROVE  /\ Moved(pc)
           /\ \A u \in Users : \A where \in UserPcs : Moved(At(u, where))
  BY DEF TypeOK, Moved, At, Everyone, Pcs

-----------------------------------------------------------------------------
(* Types, and the single countdown.                                          *)

\* What one step does to the countdowns and to the users.
Counters ==
    /\ pc' \in [Everyone -> Pcs]
    /\ \A k \in Timers : pc'[k] \in TimerPcs
    /\ \A u \in Users : pc'[u] \in UserPcs
    /\ current' \in Timers \cup {NoTimer}
    /\ OneCountdown'

LEMMA SwitchedCounters ==
    ASSUME NEW STATE now, Moved(now), Switched(now)
    PROVE  Counters
<1>1. \A k \in Timers : pc'[k] \in TimerPcs
  BY DEF Switched, TimerPcs, LivePcs
<1>2. OneCountdown'
  BY DEF Switched, OneCountdown, Live, LivePcs
<1>3. QED
  BY <1>1, <1>2 DEF Switched, Moved, Counters

\* A user moves and no countdown does.
LEMMA UserMoves ==
    ASSUME Base, NEW u \in Users, NEW where \in UserPcs, pc' = At(u, where), UNCHANGED current
    PROVE  Counters
<1>1. \A k \in Timers : pc'[k] = pc[k]
  BY DEF At, Base, TypeOK
<1>2. QED
  BY <1>1 DEF At, Base, TypeOK, OneCountdown, Live, Counters, Everyone, Pcs

LEMMA CancelCounts ==
    ASSUME Base, NEW u \in Users, Cancel(At(u, "idle"))
    PROVE  Counters
<1>1. Moved(At(u, "idle"))
  BY MovedFacts DEF Base, UserPcs
<1>2. QED
  BY <1>1, CancelSwitches, SwitchedCounters

LEMMA ArmCounts ==
    ASSUME Base, NEW u \in Users, Arm(u)
    PROVE  Counters
<1>1. CASE enabled
  BY <1>1, UserMoves DEF Arm, UserPcs
<1>2. CASE ~enabled
  BY <1>2, CancelCounts DEF Arm
<1>3. QED
  BY <1>1, <1>2

\* A countdown moves on or ends.
LEMMA TimerMoves ==
    ASSUME Base, NEW k \in Timers, NEW where \in TimerPcs,
           pc' = At(k, where),
           current' = current \/ Finally(k),
           Live(k) \/ where \notin LivePcs,
           current' = current \/ where \notin LivePcs
    PROVE  Counters
<1>1. /\ pc' \in [Everyone -> Pcs]
      /\ \A x \in Everyone : pc'[x] = IF x = k THEN where ELSE pc[x]
  BY DEF At, Base, TypeOK, Everyone, Pcs
<1>2. current' \in {current, NoTimer} /\ (current' # current => current = k)
  BY DEF Finally
<1>3. \A j \in Timers : pc'[j] \in TimerPcs
  BY <1>1 DEF Base, TypeOK, Everyone
<1>4. \A u \in Users : pc'[u] \in UserPcs
  BY <1>1 DEF Base, TypeOK, Everyone
<1>5. OneCountdown'
  <2>1. ASSUME NEW j \in Timers, pc'[j] \in LivePcs
        PROVE  current' = j
    BY <1>1, <1>2, <2>1 DEF Base, OneCountdown, Live, Everyone
  <2>2. QED
    BY <2>1 DEF OneCountdown, Live
<1>6. QED
  BY <1>1, <1>2, <1>3, <1>4, <1>5 DEF Base, TypeOK, Counters

LEMMA EndsCounts ==
    ASSUME Base, NEW k \in Timers, Ends(k)
    PROVE  Counters
  BY TimerMoves DEF Ends, TimerPcs, LivePcs

\* The steps that leave every task where it is.
LEMMA StillCounts ==
    ASSUME Base, UNCHANGED <<pc, current>>
    PROVE  Counters
  BY DEF Base, TypeOK, OneCountdown, Live, Counters, Everyone, Pcs

LEMMA MonitorCounts ==
    ASSUME Base, Monitor
    PROVE  Counters
<1>1. Moved(pc)
  BY MovedFacts DEF Base
<1>2. Schedule(pc) \/ Cancel(pc) \/ UNCHANGED <<pc, current>>
  BY DEF Monitor, ReadReady, ReadJoin, ReadLeave
<1>3. QED
  BY <1>1, <1>2, CancelSwitches, ScheduleSwitches, SwitchedCounters, StillCounts

LEMMA CountdownCounts ==
    ASSUME Base, NEW k \in Timers, Countdown(k)
    PROVE  Counters
<1>1. CASE Expires(k)
  BY <1>1, TimerMoves DEF Expires, Live, TimerPcs, LivePcs
<1>2. CASE Verifies(k)
  BY <1>2, TimerMoves, EndsCounts DEF Verifies, Live, TimerPcs, LivePcs
<1>3. CASE ListAnswers(k)
  BY <1>3, TimerMoves, EndsCounts DEF ListAnswers, Live, TimerPcs, LivePcs
<1>4. CASE Halts(k)
  BY <1>4, TimerMoves, EndsCounts DEF Halts, Live, TimerPcs, LivePcs
<1>5. CASE Halted(k)
  BY <1>5, EndsCounts DEF Halted
<1>6. CASE Unwinds(k)
  BY <1>6, EndsCounts DEF Unwinds
<1>7. QED
  BY <1>1, <1>2, <1>3, <1>4, <1>5, <1>6 DEF Countdown

LEMMA AfterStopCounts ==
    ASSUME Base, NEW u \in Users, AfterStop(u)
    PROVE  Counters
<1>1. CASE op[u] = "restart"
  BY <1>1, UserMoves DEF AfterStop, UserPcs
<1>2. CASE op[u] # "restart"
  BY <1>2, CancelCounts DEF AfterStop
<1>3. QED
  BY <1>1, <1>2

LEMMA ArmEndsCounts ==
    ASSUME Base, NEW u \in Users, ArmEnds(u)
    PROVE  Counters
<1>1. Moved(At(u, "idle"))
  BY MovedFacts DEF Base, UserPcs
<1>2. QED
  BY <1>1, CancelSwitches, ScheduleSwitches, SwitchedCounters DEF ArmEnds

LEMMA ServeCounts ==
    ASSUME Base, NEW u \in Users, Serve(u)
    PROVE  Counters
<1>1. CASE Persisted(u)
  BY <1>1, CancelCounts, ArmCounts DEF Persisted
<1>2. CASE PersistRaises(u)
  BY <1>2, UserMoves DEF PersistRaises, UserPcs
<1>3. CASE StatusAnswers(u)
  BY <1>3, UserMoves DEF StatusAnswers, UserPcs
<1>4. CASE ArmEnds(u)
  BY <1>4, ArmEndsCounts
<1>5. CASE StopBegins(u)
  BY <1>5, UserMoves, AfterStopCounts DEF StopBegins, UserPcs
<1>6. CASE StopEnds(u)
  BY <1>6, AfterStopCounts DEF StopEnds
<1>7. CASE StartBegins(u)
  BY <1>7, UserMoves, ArmCounts DEF StartBegins, UserPcs
<1>8. CASE StartEnds(u)
  BY <1>8, UserMoves, ArmCounts DEF StartEnds, UserPcs
<1>9. QED
  BY <1>1, <1>2, <1>3, <1>4, <1>5, <1>6, <1>7, <1>8 DEF Serve

LEMMA RestartCounts ==
    ASSUME BotRestarts
    PROVE  Counters
<1>1. \A k \in Timers : pc'[k] = "free"
  BY DEF BotRestarts, Asleep
<1>2. pc' \in [Everyone -> Pcs] /\ \A u \in Users : pc'[u] \in UserPcs
  BY DEF BotRestarts, Asleep, Everyone, Pcs, TimerPcs, UserPcs
<1>3. QED
  BY <1>1, <1>2 DEF BotRestarts, Counters, OneCountdown, Live, TimerPcs, LivePcs

LEMMA EveryStepCounts ==
    ASSUME Base, [Next]_vars
    PROVE  Counters
<1>1. ASSUME NEW p \in Players, Joins(p) \/ Leaves(p)
      PROVE  Counters
  BY <1>1, StillCounts DEF Joins, Leaves
<1>2. CASE Boots \/ ServerExits \/ UNCHANGED vars
  BY <1>2, StillCounts DEF Boots, ServerExits, vars
<1>3. CASE Monitor
  BY <1>3, MonitorCounts
<1>4. ASSUME NEW k \in Timers, Countdown(k)
      PROVE  Counters
  BY <1>4, CountdownCounts
<1>5. ASSUME NEW u \in Users, NEW on \in BOOLEAN, SetTimeout(u, on)
      PROVE  Counters
  BY <1>5, UserMoves DEF SetTimeout, UserPcs
<1>6. ASSUME NEW u \in Users, NEW o \in {"start", "stop", "restart"}, Calls(u, o)
      PROVE  Counters
  BY <1>6, UserMoves DEF Calls, UserPcs
<1>7. ASSUME NEW u \in Users, Serve(u)
      PROVE  Counters
  BY <1>7, ServeCounts
<1>8. CASE BotRestarts
  BY <1>8, RestartCounts
<1>9. QED
  BY <1>1, <1>2, <1>3, <1>4, <1>5, <1>6, <1>7, <1>8 DEF Next

\* The other variables keep their types.
DataTyped ==
    /\ op' \in [Users -> Ops]
    /\ enabled' \in BOOLEAN /\ saved' \in BOOLEAN /\ failed' \in BOOLEAN
    /\ writers' \in Seq(Users)
    /\ tracked' \subseteq Players
    /\ server' \in {"down", "booting", "ready"}
    /\ online' \subseteq Players
    /\ log' \in Seq(Lines)

LEMMA LineFacts ==
    /\ ReadyLine \in Lines
    /\ \A p \in Players : /\ [kind |-> "join", who |-> p] \in Lines
                          /\ [kind |-> "leave", who |-> p] \in Lines
    /\ \A line \in Lines : line.kind = "join" => line.who \in Players
  BY DEF Lines, ReadyLine

LEMMA NothingUnread == <<>> \in Seq(Lines) /\ <<>> \in Seq(Users)
  OBVIOUS

LEMMA MonitorTyped ==
    ASSUME TypeOK, Monitor
    PROVE  DataTyped
<1>1. log \in Seq(Lines) /\ log # <<>> /\ log' = Tail(log)
  BY DEF TypeOK, Monitor, ReadReady, ReadJoin, ReadLeave, Reads
<1>2. Head(log) \in Lines /\ Tail(log) \in Seq(Lines)
  BY <1>1
<1>3. tracked' \subseteq Players
  BY <1>2, LineFacts DEF TypeOK, Monitor, ReadReady, ReadJoin, ReadLeave, Reads
<1>4. QED
  BY <1>1, <1>2, <1>3 DEF TypeOK, Monitor, ReadReady, ReadJoin, ReadLeave, Reads, DataTyped

LEMMA MinecraftTyped ==
    ASSUME TypeOK, ServerExits \/ Boots \/ \E p \in Players : Joins(p) \/ Leaves(p)
    PROVE  DataTyped
<1>1. CASE ServerExits
  BY <1>1 DEF TypeOK, ServerExits, DataTyped
<1>2. CASE Boots
  BY <1>2, LineFacts DEF TypeOK, Boots, DataTyped
<1>3. ASSUME NEW p \in Players, Joins(p)
      PROVE  DataTyped
  <2>1. [kind |-> "join", who |-> p] \in Lines
    BY LineFacts
  <2>2. log' \in Seq(Lines)
    BY <1>3, <2>1 DEF TypeOK, Joins
  <2>3. QED
    BY <1>3, <2>2 DEF TypeOK, Joins, DataTyped
<1>4. ASSUME NEW p \in Players, Leaves(p)
      PROVE  DataTyped
  <2>1. [kind |-> "leave", who |-> p] \in Lines
    BY LineFacts
  <2>2. log' \in Seq(Lines)
    BY <1>4, <2>1 DEF TypeOK, Leaves
  <2>3. QED
    BY <1>4, <2>2 DEF TypeOK, Leaves, DataTyped
<1>5. QED
  BY <1>1, <1>2, <1>3, <1>4

LEMMA CountdownTyped ==
    ASSUME TypeOK, NEW k \in Timers, Countdown(k)
    PROVE  DataTyped
  BY DEF TypeOK, Countdown, Expires, Verifies, ListAnswers, Halts, Halted, Unwinds, DataTyped

LEMMA RequestTyped ==
    ASSUME TypeOK, NEW u \in Users,
           \/ \E on \in BOOLEAN : SetTimeout(u, on)
           \/ \E o \in {"start", "stop", "restart"} : Calls(u, o)
    PROVE  DataTyped
<1>1. ASSUME NEW on \in BOOLEAN, SetTimeout(u, on)
      PROVE  DataTyped
  BY <1>1 DEF TypeOK, SetTimeout, DataTyped, Ops
<1>2. ASSUME NEW o \in {"start", "stop", "restart"}, Calls(u, o)
      PROVE  DataTyped
  BY <1>2 DEF TypeOK, Calls, DataTyped, Ops
<1>3. QED
  BY <1>1, <1>2

LEMMA ServeTyped ==
    ASSUME TypeOK, NEW u \in Users, Serve(u)
    PROVE  DataTyped
<1>1. writers \in Seq(Users) /\ (writers # <<>> => Tail(writers) \in Seq(Users))
  BY DEF TypeOK
<1>2. CASE Persisted(u) \/ PersistRaises(u)
  BY <1>1, <1>2 DEF TypeOK, Persisted, PersistRaises, DataTyped
<1>3. CASE StatusAnswers(u) \/ ArmEnds(u)
  BY <1>3 DEF TypeOK, StatusAnswers, ArmEnds, DataTyped
<1>4. CASE StopBegins(u) \/ StopEnds(u)
  BY <1>4 DEF TypeOK, StopBegins, StopEnds, AfterStop, DataTyped
<1>5. CASE StartBegins(u) \/ StartEnds(u)
  <2>1. log' \in Seq(Lines)
    BY <1>5, NothingUnread DEF TypeOK, StartBegins, StartEnds
  <2>2. QED
    BY <1>5, <2>1 DEF TypeOK, StartBegins, StartEnds, DataTyped
<1>6. QED
  BY <1>2, <1>3, <1>4, <1>5 DEF Serve

LEMMA EveryStepTyped ==
    ASSUME TypeOK, [Next]_vars
    PROVE  DataTyped
<1>1. CASE BotRestarts
  BY <1>1, NothingUnread DEF TypeOK, BotRestarts, DataTyped
<1>2. CASE UNCHANGED vars
  BY <1>2 DEF TypeOK, vars, DataTyped
<1>3. QED
  BY <1>1, <1>2, MonitorTyped, MinecraftTyped, CountdownTyped, RequestTyped, ServeTyped DEF Next

LEMMA BaseStep ==
    ASSUME Base, [Next]_vars
    PROVE  Base'
<1>1. Counters
  BY EveryStepCounts
<1>2. DataTyped
  BY EveryStepTyped DEF Base
<1>3. QED
  BY <1>1, <1>2 DEF Base, TypeOK, Counters, DataTyped, Everyone, Pcs

\* The invariant under every fault: types, and a countdown under way is the entry of
\* _tasks.
THEOREM BaseCorrect == Spec => []Base
<1>1. Init => Base
  <2> SUFFICES ASSUME Init PROVE Base
    OBVIOUS
  <2>1. \A k \in Timers : pc[k] = "free"
    BY DEF Init, Asleep
  <2>2. TypeOK
    <3>1. /\ pc \in [Timers \cup Users -> TimerPcs \cup UserPcs]
          /\ \A u \in Users : pc[u] \in UserPcs
      BY AutoStopAssumption DEF Init, Asleep, TimerPcs, UserPcs
    <3>2. op \in [Users -> Ops]
      BY DEF Init, Ops
    <3>3. writers \in Seq(Users) /\ log \in Seq(Lines)
      BY NothingUnread DEF Init
    <3>4. enabled \in BOOLEAN /\ saved \in BOOLEAN /\ failed \in BOOLEAN
      BY DEF Init
    <3>5. QED
      BY <2>1, <3>1, <3>2, <3>3, <3>4 DEF Init, TypeOK, TimerPcs
  <2>3. QED
    BY <2>1, <2>2 DEF Base, OneCountdown, Live, LivePcs
<1>2. QED
  BY <1>1, BaseStep, PTL DEF Spec

\* Every variable keeps its type.
THEOREM TypeCorrect == Spec => []TypeOK
<1>1. Base => TypeOK
  BY DEF Base
<1>2. QED
  BY <1>1, BaseCorrect, PTL

\* There is never a second countdown that a join or a stop could not cancel.
THEOREM SingleCountdown == Spec => []OneCountdown
<1>1. Base => OneCountdown
  BY DEF Base
<1>2. QED
  BY <1>1, BaseCorrect, PTL

-----------------------------------------------------------------------------
(* Switching auto-stop off.                                                  *)

\* While auto-stop is off, a countdown is under way only if the user who switched it
\* off is still writing the state file and will cancel it then, or could not write it.
QuietInv ==
    ~enabled /\ (\E k \in Timers : Live(k))
    => failed \/ \E u \in Users : pc[u] = "persist" /\ op[u] = "off"

NoneLive == \A k \in Timers : ~Live(k)

\* Cancel leaves no countdown under way, and so does Schedule when auto-stop is off.
LEMMA SwitchedOff ==
    ASSUME ~enabled, NEW STATE now, Switched(now)
    PROVE  NoneLive'
  BY DEF Switched, NoneLive, Live, LivePcs

LEMMA OffCancels ==
    ASSUME Base, ~enabled, NEW u \in Users, Cancel(At(u, "idle")) \/ Schedule(At(u, "idle"))
    PROVE  NoneLive'
<1>1. Moved(At(u, "idle"))
  BY MovedFacts DEF Base, UserPcs
<1>2. QED
  BY <1>1, CancelSwitches, ScheduleSwitches, SwitchedOff

\* A step after which no countdown is under way that was not before, and which takes
\* nobody out of "persist".
LEMMA QuietKept ==
    ASSUME QuietInv, enabled' = enabled, op' = op, failed' = failed,
           \A k \in Timers : Live(k)' => Live(k),
           \A u \in Users : pc[u] = "persist" => pc'[u] = "persist"
    PROVE  QuietInv'
  BY DEF QuietInv

LEMMA QuietServe ==
    ASSUME Base, QuietInv, NEW u \in Users, Serve(u)
    PROVE  QuietInv'
<1>1. enabled' = enabled /\ op' = op
  BY DEF Serve, Persisted, PersistRaises, StatusAnswers, ArmEnds, StopBegins, StopEnds,
    StartBegins, StartEnds
<1>2. CASE enabled
  BY <1>1, <1>2 DEF QuietInv
<1>3. CASE /\ ~enabled
           /\ \/ Cancel(At(u, "idle"))
              \/ Schedule(At(u, "idle"))
  BY <1>1, <1>3, OffCancels DEF QuietInv, NoneLive
<1>4. CASE /\ ~enabled /\ pc[u] # "persist" /\ failed' = failed
           /\ \E where \in UserPcs : pc' = At(u, where)
  <2>1. /\ \A k \in Timers : pc'[k] = pc[k]
        /\ \A v \in Users : pc[v] = "persist" => pc'[v] = "persist"
    BY <1>4 DEF At, Base, TypeOK
  <2>2. \A k \in Timers : Live(k)' => Live(k)
    BY <2>1 DEF Live
  <2>3. QED
    BY <1>1, <1>4, <2>1, <2>2, QuietKept
<1>5. ~enabled => \/ Cancel(At(u, "idle")) \/ Schedule(At(u, "idle"))
                  \/ failed'
                  \/ /\ pc[u] # "persist" /\ failed' = failed
                     /\ \E where \in UserPcs : pc' = At(u, where)
  <2> SUFFICES ASSUME ~enabled
               PROVE  \/ Cancel(At(u, "idle")) \/ Schedule(At(u, "idle"))
                      \/ failed'
                      \/ /\ pc[u] # "persist" /\ failed' = failed
                         /\ \E where \in UserPcs : pc' = At(u, where)
    OBVIOUS
  <2>1. CASE Persisted(u)
    BY <2>1 DEF Persisted, Arm
  <2>2. CASE PersistRaises(u)
    <3>1. failed' = TRUE
      BY <2>2 DEF PersistRaises
    <3>2. QED
      BY <3>1
  <2>3. CASE StatusAnswers(u)
    BY <2>3 DEF StatusAnswers, UserPcs
  <2>4. CASE ArmEnds(u)
    BY <2>4 DEF ArmEnds
  <2>5. CASE StopBegins(u) \/ StopEnds(u)
    BY <2>5 DEF StopBegins, StopEnds, AfterStop, UserPcs
  <2>6. CASE StartBegins(u) \/ StartEnds(u)
    BY <2>6 DEF StartBegins, StartEnds, Arm, UserPcs
  <2>7. QED
    BY <2>1, <2>2, <2>3, <2>4, <2>5, <2>6 DEF Serve
<1>6. CASE failed'
  BY <1>6 DEF QuietInv
<1>7. QED
  BY <1>2, <1>3, <1>4, <1>5, <1>6

\* A countdown moves on or ends: none begins.
LEMMA CountdownKeepsTasks ==
    ASSUME Base, NEW k \in Timers, Countdown(k)
    PROVE  /\ \A j \in Timers : Live(j)' => Live(j)
           /\ \A u \in Users : pc'[u] = pc[u]
           /\ UNCHANGED <<enabled, op, failed>>
<1>1. \E where \in TimerPcs : pc' = At(k, where) /\ (where \in LivePcs => Live(k))
  <2>1. CASE Expires(k)
    BY <2>1 DEF Expires, Live, LivePcs, TimerPcs
  <2>2. CASE Verifies(k)
    BY <2>2 DEF Verifies, Ends, Live, LivePcs, TimerPcs
  <2>3. CASE ListAnswers(k)
    BY <2>3 DEF ListAnswers, Ends, Live, LivePcs, TimerPcs
  <2>4. CASE Halts(k)
    BY <2>4 DEF Halts, Ends, Live, LivePcs, TimerPcs
  <2>5. CASE Halted(k) \/ Unwinds(k)
    BY <2>5 DEF Halted, Unwinds, Ends, Live, LivePcs, TimerPcs
  <2>6. QED
    BY <2>1, <2>2, <2>3, <2>4, <2>5 DEF Countdown
<1>2. PICK where \in TimerPcs : pc' = At(k, where) /\ (where \in LivePcs => Live(k))
  BY <1>1
<1>3. \A x \in Everyone : pc'[x] = IF x = k THEN where ELSE pc[x]
  BY <1>2 DEF At, Base, TypeOK, Everyone
<1>4. UNCHANGED <<enabled, op, failed>>
  BY DEF Countdown, Expires, Verifies, ListAnswers, Halts, Halted, Unwinds
<1>5. QED
  BY <1>2, <1>3, <1>4 DEF Live, Everyone

LEMMA QuietStep ==
    ASSUME Base, QuietInv, [Next]_vars
    PROVE  QuietInv'
<1>1. ASSUME NEW p \in Players, Joins(p) \/ Leaves(p)
      PROVE  QuietInv'
  BY <1>1, QuietKept DEF Joins, Leaves, Live
<1>2. CASE Boots \/ ServerExits \/ UNCHANGED vars
  BY <1>2, QuietKept DEF Boots, ServerExits, vars, Live
<1>3. CASE Monitor
  <2>1. enabled' = enabled /\ op' = op /\ failed' = failed
    BY <1>3 DEF Monitor, ReadReady, ReadJoin, ReadLeave, Reads
  <2>2. Schedule(pc) \/ Cancel(pc) \/ UNCHANGED <<pc, current>>
    BY <1>3 DEF Monitor, ReadReady, ReadJoin, ReadLeave
  <2>3. CASE enabled
    BY <2>1, <2>3 DEF QuietInv
  <2>4. CASE UNCHANGED <<pc, current>>
    BY <2>1, <2>4, QuietKept DEF Live
  <2>5. CASE ~enabled /\ (Schedule(pc) \/ Cancel(pc))
    <3>1. Moved(pc)
      BY MovedFacts DEF Base
    <3>2. NoneLive'
      BY <2>5, <3>1, CancelSwitches, ScheduleSwitches, SwitchedOff
    <3>3. QED
      BY <3>2 DEF QuietInv, NoneLive
  <2>6. QED
    BY <2>2, <2>3, <2>4, <2>5
<1>4. ASSUME NEW k \in Timers, Countdown(k)
      PROVE  QuietInv'
  <2>1. /\ \A j \in Timers : Live(j)' => Live(j)
        /\ \A u \in Users : pc'[u] = pc[u]
        /\ UNCHANGED <<enabled, op, failed>>
    BY <1>4, CountdownKeepsTasks
  <2>2. QED
    BY <2>1, QuietKept
<1>5. ASSUME NEW u \in Users, NEW on \in BOOLEAN, SetTimeout(u, on)
      PROVE  QuietInv'
  <2>1. CASE on
    BY <1>5, <2>1 DEF SetTimeout, QuietInv
  <2>2. CASE ~on
    <3>1. pc'[u] = "persist" /\ op'[u] = "off"
      BY <1>5, <2>2 DEF SetTimeout, At, Base, TypeOK
    <3>2. QED
      BY <3>1 DEF QuietInv
  <2>3. QED
    BY <2>1, <2>2
<1>6. ASSUME NEW u \in Users, NEW o \in {"start", "stop", "restart"}, Calls(u, o)
      PROVE  QuietInv'
  <2>1. /\ \A k \in Timers : pc'[k] = pc[k]
        /\ \A v \in Users : pc[v] = "persist" => pc'[v] = "persist" /\ op'[v] = op[v]
        /\ enabled' = enabled /\ failed' = failed
    BY <1>6 DEF Calls, At, Base, TypeOK
  <2>2. QED
    BY <2>1 DEF QuietInv, Live
<1>7. ASSUME NEW u \in Users, Serve(u)
      PROVE  QuietInv'
  BY <1>7, QuietServe
<1>8. CASE BotRestarts
  <2>1. \A k \in Timers : pc'[k] = "free"
    BY <1>8 DEF BotRestarts, Asleep
  <2>2. QED
    BY <2>1 DEF QuietInv, Live, LivePcs
<1>9. QED
  BY <1>1, <1>2, <1>3, <1>4, <1>5, <1>6, <1>7, <1>8 DEF Next

\* Under every fault: once auto-stop is off, and was written so, and every request is
\* answered, no countdown is under way.
THEOREM SwitchedOffIsQuiet == Spec => []DisabledMeansQuiet
<1>1. Init => QuietInv
  <2> SUFFICES ASSUME Init PROVE QuietInv
    OBVIOUS
  <2>1. \A k \in Timers : pc[k] = "free"
    BY DEF Init, Asleep
  <2>2. QED
    BY <2>1 DEF QuietInv, Live, LivePcs
<1>2. Base /\ QuietInv /\ [Next]_vars => QuietInv'
  BY QuietStep
<1>3. QuietInv => DisabledMeansQuiet
  BY DEF QuietInv, DisabledMeansQuiet
<1>4. QED
  BY <1>1, <1>2, <1>3, BaseCorrect, PTL DEF Spec

-----------------------------------------------------------------------------
(* The players that auto-stop spares.                                        *)

\* A countdown whose `list` said zero has seen nobody come since whose join was read:
\* reading a join would have cancelled it.
AgreedInv ==
    /\ server = "down" => online = {}
    /\ \A k \in Timers : pc[k] = "agreed" => \A p \in online : JoinUnread(p)

LEMMA WrittenStaysUnread ==
    ASSUME TypeOK, NEW line \in Lines, log' = Append(log, line), NEW p, JoinUnread(p)
    PROVE  JoinUnread(p)'
<1>1. PICK i \in 1..Len(log) : log[i] = [kind |-> "join", who |-> p]
  BY DEF JoinUnread
<1>2. log \in Seq(Lines) /\ Len(log') = Len(log) + 1 /\ log'[i] = log[i]
  BY <1>1 DEF TypeOK
<1>3. i \in 1..Len(log')
  BY <1>2
<1>4. QED
  BY <1>1, <1>2, <1>3 DEF JoinUnread

LEMMA JoinIsUnread ==
    ASSUME TypeOK, NEW p \in Players, Joins(p)
    PROVE  JoinUnread(p)'
<1>1. /\ log \in Seq(Lines) /\ Len(log') = Len(log) + 1
      /\ log'[Len(log) + 1] = [kind |-> "join", who |-> p]
  BY LineFacts DEF TypeOK, Joins
<1>2. Len(log) + 1 \in 1..Len(log')
  BY <1>1
<1>3. QED
  BY <1>1, <1>2 DEF JoinUnread

LEMMA OthersStayUnread ==
    ASSUME TypeOK, log # <<>>, Head(log).kind # "join", log' = Tail(log), NEW p, JoinUnread(p)
    PROVE  JoinUnread(p)'
<1>1. PICK i \in 1..Len(log) : log[i] = [kind |-> "join", who |-> p]
  BY DEF JoinUnread
<1>2. log \in Seq(Lines) /\ Head(log) = log[1]
  BY DEF TypeOK
<1>3. i # 1
  BY <1>1, <1>2
<1>4. Len(log') = Len(log) - 1 /\ i - 1 \in 1..Len(log') /\ log'[i - 1] = log[i]
  BY <1>1, <1>2, <1>3
<1>5. QED
  BY <1>1, <1>4 DEF JoinUnread

\* A step that leaves the countdowns, the players and the log alone, or lets nobody be
\* "agreed".
NoneAgreed == \A k \in Timers : pc[k] # "agreed"

LEMMA AgreedServe ==
    ASSUME Base, AgreedInv, NEW u \in Users, Serve(u)
    PROVE  AgreedInv'
<1>1. \/ Cancel(At(u, "idle")) \/ Schedule(At(u, "idle"))
      \/ \E where \in UserPcs : pc' = At(u, where)
  <2>1. CASE Persisted(u) \/ PersistRaises(u)
    BY <2>1 DEF Persisted, PersistRaises, Arm, UserPcs
  <2>2. CASE StatusAnswers(u)
    BY <2>2 DEF StatusAnswers, UserPcs
  <2>3. CASE ArmEnds(u)
    BY <2>3 DEF ArmEnds
  <2>4. CASE StopBegins(u) \/ StopEnds(u)
    BY <2>4 DEF StopBegins, StopEnds, AfterStop, UserPcs
  <2>5. CASE StartBegins(u) \/ StartEnds(u)
    BY <2>5 DEF StartBegins, StartEnds, Arm, UserPcs
  <2>6. QED
    BY <2>1, <2>2, <2>3, <2>4, <2>5 DEF Serve
<1>2. \/ online' = {}
      \/ online' = online /\ log' = log /\ server' = server
  BY DEF Serve, Persisted, PersistRaises, StatusAnswers, ArmEnds, StopBegins, StopEnds,
    StartBegins, StartEnds, AgreedInv
<1>3. CASE online' = {}
  BY <1>3 DEF AgreedInv
<1>4. CASE /\ online' = online /\ log' = log /\ server' = server
           /\ \E where \in UserPcs : pc' = At(u, where)
  <2>1. \A k \in Timers : pc'[k] = pc[k]
    BY <1>4 DEF At, Base, TypeOK
  <2>2. QED
    BY <1>4, <2>1 DEF AgreedInv, JoinUnread
<1>5. CASE /\ online' = online /\ log' = log /\ server' = server
           /\ Cancel(At(u, "idle")) \/ Schedule(At(u, "idle"))
  <2>1. Moved(At(u, "idle"))
    BY MovedFacts DEF Base, UserPcs
  <2>2. NoneAgreed'
    BY <1>5, <2>1, CancelSwitches, ScheduleSwitches DEF Switched, NoneAgreed
  <2>3. QED
    BY <1>5, <2>2 DEF AgreedInv, NoneAgreed
<1>6. QED
  BY <1>1, <1>2, <1>3, <1>4, <1>5

LEMMA AgreedMonitor ==
    ASSUME Base, AgreedInv, Monitor
    PROVE  AgreedInv'
<1>1. UNCHANGED <<server, online>> /\ log # <<>> /\ log' = Tail(log)
  BY DEF Monitor, ReadReady, ReadJoin, ReadLeave, Reads
<1>2. CASE Schedule(pc) \/ Cancel(pc)
  <2>1. Moved(pc)
    BY MovedFacts DEF Base
  <2>2. NoneAgreed'
    BY <1>2, <2>1, CancelSwitches, ScheduleSwitches DEF Switched, NoneAgreed
  <2>3. QED
    BY <1>1, <2>2 DEF AgreedInv, NoneAgreed
<1>3. CASE UNCHANGED pc /\ Head(log).kind # "join"
  <2>1. \A p : JoinUnread(p) => JoinUnread(p)'
    BY <1>1, <1>3, OthersStayUnread DEF Base
  <2>2. QED
    BY <1>1, <1>3, <2>1 DEF AgreedInv
<1>4. QED
  BY <1>2, <1>3 DEF Monitor, ReadReady, ReadJoin, ReadLeave, Reads

LEMMA AgreedCountdown ==
    ASSUME Base, AgreedInv, NEW k \in Timers, Countdown(k)
    PROVE  AgreedInv'
<1>1. \A where : \A j \in Timers : At(k, where)[j] = IF j = k THEN where ELSE pc[j]
  BY DEF At, Base, TypeOK
<1>2. CASE Halted(k)
  BY <1>2 DEF Halted, AgreedInv
<1>3. CASE ListAnswers(k)
  BY <1>1, <1>3 DEF ListAnswers, Ends, AgreedInv, JoinUnread
<1>4. CASE Expires(k) \/ Verifies(k) \/ Halts(k) \/ Unwinds(k)
  <2>1. UNCHANGED <<server, online, log>>
    BY <1>4 DEF Expires, Verifies, Halts, Unwinds
  <2>2. \A j \in Timers : pc'[j] = "agreed" => pc[j] = "agreed"
    BY <1>1, <1>4 DEF Expires, Verifies, Halts, Unwinds, Ends
  <2>3. QED
    BY <2>1, <2>2 DEF AgreedInv, JoinUnread
<1>5. QED
  BY <1>2, <1>3, <1>4 DEF Countdown

LEMMA AgreedMinecraft ==
    ASSUME Base, AgreedInv, Boots \/ ServerExits \/ \E p \in Players : Joins(p) \/ Leaves(p)
    PROVE  AgreedInv'
<1>1. CASE ServerExits
  BY <1>1 DEF ServerExits, AgreedInv
<1>2. CASE Boots
  <2>1. \A p : JoinUnread(p) => JoinUnread(p)'
    BY <1>2, WrittenStaysUnread, LineFacts DEF Boots, Base
  <2>2. QED
    BY <1>2, <2>1 DEF Boots, AgreedInv
<1>3. ASSUME NEW q \in Players, Joins(q) \/ Leaves(q)
      PROVE  AgreedInv'
  <2>1. PICK line \in Lines : log' = Append(log, line)
    BY <1>3, LineFacts DEF Joins, Leaves
  <2>2. \A p : JoinUnread(p) => JoinUnread(p)'
    BY <2>1, WrittenStaysUnread DEF Base
  <2>3. Joins(q) => JoinUnread(q)'
    BY JoinIsUnread DEF Base
  <2>4. UNCHANGED <<pc, server>> /\ server = "ready"
    BY <1>3 DEF Joins, Leaves
  <2>5. CASE Joins(q)
    <3>1. online' = online \cup {q}
      BY <2>5 DEF Joins
    <3>2. QED
      BY <2>2, <2>3, <2>4, <2>5, <3>1 DEF AgreedInv
  <2>6. CASE Leaves(q)
    <3>1. online' = online \ {q}
      BY <2>6 DEF Leaves
    <3>2. QED
      BY <2>2, <2>4, <3>1 DEF AgreedInv
  <2>7. QED
    BY <1>3, <2>5, <2>6
<1>4. QED
  BY <1>1, <1>2, <1>3

LEMMA AgreedStep ==
    ASSUME Base, AgreedInv, [Next]_vars
    PROVE  AgreedInv'
<1>1. CASE UNCHANGED vars
  BY <1>1 DEF vars, AgreedInv, JoinUnread
<1>2. ASSUME NEW u \in Users,
             \/ \E on \in BOOLEAN : SetTimeout(u, on)
             \/ \E o \in {"start", "stop", "restart"} : Calls(u, o)
      PROVE  AgreedInv'
  <2>1. /\ \A k \in Timers : pc'[k] = pc[k]
        /\ UNCHANGED <<server, online, log>>
    BY <1>2 DEF SetTimeout, Calls, At, Base, TypeOK
  <2>2. QED
    BY <2>1 DEF AgreedInv, JoinUnread
<1>3. CASE BotRestarts
  <2>1. NoneAgreed' /\ UNCHANGED <<server, online>>
    BY <1>3 DEF BotRestarts, Asleep, NoneAgreed
  <2>2. QED
    BY <2>1 DEF AgreedInv, NoneAgreed
<1>4. QED
  BY <1>1, <1>2, <1>3, AgreedServe, AgreedMonitor, AgreedCountdown, AgreedMinecraft DEF Next

\* Under every fault, no player whose join the bot has read is online when a countdown
\* begins to stop the server.
THEOREM PlayersSpared == Spec => KnownPlayersSpared
<1>1. Init => AgreedInv
  BY DEF Init, AgreedInv
<1>2. Base /\ AgreedInv /\ [Next]_vars => AgreedInv'
  BY AgreedStep
<1>3. AgreedInv => [\A k \in Timers :
                      pc[k] = "agreed" /\ pc'[k] = "halting" => \A p \in online : JoinUnread(p)]_vars
  BY DEF AgreedInv
<1>4. QED
  BY <1>1, <1>2, <1>3, BaseCorrect, PTL DEF Spec, KnownPlayersSpared
=============================================================================
