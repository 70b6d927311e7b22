-------------------------- MODULE AutoBackup_proofs --------------------------
(***************************************************************************)
(* What TLAPS proves of AutoBackup, for any servers, users, interval and   *)
(* backoff: type correctness under every fault; that nothing is lost on a  *)
(* restart, and what is owed stays owed, while the state file can be       *)
(* written; one archive per interval across shutdowns; and the backoff of  *)
(* a failed archive while failures are reported.                           *)
(***************************************************************************)
EXTENDS AutoBackup, TLAPS

WorkingPcs == {"status", "enter", "archive"}

\* Who may be where: only the scheduler archives, on a server that has a schedule; a
\* server's lock and the write lock have one holder.
Exclusive ==
    /\ \A u \in Users : pc[u] \in PersistPcs \cup {"idle"}
    /\ \A t, u \in Tasks : pc[t] \in BusyPcs /\ pc[u] \in BusyPcs /\ on[t] = on[u] => t = u
    /\ \A t, u \in Tasks : pc[t] = "writing" /\ pc[u] = "writing" => t = u
    /\ backoff => pc[Scheduler] \in PersistPcs
    /\ pc[Scheduler] \in WorkingPcs => schedules[on[Scheduler]] \in Schedule

Base == TypeOK /\ Exclusive

LEMMA ConstantFacts ==
    /\ Scheduler \in Tasks
    /\ \A u \in Users : u \in Tasks
    /\ \A t \in Tasks : t \in Users \/ t = Scheduler
    /\ Scheduler \notin Users
    /\ NoSchedule \notin Schedule
    /\ Interval \in Nat /\ Interval > 0
    /\ Retry \in Nat /\ Retry > 0 /\ Retry <= Interval
  BY AutoBackupAssumption, NoScheduleAssumption DEF Tasks

LEMMA NothingTyped == NoSchedules \in Table
  BY DEF NoSchedules, Table

LEMMA TableFacts ==
    /\ \A table \in Table : Sooner(table) \in Table
    /\ \A table \in Table, s \in Servers :
          /\ table[s] = NoSchedule => Sooner(table)[s] = NoSchedule
          /\ table[s] # NoSchedule =>
                /\ Sooner(table)[s] # NoSchedule
                /\ Sooner(table)[s] \in Schedule
                /\ Sooner(table)[s].due = Less(table[s].due)
                /\ Sooner(table)[s].pending = table[s].pending
<1>1. ASSUME NEW table \in Table, NEW s \in Servers
      PROVE  /\ Sooner(table)[s] \in Schedule \cup {NoSchedule}
             /\ table[s] = NoSchedule => Sooner(table)[s] = NoSchedule
             /\ table[s] # NoSchedule =>
                   /\ Sooner(table)[s] # NoSchedule
                   /\ Sooner(table)[s] \in Schedule
                   /\ Sooner(table)[s].due = Less(table[s].due)
                   /\ Sooner(table)[s].pending = table[s].pending
  <2>1. CASE table[s] = NoSchedule
    BY <2>1 DEF Sooner
  <2>2. CASE table[s] # NoSchedule
    <3>1. table[s] \in Schedule
      BY <2>2 DEF Table
    <3>2. Less(table[s].due) \in 0..Interval
      BY <3>1, ConstantFacts DEF Less, Schedule
    <3>3. Sooner(table)[s] = [table[s] EXCEPT !.due = Less(@)]
      BY <2>2 DEF Sooner
    <3>4. QED
      BY <3>1, <3>2, <3>3, ConstantFacts DEF Schedule
  <2>3. QED
    BY <2>1, <2>2
<1>2. \A table \in Table : Sooner(table) \in Table
  BY <1>1 DEF Sooner, Table
<1>3. QED
  BY <1>1, <1>2

LEMMA BaseInit == Init => Base
<1> USE ConstantFacts DEF Init
<1> SUFFICES ASSUME Init PROVE Base
  OBVIOUS
<1>1. \A t \in Tasks : pc[t] = "idle"
  OBVIOUS
<1>2. on \in [Tasks -> Servers]
  OBVIOUS
<1>3. TypeOK
  <2>1. 0 \in 0..Retry /\ Retry \in 0..Retry /\ Interval \in 0..Interval
    OBVIOUS
  <2>2. payload \in [Tasks -> Table] /\ schedules \in Table /\ disk \in Table
    BY NothingTyped
  <2>3. QED
    BY <1>2, <2>1, <2>2 DEF TypeOK, BusyPcs, PersistPcs
<1>4. Exclusive
  BY <1>1 DEF Exclusive, WorkingPcs, BusyPcs, PersistPcs, Tasks
<1>5. QED
  BY <1>3, <1>4 DEF Base

\* The schedule that replaces the one the scheduler works on.
LEMMA CurrentTyped ==
    ASSUME Base, pc[Scheduler] \in WorkingPcs
    PROVE  /\ Current \in Schedule
           /\ Current.due \in 0..Interval
           /\ Current.pending \in BOOLEAN
           /\ [due |-> Current.due, pending |-> TRUE] \in Schedule
           /\ [due |-> Interval, pending |-> FALSE] \in Schedule
  BY ConstantFacts DEF Base, Exclusive, Current, Schedule

LEMMA BaseInductive ==
    ASSUME Base, [Next]_vars
    PROVE  Base'
<1> USE ConstantFacts
<1> USE DEF Goto, history, BusyPcs, PersistPcs, WorkingPcs
<1>1. CASE Tick
  <2>1. /\ \A n \in 0..Retry : Less(n) \in 0..Retry /\ More(n, Retry) \in 0..Retry
        /\ \A n \in 0..Interval : More(n, Interval) \in 0..Interval
    BY DEF Less, More
  <2>2. TypeOK'
    BY <1>1, <2>1, TableFacts DEF Base, TypeOK, Tick
  <2>3. schedules[on[Scheduler]] \in Schedule => schedules'[on[Scheduler]] \in Schedule
    BY <1>1, TableFacts DEF Base, TypeOK, Tick
  <2>4. QED
    BY <1>1, <2>2, <2>3 DEF Base, Exclusive, Tick
<1>2. ASSUME NEW s \in Servers, ServerStarts(s) \/ ServerStops(s)
      PROVE  Base'
  BY <1>2 DEF Base, TypeOK, Exclusive, ServerStarts, ServerStops
<1>3. ASSUME NEW t \in Tasks, Collect(t)
      PROVE  Base'
  BY <1>3 DEF Base, TypeOK, Exclusive, Collect
<1>4. ASSUME NEW t \in Tasks, StateWritten(t) \/ WriteRaises(t)
      PROVE  Base'
  <2>1. /\ Leave(t) /\ pc[t] = "writing"
        /\ disk' \in Table
        /\ retry' \in [Servers -> 0..Retry]
    BY <1>4 DEF Base, TypeOK, StateWritten, WriteRaises
  <2>2. TypeOK'
    BY <2>1, NothingTyped DEF Base, TypeOK, Leave
  <2>3. Exclusive'
    BY <2>1 DEF Base, TypeOK, Exclusive, Leave
  <2>4. QED
    BY <2>2, <2>3 DEF Base
<1>5. ASSUME NEW u \in Users, NEW s \in Servers, NEW enable \in BOOLEAN, SetInterval(u, s, enable)
      PROVE  Base'
  <2>1. TypeOK'
    BY <1>5 DEF Base, TypeOK, SetInterval, Table, Schedule, Tasks
  <2>2. pc[Scheduler] \in WorkingPcs => on[Scheduler] # s
    BY <1>5 DEF SetInterval, Locked
  <2>3. Exclusive'
    BY <1>5, <2>2 DEF Base, TypeOK, Exclusive, SetInterval, Locked, Tasks
  <2>4. QED
    BY <2>1, <2>3 DEF Base
<1>6. CASE Round \/ RoundEnds
  <2>1. TypeOK'
    BY <1>6 DEF Base, TypeOK, Round, RoundEnds
  <2>2. \A t \in Tasks : pc'[t] = pc[t] \/ pc'[t] \notin BusyPcs
    BY <1>6 DEF Base, TypeOK, Round, RoundEnds
  <2>3. \A u \in Users : pc'[u] = pc[u]
    BY <1>6 DEF Base, TypeOK, Round, RoundEnds
  <2>4. ~backoff /\ UNCHANGED <<backoff, on, schedules>>
    BY <1>6 DEF Base, Exclusive, Round, RoundEnds
  <2>5. Exclusive'
    BY <2>2, <2>3, <2>4 DEF Base, Exclusive
  <2>6. QED
    BY <2>1, <2>5 DEF Base
<1>7. ASSUME NEW s \in Servers, CheckServer(s)
      PROVE  Base'
  <2>1. TypeOK'
    BY <1>7 DEF Base, TypeOK, CheckServer
  <2>2. Owed(schedules[s]) => schedules[s] \in Schedule
    BY DEF Owed, Base, TypeOK, Table
  <2>3. Exclusive'
    BY <1>7, <2>2 DEF Base, TypeOK, Exclusive, CheckServer, Locked
  <2>4. QED
    BY <2>1, <2>3 DEF Base
<1>8. CASE FindsRunning \/ Archived \/ ArchiveFails
  <2>1. pc[Scheduler] \in WorkingPcs
    BY <1>8 DEF FindsRunning, Archived, ArchiveFails
  <2>2. PICK new \in Schedule : schedules' = [schedules EXCEPT ![on[Scheduler]] = new]
    BY <1>8, <2>1, CurrentTyped DEF FindsRunning, Archived, ArchiveFails, SetSchedule
  <2>3. /\ UNCHANGED <<on, todo, stopping, payload, disk, up>>
        /\ pc' \in {[pc EXCEPT ![Scheduler] = "next"], [pc EXCEPT ![Scheduler] = "persist"]}
    BY <1>8 DEF FindsRunning, Archived, ArchiveFails
  <2>4. /\ backoff' \in BOOLEAN
        /\ backoff' => pc' = [pc EXCEPT ![Scheduler] = "persist"]
        /\ retry' \in [Servers -> 0..Retry]
        /\ sinceFailed' \in [Servers -> 0..Retry]
        /\ sinceMade' \in [Servers -> 0..Interval]
    <3>1. 0 \in 0..Retry /\ 0 \in 0..Interval /\ ~backoff
      BY <2>1 DEF Base, Exclusive
    <3>2. CASE FindsRunning
      BY <3>1, <3>2 DEF Base, TypeOK, FindsRunning
    <3>3. CASE Archived
      BY <3>1, <3>3 DEF Base, TypeOK, Archived, Made
    <3>4. CASE ArchiveFails
      BY <3>1, <3>4 DEF Base, TypeOK, ArchiveFails, Failed
    <3>5. QED
      BY <1>8, <3>2, <3>3, <3>4
  <2>5. TypeOK'
    BY <2>2, <2>3, <2>4 DEF Base, TypeOK, Table
  <2>6. Exclusive'
    <3>1. pc'[Scheduler] \notin WorkingPcs /\ (backoff' => pc'[Scheduler] \in PersistPcs)
      BY <2>3, <2>4 DEF Base, TypeOK
    <3>2. \A u \in Users : pc'[u] = pc[u]
      BY <2>3 DEF Base, TypeOK
    <3>3. \A t \in Tasks : pc'[t] \in BusyPcs => pc[t] \in BusyPcs
      BY <2>1, <2>3 DEF Base, TypeOK
    <3>4. \A t \in Tasks : pc'[t] = "writing" => pc[t] = "writing"
      BY <2>3 DEF Base, TypeOK
    <3>5. QED
      BY <2>3, <3>1, <3>2, <3>3, <3>4 DEF Base, Exclusive
  <2>7. QED
    BY <2>5, <2>6 DEF Base
<1>9. CASE FindsStopped \/ ArchiveRaises
  <2>1. TypeOK'
    BY <1>9 DEF Base, TypeOK, FindsStopped, ArchiveRaises, Failed
  <2>2. /\ pc[Scheduler] \in WorkingPcs
        /\ \E where \in WorkingPcs \cup {"next"} : pc' = [pc EXCEPT ![Scheduler] = where]
        /\ UNCHANGED <<on, backoff, schedules>>
    BY <1>9 DEF FindsStopped, ArchiveRaises
  <2>3. Exclusive'
    BY <2>2 DEF Base, TypeOK, Exclusive
  <2>4. QED
    BY <2>1, <2>3 DEF Base
<1>10. CASE Shutdown
  BY <1>10 DEF Base, TypeOK, Exclusive, Shutdown
<1>11. CASE Restart
  <2>1. 0 \in 0..Retry
    OBVIOUS
  <2>2. /\ payload' \in [Tasks -> Table] /\ retry' \in [Servers -> 0..Retry]
        /\ sinceFailed' \in [Servers -> 0..Retry]
    BY <1>11, <2>1, NothingTyped, ConstantFacts DEF Restart
  <2>3. TypeOK'
    BY <1>11, <2>2 DEF Base, TypeOK, Restart
  <2>4. Exclusive'
    BY <1>11 DEF Base, TypeOK, Exclusive, Restart, Tasks
  <2>5. QED
    BY <2>3, <2>4 DEF Base
<1>12. CASE UNCHANGED vars
  BY <1>12 DEF Base, TypeOK, Exclusive, vars
<1>13. QED
  BY <1>1, <1>2, <1>3, <1>4, <1>5, <1>6, <1>7, <1>8, <1>9, <1>10, <1>11, <1>12
  DEF Next, Persist, Schedules

\* Under every fault each variable keeps its type, and no lock has two holders.
THEOREM TypeCorrect == Spec => []Base
  BY BaseInit, BaseInductive, PTL DEF Spec

THEOREM TypesKept == Spec => []TypeOK
<1>1. Base => TypeOK
  BY DEF Base
<1>2. QED
  BY <1>1, TypeCorrect, PTL

-----------------------------------------------------------------------------
(* The state file.                                                           *)

\* Only a server whose task is persisting may differ on disk; what is being written
\* differs only for a server whose task has yet to write.
SavedInv ==
    /\ \A s \in Servers :
          disk[s] = schedules[s] \/ \E u \in Tasks : pc[u] \in PersistPcs /\ on[u] = s
    /\ \A t \in Tasks : pc[t] = "writing" =>
          \A s \in Servers :
             payload[t][s] = schedules[s] \/ \E u \in Tasks : pc[u] = "persist" /\ on[u] = s

\* The scheduler's own moves while it persists nothing.
LEMMA SchedulerMoves ==
    ASSUME Base, Round \/ RoundEnds \/ (\E s \in Servers : CheckServer(s)) \/ FindsRunning
                 \/ FindsStopped \/ Archived \/ ArchiveFails \/ ArchiveRaises
    PROVE  /\ pc[Scheduler] \notin PersistPcs
           /\ pc'[Scheduler] # "writing"
           /\ \A u \in Users : pc'[u] = pc[u] /\ on'[u] = on[u]
           /\ UNCHANGED <<payload, disk, up, stopping>>
<1> USE ConstantFacts
<1> USE DEF Goto, PersistPcs, Base, TypeOK, history
<1>1. CASE Round
  BY <1>1 DEF Round
<1>2. CASE RoundEnds
  BY <1>2 DEF RoundEnds
<1>3. ASSUME NEW s \in Servers, CheckServer(s)
      PROVE  /\ pc[Scheduler] \notin PersistPcs
             /\ pc'[Scheduler] # "writing"
             /\ \A u \in Users : pc'[u] = pc[u] /\ on'[u] = on[u]
             /\ UNCHANGED <<payload, disk, up, stopping>>
  BY <1>3 DEF CheckServer
<1>4. CASE FindsRunning
  BY <1>4 DEF FindsRunning
<1>5. CASE FindsStopped
  BY <1>5 DEF FindsStopped
<1>6. CASE Archived
  BY <1>6 DEF Archived
<1>7. CASE ArchiveFails
  BY <1>7 DEF ArchiveFails
<1>8. CASE ArchiveRaises
  BY <1>8 DEF ArchiveRaises
<1>9. QED
  BY <1>1, <1>2, <1>3, <1>4, <1>5, <1>6, <1>7, <1>8

LEMMA SavedInductive ==
    ASSUME "disk" \notin Faults, Base, Base', SavedInv, [Next]_vars
    PROVE  SavedInv'
<1> USE ConstantFacts
<1>1. CASE Tick
  <2>1. \A x, y \in Table, s \in Servers : x[s] = y[s] => Sooner(x)[s] = Sooner(y)[s]
    BY DEF Sooner
  <2>2. /\ schedules' = Sooner(schedules) /\ disk' = Sooner(disk)
        /\ \A t \in Tasks : payload'[t] = Sooner(payload[t])
        /\ UNCHANGED <<pc, on>>
    BY <1>1 DEF Tick
  <2>3. schedules \in Table /\ disk \in Table /\ \A t \in Tasks : payload[t] \in Table
    BY DEF Base, TypeOK
  <2>4. QED
    BY <2>1, <2>2, <2>3 DEF SavedInv
<1>2. ASSUME NEW s \in Servers, ServerStarts(s) \/ ServerStops(s)
      PROVE  SavedInv'
  BY <1>2 DEF SavedInv, ServerStarts, ServerStops
<1>3. ASSUME NEW t \in Tasks, Collect(t)
      PROVE  SavedInv'
  <2>1. /\ pc[t] = "persist" /\ pc' = [pc EXCEPT ![t] = "writing"]
        /\ \A u \in Tasks : pc[u] # "writing"
        /\ payload' = [payload EXCEPT ![t] = schedules]
        /\ UNCHANGED <<on, schedules, disk>>
    BY <1>3 DEF Collect, Goto
  <2>2. \A u \in Tasks : (pc'[u] \in PersistPcs) = (pc[u] \in PersistPcs)
    BY <2>1 DEF Base, TypeOK, PersistPcs
  <2>3. \A u \in Tasks : pc'[u] = "writing" => payload'[u] = schedules
    BY <2>1 DEF Base, TypeOK
  <2>4. QED
    BY <2>1, <2>2, <2>3 DEF SavedInv
<1>4. ASSUME NEW t \in Tasks, StateWritten(t) \/ WriteRaises(t)
      PROVE  SavedInv'
  <2>1. /\ pc[t] = "writing" /\ disk' = payload[t]
        /\ UNCHANGED <<on, schedules>>
        /\ \A u \in Tasks : pc[u] = "persist" => pc'[u] = "persist"
        /\ \A u \in Tasks : pc'[u] # "writing"
    BY <1>4 DEF StateWritten, WriteRaises, Leave, Goto, Base, TypeOK, Exclusive
  <2>2. QED
    BY <2>1 DEF SavedInv, PersistPcs
<1>5. ASSUME NEW u \in Users, NEW s \in Servers, NEW enable \in BOOLEAN, SetInterval(u, s, enable)
      PROVE  SavedInv'
  <2>1. /\ pc[u] = "idle" /\ pc'[u] = "persist" /\ on'[u] = s
        /\ \A t \in Tasks \ {u} : pc'[t] = pc[t] /\ on'[t] = on[t]
        /\ \A r \in Servers \ {s} : schedules'[r] = schedules[r]
        /\ UNCHANGED <<disk, payload>>
    BY <1>5 DEF SetInterval, Goto, Base, TypeOK, Table
  <2>2. QED
    BY <2>1 DEF SavedInv, PersistPcs
<1>6. ASSUME NEW s \in Servers, Round \/ RoundEnds \/ CheckServer(s) \/ FindsStopped \/ ArchiveRaises
      PROVE  SavedInv'
  <2>1. UNCHANGED <<schedules, disk, payload>>
    BY <1>6 DEF Round, RoundEnds, CheckServer, FindsStopped, ArchiveRaises
  <2>2. QED
    BY <1>6, <2>1, SchedulerMoves DEF SavedInv, PersistPcs
<1>7. CASE FindsRunning \/ Archived \/ ArchiveFails
  <2>1. /\ \A s \in Servers \ {on[Scheduler]} : schedules'[s] = schedules[s]
        /\ on' = on
    BY <1>7 DEF FindsRunning, Archived, ArchiveFails, SetSchedule, Base, TypeOK, Table
  <2>2. pc'[Scheduler] = "persist" \/ schedules'[on[Scheduler]] = schedules[on[Scheduler]]
    <3>1. CASE FindsRunning /\ Current.pending
      <4>1. Current \in Schedule
        BY <3>1, CurrentTyped DEF FindsRunning, WorkingPcs
      <4>2. [due |-> Current.due, pending |-> TRUE] = Current
        BY <3>1, <4>1 DEF Schedule
      <4>3. QED
        BY <3>1, <4>2 DEF FindsRunning, SetSchedule, Current, Base, TypeOK, Table
    <3>2. CASE ~(FindsRunning /\ Current.pending)
      BY <1>7, <3>2 DEF FindsRunning, Archived, ArchiveFails, Goto, Base, TypeOK
    <3>3. QED
      BY <3>1, <3>2
  <2>3. /\ pc[Scheduler] \notin PersistPcs /\ pc'[Scheduler] # "writing"
        /\ \A u \in Users : pc'[u] = pc[u]
        /\ UNCHANGED <<payload, disk>>
    BY <1>7, SchedulerMoves
  <2>4. QED
    BY <2>1, <2>2, <2>3 DEF SavedInv, PersistPcs
<1>8. CASE Shutdown
  BY <1>8 DEF SavedInv, Shutdown
<1>9. CASE Restart
  BY <1>9 DEF SavedInv, Restart
<1>10. CASE UNCHANGED vars
  BY <1>10 DEF SavedInv, vars
<1>11. QED
  <2>1. Servers # {}
    BY DEF Base, TypeOK
  <2>2. QED
    BY <1>1, <1>2, <1>3, <1>4, <1>5, <1>6, <1>7, <1>8, <1>9, <1>10, <2>1
    DEF Next, Persist, Schedules

\* Without a disk that fails, and under crashes and restarts at any point, the state
\* file has the schedule of every server whose lock is free.
THEOREM NothingLost ==
    ASSUME "disk" \notin Faults
    PROVE  Spec => []SavedWhenUnlocked
<1>1. Init => SavedInv
  BY DEF Init, SavedInv
<1>2. SavedInv /\ Base /\ Base' /\ [Next]_vars => SavedInv'
  BY SavedInductive
<1>3. SavedInv => SavedWhenUnlocked
  BY DEF SavedInv, SavedWhenUnlocked, Locked, BusyPcs
<1>4. QED
  BY <1>1, <1>2, <1>3, TypeCorrect, PTL DEF Spec

-----------------------------------------------------------------------------
(* One archive per interval.                                                 *)

\* A schedule that becomes due no sooner than one interval after the last archive.
Fresh(schedule, s) ==
    \/ schedule = NoSchedule
    \/ /\ schedule.due + sinceMade[s] >= Interval
       /\ schedule.pending => sinceMade[s] = Interval

\* So is every schedule in memory; on disk and in what is being written, but for an
\* archive the scheduler has yet to save.
OnceInv ==
    /\ \A s \in Servers : Fresh(schedules[s], s)
    /\ \A s \in Servers :
          Fresh(disk[s], s) \/ (pc[Scheduler] \in PersistPcs /\ on[Scheduler] = s)
    /\ \A t \in Tasks, s \in Servers : pc[t] = "writing" =>
          Fresh(payload[t][s], s) \/ (pc[Scheduler] = "persist" /\ on[Scheduler] = s)
    /\ pc[Scheduler] \in WorkingPcs => sinceMade[on[Scheduler]] = Interval

\* A tick keeps the distance between a schedule and the last archive.
LEMMA FreshTicks ==
    ASSUME Base, Tick, NEW table \in Table, NEW s \in Servers, Fresh(table[s], s)
    PROVE  Fresh(Sooner(table)[s], s)'
<1>1. CASE table[s] = NoSchedule
  BY <1>1, TableFacts DEF Fresh
<1>2. CASE table[s] # NoSchedule
  <2>1. /\ Sooner(table)[s].due = Less(table[s].due)
        /\ Sooner(table)[s].pending = table[s].pending
        /\ table[s].due \in 0..Interval
        /\ sinceMade[s] \in 0..Interval
        /\ sinceMade'[s] = More(sinceMade[s], Interval)
    BY <1>2, TableFacts DEF Table, Schedule, Base, TypeOK, Tick
  <2>2. /\ table[s].due + sinceMade[s] >= Interval
        /\ table[s].pending => sinceMade[s] = Interval
    BY <1>2 DEF Fresh
  <2>3. Less(table[s].due) + More(sinceMade[s], Interval) >= Interval
    BY <2>1, <2>2, ConstantFacts DEF Less, More
  <2>4. sinceMade[s] = Interval => sinceMade'[s] = Interval
    BY <2>1 DEF More
  <2>5. QED
    BY <2>1, <2>2, <2>3, <2>4, ConstantFacts DEF Fresh
<1>3. QED
  BY <1>1, <1>2

\* A server the scheduler finds owed is a whole interval away from its last archive.
LEMMA OwedIsFresh ==
    ASSUME Base, NEW s \in Servers, Fresh(schedules[s], s), Owed(schedules[s])
    PROVE  sinceMade[s] = Interval
<1>1. schedules[s] # NoSchedule /\ (schedules[s].pending \/ schedules[s].due = 0)
  BY DEF Owed
<1>2. sinceMade[s] \in 0..Interval
  BY DEF Base, TypeOK
<1>3. QED
  BY <1>1, <1>2, ConstantFacts DEF Fresh

LEMMA OnceInductive ==
    ASSUME "disk" \notin Faults, "crash" \notin Faults, Base, Base', OnceInv, [Next]_vars
    PROVE  OnceInv'
<1> USE ConstantFacts
<1> USE DEF Goto, PersistPcs, WorkingPcs
<1>1. CASE Tick
  <2>1. /\ schedules' = Sooner(schedules) /\ disk' = Sooner(disk)
        /\ \A t \in Tasks : payload'[t] = Sooner(payload[t])
        /\ UNCHANGED <<pc, on>>
    BY <1>1 DEF Tick
  <2>2. \A table \in Table, s \in Servers :
           Fresh(table[s], s) => Fresh(Sooner(table)[s], s)'
    BY <1>1, FreshTicks
  <2>3. schedules \in Table /\ disk \in Table /\ \A t \in Tasks : payload[t] \in Table
    BY DEF Base, TypeOK
  <2>4. \A s \in Servers : sinceMade[s] = Interval => sinceMade'[s] = Interval
    BY <1>1 DEF Tick, More
  <2>5. on[Scheduler] \in Servers
    BY DEF Base, TypeOK
  <2>6. \A s \in Servers : Fresh(schedules[s], s)' /\ (Fresh(disk[s], s) => Fresh(disk[s], s)')
    BY <2>1, <2>2, <2>3 DEF OnceInv, Fresh
  <2>7. \A t \in Tasks, s \in Servers : Fresh(payload[t][s], s) => Fresh(payload[t][s], s)'
    BY <2>1, <2>2, <2>3 DEF Fresh
  <2>8. QED
    BY <2>1, <2>4, <2>5, <2>6, <2>7 DEF OnceInv
<1>2. ASSUME NEW s \in Servers, ServerStarts(s) \/ ServerStops(s)
      PROVE  OnceInv'
  BY <1>2 DEF OnceInv, Fresh, ServerStarts, ServerStops, history
<1>3. ASSUME NEW t \in Tasks, Collect(t)
      PROVE  OnceInv'
  <2>1. /\ pc[t] = "persist" /\ pc' = [pc EXCEPT ![t] = "writing"]
        /\ \A u \in Tasks : pc[u] # "writing"
        /\ payload' = [payload EXCEPT ![t] = schedules]
        /\ UNCHANGED <<on, schedules, disk, sinceMade>>
    BY <1>3 DEF Collect, history
  <2>2. \A u \in Tasks : pc'[u] = "writing" => payload'[u] = schedules
    BY <2>1 DEF Base, TypeOK
  <2>3. pc'[Scheduler] = pc[Scheduler] \/ (pc[Scheduler] = "persist" /\ pc'[Scheduler] = "writing")
    BY <2>1 DEF Base, TypeOK
  <2>4. QED
    BY <2>1, <2>2, <2>3 DEF OnceInv, Fresh
<1>4. ASSUME NEW t \in Tasks, StateWritten(t) \/ WriteRaises(t)
      PROVE  OnceInv'
  <2>1. /\ pc[t] = "writing" /\ disk' = payload[t]
        /\ pc' = [pc EXCEPT ![t] = IF t = Scheduler THEN "next" ELSE "idle"]
        /\ UNCHANGED <<on, schedules, sinceMade>>
    BY <1>4 DEF StateWritten, WriteRaises, Leave, history
  <2>2. \A u \in Tasks : pc'[u] # "writing"
    BY <2>1 DEF Base, TypeOK, Exclusive
  <2>3. pc'[Scheduler] \in {pc[Scheduler], "next"}
    BY <2>1 DEF Base, TypeOK
  <2>4. pc[Scheduler] = "persist" => pc'[Scheduler] = "persist"
    BY <2>1 DEF Base, TypeOK
  <2>5. QED
    BY <2>1, <2>2, <2>3, <2>4 DEF OnceInv, Fresh
<1>5. ASSUME NEW u \in Users, NEW s \in Servers, NEW enable \in BOOLEAN, SetInterval(u, s, enable)
      PROVE  OnceInv'
  <2>1. /\ pc[u] = "idle" /\ pc'[u] = "persist"
        /\ \A t \in Tasks \ {u} : pc'[t] = pc[t] /\ on'[t] = on[t]
        /\ \A r \in Servers \ {s} : schedules'[r] = schedules[r]
        /\ schedules'[s] \in {[due |-> Interval, pending |-> FALSE], NoSchedule}
        /\ UNCHANGED <<disk, payload, sinceMade>>
    BY <1>5 DEF SetInterval, history, Base, TypeOK, Table
  <2>2. Fresh(schedules[s], s)'
    BY <2>1 DEF Fresh, Base, TypeOK
  <2>3. \A r \in Servers : Fresh(schedules[r], r)'
    BY <2>1, <2>2 DEF OnceInv, Fresh
  <2>4. pc'[Scheduler] = pc[Scheduler] /\ on'[Scheduler] = on[Scheduler]
    BY <2>1
  <2>5. QED
    BY <2>1, <2>3, <2>4 DEF OnceInv, Fresh
<1>6. CASE Round \/ RoundEnds \/ FindsStopped \/ ArchiveRaises
  <2>1. /\ UNCHANGED <<schedules, disk, payload, sinceMade, on>>
        /\ pc'[Scheduler] \in WorkingPcs => pc[Scheduler] \in WorkingPcs
    BY <1>6 DEF Round, RoundEnds, FindsStopped, ArchiveRaises, Failed, history, Base, TypeOK
  <2>2. QED
    BY <1>6, <2>1, SchedulerMoves DEF OnceInv, Fresh
<1>7. ASSUME NEW s \in Servers, CheckServer(s)
      PROVE  OnceInv'
  <2>1. /\ UNCHANGED <<schedules, disk, payload, sinceMade>>
        /\ on'[Scheduler] = s
        /\ pc'[Scheduler] \in WorkingPcs => Owed(schedules[s])
    BY <1>7 DEF CheckServer, history, Base, TypeOK
  <2>2. Owed(schedules[s]) => sinceMade[s] = Interval
    BY OwedIsFresh DEF OnceInv
  <2>3. QED
    BY <1>7, <2>1, <2>2, SchedulerMoves DEF OnceInv, Fresh
<1>8. CASE FindsRunning \/ ArchiveFails
  <2>1. pc[Scheduler] \in WorkingPcs /\ on' = on /\ sinceMade' = sinceMade
    BY <1>8 DEF FindsRunning, ArchiveFails, Failed, history
  <2>2. /\ \A s \in Servers \ {on[Scheduler]} : schedules'[s] = schedules[s]
        /\ schedules'[on[Scheduler]] = [due |-> Current.due, pending |-> TRUE]
        /\ pc'[Scheduler] \in {"next", "persist"}
    BY <1>8 DEF FindsRunning, ArchiveFails, SetSchedule, Base, TypeOK, Table
  <2>3. Current.due \in 0..Interval
    BY <2>1, CurrentTyped
  <2>4. Fresh(schedules[on[Scheduler]], on[Scheduler])'
    BY <2>1, <2>2, <2>3 DEF OnceInv, Fresh, Base, TypeOK
  <2>5. \A s \in Servers : Fresh(schedules[s], s)'
    BY <2>1, <2>2, <2>4 DEF OnceInv, Fresh
  <2>6. QED
    BY <1>8, <2>1, <2>2, <2>5, SchedulerMoves DEF OnceInv, Fresh
<1>9. CASE Archived
  <2>1. /\ on' = on /\ pc[Scheduler] = "archive" /\ pc'[Scheduler] = "persist"
        /\ \A s \in Servers \ {on[Scheduler]} :
              schedules'[s] = schedules[s] /\ sinceMade'[s] = sinceMade[s]
        /\ schedules'[on[Scheduler]] = [due |-> Interval, pending |-> FALSE]
        /\ sinceMade'[on[Scheduler]] = 0
    BY <1>9 DEF Archived, Made, SetSchedule, Base, TypeOK, Table
  <2>2. \A s \in Servers : Fresh(schedules[s], s)'
    BY <2>1 DEF OnceInv, Fresh
  <2>3. QED
    BY <1>9, <2>1, <2>2, SchedulerMoves DEF OnceInv, Fresh
<1>10. CASE Shutdown
  BY <1>10 DEF OnceInv, Fresh, Shutdown, history
<1>11. CASE Restart
  <2>1. pc[Scheduler] = "ended"
    BY <1>11 DEF Restart, MayEnd
  <2>2. QED
    BY <1>11, <2>1 DEF Restart, OnceInv, Fresh, history
<1>12. CASE UNCHANGED vars
  BY <1>12 DEF OnceInv, Fresh, vars
<1>13. QED
  <2>1. Servers # {}
    BY DEF Base, TypeOK
  <2>2. QED
    BY <1>1, <1>2, <1>3, <1>4, <1>5, <1>6, <1>7, <1>8, <1>9, <1>10, <1>11, <1>12, <2>1
    DEF Next, Persist, Schedules

\* Only the scheduler begins an archive, after it looked at the server.
LEMMA BeginsAfterCheck ==
    ASSUME Base, [Next]_vars, ArchiveBegins
    PROVE  pc[Scheduler] \in WorkingPcs /\ on[Scheduler] \in Servers
<1> USE ConstantFacts
<1> USE DEF Goto, PersistPcs, WorkingPcs, ArchiveBegins, Base, TypeOK
<1>1. ASSUME NEW t \in Tasks, Persist(t)
      PROVE  FALSE
  BY <1>1 DEF Persist, Collect, StateWritten, WriteRaises, Leave
<1>2. ASSUME NEW u \in Users, NEW s \in Servers, NEW enable \in BOOLEAN, SetInterval(u, s, enable)
      PROVE  FALSE
  BY <1>2 DEF SetInterval
<1>3. CASE Schedules
  BY <1>3 DEF Schedules, Round, RoundEnds, CheckServer, FindsRunning, FindsStopped, Archived,
              ArchiveFails, ArchiveRaises
<1>4. CASE Shutdown \/ Restart \/ Tick \/ UNCHANGED vars
  BY <1>4 DEF Shutdown, Restart, Tick, vars
<1>5. ASSUME NEW s \in Servers, ServerStarts(s) \/ ServerStops(s)
      PROVE  FALSE
  BY <1>5 DEF ServerStarts, ServerStops
<1>6. QED
  BY <1>1, <1>2, <1>3, <1>4, <1>5 DEF Next

\* With a disk that works and shutdowns that wait, at most one archive of a server is
\* begun per interval, whatever fails, runs or is set meanwhile.
THEOREM OneArchivePerInterval ==
    ASSUME "disk" \notin Faults, "crash" \notin Faults
    PROVE  Spec => OncePerInterval
<1>1. Init => OnceInv
  BY ConstantFacts DEF Init, OnceInv, Fresh, NoSchedules, WorkingPcs
<1>2. OnceInv /\ Base /\ Base' /\ [Next]_vars => OnceInv'
  BY OnceInductive
<1>3. OnceInv /\ Base /\ [Next]_vars => [ArchiveBegins => sinceMade[on[Scheduler]] = Interval]_vars
  BY BeginsAfterCheck DEF OnceInv
<1>4. QED
  BY <1>1, <1>2, <1>3, TypeCorrect, PTL DEF Spec, OncePerInterval

-----------------------------------------------------------------------------
(* The backoff.                                                              *)

\* A server whose last archive failed a short while ago is backed off, is about to be,
\* or is not due before the backoff would be over.
Calm(s) ==
    \/ sinceFailed[s] + retry[s] >= Retry
    \/ backoff /\ on[Scheduler] = s
    \/ schedules[s] = NoSchedule
    \/ ~schedules[s].pending /\ schedules[s].due + sinceFailed[s] >= Retry

BackoffInv ==
    /\ \A s \in Servers : Calm(s)
    /\ pc[Scheduler] \in WorkingPcs => sinceFailed[on[Scheduler]] = Retry

LEMMA CalmTicks ==
    ASSUME Base, Tick, NEW s \in Servers, Calm(s)
    PROVE  Calm(s)'
<1> USE ConstantFacts
<1>1. /\ schedules' = Sooner(schedules)
      /\ retry'[s] = Less(retry[s])
      /\ sinceFailed'[s] = More(sinceFailed[s], Retry)
      /\ UNCHANGED <<on, backoff>>
  BY DEF Tick
<1>2. retry[s] \in 0..Retry /\ sinceFailed[s] \in 0..Retry
  BY DEF Base, TypeOK
<1>3. CASE sinceFailed[s] + retry[s] >= Retry
  BY <1>1, <1>2, <1>3 DEF Less, More, Calm
<1>4. CASE backoff /\ on[Scheduler] = s
  BY <1>1, <1>4 DEF Calm
<1>5. CASE schedules[s] = NoSchedule
  BY <1>1, <1>5, TableFacts DEF Calm, Base, TypeOK
<1>6. CASE /\ schedules[s] # NoSchedule
           /\ ~schedules[s].pending /\ schedules[s].due + sinceFailed[s] >= Retry
  <2>1. /\ schedules[s].due \in 0..Interval
        /\ schedules'[s].due = Less(schedules[s].due)
        /\ schedules'[s].pending = schedules[s].pending
    BY <1>1, <1>6, TableFacts DEF Base, TypeOK, Table, Schedule
  <2>2. schedules'[s].due + sinceFailed'[s] >= Retry
    BY <1>1, <1>2, <1>6, <2>1 DEF Less, More
  <2>3. QED
    BY <1>6, <2>1, <2>2 DEF Calm
<1>7. QED
  BY <1>3, <1>4, <1>5, <1>6 DEF Calm

\* A server the scheduler finds owed, with its backoff over, is calm.
LEMMA EligibleIsCalm ==
    ASSUME Base, NEW s \in Servers, Calm(s), ~backoff, Owed(schedules[s]), retry[s] = 0
    PROVE  sinceFailed[s] = Retry
<1>1. schedules[s] # NoSchedule /\ (schedules[s].pending \/ schedules[s].due = 0)
  BY DEF Owed
<1>2. sinceFailed[s] \in 0..Retry
  BY DEF Base, TypeOK
<1>3. QED
  BY <1>1, <1>2, ConstantFacts DEF Calm

LEMMA BackoffInductive ==
    ASSUME "disk" \notin Faults, "raise" \notin Faults, Base, Base', BackoffInv, [Next]_vars
    PROVE  BackoffInv'
<1> USE ConstantFacts
<1> USE DEF Goto, PersistPcs, WorkingPcs
<1>1. CASE Tick
  <2>1. \A s \in Servers : sinceFailed[s] = Retry => sinceFailed'[s] = Retry
    BY <1>1 DEF Tick, More
  <2>2. on[Scheduler] \in Servers /\ UNCHANGED <<on, pc>>
    BY <1>1 DEF Base, TypeOK, Tick
  <2>3. QED
    BY <1>1, <2>1, <2>2, CalmTicks DEF BackoffInv
<1>2. ASSUME NEW s \in Servers, ServerStarts(s) \/ ServerStops(s) \/ Shutdown
      PROVE  BackoffInv'
  BY <1>2 DEF BackoffInv, Calm, ServerStarts, ServerStops, Shutdown, history
<1>3. ASSUME NEW t \in Tasks, Collect(t)
      PROVE  BackoffInv'
  <2>1. /\ UNCHANGED <<on, backoff, schedules, retry, sinceFailed>>
        /\ pc'[Scheduler] \in WorkingPcs => pc[Scheduler] \in WorkingPcs
    BY <1>3 DEF Collect, history, Base, TypeOK
  <2>2. QED
    BY <2>1 DEF BackoffInv, Calm
<1>4. ASSUME NEW t \in Tasks, StateWritten(t) \/ WriteRaises(t)
      PROVE  BackoffInv'
  <2>1. /\ pc'[Scheduler] \in WorkingPcs => pc[Scheduler] \in WorkingPcs
        /\ UNCHANGED <<on, schedules, sinceFailed>>
    BY <1>4 DEF StateWritten, WriteRaises, Leave, history, Base, TypeOK
  <2>2. \/ backoff' = backoff /\ retry' = retry
        \/ /\ backoff' = FALSE
           /\ \A s \in Servers : retry'[s] = IF backoff /\ s = on[Scheduler] THEN Retry ELSE retry[s]
    <3>1. StateWritten(t)
      BY <1>4 DEF WriteRaises
    <3>2. CASE t = Scheduler
      BY <3>1, <3>2 DEF StateWritten, Leave, Base, TypeOK
    <3>3. CASE t # Scheduler
      BY <3>1, <3>3 DEF StateWritten, Leave
    <3>4. QED
      BY <3>2, <3>3
  <2>3. \A s \in Servers : sinceFailed[s] + Retry >= Retry
    BY DEF Base, TypeOK
  <2>4. QED
    BY <2>1, <2>2, <2>3 DEF BackoffInv, Calm
<1>5. ASSUME NEW u \in Users, NEW s \in Servers, NEW enable \in BOOLEAN, SetInterval(u, s, enable)
      PROVE  BackoffInv'
  <2>1. /\ pc'[Scheduler] = pc[Scheduler] /\ on'[Scheduler] = on[Scheduler]
        /\ \A r \in Servers \ {s} : schedules'[r] = schedules[r] /\ retry'[r] = retry[r]
        /\ schedules'[s] \in {[due |-> Interval, pending |-> FALSE], NoSchedule}
        /\ UNCHANGED <<backoff, sinceFailed>>
    BY <1>5 DEF SetInterval, history, Base, TypeOK, Table
  <2>2. sinceFailed[s] \in 0..Retry
    BY DEF Base, TypeOK
  <2>3. Calm(s)'
    BY <2>1, <2>2 DEF Calm
  <2>4. QED
    BY <2>1, <2>3 DEF BackoffInv, Calm
<1>6. CASE Round \/ RoundEnds \/ FindsStopped
  <2>1. /\ UNCHANGED <<on, backoff, schedules, retry, sinceFailed>>
        /\ pc'[Scheduler] \in WorkingPcs => pc[Scheduler] \in WorkingPcs
    BY <1>6 DEF Round, RoundEnds, FindsStopped, history, Base, TypeOK
  <2>2. QED
    BY <2>1 DEF BackoffInv, Calm
<1>7. ASSUME NEW s \in Servers, CheckServer(s)
      PROVE  BackoffInv'
  <2>1. /\ UNCHANGED <<backoff, schedules, retry, sinceFailed>>
        /\ on'[Scheduler] = s /\ ~backoff
        /\ pc'[Scheduler] \in WorkingPcs => Owed(schedules[s]) /\ retry[s] = 0
    BY <1>7 DEF CheckServer, history, Base, TypeOK, Exclusive
  <2>2. Owed(schedules[s]) /\ retry[s] = 0 => sinceFailed[s] = Retry
    BY <2>1, EligibleIsCalm DEF BackoffInv
  <2>3. QED
    BY <2>1, <2>2 DEF BackoffInv, Calm
<1>8. CASE FindsRunning \/ Archived
  <2>1. /\ pc[Scheduler] \in WorkingPcs
        /\ UNCHANGED <<on, backoff, sinceFailed>>
        /\ \A s \in Servers \ {on[Scheduler]} : schedules'[s] = schedules[s] /\ retry'[s] = retry[s]
    BY <1>8 DEF FindsRunning, Archived, Made, SetSchedule, history, Base, TypeOK, Table
  <2>2. pc'[Scheduler] \in {"next", "persist"} /\ retry' \in [Servers -> 0..Retry]
    BY <1>8 DEF FindsRunning, Archived, Base, TypeOK
  <2>3. sinceFailed'[on[Scheduler]] = Retry /\ on[Scheduler] \in Servers
    BY <2>1 DEF BackoffInv, Base, TypeOK
  <2>4. Calm(on[Scheduler])'
    BY <2>1, <2>2, <2>3 DEF Calm
  <2>5. QED
    BY <2>1, <2>2, <2>4 DEF BackoffInv, Calm
<1>9. CASE ArchiveFails
  <2>1. /\ on' = on /\ backoff' = TRUE /\ pc'[Scheduler] = "persist"
        /\ \A s \in Servers \ {on[Scheduler]} :
              schedules'[s] = schedules[s] /\ retry'[s] = retry[s] /\ sinceFailed'[s] = sinceFailed[s]
    BY <1>9 DEF ArchiveFails, Failed, SetSchedule, Base, TypeOK, Table
  <2>2. ~backoff
    BY <1>9 DEF ArchiveFails, Base, Exclusive
  <2>3. QED
    BY <2>1, <2>2 DEF BackoffInv, Calm
<1>10. CASE Restart
  <2>1. /\ pc'[Scheduler] = "idle"
        /\ \A s \in Servers : sinceFailed'[s] = Retry /\ retry'[s] = 0
    BY <1>10 DEF Restart, Tasks
  <2>2. QED
    BY <2>1 DEF BackoffInv, Calm
<1>13. CASE ArchiveRaises
  BY <1>13 DEF ArchiveRaises
<1>11. CASE UNCHANGED vars
  BY <1>11 DEF BackoffInv, Calm, vars
<1>12. QED
  <2>1. Servers # {}
    BY DEF Base, TypeOK
  <2>2. QED
    BY <1>1, <1>2, <1>3, <1>4, <1>5, <1>6, <1>7, <1>8, <1>9, <1>10, <1>11, <1>13, <2>1
    DEF Next, Persist, Schedules

\* While state writes succeed and failures are reported, an archive is not begun again
\* within the backoff of one that failed, whatever the users set meanwhile.
THEOREM FailedArchivesWait ==
    ASSUME "disk" \notin Faults, "raise" \notin Faults
    PROVE  Spec => RetryBackoff
<1>1. Init => BackoffInv
  BY ConstantFacts DEF Init, BackoffInv, Calm, WorkingPcs
<1>2. BackoffInv /\ Base /\ Base' /\ [Next]_vars => BackoffInv'
  BY BackoffInductive
<1>3. BackoffInv /\ Base /\ [Next]_vars => [ArchiveBegins => sinceFailed[on[Scheduler]] = Retry]_vars
  BY BeginsAfterCheck DEF BackoffInv
<1>4. QED
  BY <1>1, <1>2, <1>3, TypeCorrect, PTL DEF Spec, RetryBackoff

-----------------------------------------------------------------------------
(* What is owed.                                                             *)

\* The state file, and what is being written, is behind a schedule only where a user
\* has yet to write, or where it still owes the backup; and the scheduler works on
\* backups that are owed.
OwedInv ==
    /\ \A s \in Servers : disk[s] = schedules[s] \/ Owed(disk[s]) \/ ChangedByUser(s)
    /\ \A t \in Tasks, s \in Servers : pc[t] = "writing" =>
          \/ payload[t][s] = schedules[s]
          \/ Owed(payload[t][s])
          \/ \E u \in Users : pc[u] = "persist" /\ on[u] = s
    /\ pc[Scheduler] \in WorkingPcs => Owed(schedules[on[Scheduler]])

LEMMA OwedTicks ==
    ASSUME NEW table \in Table, NEW s \in Servers, Owed(table[s])
    PROVE  Owed(Sooner(table)[s])
<1>1. /\ Sooner(table)[s] # NoSchedule
      /\ Sooner(table)[s].due = Less(table[s].due)
      /\ Sooner(table)[s].pending = table[s].pending
  BY TableFacts DEF Owed
<1>2. QED
  BY <1>1 DEF Owed, Less

\* What the scheduler changes, it changes on the server it works on.
LEMMA SchedulerSets ==
    ASSUME Base, FindsRunning \/ Archived \/ ArchiveFails
    PROVE  /\ \A s \in Servers \ {on[Scheduler]} : schedules'[s] = schedules[s]
           /\ FindsRunning \/ ArchiveFails => Owed(schedules'[on[Scheduler]])
           /\ Archived => sinceMade'[on[Scheduler]] = 0
           /\ pc'[Scheduler] \notin WorkingPcs
           /\ pc[Scheduler] \in WorkingPcs
           /\ UNCHANGED on
<1>1. /\ on[Scheduler] \in Servers /\ schedules \in Table /\ on' = on
      /\ pc[Scheduler] \in WorkingPcs /\ pc'[Scheduler] \notin WorkingPcs
      /\ Archived => sinceMade'[on[Scheduler]] = 0
  BY ConstantFacts
  DEF FindsRunning, Archived, ArchiveFails, Goto, Made, WorkingPcs, Base, TypeOK
<1>2. PICK due, pending :
         SetSchedule(due, pending) /\ (FindsRunning \/ ArchiveFails => pending = TRUE)
               /\ [due |-> due, pending |-> pending] \in Schedule
  <2>1. CASE FindsRunning \/ ArchiveFails
    <3>1. SetSchedule(Current.due, TRUE)
      BY <2>1 DEF FindsRunning, ArchiveFails
    <3>2. QED
      BY <1>1, <3>1, CurrentTyped
  <2>2. CASE Archived /\ ~(FindsRunning \/ ArchiveFails)
    <3>1. SetSchedule(Interval, FALSE)
      BY <2>2 DEF Archived
    <3>2. QED
      BY <1>1, <2>2, <3>1, CurrentTyped
  <2>3. QED
    BY <2>1, <2>2
<1>3. /\ schedules'[on[Scheduler]] = [due |-> due, pending |-> pending]
      /\ \A s \in Servers \ {on[Scheduler]} : schedules'[s] = schedules[s]
  BY <1>1, <1>2 DEF SetSchedule, Table
<1>4. FindsRunning \/ ArchiveFails => Owed(schedules'[on[Scheduler]])
  BY <1>2, <1>3, ConstantFacts DEF Owed
<1>5. QED
  BY <1>1, <1>3, <1>4

LEMMA OwedInductive ==
    ASSUME "disk" \notin Faults, Base, Base', OwedInv, [Next]_vars
    PROVE  OwedInv'
<1> USE ConstantFacts
<1>1. CASE Tick
  <2>1. \A x, y \in Table, s \in Servers : x[s] = y[s] => Sooner(x)[s] = Sooner(y)[s]
    BY DEF Sooner
  <2>2. /\ schedules' = Sooner(schedules) /\ disk' = Sooner(disk)
        /\ \A t \in Tasks : payload'[t] = Sooner(payload[t])
        /\ UNCHANGED <<pc, on>>
    BY <1>1 DEF Tick
  <2>3. schedules \in Table /\ disk \in Table /\ \A t \in Tasks : payload[t] \in Table
    BY DEF Base, TypeOK
  <2>4. \A table \in Table, s \in Servers : Owed(table[s]) => Owed(Sooner(table)[s])
    BY OwedTicks
  <2>5. on[Scheduler] \in Servers
    BY DEF Base, TypeOK
  <2>6. \A s \in Servers : disk'[s] = schedules'[s] \/ Owed(disk'[s]) \/ ChangedByUser(s)'
    BY <2>1, <2>2, <2>3, <2>4 DEF OwedInv, ChangedByUser
  <2>7. \A t \in Tasks, s \in Servers : pc[t] = "writing" =>
           \/ payload'[t][s] = schedules'[s]
           \/ Owed(payload'[t][s])
           \/ \E u \in Users : pc[u] = "persist" /\ on[u] = s
    BY <2>1, <2>2, <2>3, <2>4 DEF OwedInv
  <2>8. pc[Scheduler] \in WorkingPcs => Owed(schedules'[on[Scheduler]])
    BY <2>2, <2>3, <2>4, <2>5 DEF OwedInv
  <2>9. QED
    BY <2>2, <2>6, <2>7, <2>8 DEF OwedInv, Owed
<1>2. ASSUME NEW s \in Servers, ServerStarts(s) \/ ServerStops(s)
      PROVE  OwedInv'
  BY <1>2 DEF OwedInv, ChangedByUser, Owed, ServerStarts, ServerStops
<1>3. ASSUME NEW t \in Tasks, Collect(t)
      PROVE  OwedInv'
  <2>1. /\ pc[t] = "persist" /\ pc' = [pc EXCEPT ![t] = "writing"]
        /\ \A u \in Tasks : pc[u] # "writing"
        /\ payload' = [payload EXCEPT ![t] = schedules]
        /\ UNCHANGED <<on, schedules, disk>>
    BY <1>3 DEF Collect, Goto
  <2>2. \A u \in Tasks : (pc'[u] \in PersistPcs) = (pc[u] \in PersistPcs)
    BY <2>1 DEF Base, TypeOK, PersistPcs
  <2>3. \A u \in Tasks : pc'[u] = "writing" => payload'[u] = schedules
    BY <2>1 DEF Base, TypeOK
  <2>4. pc'[Scheduler] \in WorkingPcs => pc[Scheduler] \in WorkingPcs
    BY <2>1 DEF Base, TypeOK, WorkingPcs
  <2>5. QED
    BY <2>1, <2>2, <2>3, <2>4 DEF OwedInv, ChangedByUser, Owed
<1>4. ASSUME NEW t \in Tasks, StateWritten(t) \/ WriteRaises(t)
      PROVE  OwedInv'
  <2>1. /\ pc[t] = "writing" /\ disk' = payload[t]
        /\ UNCHANGED <<on, schedules>>
        /\ \A u \in Tasks : pc[u] = "persist" => pc'[u] = "persist"
        /\ \A u \in Tasks : pc'[u] # "writing"
        /\ pc'[Scheduler] \in WorkingPcs => pc[Scheduler] \in WorkingPcs
    BY <1>4 DEF StateWritten, WriteRaises, Leave, Goto, Base, TypeOK, Exclusive, WorkingPcs
  <2>2. QED
    BY <2>1 DEF OwedInv, ChangedByUser, PersistPcs, Owed
<1>5. ASSUME NEW u \in Users, NEW s \in Servers, NEW enable \in BOOLEAN, SetInterval(u, s, enable)
      PROVE  OwedInv'
  <2>1. /\ pc[u] = "idle" /\ pc'[u] = "persist" /\ on'[u] = s
        /\ \A t \in Tasks \ {u} : pc'[t] = pc[t] /\ on'[t] = on[t]
        /\ \A r \in Servers \ {s} : schedules'[r] = schedules[r]
        /\ UNCHANGED <<disk, payload>>
    BY <1>5 DEF SetInterval, Goto, Base, TypeOK, Table
  <2>2. pc[Scheduler] \in WorkingPcs => on[Scheduler] # s
    BY <1>5 DEF SetInterval, Locked, WorkingPcs, BusyPcs
  <2>3. on[Scheduler] \in Servers /\ Scheduler # u
    BY DEF Base, TypeOK
  <2>4. QED
    BY <2>1, <2>2, <2>3 DEF OwedInv, ChangedByUser, PersistPcs, Owed
<1>6. ASSUME NEW s \in Servers, CheckServer(s)
      PROVE  OwedInv'
  <2>1. /\ UNCHANGED <<schedules, disk, payload>>
        /\ \A u \in Users : pc'[u] = pc[u] /\ on'[u] = on[u]
        /\ pc'[Scheduler] # "writing"
    BY <1>6, SchedulerMoves DEF CheckServer
  <2>2. pc'[Scheduler] \in WorkingPcs => Owed(schedules[on'[Scheduler]])
    BY <1>6 DEF CheckServer, Goto, WorkingPcs, Base, TypeOK
  <2>3. QED
    BY <2>1, <2>2 DEF OwedInv, ChangedByUser, Owed
<1>7. CASE Round \/ RoundEnds \/ FindsStopped \/ ArchiveRaises
  <2>1. /\ UNCHANGED <<schedules, disk, payload, on>>
        /\ \A u \in Users : pc'[u] = pc[u]
        /\ pc'[Scheduler] # "writing"
    BY <1>7, SchedulerMoves DEF Round, RoundEnds, FindsStopped, ArchiveRaises
  <2>2. pc'[Scheduler] \in WorkingPcs => pc[Scheduler] \in WorkingPcs
    BY <1>7 DEF Round, RoundEnds, FindsStopped, ArchiveRaises, Goto, WorkingPcs, Base, TypeOK
  <2>3. QED
    BY <2>1, <2>2 DEF OwedInv, ChangedByUser, Owed
\* The scheduler changes a schedule that was owed: so it is on disk, and wherever it is
\* being written.
<1>8. CASE FindsRunning \/ Archived \/ ArchiveFails
  <2>1. /\ \A s \in Servers \ {on[Scheduler]} : schedules'[s] = schedules[s]
        /\ pc'[Scheduler] \notin WorkingPcs
        /\ Owed(schedules[on[Scheduler]])
        /\ UNCHANGED on
    BY <1>8, SchedulerSets DEF OwedInv
  <2>2. /\ pc'[Scheduler] # "writing"
        /\ \A u \in Users : pc'[u] = pc[u]
        /\ UNCHANGED <<payload, disk>>
    BY <1>8, SchedulerMoves
  <2>3. QED
    BY <2>1, <2>2 DEF OwedInv, ChangedByUser, Owed
<1>9. CASE Shutdown
  BY <1>9 DEF OwedInv, ChangedByUser, Owed, Shutdown
<1>10. CASE Restart
  BY <1>10 DEF OwedInv, ChangedByUser, Owed, Restart, WorkingPcs
<1>11. CASE UNCHANGED vars
  BY <1>11 DEF OwedInv, ChangedByUser, Owed, vars
<1>12. QED
  BY <1>1, <1>2, <1>3, <1>4, <1>5, <1>6, <1>7, <1>8, <1>9, <1>10, <1>11
  DEF Next, Persist, Schedules

\* A backup that is owed stays owed until it is made or a user changes the interval,
\* through failed archives, runs of the server, shutdowns and crashes at any point, for
\* any number of servers and users; while the state file can be written.
THEOREM OwedStays ==
    ASSUME "disk" \notin Faults
    PROVE  Spec => OwedUntilMade
<1>1. Init => OwedInv
  BY ConstantFacts DEF Init, OwedInv, WorkingPcs
<1>2. OwedInv /\ Base /\ Base' /\ [Next]_vars => OwedInv'
  BY OwedInductive
<1>3. OwedInv /\ Base /\ [Next]_vars
      => [\A s \in Servers :
             Owed(schedules[s]) /\ ~Owed(schedules'[s])
             => (sinceMade'[s] = 0 \/ ChangedByUser(s) \/ ChangedByUser(s)')]_vars
  <2> SUFFICES ASSUME OwedInv, Base, Next, NEW s \in Servers,
                      Owed(schedules[s]), ~Owed(schedules'[s])
               PROVE  sinceMade'[s] = 0 \/ ChangedByUser(s) \/ ChangedByUser(s)'
    OBVIOUS
  <2>1. ~Tick
    BY OwedTicks DEF Tick, Base, TypeOK
  <2>2. CASE FindsRunning \/ Archived \/ ArchiveFails
    BY <2>2, SchedulerSets
  <2>3. ASSUME NEW u \in Users, NEW r \in Servers, NEW enable \in BOOLEAN, SetInterval(u, r, enable)
        PROVE  ChangedByUser(s)'
    <3>1. schedules'[s] = schedules[s] \/ r = s
      BY <2>3 DEF SetInterval, Base, TypeOK, Table
    <3>2. pc'[u] = "persist" /\ on'[u] = r
      BY <2>3, ConstantFacts DEF SetInterval, Goto, Base, TypeOK
    <3>3. QED
      BY <3>1, <3>2 DEF ChangedByUser, PersistPcs
  <2>4. CASE Restart
    BY <2>4 DEF Restart, OwedInv
  <2>5. CASE UNCHANGED schedules
    BY <2>5
  <2>6. QED
    BY <2>1, <2>2, <2>3, <2>4, <2>5
    DEF Next, Persist, Schedules, Collect, StateWritten, WriteRaises, Leave, ServerStarts,
        ServerStops, Round, RoundEnds, CheckServer, FindsStopped, ArchiveRaises, Shutdown
<1>4. QED
  BY <1>1, <1>2, <1>3, TypeCorrect, PTL DEF Spec, OwedUntilMade
=============================================================================
