------------------------ MODULE ServerProcess_proofs ------------------------
(***************************************************************************)
(* What TLAPS proves of ServerProcess, for any number of tasks, pids and   *)
(* births.  Type correctness, the exclusion of the lock and the sparing of *)
(* other programs hold under every fault; that a live record is kept, with *)
(* crashes, failing record writes and cancelled calls; at most one server, *)
(* and the refinement of ServerLifecycle, under no fault but cancelled     *)
(* calls.                                                                  *)
(***************************************************************************)
EXTENDS ServerProcess, TLAPS

LEMMA RecordFacts ==
    /\ NoRecord \in Identity
    /\ Free \in Occupants
    /\ \A p \in Pids : p # NoPid
  BY ConstantsAssumption DEF NoRecord, Free, Identity, Occupants

\* The end of a call keeps every variable it writes in its type.
LEMMA ReturnTyped ==
    ASSUME TypeOK, NEW t \in Tasks, NEW result \in Answers, Return(t, result)
    PROVE  /\ pc' \in [Tasks -> Pcs]
           /\ op' \in [Tasks -> Ops]
           /\ answer' \in [Tasks -> Answers]
           /\ handle' \in [Tasks -> Identity]
           /\ lock' \in Tasks \cup {NoTask}
           /\ queue' \in Seq(Tasks)
  BY RecordFacts DEF TypeOK, Return, Goto, Pcs

LEMMA TypeInductive ==
    ASSUME TypeOK, [Next]_vars
    PROVE  TypeOK'
<1> USE RecordFacts
<1> USE DEF Goto, Pcs, LockedPcs, Ops, LockedOps, Answers
<1>1. ASSUME NEW t \in Tasks, NEW o \in LockedOps, RequestLocked(t, o)
      PROVE  TypeOK'
  BY <1>1 DEF TypeOK, RequestLocked
<1>2. ASSUME NEW t \in Tasks, RequestStatus(t)
      PROVE  TypeOK'
  BY <1>2 DEF TypeOK, RequestStatus
<1>3. ASSUME NEW t \in Tasks, Acquire(t)
      PROVE  TypeOK'
  <2>1. queue' \in Seq(Tasks)
    BY <1>3 DEF TypeOK, Acquire
  <2>2. QED
    BY <1>3, <2>1 DEF TypeOK, Acquire
<1>4. ASSUME NEW t \in Tasks, AfterPause(t)
      PROVE  TypeOK'
  BY <1>4 DEF TypeOK, AfterPause
<1>5. ASSUME NEW t \in Tasks, ReadPidRecord(t)
      PROVE  TypeOK'
  BY <1>5 DEF TypeOK, ReadPidRecord
<1>6. ASSUME NEW t \in Tasks, StatusInspects(t)
      PROVE  TypeOK'
  <2>1. CASE Return(t, "not_running")
    BY <1>6, <2>1, ReturnTyped DEF TypeOK, StatusInspects, UnlinkUnlessAlive
  <2>2. CASE Goto(t, "measure") /\ UNCHANGED <<op, answer, handle, lock, queue>>
    BY <1>6, <2>2 DEF TypeOK, StatusInspects, UnlinkUnlessAlive
  <2>3. QED
    BY <1>6, <2>1, <2>2 DEF StatusInspects
<1>7. ASSUME NEW t \in Tasks, FoundRunning(t)
      PROVE  TypeOK'
  <2>1. CASE \E r \in Answers : Return(t, r)
    BY <1>7, <2>1, ReturnTyped DEF TypeOK, FoundRunning
  <2>2. CASE Goto(t, "rcon") /\ UNCHANGED <<op, answer, handle, lock, queue>>
    BY <1>7, <2>2 DEF TypeOK, FoundRunning
  <2>3. QED
    BY <1>7, <2>1, <2>2 DEF FoundRunning
<1>8. ASSUME NEW t \in Tasks, FoundStopped(t)
      PROVE  TypeOK'
  <2>1. CASE \E r \in Answers : Return(t, r)
    BY <1>8, <2>1, ReturnTyped DEF TypeOK, FoundStopped, UnlinkUnlessAlive
  <2>2. CASE ~\E r \in Answers : Return(t, r)
    <3>1. /\ Goto(t, IF op[t] = "start" THEN "spawn" ELSE "offline")
          /\ handle' = [handle EXCEPT ![t] = NoRecord]
          /\ UNCHANGED <<op, answer, lock, queue, slot, births>>
      BY <1>8, <2>2 DEF FoundStopped
    <3>2. record' \in Identity
      BY <1>8 DEF TypeOK, FoundStopped, UnlinkUnlessAlive
    <3>3. QED
      BY <3>1, <3>2 DEF TypeOK
  <2>3. QED
    BY <2>1, <2>2
<1>9. ASSUME NEW t \in Tasks, StatusAnswers(t) \/ SpawnRaises(t) \/ WriteRaises(t)
                              \/ StopCancelled(t) \/ OfflineDone(t)
      PROVE  TypeOK'
  <2>1. PICK r \in Answers : Return(t, r)
    BY <1>9 DEF StatusAnswers, SpawnRaises, WriteRaises, StopCancelled, OfflineDone
  <2>2. UNCHANGED <<slot, record, births>>
    BY <1>9 DEF StatusAnswers, SpawnRaises, WriteRaises, StopCancelled, OfflineDone
  <2>3. QED
    BY <2>1, <2>2, ReturnTyped DEF TypeOK
<1>10. ASSUME NEW t \in Tasks, NEW p \in Pids, Spawn(t, p)
       PROVE  TypeOK'
  <2>1. births + 1 \in 0..MaxBirths /\ births + 1 \in 1..MaxBirths
    BY <1>10, ConstantsAssumption DEF TypeOK, Spawn
  <2>2. /\ [kind |-> "server", born |-> births + 1] \in Occupants
        /\ [pid |-> p, born |-> births + 1] \in Identity
    BY <2>1 DEF Occupants, Identity
  <2>3. QED
    BY <1>10, <2>1, <2>2 DEF TypeOK, Spawn
<1>11. ASSUME NEW t \in Tasks, Settle(t)
       PROVE  TypeOK'
  <2>1. CASE Return(t, "error")
    BY <1>11, <2>1, ReturnTyped DEF TypeOK, Settle
  <2>2. CASE Goto(t, "write") /\ UNCHANGED <<op, answer, handle, lock, queue>>
    BY <1>11, <2>2 DEF TypeOK, Settle
  <2>3. QED
    BY <1>11, <2>1, <2>2 DEF Settle
<1>12. ASSUME NEW t \in Tasks, WritePidRecord(t)
       PROVE  TypeOK'
  BY <1>12, ReturnTyped DEF TypeOK, WritePidRecord
<1>13. ASSUME NEW t \in Tasks, RconStop(t)
       PROVE  TypeOK'
  BY <1>13 DEF TypeOK, RconStop
<1>14. ASSUME NEW t \in Tasks, WaitStopped(t)
       PROVE  TypeOK'
  <2>1. CASE Alive(handle[t])
    BY <1>14, <2>1 DEF TypeOK, WaitStopped
  <2>2. CASE ~Alive(handle[t])
    BY <1>14, <2>2, ReturnTyped DEF TypeOK, WaitStopped
  <2>3. QED
    BY <2>1, <2>2
<1>15. ASSUME NEW t \in Tasks, TerminateProcessGroup(t)
       PROVE  TypeOK'
  BY <1>15 DEF TypeOK, TerminateProcessGroup
<1>16. ASSUME NEW t \in Tasks, Killed(t)
       PROVE  TypeOK'
  BY <1>16, ReturnTyped DEF TypeOK, Killed
<1>17. ASSUME NEW p \in Pids, ServerExits(p) \/ OtherExits(p)
       PROVE  TypeOK'
  BY <1>17 DEF TypeOK, ServerExits, OtherExits
<1>18. ASSUME NEW p \in Pids, OtherProgram(p)
       PROVE  TypeOK'
  <2>1. births + 1 \in 0..MaxBirths
    BY <1>18, ConstantsAssumption DEF TypeOK, OtherProgram
  <2>2. [kind |-> "other", born |-> births + 1] \in Occupants
    BY <2>1 DEF Occupants
  <2>3. QED
    BY <1>18, <2>1, <2>2 DEF TypeOK, OtherProgram
<1>19. CASE BotRestarts
  BY <1>19 DEF TypeOK, BotRestarts
<1>20. CASE UNCHANGED vars
  BY <1>20 DEF TypeOK, vars
<1>21. QED
  BY <1>1, <1>2, <1>3, <1>4, <1>5, <1>6, <1>7, <1>8, <1>9, <1>10, <1>11, <1>12, <1>13,
     <1>14, <1>15, <1>16, <1>17, <1>18, <1>19, <1>20
  DEF Next, Advance

\* Every variable keeps its type, whatever faults occur.
THEOREM TypeCorrect == Spec => []TypeOK
<1>1. Init => TypeOK
  BY RecordFacts, ConstantsAssumption DEF Init, TypeOK, Pcs, Ops, Answers
<1>2. TypeOK /\ [Next]_vars => TypeOK'
  BY TypeInductive
<1>3. QED
  BY <1>1, <1>2, PTL DEF Spec

-----------------------------------------------------------------------------
(* The lock.                                                                 *)

LEMMA LockInductive ==
    ASSUME TypeOK, LockExcludes, [Next]_vars
    PROVE  LockExcludes'
<1> USE ConstantsAssumption DEF TypeOK, LockExcludes, Goto, LockedPcs
<1>1. ASSUME NEW t \in Tasks, NEW o \in LockedOps, RequestLocked(t, o)
      PROVE  LockExcludes'
  BY <1>1 DEF RequestLocked
<1>2. ASSUME NEW t \in Tasks, RequestStatus(t) \/ AfterPause(t) \/ ReadPidRecord(t)
      PROVE  LockExcludes'
  BY <1>2 DEF RequestStatus, AfterPause, ReadPidRecord
<1>3. ASSUME NEW t \in Tasks, Acquire(t)
      PROVE  LockExcludes'
  BY <1>3 DEF Acquire
<1>4. ASSUME NEW t \in Tasks, NEW r, Return(t, r)
      PROVE  LockExcludes'
  BY <1>4 DEF Return
<1>5. ASSUME NEW t \in Tasks, StatusAnswers(t) \/ SpawnRaises(t) \/ WriteRaises(t)
                              \/ WritePidRecord(t) \/ Killed(t) \/ StopCancelled(t)
                              \/ OfflineDone(t)
      PROVE  LockExcludes'
  <2>1. PICK r : Return(t, r)
    BY <1>5 DEF StatusAnswers, SpawnRaises, WriteRaises, WritePidRecord, Killed,
                StopCancelled, OfflineDone
  <2>2. QED
    BY <2>1, <1>4
<1>6. ASSUME NEW t \in Tasks, FoundRunning(t) \/ StatusInspects(t)
      PROVE  LockExcludes'
  BY <1>4, <1>6 DEF FoundRunning, StatusInspects
<1>7. ASSUME NEW t \in Tasks, FoundStopped(t)
      PROVE  LockExcludes'
  BY <1>4, <1>7 DEF FoundStopped
<1>8. ASSUME NEW t \in Tasks, NEW p \in Pids, Spawn(t, p)
      PROVE  LockExcludes'
  BY <1>8 DEF Spawn
<1>9. ASSUME NEW t \in Tasks, Settle(t)
      PROVE  LockExcludes'
  BY <1>4, <1>9 DEF Settle
<1>10. ASSUME NEW t \in Tasks, RconStop(t) \/ TerminateProcessGroup(t)
       PROVE  LockExcludes'
  BY <1>10 DEF RconStop, TerminateProcessGroup
<1>11. ASSUME NEW t \in Tasks, WaitStopped(t)
       PROVE  LockExcludes'
  BY <1>4, <1>11 DEF WaitStopped
<1>12. ASSUME NEW p \in Pids, ServerExits(p) \/ OtherProgram(p) \/ OtherExits(p)
       PROVE  LockExcludes'
  BY <1>12 DEF ServerExits, OtherProgram, OtherExits
<1>13. CASE BotRestarts
  BY <1>13 DEF BotRestarts
<1>14. CASE UNCHANGED vars
  BY <1>14 DEF vars
<1>15. QED
  BY <1>1, <1>2, <1>3, <1>5, <1>6, <1>7, <1>8, <1>9, <1>10, <1>11, <1>12, <1>13, <1>14
  DEF Next, Advance

\* Under every fault, at most one task is between the check of the record and what
\* it does about it, and it is the one that holds self._lock.
THEOREM LockExclusion == Spec => []LockExcludes
<1>1. Init => LockExcludes
  BY ConstantsAssumption, ZenonT(40) DEF Init, LockExcludes, LockedPcs
<1>2. TypeOK /\ LockExcludes /\ [Next]_vars => LockExcludes'
  BY LockInductive
<1>3. QED
  BY <1>1, <1>2, TypeCorrect, PTL DEF Spec

-----------------------------------------------------------------------------
(* Other programs: an identity that was written down never names one.        *)

\* What is born was counted, so a new birth is one no identity names yet ...
Counted(h) == h.born <= births

\* ... and an identity that runs is a server's.
NamesServer(h) == Counted(h) /\ (Alive(h) => slot[h.pid].kind = "server")

NamesInv ==
    /\ \A p \in Pids : slot[p].born <= births
    /\ NamesServer(record)
    /\ \A t \in Tasks : NamesServer(handle[t])
    /\ \A t \in Tasks :
          pc[t] \in StopPcs => handle[t] # NoRecord /\ slot[handle[t].pid].kind # "other"

LEMMA NoRecordNames ==
    ASSUME TypeOK
    PROVE  NamesServer(NoRecord)
  BY ConstantsAssumption DEF TypeOK, NamesServer, Counted, Alive, NoRecord

\* A step that starts no process and ends none, and copies identities around.
LEMMA NamesCopied ==
    ASSUME TypeOK, NamesInv, UNCHANGED <<slot, births>>,
           record' \in {record, NoRecord} \cup {handle[t] : t \in Tasks},
           \A t \in Tasks : handle'[t] \in {handle[t], NoRecord, record},
           \A t \in Tasks : pc'[t] \in StopPcs =>
               /\ handle'[t] = handle[t]
               /\ pc[t] \in StopPcs \/ Alive(handle[t])
    PROVE  NamesInv'
<1>1. \A h : NamesServer(h) => NamesServer(h)'
  BY DEF NamesServer, Counted, Alive
<1>2. NamesServer(record)' /\ \A t \in Tasks : NamesServer(handle[t])'
  BY <1>1, NoRecordNames DEF NamesInv, NamesServer, Counted, Alive
<1>3. \A t \in Tasks : Alive(handle[t]) =>
          handle[t] # NoRecord /\ slot[handle[t].pid].kind = "server"
  BY DEF NamesInv, NamesServer, Alive
<1>4. \A t \in Tasks : pc'[t] \in StopPcs =>
          handle'[t] # NoRecord /\ slot'[handle'[t].pid].kind # "other"
  BY <1>3 DEF NamesInv
<1>5. QED
  BY <1>2, <1>4 DEF NamesInv, NamesServer, Counted, Alive

\* A process ends.
LEMMA NamesAfterExit ==
    ASSUME TypeOK, NamesInv, NEW p \in Pids, slot' = [slot EXCEPT ![p] = Free],
           UNCHANGED <<handle, record, births>>,
           \A t \in Tasks : pc'[t] \in StopPcs => pc[t] \in StopPcs
    PROVE  NamesInv'
<1>1. \A h \in Identity : NamesServer(h) => NamesServer(h)'
  BY RecordFacts DEF NamesServer, Counted, Alive, TypeOK, Identity, Free, NoRecord
<1>2. QED
  BY <1>1 DEF NamesInv, TypeOK, Free, Occupants, NamesServer, Counted, Alive

\* A process is born.
LEMMA NamesAfterBirth ==
    ASSUME TypeOK, NamesInv, NEW p \in Pids, NEW kind \in {"server", "other"},
           slot' = [slot EXCEPT ![p] = [kind |-> kind, born |-> births + 1]],
           births' = births + 1
    PROVE  /\ \A q \in Pids : slot'[q].born <= births'
           /\ \A h \in Identity : NamesServer(h) => NamesServer(h)'
<1>1. births \in Nat /\ \A q \in Pids : slot[q].born \in Nat
  BY ConstantsAssumption DEF TypeOK, Occupants
<1>2. ASSUME NEW h \in Identity, NamesServer(h)
      PROVE  NamesServer(h)'
  <2>1. h.born \in Nat /\ h.born < births + 1
    BY <1>1, <1>2, ConstantsAssumption DEF NamesServer, Counted, Identity, NoRecord
  <2>2. h # NoRecord => h.pid \in Pids
    BY DEF Identity
  <2>3. QED
    BY <1>1, <1>2, <2>1, <2>2 DEF NamesServer, Counted, Alive, TypeOK
<1>3. QED
  BY <1>1, <1>2 DEF NamesInv, TypeOK, Occupants

LEMMA NamesInductive ==
    ASSUME TypeOK, LockExcludes, NamesInv, [Next]_vars
    PROVE  NamesInv'
<1> USE DEF Goto, StopPcs
<1>1. ASSUME NEW t \in Tasks, NEW o \in LockedOps, RequestLocked(t, o)
      PROVE  NamesInv'
  BY <1>1, NamesCopied DEF RequestLocked, TypeOK
<1>2. ASSUME NEW t \in Tasks, RequestStatus(t) \/ AfterPause(t) \/ Acquire(t)
      PROVE  NamesInv'
  BY <1>2, NamesCopied DEF RequestStatus, AfterPause, Acquire, TypeOK
<1>3. ASSUME NEW t \in Tasks, ReadPidRecord(t)
      PROVE  NamesInv'
  BY <1>3, NamesCopied DEF ReadPidRecord, TypeOK
<1>4. ASSUME NEW t \in Tasks, NEW r, Return(t, r), UNCHANGED <<slot, births>>,
             record' \in {record, NoRecord, handle[t]}
      PROVE  NamesInv'
  BY <1>4, NamesCopied DEF Return, TypeOK
<1>5. ASSUME NEW t \in Tasks, StatusAnswers(t) \/ SpawnRaises(t) \/ WriteRaises(t)
                              \/ WritePidRecord(t) \/ Killed(t) \/ StopCancelled(t)
                              \/ OfflineDone(t)
      PROVE  NamesInv'
  <2>1. PICK r : Return(t, r)
    BY <1>5 DEF StatusAnswers, SpawnRaises, WriteRaises, WritePidRecord, Killed,
                StopCancelled, OfflineDone
  <2>2. UNCHANGED <<slot, births>> /\ record' \in {record, NoRecord, handle[t]}
    BY <1>5 DEF StatusAnswers, SpawnRaises, WriteRaises, WritePidRecord, Killed,
                StopCancelled, OfflineDone, UnlinkUnlessAlive
  <2>3. QED
    BY <2>1, <2>2, <1>4
<1>0. ASSUME NEW t \in Tasks, StatusInspects(t)
      PROVE  NamesInv'
  <2>1. UNCHANGED <<slot, births>> /\ record' \in {record, NoRecord}
    BY <1>0 DEF StatusInspects, UnlinkUnlessAlive
  <2>2. CASE Return(t, "not_running")
    BY <2>1, <2>2, <1>4
  <2>3. CASE Goto(t, "measure") /\ UNCHANGED handle
    BY <2>1, <2>3, NamesCopied DEF TypeOK
  <2>4. QED
    BY <1>0, <2>2, <2>3 DEF StatusInspects
<1>6. ASSUME NEW t \in Tasks, FoundRunning(t)
      PROVE  NamesInv'
  <2>1. CASE \E r : Return(t, r)
    BY <1>4, <1>6, <2>1 DEF FoundRunning
  <2>2. CASE Goto(t, "rcon") /\ UNCHANGED handle
    BY <1>6, <2>2, NamesCopied DEF FoundRunning, TypeOK
  <2>3. QED
    BY <1>6, <2>1, <2>2 DEF FoundRunning
<1>7. ASSUME NEW t \in Tasks, FoundStopped(t)
      PROVE  NamesInv'
  <2>1. record' \in {record, NoRecord}
    BY <1>7 DEF FoundStopped, UnlinkUnlessAlive
  <2>2. CASE \E r : Return(t, r)
    BY <1>4, <1>7, <2>1, <2>2 DEF FoundStopped
  <2>3. CASE /\ Goto(t, IF op[t] = "start" THEN "spawn" ELSE "offline")
             /\ handle' = [handle EXCEPT ![t] = NoRecord]
    BY <1>7, <2>1, <2>3, NamesCopied DEF FoundStopped, TypeOK
  <2>4. QED
    BY <1>7, <2>2, <2>3 DEF FoundStopped
<1>8. ASSUME NEW t \in Tasks, NEW p \in Pids, Spawn(t, p)
      PROVE  NamesInv'
  <2>1. /\ \A q \in Pids : slot'[q].born <= births'
        /\ \A h \in Identity : NamesServer(h) => NamesServer(h)'
    BY <1>8, NamesAfterBirth DEF Spawn
  <2>2. NamesServer(record)'
    BY <1>8, <2>1 DEF NamesInv, Spawn, TypeOK, NamesServer, Counted, Alive
  <2>3. ASSUME NEW s \in Tasks
        PROVE  NamesServer(handle[s])'
    <3>1. CASE s # t
      BY <1>8, <2>1, <3>1 DEF NamesInv, Spawn, TypeOK, NamesServer, Counted, Alive
    <3>2. CASE s = t
      <4>1. handle'[s] = [pid |-> p, born |-> births + 1] /\ births \in Nat
        BY <1>8, <3>2, ConstantsAssumption DEF Spawn, TypeOK
      <4>2. slot'[p] = [kind |-> "server", born |-> births + 1] /\ births' = births + 1
        BY <1>8 DEF Spawn, TypeOK
      <4>3. QED
        BY <4>1, <4>2 DEF NamesServer, Counted, Alive
    <3>3. QED
      BY <3>1, <3>2
  <2>4. ASSUME NEW s \in Tasks, pc'[s] \in StopPcs
        PROVE  handle'[s] # NoRecord /\ slot'[handle'[s].pid].kind # "other"
    BY <1>8, <2>4 DEF NamesInv, Spawn, TypeOK
  <2>5. QED
    BY <2>1, <2>2, <2>3, <2>4 DEF NamesInv, NamesServer, Counted, Alive
<1>9. ASSUME NEW t \in Tasks, Settle(t)
      PROVE  NamesInv'
  <2>1. CASE Return(t, "error")
    BY <1>4, <1>9, <2>1 DEF Settle
  <2>2. CASE Goto(t, "write") /\ UNCHANGED handle
    BY <1>9, <2>2, NamesCopied DEF Settle, TypeOK
  <2>3. QED
    BY <1>9, <2>1, <2>2 DEF Settle
<1>10. ASSUME NEW t \in Tasks, RconStop(t)
       PROVE  NamesInv'
  BY <1>10, NamesCopied DEF RconStop, TypeOK
<1>11. ASSUME NEW t \in Tasks, WaitStopped(t)
       PROVE  NamesInv'
  <2>1. CASE Return(t, "stopped") /\ record' = NoRecord
    BY <1>4, <1>11, <2>1 DEF WaitStopped
  <2>2. CASE /\ Goto(t, IF pc[t] = "wait_rcon" THEN "term" ELSE "kill")
             /\ UNCHANGED <<handle, record>>
    BY <1>11, <2>2, NamesCopied DEF WaitStopped, TypeOK
  <2>3. QED
    BY <1>11, <2>1, <2>2 DEF WaitStopped
<1>12. ASSUME NEW t \in Tasks, TerminateProcessGroup(t)
       PROVE  NamesInv'
  <2>1. CASE UNCHANGED slot
    BY <1>12, <2>1, NamesCopied DEF TerminateProcessGroup, TypeOK
  <2>2. CASE slot' = [slot EXCEPT ![handle[t].pid] = Free]
    <3>1. CASE handle[t].pid \in Pids
      BY <1>12, <2>2, <3>1, NamesAfterExit DEF TerminateProcessGroup, TypeOK
    <3>2. CASE handle[t].pid \notin Pids
      <4>1. slot' = slot
        BY <2>2, <3>2 DEF TypeOK
      <4>2. QED
        BY <1>12, <4>1, NamesCopied DEF TerminateProcessGroup, TypeOK
    <3>3. QED
      BY <3>1, <3>2
  <2>3. QED
    BY <1>12, <2>1, <2>2 DEF TerminateProcessGroup
<1>13. ASSUME NEW p \in Pids, ServerExits(p) \/ OtherExits(p)
       PROVE  NamesInv'
  BY <1>13, NamesAfterExit DEF ServerExits, OtherExits
<1>14. ASSUME NEW p \in Pids, OtherProgram(p)
       PROVE  NamesInv'
  <2>1. /\ \A q \in Pids : slot'[q].born <= births'
        /\ \A h \in Identity : NamesServer(h) => NamesServer(h)'
    BY <1>14, NamesAfterBirth DEF OtherProgram
  <2>2. ASSUME NEW s \in Tasks, pc[s] \in StopPcs
        PROVE  handle[s] # NoRecord /\ slot'[handle[s].pid].kind # "other"
    <3>1. handle[s].pid # p
      BY <1>14, <2>2 DEF OtherProgram, LockedPcs
    <3>2. QED
      BY <1>14, <2>2, <3>1 DEF OtherProgram, NamesInv, TypeOK
  <2>3. UNCHANGED <<pc, handle, record>>
    BY <1>14 DEF OtherProgram
  <2>4. NamesServer(record)' /\ \A s \in Tasks : NamesServer(handle[s])'
    BY <2>1, <2>3 DEF NamesInv, TypeOK, NamesServer, Counted, Alive
  <2>5. QED
    BY <2>1, <2>2, <2>3, <2>4 DEF NamesInv, NamesServer, Counted, Alive
<1>15. CASE BotRestarts
  BY <1>15, NamesCopied DEF BotRestarts, TypeOK
<1>16. CASE UNCHANGED vars
  BY <1>16, NamesCopied DEF vars, TypeOK
<1>17. QED
  BY <1>0, <1>1, <1>2, <1>3, <1>5, <1>6, <1>7, <1>8, <1>9, <1>10, <1>11, <1>12, <1>13,
     <1>14, <1>15, <1>16
  DEF Next, Advance

\* Under every fault, stop() never signals another program that took the pid of an
\* old record.
THEOREM OthersSpared == Spec => []SignalsOnlyServers
<1>1. Init => NamesInv
  BY ConstantsAssumption, NoRecordNames DEF Init, NamesInv, NamesServer, Counted, Alive, NoRecord, Free, StopPcs
<1>2. TypeOK /\ LockExcludes /\ NamesInv /\ [Next]_vars => NamesInv'
  BY NamesInductive
<1>3. NamesInv => SignalsOnlyServers
  BY DEF NamesInv, SignalsOnlyServers, StopPcs
<1>4. QED
  BY <1>1, <1>2, <1>3, TypeCorrect, LockExclusion, PTL DEF Spec

-----------------------------------------------------------------------------
(* One server.                                                               *)

\* A server is recorded, or is the child of the start() in progress.
EveryServerKnown ==
    \A p \in Servers :
        \/ record = IdentityOf(p)
        \/ \E t \in Tasks : pc[t] \in {"settle", "write"} /\ handle[t] = IdentityOf(p)

\* Between the check and the release nobody else writes the record: start() and the
\* offline action found it gone, ...
FoundGone ==
    \A t \in Tasks : pc[t] \in {"spawn", "settle", "write", "offline"} => record = NoRecord

NothingBeforeSpawn ==
    \A t \in Tasks : pc[t] \in {"spawn", "offline"} => Servers = {}

\* ... and stop() still holds what the record says, or a status thread removed the
\* record of a server that ended meanwhile.
HandleIsRecord ==
    \A t \in Tasks :
        /\ pc[t] \in StopPcs \cup {"examine"}
           => record = handle[t] \/ (record = NoRecord /\ ~Alive(handle[t]))
        /\ pc[t] = "wait_kill" => ~Alive(handle[t])

\* A status thread may remove only the record it has read.
ReaderNotStale ==
    \A t \in Tasks : pc[t] = "peeked" => handle[t] = NoRecord \/ record \in {handle[t], NoRecord}

ManagedInv ==
    /\ EveryServerKnown
    /\ FoundGone
    /\ NothingBeforeSpawn
    /\ HandleIsRecord
    /\ ReaderNotStale

LEMMA ServersRun ==
    ASSUME TypeOK, NEW p \in Servers
    PROVE  /\ p \in Pids
           /\ Alive(IdentityOf(p))
           /\ IdentityOf(p) # NoRecord
  BY ConstantsAssumption DEF Servers, Alive, IdentityOf, NoRecord

LEMMA OneHolder ==
    ASSUME LockExcludes, NEW s \in Tasks, NEW t \in Tasks,
           pc[s] \in LockedPcs, pc[t] \in LockedPcs
    PROVE  s = t
  BY DEF LockExcludes

\* A task leaves the critical section, or has not entered it: it may take the record
\* along only if what the record names is gone.
LEMMA ManagedLeave ==
    ASSUME TypeOK, ManagedInv, UNCHANGED slot, NEW t \in Tasks,
           record' = record \/ (record' = NoRecord /\ ~Alive(record)),
           \A s \in Tasks \ {t} : pc'[s] = pc[s] /\ handle'[s] = handle[s],
           pc'[t] \in {"idle", "pause", "queued", "peek", "read", "measure"},
           pc[t] \in {"settle", "write"} => ~Alive(handle[t])
    PROVE  ManagedInv'
<1> USE DEF StopPcs
<1>1. Servers' = Servers /\ \A p : IdentityOf(p)' = IdentityOf(p)
  BY DEF Servers, IdentityOf
<1>2. \A p \in Servers : Alive(IdentityOf(p)) /\ IdentityOf(p) # NoRecord
  BY ServersRun
<1>3. EveryServerKnown'
  BY <1>1, <1>2 DEF ManagedInv, EveryServerKnown
<1>4. FoundGone' /\ NothingBeforeSpawn'
  BY <1>1 DEF ManagedInv, FoundGone, NothingBeforeSpawn
<1>5. HandleIsRecord'
  BY DEF ManagedInv, HandleIsRecord, Alive
<1>6. ReaderNotStale'
  BY DEF ManagedInv, ReaderNotStale
<1>7. QED
  BY <1>3, <1>4, <1>5, <1>6 DEF ManagedInv

\* A process that is not a child of start() ends.
LEMMA ManagedAfterExit ==
    ASSUME TypeOK, ManagedInv, NEW p \in Pids, slot' = [slot EXCEPT ![p] = Free],
           UNCHANGED <<handle, record>>,
           \A t \in Tasks : pc'[t] = pc[t] \/ (/\ pc[t] = "kill"
                                              /\ pc'[t] = "wait_kill"
                                              /\ handle[t].pid = p)
    PROVE  ManagedInv'
<1> USE DEF StopPcs
<1>1. Servers' \subseteq Servers
  BY DEF Servers, Free, TypeOK
<1>2. \A q \in Servers' : IdentityOf(q)' = IdentityOf(q)
  BY DEF Servers, IdentityOf, Free, TypeOK
<1>3. \A h \in Identity : Alive(h)' => Alive(h)
  BY ConstantsAssumption DEF Alive, TypeOK, Identity, Free, NoRecord
<1>4. \A h \in Identity : h.pid = p => ~Alive(h)'
  BY DEF Alive, TypeOK, Free
<1>5. EveryServerKnown'
  <2>1. \A t \in Tasks : pc[t] \in {"settle", "write"} => pc'[t] = pc[t]
    OBVIOUS
  <2>2. QED
    BY <1>1, <1>2, <2>1 DEF ManagedInv, EveryServerKnown
<1>6. FoundGone' /\ NothingBeforeSpawn'
  BY <1>1 DEF ManagedInv, FoundGone, NothingBeforeSpawn
<1>7. HandleIsRecord'
  BY <1>3, <1>4 DEF ManagedInv, HandleIsRecord, TypeOK
<1>8. ReaderNotStale'
  BY DEF ManagedInv, ReaderNotStale
<1>9. QED
  BY <1>5, <1>6, <1>7, <1>8 DEF ManagedInv

LEMMA ManagedInductive ==
    ASSUME Faults \subseteq {"cancel"}, TypeOK, LockExcludes, NamesInv, ManagedInv, [Next]_vars
    PROVE  ManagedInv'
<1> USE DEF Goto, StopPcs
<1>1. ASSUME NEW t \in Tasks, NEW o \in LockedOps, RequestLocked(t, o)
      PROVE  ManagedInv'
  BY <1>1, ManagedLeave DEF RequestLocked, TypeOK
<1>2. ASSUME NEW t \in Tasks, RequestStatus(t) \/ AfterPause(t) \/ Acquire(t)
      PROVE  ManagedInv'
  BY <1>2, ManagedLeave DEF RequestStatus, AfterPause, Acquire, TypeOK
<1>3. ASSUME NEW t \in Tasks, NEW r, Return(t, r), UNCHANGED slot,
             record' = record \/ (record' = NoRecord /\ ~Alive(record)),
             pc[t] \in {"settle", "write"} => ~Alive(handle[t])
      PROVE  ManagedInv'
  BY <1>3, ManagedLeave DEF Return, TypeOK
<1>4. ASSUME NEW t \in Tasks, ReadPidRecord(t)
      PROVE  ManagedInv'
  <2>1. \A s \in Tasks \ {t} : pc'[s] = pc[s] /\ handle'[s] = handle[s]
    BY <1>4 DEF ReadPidRecord, TypeOK
  <2>2. /\ handle'[t] = record /\ record' = record /\ slot' = slot
        /\ pc[t] \in {"read", "peek"} /\ pc'[t] \in {"examine", "peeked"}
    BY <1>4 DEF ReadPidRecord, TypeOK
  <2>3. EveryServerKnown'
    BY <2>1, <2>2 DEF ManagedInv, EveryServerKnown, Servers, IdentityOf
  <2>4. FoundGone' /\ NothingBeforeSpawn'
    BY <2>1, <2>2 DEF ManagedInv, FoundGone, NothingBeforeSpawn, Servers
  <2>5. HandleIsRecord' /\ ReaderNotStale'
    BY <2>1, <2>2 DEF ManagedInv, HandleIsRecord, ReaderNotStale, Alive
  <2>6. QED
    BY <2>3, <2>4, <2>5 DEF ManagedInv
<1>5. ASSUME NEW t \in Tasks, StatusInspects(t)
      PROVE  ManagedInv'
  <2>1. handle[t] = NoRecord \/ record \in {handle[t], NoRecord}
    BY <1>5 DEF StatusInspects, ManagedInv, ReaderNotStale
  <2>2. record' = record \/ (record' = NoRecord /\ ~Alive(record))
    BY <1>5, <2>1 DEF StatusInspects, UnlinkUnlessAlive
  <2>3. pc[t] = "peeked" /\ UNCHANGED slot
    BY <1>5 DEF StatusInspects
  <2>4. CASE Return(t, "not_running")
    BY <2>2, <2>3, <2>4, <1>3
  <2>5. CASE Goto(t, "measure") /\ UNCHANGED handle
    BY <2>2, <2>3, <2>5, ManagedLeave DEF TypeOK
  <2>6. QED
    BY <1>5, <2>4, <2>5 DEF StatusInspects
<1>6. ASSUME NEW t \in Tasks, FoundRunning(t)
      PROVE  ManagedInv'
  <2>1. CASE \E r : Return(t, r)
    BY <1>3, <1>6, <2>1 DEF FoundRunning
  <2>2. CASE Goto(t, "rcon") /\ UNCHANGED handle
    <3>1. \A s \in Tasks : pc'[s] = IF s = t THEN "rcon" ELSE pc[s]
      BY <2>2 DEF TypeOK
    <3>2. pc[t] = "examine" /\ UNCHANGED <<handle, slot, record>>
      BY <1>6, <2>2 DEF FoundRunning
    <3>3. EveryServerKnown'
      BY <3>1, <3>2 DEF ManagedInv, EveryServerKnown, Servers, IdentityOf
    <3>4. FoundGone' /\ NothingBeforeSpawn'
      BY <3>1, <3>2 DEF ManagedInv, FoundGone, NothingBeforeSpawn, Servers
    <3>5. HandleIsRecord' /\ ReaderNotStale'
      BY <3>1, <3>2 DEF ManagedInv, HandleIsRecord, ReaderNotStale, Alive
    <3>6. QED
      BY <3>3, <3>4, <3>5 DEF ManagedInv
  <2>3. QED
    BY <1>6, <2>1, <2>2 DEF FoundRunning
<1>7. ASSUME NEW t \in Tasks, FoundStopped(t)
      PROVE  ManagedInv'
  <2>1. /\ record = handle[t] \/ record = NoRecord
        /\ ~Alive(record)
    BY <1>7 DEF FoundStopped, ManagedInv, HandleIsRecord, Alive
  <2>2. record' = NoRecord /\ slot' = slot
    BY <1>7, <2>1 DEF FoundStopped, UnlinkUnlessAlive
  <2>3. CASE \E r : Return(t, r)
    BY <1>3, <1>7, <2>1, <2>2, <2>3 DEF FoundStopped
  <2>4. CASE /\ Goto(t, IF op[t] = "start" THEN "spawn" ELSE "offline")
             /\ handle' = [handle EXCEPT ![t] = NoRecord]
    <3>1. \A s \in Tasks \ {t} : pc'[s] = pc[s] /\ handle'[s] = handle[s]
      BY <2>4 DEF TypeOK
    <3>2. pc'[t] \in {"spawn", "offline"} /\ pc[t] = "examine"
      BY <1>7, <2>4 DEF FoundStopped, TypeOK
    <3>3. \A s \in Tasks : pc[s] \in LockedPcs => s = t
      BY <3>2, OneHolder DEF LockedPcs
    <3>4. Servers = {}
      <4>1. SUFFICES ASSUME NEW p \in Servers
                     PROVE  FALSE
        OBVIOUS
      <4>2. record # IdentityOf(p)
        BY <2>1, ServersRun
      <4>3. PICK s \in Tasks : pc[s] \in {"settle", "write"}
        BY <4>2 DEF ManagedInv, EveryServerKnown
      <4>4. QED
        BY <3>2, <3>3, <4>3 DEF LockedPcs
    <3>5. Servers' = {}
      BY <2>2, <3>4 DEF Servers
    <3>6. EveryServerKnown' /\ NothingBeforeSpawn'
      BY <3>5 DEF EveryServerKnown, NothingBeforeSpawn
    <3>7. FoundGone'
      BY <2>2 DEF FoundGone
    <3>8. HandleIsRecord'
      BY <3>1, <3>2, <3>3 DEF HandleIsRecord, LockedPcs
    <3>9. ReaderNotStale'
      BY <2>2 DEF ReaderNotStale
    <3>10. QED
      BY <3>6, <3>7, <3>8, <3>9 DEF ManagedInv
  <2>5. QED
    BY <1>7, <2>3, <2>4 DEF FoundStopped
<1>8. ASSUME NEW t \in Tasks,
             StatusAnswers(t) \/ SpawnRaises(t) \/ StopCancelled(t) \/ OfflineDone(t)
      PROVE  ManagedInv'
  <2>1. PICK r : Return(t, r)
    BY <1>8 DEF StatusAnswers, SpawnRaises, StopCancelled, OfflineDone
  <2>2. UNCHANGED <<slot, record>> /\ pc[t] \notin {"settle", "write"}
    BY <1>8 DEF StatusAnswers, SpawnRaises, StopCancelled, OfflineDone
  <2>3. QED
    BY <2>1, <2>2, <1>3
<1>9. ASSUME NEW t \in Tasks, NEW p \in Pids, Spawn(t, p)
      PROVE  ManagedInv'
  <2>1. \A s \in Tasks \ {t} : pc'[s] = pc[s] /\ handle'[s] = handle[s]
    BY <1>9 DEF Spawn, TypeOK
  <2>2. /\ pc[t] = "spawn" /\ pc'[t] = "settle"
        /\ handle'[t] = [pid |-> p, born |-> births + 1]
        /\ record' = record
    BY <1>9 DEF Spawn, TypeOK
  <2>3. \A s \in Tasks : pc[s] \in LockedPcs => s = t
    BY <2>2, OneHolder DEF LockedPcs
  <2>4. Servers = {} /\ record = NoRecord
    BY <2>2 DEF ManagedInv, NothingBeforeSpawn, FoundGone
  <2>5. Servers' = {p} /\ IdentityOf(p)' = handle'[t]
    BY <1>9, <2>2, <2>4 DEF Spawn, Servers, IdentityOf, TypeOK
  <2>6. EveryServerKnown'
    BY <2>2, <2>5 DEF EveryServerKnown
  <2>7. FoundGone' /\ NothingBeforeSpawn' /\ ReaderNotStale'
    BY <2>1, <2>2, <2>3, <2>4 DEF FoundGone, NothingBeforeSpawn, ReaderNotStale, LockedPcs
  <2>8. HandleIsRecord'
    BY <2>1, <2>2, <2>3 DEF HandleIsRecord, LockedPcs
  <2>9. QED
    BY <2>6, <2>7, <2>8 DEF ManagedInv
<1>10. ASSUME NEW t \in Tasks, Settle(t)
       PROVE  ManagedInv'
  <2>1. CASE Return(t, "error") /\ ~Alive(handle[t])
    BY <1>3, <1>10, <2>1 DEF Settle
  <2>2. CASE Goto(t, "write") /\ UNCHANGED handle
    <3>1. \A s \in Tasks : pc'[s] = IF s = t THEN "write" ELSE pc[s]
      BY <2>2 DEF TypeOK
    <3>2. pc[t] = "settle" /\ UNCHANGED <<handle, slot, record>>
      BY <1>10, <2>2 DEF Settle
    <3>3. EveryServerKnown'
      BY <3>1, <3>2 DEF ManagedInv, EveryServerKnown, Servers, IdentityOf
    <3>4. FoundGone' /\ NothingBeforeSpawn'
      BY <3>1, <3>2 DEF ManagedInv, FoundGone, NothingBeforeSpawn, Servers
    <3>5. HandleIsRecord' /\ ReaderNotStale'
      BY <3>1, <3>2 DEF ManagedInv, HandleIsRecord, ReaderNotStale, Alive
    <3>6. QED
      BY <3>3, <3>4, <3>5 DEF ManagedInv
  <2>3. QED
    BY <1>10, <2>1, <2>2 DEF Settle
<1>11. ASSUME NEW t \in Tasks, WritePidRecord(t)
       PROVE  ManagedInv'
  <2>1. \A s \in Tasks \ {t} : pc'[s] = pc[s] /\ handle'[s] = handle[s]
    BY <1>11 DEF WritePidRecord, Return, TypeOK
  <2>2. /\ pc[t] = "write" /\ pc'[t] \in {"idle", "pause"}
        /\ record' = handle[t] /\ slot' = slot
    BY <1>11 DEF WritePidRecord, Return, TypeOK
  <2>3. \A s \in Tasks : pc[s] \in LockedPcs => s = t
    BY <2>2, OneHolder DEF LockedPcs
  <2>4. record = NoRecord
    BY <2>2 DEF ManagedInv, FoundGone
  <2>5. \A p \in Servers : handle[t] = IdentityOf(p)
    BY <2>3, <2>4, ServersRun DEF ManagedInv, EveryServerKnown, LockedPcs
  <2>6. EveryServerKnown'
    BY <2>2, <2>5 DEF EveryServerKnown, Servers, IdentityOf
  <2>7. \A s \in Tasks : pc[s] = "peeked" => handle[s] = NoRecord
    BY <1>11, <2>4 DEF WritePidRecord, NoStaleReader
  <2>8. ReaderNotStale'
    BY <2>1, <2>2, <2>7 DEF ReaderNotStale
  <2>9. FoundGone' /\ NothingBeforeSpawn' /\ HandleIsRecord'
    BY <2>1, <2>2, <2>3 DEF FoundGone, NothingBeforeSpawn, HandleIsRecord, LockedPcs
  <2>10. QED
    BY <2>6, <2>8, <2>9 DEF ManagedInv
<1>12. ASSUME NEW t \in Tasks, NEW from \in {"rcon", "wait_rcon", "wait_term", "term"},
              NEW to \in {"wait_rcon", "term", "wait_term", "kill"},
              pc[t] = from, Goto(t, to), UNCHANGED <<handle, slot, record>>
       PROVE  ManagedInv'
  <2>1. \A s \in Tasks : pc'[s] = IF s = t THEN to ELSE pc[s]
    BY <1>12 DEF TypeOK
  <2>2. EveryServerKnown'
    BY <1>12, <2>1 DEF ManagedInv, EveryServerKnown, Servers, IdentityOf
  <2>3. FoundGone' /\ NothingBeforeSpawn'
    BY <1>12, <2>1 DEF ManagedInv, FoundGone, NothingBeforeSpawn, Servers
  <2>4. HandleIsRecord' /\ ReaderNotStale'
    BY <1>12, <2>1 DEF ManagedInv, HandleIsRecord, ReaderNotStale, Alive
  <2>5. QED
    BY <2>2, <2>3, <2>4 DEF ManagedInv
<1>13. ASSUME NEW t \in Tasks, RconStop(t)
       PROVE  ManagedInv'
  BY <1>12, <1>13 DEF RconStop
<1>14. ASSUME NEW t \in Tasks, WaitStopped(t)
       PROVE  ManagedInv'
  <2>1. CASE Alive(handle[t])
    BY <1>12, <1>14, <2>1 DEF WaitStopped
  <2>2. CASE ~Alive(handle[t])
    <3>1. record' = NoRecord /\ Return(t, "stopped") /\ slot' = slot
      BY <1>14, <2>2 DEF WaitStopped
    <3>2. ~Alive(record)
      BY <1>14, <2>2 DEF WaitStopped, ManagedInv, HandleIsRecord, Alive
    <3>3. QED
      BY <1>3, <1>14, <3>1, <3>2 DEF WaitStopped
  <2>3. QED
    BY <2>1, <2>2
<1>15. ASSUME NEW t \in Tasks, TerminateProcessGroup(t)
       PROVE  ManagedInv'
  <2>1. CASE pc[t] = "term" /\ UNCHANGED slot
    BY <1>12, <1>15, <2>1 DEF TerminateProcessGroup
  <2>2. CASE pc[t] = "kill" /\ slot' = [slot EXCEPT ![handle[t].pid] = Free]
    <3>1. handle[t].pid \in Pids
      BY <2>2 DEF NamesInv, TypeOK, Identity
    <3>2. QED
      BY <1>15, <2>2, <3>1, ManagedAfterExit DEF TerminateProcessGroup, TypeOK
  <2>3. QED
    BY <1>15, <2>1, <2>2 DEF TerminateProcessGroup
<1>16. ASSUME NEW t \in Tasks, Killed(t)
       PROVE  ManagedInv'
  <2>1. ~Alive(record)
    BY <1>16 DEF Killed, ManagedInv, HandleIsRecord, Alive
  <2>2. QED
    BY <1>3, <1>16, <2>1 DEF Killed
<1>17. ASSUME NEW p \in Pids, ServerExits(p) \/ OtherExits(p)
       PROVE  ManagedInv'
  BY <1>17, ManagedAfterExit DEF ServerExits, OtherExits
<1>18. ASSUME NEW p \in Pids, OtherProgram(p)
       PROVE  ManagedInv'
  <2>1. UNCHANGED <<pc, handle, record>>
    BY <1>18 DEF OtherProgram
  <2>2. Servers' = Servers /\ \A q \in Servers : IdentityOf(q)' = IdentityOf(q)
    BY <1>18 DEF OtherProgram, Servers, IdentityOf, TypeOK
  <2>3. \A t \in Tasks : pc[t] \in LockedPcs => (Alive(handle[t])' <=> Alive(handle[t]))
    BY <1>18, <2>1 DEF OtherProgram, Alive, TypeOK, NoRecord
  <2>4. EveryServerKnown'
    BY <2>1, <2>2 DEF ManagedInv, EveryServerKnown
  <2>5. FoundGone' /\ NothingBeforeSpawn' /\ ReaderNotStale'
    BY <2>1, <2>2 DEF ManagedInv, FoundGone, NothingBeforeSpawn, ReaderNotStale
  <2>6. HandleIsRecord'
    BY <2>1, <2>3 DEF ManagedInv, HandleIsRecord, LockedPcs
  <2>7. QED
    BY <2>4, <2>5, <2>6 DEF ManagedInv
<1>19. CASE UNCHANGED vars
  <2>1. UNCHANGED <<pc, handle, record, slot>>
    BY <1>19 DEF vars
  <2>2. QED
    BY <2>1 DEF ManagedInv, EveryServerKnown, FoundGone, NothingBeforeSpawn, HandleIsRecord,
                ReaderNotStale, Servers, IdentityOf, Alive
<1>20. QED
  BY <1>1, <1>2, <1>4, <1>5, <1>6, <1>7, <1>8, <1>9, <1>10, <1>11, <1>13, <1>14, <1>15,
     <1>16, <1>17, <1>18, <1>19
  DEF Next, Advance, WriteRaises, BotRestarts

LEMMA ManagedAlways ==
    ASSUME Faults \subseteq {"cancel"}
    PROVE  Spec => [](TypeOK /\ LockExcludes /\ NamesInv /\ ManagedInv)
<1>1. Init => NamesInv /\ ManagedInv
  BY ConstantsAssumption, NoRecordNames
  DEF Init, NamesInv, NamesServer, Counted, Alive, NoRecord, Free, StopPcs, ManagedInv,
      EveryServerKnown, FoundGone, NothingBeforeSpawn, HandleIsRecord, ReaderNotStale, Servers
<1>2. TypeOK /\ LockExcludes /\ NamesInv /\ [Next]_vars => NamesInv'
  BY NamesInductive
<1>3. TypeOK /\ LockExcludes /\ NamesInv /\ ManagedInv /\ [Next]_vars => ManagedInv'
  BY ManagedInductive
<1>4. QED
  BY <1>1, <1>2, <1>3, TypeCorrect, LockExclusion, PTL DEF Spec

\* However many tasks call the manager, at most one server of it runs.
THEOREM AtMostOneServer ==
    ASSUME Faults \subseteq {"cancel"}
    PROVE  Spec => []OneServer
<1>1. TypeOK /\ LockExcludes /\ ManagedInv => OneServer
  <2> SUFFICES ASSUME TypeOK, LockExcludes, ManagedInv, NEW p \in Servers, NEW q \in Servers
               PROVE  p = q
    BY DEF OneServer
  <2>2. IdentityOf(p) # NoRecord /\ IdentityOf(q) # NoRecord
    BY ServersRun
  <2>3. \A s, t \in Tasks :
            pc[s] \in {"settle", "write"} /\ pc[t] \in {"settle", "write"} => s = t
    BY OneHolder DEF LockedPcs
  <2>4. \A t \in Tasks : pc[t] \in {"settle", "write"} => record = NoRecord
    BY DEF ManagedInv, FoundGone
  <2>5. IdentityOf(p) = IdentityOf(q)
    BY <2>2, <2>3, <2>4 DEF ManagedInv, EveryServerKnown
  <2>6. QED
    BY <2>5 DEF IdentityOf
<1>2. QED
  BY <1>1, ManagedAlways, PTL

\* Whenever nobody is in the middle of a call, the PID record names the server that
\* runs.
THEOREM ServerIsManaged ==
    ASSUME Faults \subseteq {"cancel"}
    PROVE  Spec => []RunningIsManaged
<1>1. TypeOK /\ LockExcludes /\ ManagedInv => RunningIsManaged
  BY ConstantsAssumption
  DEF LockExcludes, LockedPcs, ManagedInv, EveryServerKnown, RunningIsManaged
<1>2. QED
  BY <1>1, ManagedAlways, PTL

\* No server runs during an offline action.
THEOREM OfflineExclusion ==
    ASSUME Faults \subseteq {"cancel"}
    PROVE  Spec => []OfflineIsOffline
<1>1. ManagedInv => OfflineIsOffline
  BY DEF ManagedInv, NothingBeforeSpawn, OfflineIsOffline
<1>2. QED
  BY <1>1, ManagedAlways, PTL
-----------------------------------------------------------------------------
(* The record: what of ManagedInv survives a crash of the bot and a record    *)
(* that could not be written.                                                 *)

RecordInv == FoundGone /\ HandleIsRecord /\ ReaderNotStale

LEMMA RecordInductive ==
    ASSUME Faults \subseteq {"crash", "disk", "cancel"},
           TypeOK, LockExcludes, NamesInv, RecordInv, [Next]_vars
    PROVE  RecordInv'
<1> USE DEF Goto, StopPcs, RecordInv, FoundGone, HandleIsRecord, ReaderNotStale
\* A task gets to where nothing is promised of it, and takes only a dead record along.
<1>1. ASSUME NEW t \in Tasks, UNCHANGED slot,
             record' = record \/ (record' = NoRecord /\ ~Alive(record)),
             \A s \in Tasks \ {t} : pc'[s] = pc[s] /\ handle'[s] = handle[s],
             pc'[t] \in {"idle", "pause", "queued", "peek", "read", "measure"}
      PROVE  RecordInv'
  BY <1>1 DEF Alive
<1>2. ASSUME NEW t \in Tasks, NEW r, Return(t, r), UNCHANGED slot,
             record' = record \/ (record' = NoRecord /\ ~Alive(record))
      PROVE  RecordInv'
  BY <1>1, <1>2 DEF Return, TypeOK
<1>3. ASSUME NEW t \in Tasks,
             (\E o \in LockedOps : RequestLocked(t, o)) \/ RequestStatus(t) \/ AfterPause(t) \/ Acquire(t)
      PROVE  RecordInv'
  BY <1>1, <1>3 DEF RequestLocked, RequestStatus, AfterPause, Acquire, TypeOK
<1>4. ASSUME NEW t \in Tasks, ReadPidRecord(t)
      PROVE  RecordInv'
  BY <1>4 DEF ReadPidRecord, TypeOK, Alive
<1>5. ASSUME NEW t \in Tasks, StatusInspects(t)
      PROVE  RecordInv'
  <2>1. record' = record \/ (record' = NoRecord /\ ~Alive(record))
    BY <1>5 DEF StatusInspects, UnlinkUnlessAlive, Alive
  <2>2. CASE Return(t, "not_running")
    BY <1>2, <1>5, <2>1, <2>2 DEF StatusInspects
  <2>3. CASE Goto(t, "measure") /\ UNCHANGED handle
    BY <1>1, <1>5, <2>1, <2>3 DEF StatusInspects, TypeOK
  <2>4. QED
    BY <1>5, <2>2, <2>3 DEF StatusInspects
<1>6. ASSUME NEW t \in Tasks, FoundRunning(t)
      PROVE  RecordInv'
  <2>1. CASE op[t] \in {"start", "offline"}
    BY <1>2, <1>6, <2>1 DEF FoundRunning
  <2>2. CASE op[t] \in {"stop", "restart"}
    BY <1>6, <2>2 DEF FoundRunning, TypeOK, Alive
  <2>3. QED
    BY <1>6, <2>1, <2>2 DEF FoundRunning
<1>7. ASSUME NEW t \in Tasks, FoundStopped(t)
      PROVE  RecordInv'
  <2>1. ~Alive(record) /\ record' = NoRecord
    BY <1>7 DEF FoundStopped, UnlinkUnlessAlive, Alive
  <2>2. CASE op[t] \in {"stop", "restart"}
    BY <1>2, <1>7, <2>1, <2>2 DEF FoundStopped
  <2>3. CASE op[t] \in {"start", "offline"}
    <3>1. \A s \in Tasks \ {t} : pc[s] \notin LockedPcs
      BY <1>7, OneHolder DEF FoundStopped, LockedPcs
    <3>2. QED
      BY <1>7, <2>1, <2>3, <3>1 DEF FoundStopped, TypeOK, LockedPcs, Alive
  <2>4. QED
    BY <1>7, <2>2, <2>3 DEF FoundStopped
<1>8. ASSUME NEW t \in Tasks, StatusAnswers(t) \/ SpawnRaises(t) \/ WriteRaises(t)
                              \/ StopCancelled(t) \/ OfflineDone(t)
      PROVE  RecordInv'
  BY <1>2, <1>8 DEF StatusAnswers, SpawnRaises, WriteRaises, StopCancelled, OfflineDone
<1>9. ASSUME NEW t \in Tasks, NEW p \in Pids, Spawn(t, p)
      PROVE  RecordInv'
  <2>1. \A s \in Tasks \ {t} : pc[s] \notin LockedPcs
    BY <1>9, OneHolder DEF Spawn, LockedPcs
  <2>2. QED
    BY <1>9, <2>1 DEF Spawn, TypeOK, LockedPcs, Alive
<1>10. ASSUME NEW t \in Tasks, Settle(t)
       PROVE  RecordInv'
  <2>1. CASE Alive(handle[t])
    BY <1>10, <2>1 DEF Settle, TypeOK, Alive
  <2>2. CASE ~Alive(handle[t])
    BY <1>2, <1>10, <2>2 DEF Settle
  <2>3. QED
    BY <2>1, <2>2
<1>11. ASSUME NEW t \in Tasks, WritePidRecord(t)
       PROVE  RecordInv'
  <2>1. \A s \in Tasks \ {t} : pc[s] \notin LockedPcs
    BY <1>11, OneHolder DEF WritePidRecord, LockedPcs
  <2>2. \A s \in Tasks : pc[s] = "peeked" => handle[s] = NoRecord
    BY <1>11 DEF WritePidRecord, NoStaleReader
  <2>3. QED
    BY <1>11, <2>1, <2>2 DEF WritePidRecord, Return, TypeOK, LockedPcs
<1>12. ASSUME NEW t \in Tasks, RconStop(t)
       PROVE  RecordInv'
  BY <1>12 DEF RconStop, TypeOK, Alive
<1>13. ASSUME NEW t \in Tasks, WaitStopped(t)
       PROVE  RecordInv'
  <2>1. CASE Alive(handle[t])
    BY <1>13, <2>1 DEF WaitStopped, TypeOK, Alive
  <2>2. CASE ~Alive(handle[t])
    BY <1>2, <1>13, <2>2 DEF WaitStopped, Alive
  <2>3. QED
    BY <2>1, <2>2
<1>14. ASSUME NEW t \in Tasks, Killed(t)
       PROVE  RecordInv'
  BY <1>2, <1>14 DEF Killed, Alive
<1>15. ASSUME NEW p \in Pids, ServerExits(p) \/ OtherExits(p)
       PROVE  RecordInv'
  <2>1. \A h \in Identity : Alive(h)' => Alive(h)
    BY <1>15, ConstantsAssumption
    DEF ServerExits, OtherExits, Alive, TypeOK, Identity, Free, NoRecord
  <2>2. QED
    BY <1>15, <2>1 DEF ServerExits, OtherExits, TypeOK
<1>16. ASSUME NEW t \in Tasks, TerminateProcessGroup(t)
       PROVE  RecordInv'
  <2>1. handle[t].pid \in Pids
    BY <1>16 DEF TerminateProcessGroup, NamesInv, TypeOK, Identity
  <2>2. \A h \in Identity : Alive(h)' => Alive(h)
    BY <1>16, <2>1, ConstantsAssumption
    DEF TerminateProcessGroup, Alive, TypeOK, Identity, Free, NoRecord
  <2>3. pc[t] = "kill" => ~Alive(handle[t])'
    BY <1>16, <2>1 DEF TerminateProcessGroup, Alive, TypeOK, Free
  <2>4. QED
    BY <1>16, <2>2, <2>3 DEF TerminateProcessGroup, TypeOK
<1>17. ASSUME NEW p \in Pids, OtherProgram(p)
       PROVE  RecordInv'
  <2>1. \A s \in Tasks : pc[s] \in LockedPcs => Alive(handle[s])' = Alive(handle[s])
    BY <1>17 DEF OtherProgram, Alive, TypeOK
  <2>2. QED
    BY <1>17, <2>1 DEF OtherProgram, LockedPcs
<1>18. CASE BotRestarts
  BY <1>18 DEF BotRestarts
<1>19. CASE UNCHANGED vars
  BY <1>19 DEF vars, Alive
<1>20. QED
  BY <1>3, <1>4, <1>5, <1>6, <1>7, <1>8, <1>9, <1>10, <1>11, <1>12, <1>13, <1>14, <1>15,
     <1>16, <1>17, <1>18, <1>19
  DEF Next, Advance

\* The record of a running server is neither removed nor replaced, by any caller and
\* across restarts of the bot: a start() writes where it found none, a stop() unlinks
\* when its server is gone, and a status thread unlinks what it has read.
THEOREM RecordKept ==
    ASSUME Faults \subseteq {"crash", "disk", "cancel"}
    PROVE  Spec => LiveRecordKept
<1>1. Init => NamesInv /\ RecordInv
  BY ConstantsAssumption, NoRecordNames
  DEF Init, NamesInv, NamesServer, Counted, Alive, NoRecord, Free, StopPcs, RecordInv,
      FoundGone, HandleIsRecord, ReaderNotStale
<1>2. TypeOK /\ LockExcludes /\ NamesInv /\ [Next]_vars => NamesInv'
  BY NamesInductive
<1>3. TypeOK /\ LockExcludes /\ NamesInv /\ RecordInv /\ [Next]_vars => RecordInv'
  BY RecordInductive
<1>4. RecordInv /\ [Next]_vars => [Alive(record) => record' = record]_vars
  <2> SUFFICES ASSUME RecordInv, Next, Alive(record)
               PROVE  record' = record
    BY DEF vars
  <2>1. ASSUME NEW t \in Tasks, StatusInspects(t)
        PROVE  record' = record
    BY <2>1 DEF StatusInspects, UnlinkUnlessAlive, RecordInv, ReaderNotStale, Alive
  <2>2. ASSUME NEW t \in Tasks, FoundStopped(t)
        PROVE  record' = record
    BY <2>2 DEF FoundStopped, UnlinkUnlessAlive, RecordInv, HandleIsRecord, Alive
  <2>3. ASSUME NEW t \in Tasks, WritePidRecord(t)
        PROVE  FALSE
    BY <2>3 DEF WritePidRecord, RecordInv, FoundGone, Alive
  <2>4. ASSUME NEW t \in Tasks, WaitStopped(t) \/ Killed(t)
        PROVE  record' = record
    BY <2>4 DEF WaitStopped, Killed, RecordInv, HandleIsRecord, StopPcs, Alive
  <2>5. QED
    BY <2>1, <2>2, <2>3, <2>4
    DEF Next, Advance, RequestLocked, RequestStatus, StopCancelled, Acquire, AfterPause,
        ReadPidRecord, StatusAnswers, FoundRunning, SpawnRaises, Spawn, Settle, WriteRaises, RconStop,
        TerminateProcessGroup, OfflineDone, ServerExits, OtherProgram, OtherExits, BotRestarts
<1>5. QED
  BY <1>1, <1>2, <1>3, <1>4, TypeCorrect, LockExclusion, PTL DEF Spec, LiveRecordKept

-----------------------------------------------------------------------------
(* The refinement of ServerLifecycle: what of the state its callers see.     *)

Availability == IF Servers = {} THEN "down" ELSE "up"

Phase == [t \in Tasks |->
             IF pc[t] = "idle" THEN "idle"
             ELSE IF pc[t] \in {"settle", "write"} THEN "launching"
             ELSE IF pc[t] = "offline" THEN "offline"
             ELSE IF pc[t] = "measure" THEN "seen"
             ELSE "pending"]

\* One lemma per abstract action: what a step has to do to be one.
LEMMA IsStutter ==
    ASSUME UNCHANGED <<Availability, Phase, answer>>
    PROVE  UNCHANGED Lifecycle!vars
  BY DEF Lifecycle!vars, Availability, Phase

LEMMA IsCall ==
    ASSUME NEW t \in Tasks, Phase[t] \in {"idle", "pending"},
           Phase' = [Phase EXCEPT ![t] = "pending"],
           answer' = [answer EXCEPT ![t] = "none"],
           UNCHANGED Availability
    PROVE  Lifecycle!Next
<1>1. Lifecycle!Call(t)
  BY DEF Lifecycle!Call, Availability, Phase
<1>2. QED
  BY <1>1 DEF Lifecycle!Next

LEMMA IsSee ==
    ASSUME NEW t \in Tasks, Availability = "up", Phase[t] = "pending",
           Phase' = [Phase EXCEPT ![t] = "seen"],
           UNCHANGED <<Availability, answer>>
    PROVE  Lifecycle!Next
<1>1. Lifecycle!See(t)
  BY DEF Lifecycle!See, Availability, Phase
<1>2. QED
  BY <1>1 DEF Lifecycle!Next

LEMMA IsEnter ==
    ASSUME NEW t \in Tasks, NEW how \in {"launching", "offline"},
           Availability = "down",
           \A s \in Tasks : Phase[s] \notin {"launching", "offline"},
           Phase[t] = "pending",
           Phase' = [Phase EXCEPT ![t] = how],
           Availability' = IF how = "launching" THEN "up" ELSE "down",
           UNCHANGED answer
    PROVE  Lifecycle!Next
<1>1. Lifecycle!Enter(t, how)
  BY DEF Lifecycle!Enter, Lifecycle!Exclusive, Availability, Phase
<1>2. QED
  BY <1>1 DEF Lifecycle!Next, Lifecycle!Exclusive

LEMMA IsExit ==
    ASSUME Availability = "up", Availability' = "down", UNCHANGED <<Phase, answer>>
    PROVE  Lifecycle!Next
<1>1. Lifecycle!Exit
  BY DEF Lifecycle!Exit, Availability, Phase
<1>2. QED
  BY <1>1 DEF Lifecycle!Next

LEMMA IsAnswer ==
    ASSUME NEW t \in Tasks,
           NEW result \in Answers \ {"none"},
           Phase[t] # "idle",
           result = "started" => Phase[t] = "launching",
           result = "done" => Phase[t] = "offline",
           result = "running" => Phase[t] = "seen",
           result \in {"already_running", "skipped"} => Availability = "up",
           result \in {"already_stopped", "stopped", "killed"} => Availability = "down",
           NEW after \in {"idle", "pending"},
           Phase' = [Phase EXCEPT ![t] = after],
           answer' = [answer EXCEPT ![t] = result],
           UNCHANGED Availability
    PROVE  Lifecycle!Next
<1>1. Lifecycle!Truthful(t, result)
  BY DEF Lifecycle!Truthful, Availability, Phase
<1>2. Lifecycle!Answer(t)
  BY <1>1 DEF Lifecycle!Answer, Answers, Availability, Phase
<1>3. QED
  BY <1>2 DEF Lifecycle!Next

\* The steps of a task change its own phase only.
LEMMA PhaseMoves ==
    ASSUME TypeOK, NEW t \in Tasks, NEW where \in Pcs, pc' = [pc EXCEPT ![t] = where]
    PROVE  /\ Phase[t] # "idle" <=> pc[t] # "idle"
           /\ where = "idle" => Phase' = [Phase EXCEPT ![t] = "idle"]
           /\ where \in {"settle", "write"} => Phase' = [Phase EXCEPT ![t] = "launching"]
           /\ where = "offline" => Phase' = [Phase EXCEPT ![t] = "offline"]
           /\ where = "measure" => Phase' = [Phase EXCEPT ![t] = "seen"]
           /\ where \notin {"idle", "settle", "write", "offline", "measure"}
              => Phase' = [Phase EXCEPT ![t] = "pending"]
  BY DEF TypeOK, Phase, Pcs, LockedPcs

\* What the inspection under the lock tells is the truth about the server.
LEMMA FoundIsTrue ==
    ASSUME TypeOK, LockExcludes, NamesInv, ManagedInv, NEW t \in Tasks
    PROVE  /\ Alive(handle[t]) => Servers # {}
           /\ pc[t] \in StopPcs \cup {"examine"} /\ ~Alive(handle[t]) => Servers = {}
<1>1. ASSUME Alive(handle[t])
      PROVE  Servers # {}
  <2>1. handle[t].pid \in Pids
    BY <1>1 DEF Alive, TypeOK, Identity, NoRecord
  <2>2. slot[handle[t].pid].kind = "server"
    BY <1>1 DEF NamesInv, NamesServer
  <2>3. QED
    BY <2>1, <2>2 DEF Servers
<1>2. ASSUME pc[t] \in StopPcs \cup {"examine"}, ~Alive(handle[t]), NEW p \in Servers
      PROVE  FALSE
  <2>1. \A s \in Tasks : pc[s] \notin {"settle", "write"}
    BY <1>2, OneHolder DEF LockedPcs, StopPcs
  <2>2. record = IdentityOf(p)
    BY <2>1 DEF ManagedInv, EveryServerKnown
  <2>3. QED
    BY <1>2, <2>2, ServersRun DEF ManagedInv, HandleIsRecord
<1>3. QED
  BY <1>1, <1>2

LEMMA ReturnAnswers ==
    ASSUME TypeOK, NEW t \in Tasks, NEW result \in Answers \ {"none"}, pc[t] # "idle",
           Return(t, result), UNCHANGED slot,
           result = "started" => pc[t] \in {"settle", "write"},
           result = "done" => pc[t] = "offline",
           result = "running" => pc[t] = "measure",
           result \in {"already_running", "skipped"} => Servers # {},
           result \in {"already_stopped", "stopped", "killed"} => Servers = {}
    PROVE  Lifecycle!Next
<1> DEFINE where == IF op[t] = "restart" /\ result # "cancelled" THEN "pause" ELSE "idle"
           after == IF op[t] = "restart" /\ result # "cancelled" THEN "pending" ELSE "idle"
<1>1. pc' = [pc EXCEPT ![t] = where] /\ answer' = [answer EXCEPT ![t] = result]
  BY DEF Return, Goto
<1>2. Phase' = [Phase EXCEPT ![t] = after] /\ Phase[t] # "idle"
  <2>1. where \in {"idle", "pause"} /\ {"idle", "pause"} \subseteq Pcs
    BY DEF Pcs
  <2>2. CASE where = "idle"
    BY <1>1, <2>1, <2>2, PhaseMoves
  <2>3. CASE where = "pause"
    BY <1>1, <2>1, <2>3, PhaseMoves
  <2>4. QED
    BY <2>1, <2>2, <2>3
<1>3. UNCHANGED Availability
  BY DEF Availability, Servers
<1>4. /\ result = "started" => Phase[t] = "launching"
      /\ result = "done" => Phase[t] = "offline"
      /\ result = "running" => Phase[t] = "seen"
  BY DEF Phase
<1>5. QED
  BY <1>1, <1>2, <1>3, <1>4, IsAnswer DEF Availability

LEMMA StepRefines ==
    ASSUME Faults \subseteq {"cancel"}, TypeOK, LockExcludes, NamesInv, ManagedInv, OneServer,
           [Next]_vars
    PROVE  [Lifecycle!Next]_(Lifecycle!vars)
<1>1. ASSUME NEW t \in Tasks,
             (\E o \in LockedOps : RequestLocked(t, o)) \/ RequestStatus(t) \/ AfterPause(t)
      PROVE  Lifecycle!Next
  <2>1. Phase[t] \in {"idle", "pending"} /\ Phase' = [Phase EXCEPT ![t] = "pending"]
    BY <1>1 DEF RequestLocked, RequestStatus, AfterPause, Goto, Phase, TypeOK
  <2>2. answer' = [answer EXCEPT ![t] = "none"] /\ UNCHANGED slot
    BY <1>1 DEF RequestLocked, RequestStatus, AfterPause
  <2>3. QED
    BY <2>1, <2>2, IsCall DEF Availability, Servers
<1>2. ASSUME NEW t \in Tasks, Acquire(t) \/ ReadPidRecord(t) \/ RconStop(t)
      PROVE  UNCHANGED Lifecycle!vars
  <2>1. UNCHANGED <<Phase, slot, answer>>
    BY <1>2 DEF Acquire, ReadPidRecord, RconStop, Goto, Phase, TypeOK
  <2>2. QED
    BY <2>1, IsStutter DEF Availability, Servers
<1>3. ASSUME NEW t \in Tasks, StatusInspects(t)
      PROVE  Lifecycle!Next
  <2>1. CASE Alive(handle[t])
    <3>1. /\ Phase[t] = "pending" /\ Phase' = [Phase EXCEPT ![t] = "seen"]
          /\ UNCHANGED <<slot, answer>>
      BY <1>3, <2>1 DEF StatusInspects, Goto, Phase, TypeOK
    <3>2. Availability = "up" /\ UNCHANGED Availability
      BY <2>1, <3>1, FoundIsTrue DEF Availability, Servers
    <3>3. QED
      BY <3>1, <3>2, IsSee
  <2>2. CASE ~Alive(handle[t])
    BY <1>3, <2>2, ReturnAnswers DEF StatusInspects, Answers
  <2>3. QED
    BY <2>1, <2>2
<1>4. ASSUME NEW t \in Tasks, FoundRunning(t)
      PROVE  Lifecycle!Next \/ UNCHANGED Lifecycle!vars
  <2>1. CASE op[t] \in {"start", "offline"}
    BY <1>4, <2>1, FoundIsTrue, ReturnAnswers DEF FoundRunning, Answers, Alive
  <2>2. CASE op[t] \in {"stop", "restart"}
    <3>1. UNCHANGED <<Phase, slot, answer>>
      BY <1>4, <2>2 DEF FoundRunning, Goto, Phase, TypeOK
    <3>2. QED
      BY <3>1, IsStutter DEF Availability, Servers
  <2>3. QED
    BY <1>4, <2>1, <2>2 DEF FoundRunning
<1>5. ASSUME NEW t \in Tasks, FoundStopped(t)
      PROVE  Lifecycle!Next \/ UNCHANGED Lifecycle!vars
  <2>1. Servers = {} /\ pc[t] = "examine" /\ UNCHANGED slot
    BY <1>5, FoundIsTrue DEF FoundStopped
  <2>2. CASE op[t] \in {"stop", "restart"}
    BY <1>5, <2>1, <2>2, ReturnAnswers DEF FoundStopped, Answers
  <2>3. CASE op[t] = "start"
    <3>1. UNCHANGED <<Phase, answer>>
      BY <1>5, <2>3 DEF FoundStopped, Goto, Phase, TypeOK
    <3>2. QED
      BY <2>1, <3>1, IsStutter DEF Availability, Servers
  <2>4. CASE op[t] = "offline"
    <3>1. Phase[t] = "pending" /\ Phase' = [Phase EXCEPT ![t] = "offline"] /\ UNCHANGED answer
      BY <1>5, <2>4 DEF FoundStopped, Goto, Phase, TypeOK
    <3>2. \A s \in Tasks : Phase[s] \notin {"launching", "offline"}
      BY <2>1, OneHolder DEF Phase, LockedPcs
    <3>3. Availability = "down" /\ Availability' = "down"
      BY <2>1 DEF Availability, Servers
    <3>4. QED
      BY <3>1, <3>2, <3>3, IsEnter
  <2>5. QED
    BY <1>5, <2>2, <2>3, <2>4 DEF FoundStopped
<1>6. ASSUME NEW t \in Tasks, StatusAnswers(t) \/ SpawnRaises(t) \/ StopCancelled(t)
                              \/ WriteRaises(t) \/ WritePidRecord(t) \/ OfflineDone(t)
      PROVE  Lifecycle!Next
  BY <1>6, ReturnAnswers
  DEF StatusAnswers, SpawnRaises, StopCancelled, WriteRaises, WritePidRecord, OfflineDone, Answers, StopPcs
<1>7. ASSUME NEW t \in Tasks, NEW p \in Pids, Spawn(t, p)
      PROVE  Lifecycle!Next
  <2>1. pc[t] = "spawn" /\ Servers = {}
    BY <1>7 DEF Spawn, ManagedInv, NothingBeforeSpawn
  <2>2. Phase[t] = "pending" /\ Phase' = [Phase EXCEPT ![t] = "launching"] /\ UNCHANGED answer
    BY <1>7 DEF Spawn, Goto, Phase, TypeOK
  <2>3. \A s \in Tasks : Phase[s] \notin {"launching", "offline"}
    BY <2>1, OneHolder DEF Phase, LockedPcs
  <2>4. p \in Servers'
    BY <1>7 DEF Spawn, Servers, TypeOK
  <2>5. QED
    BY <2>1, <2>2, <2>3, <2>4, IsEnter DEF Availability
<1>8. ASSUME NEW t \in Tasks, Settle(t)
      PROVE  Lifecycle!Next \/ UNCHANGED Lifecycle!vars
  <2>1. CASE Alive(handle[t])
    <3>1. UNCHANGED <<Phase, slot, answer>>
      BY <1>8, <2>1 DEF Settle, Goto, Phase, TypeOK
    <3>2. QED
      BY <3>1, IsStutter DEF Availability, Servers
  <2>2. CASE ~Alive(handle[t])
    BY <1>8, <2>2, ReturnAnswers DEF Settle, Answers
  <2>3. QED
    BY <2>1, <2>2
<1>9. ASSUME NEW t \in Tasks, WaitStopped(t)
      PROVE  Lifecycle!Next \/ UNCHANGED Lifecycle!vars
  <2>1. CASE Alive(handle[t])
    <3>1. UNCHANGED <<Phase, slot, answer>>
      BY <1>9, <2>1 DEF WaitStopped, Goto, Phase, TypeOK
    <3>2. QED
      BY <3>1, IsStutter DEF Availability, Servers
  <2>2. CASE ~Alive(handle[t])
    BY <1>9, <2>2, FoundIsTrue, ReturnAnswers DEF WaitStopped, Answers, StopPcs
  <2>3. QED
    BY <2>1, <2>2
<1>10. ASSUME NEW t \in Tasks, Killed(t)
       PROVE  Lifecycle!Next
  <2>1. Servers = {}
    BY <1>10, FoundIsTrue DEF Killed, StopPcs, ManagedInv, HandleIsRecord
  <2>2. QED
    BY <1>10, <2>1, ReturnAnswers DEF Killed, Answers
<1>11. ASSUME NEW p \in Pids, slot' = [slot EXCEPT ![p] = Free], UNCHANGED <<Phase, answer>>
       PROVE  Lifecycle!Next \/ UNCHANGED Lifecycle!vars
  <2>1. Servers' = Servers \ {p}
    BY <1>11 DEF Servers, Free, TypeOK
  <2>2. CASE p \in Servers
    <3>1. Availability = "up" /\ Availability' = "down"
      BY <2>1, <2>2 DEF Availability, OneServer
    <3>2. QED
      BY <1>11, <3>1, IsExit
  <2>3. CASE p \notin Servers
    BY <1>11, <2>1, <2>3, IsStutter DEF Availability
  <2>4. QED
    BY <2>2, <2>3
<1>12. ASSUME NEW t \in Tasks, TerminateProcessGroup(t)
       PROVE  Lifecycle!Next \/ UNCHANGED Lifecycle!vars
  <2>1. UNCHANGED <<Phase, answer>>
    BY <1>12 DEF TerminateProcessGroup, Goto, Phase, TypeOK
  <2>2. CASE UNCHANGED slot
    BY <2>1, <2>2, IsStutter DEF Availability, Servers
  <2>3. CASE slot' = [slot EXCEPT ![handle[t].pid] = Free]
    <3>1. handle[t].pid \in Pids
      BY <1>12 DEF TerminateProcessGroup, NamesInv, StopPcs, TypeOK, Identity
    <3>2. QED
      BY <2>1, <2>3, <3>1, <1>11
  <2>4. QED
    BY <1>12, <2>2, <2>3 DEF TerminateProcessGroup
<1>13. ASSUME NEW p \in Pids, ServerExits(p) \/ OtherExits(p)
       PROVE  Lifecycle!Next \/ UNCHANGED Lifecycle!vars
  BY <1>13, <1>11 DEF ServerExits, OtherExits, Phase
<1>14. ASSUME NEW p \in Pids, OtherProgram(p)
       PROVE  UNCHANGED Lifecycle!vars
  <2>1. Servers' = Servers
    BY <1>14 DEF OtherProgram, Servers, TypeOK
  <2>2. QED
    BY <1>14, <2>1, IsStutter DEF OtherProgram, Availability, Phase
<1>15. CASE UNCHANGED vars
  BY <1>15, IsStutter DEF vars, Availability, Servers, Phase
<1>16. QED
  BY <1>1, <1>2, <1>3, <1>4, <1>5, <1>6, <1>7, <1>8, <1>9, <1>10, <1>12, <1>13, <1>14, <1>15
  DEF Next, Advance, BotRestarts

\* The manager keeps what it promises its callers: one server at most, entered by one
\* call at a time; what a call that holds the lock answers is true when it is given, and
\* a server that status() calls running was up at some moment of that call.
THEOREM LifecycleImplemented ==
    ASSUME Faults \subseteq {"cancel"}
    PROVE  Spec => ImplementsLifecycle
<1>1. Init => Lifecycle!Init
  BY DEF Init, Lifecycle!Init, Servers, Free
<1>2. /\ TypeOK /\ LockExcludes /\ NamesInv /\ ManagedInv /\ OneServer
      /\ [Next]_vars
      => [Lifecycle!Next]_(Lifecycle!vars)
  BY StepRefines
<1>3. QED
  BY <1>1, <1>2, ManagedAlways, AtMostOneServer, PTL DEF Spec, ImplementsLifecycle, Lifecycle!Spec
=============================================================================
