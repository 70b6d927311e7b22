-------------------------- MODULE RemoteAgent_proofs --------------------------
(***************************************************************************)
(* What TLAPS proves of RemoteAgent, for any number of bots, agents and    *)
(* reboots and under every fault: type correctness, exclusion by the file  *)
(* lock, one server on record, no signal to another program, scheduled     *)
(* archives that are whole, saves that are restored and answers that are   *)
(* true.                                                                   *)
(***************************************************************************)
EXTENDS RemoteAgent, TLAPS

-----------------------------------------------------------------------------
(* The flow of an agent.                                                     *)

ControlTyped ==
    /\ pc \in [Bots -> {"idle", "checked", "waiting"}]
    /\ at \in [Agents -> LockedPcs \cup {"free", "lock", "answered"}]
    /\ job \in [Agents -> Jobs]
    /\ caller \in [Agents -> Bots \cup {NoBot}]
    /\ child \in [Agents -> Ids \cup {NoId}]
    /\ paused \in [Agents -> BOOLEAN]
    /\ verdict \in [Agents -> Answers]
    /\ flock \in Agents \cup {NoAgent}

\* What a step of agent a leaves as it is.
Others(a) ==
    \A b \in Agents \ {a} :
        /\ at'[b] = at[b] /\ job'[b] = job[b] /\ child'[b] = child[b]
        /\ paused'[b] = paused[b] /\ verdict'[b] = verdict[b]

\* Agent a goes on somewhere, or ends.
Stays(a, where) ==
    /\ at'[a] = where /\ job'[a] = job[a] /\ child'[a] = child[a] /\ paused'[a] = paused[a]
    /\ flock' = flock

Ends(a, ans) ==
    /\ at'[a] \in {"free", "answered"} /\ paused'[a] = FALSE
    /\ flock' = IF flock = a THEN NoAgent ELSE flock
    /\ verdict'[a] = ans

LEMMA FinishEnds ==
    ASSUME TypeOK, NEW a \in Agents, NEW ans \in Answers, Finish(a, ans)
    PROVE  ControlTyped' /\ Others(a) /\ Ends(a, ans)
  BY DEF TypeOK, ControlTyped, Jobs, Finish, LetGo, Goto, Others, Ends

LEMMA GoneEnds ==
    ASSUME TypeOK, NEW a \in Agents, Gone(a)
    PROVE  ControlTyped' /\ Others(a) /\ Ends(a, "neither")
<1>1. pc' \in [Bots -> {"idle", "checked", "waiting"}]
  BY DEF Gone, TypeOK
<1>2. QED
  BY <1>1 DEF TypeOK, ControlTyped, Jobs, Answers, Gone, LetGo, Goto, Others, Ends

LEMMA GotoStays ==
    ASSUME TypeOK, NEW a \in Agents, NEW where \in LockedPcs, Continue(a, where)
    PROVE  ControlTyped' /\ Others(a) /\ Stays(a, where)
  BY DEF TypeOK, ControlTyped, Continue, Goto, Others, Stays

LEMMA TerminatedFlow ==
    ASSUME TypeOK, NEW a \in Agents, Terminated(a)
    PROVE  /\ ControlTyped' /\ Others(a)
           /\ Ends(a, "down") \/ (job[a] = "restart" /\ Stays(a, "look"))
<1>1. "down" \in Answers /\ "look" \in LockedPcs
  BY DEF Answers, LockedPcs
<1>2. QED
  BY <1>1, FinishEnds, GotoStays DEF Terminated

LEMMA LeaveTryFlow ==
    ASSUME TypeOK, NEW a \in Agents, LeaveTry(a)
    PROVE  /\ ControlTyped' /\ Others(a)
           /\ Ends(a, "neither") \/ (paused[a] /\ Stays(a, "save_on"))
           /\ paused[a] => Stays(a, "save_on")
<1>1. "neither" \in Answers /\ "save_on" \in LockedPcs
  BY DEF Answers, LockedPcs, CopyPcs
<1>2. QED
  BY <1>1, FinishEnds, GotoStays DEF LeaveTry

LEMMA SavesTyped ==
    ASSUME TypeOK, SavesAfterwards
    PROVE  saving' \in BOOLEAN /\ lost' \in BOOLEAN
  BY DEF TypeOK, SavesAfterwards

LEMMA TornTyped ==
    ASSUME TypeOK, NEW i, WorldWrittenBy(i)
    PROVE  torn' \in [Agents -> BOOLEAN]
  BY DEF TypeOK, WorldWrittenBy

\* The places an agent goes to.
LEMMA PcNames ==
    /\ {"look", "spawn", "record", "settle", "find", "ask", "save_off", "rcon", "wait",
        "term", "kill", "flush", "clean", "copy", "save_on"} = LockedPcs
    /\ {"up", "down", "neither"} = Answers
  BY DEF LockedPcs, StopPcs, CopyPcs, Answers

-----------------------------------------------------------------------------
(* Types.                                                                    *)

\* A record names a server, and so does whoever works on one.
HandsTyped ==
    /\ record.id = NoId => record = NoRecord
    /\ \A a \in Agents : at[a] \in StopPcs \cup {"record", "settle"} => child[a] \in Ids

HostTyped ==
    /\ torn \in [Agents -> BOOLEAN]
    /\ slot \in [Ids -> Live \cup {"none", "other", "exited"}]
    /\ boot \in 0..MaxBoots
    /\ record \in [id : Ids \cup {NoId}, boot : 0..MaxBoots]
    /\ record.id = NoId => record = NoRecord
    /\ orphans \subseteq Ids
    /\ saving \in BOOLEAN
    /\ lost \in BOOLEAN
    /\ archive \in {"whole", "torn"}

\* Agents that take no server in hand.
LEMMA NothingInHand ==
    ASSUME HandsTyped, NEW a \in Agents, Others(a), HostTyped',
           at'[a] \in StopPcs \cup {"record", "settle"} => child'[a] \in Ids
    PROVE  HandsTyped'
  BY DEF HandsTyped, Others, HostTyped

LEMMA AgentTyped ==
    ASSUME TypeOK, HandsTyped, NEW a \in Agents, Proceed(a)
    PROVE  ControlTyped' /\ HostTyped' /\ HandsTyped'
<1> USE PcNames
<1> DEFINE Calm == Others(a) /\ at'[a] \notin StopPcs \cup {"record", "settle"}
<1>h. ASSUME UNCHANGED <<host, world, archive>>
      PROVE  HostTyped'
  BY <1>h DEF TypeOK, HandsTyped, HostTyped, host, world, NoRecord
<1>f. ASSUME NEW ans \in Answers, Finish(a, ans)
      PROVE  ControlTyped' /\ Calm
  BY <1>f, FinishEnds DEF Ends, StopPcs
<1>g. ASSUME NEW where \in LockedPcs, Continue(a, where)
      PROVE  ControlTyped' /\ Others(a) /\ Stays(a, where)
  BY <1>g, GotoStays
<1>1. CASE Flock(a)
  BY <1>1, <1>h, NothingInHand
     DEF Flock, FirstStep, Goto, TypeOK, ControlTyped, Others, StopPcs, HandsTyped, Jobs
<1>2. CASE FlockRefused(a) \/ SpawnRaises(a)
  BY <1>2, <1>h, <1>f, NothingInHand DEF FlockRefused, SpawnRaises
<1>3. CASE Look(a)
  <2>1. "spawn" \in LockedPcs /\ "up" \in Answers /\ "neither" \in Answers
    BY DEF LockedPcs, Answers
  <2>2. ControlTyped' /\ Calm
    BY <1>3, <1>f, <1>g, <2>1 DEF Look, Stays, StopPcs
  <2>3. QED
    BY <1>3, <1>h, <2>2, NothingInHand DEF Look
<1>4. CASE Spawn(a)
  BY <1>4, TornTyped
     DEF Spawn, TypeOK, ControlTyped, HostTyped, HandsTyped, Goto, Live, StopPcs
<1>5. CASE Record(a)
  BY <1>5, RemoteAssumption
     DEF Record, TypeOK, ControlTyped, HostTyped, HandsTyped, Continue, Goto, world, StopPcs
<1>6. CASE RecordRaises(a)
  <2>1. HostTyped'
    BY <1>6 DEF RecordRaises, TypeOK, HandsTyped, HostTyped, world, NoRecord
  <2>2. QED
    BY <1>6, <1>f, <2>1, NothingInHand DEF RecordRaises
<1>7. CASE Settle(a)
  <2>1. HostTyped'
    BY <1>7, RemoteAssumption DEF Settle, TypeOK, HandsTyped, HostTyped, world, NoRecord
  <2>2. QED
    BY <1>7, <1>f, <2>1, NothingInHand DEF Settle
<1>8. CASE Find(a)
  <2>1. HostTyped'
    BY <1>8, <1>h DEF Find
  <2>2. CASE Terminated(a)
    BY <2>1, <2>2, TerminatedFlow, NothingInHand DEF Ends, Stays, StopPcs
  <2>3. CASE Finish(a, "neither")
    BY <2>1, <2>3, <1>f, NothingInHand
  <2>4. CASE /\ Recorded
             /\ Goto(a, "rcon")
             /\ child' = [child EXCEPT ![a] = record.id]
             /\ UNCHANGED <<pc, job, caller, paused, verdict, flock>>
    <3>1. record.id \in Ids
      BY <2>4, RemoteAssumption DEF Recorded, HandsTyped, TypeOK
    <3>2. ControlTyped' /\ Others(a) /\ child'[a] \in Ids
      BY <2>4, <3>1 DEF TypeOK, ControlTyped, Goto, Others
    <3>3. QED
      BY <2>1, <3>2, NothingInHand
  <2>5. QED
    BY <1>8, <2>2, <2>3, <2>4 DEF Find
<1>9. CASE RconStop(a)
  <2>1. HostTyped'
    BY <1>9, SavesTyped DEF RconStop, TypeOK, HandsTyped, HostTyped, NoRecord, Live
  <2>2. QED
    BY <1>9, <1>g, <2>1, NothingInHand DEF RconStop, HandsTyped, Stays, StopPcs
<1>10. CASE Wait(a)
  <2>1. HostTyped'
    BY <1>10, <1>h DEF Wait
  <2>2. CASE Terminated(a)
    BY <2>1, <2>2, TerminatedFlow, NothingInHand DEF Ends, Stays, StopPcs
  <2>3. CASE Continue(a, "term")
    BY <1>10, <1>g, <2>1, <2>3, NothingInHand DEF Wait, HandsTyped, Stays, StopPcs
  <2>4. QED
    BY <1>10, <2>2, <2>3 DEF Wait
<1>11. CASE Term(a)
  <2>1. HostTyped'
    BY <1>11, SavesTyped DEF Term, TypeOK, HandsTyped, HostTyped, NoRecord, Live
  <2>2. CASE Terminated(a)
    BY <2>1, <2>2, TerminatedFlow, NothingInHand DEF Ends, Stays, StopPcs
  <2>3. CASE Continue(a, "kill")
    BY <1>11, <1>g, <2>1, <2>3, NothingInHand DEF Term, HandsTyped, Stays, StopPcs
  <2>4. QED
    BY <1>11, <2>2, <2>3 DEF Term
<1>12. CASE Kill(a)
  <2>1. HostTyped'
    BY <1>12, SavesTyped, TornTyped
       DEF Kill, TypeOK, HandsTyped, HostTyped, host, NoRecord, Live
  <2>2. CASE Terminated(a)
    BY <2>1, <2>2, TerminatedFlow, NothingInHand DEF Ends, Stays, StopPcs
  <2>3. CASE Finish(a, "neither")
    BY <2>1, <2>3, <1>f, NothingInHand
  <2>4. QED
    BY <1>12, <2>2, <2>3 DEF Kill
<1>13. CASE Ask(a)
  <2>1. CASE Finish(a, "neither")
    BY <1>13, <1>f, <1>h, <2>1, NothingInHand DEF Ask
  <2>2. ASSUME NEW where \in {"clean", "save_off"}, Continue(a, where)
        PROVE  ControlTyped' /\ Calm
    BY <1>g, <2>2 DEF Stays, StopPcs
  <2>3. QED
    BY <1>13, <1>h, <2>1, <2>2, NothingInHand DEF Ask
<1>14. CASE SaveOff(a)
  <2>1. HostTyped'
    BY <1>14 DEF SaveOff, TypeOK, HandsTyped, HostTyped, host, NoRecord
  <2>2. CASE Finish(a, "neither")
    BY <1>f, <2>1, <2>2, NothingInHand
  <2>3. CASE /\ paused' = [paused EXCEPT ![a] = TRUE]
             /\ Goto(a, "flush")
             /\ UNCHANGED <<pc, job, caller, child, verdict, flock, lost>>
    <3>1. ControlTyped' /\ Calm
      BY <2>3 DEF TypeOK, ControlTyped, Goto, Others, StopPcs
    <3>2. QED
      BY <2>1, <3>1, NothingInHand
  <2>4. QED
    BY <1>14, <2>2, <2>3 DEF SaveOff
<1>15. CASE Flush(a)
  <2>1. ASSUME NEW where \in {"clean", "save_on"}, Continue(a, where)
        PROVE  ControlTyped' /\ Calm
    BY <1>g, <2>1 DEF Stays, StopPcs
  <2>2. QED
    BY <1>15, <1>h, <2>1, NothingInHand DEF Flush
<1>16. CASE Clean(a)
  <2>1. HostTyped'
    BY <1>16 DEF Clean, TypeOK, HandsTyped, HostTyped, host, world, NoRecord
  <2>2. CASE LeaveTry(a)
    BY <2>1, <2>2, LeaveTryFlow, NothingInHand DEF Ends, Stays, StopPcs
  <2>3. CASE Continue(a, "copy")
    BY <1>g, <2>1, <2>3, NothingInHand DEF Stays, StopPcs
  <2>4. QED
    BY <1>16, <2>2, <2>3 DEF Clean
<1>17. CASE Copy(a)
  <2>1. HostTyped'
    BY <1>17 DEF Copy, TypeOK, HandsTyped, HostTyped, host, NoRecord
  <2>2. QED
    BY <1>17, <2>1, LeaveTryFlow, NothingInHand DEF Copy, Ends, Stays, StopPcs
<1>18. CASE SaveOn(a)
  <2>1. HostTyped'
    BY <1>18 DEF SaveOn, TypeOK, HandsTyped, HostTyped, host, NoRecord
  <2>2. QED
    BY <1>18, <1>f, <2>1, NothingInHand DEF SaveOn
<1>19. CASE Deliver(a)
  BY <1>19, <1>h, GoneEnds, NothingInHand DEF Deliver, Ends, StopPcs
<1>q. QED
  BY <1>1, <1>2, <1>3, <1>4, <1>5, <1>6, <1>7, <1>8, <1>9, <1>10, <1>11, <1>12, <1>13,
     <1>14, <1>15, <1>16, <1>17, <1>18, <1>19 DEF Proceed

LEMMA TypeInductive ==
    ASSUME TypeOK, HandsTyped, [Next]_vars
    PROVE  TypeOK' /\ HandsTyped'
<1>0. SUFFICES ControlTyped' /\ HostTyped' /\ HandsTyped'
  BY DEF ControlTyped, HostTyped, TypeOK
<1>1. ASSUME NEW i \in Ids, Opens(i) \/ Exits(i) \/ OtherProgram(i)
      PROVE  ControlTyped' /\ HostTyped' /\ HandsTyped'
  <2>1. ControlTyped'
    BY <1>1 DEF Opens, Exits, OtherProgram, TypeOK, ControlTyped, agentVars
  <2>2. HostTyped'
    BY <1>1, SavesTyped, TornTyped
       DEF Opens, Exits, OtherProgram, TypeOK, HandsTyped, HostTyped, world, Live, NoRecord
  <2>3. HandsTyped'
    BY <1>1 DEF Opens, Exits, OtherProgram, HandsTyped, NoRecord, agentVars
  <2>4. QED
    BY <2>1, <2>2, <2>3
<1>2. CASE Reboot
  BY <1>2, RemoteAssumption
     DEF Reboot, TypeOK, ControlTyped, HostTyped, HandsTyped, agentVars, world, NoRecord
<1>3. CASE UNCHANGED vars
  BY <1>3 DEF vars, TypeOK, ControlTyped, HostTyped, HandsTyped, agentVars, host, world, NoRecord
<1>4. ASSUME NEW b \in Bots, CheckStopped(b) \/ \E a \in Agents : Request(b, a) \/ RequestOffline(b, a)
      PROVE  ControlTyped' /\ HostTyped' /\ HandsTyped'
  BY <1>4 DEF CheckStopped, Request, RequestOffline, Send, Goto, TypeOK, ControlTyped,
              HostTyped, HandsTyped, Jobs, Answers, StopPcs, agentVars, host, world, NoRecord
<1>5. ASSUME NEW a \in Agents, ConnectionLost(a)
      PROVE  ControlTyped' /\ HostTyped' /\ HandsTyped'
  BY <1>5 DEF ConnectionLost, TypeOK, ControlTyped, HostTyped, HandsTyped, Answers,
              host, world, NoRecord
<1>6. ASSUME NEW a \in Agents, Killed(a)
      PROVE  ControlTyped' /\ HostTyped' /\ HandsTyped'
  <2>1. HostTyped'
    BY <1>6 DEF Killed, TypeOK, HandsTyped, HostTyped, NoRecord
  <2>2. QED
    BY <1>6, <2>1, GoneEnds, NothingInHand DEF Killed, Ends, StopPcs
<1>7. QED
  BY <1>1, <1>2, <1>3, <1>4, <1>5, <1>6, AgentTyped DEF Next

LEMMA InitTyped == Init => TypeOK /\ HandsTyped
<1> SUFFICES ASSUME Init PROVE TypeOK /\ HandsTyped
  OBVIOUS
<1>1. record \in [id : Ids \cup {NoId}, boot : 0..MaxBoots] /\ boot \in 0..MaxBoots
  BY RemoteAssumption DEF Init, NoRecord
<1>2. /\ at \in [Agents -> LockedPcs \cup {"free", "lock", "answered"}]
      /\ verdict \in [Agents -> Answers]
      /\ job \in [Agents -> Jobs]
  BY DEF Init, LockedPcs, Answers, Jobs
<1>3. HandsTyped
  BY DEF Init, HandsTyped, StopPcs, NoRecord
<1>4. TypeOK
  BY <1>1, <1>2 DEF Init, TypeOK
<1>5. QED
  BY <1>3, <1>4

\* Every variable keeps its type, under every fault.
THEOREM TypeCorrect == Spec => []TypeOK
<1>1. TypeOK /\ HandsTyped /\ [Next]_vars => (TypeOK /\ HandsTyped)'
  BY TypeInductive
<1>2. QED
  BY <1>1, InitTyped, PTL DEF Spec

-----------------------------------------------------------------------------
(* The file lock.                                                            *)

LockInv == \A a \in Agents : at[a] \in LockedPcs <=> flock = a

\* An agent takes the lock, goes on with it, or ends and lets it go.
LEMMA AgentFlow ==
    ASSUME TypeOK, NEW a \in Agents, Proceed(a)
    PROVE  /\ Others(a)
           /\ \/ \E ans \in Answers : Ends(a, ans)
              \/ at[a] = "lock" /\ flock = NoAgent /\ flock' = a /\ at'[a] \in LockedPcs
              \/ at[a] \in LockedPcs /\ flock' = flock /\ at'[a] \in LockedPcs
<1> USE PcNames
<1>f. ASSUME NEW ans \in Answers, Finish(a, ans)
      PROVE  Others(a) /\ \E x \in Answers : Ends(a, x)
  BY <1>f, FinishEnds
<1>g. ASSUME NEW where \in LockedPcs, Continue(a, where)
      PROVE  Others(a) /\ flock' = flock /\ at'[a] \in LockedPcs
  BY <1>g, GotoStays DEF Stays
<1>t. ASSUME Terminated(a)
      PROVE  /\ Others(a)
             /\ \/ \E x \in Answers : Ends(a, x)
                \/ flock' = flock /\ at'[a] \in LockedPcs
  BY <1>t, TerminatedFlow DEF Stays
<1>l. ASSUME LeaveTry(a)
      PROVE  /\ Others(a)
             /\ \/ \E x \in Answers : Ends(a, x)
                \/ flock' = flock /\ at'[a] \in LockedPcs
  BY <1>l, LeaveTryFlow DEF Stays
<1>1. CASE Flock(a)
  BY <1>1 DEF Flock, FirstStep, Goto, TypeOK, Others, Jobs
<1>2. CASE FlockRefused(a) \/ SpawnRaises(a)
  BY <1>2, <1>f DEF FlockRefused, SpawnRaises
<1>3. CASE Look(a)
  BY <1>3, <1>f, <1>g DEF Look
<1>4. CASE Spawn(a)
  BY <1>4 DEF Spawn, Goto, TypeOK, Others
<1>5. CASE Record(a)
  BY <1>5 DEF Record, Continue, Goto, TypeOK, Others
<1>6. CASE RecordRaises(a) \/ Settle(a)
  BY <1>6, <1>f DEF RecordRaises, Settle
<1>7. CASE Find(a)
  <2>1. CASE Terminated(a)
    BY <1>7, <1>t, <2>1 DEF Find
  <2>2. CASE Finish(a, "neither")
    BY <1>f, <2>2
  <2>3. CASE /\ Goto(a, "rcon")
             /\ child' = [child EXCEPT ![a] = record.id]
             /\ UNCHANGED <<pc, job, caller, paused, verdict, flock>>
    BY <1>7, <2>3 DEF Find, Goto, TypeOK, Others
  <2>4. QED
    BY <1>7, <2>1, <2>2, <2>3 DEF Find
<1>8. CASE RconStop(a)
  BY <1>8, <1>g DEF RconStop
<1>9. CASE Wait(a) \/ Term(a)
  BY <1>9, <1>g, <1>t DEF Wait, Term
<1>10. CASE Kill(a)
  BY <1>10, <1>f, <1>t DEF Kill
<1>11. CASE Ask(a)
  BY <1>11, <1>f, <1>g DEF Ask
<1>12. CASE SaveOff(a)
  <2>1. CASE Finish(a, "neither")
    BY <1>f, <2>1
  <2>2. CASE /\ paused' = [paused EXCEPT ![a] = TRUE]
             /\ Goto(a, "flush")
             /\ UNCHANGED <<pc, job, caller, child, verdict, flock, lost>>
    BY <1>12, <2>2 DEF SaveOff, Goto, TypeOK, Others
  <2>3. QED
    BY <1>12, <2>1, <2>2 DEF SaveOff
<1>13. CASE Flush(a)
  BY <1>13, <1>g DEF Flush
<1>14. CASE Clean(a) \/ Copy(a)
  BY <1>14, <1>g, <1>l DEF Clean, Copy
<1>15. CASE SaveOn(a)
  BY <1>15, <1>f DEF SaveOn
<1>16. CASE Deliver(a)
  BY <1>16, GoneEnds DEF Deliver
<1>17. QED
  BY <1>1, <1>2, <1>3, <1>4, <1>5, <1>6, <1>7, <1>8, <1>9, <1>10, <1>11, <1>12, <1>13,
     <1>14, <1>15, <1>16 DEF Proceed

\* What the other steps do to the agents.
LEMMA OtherFlow ==
    ASSUME TypeOK
    PROVE  /\ \A i : Opens(i) \/ Exits(i) \/ OtherProgram(i) => UNCHANGED agentVars
           /\ Reboot => UNCHANGED agentVars
           /\ UNCHANGED vars => UNCHANGED <<agentVars, host, world, archive>>
           /\ \A b : CheckStopped(b) => UNCHANGED <<agentVars, host, world, archive>>
           /\ \A a \in Agents : ConnectionLost(a) =>
                 UNCHANGED <<at, job, child, paused, flock, host, world, archive>>
           /\ \A b \in Bots, a \in Agents : Request(b, a) \/ RequestOffline(b, a) =>
                 /\ at[a] = "free" /\ at' = [at EXCEPT ![a] = "lock"]
                 /\ Others(a)
                 /\ UNCHANGED <<paused, flock, host, world, archive>>
           /\ \A a \in Agents : Killed(a) => Others(a) /\ at[a] # "free" /\ Ends(a, "neither")
<1>1. ASSUME NEW a \in Agents, Killed(a)
      PROVE  Others(a) /\ at[a] # "free" /\ Ends(a, "neither")
  BY <1>1, GoneEnds DEF Killed
<1>2. ASSUME NEW b \in Bots, NEW a \in Agents, Request(b, a) \/ RequestOffline(b, a)
      PROVE  /\ at[a] = "free" /\ at' = [at EXCEPT ![a] = "lock"]
             /\ Others(a)
             /\ UNCHANGED <<paused, flock, host, world, archive>>
  BY <1>2 DEF Request, RequestOffline, Send, Goto, TypeOK, Others
<1>3. QED
  BY <1>1, <1>2 DEF Opens, Exits, OtherProgram, Reboot, CheckStopped, ConnectionLost, vars

LEMMA LockInductive ==
    ASSUME TypeOK, LockInv, [Next]_vars
    PROVE  LockInv'
<1> USE PcNames, RemoteAssumption
<1>1. "free" \notin LockedPcs /\ "lock" \notin LockedPcs /\ "answered" \notin LockedPcs
  BY DEF LockedPcs, StopPcs, CopyPcs
<1>2. ASSUME UNCHANGED <<at, flock>>
      PROVE  LockInv'
  BY <1>2 DEF LockInv
<1>3. ASSUME NEW i, Opens(i) \/ Exits(i) \/ OtherProgram(i)
      PROVE  LockInv'
  BY <1>2, <1>3, OtherFlow DEF agentVars
<1>4. ASSUME NEW b, CheckStopped(b)
      PROVE  LockInv'
  BY <1>2, <1>4, OtherFlow DEF agentVars
<1>5. CASE Reboot \/ UNCHANGED vars
  BY <1>2, <1>5, OtherFlow DEF agentVars
<1>6. ASSUME NEW b \in Bots, NEW a \in Agents, Request(b, a) \/ RequestOffline(b, a)
      PROVE  LockInv'
  <2>1. /\ at[a] = "free" /\ at' = [at EXCEPT ![a] = "lock"] /\ flock' = flock
    BY <1>6, OtherFlow
  <2>2. QED
    BY <1>1, <2>1 DEF LockInv, TypeOK
<1>7. ASSUME NEW a \in Agents, ConnectionLost(a)
      PROVE  LockInv'
  BY <1>2, <1>7, OtherFlow
<1>8. ASSUME NEW a \in Agents, NEW ans, Others(a), Ends(a, ans)
      PROVE  LockInv'
  BY <1>1, <1>8 DEF LockInv, Others, Ends
<1>9. ASSUME NEW a \in Agents, Killed(a)
      PROVE  LockInv'
  BY <1>8, <1>9, OtherFlow
<1>10. ASSUME NEW a \in Agents, Proceed(a)
       PROVE  LockInv'
  <2>1. CASE \E ans \in Answers : Ends(a, ans)
    BY <1>8, <1>10, <2>1, AgentFlow
  <2>2. CASE at[a] = "lock" /\ flock = NoAgent /\ flock' = a /\ at'[a] \in LockedPcs
    BY <1>10, <2>2, AgentFlow DEF LockInv, Others
  <2>3. CASE at[a] \in LockedPcs /\ flock' = flock /\ at'[a] \in LockedPcs
    BY <1>10, <2>3, AgentFlow DEF LockInv, Others
  <2>4. QED
    BY <1>10, <2>1, <2>2, <2>3, AgentFlow
<1>11. QED
  BY <1>3, <1>4, <1>5, <1>6, <1>7, <1>9, <1>10 DEF Next

LEMMA OneHolder ==
    ASSUME LockInv, NEW a \in Agents, at[a] \in LockedPcs
    PROVE  \A b \in Agents \ {a} : at[b] \notin LockedPcs
  BY DEF LockInv

\* At most one agent is past the file lock, whichever bots sent them and however many
\* of them were killed.
THEOREM LockExclusion ==
    Spec => [](\A a, b \in Agents : at[a] \in LockedPcs /\ at[b] \in LockedPcs => a = b)
<1>1. Init => LockInv
  BY RemoteAssumption DEF Init, LockInv, LockedPcs, StopPcs, CopyPcs
<1>2. TypeOK /\ LockInv /\ [Next]_vars => LockInv'
  BY LockInductive
<1>3. LockInv => \A a, b \in Agents : at[a] \in LockedPcs /\ at[b] \in LockedPcs => a = b
  BY DEF LockInv
<1>4. QED
  BY <1>1, <1>2, <1>3, TypeCorrect, PTL DEF Spec

-----------------------------------------------------------------------------
(* Servers and the record.                                                   *)

\* A server somebody knows of: it lives and was not given up by its agent.
Known(i) == i \in Ids /\ slot[i] \in Live /\ i \notin orphans

\* Every such server is the one on record, or the one an agent is about to record; the
\* record of this boot names no other program.
HostInv ==
    /\ record.boot <= boot
    /\ record # NoRecord /\ record.boot = boot => slot[record.id] # "other"
    /\ \A i : Known(i) => \/ record = [id |-> i, boot |-> boot]
                          \/ \E a \in Agents : at[a] = "record"

\* What agent a may rely on: the server in its hands is a server still, and the one on
\* record; where it found none running, none that is known lives.
ServerAt(a) ==
    /\ at[a] \in StopPcs \cup {"record", "settle"} => slot[child[a]] \in Live \cup {"exited"}
    /\ at[a] \in StopPcs \cup {"settle"} => record = [id |-> child[a], boot |-> boot]
    /\ at[a] = "spawn" => \A i : ~Known(i)
    /\ at[a] \in {"clean", "copy"} /\ job[a] = "auto" => \A i : ~Known(i)
    /\ at[a] = "record" => \A i : Known(i) => i = child[a]
    /\ at[a] \in {"save_off", "flush"} => job[a] # "auto"

ServerInv == HostInv /\ \A a \in Agents : ServerAt(a)

LEMMA Places ==
    /\ "free" \notin LockedPcs /\ "lock" \notin LockedPcs /\ "answered" \notin LockedPcs
    /\ StopPcs \cup {"record", "settle", "spawn", "clean", "copy", "save_off", "flush"}
           \subseteq LockedPcs
  BY DEF LockedPcs, StopPcs, CopyPcs

\* Without a recorded server that runs, the holder of the lock knows of none.
LEMMA NoneKnown ==
    ASSUME TypeOK, LockInv, ServerInv, NEW a \in Agents, at[a] \in LockedPcs,
           at[a] # "record", ~Recorded
    PROVE  \A i : ~Known(i)
<1> SUFFICES ASSUME NEW i, Known(i) PROVE FALSE
  OBVIOUS
<1>1. record = [id |-> i, boot |-> boot]
  BY OneHolder, PcNames DEF ServerInv, HostInv
<1>2. record # NoRecord /\ record.id = i /\ record.boot = boot
  BY <1>1, RemoteAssumption DEF Known, NoRecord
<1>3. QED
  BY <1>2 DEF Recorded, ProcessAlive, Known

\* The other agents have nothing to rely on while one holds the lock.
LEMMA OthersKept ==
    ASSUME LockInv, NEW a \in Agents, at[a] \in LockedPcs, Others(a)
    PROVE  \A b \in Agents \ {a} : ServerAt(b)'
<1> SUFFICES ASSUME NEW b \in Agents \ {a} PROVE ServerAt(b)'
  OBVIOUS
<1>1. at'[b] \notin LockedPcs
  BY OneHolder DEF Others
<1>2. QED
  BY <1>1, Places DEF ServerAt

LEMMA HostSame ==
    ASSUME TypeOK, ServerInv, NEW a \in Agents, Others(a), UNCHANGED host,
           at[a] # "record", ServerAt(a)'
    PROVE  ServerInv'
<1>1. \A i : Known(i)' <=> Known(i)
  BY DEF host, Known
<1>2. HostInv'
  BY <1>1 DEF ServerInv, HostInv, Others, host
<1>3. ASSUME NEW b \in Agents \ {a}
      PROVE  ServerAt(b)'
  BY <1>1 DEF ServerInv, ServerAt, Others, host
<1>4. QED
  BY <1>2, <1>3 DEF ServerInv

\* Places where an agent relies on nothing.
LEMMA NothingAt ==
    ASSUME NEW a, at'[a] \in {"free", "answered", "lock", "look", "find", "ask", "save_on"}
    PROVE  ServerAt(a)'
  BY DEF ServerAt, StopPcs

LEMMA EndsAt ==
    ASSUME NEW a, NEW ans, Ends(a, ans)
    PROVE  ServerAt(a)'
  BY NothingAt DEF Ends

LEMMA TerminatedAt ==
    ASSUME TypeOK, NEW a \in Agents, Terminated(a)
    PROVE  ServerAt(a)'
<1>1. at'[a] \in {"free", "answered", "look"}
  BY TerminatedFlow DEF Ends, Stays
<1>2. QED
  BY <1>1, NothingAt

\* The steps that leave the host as it is.
LEMMA AgentsRely ==
    ASSUME TypeOK, HandsTyped, LockInv, ServerInv, NEW a \in Agents,
           Proceed(a), UNCHANGED host
    PROVE  at[a] # "record" => ServerAt(a)'
<1> USE PcNames
<1>k. \A i : Known(i)' <=> Known(i)
  BY DEF host, Known
<1>s. ServerAt(a)
  BY DEF ServerInv
<1>f. ASSUME NEW ans \in Answers, Finish(a, ans)
      PROVE  ServerAt(a)'
  BY <1>f, FinishEnds, EndsAt
<1>g. ASSUME NEW where \in LockedPcs, Continue(a, where)
      PROVE  Stays(a, where)
  BY <1>g, GotoStays
<1>l. ASSUME LeaveTry(a)
      PROVE  ServerAt(a)'
  <2>1. at'[a] \in {"free", "answered", "save_on"}
    BY <1>l, LeaveTryFlow DEF Ends, Stays
  <2>2. QED
    BY <2>1, NothingAt
<1>1. CASE Flock(a)
  <2>1. at'[a] \in {"look", "find", "ask"}
    BY <1>1 DEF Flock, FirstStep, Goto, TypeOK, Jobs
  <2>2. QED
    BY <2>1, NothingAt
<1>2. CASE FlockRefused(a) \/ SpawnRaises(a) \/ RecordRaises(a) \/ Settle(a) \/ SaveOn(a)
  BY <1>2, <1>f DEF FlockRefused, SpawnRaises, RecordRaises, Settle, SaveOn
<1>3. CASE Look(a)
  <2>1. CASE ~Running /\ Stays(a, "spawn")
    <3>1. \A i : ~Known(i)
      BY <1>3, <2>1, NoneKnown DEF Look, Running
    <3>2. QED
      BY <2>1, <3>1, <1>k DEF ServerAt, Stays, StopPcs
  <2>2. QED
    BY <1>3, <1>f, <1>g, <2>1 DEF Look
<1>4. CASE Spawn(a)
  <2>1. PICK i \in Ids : slot[i] = "none" /\ slot' = [slot EXCEPT ![i] = "booting"]
    BY <1>4 DEF Spawn
  <2>2. slot'[i] # slot[i]
    BY <2>1 DEF TypeOK
  <2>3. QED
    BY <2>2 DEF host
<1>5. CASE Record(a)
  BY <1>5 DEF Record
<1>6. CASE Find(a)
  <2>1. CASE Terminated(a)
    BY <2>1, TerminatedAt
  <2>2. CASE Finish(a, "neither")
    BY <2>2, <1>f
  <2>3. CASE /\ Recorded
             /\ Goto(a, "rcon")
             /\ child' = [child EXCEPT ![a] = record.id]
             /\ UNCHANGED <<pc, job, caller, paused, verdict, flock>>
    <3>1. at'[a] = "rcon" /\ child'[a] = record.id
      BY <2>3, RemoteAssumption DEF Goto, TypeOK
    <3>2. slot[record.id] \in Live
      BY <2>3 DEF Recorded, ProcessAlive, ServerInv, HostInv
    <3>3. record = [id |-> record.id, boot |-> boot]
      BY <2>3 DEF Recorded, TypeOK
    <3>4. QED
      BY <3>1, <3>2, <3>3 DEF ServerAt, host, StopPcs
  <2>4. QED
    BY <1>6, <2>1, <2>2, <2>3 DEF Find, Running
<1>7. CASE RconStop(a)
  BY <1>7, <1>g, <1>s DEF RconStop, Stays, ServerAt, host, StopPcs
<1>8. CASE Wait(a)
  <2>1. CASE Stays(a, "term")
    BY <1>8, <2>1, <1>s DEF Wait, Stays, ServerAt, host, StopPcs
  <2>2. QED
    BY <1>8, <1>g, <2>1, TerminatedAt DEF Wait
<1>9. CASE Term(a)
  <2>1. CASE Stays(a, "kill")
    BY <1>9, <2>1, <1>s DEF Term, Stays, ServerAt, host, StopPcs
  <2>2. QED
    BY <1>9, <1>g, <2>1, TerminatedAt DEF Term
<1>10. CASE Kill(a)
  BY <1>10, <1>f, TerminatedAt DEF Kill
<1>11. CASE Ask(a)
  <2>1. CASE ~Running /\ Stays(a, "clean")
    <3>1. \A i : ~Known(i)
      BY <1>11, <2>1, NoneKnown DEF Ask, Running
    <3>2. QED
      BY <2>1, <3>1, <1>k DEF ServerAt, Stays, StopPcs
  <2>2. CASE job[a] # "auto" /\ Stays(a, "save_off")
    BY <2>2 DEF ServerAt, Stays, StopPcs
  <2>3. QED
    BY <1>11, <1>f, <1>g, <2>1, <2>2 DEF Ask
<1>12. CASE SaveOff(a)
  <2>1. CASE paused' = [paused EXCEPT ![a] = TRUE] /\ Goto(a, "flush")
             /\ UNCHANGED <<pc, job, caller, child, verdict, flock, lost>>
    <3>1. at'[a] = "flush" /\ job'[a] # "auto"
      BY <1>12, <2>1, <1>s DEF SaveOff, Goto, TypeOK, ServerAt
    <3>2. QED
      BY <3>1 DEF ServerAt, StopPcs
  <2>2. QED
    BY <1>12, <1>f, <2>1 DEF SaveOff
<1>13. CASE Flush(a)
  <2>1. CASE Stays(a, "clean")
    BY <1>13, <2>1, <1>s DEF Flush, Stays, ServerAt, StopPcs
  <2>2. QED
    BY <1>13, <1>g, <2>1, NothingAt DEF Flush, Stays
<1>14. CASE Clean(a)
  <2>1. CASE Stays(a, "copy")
    BY <1>14, <2>1, <1>s, <1>k DEF Clean, Stays, ServerAt, StopPcs
  <2>2. QED
    BY <1>14, <1>g, <1>l, <2>1 DEF Clean
<1>15. CASE Copy(a)
  BY <1>15, <1>l DEF Copy
<1>16. CASE Deliver(a)
  BY <1>16, GoneEnds, EndsAt DEF Deliver
<1>17. QED
  BY <1>1, <1>2, <1>3, <1>4, <1>5, <1>6, <1>7, <1>8, <1>9, <1>10, <1>11, <1>12, <1>13,
     <1>14, <1>15, <1>16 DEF Proceed

\* The steps of the host itself.
LEMMA HostInductive ==
    ASSUME TypeOK, HandsTyped, ServerInv,
           Reboot \/ \E i \in Ids : Opens(i) \/ Exits(i) \/ OtherProgram(i)
    PROVE  ServerInv'
<1>1. CASE Reboot
  <2>1. \A a \in Agents : at'[a] = "free"
    BY <1>1 DEF Reboot, agentVars
  <2>2. \A i : ~Known(i)'
    BY <1>1 DEF Reboot, Known, Live
  <2>3. HostInv'
    BY <1>1, <2>2, RemoteAssumption DEF Reboot, HostInv, ServerInv, TypeOK
  <2>4. QED
    BY <2>1, <2>3, NothingAt DEF ServerInv
<1>2. ASSUME NEW i \in Ids, Opens(i) \/ Exits(i) \/ OtherProgram(i)
      PROVE  ServerInv'
  <2>1. /\ UNCHANGED <<boot, record, at, job, child>>
        /\ slot' \in {[slot EXCEPT ![i] = "open"], [slot EXCEPT ![i] = "exited"], [slot EXCEPT ![i] = "other"]}
        /\ orphans' \in {orphans, orphans \ {i}}
        /\ slot'[i] = "open" => slot[i] \in Live /\ orphans' = orphans
        /\ slot'[i] = "exited" => slot[i] \in Live
        /\ slot'[i] = "other" => slot[i] = "none" /\ record.boot # boot
    BY <1>2 DEF Opens, Exits, OtherProgram, agentVars, TypeOK, Live
  <2>2. ASSUME NEW j, Known(j)'
        PROVE  Known(j)
    BY <2>1, <2>2 DEF Known, TypeOK, Live
  <2>3. HostInv'
    <3>1. record.boot = boot /\ record # NoRecord => slot'[record.id] # "other"
      BY <2>1, RemoteAssumption DEF ServerInv, HostInv, HandsTyped, TypeOK
    <3>2. QED
      BY <2>1, <2>2, <3>1 DEF ServerInv, HostInv
  <2>4. ASSUME NEW a \in Agents
        PROVE  ServerAt(a)'
    <3>1. at[a] \in StopPcs \cup {"record", "settle"} => slot'[child[a]] \in Live \cup {"exited"}
      BY <2>1 DEF ServerInv, ServerAt, HandsTyped, TypeOK, Live
    <3>2. QED
      BY <2>1, <2>2, <3>1 DEF ServerInv, ServerAt
  <2>5. QED
    BY <2>3, <2>4 DEF ServerInv
<1>3. QED
  BY <1>1, <1>2

\* The agent that gives its server up before it is recorded leaves an orphan.
LEMMA GivenUp ==
    ASSUME TypeOK, HandsTyped, LockInv, ServerInv, NEW a \in Agents, NEW ans,
           at[a] = "record", Others(a), Ends(a, ans), UNCHANGED <<slot, boot, record>>,
           orphans' = IF slot[child[a]] \in Live THEN orphans \cup {child[a]} ELSE orphans
    PROVE  ServerInv'
<1>1. \A i : ~Known(i)'
  BY DEF ServerInv, ServerAt, Known
<1>2. HostInv'
  BY <1>1 DEF ServerInv, HostInv
<1>3. QED
  BY <1>2, EndsAt, OthersKept, PcNames DEF ServerInv

LEMMA ServerInductive ==
    ASSUME TypeOK, HandsTyped, LockInv, ServerInv, [Next]_vars
    PROVE  ServerInv'
<1> USE PcNames
<1>1. CASE UNCHANGED <<at, job, child, host>>
  BY <1>1 DEF host, ServerInv, HostInv, ServerAt, Known
<1>2. ASSUME NEW b \in Bots, NEW a \in Agents, Request(b, a) \/ RequestOffline(b, a)
      PROVE  ServerInv'
  <2>1. at[a] = "free" /\ at'[a] = "lock" /\ Others(a) /\ UNCHANGED host
    BY <1>2, OtherFlow DEF TypeOK
  <2>2. QED
    BY <2>1, HostSame, NothingAt
<1>3. ASSUME NEW a \in Agents, Killed(a)
      PROVE  ServerInv'
  <2>1. Others(a) /\ Ends(a, "neither")
    BY <1>3, OtherFlow
  <2>2. CASE at[a] = "record"
    BY <1>3, <2>1, <2>2, GivenUp DEF Killed
  <2>3. CASE at[a] # "record"
    BY <1>3, <2>1, <2>3, HostSame, EndsAt DEF Killed, host
  <2>4. QED
    BY <2>2, <2>3
<1>4. ASSUME NEW a \in Agents, Proceed(a)
      PROVE  ServerInv'
  <2>o. Others(a)
    BY <1>4, AgentFlow
  <2>s. ServerAt(a)
    BY DEF ServerInv
  <2>h. ASSUME UNCHANGED host, at[a] # "record"
        PROVE  ServerInv'
    BY <1>4, <2>o, <2>h, AgentsRely, HostSame
  <2>c. ASSUME at[a] \in LockedPcs, HostInv', ServerAt(a)'
        PROVE  ServerInv'
    BY <2>c, <2>o, OthersKept DEF ServerInv
  <2>1. CASE \/ Flock(a) \/ FlockRefused(a) \/ Look(a) \/ SpawnRaises(a) \/ Find(a) \/ Wait(a)
             \/ Ask(a) \/ SaveOff(a) \/ Flush(a) \/ Clean(a) \/ Copy(a) \/ SaveOn(a)
             \/ Deliver(a)
    BY <2>1, <2>h DEF Flock, FlockRefused, Deliver, Look, SpawnRaises, Find, Wait, Ask, SaveOff,
                      Flush, Clean, Copy, SaveOn
  <2>2. CASE Spawn(a)
    <3>1. PICK i \in Ids : /\ slot[i] = "none"
                           /\ slot' = [slot EXCEPT ![i] = "booting"]
                           /\ child' = [child EXCEPT ![a] = i]
      BY <2>2 DEF Spawn
    <3>2. /\ at[a] = "spawn" /\ at'[a] = "record" /\ child'[a] = i /\ slot'[i] = "booting"
          /\ UNCHANGED <<boot, record, orphans>>
      BY <2>2, <3>1 DEF Spawn, Goto, TypeOK
    <3>3. \A j : Known(j)' => j = i
      BY <2>s, <3>1, <3>2 DEF ServerAt, Known, TypeOK
    <3>4. HostInv'
      BY <3>1, <3>2, <3>3 DEF ServerInv, HostInv, TypeOK
    <3>5. ServerAt(a)'
      BY <3>2, <3>3 DEF ServerAt, StopPcs, Live
    <3>6. QED
      BY <2>c, <3>2, <3>4, <3>5
  <2>3. CASE Record(a)
    <3>1. /\ at[a] = "record" /\ at'[a] = "settle" /\ child'[a] = child[a]
          /\ record' = [id |-> child[a], boot |-> boot]
          /\ UNCHANGED <<slot, boot, orphans>>
      BY <2>3 DEF Record, Continue, Goto, TypeOK
    <3>2. HostInv'
      BY <2>s, <3>1 DEF HostInv, ServerAt, Known, TypeOK, Live
    <3>3. ServerAt(a)'
      BY <2>s, <3>1 DEF ServerAt, StopPcs
    <3>4. QED
      BY <2>c, <3>1, <3>2, <3>3
  <2>4. CASE RecordRaises(a)
    <3>1. Ends(a, "neither")
      BY <2>4, FinishEnds DEF RecordRaises
    <3>2. QED
      BY <2>4, <2>o, <3>1, GivenUp DEF RecordRaises
  <2>5. CASE Settle(a)
    <3>1. ServerAt(a)'
      BY <2>5, FinishEnds, EndsAt DEF Settle
    <3>2. CASE record' = record
      BY <2>5, <2>h, <3>2 DEF Settle, host
    <3>3. CASE slot[child[a]] = "exited" /\ record' = NoRecord
      <4>1. /\ record = [id |-> child[a], boot |-> boot]
            /\ UNCHANGED <<slot, boot, orphans>> /\ at[a] = "settle"
        BY <2>5, <2>s DEF Settle, ServerAt
      <4>2. \A i : Known(i) => i = child[a]
        BY <4>1, OneHolder DEF ServerInv, HostInv
      <4>3. \A i : ~Known(i)'
        BY <3>3, <4>1, <4>2 DEF Known, Live
      <4>4. HostInv'
        BY <3>3, <4>1, <4>3, RemoteAssumption DEF HostInv, NoRecord, TypeOK
      <4>5. QED
        BY <2>c, <3>1, <4>1, <4>4
    <3>4. QED
      BY <2>5, <3>2, <3>3 DEF Settle
  <2>6. ASSUME \A i \in Ids : slot'[i] # slot[i] => slot[i] \in Live /\ slot'[i] \in {"closing", "exited"},
               \A i : Known(i)' => Known(i),
               UNCHANGED <<boot, record>>, at[a] \in StopPcs,
               ServerAt(a)'
        PROVE  ServerInv'
    <3>1. record # NoRecord /\ record.boot = boot => slot'[record.id] # "other"
      BY <2>6 DEF ServerInv, HostInv, HandsTyped, TypeOK
    <3>2. HostInv'
      BY <2>6, <2>o, <3>1, Places DEF ServerInv, HostInv, Others, StopPcs
    <3>3. QED
      BY <2>6, <2>c, <3>2, Places
  <2>7. CASE RconStop(a)
    <3>1. /\ \A i \in Ids : slot'[i] # slot[i] => slot[i] \in Live /\ slot'[i] = "closing"
          /\ \A i : Known(i)' => Known(i)
          /\ UNCHANGED <<boot, record, orphans>>
      BY <2>7 DEF RconStop, Known, Live, TypeOK
    <3>2. Stays(a, "wait") /\ at[a] = "rcon"
      BY <2>7, GotoStays DEF RconStop
    <3>3. slot'[child[a]] \in Live \cup {"exited"}
      BY <2>s, <3>1, <3>2 DEF ServerAt, HandsTyped, StopPcs, Live
    <3>4. ServerAt(a)'
      BY <2>s, <3>1, <3>2, <3>3 DEF ServerAt, Stays, StopPcs
    <3>5. QED
      BY <2>6, <3>1, <3>2, <3>4 DEF StopPcs
  <2>8. CASE Term(a)
    <3>0. at[a] = "term" /\ child[a] \in Ids /\ slot[child[a]] \in Live \cup {"exited"}
      BY <2>8, <2>s DEF Term, HandsTyped, ServerAt, StopPcs
    <3>1. CASE UNCHANGED slot
      BY <2>8, <2>h, <3>1 DEF Term, host
    <3>2. CASE /\ ProcessAlive(child[a])
               /\ slot' = [slot EXCEPT ![child[a]] = IF @ = "other" THEN "exited" ELSE "closing"]
               /\ Continue(a, "kill")
      <4>1. slot[child[a]] \in Live /\ slot' = [slot EXCEPT ![child[a]] = "closing"]
        BY <3>0, <3>2 DEF ProcessAlive, Live
      <4>2. /\ \A i \in Ids : slot'[i] # slot[i] => slot[i] \in Live /\ slot'[i] = "closing"
            /\ \A i : Known(i)' => Known(i)
            /\ UNCHANGED <<boot, record, orphans>>
        BY <2>8, <4>1 DEF Term, Known, TypeOK, Live
      <4>3. Stays(a, "kill")
        BY <3>2, GotoStays
      <4>4. slot'[child[a]] = "closing"
        BY <3>0, <4>1 DEF TypeOK
      <4>5. ServerAt(a)'
        BY <2>s, <3>0, <4>2, <4>3, <4>4 DEF ServerAt, Stays, StopPcs, Live
      <4>6. QED
        BY <2>6, <3>0, <4>2, <4>5 DEF StopPcs
    <3>3. QED
      BY <2>8, <3>1, <3>2 DEF Term
  <2>9. CASE Kill(a)
    <3>0. at[a] = "kill" /\ child[a] \in Ids /\ slot[child[a]] \in Live \cup {"exited"}
      BY <2>9, <2>s DEF Kill, HandsTyped, ServerAt, StopPcs
    <3>1. CASE UNCHANGED host
      BY <3>0, <3>1, <2>h
    <3>2. CASE /\ ProcessAlive(child[a])
               /\ slot' = [slot EXCEPT ![child[a]] = "exited"]
               /\ orphans' = orphans \ {child[a]}
               /\ Terminated(a)
               /\ UNCHANGED <<boot, record>>
      <4>1. slot[child[a]] \in Live
        BY <3>0, <3>2 DEF ProcessAlive, Live
      <4>2. /\ \A i \in Ids : slot'[i] # slot[i] => slot[i] \in Live /\ slot'[i] = "exited"
            /\ \A i : Known(i)' => Known(i)
        BY <3>2, <4>1 DEF Known, TypeOK, Live
      <4>3. QED
        BY <2>6, <3>0, <3>2, <4>2, TerminatedAt DEF StopPcs
    <3>3. QED
      BY <2>9, <3>1, <3>2 DEF Kill
  <2>10. QED
    BY <1>4, <2>1, <2>2, <2>3, <2>4, <2>5, <2>7, <2>8, <2>9 DEF Proceed
<1>5. CASE Reboot \/ \E i \in Ids : Opens(i) \/ Exits(i) \/ OtherProgram(i)
  BY <1>5, HostInductive
<1>6. ASSUME NEW b, CheckStopped(b)
      PROVE  ServerInv'
  BY <1>1, <1>6, OtherFlow DEF agentVars
<1>7. ASSUME NEW a \in Agents, ConnectionLost(a)
      PROVE  ServerInv'
  BY <1>1, <1>7, OtherFlow
<1>8. CASE UNCHANGED vars
  BY <1>1, <1>8, OtherFlow DEF agentVars
<1>9. QED
  BY <1>2, <1>3, <1>4, <1>5, <1>6, <1>7, <1>8 DEF Next

LEMMA ServerAlways == Spec => [](TypeOK /\ HandsTyped /\ LockInv /\ ServerInv)
<1>1. Init => LockInv
  BY RemoteAssumption DEF Init, LockInv, LockedPcs, StopPcs, CopyPcs
<1>2. Init => ServerInv
  <2> SUFFICES ASSUME Init PROVE ServerInv
    OBVIOUS
  <2>1. \A a \in Agents : ServerAt(a)
    BY DEF Init, ServerAt, StopPcs
  <2>2. \A i : ~Known(i)
    BY DEF Init, Known, Live
  <2>3. QED
    BY <2>1, <2>2 DEF Init, ServerInv, HostInv, NoRecord
<1>3. TypeOK /\ HandsTyped /\ LockInv /\ ServerInv /\ [Next]_vars
      => (TypeOK /\ HandsTyped /\ LockInv /\ ServerInv)'
  BY TypeInductive, LockInductive, ServerInductive
<1>4. QED
  BY <1>1, <1>2, <1>3, InitTyped, PTL DEF Spec

\* Two servers live at once only if an agent failed to record one of them, for any
\* number of bots and agents, whatever is lost, killed or rebooted.
THEOREM AtMostOneServer == Spec => []OneServer
<1>1. TypeOK /\ LockInv /\ ServerInv => OneServer
  <2> SUFFICES ASSUME LockInv, ServerInv, NEW i \in LiveServers, NEW j \in LiveServers,
                      i \notin orphans, j \notin orphans
               PROVE  i = j
    BY DEF OneServer
  <2>1. Known(i) /\ Known(j)
    BY DEF Known, LiveServers
  <2>2. ASSUME NEW a \in Agents, at[a] = "record"
        PROVE  i = j
    BY <2>1, <2>2 DEF ServerInv, ServerAt
  <2>3. ASSUME record = [id |-> i, boot |-> boot], record = [id |-> j, boot |-> boot]
        PROVE  i = j
    BY <2>3
  <2>4. QED
    BY <2>1, <2>2, <2>3 DEF ServerInv, HostInv
<1>2. QED
  BY <1>1, ServerAlways, PTL

\* No stop waits for or signals a program that took the id of a server after a reboot.
THEOREM OthersSpared == Spec => []SignalsOnlyServers
<1>1. ServerInv => SignalsOnlyServers
  BY DEF ServerInv, ServerAt, SignalsOnlyServers, Live
<1>2. QED
  BY <1>1, ServerAlways, PTL

-----------------------------------------------------------------------------
(* Archives.                                                                 *)

\* Only a manual copy is ever torn by a server that is known.
CopyInv ==
    /\ ScheduledArchivesConsistent
    /\ \A a \in Agents : torn[a] => at[a] = "copy" /\ job[a] # "auto"

LEMMA CopyInductive ==
    ASSUME TypeOK, LockInv, ServerInv, CopyInv, [Next]_vars
    PROVE  CopyInv'
<1> USE PcNames, Places
<1> USE DEF ScheduledArchivesConsistent
<1>1. CASE UNCHANGED <<archive, torn, at, job>>
  BY <1>1 DEF CopyInv
<1>2. ASSUME NEW a \in Agents, Others(a), archive' = archive,
             \A b \in Agents : torn'[b] => torn[b], torn[a] => ~torn'[a]
      PROVE  CopyInv'
  BY <1>2 DEF CopyInv, Others
<1>3. ASSUME NEW i \in Ids, WorldWrittenBy(i), slot[i] \in Live,
             UNCHANGED <<archive, at, job>>
      PROVE  CopyInv'
  <2>1. ASSUME NEW a \in Agents, at[a] = "copy", i \notin orphans
        PROVE  job[a] # "auto"
    BY <1>3, <2>1 DEF ServerInv, ServerAt, Known
  <2>2. \A a \in Agents : torn'[a] => torn[a] \/ (at[a] = "copy" /\ i \notin orphans)
    BY <1>3 DEF WorldWrittenBy
  <2>3. QED
    BY <1>3, <2>1, <2>2 DEF CopyInv
<1>4. ASSUME NEW a \in Agents, NEW i, WorldWrittenBy(i), Others(a), archive' = archive,
             at[a] \in LockedPcs \ {"copy"}
      PROVE  CopyInv'
  <2>1. \A b \in Agents : at[b] # "copy"
    BY <1>4, OneHolder
  <2>2. \A b \in Agents : ~torn'[b]
    BY <1>4, <2>1 DEF WorldWrittenBy, CopyInv
  <2>3. QED
    BY <1>4, <2>2 DEF CopyInv
<1>5. ASSUME NEW i \in Ids, Opens(i) \/ Exits(i) \/ OtherProgram(i)
      PROVE  CopyInv'
  BY <1>1, <1>3, <1>5 DEF Opens, Exits, OtherProgram, agentVars, world, Live
<1>6. ASSUME NEW b \in Bots, NEW a \in Agents, Request(b, a) \/ RequestOffline(b, a)
      PROVE  CopyInv'
  <2>1. ~torn[a]
    BY <1>6, OtherFlow DEF CopyInv
  <2>2. QED
    BY <1>2, <1>6, <2>1, OtherFlow DEF world
<1>7. ASSUME NEW a \in Agents, Killed(a)
      PROVE  CopyInv'
  <2>1. torn' = [torn EXCEPT ![a] = FALSE] /\ archive' = archive
    BY <1>7 DEF Killed
  <2>2. \A b \in Agents : (torn'[b] => torn[b]) /\ ~torn'[a]
    BY <2>1 DEF TypeOK
  <2>3. QED
    BY <1>2, <1>7, <2>1, <2>2, OtherFlow
<1>8. ASSUME NEW a \in Agents, Proceed(a)
      PROVE  CopyInv'
  <2>1. Others(a)
    BY <1>8, AgentFlow
  <2>2. CASE at[a] # "copy" /\ UNCHANGED <<torn, archive>>
    <3>1. ~torn[a]
      BY <2>2 DEF CopyInv
    <3>2. QED
      BY <1>2, <2>1, <2>2, <3>1
  <2>3. CASE \/ Flock(a) \/ FlockRefused(a) \/ Look(a) \/ SpawnRaises(a) \/ Record(a)
             \/ RecordRaises(a) \/ Settle(a) \/ Find(a) \/ RconStop(a) \/ Wait(a) \/ Term(a)
             \/ Ask(a) \/ SaveOff(a) \/ Flush(a) \/ Clean(a) \/ SaveOn(a) \/ Deliver(a)
    BY <2>2, <2>3 DEF Flock, FlockRefused, Deliver, Look, SpawnRaises, Record, RecordRaises, Settle,
                      Find, RconStop, Wait, Term, Ask, SaveOff, Flush, Clean, SaveOn, world
  <2>4. CASE Spawn(a)
    BY <1>4, <2>1, <2>4 DEF Spawn
  <2>5. CASE Kill(a)
    <3>1. at[a] = "kill" /\ archive' = archive /\ (torn' = torn \/ WorldWrittenBy(child[a]))
      BY <2>5 DEF Kill
    <3>2. QED
      BY <1>4, <2>1, <2>2, <3>1
  <2>6. CASE Copy(a)
    <3>1. /\ at[a] = "copy"
          /\ torn' = [torn EXCEPT ![a] = FALSE]
      BY <2>6 DEF Copy
    <3>2. \A b \in Agents : (torn'[b] => torn[b]) /\ ~torn'[a]
      BY <3>1 DEF TypeOK
    <3>3. archive' = archive
      BY <2>6 DEF Copy, CopyInv
    <3>4. QED
      BY <1>2, <2>1, <3>2, <3>3
  <2>7. QED
    BY <1>8, <2>3, <2>4, <2>5, <2>6 DEF Proceed
<1>9. ASSUME NEW b, CheckStopped(b)
      PROVE  CopyInv'
  BY <1>1, <1>9, OtherFlow DEF agentVars, world
<1>10. ASSUME NEW a \in Agents, ConnectionLost(a)
       PROVE  CopyInv'
  BY <1>1, <1>10, OtherFlow DEF world
<1>11. CASE Reboot
  BY <1>1, <1>11 DEF Reboot, agentVars, world
<1>12. CASE UNCHANGED vars
  BY <1>1, <1>12, OtherFlow DEF agentVars, world
<1>13. QED
  BY <1>5, <1>6, <1>7, <1>8, <1>9, <1>10, <1>11, <1>12 DEF Next

\* A scheduled archive holds the world of a server that was down for all of the copy,
\* however many bots send agents and whatever becomes of them.
THEOREM ScheduledConsistency == Spec => []ScheduledArchivesConsistent
<1>1. Init => CopyInv
  BY DEF Init, CopyInv, ScheduledArchivesConsistent
<1>2. TypeOK /\ LockInv /\ ServerInv /\ CopyInv /\ [Next]_vars => CopyInv'
  BY CopyInductive
<1>3. CopyInv => ScheduledArchivesConsistent
  BY DEF CopyInv
<1>4. QED
  BY <1>1, <1>2, <1>3, ServerAlways, PTL DEF Spec

-----------------------------------------------------------------------------
(* Saves.                                                                    *)

\* Saves that are off belong to an open server, and were lost track of or will be
\* switched on by an agent.
SavesInv ==
    /\ (\A i \in Ids : slot[i] # "open") => saving
    /\ saving \/ lost \/ \E a \in Agents : at[a] \in CopyPcs /\ paused[a]

LEMMA SavesInductive ==
    ASSUME TypeOK, LockInv, SavesInv, [Next]_vars
    PROVE  SavesInv'
<1> USE PcNames, Places
<1>1. ASSUME NEW a \in Agents, Others(a), UNCHANGED <<saving, lost, slot>>,
             at[a] \in CopyPcs /\ paused[a] => at'[a] \in CopyPcs /\ paused'[a]
      PROVE  SavesInv'
  BY <1>1 DEF SavesInv, Others
<1>2. ASSUME UNCHANGED <<saving, lost, slot, at, paused>>
      PROVE  SavesInv'
  BY <1>2 DEF SavesInv
<1>3. ASSUME SavesAfterwards,
             \/ UNCHANGED <<at, paused>>
             \/ \E a \in Agents : Others(a) /\ at[a] \notin CopyPcs,
             \A i \in Ids : slot'[i] = "open" => slot[i] = "open"
      PROVE  SavesInv'
  BY <1>3 DEF SavesInv, SavesAfterwards, Others
<1>4. ASSUME NEW i \in Ids, Opens(i)
      PROVE  SavesInv'
  <2>1. saving
    BY <1>4 DEF Opens, OpenServers, SavesInv
  <2>2. QED
    BY <1>4, <2>1 DEF Opens, SavesInv
<1>5. ASSUME NEW i \in Ids, Exits(i)
      PROVE  SavesInv'
  BY <1>3, <1>5 DEF Exits, TypeOK, agentVars
<1>6. CASE Reboot \/ \E i \in Ids : OtherProgram(i)
  <2>1. ASSUME NEW i \in Ids PROVE slot[i] = "open" => slot'[i] = "open"
    BY <1>6 DEF Reboot, OtherProgram, TypeOK, LiveServers, Live
  <2>2. ASSUME NEW i \in Ids PROVE slot'[i] = "open" => slot[i] = "open"
    BY <1>6 DEF Reboot, OtherProgram, TypeOK
  <2>3. UNCHANGED <<saving, lost, at, paused>>
    BY <1>6 DEF Reboot, OtherProgram, agentVars, world
  <2>4. QED
    BY <2>1, <2>2, <2>3 DEF SavesInv
<1>7. ASSUME NEW b \in Bots, NEW a \in Agents, Request(b, a) \/ RequestOffline(b, a)
      PROVE  SavesInv'
  <2>1. "free" \notin CopyPcs
    BY DEF CopyPcs
  <2>2. QED
    BY <1>1, <1>7, <2>1, OtherFlow DEF world, host
<1>8. ASSUME NEW a \in Agents, Killed(a)
      PROVE  SavesInv'
  <2>1. Others(a) /\ UNCHANGED <<slot, saving>>
    BY <1>8, OtherFlow DEF Killed
  <2>2. lost => lost'
    BY <1>8 DEF Killed
  <2>3. at[a] \in CopyPcs /\ paused[a] /\ OpenServers # {} => lost'
    BY <1>8 DEF Killed
  <2>4. QED
    BY <2>1, <2>2, <2>3 DEF SavesInv, Others, OpenServers
<1>9. ASSUME NEW a \in Agents, Proceed(a)
      PROVE  SavesInv'
  <2>1. Others(a)
    BY <1>9, AgentFlow
  <2>2. CASE \/ Flock(a) \/ FlockRefused(a) \/ Look(a) \/ SpawnRaises(a) \/ Record(a)
             \/ RecordRaises(a) \/ Settle(a) \/ Find(a) \/ Wait(a) \/ Ask(a) \/ Deliver(a)
    <3>1. at[a] \notin CopyPcs /\ UNCHANGED <<saving, lost, slot>>
      BY <2>2 DEF Flock, Deliver, FlockRefused, Look, SpawnRaises, Record, RecordRaises, Settle, Find,
                  Wait, Ask, world, host, CopyPcs
    <3>2. QED
      BY <1>1, <2>1, <3>1
  <2>3. CASE Spawn(a)
    <3>1. /\ at[a] \notin CopyPcs /\ UNCHANGED <<saving, lost>>
          /\ \A i \in Ids : slot'[i] = "open" <=> slot[i] = "open"
      BY <2>3 DEF Spawn, CopyPcs, TypeOK
    <3>2. QED
      BY <2>1, <3>1 DEF SavesInv, Others
  <2>4. CASE RconStop(a) \/ Term(a) \/ Kill(a)
    <3>1. at[a] \notin CopyPcs /\ SavesAfterwards
      BY <2>4 DEF RconStop, Term, Kill, CopyPcs
    <3>2. ASSUME NEW i \in Ids PROVE slot'[i] = "open" => slot[i] = "open"
      BY <2>4 DEF RconStop, Term, Kill, TypeOK, host
    <3>3. QED
      BY <1>3, <2>1, <3>1, <3>2
  <2>5. CASE SaveOff(a)
    <3>1. slot' = slot /\ at[a] \notin CopyPcs /\ (lost => lost')
      BY <2>5 DEF SaveOff, host, CopyPcs
    <3>2. CASE UNCHANGED <<saving, lost>>
      BY <1>1, <2>1, <3>1, <3>2
    <3>3. CASE OpenServers # {} /\ lost'
      BY <3>1, <3>3 DEF SavesInv, OpenServers
    <3>4. CASE /\ OpenServers # {}
               /\ paused' = [paused EXCEPT ![a] = TRUE]
               /\ Goto(a, "flush")
      <4>1. at'[a] \in CopyPcs /\ paused'[a]
        BY <3>4 DEF Goto, TypeOK, CopyPcs
      <4>2. QED
        BY <3>1, <3>4, <4>1 DEF SavesInv, OpenServers
    <3>5. QED
      BY <2>5, <3>2, <3>3, <3>4 DEF SaveOff
  <2>6. CASE Flush(a)
    <3>1. paused' = paused /\ at'[a] \in CopyPcs /\ UNCHANGED <<saving, lost, slot>>
      BY <2>6 DEF Flush, Continue, Goto, TypeOK, CopyPcs, world, host
    <3>2. QED
      BY <1>1, <2>1, <3>1
  <2>7. CASE Clean(a) \/ Copy(a)
    <3>1. UNCHANGED <<saving, lost, slot>>
      BY <2>7 DEF Clean, Copy, world, host
    <3>2. LeaveTry(a) \/ (Stays(a, "copy") /\ paused'[a] = paused[a])
      BY <2>7, GotoStays DEF Clean, Copy, Stays
    <3>3. paused[a] => at'[a] \in CopyPcs /\ paused'[a]
      BY <3>2, LeaveTryFlow DEF Stays, CopyPcs
    <3>4. QED
      BY <1>1, <2>1, <3>1, <3>3
  <2>8. CASE SaveOn(a)
    <3>1. slot' = slot
      BY <2>8 DEF SaveOn, host
    <3>2. CASE OpenServers # {} /\ (saving' \/ lost')
      BY <3>1, <3>2 DEF SavesInv, OpenServers
    <3>3. CASE OpenServers = {} /\ UNCHANGED <<saving, lost>>
      BY <3>1, <3>3 DEF SavesInv, OpenServers
    <3>4. QED
      BY <2>8, <3>2, <3>3 DEF SaveOn
  <2>9. QED
    BY <1>9, <2>2, <2>3, <2>4, <2>5, <2>6, <2>7, <2>8 DEF Proceed
<1>10. ASSUME NEW b, CheckStopped(b)
       PROVE  SavesInv'
  BY <1>2, <1>10, OtherFlow DEF agentVars, world, host
<1>11. ASSUME NEW a \in Agents, ConnectionLost(a)
       PROVE  SavesInv'
  BY <1>2, <1>11, OtherFlow DEF world, host
<1>12. CASE UNCHANGED vars
  BY <1>2, <1>12, OtherFlow DEF agentVars, world, host
<1>13. QED
  BY <1>4, <1>5, <1>6, <1>7, <1>8, <1>9, <1>10, <1>11, <1>12 DEF Next

\* With no backup under way an open server saves its world, unless an agent that paused
\* it was killed or RCON lost a command or an answer.
THEOREM SavingRestored == Spec => []SavesRestored
<1>1. Init => SavesInv
  BY DEF Init, SavesInv
<1>2. TypeOK /\ LockInv /\ SavesInv /\ [Next]_vars => SavesInv'
  BY SavesInductive
<1>3. SavesInv => SavesRestored
  BY DEF SavesInv, SavesRestored
<1>4. QED
  BY <1>1, <1>2, <1>3, ServerAlways, PTL DEF Spec

-----------------------------------------------------------------------------
(* Answers.                                                                  *)

Truthful(a) ==
    at[a] # "answered" /\ at'[a] = "answered" =>
        /\ verdict'[a] = "down" => LiveServers' \subseteq orphans'
        /\ verdict'[a] = "up" => LiveServers' # {}

\* An agent that ends with the answer ans; the others give none in this step.
LEMMA EndsTruthfully ==
    ASSUME NEW a, NEW ans, Others(a), Ends(a, ans),
           ans = "down" => LiveServers' \subseteq orphans',
           ans = "up" => LiveServers' # {}
    PROVE  \A b \in Agents : Truthful(b)
  BY DEF Truthful, Ends, Others

LEMMA RecordedLives ==
    ASSUME TypeOK, HandsTyped, ServerInv, Recorded
    PROVE  record.id \in LiveServers
  BY RemoteAssumption DEF Recorded, ProcessAlive, ServerInv, HostInv, HandsTyped, TypeOK, LiveServers

\* No agent leaves the lock with the answer that the server is down while one lives that
\* anybody knows of, nor with the answer that it runs while none does.
LEMMA AnswersHold ==
    ASSUME TypeOK, HandsTyped, LockInv, ServerInv, [Next]_vars
    PROVE  \A b \in Agents : Truthful(b)
<1> DEFINE AllTruthful == \A b \in Agents : Truthful(b)
<1> USE PcNames, Places
<1>1. ASSUME UNCHANGED at
      PROVE  AllTruthful
  BY <1>1 DEF Truthful
<1>c. ASSUME NEW a \in Agents, Others(a), at'[a] # "answered"
      PROVE  AllTruthful
  BY <1>c DEF Truthful, Others
<1>g. ASSUME NEW a \in Agents, NEW where \in LockedPcs, Continue(a, where)
      PROVE  AllTruthful
  BY <1>c, <1>g, GotoStays DEF Stays
<1>2. ASSUME NEW a \in Agents, Others(a), Ends(a, "neither")
      PROVE  AllTruthful
  BY <1>2, EndsTruthfully
<1>f. ASSUME NEW a \in Agents, Finish(a, "neither")
      PROVE  AllTruthful
  BY <1>2, <1>f, FinishEnds
<1>3. ASSUME NEW a \in Agents, Terminated(a), LiveServers' \subseteq orphans'
      PROVE  AllTruthful
  <2>1. CASE Ends(a, "down")
    BY <1>3, <2>1, TerminatedFlow, EndsTruthfully
  <2>2. CASE Stays(a, "look")
    BY <1>3, <1>c, <2>2, TerminatedFlow DEF Stays
  <2>3. QED
    BY <1>3, <2>1, <2>2, TerminatedFlow
<1>4. ASSUME NEW a \in Agents, at[a] \in StopPcs, ~ProcessAlive(child[a]), UNCHANGED host
      PROVE  LiveServers' \subseteq orphans'
  <2>1. record = [id |-> child[a], boot |-> boot] /\ at[a] # "record" /\ at[a] \in LockedPcs
    BY <1>4 DEF ServerInv, ServerAt, StopPcs
  <2>2. ~Recorded
    BY <1>4, <2>1 DEF Recorded
  <2>3. QED
    BY <1>4, <2>1, <2>2, NoneKnown DEF Known, LiveServers, host
<1>5. ASSUME NEW a \in Agents, Proceed(a)
      PROVE  AllTruthful
  <2>o. Others(a)
    BY <1>5, AgentFlow
  <2>1. CASE Flock(a) \/ Spawn(a)
    <3>1. at'[a] # "answered"
      BY <2>1 DEF Flock, Spawn, FirstStep, Goto, TypeOK
    <3>2. QED
      BY <1>c, <2>o, <3>1
  <2>2. CASE Deliver(a)
    BY <1>2, <2>2, GoneEnds DEF Deliver
  <2>3. CASE \/ FlockRefused(a) \/ SpawnRaises(a) \/ Record(a) \/ RecordRaises(a)
             \/ RconStop(a) \/ Flush(a) \/ SaveOn(a)
    BY <1>f, <1>g, <2>3
       DEF FlockRefused, SpawnRaises, Record, RecordRaises, RconStop, Flush, SaveOn
  <2>4. CASE Clean(a) \/ Copy(a)
    <3>1. ASSUME LeaveTry(a) PROVE AllTruthful
      BY <1>f, <1>g, <3>1 DEF LeaveTry
    <3>2. QED
      BY <1>g, <2>4, <3>1 DEF Clean, Copy
  <2>5. CASE Ask(a) \/ SaveOff(a)
    <3>1. CASE Goto(a, "flush")
      BY <1>c, <2>o, <3>1 DEF Goto, TypeOK
    <3>2. QED
      BY <1>f, <1>g, <2>5, <3>1 DEF Ask, SaveOff
  <2>6. CASE Look(a)
    <3>1. CASE Running /\ Finish(a, "up")
      <4>1. LiveServers # {}
        BY <3>1, RecordedLives DEF Running, OpenServers, LiveServers, Live
      <4>2. LiveServers' # {}
        BY <2>6, <4>1 DEF Look, host, LiveServers
      <4>3. QED
        BY <2>o, <3>1, <4>2, FinishEnds, EndsTruthfully
    <3>2. QED
      BY <1>f, <1>g, <2>6, <3>1 DEF Look
  <2>7. CASE Settle(a)
    <3>1. CASE slot[child[a]] # "exited" /\ Finish(a, "up")
      <4>1. child[a] \in Ids /\ slot[child[a]] \in Live
        BY <2>7, <3>1 DEF Settle, ServerInv, ServerAt, HandsTyped
      <4>2. LiveServers' # {}
        BY <2>7, <4>1 DEF Settle, LiveServers
      <4>3. QED
        BY <2>o, <3>1, <4>2, FinishEnds, EndsTruthfully
    <3>2. QED
      BY <1>f, <2>7, <3>1 DEF Settle
  <2>8. CASE Find(a)
    <3>1. CASE ~Running /\ Terminated(a)
      <4>1. \A i : ~Known(i)
        BY <2>8, <3>1, NoneKnown DEF Find, Running
      <4>2. LiveServers' \subseteq orphans'
        BY <2>8, <4>1 DEF Find, host, Known, LiveServers
      <4>3. QED
        BY <1>3, <3>1, <4>2
    <3>2. CASE Goto(a, "rcon")
      BY <1>c, <2>o, <3>2 DEF Goto, TypeOK
    <3>3. QED
      BY <1>f, <2>8, <3>1, <3>2 DEF Find
  <2>9. CASE Wait(a) \/ Term(a)
    <3>1. at[a] \in StopPcs
      BY <2>9 DEF Wait, Term, StopPcs
    <3>2. CASE ~ProcessAlive(child[a]) /\ Terminated(a) /\ UNCHANGED host
      BY <1>3, <1>4, <3>1, <3>2
    <3>3. QED
      BY <1>g, <2>9, <3>2 DEF Wait, Term, host
  <2>10. CASE Kill(a)
    <3>0. at[a] \in StopPcs /\ at[a] \in LockedPcs /\ at[a] # "record"
      BY <2>10 DEF Kill, StopPcs
    <3>1. CASE ~ProcessAlive(child[a]) /\ Terminated(a) /\ UNCHANGED host
      BY <1>3, <1>4, <3>0, <3>1
    <3>2. CASE /\ slot' = [slot EXCEPT ![child[a]] = "exited"]
               /\ orphans' = orphans \ {child[a]}
               /\ Terminated(a)
      <4>1. record = [id |-> child[a], boot |-> boot]
        BY <3>0 DEF ServerInv, ServerAt
      <4>2. \A i : Known(i) => i = child[a]
        BY <3>0, <4>1, OneHolder DEF ServerInv, HostInv
      <4>3. LiveServers' \subseteq orphans'
        BY <3>2, <4>2 DEF Known, LiveServers, Live, TypeOK
      <4>4. QED
        BY <1>3, <3>2, <4>3
    <3>3. QED
      BY <1>f, <2>10, <3>1, <3>2 DEF Kill
  <2>11. QED
    BY <1>5, <2>1, <2>2, <2>3, <2>4, <2>5, <2>6, <2>7, <2>8, <2>9, <2>10 DEF Proceed
<1>6. ASSUME NEW a \in Agents, Killed(a)
      PROVE  AllTruthful
  BY <1>2, <1>6, OtherFlow
<1>7. ASSUME NEW a \in Agents, ConnectionLost(a)
      PROVE  AllTruthful
  BY <1>1, <1>7, OtherFlow
<1>8. ASSUME NEW b, CheckStopped(b)
      PROVE  AllTruthful
  BY <1>1, <1>8, OtherFlow DEF agentVars
<1>9. ASSUME NEW b \in Bots, NEW a \in Agents, Request(b, a) \/ RequestOffline(b, a)
      PROVE  AllTruthful
  <2>1. Others(a) /\ at'[a] # "answered"
    BY <1>9, OtherFlow DEF TypeOK
  <2>2. QED
    BY <1>c, <2>1
<1>10. CASE Reboot \/ UNCHANGED vars \/ \E i \in Ids : Opens(i) \/ Exits(i) \/ OtherProgram(i)
  BY <1>1, <1>10, OtherFlow DEF agentVars
<1>11. QED
  BY <1>5, <1>6, <1>7, <1>8, <1>9, <1>10 DEF Next

\* An agent whose answer says "stopped", or "started", was right about the servers anybody
\* knows of when it let go of the file lock, for any number of bots and agents and under
\* every fault.
THEOREM AnswersAreTrue == Spec => AnswersTrue
<1>1. TypeOK /\ HandsTyped /\ LockInv /\ ServerInv /\ [Next]_vars =>
          [\A a \in Agents :
             at[a] # "answered" /\ at'[a] = "answered" =>
                 /\ verdict'[a] = "down" => LiveServers' \subseteq orphans'
                 /\ verdict'[a] = "up" => LiveServers' # {}]_vars
  BY AnswersHold DEF Truthful
<1>2. QED
  BY <1>1, ServerAlways, PTL DEF Spec, AnswersTrue
=============================================================================
