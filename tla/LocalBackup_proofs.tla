------------------------- MODULE LocalBackup_proofs -------------------------
(***************************************************************************)
(* What TLAPS proves of LocalBackup, for any number of tasks of each kind: *)
(* type correctness and, whatever RCON loses, that scheduled archives are  *)
(* consistent, that no autosave reaches an archive of a paused server and  *)
(* that saving is restored when the backups are over.                      *)
(***************************************************************************)
EXTENDS LocalBackup, TLAPS

LEMMA KindsApart ==
    /\ \A t \in Manual : t \in Backups /\ t \in Tasks /\ t \notin Scheduled /\ t \notin Control
    /\ \A t \in Scheduled : t \in Backups /\ t \in Tasks /\ t \notin Manual /\ t \notin Control
    /\ \A t \in Control : t \in Tasks /\ t \notin Backups
    /\ \A t \in Backups : t \in Tasks /\ (t \in Manual \/ t \in Scheduled)
    /\ NoTask \notin Tasks
<1>1. ASSUME NEW t, t \in Manual, t \in Scheduled PROVE FALSE
  <2>1. t \in Manual \cap Scheduled
    BY <1>1
  <2>2. QED
    BY <2>1, BackupAssumption
<1>2. ASSUME NEW t, t \in Manual, t \in Control PROVE FALSE
  <2>1. t \in Manual \cap Control
    BY <1>2
  <2>2. QED
    BY <2>1, BackupAssumption
<1>3. ASSUME NEW t, t \in Scheduled, t \in Control PROVE FALSE
  <2>1. t \in Scheduled \cap Control
    BY <1>3
  <2>2. QED
    BY <2>1, BackupAssumption
<1>4. NoTask \notin Tasks
  BY BackupAssumption DEF Tasks, Backups
<1>5. QED
  BY <1>1, <1>2, <1>3, <1>4 DEF Tasks, Backups

\* What a command may have done by the time its sender goes on.
LEMMA RconEffect ==
    ASSUME TypeOK, NEW t \in Backups, NEW ok, NEW failed,
           NEW on \in BOOLEAN, Rcon(t, ok, failed, on)
    PROVE  /\ saving' \in BOOLEAN /\ lost' \in BOOLEAN
           /\ \/ /\ pc' = [pc EXCEPT ![t] = ok]
                 /\ server = "up" /\ saving' = on
              \/ /\ pc' = [pc EXCEPT ![t] = failed]
                 /\ \/ saving' = saving /\ (lost => lost') /\ (on /\ server = "up" => lost')
                    \/ server = "up" /\ saving' = on /\ (lost' \/ on)
  BY DEF TypeOK, Rcon, Delivered, Refused, Goto

\* Where a backup goes on after save-off or save-on.
LEMMA RconGoesOn ==
    ASSUME TypeOK, NEW t \in Backups
    PROVE  /\ SaveOff(t) => \E where \in {"flush", "idle", "copy"} : pc' = [pc EXCEPT ![t] = where]
           /\ Undo(t) \/ SaveOn(t) => pc' = [pc EXCEPT ![t] = "idle"]
<1>1. ASSUME SaveOff(t)
      PROVE  \E where \in {"flush", "idle", "copy"} : pc' = [pc EXCEPT ![t] = where]
  <2>1. PICK where \in {"idle", "copy"} : Rcon(t, "flush", where, FALSE)
    BY <1>1 DEF SaveOff
  <2>2. pc' = [pc EXCEPT ![t] = "flush"] \/ pc' = [pc EXCEPT ![t] = where]
    BY <2>1, RconEffect
  <2>3. QED
    BY <2>2
<1>2. ASSUME Undo(t) \/ SaveOn(t)
      PROVE  pc' = [pc EXCEPT ![t] = "idle"]
  <2>1. Rcon(t, "idle", "idle", TRUE)
    BY <1>2 DEF Undo, SaveOn
  <2>2. QED
    BY <2>1, RconEffect
<1>3. QED
  BY <1>1, <1>2

LEMMA TypeInductive ==
    ASSUME TypeOK, [Next]_vars
    PROVE  TypeOK'
<1> USE KindsApart
<1> USE DEF TypeOK, Goto, BackupPcs, Writers
<1>1. ASSUME NEW how \in Writers, WorldWritten(how)
      PROVE  torn' \in [Backups -> SUBSET Writers]
  BY <1>1 DEF WorldWritten
<1>2. CASE Boots \/ Autosaves \/ ServerExits
  BY <1>1, <1>2 DEF Boots, Autosaves, ServerExits
<1>3. ASSUME NEW t \in Control, ControlRequest(t) \/ Start(t) \/ Stop(t)
      PROVE  TypeOK'
  <2>1. torn' \in [Backups -> SUBSET Writers]
    BY <1>1, <1>3 DEF ControlRequest, Start, Stop
  <2>2. QED
    BY <1>3, <2>1 DEF ControlRequest, Start, Stop
<1>4. ASSUME NEW t \in Backups, Request(t) \/ CheckStopped(t) \/ TakeBackupLock(t)
      PROVE  TypeOK'
  BY <1>4 DEF Request, CheckStopped, TakeBackupLock, ReleaseManager
<1>5. ASSUME NEW t \in Backups, GiveUp(t)
      PROVE  /\ managerLock' \in Tasks \cup {NoTask}
             /\ backupLock' \in Tasks \cup {NoTask}
             /\ torn' \in [Backups -> SUBSET Writers]
             /\ UNCHANGED <<server, seen, paused, archive>>
  BY <1>5 DEF GiveUp, ReleaseBackup, ReleaseManager
<1>7. ASSUME NEW t \in Backups, MakeDirsRaises(t)
      PROVE  TypeOK'
  BY <1>5, <1>7 DEF MakeDirsRaises
<1>8. ASSUME NEW t \in Backups, AskStatus(t) \/ Flush(t)
      PROVE  TypeOK'
  BY <1>8, ZenonT(40) DEF AskStatus, Flush
<1>9. ASSUME NEW t \in Backups, SaveOff(t)
      PROVE  TypeOK'
  <2>1. saving' \in BOOLEAN /\ lost' \in BOOLEAN /\ \E where \in {"flush", "idle", "copy"} : pc' = [pc EXCEPT ![t] = where]
    <3>1. PICK where \in {"idle", "copy"} : Rcon(t, "flush", where, FALSE)
      BY <1>9 DEF SaveOff
    <3>2. /\ pc' \in {[pc EXCEPT ![t] = "flush"], [pc EXCEPT ![t] = where]}
          /\ saving' \in BOOLEAN /\ lost' \in BOOLEAN
      BY <3>1, RconEffect
    <3>3. QED
      BY <3>2
  <2>2. QED
    BY <1>5, <1>9, <2>1 DEF SaveOff
<1>10. ASSUME NEW t \in Backups, Undo(t)
       PROVE  TypeOK'
  <2>1. saving' \in BOOLEAN /\ lost' \in BOOLEAN /\ pc' = [pc EXCEPT ![t] = "idle"]
    BY <1>10, RconEffect DEF Undo
  <2>2. QED
    BY <1>5, <1>10, <2>1 DEF Undo
<1>11. ASSUME NEW t \in Backups, Copy(t)
       PROVE  TypeOK'
  <2>1. archive' \in [by : {"nobody", "manual", "auto"}, live : BOOLEAN, torn : SUBSET Writers]
    BY <1>11 DEF Copy, Kind
  <2>2. QED
    BY <1>11, <2>1 DEF Copy, ReleaseBackup, ReleaseManager
<1>12. ASSUME NEW t \in Backups, SaveOn(t)
       PROVE  TypeOK'
  <2>1. saving' \in BOOLEAN /\ lost' \in BOOLEAN /\ pc' = [pc EXCEPT ![t] = "idle"]
    BY <1>12, RconEffect DEF SaveOn
  <2>2. QED
    BY <1>12, <2>1 DEF SaveOn, ReleaseBackup, ReleaseManager
<1>13. CASE UNCHANGED vars
  BY <1>13 DEF vars
<1>14. QED
  BY <1>2, <1>3, <1>4, <1>7, <1>8, <1>9, <1>10, <1>11, <1>12, <1>13 DEF Next, Proceed

LEMMA InitTyped == Init => TypeOK
<1> SUFFICES ASSUME Init PROVE TypeOK
  OBVIOUS
<1> USE DEF Init, BackupPcs, Writers
<1>1. pc \in [Tasks -> BackupPcs \cup {"idle", "queued", "check", "control"}]
  OBVIOUS
<1>2. torn \in [Backups -> SUBSET Writers]
  OBVIOUS
<1>3. archive \in [by : {"nobody", "manual", "auto"}, live : BOOLEAN, torn : SUBSET Writers]
  OBVIOUS
<1>4. seen \in [Backups -> BOOLEAN] /\ paused \in [Backups -> BOOLEAN]
  OBVIOUS
<1>5. QED
  BY <1>1, <1>2, <1>3, <1>4 DEF TypeOK

\* Whatever RCON loses, each variable keeps its type.
THEOREM TypeCorrect == Spec => []TypeOK
<1>1. Init => TypeOK
  BY InitTyped
<1>2. QED
  BY <1>1, TypeInductive, PTL DEF Spec

-----------------------------------------------------------------------------
(* Who holds which lock.                                                     *)

\* A scheduled backup has the manager's lock from its check to its end, a start or stop
\* while it acts, and every backup has the backup lock while it works.
LockInv ==
    /\ \A t \in Scheduled : pc[t] # "idle" => managerLock = t
    /\ \A t \in Manual : pc[t] # "check" /\ managerLock # t
    /\ \A t \in Backups : pc[t] # "control"
    /\ \A t \in Control : pc[t] \in {"idle", "control"}
    /\ \A t \in Control : pc[t] = "control" => managerLock = t
    /\ \A t \in Backups : pc[t] \in BackupPcs <=> backupLock = t

\* What a step of a backup does to the two locks.
LEMMA LockMoves ==
    ASSUME TypeOK, LockInv, NEW t \in Backups, Request(t) \/ Proceed(t)
    PROVE  /\ \A u \in Tasks \ {t} : pc'[u] = pc[u]
           /\ pc'[t] # "control"
           /\ t \in Scheduled => /\ pc'[t] # "idle" => managerLock' = t
                                 /\ managerLock # t => managerLock = NoTask
                                 /\ managerLock' \in {t, NoTask}
           /\ t \in Manual => managerLock' = managerLock /\ pc'[t] # "check"
           /\ pc'[t] \in BackupPcs <=> backupLock' = t
           /\ backupLock \in {t, NoTask} \/ backupLock' = backupLock
           /\ backupLock' \in {backupLock, NoTask, t}
<1> USE KindsApart
<1> USE DEF TypeOK, LockInv, Goto, BackupPcs, ReleaseManager, ReleaseBackup
<1>1. CASE Request(t)
  BY <1>1 DEF Request
<1>2. CASE CheckStopped(t)
  BY <1>2 DEF CheckStopped
<1>3. CASE TakeBackupLock(t)
  BY <1>3 DEF TakeBackupLock
<1>4. CASE MakeDirsRaises(t)
  BY <1>4 DEF MakeDirsRaises, GiveUp
<1>5. CASE AskStatus(t) \/ Flush(t)
  BY <1>5 DEF AskStatus, Flush
<1>6. CASE SaveOff(t)
  <2>2. \E where \in {"flush", "idle", "copy"} : pc' = [pc EXCEPT ![t] = where]
    BY <1>6, RconGoesOn
  <2>3. pc[t] = "save_off"
    BY <1>6 DEF SaveOff
  <2>4. CASE pc'[t] = "idle"
    <3>1. GiveUp(t)
      BY <1>6, <2>4 DEF SaveOff
    <3>2. QED
      BY <2>2, <2>3, <2>4, <3>1 DEF GiveUp
  <2>5. CASE pc'[t] # "idle"
    <3>1. UNCHANGED <<managerLock, backupLock>>
      BY <1>6, <2>5 DEF SaveOff
    <3>2. QED
      BY <2>2, <2>3, <2>5, <3>1
  <2>6. QED
    BY <2>4, <2>5
<1>7. CASE Undo(t)
  <2>1. pc' = [pc EXCEPT ![t] = "idle"]
    BY <1>7, RconGoesOn
  <2>2. QED
    BY <1>7, <2>1 DEF Undo, GiveUp
<1>8. CASE Copy(t)
  BY <1>8 DEF Copy
<1>9. CASE SaveOn(t)
  <2>1. pc' = [pc EXCEPT ![t] = "idle"]
    BY <1>9, RconGoesOn
  <2>2. QED
    BY <1>9, <2>1 DEF SaveOn
<1>10. QED
  BY <1>1, <1>2, <1>3, <1>4, <1>5, <1>6, <1>7, <1>8, <1>9 DEF Proceed

LEMMA LockInductive ==
    ASSUME TypeOK, LockInv, [Next]_vars
    PROVE  LockInv'
<1> USE KindsApart
<1>1. CASE Boots \/ Autosaves \/ ServerExits \/ UNCHANGED vars
  BY <1>1 DEF LockInv, Boots, Autosaves, ServerExits, vars
<1>2. ASSUME NEW t \in Control, ControlRequest(t) \/ Start(t) \/ Stop(t)
      PROVE  LockInv'
  <2>1. /\ \A u \in Tasks \ {t} : pc'[u] = pc[u]
        /\ pc'[t] \in {"idle", "control"}
        /\ pc'[t] = "control" => managerLock' = t
        /\ managerLock \in {t, NoTask} /\ managerLock' \in {t, NoTask}
        /\ backupLock' = backupLock
    BY <1>2 DEF TypeOK, LockInv, ControlRequest, Start, Stop, Goto
  <2>2. QED
    BY <2>1 DEF LockInv
<1>3. ASSUME NEW t \in Backups, Request(t) \/ Proceed(t)
      PROVE  LockInv'
  <2>1. /\ \A u \in Tasks \ {t} : pc'[u] = pc[u]
        /\ pc'[t] # "control"
        /\ backupLock \in {t, NoTask} \/ backupLock' = backupLock
        /\ pc'[t] \in BackupPcs <=> backupLock' = t
    BY <1>3, LockMoves
  <2>2. \A u \in Backups : pc'[u] \in BackupPcs <=> backupLock' = u
    <3>1. ASSUME NEW u \in Backups, u # t
          PROVE  pc'[u] \in BackupPcs <=> backupLock' = u
      <4>1. pc[u] \in BackupPcs <=> backupLock = u
        BY DEF LockInv
      <4>2. backupLock' \in {backupLock, NoTask, t}
        BY <1>3, LockMoves
      <4>3. QED
        BY <2>1, <3>1, <4>1, <4>2
    <3>2. QED
      BY <2>1, <3>1
  <2>3. CASE t \in Scheduled
    <3>1. /\ pc'[t] # "idle" => managerLock' = t
          /\ managerLock # t => managerLock = NoTask
          /\ managerLock' \in {t, NoTask}
      BY <1>3, <2>3, LockMoves
    <3>2. QED
      BY <2>1, <2>2, <2>3, <3>1 DEF LockInv
  <2>4. CASE t \in Manual
    <3>1. managerLock' = managerLock /\ pc'[t] # "check"
      BY <1>3, <2>4, LockMoves
    <3>2. QED
      BY <2>1, <2>2, <2>4, <3>1 DEF LockInv
  <2>5. QED
    BY <2>3, <2>4
<1>4. QED
  BY <1>1, <1>2, <1>3 DEF Next

THEOREM LocksHeld == Spec => [](TypeOK /\ LockInv)
<1>1. Init => TypeOK /\ LockInv
  BY KindsApart, InitTyped DEF Init, LockInv, BackupPcs
<1>2. TypeOK /\ LockInv /\ [Next]_vars => (TypeOK /\ LockInv)'
  BY TypeInductive, LockInductive
<1>3. QED
  BY <1>1, <1>2, PTL DEF Spec

-----------------------------------------------------------------------------
(* Scheduled archives.                                                       *)

\* Past its check a scheduled backup has a server that is down and stays down, and so
\* nothing writes its world.
ScheduledInv ==
    /\ \A t \in Scheduled : pc[t] \notin {"idle", "check"} => server = "down"
    /\ \A t \in Scheduled : torn[t] = {}
    /\ ScheduledArchivesConsistent

\* The steps of a backup leave the server as it is, and what was torn is forgotten or
\* kept; what they archive is what was torn.
LEMMA BackupMoves ==
    ASSUME TypeOK, NEW t \in Backups, Request(t) \/ Proceed(t)
    PROVE  /\ server' = server
           /\ \A u \in Backups : torn'[u] \in {torn[u], {}}
           /\ \/ archive' = archive
              \/ pc[t] = "copy" /\ archive' = [by |-> Kind(t), live |-> paused[t], torn |-> torn[t]]
           /\ \A u \in Tasks \ {t} : pc'[u] = pc[u]
<1> USE KindsApart
<1> USE DEF TypeOK, Goto
<1>1. ASSUME SaveOff(t) \/ Undo(t) \/ SaveOn(t)
      PROVE  \E where : pc' = [pc EXCEPT ![t] = where]
  BY <1>1, RconGoesOn
<1>2. CASE Request(t) \/ CheckStopped(t) \/ TakeBackupLock(t) \/ AskStatus(t) \/ Flush(t)
  BY <1>2 DEF Request, CheckStopped, TakeBackupLock, AskStatus, Flush
<1>3. CASE MakeDirsRaises(t)
  BY <1>3 DEF MakeDirsRaises, GiveUp
<1>4. CASE SaveOff(t)
  BY <1>1, <1>4 DEF SaveOff, GiveUp
<1>5. CASE Undo(t)
  BY <1>1, <1>5 DEF Undo, GiveUp
<1>6. CASE Copy(t)
  BY <1>6 DEF Copy
<1>7. CASE SaveOn(t)
  BY <1>1, <1>7 DEF SaveOn
<1>8. QED
  BY <1>2, <1>3, <1>4, <1>5, <1>6, <1>7 DEF Proceed

LEMMA ScheduledInductive ==
    ASSUME TypeOK, LockInv, ScheduledInv, [Next]_vars
    PROVE  ScheduledInv'
<1> USE KindsApart
<1>1. CASE Boots \/ Autosaves \/ ServerExits
  <2>1. CASE \A t \in Scheduled : pc[t] \in {"idle", "check"}
    BY <1>1, <2>1 DEF ScheduledInv, ScheduledArchivesConsistent, TypeOK, Boots, Autosaves,
      ServerExits, WorldWritten
  <2>2. CASE server = "down"
    BY <1>1, <2>2 DEF Boots, Autosaves, ServerExits
  <2>3. QED
    BY <2>1, <2>2 DEF ScheduledInv
<1>2. ASSUME NEW c \in Control, ControlRequest(c)
      PROVE  ScheduledInv'
  BY <1>2 DEF ControlRequest, ScheduledInv, ScheduledArchivesConsistent, Goto, TypeOK
<1>3. ASSUME NEW c \in Control, Start(c) \/ Stop(c)
      PROVE  ScheduledInv'
  <2>1. managerLock = c
    BY <1>3 DEF Start, Stop, LockInv
  <2>2. \A t \in Scheduled : pc[t] = "idle" /\ pc'[t] = "idle"
    BY <1>3, <2>1 DEF Start, Stop, Goto, LockInv, TypeOK
  <2>3. \A t \in Scheduled : torn'[t] = torn[t]
    BY <1>3, <2>2 DEF Start, Stop, WorldWritten, TypeOK
  <2>4. archive' = archive
    BY <1>3 DEF Start, Stop
  <2>5. QED
    BY <2>2, <2>3, <2>4 DEF ScheduledInv, ScheduledArchivesConsistent
<1>4. ASSUME NEW t \in Backups, Request(t) \/ Proceed(t)
      PROVE  ScheduledInv'
  <2>1. server' = server /\ \A u \in Scheduled : torn'[u] = {}
    BY <1>4, BackupMoves DEF ScheduledInv
  <2>2. ScheduledArchivesConsistent'
    <3>1. CASE archive' = archive
      BY <3>1 DEF ScheduledInv, ScheduledArchivesConsistent
    <3>2. CASE archive' = [by |-> Kind(t), live |-> paused[t], torn |-> torn[t]]
      BY <3>2 DEF ScheduledInv, ScheduledArchivesConsistent, Kind
    <3>3. QED
      BY <1>4, <3>1, <3>2, BackupMoves
  <2>3. t \in Scheduled /\ pc'[t] \notin {"idle", "check"} =>
           pc[t] \notin {"idle", "check"} \/ server = "down"
    BY <1>4 DEF Proceed, Request, CheckStopped, TakeBackupLock, MakeDirsRaises, AskStatus, SaveOff,
      Flush, Undo, Copy, SaveOn, Goto, TypeOK
  <2>4. QED
    BY <1>4, <2>1, <2>2, <2>3, BackupMoves DEF ScheduledInv
<1>5. CASE UNCHANGED vars
  BY <1>5 DEF ScheduledInv, ScheduledArchivesConsistent, vars
<1>6. QED
  BY <1>1, <1>2, <1>3, <1>4, <1>5 DEF Next

\* A scheduled archive is consistent, whatever RCON loses and whoever else backs up,
\* starts or stops the server.
THEOREM ScheduledConsistency == Spec => []ScheduledArchivesConsistent
<1>1. Init => ScheduledInv
  BY KindsApart DEF Init, ScheduledInv, ScheduledArchivesConsistent
<1>2. TypeOK /\ LockInv /\ ScheduledInv /\ [Next]_vars => ScheduledInv'
  BY ScheduledInductive
<1>3. ScheduledInv => ScheduledArchivesConsistent
  BY DEF ScheduledInv
<1>4. QED
  BY <1>1, <1>2, <1>3, LocksHeld, PTL DEF Spec

-----------------------------------------------------------------------------
(* Archives of a paused server.                                              *)

\* Between save-off and the end of the copy the server saves again only if it was
\* started anew meanwhile.
Covered(t) == pc[t] = "flush" \/ (pc[t] = "copy" /\ paused[t])

PausedInv ==
    /\ \A t \in Backups : paused[t] => pc[t] \in {"copy", "save_on"}
    /\ \A t \in Backups : pc[t] \notin {"flush", "copy", "undo"} => torn[t] = {}
    /\ \A t \in Backups : Covered(t) /\ (saving \/ "save" \in torn[t]) => "boot" \in torn[t]
    /\ NoAutosaveInArchive

\* The backup lock lets one backup work at a time.
LEMMA OneBackup ==
    ASSUME LockInv, NEW t \in Backups, NEW u \in Backups,
           pc[t] \in BackupPcs, pc[u] \in BackupPcs
    PROVE  t = u
  BY DEF LockInv

\* What writes the world is noted by every backup that copies it.
LEMMA WorldNoted ==
    ASSUME TypeOK, NEW how \in Writers, WorldWritten(how), NEW t \in Backups
    PROVE  /\ pc[t] \in {"flush", "copy"} => torn'[t] = torn[t] \cup {how}
           /\ pc[t] \notin {"flush", "copy"} => torn'[t] = torn[t]
  BY DEF TypeOK, WorldWritten

LEMMA PausedInductive ==
    ASSUME TypeOK, LockInv, PausedInv, [Next]_vars
    PROVE  PausedInv'
<1> USE KindsApart
<1> USE DEF Covered
<1>1. CASE Boots
  BY <1>1 DEF Boots, PausedInv, NoAutosaveInArchive
<1>2. CASE Autosaves
  BY <1>2, WorldNoted DEF Autosaves, PausedInv, NoAutosaveInArchive, Writers
<1>3. CASE ServerExits
  BY <1>3, WorldNoted DEF ServerExits, PausedInv, NoAutosaveInArchive, Writers
<1>4. ASSUME NEW c \in Control, ControlRequest(c) \/ Start(c) \/ Stop(c)
      PROVE  PausedInv'
  <2>1. /\ \A t \in Backups : pc'[t] = pc[t]
        /\ UNCHANGED <<paused, archive>>
    BY <1>4 DEF ControlRequest, Start, Stop, Goto, TypeOK
  <2>2. \/ saving' = saving /\ torn' = torn
        \/ saving' = TRUE /\ WorldWritten("boot")
        \/ saving' = saving /\ WorldWritten("exit")
    BY <1>4 DEF ControlRequest, Start, Stop
  <2>3. QED
    BY <2>1, <2>2, WorldNoted DEF PausedInv, NoAutosaveInArchive, Writers
<1>5. ASSUME NEW t \in Backups, Request(t) \/ Proceed(t)
      PROVE  PausedInv'
  <2>1. \A u \in Tasks \ {t} : pc'[u] = pc[u]
    BY <1>5, BackupMoves
  <2>2. CASE Request(t) \/ CheckStopped(t) \/ TakeBackupLock(t) \/ AskStatus(t)
    <3>1. /\ UNCHANGED <<paused, torn, saving, archive>>
          /\ pc[t] \notin {"flush", "copy", "undo", "save_on"}
          /\ pc'[t] \notin {"flush", "copy", "undo"}
      BY <2>2 DEF Request, CheckStopped, TakeBackupLock, AskStatus, Goto, TypeOK
    <3>2. QED
      BY <2>1, <3>1 DEF PausedInv, NoAutosaveInArchive
  <2>3. ASSUME pc[t] \in BackupPcs
        PROVE  \A u \in Backups \ {t} : ~Covered(u) /\ ~Covered(u)'
    <3>1. \A u \in Backups \ {t} : pc[u] \notin BackupPcs
      BY <2>3, OneBackup
    <3>2. QED
      BY <2>1, <3>1 DEF BackupPcs
  <2>4. CASE MakeDirsRaises(t)
    <3>1. /\ UNCHANGED <<paused, saving, archive>>
          /\ torn' = [torn EXCEPT ![t] = {}]
          /\ pc[t] = "status" /\ pc'[t] = "idle"
      BY <2>4 DEF MakeDirsRaises, GiveUp, Goto, TypeOK
    <3>2. QED
      BY <2>1, <3>1 DEF PausedInv, NoAutosaveInArchive, TypeOK
  <2>5. CASE SaveOff(t)
    <3>1. /\ pc[t] = "save_off" /\ UNCHANGED <<paused, archive>>
          /\ torn' = torn \/ torn' = [torn EXCEPT ![t] = {}]
          /\ \E where \in {"idle", "copy"} : Rcon(t, "flush", where, FALSE)
      BY <2>5 DEF SaveOff, GiveUp
    <3>2. /\ pc'[t] \in {"flush", "idle", "copy"}
          /\ pc'[t] = "flush" => saving' = FALSE
      <4>1. PICK where \in {"idle", "copy"} : Rcon(t, "flush", where, FALSE)
        BY <3>1
      <4>2. \/ pc' = [pc EXCEPT ![t] = "flush"] /\ saving' = FALSE
            \/ pc' = [pc EXCEPT ![t] = where]
        BY <4>1, RconEffect
      <4>3. QED
        BY <4>2 DEF TypeOK
    <3>3. torn[t] = {} /\ ~paused[t]
      BY <3>1 DEF PausedInv
    <3>4. \A u \in Backups : torn'[u] = torn[u]
      <4>1. torn \in [Backups -> SUBSET Writers]
        BY DEF TypeOK
      <4>2. QED
        BY <3>1, <3>3, <4>1
    <3>5. QED
      BY <2>1, <2>3, <3>1, <3>2, <3>3, <3>4 DEF PausedInv, NoAutosaveInArchive, BackupPcs
  <2>6. CASE Flush(t)
    <3>1. /\ pc[t] = "flush" /\ UNCHANGED <<saving, torn, archive>>
          /\ \/ pc'[t] = "copy" /\ paused' = [paused EXCEPT ![t] = TRUE]
             \/ pc'[t] = "undo" /\ paused' = paused
      BY <2>6 DEF Flush, Goto, TypeOK
    <3>2. QED
      BY <2>1, <2>3, <3>1 DEF PausedInv, NoAutosaveInArchive, TypeOK, BackupPcs
  <2>7. CASE Undo(t)
    <3>0. pc' = [pc EXCEPT ![t] = "idle"]
      BY <2>7, RconGoesOn
    <3>1. /\ pc[t] = "undo" /\ UNCHANGED <<paused, archive>>
          /\ torn' = [torn EXCEPT ![t] = {}]
          /\ pc'[t] = "idle"
      BY <2>7, <3>0 DEF Undo, GiveUp, TypeOK
    <3>2. QED
      BY <2>1, <2>3, <3>1 DEF PausedInv, NoAutosaveInArchive, TypeOK, BackupPcs
  <2>8. CASE Copy(t)
    <3>1. /\ pc[t] = "copy" /\ UNCHANGED <<paused, saving>>
          /\ torn' = [torn EXCEPT ![t] = {}]
          /\ pc'[t] = IF paused[t] THEN "save_on" ELSE "idle"
          /\ \/ archive' = [by |-> Kind(t), live |-> paused[t], torn |-> torn[t]]
             \/ archive' = archive
      BY <2>8 DEF Copy, Goto, TypeOK
    <3>2. NoAutosaveInArchive'
      BY <3>1 DEF PausedInv, NoAutosaveInArchive
    <3>3. \A u \in Backups \ {t} : pc'[u] = pc[u] /\ torn'[u] = torn[u]
      BY <2>1, <3>1 DEF TypeOK
    <3>4. torn'[t] = {} /\ (paused'[t] => pc'[t] = "save_on") /\ pc'[t] # "copy" /\ pc'[t] # "flush"
      BY <3>1 DEF TypeOK
    <3>5. QED
      BY <3>1, <3>2, <3>3, <3>4 DEF PausedInv
  <2>9. CASE SaveOn(t)
    <3>0. pc' = [pc EXCEPT ![t] = "idle"]
      BY <2>9, RconGoesOn
    <3>1. /\ pc[t] = "save_on" /\ UNCHANGED <<torn, archive>>
          /\ paused' = [paused EXCEPT ![t] = FALSE]
          /\ pc'[t] = "idle"
      BY <2>9, <3>0 DEF SaveOn, TypeOK
    <3>2. QED
      BY <2>1, <2>3, <3>1 DEF PausedInv, NoAutosaveInArchive, TypeOK, BackupPcs
  <2>10. QED
    BY <1>5, <2>2, <2>4, <2>5, <2>6, <2>7, <2>8, <2>9 DEF Proceed
<1>6. CASE UNCHANGED vars
  BY <1>6 DEF PausedInv, NoAutosaveInArchive, vars
<1>7. QED
  BY <1>1, <1>2, <1>3, <1>4, <1>5, <1>6 DEF Next

\* No autosave reaches the archive of a paused server that ran throughout, whatever
\* RCON loses and however many backups are asked for.
THEOREM PausedArchives == Spec => []NoAutosaveInArchive
<1>1. Init => PausedInv
  BY KindsApart DEF Init, PausedInv, Covered, NoAutosaveInArchive
<1>2. TypeOK /\ LockInv /\ PausedInv /\ [Next]_vars => PausedInv'
  BY PausedInductive
<1>3. PausedInv => NoAutosaveInArchive
  BY DEF PausedInv
<1>4. QED
  BY <1>1, <1>2, <1>3, LocksHeld, PTL DEF Spec

-----------------------------------------------------------------------------
(* Saving is restored.                                                       *)

\* A server that does not save has a backup on its way that will send save-on, or RCON
\* lost one that was sent.
Restores(t) == pc[t] \in {"flush", "undo", "save_on"} \/ (pc[t] = "copy" /\ paused[t])

SavesInv ==
    /\ server = "booting" => saving
    /\ saving \/ server = "down" \/ lost \/ \E t \in Backups : Restores(t)

LEMMA SavesInductive ==
    ASSUME TypeOK, LockInv, SavesInv, [Next]_vars
    PROVE  SavesInv'
<1> USE KindsApart
<1> USE DEF Restores
<1>1. CASE Boots \/ Autosaves \/ ServerExits \/ UNCHANGED vars
  BY <1>1 DEF SavesInv, Boots, Autosaves, ServerExits, vars
<1>2. ASSUME NEW c \in Control, ControlRequest(c) \/ Start(c) \/ Stop(c)
      PROVE  SavesInv'
  <2>1. (\A t \in Backups : pc'[t] = pc[t]) /\ paused' = paused
    BY <1>2 DEF ControlRequest, Start, Stop, Goto, TypeOK
  <2>2. \/ UNCHANGED <<server, saving, lost>>
        \/ server' = "booting" /\ saving'
        \/ server' = "down"
    BY <1>2 DEF ControlRequest, Start, Stop
  <2>3. QED
    BY <2>1, <2>2 DEF SavesInv
<1>3. ASSUME NEW t \in Backups, Request(t) \/ Proceed(t)
      PROVE  SavesInv'
  <2>1. server' = server /\ \A u \in Tasks \ {t} : pc'[u] = pc[u]
    BY <1>3, BackupMoves
  <2>2. CASE Request(t) \/ CheckStopped(t) \/ TakeBackupLock(t) \/ AskStatus(t) \/ MakeDirsRaises(t)
    <3>1. UNCHANGED <<paused, saving, lost>> /\ ~Restores(t)
      BY <2>2 DEF Request, CheckStopped, TakeBackupLock, AskStatus, MakeDirsRaises, GiveUp
    <3>2. QED
      BY <2>1, <3>1 DEF SavesInv
  <2>3. CASE SaveOff(t)
    <3>1. PICK where \in {"idle", "copy"} : Rcon(t, "flush", where, FALSE)
      BY <2>3 DEF SaveOff
    <3>2. \/ pc' = [pc EXCEPT ![t] = "flush"] /\ server = "up"
          \/ saving' = saving /\ (lost => lost')
          \/ server = "up" /\ lost'
      BY <3>1, RconEffect
    <3>3. pc[t] = "save_off" /\ paused' = paused
      BY <2>3 DEF SaveOff, GiveUp
    <3>4. CASE pc' = [pc EXCEPT ![t] = "flush"] /\ server = "up"
      <4>1. pc'[t] = "flush"
        BY <3>4 DEF TypeOK
      <4>2. QED
        BY <2>1, <3>4, <4>1 DEF SavesInv
    <3>5. CASE saving' = saving /\ (lost => lost')
      BY <2>1, <3>3, <3>5 DEF SavesInv
    <3>6. CASE server = "up" /\ lost'
      BY <2>1, <3>6 DEF SavesInv
    <3>7. QED
      BY <3>2, <3>4, <3>5, <3>6
  <2>4. CASE Flush(t)
    <3>1. Restores(t)' /\ UNCHANGED <<server, saving, lost>>
      BY <2>4 DEF Flush, Goto, TypeOK
    <3>2. QED
      BY <3>1 DEF SavesInv
  <2>5. CASE Undo(t) \/ SaveOn(t)
    <3>1. Rcon(t, "idle", "idle", TRUE) /\ pc[t] \in BackupPcs
      BY <2>5 DEF Undo, SaveOn, BackupPcs
    <3>2. \/ saving'
          \/ server = "up" /\ lost'
          \/ server # "up" /\ saving' = saving
      BY <3>1, RconEffect
    <3>3. QED
      BY <2>1, <3>2 DEF SavesInv, TypeOK
  <2>6. CASE Copy(t)
    <3>1. /\ pc[t] = "copy" /\ UNCHANGED <<paused, saving, lost>>
          /\ pc'[t] = IF paused[t] THEN "save_on" ELSE "idle"
      BY <2>6 DEF Copy, Goto, TypeOK
    <3>2. Restores(t) => Restores(t)'
      BY <3>1
    <3>3. QED
      BY <2>1, <3>1, <3>2 DEF SavesInv
  <2>7. QED
    BY <1>3, <2>2, <2>3, <2>4, <2>5, <2>6 DEF Proceed
<1>4. QED
  BY <1>1, <1>2, <1>3 DEF Next

\* Whatever RCON loses and however many tasks there are, a server that runs when no
\* backup is on its way saves its world, also when it was stopped or started in the
\* middle of one; but for a save-on that RCON lost, or the answer of a save-off.
THEOREM SavingRestored == Spec => []SavesRestored
<1>1. Init => SavesInv
  BY DEF Init, SavesInv
<1>2. TypeOK /\ LockInv /\ SavesInv /\ [Next]_vars => SavesInv'
  BY SavesInductive
<1>3. SavesInv => SavesRestored
  BY DEF SavesInv, SavesRestored, Restores
<1>4. QED
  BY <1>1, <1>2, <1>3, LocksHeld, PTL DEF Spec
=============================================================================
