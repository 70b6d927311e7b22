------------------------------ MODULE Settings ------------------------------
(***************************************************************************)
(* The configuration files of the bot and the programs that rewrite them:  *)
(* scripts/manage_servers.py (add a local server, change its software),    *)
(* scripts/manage_remote_servers.py (add a server reached over SSH),       *)
(* scripts/remove_server.py, scripts/manage_users.py, and the bot, which   *)
(* reads all of them when it starts and rewrites the automation files      *)
(* while it runs (services/server_registry.py, services/access_control.py).*)
(*                                                                         *)
(* No lock protects the files.  A program reads them, asks its operator,   *)
(* compares them with what it read, and replaces them one at a time; what  *)
(* was replaced is put back when a later replacement fails.                *)
(*                                                                         *)
(* A file is a value: .env is the default server and the RCON secrets,     *)
(* users.json gives each user either a legacy global role or a set of      *)
(* servers, servers.json is a sequence of entries, and the                 *)
(* server.properties of an installation, which is called by the id the     *)
(* wizards give it, is its RCON secret.  Every user has one permission or  *)
(* none.  The two automation files, which every program treats alike, are  *)
(* one, "tasks": the set of servers it mentions.                           *)
(*                                                                         *)
(* Faults says what may go wrong:                                          *)
(*   "disk"       a copy, a replacement or a rollback raises OSError;      *)
(*   "link"       an SSH request raises, whether or not it was obeyed;     *)
(*   "kill"       a program ends between two steps (Ctrl-C included);      *)
(*   "nodefault"  .env holds no DEFAULT_SERVER_ID, only SERVER_ID.         *)
(***************************************************************************)
EXTENDS Naturals, Sequences

CONSTANTS Terminals,   \* how many programs run at a time
          Users,       \* Telegram users that are not owners
          Ids,         \* server ids, each the name of one installation
          NoId,        \* no server
          Remote,      \* the installations reached over SSH
          ServerId,    \* SERVER_ID in .env
          Secrets,     \* RCON passwords
          NoSecret,    \* no RCON password
          MaxOpened,   \* bound: programs started and decisions made in an editor
          Faults       \* what may go wrong

ASSUME SettingsAssumption ==
    /\ NoId \notin Ids /\ Remote \subseteq Ids /\ ServerId \in Ids \ Remote
    /\ Ids \cap {"env", "users", "tasks", "servers"} = {}   \* files of the bot
    /\ NoSecret \notin Secrets /\ Terminals \in Nat /\ MaxOpened \in Nat
    /\ Faults \subseteq {"disk", "link", "kill", "nodefault"}

VARIABLES disk,      \* the contents of every file
          sess,      \* the program each terminal runs
          bot,       \* what the running bot holds in memory
          opened,    \* how many programs were started and decisions made
          granted,   \* history: the rights the owners decided
          lost,      \* history: a replacement destroyed an edit its author never read
          race,      \* history: a file was written inside another program's window
          torn,      \* history: a program ended with only some of its files written
          unseen     \* history: a program went on what it had read of a file that
                     \* changed since, and that it did not compare or rewrite

files == <<disk, sess, bot, opened>>
history == <<granted, lost, race, torn, unseen>>
setVars == <<files, history>>

Files == {"env", "users", "tasks", "servers"} \cup Ids

(* Server, user and automation records as the programs see them *)

Registered(servers) == {servers[i].id : i \in DOMAIN servers}

Position(servers, s) == CHOOSE i \in DOMAIN servers : servers[i].id = s

\* The bot's DEFAULT_SERVER_ID: the variable, else SERVER_ID.
DefaultId(env) == IF env.default = NoId THEN ServerId ELSE env.default

\* The user editor's default: the variable, else the first server of the file.
EditorDefault(env, servers) ==
    IF env.default = NoId THEN servers[1].id ELSE env.default

\* A legacy role holds on the default server only, a server map where it says.
PermissionsForServer(user, default, s) ==
    IF user.legacy THEN s = default ELSE s \in user.on

Rights(d) ==
    {r \in Users \X Registered(d["servers"]) :
        PermissionsForServer(d["users"][r[1]], DefaultId(d["env"]), r[2])}

\* The registry the bot builds: it refuses to start without its default.
Starts(d) == DefaultId(d["env"]) \in Registered(d["servers"])

Nobody == [legacy |-> FALSE, on |-> {}]

MigrateLegacyUser(user, default) ==
    IF user.legacy THEN [legacy |-> FALSE, on |-> {default}] ELSE user

(* Programs *)

Change(f, old, new) == [file |-> f, old |-> old, new |-> new]

\* What does not change is neither compared nor replaced.
Changed(c) == IF c.old # c.new THEN <<c>> ELSE <<>>

Same(c) == IF c.old = c.new THEN <<c>> ELSE <<>>

Read(f) == Change(f, disk[f], disk[f])

NoAsk == [give |-> FALSE, pairs |-> {}]

Idle == [pc |-> "idle", job |-> "none", id |-> NoId, seen |-> <<>>,
         default |-> NoId, plan |-> <<>>, reads |-> <<>>, done |-> 0, tried |-> 0,
         ask |-> NoAsk, left |-> {}]

\* The first change of a remote server's plan is made by the agent, over SSH.
FirstLocal(x) == IF sess[x].job = "add" /\ sess[x].id \in Remote THEN 2 ELSE 1

Touched(x) == {sess[x].plan[i].file : i \in DOMAIN sess[x].plan}
                  \cup {sess[x].reads[i].file : i \in DOMAIN sess[x].reads}

\* Between the first comparison with the originals, an agent's included, and the last
\* replacement.
InWindow(x) == \/ sess[x].pc \in {"configuring", "write", "undo", "reread", "unconfigure",
                                   "unconfiguring"}
               \/ sess[x].pc = "check" /\ sess[x].done = 1

Step(x, change) ==
    sess' = [sess EXCEPT ![x] = [f \in DOMAIN @ |->
                IF f \in DOMAIN change THEN change[f] ELSE @[f]]]

\* Programs are numbered from the first free terminal on.
Free(x) == /\ sess[x].pc = "idle" /\ opened < MaxOpened
           /\ \A y \in 1..(x - 1) : sess[y].pc # "idle"

\* Replace file f; x is the terminal that does it, or 0 for the bot.
Replace(x, f, content) ==
    /\ disk' = [disk EXCEPT ![f] = content]
    /\ race' = (race \/ \E y \in (1..Terminals) \ {x} : InWindow(y) /\ f \in Touched(y))

-----------------------------------------------------------------------------
(* A configuration that works: two local servers with their automation, the  *)
(* first one the default, the second one named by SERVER_ID; their RCON      *)
(* secrets are known, and a hand-edited servers.json may let them share one  *)
(* variable.  The default is not written when Faults says so.                *)

Init ==
    /\ \E a \in Ids \ (Remote \cup {ServerId}), secret \in Secrets,
          legacy \in BOOLEAN, shared \in BOOLEAN :
        LET reg == {a, ServerId}
            key == IF shared THEN a ELSE ServerId
            env == [default |-> IF "nodefault" \in Faults THEN NoId ELSE a,
                    key |-> [k \in Ids |-> IF k \in {a, key} THEN secret ELSE NoSecret]] IN
        /\ disk = [f \in Files |->
             CASE f = "env" -> env
               [] f = "users" -> [u \in Users |->
                                    [legacy |-> legacy, on |-> IF legacy THEN {} ELSE reg]]
               [] f = "servers" -> <<[id |-> a, key |-> a, mods |-> TRUE],
                                     [id |-> ServerId, key |-> key, mods |-> TRUE]>>
               [] f = "tasks" -> reg
               [] OTHER -> IF f \in reg THEN secret ELSE NoSecret]
    /\ sess = [x \in 1..Terminals |-> Idle]
    /\ bot = [reg |-> {}, tasks |-> {}]
    /\ opened = 0
    /\ granted = Rights(disk)
    /\ lost = FALSE /\ race = FALSE /\ torn = FALSE /\ unseen = FALSE

-----------------------------------------------------------------------------
(* The wizard of manage_servers.py: servers.json and the variables of .env are *)
(* read first, the questions are asked, the other files are read, and the      *)
(* changes are staged for the operator's confirmation.                         *)

Open(x) ==
    /\ Free(x) /\ opened' = opened + 1
    /\ \E job \in {"add", "software", "remove"}, s \in Ids :
        LET seen == disk["servers"] IN
        /\ job = "add" => /\ s \notin Registered(seen)
                          /\ \A i \in DOMAIN seen : seen[i].key # s
        /\ job # "add" => s \in Registered(seen)
        /\ job = "remove" => Len(seen) > 1
        /\ Step(x, [pc |-> "asked", job |-> job, id |-> s, seen |-> seen,
                    default |-> DefaultId(disk["env"])])
    /\ UNCHANGED <<disk, bot, history>>

\* The installation keeps its secret, or gets one that nobody else has.
Choices(s) == (Secrets \ {disk[t] : t \in Ids}) \cup ({disk[s]} \ {NoSecret})

UpdateEnv(env, s, secret) == [env EXCEPT !.key[s] = secret]

BuildEntry(s) == [id |-> s, key |-> s, mods |-> TRUE]

\* The changes that both ways of adding a server make: the installation's secret,
\* the variable of .env and the entry of servers.json.
Properties(x, secret) == Change(sess[x].id, disk[sess[x].id], secret)
Variable(x, secret) == Change("env", disk["env"], UpdateEnv(disk["env"], sess[x].id, secret))
NewEntry(x) == Change("servers", sess[x].seen, Append(sess[x].seen, BuildEntry(sess[x].id)))

StageAdd(x) ==
    /\ sess[x].pc = "asked" /\ sess[x].job = "add" /\ sess[x].id \notin Remote
    /\ \E secret \in Choices(sess[x].id) :
        LET props == Properties(x, secret)
            env == Variable(x, secret) IN
        Step(x, [pc |-> "check", plan |-> Changed(props) \o Changed(env) \o <<NewEntry(x)>>,
                 reads |-> Same(props) \o Same(env)])
    /\ UNCHANGED <<disk, bot, opened, history>>

\* The remote wizard probes the installation over SSH; its server.properties is not
\* among the files that are replaced locally, and is sent also when it is the same.
StageRemote(x) ==
    /\ sess[x].pc = "asked" /\ sess[x].job = "add" /\ sess[x].id \in Remote
    /\ \E secret \in Choices(sess[x].id) :
        LET env == Variable(x, secret) IN
        Step(x, [pc |-> "configure",
                 plan |-> <<Properties(x, secret)>> \o Changed(env) \o <<NewEntry(x)>>,
                 reads |-> Same(env)])
    /\ UNCHANGED <<disk, bot, opened, history>>

EditExistingSoftware(x) ==
    /\ sess[x].pc = "asked" /\ sess[x].job = "software"
    /\ LET seen == sess[x].seen
           i == Position(seen, sess[x].id) IN
       Step(x, [pc |-> "check",
                plan |-> <<Change("servers", seen, [seen EXCEPT ![i].mods = ~@])>>])
    /\ UNCHANGED <<disk, bot, opened, history>>

\* Mutant: only policies of a server map are removed.
LegacyRolesKept(user, s, moved) == [user EXCEPT !.on = @ \ {s}]

\* Mutant: only legacy roles are removed.
PoliciesKept(user, s, moved) == IF user.legacy /\ moved THEN Nobody ELSE user

\* Roles of the old default are dropped when the default moves.
RemoveServerPermissions(user, s, moved) ==
    IF user.legacy /\ moved THEN Nobody ELSE [user EXCEPT !.on = @ \ {s}]

\* Mutant: another server's password is removed with this one's.
SharedKeyRemoved(env, entry, remaining, old, new) ==
    [default |-> IF new = old THEN env.default ELSE new,
     key |-> [env.key EXCEPT ![entry.key] = NoSecret]]

\* The variable goes with its last server, and the default with its server.
EnvWithout(env, entry, remaining, old, new) ==
    LET shared == \E i \in DOMAIN remaining : remaining[i].key = entry.key
        keys == IF shared THEN env.key ELSE [env.key EXCEPT ![entry.key] = NoSecret] IN
    [default |-> IF new = old THEN env.default ELSE new, key |-> keys]

RemoveServerState(tasks, s) == tasks \ {s}

\* Mutant: servers.json is replaced first.
ServersFirst(env, users, tasks, servers) ==
    Changed(servers) \o Changed(env) \o Changed(users) \o Changed(tasks)

RemovalOrder(env, users, tasks, servers) ==
    Changed(env) \o Changed(users) \o Changed(tasks) \o Changed(servers)

StageRemoval(x) ==
    /\ sess[x].pc = "asked" /\ sess[x].job = "remove"
    /\ LET s == sess[x].id
           seen == sess[x].seen
           i == Position(seen, s)
           remaining == SubSeq(seen, 1, i - 1) \o SubSeq(seen, i + 1, Len(seen))
           old == sess[x].default IN
       \E new \in Registered(remaining) :
        LET env == Change("env", disk["env"],
                          EnvWithout(disk["env"], seen[i], remaining, old, new))
            users == Change("users", disk["users"],
                        [u \in Users |->
                            RemoveServerPermissions(disk["users"][u], s, new # old)])
            tasks == Change("tasks", disk["tasks"], RemoveServerState(disk["tasks"], s))
            servers == Change("servers", seen, remaining) IN
        /\ old \in Registered(remaining) => new = old
        /\ Step(x, [pc |-> "check", plan |-> RemovalOrder(env, users, tasks, servers),
                    reads |-> Same(env) \o Same(users) \o Same(tasks),
                    ask |-> [give |-> FALSE, pairs |-> Users \X {s}]])
    /\ unseen' = (unseen \/ sess[x].default # DefaultId(disk["env"]))
    /\ UNCHANGED <<disk, bot, opened, granted, lost, race, torn>>

\* The operator leaves a menu, or declines the preview.
Cancel(x) ==
    /\ \/ sess[x].pc \in {"asked", "editing", "configure"}
       \/ sess[x].pc = "check" /\ sess[x].done = 0
    /\ sess' = [sess EXCEPT ![x] = Idle]
    /\ UNCHANGED <<disk, bot, opened, history>>

-----------------------------------------------------------------------------
(* apply_files and atomic_save.                                                *)

\* An attempt that has written nothing locally ends; what the agent wrote over
\* SSH before is taken back first.
Refuse(x) ==
    IF sess[x].done = 1 /\ FirstLocal(x) = 2
    THEN Step(x, [pc |-> "unconfigure", tried |-> 1])
    ELSE sess' = [sess EXCEPT ![x] = Idle]

\* Mutant: the originals are not compared.
Unchecked(x) == TRUE

Unchanged(x) ==
    \A i \in FirstLocal(x)..Len(sess[x].plan) :
        disk[sess[x].plan[i].file] = sess[x].plan[i].old

Outdated(x) ==
    \E i \in DOMAIN sess[x].reads : disk[sess[x].reads[i].file] # sess[x].reads[i].old

\* The originals are compared, and their copies saved.
Check(x) ==
    /\ sess[x].pc = "check"
    /\ IF Unchanged(x)
       THEN Step(x, [pc |-> "write"]) /\ unseen' = (unseen \/ Outdated(x))
       ELSE Refuse(x) /\ UNCHANGED unseen
    /\ UNCHANGED <<disk, bot, opened, granted, lost, race, torn>>

\* A copy cannot be saved, in a folder that is full or a symbolic link.
CopyRaises(x) ==
    /\ sess[x].pc = "check" /\ "disk" \in Faults
    /\ Unchanged(x) /\ Refuse(x)
    /\ UNCHANGED <<disk, bot, opened, history>>

Write(x) ==
    LET change == sess[x].plan[sess[x].done + 1]
        ask == sess[x].ask
        last == sess[x].done + 1 = Len(sess[x].plan) IN
    /\ sess[x].pc = "write"
    /\ Replace(x, change.file, change.new)
    /\ lost' = (lost \/ disk[change.file] # change.old)
    /\ IF ~last THEN Step(x, [done |-> sess[x].done + 1])
       ELSE IF sess[x].job = "users" THEN Step(x, [pc |-> "reread", ask |-> NoAsk])
       ELSE sess' = [sess EXCEPT ![x] = Idle]
    /\ granted' = IF ~last THEN granted
                  ELSE IF ask.give THEN granted \cup ask.pairs ELSE granted \ ask.pairs
    /\ UNCHANGED <<bot, opened, torn, unseen>>

\* Mutant: a file enters the list `written` only when the next one is replaced.
WrittenLate(x) == sess[x].done - 1

\* How many files apply_files has in its list `written`.
Written(x) == sess[x].done

WriteRaises(x) ==
    /\ sess[x].pc = "write" /\ "disk" \in Faults
    /\ Step(x, [pc |-> "undo", done |-> Written(x), tried |-> sess[x].done])
    /\ UNCHANGED <<disk, bot, opened, history>>

Undo(x) ==
    LET change == sess[x].plan[sess[x].done] IN
    /\ sess[x].pc = "undo" /\ sess[x].done >= FirstLocal(x)
    /\ Replace(x, change.file, change.old)
    /\ lost' = (lost \/ disk[change.file] # change.new)
    /\ Step(x, [done |-> sess[x].done - 1])
    /\ UNCHANGED <<bot, opened, granted, torn, unseen>>

\* The rollback of one file fails; the others are still rolled back.
UndoRaises(x) ==
    /\ sess[x].pc = "undo" /\ sess[x].done >= FirstLocal(x)
    /\ "disk" \in Faults
    /\ Step(x, [done |-> sess[x].done - 1,
                left |-> sess[x].left \cup {sess[x].plan[sess[x].done].file}])
    /\ torn' = TRUE
    /\ UNCHANGED <<disk, bot, opened, granted, lost, race, unseen>>

Undone(x) ==
    /\ sess[x].pc = "undo" /\ sess[x].done < FirstLocal(x)
    /\ IF sess[x].done = 1 THEN Step(x, [pc |-> "unconfigure"])
       ELSE sess' = [sess EXCEPT ![x] = Idle]
    /\ UNCHANGED <<disk, bot, opened, history>>

-----------------------------------------------------------------------------
(* configure_properties: before it applies the local files the remote wizard   *)
(* has an agent change server.properties, and has it changed back when that    *)
(* fails.  Unlike the agent's other operations this one runs outside the file  *)
(* lock of its host: the comparison and the replacement are two steps, and     *)
(* another wizard's agent may come between them.                               *)

\* The change that was sent, or, after a failure, the one that takes it back.
ConfigureRequest(x) ==
    LET change == sess[x].plan[1] IN
    IF sess[x].pc \in {"configure", "configuring"} THEN change
    ELSE Change(change.file, change.new, change.old)

AgentCompares(x) ==
    /\ sess[x].pc \in {"configure", "unconfigure"}
    /\ LET request == ConfigureRequest(x) IN disk[request.file] = request.old
    /\ Step(x, [pc |-> IF sess[x].pc = "configure" THEN "configuring" ELSE "unconfiguring"])
    /\ UNCHANGED <<disk, bot, opened, history>>

\* An agent outlives the connection it came on, and the wizard: the terminal stays taken
\* until the agent is done, and the wizard's attempt has ended halfway.
AgentReplaces(x) ==
    LET request == ConfigureRequest(x) IN
    /\ sess[x].pc \in {"configuring", "unconfiguring"}
    /\ Replace(x, request.file, request.new)
    /\ lost' = (lost \/ disk[request.file] # request.old)
    /\ \/ /\ sess[x].pc = "configuring"
          /\ Step(x, [pc |-> "check", done |-> 1])
          /\ UNCHANGED torn
       \/ /\ sess[x].pc = "configuring" /\ Faults \cap {"link", "kill"} # {}
          /\ sess' = [sess EXCEPT ![x] = Idle]
          /\ torn' = TRUE
       \/ /\ sess[x].pc = "unconfiguring"
          /\ sess' = [sess EXCEPT ![x] = Idle]
          /\ UNCHANGED torn
    /\ UNCHANGED <<bot, opened, granted, unseen>>

\* The file is another one, the temporary file of another agent, or of one that was
\* killed, is in the way (O_EXCL), it cannot be written, or the request or its answer
\* is lost.
AgentRaises(x) ==
    LET request == ConfigureRequest(x) IN
    /\ sess[x].pc \in {"configure", "configuring", "unconfigure", "unconfiguring"}
    /\ \/ Faults \cap {"link", "kill", "disk"} # {}
       \/ sess[x].pc \in {"configure", "unconfigure"} /\ disk[request.file] # request.old
       \/ /\ sess[x].pc \in {"configuring", "unconfiguring"}
          /\ \E y \in (1..Terminals) \ {x} : /\ sess[y].pc \in {"configuring", "unconfiguring"}
                                             /\ sess[y].id = sess[x].id
    /\ sess' = [sess EXCEPT ![x] = Idle]
    /\ torn' = (torn \/ sess[x].pc \in {"unconfigure", "unconfiguring"})
    /\ UNCHANGED <<disk, bot, opened, granted, lost, race, unseen>>

-----------------------------------------------------------------------------
(* manage_users.py: users.json and servers.json are read once; every decision  *)
(* is saved at once, and a failed save ends the editor.                        *)

OpenEditor(x) ==
    LET servers == disk["servers"]
        default == EditorDefault(disk["env"], servers) IN
    /\ Free(x) /\ opened' = opened + 1
    /\ default \in Registered(servers)
    /\ Step(x, [pc |-> "editing", job |-> "users", seen |-> servers, default |-> default,
                plan |-> <<Read("users")>>, reads |-> <<Read("env"), Read("servers")>>])
    /\ UNCHANGED <<disk, bot, history>>

Remember(x, config, save, ask) ==
    Step(x, [pc |-> IF save THEN "check" ELSE "editing",
             plan |-> <<Change("users", sess[x].plan[1].old, config)>>, ask |-> ask])

\* A policy is given or taken; the legacy role becomes a server map first.
ApplyPolicy(user, s, give, default) ==
    LET migrated == MigrateLegacyUser(user, default) IN
    [migrated EXCEPT !.on = IF give THEN @ \cup {s} ELSE @ \ {s}]

\* What an answer in the menu of one user changes in the editor's memory, and whether
\* it is saved.
EditUser(x) ==
    LET config == sess[x].plan[1].new IN
    /\ sess[x].pc = "editing" /\ opened < MaxOpened
    /\ opened' = opened + 1
    /\ \E u \in Users, s \in Registered(sess[x].seen), give \in BOOLEAN :
        LET before == MigrateLegacyUser(config[u], sess[x].default)
            after == ApplyPolicy(config[u], s, give, sess[x].default) IN
        Remember(x, [config EXCEPT ![u] = after], after # before,
                 [give |-> give, pairs |-> {<<u, s>>}])
    /\ UNCHANGED <<disk, bot, history>>

\* A user is deleted, or renamed, which concerns no right.
DeleteOrRename(x) ==
    LET config == sess[x].plan[1].new IN
    /\ sess[x].pc = "editing" /\ opened < MaxOpened
    /\ opened' = opened + 1
    /\ \/ \E u \in Users : Remember(x, [config EXCEPT ![u] = Nobody], TRUE,
                                    [give |-> FALSE, pairs |-> {u} \X Ids])
       \/ Remember(x, config, TRUE, NoAsk)
    /\ UNCHANGED <<disk, bot, history>>

\* After a save the editor reads the file again, to compare with next time.
Reread(x) ==
    /\ sess[x].pc = "reread"
    /\ Step(x, [pc |-> "editing",
                plan |-> <<Change("users", disk["users"], sess[x].plan[1].new)>>])
    /\ UNCHANGED <<disk, bot, opened, history>>

-----------------------------------------------------------------------------
(* The bot.                                                                    *)

\* It reads the files when it starts, and ends there without its default.
BotStart ==
    /\ Starts(disk) /\ opened < MaxOpened
    /\ opened' = opened + 1
    /\ bot' = [reg |-> Registered(disk["servers"]), tasks |-> disk["tasks"]]
    /\ UNCHANGED <<disk, sess, history>>

\* A user sets the automation of a server: the file becomes the bot's memory.
BotSaves ==
    /\ \E s \in bot.reg :
        LET tasks == bot.tasks \cup {s} IN
        /\ bot' = [bot EXCEPT !.tasks = tasks]
        /\ Replace(0, "tasks", tasks)
        /\ unseen' = (unseen \/ ~(tasks \subseteq Registered(disk["servers"])))
    /\ UNCHANGED <<sess, opened, granted, lost, torn>>

-----------------------------------------------------------------------------
(* A program ends in the middle: nothing rolls back.                           *)
Kill(x) ==
    /\ "kill" \in Faults
    /\ InWindow(x)
    /\ torn' = (torn \/ (sess[x].pc # "reread" /\ sess[x].done > 0))
    /\ sess' = [sess EXCEPT ![x] = Idle]
    /\ UNCHANGED <<disk, bot, opened, granted, lost, race, unseen>>

Next ==
    \/ \E x \in 1..Terminals :
        \/ Open(x) \/ StageAdd(x) \/ StageRemote(x) \/ EditExistingSoftware(x)
        \/ StageRemoval(x) \/ Cancel(x)
        \/ Check(x) \/ CopyRaises(x) \/ Write(x) \/ WriteRaises(x)
        \/ Undo(x) \/ UndoRaises(x) \/ Undone(x)
        \/ AgentCompares(x) \/ AgentReplaces(x) \/ AgentRaises(x)
        \/ OpenEditor(x) \/ EditUser(x) \/ DeleteOrRename(x) \/ Reread(x)
        \/ Kill(x)
    \/ BotStart \/ BotSaves

Spec == Init /\ [][Next]_setVars

-----------------------------------------------------------------------------
(* Properties.                                                                 *)

\* A user or an automation still speaks of server s.
Mentioned(s) == s \in disk["tasks"] \/ \E u \in Users : s \in disk["users"][u].on

Quiet == \A x \in 1..Terminals : ~InWindow(x)

(* Types. *)
TypeOK ==
    /\ disk["env"] \in [default : Ids \cup {NoId}, key : [Ids -> Secrets \cup {NoSecret}]]
    /\ disk["users"] \in [Users -> [legacy : BOOLEAN, on : SUBSET Ids]]
    /\ disk["servers"] \in Seq([id : Ids, key : Ids, mods : BOOLEAN])
    /\ disk["tasks"] \subseteq Ids
    /\ \A s \in Ids : disk[s] \in Secrets \cup {NoSecret}
    /\ \A x \in 1..Terminals :
        /\ sess[x].pc \in {"idle", "asked", "editing", "configure", "configuring", "check",
                           "write", "undo", "reread", "unconfigure", "unconfiguring"}
        /\ {sess[x].done, sess[x].tried} \subseteq 0..Len(sess[x].plan)
        /\ Touched(x) \subseteq Files /\ sess[x].left \subseteq Files
    /\ bot.reg \subseteq Ids /\ bot.tasks \subseteq Ids
    /\ granted \subseteq Users \X Ids
    /\ {lost, race, torn, unseen} \subseteq BOOLEAN

(* The comparison before writing does its work: a program destroys an edit it *)
(* has not read only when another one wrote inside its window, between the    *)
(* comparison and its last replacement (manage_users.py:132, "Refuse          *)
(* concurrent edits"; manage_servers.py:209, "Check originals").              *)
EditsKept == lost => race

(* When a replacement fails, every local file that was replaced before is as  *)
(* it was again, but for those the program says it could not roll back        *)
(* (manage_servers.py:211, "failure rolls back earlier changes").             *)
RolledBack ==
    \A x \in 1..Terminals :
        sess[x].pc = "undo" /\ sess[x].done < FirstLocal(x) =>
            race \/ \A i \in FirstLocal(x)..sess[x].tried :
                        LET c == sess[x].plan[i] IN
                        c.file \in sess[x].left \/ disk[c.file] = c.old

(* No user of a bot started now has a right on a server that no owner gave    *)
(* him: a legacy role never moves to another server, and a server registered  *)
(* anew under an old id starts with nobody (manage_users.py:167, "without     *)
(* widening access"; remove_server.py:67; README.md:107).  Not promised after *)
(* an attempt that ended halfway, nor when two programs wrote at once, nor    *)
(* when a right was given while its server was being removed.                 *)
NoWidening == Quiet => race \/ torn \/ unseen \/ Rights(disk) \subseteq granted

(* Whatever was applied, killed or rolled back, the bot can start: its        *)
(* default server is registered and the registry is not empty                 *)
(* (server_registry.py:109, README.md:265, "must exist in the registry").     *)
DefaultRegistered == race \/ unseen \/ Starts(disk)

(* The RCON secret of every registered server is in .env and is the one its   *)
(* server.properties holds: three files agree whenever no program is between  *)
(* two of them (manage_servers.py:5, "Updates ... together").                 *)
RconReachable ==
    Quiet => \/ race \/ torn \/ unseen
             \/ \A i \in DOMAIN disk["servers"] :
                  LET e == disk["servers"][i] IN
                  disk["env"].key[e.key] = disk[e.id] /\ disk[e.id] # NoSecret

(* A server that is not registered has left nothing behind: no policy, no     *)
(* automation that a server of the same id would inherit (README_RU.md:121),  *)
(* unless a program that read the files before spoke of it afterwards.        *)
Forgotten ==
    Quiet => \/ race \/ torn \/ unseen
             \/ \A s \in Ids \ Registered(disk["servers"]) : ~Mentioned(s)
=============================================================================
