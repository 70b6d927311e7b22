-------------------------- MODULE Settings_proofs --------------------------
(***************************************************************************)
(* Every invariant of Settings, for every number of terminals, users,      *)
(* servers and secrets, and every choice of faults; that no right widens   *)
(* supposes that .env holds the default server (README.md, section 5).     *)
(*                                                                         *)
(* A staged plan is a list of changes whose files differ; what it promises *)
(* (Jobs) does not depend on the files any more.  While a program is in    *)
(* its window and nobody has raced with it, the files of its plan are      *)
(* where its counter says (Windows).  What the configuration promises is   *)
(* then proved file by file, together with what is needed to come back to: *)
(* a removal under way remembers that what it read was right too.          *)
(***************************************************************************)
EXTENDS Settings, TLAPS

-----------------------------------------------------------------------------
(* Types.                                                                    *)

Fields == {"pc", "job", "id", "seen", "default", "plan", "reads", "done", "tried",
           "ask", "left"}

Envs == [default : IF "nodefault" \in Faults THEN Ids \cup {NoId} ELSE Ids,
         key : [Ids -> Secrets \cup {NoSecret}]]

People == [Users -> [legacy : BOOLEAN, on : SUBSET Ids]]

Entries == [id : Ids, key : Ids, mods : BOOLEAN]

\* The entries of a registry differ in their ids.
Lists == {servers \in Seq(Entries) :
             \A i, j \in DOMAIN servers : servers[i].id = servers[j].id => i = j}

\* What a file may hold.
Holds(f, v) ==
    /\ f = "env" => v \in Envs
    /\ f = "users" => v \in People
    /\ f = "tasks" => v \subseteq Ids
    /\ f = "servers" => v \in Lists
    /\ f \in Ids => v \in Secrets \cup {NoSecret}

ChangeOK(c) == c.file \in Files /\ Holds(c.file, c.old) /\ Holds(c.file, c.new)

PlanOK(plan) ==
    /\ Len(plan) \in Nat /\ DOMAIN plan = 1..Len(plan)
    /\ \A i \in 1..Len(plan) : ChangeOK(plan[i])

\* The files of a plan and of what was only read all differ.
Apart(plan, reads) ==
    /\ \A i, j \in 1..Len(plan) : plan[i].file = plan[j].file => i = j
    /\ \A i, j \in 1..Len(reads) : reads[i].file = reads[j].file => i = j
    /\ \A i \in 1..Len(plan), j \in 1..Len(reads) : plan[i].file # reads[j].file
    /\ \A j \in 1..Len(reads) : reads[j].old = reads[j].new

SessionOK(r) ==
    /\ DOMAIN r = Fields
    /\ r.pc \in {"idle", "asked", "editing", "configure", "configuring", "check", "write",
                 "undo", "reread", "unconfigure", "unconfiguring"}
    /\ r.job \in {"none", "add", "software", "remove", "users"}
    /\ r.id \in Ids \cup {NoId} /\ r.seen \in Lists /\ r.default \in Ids \cup {NoId}
    /\ PlanOK(r.plan) /\ PlanOK(r.reads) /\ Apart(r.plan, r.reads)
    /\ r.done \in 0..Len(r.plan) /\ r.tried \in 0..Len(r.plan)
    /\ r.ask.give \in BOOLEAN /\ r.ask.pairs \subseteq Users \X Ids
    /\ r.left \subseteq Files

Typed ==
    /\ disk = [f \in Files |-> disk[f]] /\ \A f \in Files : Holds(f, disk[f])
    /\ sess = [x \in 1..Terminals |-> sess[x]]
    /\ \A x \in 1..Terminals : SessionOK(sess[x])
    /\ bot.reg \subseteq Ids /\ bot.tasks \subseteq Ids
    /\ bot = [reg |-> bot.reg, tasks |-> bot.tasks]
    /\ granted \subseteq Users \X Ids
    /\ lost \in BOOLEAN /\ race \in BOOLEAN /\ torn \in BOOLEAN /\ unseen \in BOOLEAN

-----------------------------------------------------------------------------
(* What a staged plan promises.                                              *)

Changes(plan, reads) ==
    {plan[i] : i \in DOMAIN plan} \cup {reads[i] : i \in DOMAIN reads}

FilesOf(plan, reads) == {c.file : c \in Changes(plan, reads)}

\* The contents of file f as the program read it, and as the program leaves it.
Old(plan, reads, f) == (CHOOSE c \in Changes(plan, reads) : c.file = f).old
New(plan, reads, f) == (CHOOSE c \in Changes(plan, reads) : c.file = f).new

OldOf(r, f) == Old(r.plan, r.reads, f)
NewOf(r, f) == New(r.plan, r.reads, f)

IsRemote(r) == r.job = "add" /\ r.id \in Remote

\* An agent is asked to change server.properties, or is at it.
AgentPcs == {"configure", "configuring", "unconfigure", "unconfiguring"}

\* The counter, at each step of a program.
Counted(r) ==
    LET first == IF IsRemote(r) THEN 1 ELSE 0 IN
    /\ r.pc = "idle" => r.job = "none" /\ r.ask = NoAsk
    /\ r.pc \in {"idle", "asked"} => r.plan = <<>> /\ r.reads = <<>> /\ r.ask = NoAsk
    /\ r.pc \in {"idle", "asked", "editing", "configure", "configuring", "reread"} => r.done = 0
    /\ r.pc \in {"asked", "check", "write", "undo"} \cup AgentPcs => r.job # "none"
    /\ r.pc \in AgentPcs => IsRemote(r)
    /\ r.pc \in {"editing", "reread"} => r.job = "users"
    /\ r.pc = "asked" => r.job # "users"
    /\ r.pc \in {"unconfigure", "unconfiguring"} => r.done = 1
    /\ r.pc = "check" => r.done = first
    /\ r.pc = "write" => first <= r.done /\ r.done < Len(r.plan)
    /\ r.pc = "undo" => first <= r.done /\ r.done <= r.tried /\ r.tried < Len(r.plan)

Staged(r) == r.pc \notin {"idle", "asked"}

LastIs(r, f) == Len(r.plan) > 0 /\ r.plan[Len(r.plan)].file = f

\* A server is added under an id and a variable that no entry read has.
Fresh(r) == /\ r.id \in Ids \ Registered(r.seen)
            /\ \A i \in DOMAIN r.seen : r.seen[i].key # r.id

AddOK(r) ==
    /\ FilesOf(r.plan, r.reads) = {"env", "servers", r.id}
    /\ LastIs(r, "servers") /\ r.ask = NoAsk
    /\ OldOf(r, "servers") = r.seen
    /\ NewOf(r, "servers") = Append(r.seen, BuildEntry(r.id))
    /\ NewOf(r, "env") = UpdateEnv(OldOf(r, "env"), r.id, NewOf(r, r.id))
    /\ NewOf(r, r.id) \in Secrets
    /\ r.id \in Remote => r.plan[1].file = r.id /\ Len(r.plan) > 1

SoftwareOK(r) ==
    LET new == NewOf(r, "servers") IN
    /\ FilesOf(r.plan, r.reads) = {"servers"} /\ LastIs(r, "servers")
    /\ Len(r.plan) = 1 /\ r.ask = NoAsk
    /\ OldOf(r, "servers") = r.seen
    /\ DOMAIN new = DOMAIN r.seen
    /\ \A i \in DOMAIN new : new[i].id = r.seen[i].id /\ new[i].key = r.seen[i].key

\* New(servers) is what remains of seen without r.id.
RemoveOK(r) ==
    LET env == NewOf(r, "env")
        before == OldOf(r, "env")
        remaining == NewOf(r, "servers") IN
    /\ FilesOf(r.plan, r.reads) = {"env", "users", "tasks", "servers"}
    /\ LastIs(r, "servers")
    /\ r.ask = [give |-> FALSE, pairs |-> Users \X {r.id}]
    /\ OldOf(r, "servers") = r.seen
    /\ r.id \in Ids
    /\ Registered(remaining) = Registered(r.seen) \ {r.id}
    /\ \A e \in Entries : (\E i \in DOMAIN remaining : remaining[i] = e)
                             => \E i \in DOMAIN r.seen : r.seen[i] = e
    /\ \E new \in Registered(remaining) :
        /\ r.default \in Registered(remaining) => new = r.default
        /\ env.default = IF new = r.default THEN before.default ELSE new
        /\ NewOf(r, "users") =
              [u \in Users |-> RemoveServerPermissions(OldOf(r, "users")[u], r.id,
                                                       new # r.default)]
    /\ \A i \in DOMAIN remaining : env.key[remaining[i].key] = before.key[remaining[i].key]
    /\ NewOf(r, "tasks") = RemoveServerState(OldOf(r, "tasks"), r.id)

\* The policies of a user's menu, before and after.
UsersOK(r) ==
    LET before == OldOf(r, "users")
        after == NewOf(r, "users") IN
    /\ FilesOf(r.plan, r.reads) = {"users", "env", "servers"} /\ LastIs(r, "users")
    /\ Len(r.plan) = 1
    /\ OldOf(r, "servers") = r.seen
    /\ r.default \in Registered(r.seen)
    /\ r.default = EditorDefault(OldOf(r, "env"), r.seen)
    /\ r.pc = "reread" => r.ask = NoAsk
    /\ r.pc \in {"check", "write", "undo"} /\ ~r.ask.give =>
          \A u \in Users, s \in Ids :
             <<u, s>> \in r.ask.pairs => ~PermissionsForServer(after[u], r.default, s)

JobOK(r) ==
    /\ Counted(r)
    /\ r.job = "add" => Fresh(r)
    /\ r.job = "remove" => r.id \in Registered(r.seen)
    /\ r.job = "software" => r.id \in Registered(r.seen)
    /\ Staged(r) => /\ r.job = "add" => AddOK(r)
                    /\ r.job = "software" => SoftwareOK(r)
                    /\ r.job = "remove" => RemoveOK(r)
                    /\ r.job = "users" => UsersOK(r)

Jobs == \A x \in 1..Terminals : JobOK(sess[x])

\* What the menus of the editor added to the policies it read.
Decided(r) ==
    LET before == OldOf(r, "users")
        after == NewOf(r, "users") IN
    \A u \in Users :
        /\ after[u].on \subseteq before[u].on \cup Registered(r.seen)
        /\ \A s \in Ids :
             PermissionsForServer(after[u], r.default, s)
                => \/ PermissionsForServer(before[u], r.default, s)
                   \/ r.pc # "editing" /\ r.ask.give /\ <<u, s>> \in r.ask.pairs

\* What the history variables excuse.
Recall(r) ==
    /\ r.left # {} => torn
    /\ r.job = "remove" /\ Staged(r) => unseen \/ r.default = DefaultId(OldOf(r, "env"))
    /\ r.job = "users" /\ Staged(r) /\ r.pc # "reread" => race \/ Decided(r)

Recalled == \A x \in 1..Terminals : Recall(sess[x])

-----------------------------------------------------------------------------
(* The files of a program in its window.                                     *)

Pending(x) == \/ sess[x].pc \in {"unconfigure", "unconfiguring"}
              \/ sess[x].pc = "check" /\ sess[x].done = 1

WindowOK(r) ==
    /\ r.pc = "write" => \A i \in 1..Len(r.plan) :
          disk[r.plan[i].file] = IF i <= r.done THEN r.plan[i].new ELSE r.plan[i].old
    /\ r.pc = "undo" => \A i \in 1..Len(r.plan) :
          IF i <= r.done THEN disk[r.plan[i].file] = r.plan[i].new
          ELSE \/ i <= r.tried /\ r.plan[i].file \in r.left
               \/ disk[r.plan[i].file] = r.plan[i].old
    /\ r.pc \in {"write", "undo"} =>
          unseen \/ \A i \in 1..Len(r.reads) : disk[r.reads[i].file] = r.reads[i].old
    /\ r.pc = "configuring" => disk[r.plan[1].file] = r.plan[1].old
    /\ r.pc \in {"reread", "unconfigure", "unconfiguring"} \/ (r.pc = "check" /\ r.done = 1) =>
          disk[r.plan[1].file] = r.plan[1].new

Windows == race \/ \A x \in 1..Terminals : WindowOK(sess[x])

-----------------------------------------------------------------------------
(* What the configuration promises.                                          *)

Removing(x) == sess[x].job = "remove" /\ sess[x].pc \in {"write", "undo"}

\* A removal that has written something; the rest of the files follow, or go back.
Busy(x) == Removing(x) /\ sess[x].done > 0

Starting ==
    \/ race \/ unseen
    \/ /\ Starts(disk)
       /\ \A x \in 1..Terminals : Removing(x) =>
             DefaultId(OldOf(sess[x], "env")) \in Registered(sess[x].seen)

Speaks(users, tasks, servers) ==
    /\ tasks \subseteq Registered(servers)
    /\ \A u \in Users : users[u].on \subseteq Registered(servers)

Forgetting ==
    \/ race \/ unseen
    \/ /\ Speaks(disk["users"], disk["tasks"], disk["servers"])
       /\ \A x \in 1..Terminals : Removing(x) =>
             Speaks(OldOf(sess[x], "users"), OldOf(sess[x], "tasks"), sess[x].seen)

Agree(env, servers) ==
    \A i \in DOMAIN servers :
        LET secret == env.key[servers[i].key] IN
        /\ secret # NoSecret
        /\ \A y \in 1..Terminals :
              Pending(y) /\ sess[y].id = servers[i].id => secret = sess[y].plan[1].old
        /\ \/ secret = disk[servers[i].id]
           \/ \E y \in 1..Terminals : Pending(y) /\ sess[y].id = servers[i].id

\* The files agree, and those that a removal has read.
AgreeDisk == Agree(disk["env"], disk["servers"])
AgreeSeen(x) == Agree(OldOf(sess[x], "env"), sess[x].seen)

Agreeing ==
    \/ race \/ torn \/ unseen
    \/ /\ (\E y \in 1..Terminals : Busy(y)) \/ AgreeDisk
       /\ \A x \in 1..Terminals : Removing(x) =>
             (\E y \in (1..Terminals) \ {x} : Busy(y)) \/ AgreeSeen(x)

Given(env, users, servers) ==
    \A u \in Users, s \in Registered(servers) :
        PermissionsForServer(users[u], DefaultId(env), s) => <<u, s>> \in granted

GivenDisk == Given(disk["env"], disk["users"], disk["servers"])
GivenSeen(x) == Given(OldOf(sess[x], "env"), OldOf(sess[x], "users"), sess[x].seen)

Granting ==
    \/ race \/ torn \/ unseen
    \/ /\ (\E y \in 1..Terminals : Busy(y)) \/ GivenDisk
       /\ \A x \in 1..Terminals : Removing(x) =>
             (\E y \in (1..Terminals) \ {x} : Busy(y)) \/ GivenSeen(x)

IInv ==
    /\ Typed /\ Jobs /\ Recalled /\ Windows
    /\ Starting /\ Forgetting /\ Agreeing /\ EditsKept

-----------------------------------------------------------------------------
(* Plans.                                                                    *)

\* A change is found by the name of its file.
LEMMA Looked ==
    ASSUME NEW plan, NEW reads, PlanOK(plan), PlanOK(reads), Apart(plan, reads),
           NEW c \in Changes(plan, reads)
    PROVE  Old(plan, reads, c.file) = c.old /\ New(plan, reads, c.file) = c.new
<1> DEFINE d == CHOOSE d \in Changes(plan, reads) : d.file = c.file
<1>1. d \in Changes(plan, reads) /\ d.file = c.file
  OBVIOUS
<1>2. d = c
  BY <1>1 DEF Changes, PlanOK, Apart
<1>3. QED
  BY <1>2 DEF Old, New

\* Plans are joined from parts of one change or none.
Shape(p) == Len(p) \in Nat /\ DOMAIN p = 1..Len(p)
Parts(p) == {p[i] : i \in DOMAIN p}
Once(p) == \A i, j \in 1..Len(p) : p[i].file = p[j].file => i = j

\* Parts that are joined keep their changes, and differ when their files do.
LEMMA Joined ==
    ASSUME NEW p, NEW q, Shape(p), Shape(q)
    PROVE  /\ Shape(p \o q)
           /\ Parts(p \o q) = Parts(p) \cup Parts(q)
           /\ Len(p \o q) = Len(p) + Len(q)
           /\ Len(q) > 0 => (p \o q)[Len(p \o q)] = q[Len(q)]
           /\ Len(p) > 0 => (p \o q)[1] = p[1]
           /\ (/\ Once(p) /\ Once(q)
               /\ \A c \in Parts(p), d \in Parts(q) : c.file # d.file) => Once(p \o q)
<1>1. /\ Len(p \o q) = Len(p) + Len(q) /\ DOMAIN (p \o q) = 1..(Len(p) + Len(q))
      /\ \A i \in 1..Len(p) : (p \o q)[i] = p[i]
      /\ \A i \in (Len(p) + 1)..(Len(p) + Len(q)) : (p \o q)[i] = q[i - Len(p)]
  BY DEF Shape
<1>2. Shape(p \o q)
  BY <1>1 DEF Shape
<1>3. Parts(p \o q) = Parts(p) \cup Parts(q)
  <2>1. \A i \in 1..Len(q) : (p \o q)[i + Len(p)] = q[i] /\ i + Len(p) \in DOMAIN (p \o q)
    BY <1>1 DEF Shape
  <2>2. \A i \in DOMAIN (p \o q) :
          \/ i \in DOMAIN p /\ (p \o q)[i] = p[i]
          \/ i - Len(p) \in DOMAIN q /\ (p \o q)[i] = q[i - Len(p)]
    BY <1>1 DEF Shape
  <2>3. \A i \in DOMAIN p : i \in DOMAIN (p \o q) /\ (p \o q)[i] = p[i]
    BY <1>1 DEF Shape
  <2>4. QED
    BY <2>1, <2>2, <2>3, SMTT(30) DEF Shape, Parts
<1>4. Len(q) > 0 => (p \o q)[Len(p \o q)] = q[Len(q)]
  BY <1>1 DEF Shape
<1>5. Len(p) > 0 => (p \o q)[1] = p[1]
  BY <1>1 DEF Shape
<1>6. ASSUME Once(p), Once(q), \A c \in Parts(p), d \in Parts(q) : c.file # d.file
      PROVE  Once(p \o q)
  <2> SUFFICES ASSUME NEW i \in 1..(Len(p) + Len(q)), NEW j \in 1..(Len(p) + Len(q)),
                      (p \o q)[i].file = (p \o q)[j].file
               PROVE  i = j
    BY <1>1 DEF Once
  <2>1. CASE i <= Len(p) /\ j <= Len(p)
    BY <2>1, <1>1, <1>6 DEF Once, Shape
  <2>2. CASE i <= Len(p) /\ j > Len(p)
    <3>1. p[i] \in Parts(p) /\ q[j - Len(p)] \in Parts(q)
      BY <2>2 DEF Parts, Shape
    <3>2. QED
      BY <2>2, <3>1, <1>1, <1>6 DEF Shape
  <2>3. CASE i > Len(p) /\ j <= Len(p)
    <3>1. p[j] \in Parts(p) /\ q[i - Len(p)] \in Parts(q)
      BY <2>3 DEF Parts, Shape
    <3>2. QED
      BY <2>3, <3>1, <1>1, <1>6 DEF Shape
  <2>4. CASE i > Len(p) /\ j > Len(p)
    <3>1. i - Len(p) \in 1..Len(q) /\ j - Len(p) \in 1..Len(q)
      BY <2>4 DEF Shape
    <3>2. i - Len(p) = j - Len(p)
      BY <2>4, <3>1, <1>1, <1>6 DEF Once, Shape
    <3>3. QED
      BY <3>2 DEF Shape
  <2>5. QED
    BY <2>1, <2>2, <2>3, <2>4 DEF Shape
<1>7. QED
  BY <1>1, <1>2, <1>3, <1>4, <1>5, <1>6

\* A part of one change, or of none.
LEMMA Single ==
    ASSUME NEW c
    PROVE  /\ Shape(<<c>>) /\ Parts(<<c>>) = {c} /\ Once(<<c>>)
           /\ Len(<<c>>) = 1 /\ <<c>>[1] = c
           /\ Shape(Changed(c)) /\ Once(Changed(c))
           /\ Parts(Changed(c)) = IF c.old # c.new THEN {c} ELSE {}
           /\ c.old # c.new => Changed(c) = <<c>>
           /\ Shape(Same(c)) /\ Once(Same(c))
           /\ Parts(Same(c)) = IF c.old = c.new THEN {c} ELSE {}
<1>1. /\ Shape(<<c>>) /\ Parts(<<c>>) = {c} /\ Once(<<c>>)
      /\ Len(<<c>>) = 1 /\ <<c>>[1] = c
  BY DEF Shape, Parts, Once
<1>2. Shape(<<>>) /\ Parts(<<>>) = {} /\ Once(<<>>)
  BY DEF Shape, Parts, Once
<1>3. CASE c.old = c.new
  BY <1>1, <1>2, <1>3 DEF Changed, Same
<1>4. CASE c.old # c.new
  BY <1>1, <1>2, <1>4 DEF Changed, Same
<1>5. QED
  BY <1>3, <1>4

\* A piece of a plan and its changes.
Piece(p, C) == Shape(p) /\ Once(p) /\ Parts(p) = C

Kept(c) == IF c.old # c.new THEN {c} ELSE {}
Dropped(c) == IF c.old = c.new THEN {c} ELSE {}

LEMMA Pieces ==
    ASSUME NEW c
    PROVE  Piece(<<c>>, {c}) /\ Piece(Changed(c), Kept(c)) /\ Piece(Same(c), Dropped(c))
<1>1. Piece(<<c>>, {c})
  BY Single DEF Piece
<1>2. Piece(Changed(c), Kept(c))
  BY Single DEF Piece, Kept
<1>3. Piece(Same(c), Dropped(c))
  BY Single DEF Piece, Dropped
<1>4. QED
  BY <1>1, <1>2, <1>3

LEMMA JoinedPieces ==
    ASSUME NEW p, NEW q, NEW C, NEW D, Piece(p, C), Piece(q, D),
           \A c \in C, d \in D : c.file # d.file
    PROVE  /\ Piece(p \o q, C \cup D)
           /\ Len(p \o q) = Len(p) + Len(q) /\ Len(p) \in Nat /\ Len(q) \in Nat
           /\ Len(q) > 0 => (p \o q)[Len(p \o q)] = q[Len(q)]
           /\ Len(p) > 0 => (p \o q)[1] = p[1]
<1>1. Shape(p) /\ Shape(q) /\ Once(p) /\ Once(q) /\ Parts(p) = C /\ Parts(q) = D
  BY DEF Piece
<1>2. /\ Shape(p \o q)
      /\ Parts(p \o q) = Parts(p) \cup Parts(q)
      /\ Len(p \o q) = Len(p) + Len(q)
      /\ Len(q) > 0 => (p \o q)[Len(p \o q)] = q[Len(q)]
      /\ Len(p) > 0 => (p \o q)[1] = p[1]
      /\ (/\ Once(p) /\ Once(q)
          /\ \A c \in Parts(p), d \in Parts(q) : c.file # d.file) => Once(p \o q)
  BY <1>1, Joined
<1>3. Once(p \o q)
  BY <1>1, <1>2
<1>4. QED
  BY <1>1, <1>2, <1>3 DEF Piece, Shape

\* A plan that ends with s.
LEMMA LastPiece ==
    ASSUME NEW front, NEW C, NEW s, Piece(front, C), \A c \in C : c.file # s.file
    PROVE  /\ Piece(front \o <<s>>, C \cup {s})
           /\ Len(front) \in Nat /\ Len(front \o <<s>>) = Len(front) + 1
           /\ (front \o <<s>>)[Len(front \o <<s>>)] = s
           /\ Len(front) > 0 => (front \o <<s>>)[1] = front[1]
<1> DEFINE last == <<s>>
<1>1. Piece(last, {s}) /\ Len(last) = 1 /\ last[1] = s
  BY Pieces
<1> HIDE DEF last
<1>2. \A c \in C, d \in {s} : c.file # d.file
  OBVIOUS
<1>3. /\ Piece(front \o last, C \cup {s})
      /\ Len(front \o last) = Len(front) + Len(last) /\ Len(front) \in Nat
      /\ Len(last) > 0 => (front \o last)[Len(front \o last)] = last[Len(last)]
      /\ Len(front) > 0 => (front \o last)[1] = front[1]
  <2>1. Piece(last, {s})
    BY <1>1
  <2>2. QED
    BY <2>1, <1>2, JoinedPieces
<1>4. /\ Len(front \o last) = Len(front) + 1
      /\ (front \o last)[Len(front \o last)] = s
  BY <1>1, <1>3
<1>5. QED
  BY <1>3, <1>4 DEF last

\* From pieces to plans.
LEMMA Planned ==
    ASSUME NEW plan, NEW reads, NEW P, NEW R, Piece(plan, P), Piece(reads, R),
           \A c \in P \cup R : ChangeOK(c),
           \A c, d \in P \cup R : c.file = d.file => c = d,
           \A c \in R : c.old = c.new /\ c \notin P
    PROVE  /\ PlanOK(plan) /\ PlanOK(reads) /\ Apart(plan, reads)
           /\ Changes(plan, reads) = P \cup R
<1>1. \A i \in 1..Len(plan) : plan[i] \in P
  BY DEF Piece, Shape, Parts
<1>2. \A i \in 1..Len(reads) : reads[i] \in R
  BY DEF Piece, Shape, Parts
<1>3. PlanOK(plan) /\ PlanOK(reads)
  BY <1>1, <1>2 DEF Piece, Shape, PlanOK
<1>4. Apart(plan, reads)
  BY <1>1, <1>2 DEF Piece, Once, Apart
<1>5. Changes(plan, reads) = P \cup R
  BY DEF Changes, Piece, Parts
<1>6. QED
  BY <1>3, <1>4, <1>5

\* The plan of a new local server.
LEMMA AddPlan ==
    ASSUME NEW p, NEW e, NEW s, ChangeOK(p), ChangeOK(e), ChangeOK(s),
           p.file # e.file, p.file # s.file, e.file # s.file
    PROVE  LET plan == Changed(p) \o Changed(e) \o <<s>>
               reads == Same(p) \o Same(e) IN
           /\ PlanOK(plan) /\ PlanOK(reads) /\ Apart(plan, reads)
           /\ Changes(plan, reads) = {p, e, s}
           /\ Len(plan) > 0 /\ plan[Len(plan)] = s
<1> DEFINE front == Changed(p) \o Changed(e)
           plan == front \o <<s>>
           reads == Same(p) \o Same(e)
           P == Kept(p) \cup Kept(e) \cup {s}
           R == Dropped(p) \cup Dropped(e)
<1>1. /\ \A c \in Kept(p), d \in Kept(e) : c.file # d.file
      /\ \A c \in Dropped(p), d \in Dropped(e) : c.file # d.file
      /\ \A c \in Kept(p) \cup Kept(e) : c.file # s.file
  BY DEF Kept, Dropped
<1>2. Piece(front, Kept(p) \cup Kept(e))
  BY <1>1, Pieces, JoinedPieces
<1>3. Piece(reads, R)
  BY <1>1, Pieces, JoinedPieces
<1>4. P \cup R = {p, e, s} /\ \A c \in R : c.old = c.new /\ c \notin P
  BY DEF Kept, Dropped
<1>5. /\ \A c \in P \cup R : ChangeOK(c)
      /\ \A c, d \in P \cup R : c.file = d.file => c = d
  BY <1>4
<1> HIDE DEF front, reads
<1>6. Piece(plan, P) /\ Len(plan) > 0 /\ plan[Len(plan)] = s
  BY <1>1, <1>2, LastPiece
<1> HIDE DEF plan, P, R
<1>7. /\ PlanOK(plan) /\ PlanOK(reads) /\ Apart(plan, reads)
      /\ Changes(plan, reads) = P \cup R
  BY <1>3, <1>4, <1>5, <1>6, Planned
<1>8. QED
  BY <1>4, <1>6, <1>7 DEF plan, front, reads

\* The plan of a new remote server.
LEMMA RemotePlan ==
    ASSUME NEW p, NEW e, NEW s, ChangeOK(p), ChangeOK(e), ChangeOK(s),
           p.file # e.file, p.file # s.file, e.file # s.file
    PROVE  LET plan == <<p>> \o Changed(e) \o <<s>>
               reads == Same(e) IN
           /\ PlanOK(plan) /\ PlanOK(reads) /\ Apart(plan, reads)
           /\ Changes(plan, reads) = {p, e, s}
           /\ Len(plan) > 1 /\ plan[Len(plan)] = s /\ plan[1] = p
<1> DEFINE first == <<p>>
           front == first \o Changed(e)
           plan == front \o <<s>>
           reads == Same(e)
           P == {p} \cup Kept(e) \cup {s}
           R == Dropped(e)
<1>1. /\ \A c \in {p}, d \in Kept(e) : c.file # d.file
      /\ \A c \in {p} \cup Kept(e) : c.file # s.file
  BY DEF Kept
<1>2. Piece(first, {p}) /\ Len(first) = 1 /\ first[1] = p
  BY Pieces
<1>3. Piece(reads, R) /\ Piece(Changed(e), Kept(e))
  BY Pieces
<1>4. P \cup R = {p, e, s} /\ \A c \in R : c.old = c.new /\ c \notin P
  BY DEF Kept, Dropped
<1>5. /\ \A c \in P \cup R : ChangeOK(c)
      /\ \A c, d \in P \cup R : c.file = d.file => c = d
  BY <1>4
<1> HIDE DEF first, reads
<1>6. /\ Piece(front, {p} \cup Kept(e)) /\ Len(front) = Len(first) + Len(Changed(e))
      /\ Len(Changed(e)) \in Nat /\ (Len(first) > 0 => front[1] = first[1])
  BY <1>1, <1>2, <1>3, JoinedPieces
<1>7. Len(front) > 0 /\ front[1] = p
  BY <1>2, <1>6
<1> HIDE DEF front
<1>8. Piece(plan, P) /\ Len(plan) > 1 /\ plan[Len(plan)] = s /\ plan[1] = p
  BY <1>1, <1>6, <1>7, LastPiece
<1> HIDE DEF plan, P, R
<1>9. /\ PlanOK(plan) /\ PlanOK(reads) /\ Apart(plan, reads)
      /\ Changes(plan, reads) = P \cup R
  BY <1>3, <1>4, <1>5, <1>8, Planned
<1>10. QED
  BY <1>4, <1>8, <1>9 DEF plan, front, first, reads

\* The plan of a removal.
LEMMA RemovePlan ==
    ASSUME NEW e, NEW u, NEW t, NEW s, ChangeOK(e), ChangeOK(u), ChangeOK(t), ChangeOK(s),
           e.file = "env", u.file = "users", t.file = "tasks", s.file = "servers",
           s.old # s.new
    PROVE  LET plan == RemovalOrder(e, u, t, s)
               reads == Same(e) \o Same(u) \o Same(t) IN
           /\ PlanOK(plan) /\ PlanOK(reads) /\ Apart(plan, reads)
           /\ Changes(plan, reads) = {e, u, t, s}
           /\ Len(plan) > 0 /\ plan[Len(plan)] = s
<1> DEFINE plan == RemovalOrder(e, u, t, s)
           reads == Same(e) \o Same(u) \o Same(t)
           front == Changed(e) \o Changed(u)
           trunk == front \o Changed(t)
           last == Changed(s)
           front2 == Same(e) \o Same(u)
<1>1. /\ \A c \in Kept(e), d \in Kept(u) : c.file # d.file
      /\ \A c \in Kept(e) \cup Kept(u), d \in Kept(t) : c.file # d.file
      /\ \A c \in Kept(e) \cup Kept(u) \cup Kept(t), d \in {s} : c.file # d.file
      /\ \A c \in Dropped(e), d \in Dropped(u) : c.file # d.file
      /\ \A c \in Dropped(e) \cup Dropped(u), d \in Dropped(t) : c.file # d.file
  BY DEF Kept, Dropped
<1>2. /\ Piece(Changed(e), Kept(e)) /\ Piece(Changed(u), Kept(u)) /\ Piece(Changed(t), Kept(t))
      /\ Piece(Same(e), Dropped(e)) /\ Piece(Same(u), Dropped(u)) /\ Piece(Same(t), Dropped(t))
  BY Pieces
<1>3. last = <<s>> /\ Piece(last, {s}) /\ Len(last) = 1 /\ last[1] = s
  BY Pieces DEF Changed
<1>4. Piece(front, Kept(e) \cup Kept(u)) /\ Piece(front2, Dropped(e) \cup Dropped(u))
  BY <1>1, <1>2, JoinedPieces
<1>5. plan = trunk \o last /\ reads = front2 \o Same(t)
  BY DEF RemovalOrder
<1> HIDE DEF front, last, front2
<1>6. Piece(trunk, Kept(e) \cup Kept(u) \cup Kept(t)) /\ Len(trunk) \in Nat
  BY <1>1, <1>2, <1>4, JoinedPieces DEF Piece, Shape
<1>7. Piece(reads, Dropped(e) \cup Dropped(u) \cup Dropped(t))
  BY <1>1, <1>2, <1>4, <1>5, JoinedPieces
<1> HIDE DEF trunk
<1> DEFINE P == Kept(e) \cup Kept(u) \cup Kept(t) \cup {s}
           R == Dropped(e) \cup Dropped(u) \cup Dropped(t)
<1>8. Piece(plan, P) /\ Len(plan) > 0 /\ plan[Len(plan)] = s
  BY <1>1, <1>3, <1>5, <1>6, JoinedPieces
<1>9. P \cup R = {e, u, t, s} /\ \A c \in R : c.old = c.new /\ c \notin P
  BY DEF Kept, Dropped
<1>10. /\ \A c \in P \cup R : ChangeOK(c)
       /\ \A c, d \in P \cup R : c.file = d.file => c = d
  BY <1>9
<1> HIDE DEF P, R
<1>11. Piece(reads, R)
  BY <1>7 DEF R
<1> HIDE DEF plan, reads
<1>12. /\ PlanOK(plan) /\ PlanOK(reads) /\ Apart(plan, reads)
       /\ Changes(plan, reads) = P \cup R
  BY <1>8, <1>9, <1>10, <1>11, Planned
<1>13. QED
  BY <1>8, <1>9, <1>12 DEF plan, reads

-----------------------------------------------------------------------------
(* Registries.                                                               *)

\* A registry is a sequence of entries.
LEMMA ListShape ==
    ASSUME NEW servers \in Lists
    PROVE  /\ Len(servers) \in Nat /\ DOMAIN servers = 1..Len(servers)
           /\ servers \in Seq(Entries)
           /\ \A i \in DOMAIN servers : servers[i] \in Entries
           /\ Registered(servers) \subseteq Ids
<1>1. servers \in Seq(Entries)
  BY DEF Lists
<1>2. /\ Len(servers) \in Nat /\ DOMAIN servers = 1..Len(servers)
      /\ \A i \in DOMAIN servers : servers[i] \in Entries
  BY <1>1
<1>3. Registered(servers) \subseteq Ids
  BY <1>2 DEF Registered, Entries
<1>4. QED
  BY <1>1, <1>2, <1>3

\* An id has one position in a registry.
LEMMA Placed ==
    ASSUME NEW servers \in Lists, NEW s \in Registered(servers)
    PROVE  /\ Position(servers, s) \in DOMAIN servers
           /\ servers[Position(servers, s)].id = s
           /\ \A j \in DOMAIN servers : servers[j].id = s => j = Position(servers, s)
<1>1. PICK i \in DOMAIN servers : servers[i].id = s
  BY DEF Registered
<1>2. /\ Position(servers, s) \in DOMAIN servers
      /\ servers[Position(servers, s)].id = s
  BY <1>1 DEF Position
<1>3. QED
  BY <1>2 DEF Lists

\* A new entry at the end of a registry.
LEMMA Appended ==
    ASSUME NEW servers \in Lists, NEW s \in Ids \ Registered(servers)
    PROVE  LET more == Append(servers, BuildEntry(s)) IN
           /\ more \in Lists /\ Registered(more) = Registered(servers) \cup {s}
           /\ DOMAIN more = 1..(Len(servers) + 1)
           /\ \A i \in DOMAIN servers : more[i] = servers[i]
           /\ more[Len(servers) + 1] = BuildEntry(s)
<1> DEFINE more == Append(servers, BuildEntry(s))
<1>1. BuildEntry(s) \in Entries /\ BuildEntry(s).id = s
  BY DEF BuildEntry, Entries
<1>2. /\ more \in Seq(Entries) /\ DOMAIN more = 1..(Len(servers) + 1)
      /\ \A i \in DOMAIN servers : more[i] = servers[i]
      /\ more[Len(servers) + 1] = BuildEntry(s)
  BY <1>1, ListShape
<1>3. /\ Len(servers) \in Nat /\ DOMAIN servers = 1..Len(servers)
      /\ DOMAIN more = DOMAIN servers \cup {Len(servers) + 1}
  BY <1>2, ListShape
<1> HIDE DEF more
<1>4. Registered(more) = Registered(servers) \cup {s}
  BY <1>1, <1>2, <1>3 DEF Registered
<1>5. \A i, j \in DOMAIN more : more[i].id = more[j].id => i = j
  <2>1. \A i \in DOMAIN servers : more[i].id # s
    BY <1>2 DEF Registered
  <2>2. \A i, j \in DOMAIN servers : servers[i].id = servers[j].id => i = j
    BY DEF Lists
  <2>3. QED
    BY <1>1, <1>2, <1>3, <2>1, <2>2
<1>6. QED
  BY <1>2, <1>4, <1>5 DEF Lists, more

LEMMA ConcatFacts ==
    ASSUME NEW S, NEW p \in Seq(S), NEW q \in Seq(S)
    PROVE  LET r == p \o q IN
           /\ r \in Seq(S) /\ Len(r) = Len(p) + Len(q)
           /\ \A j \in 1..Len(p) : r[j] = p[j]
           /\ \A j \in (Len(p) + 1)..(Len(p) + Len(q)) : r[j] = q[j - Len(p)]
  OBVIOUS

\* An entry is taken out of its registry.
LEMMA Without ==
    ASSUME NEW servers \in Lists, NEW s \in Registered(servers)
    PROVE  LET i == Position(servers, s)
               remaining == SubSeq(servers, 1, i - 1) \o SubSeq(servers, i + 1, Len(servers)) IN
           /\ remaining \in Lists /\ remaining # servers
           /\ Registered(remaining) = Registered(servers) \ {s}
           /\ \A j \in DOMAIN remaining :
                 \E k \in DOMAIN servers : remaining[j] = servers[k]
<1> DEFINE i == Position(servers, s)
           remaining == SubSeq(servers, 1, i - 1) \o SubSeq(servers, i + 1, Len(servers))
<1>1. /\ i \in DOMAIN servers /\ servers[i].id = s
      /\ \A j \in DOMAIN servers : servers[j].id = s => j = i
  BY Placed
<1>2. Len(servers) \in Nat /\ DOMAIN servers = 1..Len(servers) /\ servers \in Seq(Entries)
  BY ListShape
<1> DEFINE n == Len(servers)
           front == SubSeq(servers, 1, i - 1)
           back == SubSeq(servers, i + 1, n)
<1>3. i \in 1..n
  BY <1>1, <1>2
<1>4. front \in Seq(Entries) /\ Len(front) = i - 1 /\ \A j \in 1..(i - 1) : front[j] = servers[j]
  BY <1>2, <1>3
<1>5. back \in Seq(Entries) /\ Len(back) = n - i /\ \A j \in 1..(n - i) : back[j] = servers[i + j]
  <2>1. i + 1 \in 1..(n + 1) /\ n \in Nat
    BY <1>2, <1>3
  <2>2. back \in Seq(Entries) /\ Len(back) = n - i
    BY <2>1, <1>2, <1>3
  <2>3. \A j \in 1..(n - i) : back[j] = servers[i + j]
    BY <2>1, <2>2, <1>2, <1>3
  <2>4. QED
    BY <2>2, <2>3
<1>6. remaining = front \o back
  OBVIOUS
<1> HIDE DEF front, back, remaining, i
<1> DEFINE whole == front \o back
<1>a. /\ whole \in Seq(Entries) /\ Len(whole) = Len(front) + Len(back)
      /\ \A k \in 1..Len(front) : whole[k] = front[k]
      /\ \A k \in (Len(front) + 1)..(Len(front) + Len(back)) : whole[k] = back[k - Len(front)]
  BY <1>4, <1>5, ConcatFacts
<1> HIDE DEF whole
<1>b. remaining = whole
  BY <1>6 DEF whole
<1>7. /\ remaining \in Seq(Entries) /\ Len(remaining) = n - 1 /\ DOMAIN remaining = 1..(n - 1)
      /\ \A j \in 1..(n - 1) : remaining[j] = IF j < i THEN servers[j] ELSE servers[j + 1]
  <2>1. /\ remaining \in Seq(Entries) /\ Len(remaining) = n - 1
        /\ DOMAIN remaining = 1..(n - 1)
    <3>1. remaining \in Seq(Entries) /\ Len(remaining) = Len(front) + Len(back)
      BY <1>a, <1>b
    <3>2. Len(remaining) = (i - 1) + (n - i)
      BY <3>1, <1>4, <1>5
    <3>3. Len(remaining) = n - 1
      BY <3>2, <1>2, <1>3
    <3>4. DOMAIN remaining = 1..Len(remaining)
      BY <3>1
    <3>5. QED
      BY <3>1, <3>3, <3>4
  <2>2. ASSUME NEW j \in 1..(n - 1), j < i PROVE remaining[j] = servers[j]
    BY <2>2, <1>2, <1>3, <1>4, <1>5, <1>6
  <2>3. ASSUME NEW j \in 1..(n - 1), ~(j < i) PROVE remaining[j] = servers[j + 1]
    <3>1. j - (i - 1) \in 1..(n - i)
      BY <2>3, <1>2, <1>3
    <3>2. remaining[j] = back[j - (i - 1)]
      <4>1. j \in ((i - 1) + 1)..((i - 1) + (n - i))
        BY <2>3, <1>2, <1>3
      <4>2. \A k \in (Len(front) + 1)..(Len(front) + Len(back)) :
               remaining[k] = back[k - Len(front)]
        BY <1>a, <1>b
      <4>3. \A k \in ((i - 1) + 1)..((i - 1) + (n - i)) : remaining[k] = back[k - (i - 1)]
        BY <4>2, <1>4, <1>5
      <4>4. QED
        BY <4>1, <4>3
    <3>3. i + (j - (i - 1)) = j + 1
      BY <1>2, <1>3
    <3>4. QED
      BY <3>1, <3>2, <3>3, <1>5
  <2>4. QED
    BY <2>1, <2>2, <2>3
<1>8. \A j \in DOMAIN remaining : \E k \in DOMAIN servers : k # i /\ remaining[j] = servers[k]
  <2>1. SUFFICES ASSUME NEW j \in 1..(n - 1)
                 PROVE  \E k \in DOMAIN servers : k # i /\ remaining[j] = servers[k]
    BY <1>7
  <2>2. CASE j < i
    <3>1. j \in DOMAIN servers /\ j # i /\ remaining[j] = servers[j]
      BY <2>2, <1>2, <1>3, <1>7
    <3>2. QED
      BY <3>1
  <2>3. CASE ~(j < i)
    <3>1. j + 1 \in DOMAIN servers /\ j + 1 # i
      BY <2>3, <1>2, <1>3
    <3>2. QED
      BY <2>3, <3>1, <1>7
  <2>4. QED
    BY <2>2, <2>3
<1>9. \A k \in DOMAIN servers : k # i => \E j \in DOMAIN remaining : remaining[j] = servers[k]
  <2>1. SUFFICES ASSUME NEW k \in DOMAIN servers, k # i
                 PROVE  \E j \in DOMAIN remaining : remaining[j] = servers[k]
    OBVIOUS
  <2>2. CASE k < i
    <3>1. k \in 1..(n - 1)
      BY <2>2, <1>2, <1>3
    <3>2. QED
      BY <2>2, <3>1, <1>7
  <2>3. CASE k > i
    <3>1. k - 1 \in 1..(n - 1) /\ ~(k - 1 < i) /\ (k - 1) + 1 = k
      BY <2>3, <1>2, <1>3
    <3>2. QED
      BY <2>3, <3>1, <1>7
  <2>4. k < i \/ k > i
    BY <2>1, <1>2, <1>3
  <2>5. QED
    BY <2>2, <2>3, <2>4
<1>10. Registered(remaining) = Registered(servers) \ {s}
  <2>1. ASSUME NEW t \in Registered(remaining) PROVE t \in Registered(servers) \ {s}
    <3>1. PICK j \in DOMAIN remaining : remaining[j].id = t
      BY <2>1 DEF Registered
    <3>2. PICK k \in DOMAIN servers : k # i /\ remaining[j] = servers[k]
      BY <1>8
    <3>3. QED
      BY <3>1, <3>2, <1>1 DEF Registered
  <2>2. ASSUME NEW t \in Registered(servers), t # s PROVE t \in Registered(remaining)
    <3>1. PICK k \in DOMAIN servers : servers[k].id = t
      BY <2>2 DEF Registered
    <3>2. PICK j \in DOMAIN remaining : remaining[j] = servers[k]
      BY <3>1, <2>2, <1>1, <1>9
    <3>3. QED
      BY <3>1, <3>2 DEF Registered
  <2>3. QED
    BY <2>1, <2>2
<1>11. \A j, k \in DOMAIN remaining : remaining[j].id = remaining[k].id => j = k
  <2>1. SUFFICES ASSUME NEW j \in DOMAIN remaining, NEW k \in DOMAIN remaining,
                        remaining[j].id = remaining[k].id
                 PROVE  j = k
    OBVIOUS
  <2> DEFINE at(m) == IF m < i THEN m ELSE m + 1
  <2>2. /\ at(j) \in DOMAIN servers /\ remaining[j] = servers[at(j)]
        /\ at(k) \in DOMAIN servers /\ remaining[k] = servers[at(k)]
    <3>1. ASSUME NEW m \in 1..(n - 1)
          PROVE  at(m) \in DOMAIN servers /\ remaining[m] = servers[at(m)]
      <4>1. CASE m < i
        BY <4>1, <1>2, <1>3, <1>7
      <4>2. CASE ~(m < i)
        <5>1. m + 1 \in 1..n
          BY <1>2, <1>3
        <5>2. QED
          BY <4>2, <5>1, <1>2, <1>7
      <4>3. QED
        BY <4>1, <4>2
    <3>2. j \in 1..(n - 1) /\ k \in 1..(n - 1)
      BY <1>7
    <3> HIDE DEF at
    <3>3. QED
      BY <3>1, <3>2
  <2>3. at(j) = at(k)
    <3> HIDE DEF at
    <3>1. QED
      BY <2>1, <2>2 DEF Lists
  <2>4. j \in 1..(n - 1) /\ k \in 1..(n - 1)
    BY <1>7
  <2>5. i \in Nat /\ j \in Nat /\ k \in Nat
    BY <2>4, <1>2, <1>3
  <2>6. QED
    BY <2>3, <2>5
<1>12. remaining # servers
  BY <1>2, <1>7
<1>13. remaining \in Lists
  BY <1>7, <1>11 DEF Lists
<1>14. QED
  BY <1>8, <1>10, <1>12, <1>13 DEF remaining, i

\* The software of a server changes, its id and its variable do not.
LEMMA Toggled ==
    ASSUME NEW servers \in Lists, NEW i \in DOMAIN servers
    PROVE  LET new == [servers EXCEPT ![i].mods = ~@] IN
           /\ new \in Lists /\ DOMAIN new = DOMAIN servers /\ new # servers
           /\ \A j \in DOMAIN new : new[j].id = servers[j].id /\ new[j].key = servers[j].key
<1> DEFINE new == [servers EXCEPT ![i].mods = ~@]
<1>1. /\ servers \in Seq(Entries) /\ DOMAIN servers = 1..Len(servers)
      /\ \A j \in DOMAIN servers : servers[j] \in Entries
  BY ListShape
<1>2. DOMAIN new = DOMAIN servers
  OBVIOUS
<1>3. /\ \A j \in DOMAIN new : new[j] \in Entries
      /\ \A j \in DOMAIN new : new[j].id = servers[j].id /\ new[j].key = servers[j].key
      /\ new[i].mods # servers[i].mods
  BY <1>1 DEF Entries
<1>4. new = [j \in 1..Len(servers) |-> new[j]] /\ Len(servers) \in Nat
  BY <1>1, ListShape
<1> HIDE DEF new
<1>5. new \in Seq(Entries)
  BY <1>1, <1>2, <1>3, <1>4
<1>6. new \in Lists
  BY <1>2, <1>3, <1>5 DEF Lists
<1>7. new # servers
  BY <1>3
<1>8. QED
  BY <1>2, <1>3, <1>6, <1>7 DEF new

-----------------------------------------------------------------------------
(* What a step does to the sessions.                                         *)

\* Only terminal x goes on.
Moves(x) ==
    /\ sess' = [y \in 1..Terminals |-> sess'[y]]
    /\ \A y \in (1..Terminals) \ {x} : sess'[y] = sess[y]

Ends(x) == Moves(x) /\ sess'[x] = Idle

\* The program goes on with the plan it has.
Goes(x, pc, done, tried, left) ==
    LET r == sess[x]
        q == sess'[x] IN
    /\ Moves(x)
    /\ DOMAIN q = Fields /\ q.pc = pc /\ q.done = done /\ q.tried = tried /\ q.left = left
    /\ q.job = r.job /\ q.id = r.id /\ q.seen = r.seen /\ q.default = r.default
    /\ q.plan = r.plan /\ q.reads = r.reads /\ q.ask = r.ask

\* A program that ends leaves its terminal idle.
LEMMA EndsIdle ==
    ASSUME Typed, NEW x \in 1..Terminals, sess' = [sess EXCEPT ![x] = Idle]
    PROVE  Ends(x)
  BY DEF Typed, Ends, Moves

LEMMA RefuseGoes ==
    ASSUME Typed, NEW x \in 1..Terminals, Refuse(x)
    PROVE  \/ Ends(x)
           \/ /\ sess[x].done = 1 /\ IsRemote(sess[x])
              /\ Goes(x, "unconfigure", sess[x].done, 1, sess[x].left)
<1>1. CASE sess[x].done = 1 /\ FirstLocal(x) = 2
  <2>1. Step(x, [pc |-> "unconfigure", tried |-> 1])
    BY <1>1 DEF Refuse
  <2>2. IsRemote(sess[x])
    BY <1>1 DEF FirstLocal, IsRemote
  <2>3. QED
    BY <1>1, <2>1, <2>2 DEF Step, Goes, Moves, Typed, SessionOK, Fields
<1>2. CASE ~(sess[x].done = 1 /\ FirstLocal(x) = 2)
  BY <1>2, EndsIdle DEF Refuse
<1>3. QED
  BY <1>1, <1>2

LEMMA CheckGoes ==
    ASSUME Typed, NEW x \in 1..Terminals, Step(x, [pc |-> "write"])
    PROVE  Goes(x, "write", sess[x].done, sess[x].tried, sess[x].left)
  BY DEF Step, Goes, Moves, Typed, SessionOK, Fields

LEMMA WriteGoes ==
    ASSUME Typed, NEW x \in 1..Terminals, Step(x, [done |-> sess[x].done + 1])
    PROVE  Goes(x, sess[x].pc, sess[x].done + 1, sess[x].tried, sess[x].left)
  BY DEF Step, Goes, Moves, Typed, SessionOK, Fields

LEMMA RaiseGoes ==
    ASSUME Typed, NEW x \in 1..Terminals,
           Step(x, [pc |-> "undo", done |-> Written(x), tried |-> sess[x].done])
    PROVE  Goes(x, "undo", sess[x].done, sess[x].done, sess[x].left)
  BY DEF Step, Goes, Moves, Typed, SessionOK, Fields, Written

LEMMA UndoGoes ==
    ASSUME Typed, NEW x \in 1..Terminals, Step(x, [done |-> sess[x].done - 1])
    PROVE  Goes(x, sess[x].pc, sess[x].done - 1, sess[x].tried, sess[x].left)
  BY DEF Step, Goes, Moves, Typed, SessionOK, Fields

LEMMA LeftGoes ==
    ASSUME Typed, NEW x \in 1..Terminals, NEW file,
           Step(x, [done |-> sess[x].done - 1, left |-> sess[x].left \cup {file}])
    PROVE  Goes(x, sess[x].pc, sess[x].done - 1, sess[x].tried, sess[x].left \cup {file})
  BY DEF Step, Goes, Moves, Typed, SessionOK, Fields

LEMMA UndoneGoes ==
    ASSUME Typed, NEW x \in 1..Terminals, Step(x, [pc |-> "unconfigure"])
    PROVE  Goes(x, "unconfigure", sess[x].done, sess[x].tried, sess[x].left)
  BY DEF Step, Goes, Moves, Typed, SessionOK, Fields

LEMMA ComparedGoes ==
    ASSUME Typed, NEW x \in 1..Terminals, NEW pc \in {"configuring", "unconfiguring"},
           Step(x, [pc |-> pc])
    PROVE  Goes(x, pc, sess[x].done, sess[x].tried, sess[x].left)
  BY DEF Step, Goes, Moves, Typed, SessionOK, Fields

LEMMA ConfiguredGoes ==
    ASSUME Typed, NEW x \in 1..Terminals, Step(x, [pc |-> "check", done |-> 1])
    PROVE  Goes(x, "check", 1, sess[x].tried, sess[x].left)
  BY DEF Step, Goes, Moves, Typed, SessionOK, Fields

\* The last file of an editor's save is written.
Rereads(x) ==
    LET r == sess[x]
        q == sess'[x] IN
    /\ Moves(x)
    /\ DOMAIN q = Fields /\ q.pc = "reread" /\ q.ask = NoAsk
    /\ q.job = r.job /\ q.id = r.id /\ q.seen = r.seen /\ q.default = r.default
    /\ q.plan = r.plan /\ q.reads = r.reads
    /\ q.done = r.done /\ q.tried = r.tried /\ q.left = r.left

LEMMA SavedRereads ==
    ASSUME Typed, NEW x \in 1..Terminals, Step(x, [pc |-> "reread", ask |-> NoAsk])
    PROVE  Rereads(x)
  BY DEF Step, Rereads, Moves, Typed, SessionOK, Fields

\* A program has staged a plan, or a user editor changed its memory.
Stages(x, pc, plan, reads, ask) ==
    LET r == sess[x]
        q == sess'[x] IN
    /\ Moves(x)
    /\ DOMAIN q = Fields /\ q.pc = pc /\ q.plan = plan /\ q.reads = reads /\ q.ask = ask
    /\ q.job = r.job /\ q.id = r.id /\ q.seen = r.seen /\ q.default = r.default
    /\ q.done = r.done /\ q.tried = r.tried /\ q.left = r.left

LEMMA AddStages ==
    ASSUME Typed, NEW x \in 1..Terminals, NEW pc, NEW plan, NEW reads,
           Step(x, [pc |-> pc, plan |-> plan, reads |-> reads])
    PROVE  Stages(x, pc, plan, reads, sess[x].ask)
  BY DEF Step, Stages, Moves, Typed, SessionOK, Fields

LEMMA SoftwareStages ==
    ASSUME Typed, NEW x \in 1..Terminals, NEW pc, NEW plan,
           Step(x, [pc |-> pc, plan |-> plan])
    PROVE  Stages(x, pc, plan, sess[x].reads, sess[x].ask)
  BY DEF Step, Stages, Moves, Typed, SessionOK, Fields

LEMMA RemovalStages ==
    ASSUME Typed, NEW x \in 1..Terminals, NEW pc, NEW plan, NEW reads, NEW ask,
           Step(x, [pc |-> pc, plan |-> plan, reads |-> reads, ask |-> ask])
    PROVE  Stages(x, pc, plan, reads, ask)
  BY DEF Step, Stages, Moves, Typed, SessionOK, Fields

LEMMA EditStages ==
    ASSUME Typed, NEW x \in 1..Terminals, NEW pc, NEW plan, NEW ask,
           Step(x, [pc |-> pc, plan |-> plan, ask |-> ask])
    PROVE  Stages(x, pc, plan, sess[x].reads, ask)
  BY DEF Step, Stages, Moves, Typed, SessionOK, Fields

\* A program starts.
Begins(x, pc, job, s, default, plan, reads) ==
    LET q == sess'[x] IN
    /\ Moves(x)
    /\ DOMAIN q = Fields /\ q.pc = pc /\ q.job = job /\ q.seen = disk["servers"]
    /\ q.id = s /\ q.default = default /\ q.plan = plan /\ q.reads = reads
    /\ q.done = sess[x].done /\ q.tried = sess[x].tried
    /\ q.ask = sess[x].ask /\ q.left = sess[x].left

LEMMA OpenStarts ==
    ASSUME Typed, NEW x \in 1..Terminals, NEW job, NEW s, NEW default,
           Step(x, [pc |-> "asked", job |-> job, id |-> s, seen |-> disk["servers"],
                    default |-> default])
    PROVE  Begins(x, "asked", job, s, default, sess[x].plan, sess[x].reads)
  BY DEF Step, Begins, Moves, Typed, SessionOK, Fields

LEMMA EditorStarts ==
    ASSUME Typed, NEW x \in 1..Terminals, NEW default, NEW plan, NEW reads,
           Step(x, [pc |-> "editing", job |-> "users", seen |-> disk["servers"],
                    default |-> default, plan |-> plan, reads |-> reads])
    PROVE  Begins(x, "editing", "users", sess[x].id, default, plan, reads)
  BY DEF Step, Begins, Moves, Typed, SessionOK, Fields

-----------------------------------------------------------------------------
(* Sessions stay well typed and their plans keep what they promise.          *)

Fine(r) == SessionOK(r) /\ JobOK(r)

\* A free terminal is fine.
LEMMA IdleFine == Fine(Idle)
<1>1. <<>> \in Lists
  BY DEF Lists
<1>2. PlanOK(<<>>) /\ Apart(<<>>, <<>>)
  BY DEF PlanOK, Apart
<1>3. SessionOK(Idle)
  <2>1. DOMAIN Idle = Fields
    BY DEF Idle, Fields
  <2>2. /\ Idle.pc = "idle" /\ Idle.job = "none" /\ Idle.id = NoId /\ Idle.seen = <<>>
        /\ Idle.default = NoId /\ Idle.plan = <<>> /\ Idle.reads = <<>> /\ Idle.done = 0
        /\ Idle.tried = 0 /\ Idle.ask = NoAsk /\ Idle.left = {}
    BY DEF Idle
  <2>3. Len(<<>>) = 0
    OBVIOUS
  <2>4. NoAsk.give \in BOOLEAN /\ NoAsk.pairs \subseteq Users \X Ids
    BY DEF NoAsk
  <2>5. QED
    BY <1>1, <1>2, <2>1, <2>2, <2>3, <2>4 DEF SessionOK
<1>4. JobOK(Idle)
  BY DEF JobOK, Counted, AgentPcs, Staged, Idle
<1>5. QED
  BY <1>3, <1>4 DEF Fine

\* A program that moves its counter keeps its plan and what the plan promises.
LEMMA GoesFine ==
    ASSUME Typed, Jobs, NEW x \in 1..Terminals,
           NEW pc \in {"configuring", "check", "write", "undo", "unconfigure", "unconfiguring"},
           NEW done, NEW tried, NEW left,
           Goes(x, pc, done, tried, left),
           sess[x].pc \in {"check", "write", "undo"} \cup AgentPcs,
           done \in 0..Len(sess[x].plan), tried \in 0..Len(sess[x].plan), left \subseteq Files,
           LET first == IF IsRemote(sess[x]) THEN 1 ELSE 0 IN
           /\ pc = "check" => done = first
           /\ pc = "write" => first <= done /\ done < Len(sess[x].plan)
           /\ pc = "undo" => first <= done /\ done <= tried /\ tried < Len(sess[x].plan)
           /\ pc = "configuring" => IsRemote(sess[x]) /\ done = 0
           /\ pc \in {"unconfigure", "unconfiguring"} => IsRemote(sess[x]) /\ done = 1
    PROVE  Fine(sess'[x])
<1> DEFINE r == sess[x]
           q == sess'[x]
<1>1. SessionOK(r) /\ JobOK(r)
  BY DEF Typed, Jobs
<1>2. /\ DOMAIN q = Fields /\ q.pc = pc /\ q.done = done /\ q.tried = tried /\ q.left = left
      /\ q.job = r.job /\ q.id = r.id /\ q.seen = r.seen /\ q.default = r.default
      /\ q.plan = r.plan /\ q.reads = r.reads /\ q.ask = r.ask
  BY DEF Goes
<1>3. /\ r.pc \in {"check", "write", "undo"} \cup AgentPcs /\ r.job # "none"
      /\ r.pc \in AgentPcs => IsRemote(r)
  BY <1>1 DEF JobOK, Counted
<1>4. IsRemote(q) = IsRemote(r)
  BY <1>2 DEF IsRemote
<1> HIDE DEF r, q
<1>5. SessionOK(q)
  BY <1>1, <1>2 DEF SessionOK, r
<1>6. Counted(q)
  BY <1>2, <1>3, <1>4 DEF Counted, AgentPcs, r
<1>s. Staged(r)
  BY <1>3 DEF Staged, AgentPcs
<1>7. r.job = "add" => Fresh(q) /\ AddOK(q)
  BY <1>1, <1>2, <1>s DEF JobOK, Fresh, AddOK, LastIs, OldOf, NewOf
<1>8. r.job = "software" => q.id \in Registered(q.seen) /\ SoftwareOK(q)
  BY <1>1, <1>2, <1>s DEF JobOK, SoftwareOK, LastIs, OldOf, NewOf
<1>9. r.job = "remove" => q.id \in Registered(q.seen) /\ RemoveOK(q)
  <2>1. SUFFICES ASSUME r.job = "remove" PROVE q.id \in Registered(q.seen) /\ RemoveOK(q)
    OBVIOUS
  <2>2. r.id \in Registered(r.seen) /\ RemoveOK(r)
    BY <1>1, <1>s, <2>1 DEF JobOK
  <2>3. QED
    BY <1>2, <2>2 DEF RemoveOK, LastIs, OldOf, NewOf
<1>10. r.job = "users" => UsersOK(q)
  <2>1. SUFFICES ASSUME r.job = "users" PROVE UsersOK(q)
    OBVIOUS
  <2>2. UsersOK(r) /\ r.pc \in {"check", "write", "undo"}
    BY <1>1, <1>3, <1>s, <2>1 DEF JobOK, IsRemote
  <2>3. QED
    BY <1>2, <2>2 DEF UsersOK, LastIs, OldOf, NewOf
<1>11. JobOK(q)
  BY <1>2, <1>6, <1>7, <1>8, <1>9, <1>10 DEF JobOK
<1>12. QED
  BY <1>5, <1>11 DEF Fine, q

\* An editor that has saved keeps one file in its plan.
LEMMA RereadsFine ==
    ASSUME Typed, Jobs, NEW x \in 1..Terminals, Rereads(x),
           sess[x].pc = "write", sess[x].job = "users", sess[x].done + 1 = Len(sess[x].plan)
    PROVE  Fine(sess'[x])
<1> DEFINE r == sess[x]
           q == sess'[x]
<1>1. SessionOK(r) /\ JobOK(r)
  BY DEF Typed, Jobs
<1>2. /\ DOMAIN q = Fields /\ q.pc = "reread" /\ q.ask = NoAsk
      /\ q.job = r.job /\ q.id = r.id /\ q.seen = r.seen /\ q.default = r.default
      /\ q.plan = r.plan /\ q.reads = r.reads
      /\ q.done = r.done /\ q.tried = r.tried /\ q.left = r.left
  BY DEF Rereads
<1>3. r.pc = "write" /\ r.job = "users" /\ r.done + 1 = Len(r.plan)
  OBVIOUS
<1> HIDE DEF r, q
<1>4. SessionOK(q)
  BY <1>1, <1>2 DEF SessionOK, NoAsk
<1>5. UsersOK(r)
  BY <1>1, <1>3 DEF JobOK, Staged
<1>6. UsersOK(q)
  BY <1>2, <1>5 DEF UsersOK, LastIs, OldOf, NewOf
<1>7. q.done = 0
  BY <1>1, <1>2, <1>3, <1>5 DEF UsersOK, SessionOK
<1>8. JobOK(q)
  BY <1>2, <1>3, <1>6, <1>7 DEF JobOK, Counted, AgentPcs, IsRemote
<1>9. QED
  BY <1>4, <1>8 DEF Fine, q

\* A program starts on what it has just read.
LEMMA OpenFine ==
    ASSUME SettingsAssumption, Typed, Jobs, NEW x \in 1..Terminals, Open(x)
    PROVE  Moves(x) /\ Fine(sess'[x]) /\ sess'[x].pc = "asked" /\ sess'[x].left = sess[x].left
<1> DEFINE r == sess[x]
           q == sess'[x]
           seen == disk["servers"]
<1>1. PICK job \in {"add", "software", "remove"}, s \in Ids :
        /\ job = "add" => s \notin Registered(seen) /\ \A i \in DOMAIN seen : seen[i].key # s
        /\ job # "add" => s \in Registered(seen)
        /\ Step(x, [pc |-> "asked", job |-> job, id |-> s, seen |-> seen,
                    default |-> DefaultId(disk["env"])])
  BY DEF Open
<1>2. r.pc = "idle" /\ SessionOK(r) /\ JobOK(r)
  BY DEF Open, Free, Typed, Jobs
<1>3. Begins(x, "asked", job, s, DefaultId(disk["env"]), r.plan, r.reads)
  BY <1>1, OpenStarts
<1>4. Moves(x)
  BY <1>3 DEF Begins
<1>5. /\ DOMAIN q = Fields /\ q.pc = "asked" /\ q.job = job /\ q.seen = seen /\ q.id = s
      /\ q.default = DefaultId(disk["env"]) /\ q.plan = r.plan /\ q.reads = r.reads
      /\ q.done = r.done /\ q.tried = r.tried /\ q.ask = r.ask /\ q.left = r.left
  BY <1>3 DEF Begins
<1>6. seen \in Lists /\ DefaultId(disk["env"]) \in Ids \cup {NoId}
  <2>1. disk["env"] \in Envs /\ disk["servers"] \in Lists
    BY DEF Typed, Holds, Files
  <2>2. QED
    BY <2>1 DEF SettingsAssumption, DefaultId, Envs
<1> HIDE DEF r, q, seen
<1>7. SessionOK(q)
  BY <1>2, <1>5, <1>6 DEF SessionOK
<1>8. JobOK(q)
  BY <1>1, <1>2, <1>5 DEF JobOK, Counted, AgentPcs, Staged, Fresh, IsRemote
<1>9. QED
  BY <1>4, <1>5, <1>7, <1>8 DEF Fine, q, r

\* Every file holds what its readers expect.
LEMMA DiskTyped ==
    ASSUME SettingsAssumption, Typed
    PROVE  /\ disk["env"] \in Envs /\ disk["users"] \in People /\ disk["tasks"] \subseteq Ids
           /\ disk["servers"] \in Lists
           /\ \A s \in Ids : /\ s \in Files /\ disk[s] \in Secrets \cup {NoSecret}
                             /\ s \notin {"env", "users", "tasks", "servers"}
           /\ {"env", "users", "tasks", "servers"} \subseteq Files
  BY DEF Typed, Holds, Files, SettingsAssumption

LEMMA ChangeTyped ==
    ASSUME NEW f \in Files, NEW old, NEW new, Holds(f, old), Holds(f, new)
    PROVE  /\ ChangeOK(Change(f, old, new)) /\ Change(f, old, new).file = f
           /\ Change(f, old, new).old = old /\ Change(f, old, new).new = new
  BY DEF ChangeOK, Change

\* The changes of a wizard that adds a server.
LEMMA AddChanges ==
    ASSUME SettingsAssumption, Typed, Jobs, NEW x \in 1..Terminals,
           sess[x].pc = "asked", sess[x].job = "add", NEW secret \in Choices(sess[x].id)
    PROVE  LET p == Properties(x, secret)
               e == Variable(x, secret)
               s == NewEntry(x)
               id == sess[x].id IN
           /\ secret \in Secrets /\ id \in Ids /\ Fresh(sess[x])
           /\ ChangeOK(p) /\ p.file = id /\ p.old = disk[id] /\ p.new = secret
           /\ ChangeOK(e) /\ e.file = "env" /\ e.old = disk["env"]
           /\ e.new = UpdateEnv(disk["env"], id, secret)
           /\ ChangeOK(s) /\ s.file = "servers" /\ s.old = sess[x].seen
           /\ s.new = Append(sess[x].seen, BuildEntry(id))
           /\ id \notin {"env", "servers"}
<1> DEFINE id == sess[x].id
           seen == sess[x].seen
<1>1. SessionOK(sess[x]) /\ JobOK(sess[x])
  BY DEF Typed, Jobs
<1>2. Fresh(sess[x]) /\ seen \in Lists
  BY <1>1 DEF JobOK, SessionOK
<1>3. id \in Ids \ Registered(seen)
  BY <1>2 DEF Fresh
<1>4. secret \in Secrets
  BY <1>3, DiskTyped DEF Choices
<1>5. UpdateEnv(disk["env"], id, secret) \in Envs
  BY <1>3, <1>4, DiskTyped DEF UpdateEnv, Envs
<1>6. Append(seen, BuildEntry(id)) \in Lists
  BY <1>2, <1>3, Appended
<1>7. /\ id \in Files /\ "env" \in Files /\ "servers" \in Files
      /\ id \notin {"env", "users", "tasks", "servers"} /\ disk[id] \in Secrets \cup {NoSecret}
  BY <1>3, DiskTyped
<1>8. "env" \notin Ids /\ "servers" \notin Ids
  BY DEF SettingsAssumption
<1>9. /\ Holds(id, disk[id]) /\ Holds(id, secret)
      /\ Holds("env", disk["env"]) /\ Holds("env", UpdateEnv(disk["env"], id, secret))
      /\ Holds("servers", seen) /\ Holds("servers", Append(seen, BuildEntry(id)))
  BY <1>2, <1>3, <1>4, <1>5, <1>6, <1>7, <1>8, DiskTyped DEF Holds
<1> HIDE DEF id, seen
<1>10. LET p == Change(id, disk[id], secret) IN
       ChangeOK(p) /\ p.file = id /\ p.old = disk[id] /\ p.new = secret
  BY <1>7, <1>9, ChangeTyped
<1>11. LET e == Change("env", disk["env"], UpdateEnv(disk["env"], id, secret)) IN
       /\ ChangeOK(e) /\ e.file = "env" /\ e.old = disk["env"]
       /\ e.new = UpdateEnv(disk["env"], id, secret)
  <2> DEFINE env == UpdateEnv(disk["env"], id, secret)
  <2>1. "env" \in Files /\ Holds("env", disk["env"]) /\ Holds("env", env)
    BY <1>7, <1>9
  <2> HIDE DEF env
  <2>2. LET e == Change("env", disk["env"], env) IN
        ChangeOK(e) /\ e.file = "env" /\ e.old = disk["env"] /\ e.new = env
    BY <2>1, ChangeTyped
  <2>3. QED
    BY <2>2 DEF env
<1>12. LET s == Change("servers", seen, Append(seen, BuildEntry(id))) IN
       /\ ChangeOK(s) /\ s.file = "servers" /\ s.old = seen
       /\ s.new = Append(seen, BuildEntry(id))
  <2> DEFINE more == Append(seen, BuildEntry(id))
  <2>1. "servers" \in Files /\ Holds("servers", seen) /\ Holds("servers", more)
    BY <1>7, <1>9
  <2> HIDE DEF more
  <2>2. LET s == Change("servers", seen, more) IN
        ChangeOK(s) /\ s.file = "servers" /\ s.old = seen /\ s.new = more
    BY <2>1, ChangeTyped
  <2>3. QED
    BY <2>2 DEF more
<1>13. QED
  BY <1>2, <1>3, <1>4, <1>7, <1>10, <1>11, <1>12 DEF Properties, Variable, NewEntry, id, seen

\* What the plan of three changes promises to a wizard that adds a server.
LEMMA AddPromise ==
    ASSUME NEW q, NEW p, NEW e, NEW s, Fresh(q), PlanOK(q.plan), PlanOK(q.reads),
           Apart(q.plan, q.reads), Changes(q.plan, q.reads) = {p, e, s},
           Len(q.plan) > 0, q.plan[Len(q.plan)] = s, q.ask = NoAsk,
           p.file = q.id, p.new \in Secrets, e.file = "env",
           e.new = UpdateEnv(e.old, q.id, p.new),
           s.file = "servers", s.old = q.seen, s.new = Append(q.seen, BuildEntry(q.id)),
           q.id \in Remote => q.plan[1] = p /\ Len(q.plan) > 1
    PROVE  AddOK(q)
<1>1. /\ Old(q.plan, q.reads, e.file) = e.old /\ New(q.plan, q.reads, e.file) = e.new
      /\ Old(q.plan, q.reads, s.file) = s.old /\ New(q.plan, q.reads, s.file) = s.new
      /\ New(q.plan, q.reads, p.file) = p.new
  BY Looked
<1>2. FilesOf(q.plan, q.reads) = {"env", "servers", q.id}
  BY DEF FilesOf
<1>3. QED
  BY <1>1, <1>2 DEF AddOK, OldOf, NewOf, LastIs

\* The plan of a local server: its secret, its variable, its entry.
LEMMA StageAddFine ==
    ASSUME SettingsAssumption, Typed, Jobs, NEW x \in 1..Terminals, StageAdd(x)
    PROVE  Moves(x) /\ Fine(sess'[x]) /\ sess'[x].pc = "check" /\ sess'[x].done = 0
<1> DEFINE r == sess[x]
           q == sess'[x]
<1>1. PICK secret \in Choices(r.id) :
        Step(x, [pc |-> "check", plan |-> Changed(Properties(x, secret))
                                             \o Changed(Variable(x, secret)) \o <<NewEntry(x)>>,
                 reads |-> Same(Properties(x, secret)) \o Same(Variable(x, secret))])
  BY DEF StageAdd
<1> DEFINE p == Properties(x, secret)
           e == Variable(x, secret)
           s == NewEntry(x)
           plan == Changed(p) \o Changed(e) \o <<s>>
           reads == Same(p) \o Same(e)
<1>2. r.pc = "asked" /\ r.job = "add" /\ r.id \notin Remote /\ SessionOK(r) /\ JobOK(r)
  BY DEF StageAdd, Typed, Jobs
<1>3. /\ secret \in Secrets /\ Fresh(r)
      /\ ChangeOK(p) /\ p.file = r.id /\ p.new = secret
      /\ ChangeOK(e) /\ e.file = "env" /\ e.new = UpdateEnv(e.old, r.id, secret)
      /\ ChangeOK(s) /\ s.file = "servers" /\ s.old = r.seen
      /\ s.new = Append(r.seen, BuildEntry(r.id))
      /\ r.id \notin {"env", "servers"}
  BY <1>2, AddChanges
<1>4. Stages(x, "check", plan, reads, r.ask)
  BY <1>1, AddStages
<1> HIDE DEF p, e, s
<1>5. /\ PlanOK(plan) /\ PlanOK(reads) /\ Apart(plan, reads)
      /\ Changes(plan, reads) = {p, e, s}
      /\ Len(plan) > 0 /\ plan[Len(plan)] = s
  BY <1>3, AddPlan
<1> HIDE DEF plan, reads
<1>6. Moves(x)
  BY <1>4 DEF Stages
<1>7. /\ DOMAIN q = Fields /\ q.pc = "check" /\ q.plan = plan /\ q.reads = reads
      /\ q.job = r.job /\ q.id = r.id /\ q.seen = r.seen /\ q.default = r.default
      /\ q.done = r.done /\ q.tried = r.tried /\ q.left = r.left /\ q.ask = r.ask
  BY <1>4 DEF Stages
<1>8. r.ask = NoAsk /\ r.done = 0 /\ r.tried = 0
  BY <1>2 DEF JobOK, Counted, SessionOK
<1> HIDE DEF r, q
<1>9. SessionOK(q)
  BY <1>2, <1>5, <1>7, <1>8 DEF SessionOK, PlanOK
<1>10. Fresh(q)
  BY <1>3, <1>7 DEF Fresh
<1>11. AddOK(q)
  BY <1>2, <1>3, <1>5, <1>7, <1>8, <1>10, AddPromise, SMTT(30)
<1>12. JobOK(q)
  BY <1>2, <1>7, <1>8, <1>10, <1>11 DEF JobOK, Counted, AgentPcs, IsRemote
<1>13. QED
  BY <1>6, <1>7, <1>8, <1>9, <1>12 DEF Fine, q

\* The plan of a remote server, whose secret comes first.
LEMMA StageRemoteFine ==
    ASSUME SettingsAssumption, Typed, Jobs, NEW x \in 1..Terminals, StageRemote(x)
    PROVE  Moves(x) /\ Fine(sess'[x]) /\ sess'[x].pc = "configure"
<1> DEFINE r == sess[x]
           q == sess'[x]
<1>1. PICK secret \in Choices(r.id) :
        Step(x, [pc |-> "configure",
                 plan |-> <<Properties(x, secret)>> \o Changed(Variable(x, secret))
                             \o <<NewEntry(x)>>,
                 reads |-> Same(Variable(x, secret))])
  BY DEF StageRemote
<1> DEFINE p == Properties(x, secret)
           e == Variable(x, secret)
           s == NewEntry(x)
           plan == <<p>> \o Changed(e) \o <<s>>
           reads == Same(e)
<1>2. r.pc = "asked" /\ r.job = "add" /\ r.id \in Remote /\ SessionOK(r) /\ JobOK(r)
  BY DEF StageRemote, Typed, Jobs
<1>3. /\ secret \in Secrets /\ Fresh(r)
      /\ ChangeOK(p) /\ p.file = r.id /\ p.new = secret
      /\ ChangeOK(e) /\ e.file = "env" /\ e.new = UpdateEnv(e.old, r.id, secret)
      /\ ChangeOK(s) /\ s.file = "servers" /\ s.old = r.seen
      /\ s.new = Append(r.seen, BuildEntry(r.id))
      /\ r.id \notin {"env", "servers"}
  <2>1. sess[x].pc = "asked" /\ sess[x].job = "add"
    BY <1>2
  <2>2. /\ secret \in Secrets /\ Fresh(r)
        /\ ChangeOK(p) /\ p.file = r.id /\ p.new = secret
        /\ ChangeOK(e) /\ e.file = "env" /\ e.old = disk["env"]
        /\ e.new = UpdateEnv(disk["env"], r.id, secret)
        /\ ChangeOK(s) /\ s.file = "servers" /\ s.old = r.seen
        /\ s.new = Append(r.seen, BuildEntry(r.id))
        /\ r.id \notin {"env", "servers"}
    BY <2>1, AddChanges
  <2> HIDE DEF p, e, s
  <2>3. QED
    BY <2>2
<1>4. Stages(x, "configure", plan, reads, r.ask)
  BY <1>1, AddStages
<1> HIDE DEF p, e, s
<1>5. /\ PlanOK(plan) /\ PlanOK(reads) /\ Apart(plan, reads)
      /\ Changes(plan, reads) = {p, e, s}
      /\ Len(plan) > 1 /\ plan[Len(plan)] = s /\ plan[1] = p
  BY <1>3, RemotePlan, SMTT(30)
<1> HIDE DEF plan, reads
<1>6. Moves(x)
  BY <1>4 DEF Stages
<1>7. /\ DOMAIN q = Fields /\ q.pc = "configure" /\ q.plan = plan /\ q.reads = reads
      /\ q.job = r.job /\ q.id = r.id /\ q.seen = r.seen /\ q.default = r.default
      /\ q.done = r.done /\ q.tried = r.tried /\ q.left = r.left /\ q.ask = r.ask
  BY <1>4 DEF Stages
<1>8. r.ask = NoAsk /\ r.done = 0 /\ r.tried = 0
  BY <1>2 DEF JobOK, Counted, SessionOK
<1> HIDE DEF r, q
<1>9. SessionOK(q)
  BY <1>2, <1>5, <1>7, <1>8 DEF SessionOK, PlanOK
<1>10. Fresh(q)
  BY <1>3, <1>7 DEF Fresh
<1>11. Len(q.plan) > 0
  BY <1>5, <1>7 DEF PlanOK
<1>12. AddOK(q)
  <2>1. /\ PlanOK(q.plan) /\ PlanOK(q.reads) /\ Apart(q.plan, q.reads)
        /\ Changes(q.plan, q.reads) = {p, e, s} /\ q.plan[Len(q.plan)] = s
        /\ q.plan[1] = p /\ Len(q.plan) > 1
    BY <1>5, <1>7
  <2>2. /\ q.ask = NoAsk /\ p.file = q.id /\ p.new \in Secrets /\ e.file = "env"
        /\ e.new = UpdateEnv(e.old, q.id, p.new)
        /\ s.file = "servers" /\ s.old = q.seen /\ s.new = Append(q.seen, BuildEntry(q.id))
    BY <1>3, <1>7, <1>8
  <2>3. QED
    BY <1>10, <1>11, <2>1, <2>2, AddPromise
<1>13. JobOK(q)
  BY <1>2, <1>7, <1>8, <1>10, <1>12 DEF JobOK, Counted, IsRemote
<1>14. QED
  BY <1>6, <1>7, <1>9, <1>13 DEF Fine, q

\* A plan of one change.
LEMMA OnePlan ==
    ASSUME NEW c, ChangeOK(c)
    PROVE  /\ PlanOK(<<c>>) /\ Len(<<c>>) = 1 /\ <<c>>[1] = c
           /\ PlanOK(<<>>) /\ Apart(<<c>>, <<>>) /\ Changes(<<c>>, <<>>) = {c}
<1>1. Len(<<c>>) = 1 /\ DOMAIN <<c>> = 1..1 /\ <<c>>[1] = c
  OBVIOUS
<1>2. Len(<<>>) = 0 /\ DOMAIN <<>> = 1..0
  OBVIOUS
<1>3. PlanOK(<<c>>) /\ PlanOK(<<>>)
  BY <1>1, <1>2 DEF PlanOK
<1>4. Apart(<<c>>, <<>>)
  BY <1>1, <1>2 DEF Apart
<1>5. Changes(<<c>>, <<>>) = {c}
  BY <1>1, <1>2 DEF Changes
<1>6. QED
  BY <1>1, <1>3, <1>4, <1>5

\* The plan of a change of software: the registry with the same ids and variables.
LEMMA SoftwareFine ==
    ASSUME SettingsAssumption, Typed, Jobs, NEW x \in 1..Terminals, EditExistingSoftware(x)
    PROVE  Moves(x) /\ Fine(sess'[x]) /\ sess'[x].pc = "check" /\ sess'[x].done = 0
<1> DEFINE r == sess[x]
           q == sess'[x]
           seen == r.seen
           i == Position(seen, r.id)
           new == [seen EXCEPT ![i].mods = ~@]
           c == Change("servers", seen, new)
           plan == <<c>>
<1>1. Step(x, [pc |-> "check", plan |-> plan])
  BY DEF EditExistingSoftware
<1>2. r.pc = "asked" /\ r.job = "software" /\ SessionOK(r) /\ JobOK(r)
  BY DEF EditExistingSoftware, Typed, Jobs
<1>3. /\ r.ask = NoAsk /\ r.done = 0 /\ r.tried = 0 /\ r.reads = <<>>
      /\ r.id \in Registered(seen) /\ seen \in Lists
  BY <1>2 DEF JobOK, Counted, SessionOK
<1>4. i \in DOMAIN seen
  BY <1>3, Placed
<1>5. /\ new \in Lists /\ DOMAIN new = DOMAIN seen /\ new # seen
      /\ \A j \in DOMAIN new : new[j].id = seen[j].id /\ new[j].key = seen[j].key
  BY <1>3, <1>4, Toggled
<1> HIDE DEF new
<1>6. ChangeOK(c) /\ c.file = "servers" /\ c.old = seen /\ c.new = new
  <2>1. "servers" \in Files /\ "servers" \notin Ids
    BY DEF Files, SettingsAssumption
  <2>2. Holds("servers", seen) /\ Holds("servers", new)
    BY <1>3, <1>5, <2>1 DEF Holds
  <2>3. QED
    BY <2>1, <2>2, ChangeTyped
<1>7. Stages(x, "check", plan, r.reads, r.ask)
  BY <1>1, SoftwareStages
<1> HIDE DEF c
<1>8. /\ PlanOK(plan) /\ Len(plan) = 1 /\ plan[1] = c
      /\ PlanOK(r.reads) /\ Apart(plan, r.reads) /\ Changes(plan, r.reads) = {c}
  BY <1>3, <1>6, OnePlan
<1> HIDE DEF plan
<1>9. Moves(x)
  BY <1>7 DEF Stages
<1>10. /\ DOMAIN q = Fields /\ q.pc = "check" /\ q.plan = plan /\ q.reads = r.reads
       /\ q.job = r.job /\ q.id = r.id /\ q.seen = r.seen /\ q.default = r.default
       /\ q.done = r.done /\ q.tried = r.tried /\ q.left = r.left /\ q.ask = r.ask
  BY <1>7 DEF Stages
<1>11. /\ Old(q.plan, q.reads, "servers") = seen
       /\ New(q.plan, q.reads, "servers") = new
  BY <1>6, <1>8, <1>10, Looked
<1>12. FilesOf(q.plan, q.reads) = {"servers"}
  BY <1>6, <1>8, <1>10 DEF FilesOf
<1> HIDE DEF q, r, seen
<1>13. q.seen = seen
  BY <1>10 DEF seen
<1>14. SessionOK(q)
  BY <1>2, <1>3, <1>8, <1>10 DEF SessionOK
<1>15. SoftwareOK(q)
  <2>1. /\ OldOf(q, "servers") = q.seen /\ NewOf(q, "servers") = new
        /\ DOMAIN new = DOMAIN q.seen
        /\ \A j \in DOMAIN new : new[j].id = q.seen[j].id /\ new[j].key = q.seen[j].key
    BY <1>5, <1>11, <1>13 DEF OldOf, NewOf
  <2>2. LastIs(q, "servers") /\ Len(q.plan) = 1 /\ q.ask = NoAsk
    <3>1. Len(q.plan) = 1 /\ q.plan[1].file = "servers"
      BY <1>6, <1>8, <1>10
    <3>2. QED
      BY <3>1, <1>3, <1>10 DEF LastIs
  <2>3. QED
    BY <1>12, <2>1, <2>2 DEF SoftwareOK
<1>16. JobOK(q)
  BY <1>2, <1>3, <1>10, <1>13, <1>15 DEF JobOK, Counted, AgentPcs, IsRemote
<1>17. QED
  BY <1>3, <1>9, <1>10, <1>14, <1>16 DEF Fine, q

\* The files after a removal, as RemoveOK describes them.
LEMMA RemovalEnv ==
    ASSUME NEW before \in Envs, NEW old, NEW entry \in Entries,
           NEW remaining \in Lists, NEW new \in Ids,
           NEW env, env = EnvWithout(before, entry, remaining, old, new)
    PROVE  /\ env \in Envs
           /\ env.default = IF new = old THEN before.default ELSE new
           /\ \A i \in DOMAIN remaining :
                 env.key[remaining[i].key] = before.key[remaining[i].key]
<1> DEFINE keys == [before.key EXCEPT ![entry.key] = NoSecret]
<1>1. entry.key \in Ids /\ keys \in [Ids -> Secrets \cup {NoSecret}]
  BY DEF Envs, Entries
<1>2. /\ env.default = IF new = old THEN before.default ELSE new
      /\ env.key = IF \E i \in DOMAIN remaining : remaining[i].key = entry.key
                   THEN before.key ELSE keys
      /\ env = [default |-> env.default, key |-> env.key]
  BY DEF EnvWithout
<1>3. env \in Envs
  BY <1>1, <1>2 DEF Envs
<1>4. \A i \in DOMAIN remaining : env.key[remaining[i].key] = before.key[remaining[i].key]
  BY <1>1, <1>2, ListShape DEF Envs, Entries
<1>5. QED
  BY <1>2, <1>3, <1>4

LEMMA RemovalUsers ==
    ASSUME NEW users \in People, NEW s, NEW moved
    PROVE  [u \in Users |-> RemoveServerPermissions(users[u], s, moved)] \in People
<1>1. SUFFICES ASSUME NEW u \in Users
               PROVE  RemoveServerPermissions(users[u], s, moved)
                         \in [legacy : BOOLEAN, on : SUBSET Ids]
  BY DEF People
<1>2. users[u] \in [legacy : BOOLEAN, on : SUBSET Ids]
  BY DEF People
<1>3. QED
  BY <1>2 DEF RemoveServerPermissions, Nobody

\* The plan of a removal: what remains is without the server.
LEMMA StageRemovalFine ==
    ASSUME SettingsAssumption, Typed, Jobs, NEW x \in 1..Terminals, StageRemoval(x)
    PROVE  /\ Moves(x) /\ Fine(sess'[x]) /\ sess'[x].pc = "check" /\ sess'[x].done = 0
           /\ sess'[x].default = sess[x].default
           /\ OldOf(sess'[x], "env") = disk["env"]
           /\ sess'[x].left = sess[x].left /\ sess'[x].job = "remove"
<1> DEFINE r == sess[x]
           q == sess'[x]
           id == r.id
           seen == r.seen
           i == Position(seen, id)
           remaining == SubSeq(seen, 1, i - 1) \o SubSeq(seen, i + 1, Len(seen))
           old == r.default
           e0(new) == Change("env", disk["env"],
                             EnvWithout(disk["env"], seen[i], remaining, old, new))
           u0(new) == Change("users", disk["users"],
                        [u \in Users |->
                            RemoveServerPermissions(disk["users"][u], id, new # old)])
           t == Change("tasks", disk["tasks"], RemoveServerState(disk["tasks"], id))
           s == Change("servers", seen, remaining)
           ask == [give |-> FALSE, pairs |-> Users \X {id}]
<1>1. PICK new \in Registered(remaining) :
        /\ old \in Registered(remaining) => new = old
        /\ Step(x, [pc |-> "check", plan |-> RemovalOrder(e0(new), u0(new), t, s),
                    reads |-> Same(e0(new)) \o Same(u0(new)) \o Same(t), ask |-> ask])
  BY DEF StageRemoval
<1> DEFINE e == e0(new)
           u == u0(new)
           plan == RemovalOrder(e, u, t, s)
           reads == Same(e) \o Same(u) \o Same(t)
           env == EnvWithout(disk["env"], seen[i], remaining, old, new)
           users == [v \in Users |->
                        RemoveServerPermissions(disk["users"][v], id, new # old)]
           tasks == RemoveServerState(disk["tasks"], id)
<1>2. r.pc = "asked" /\ r.job = "remove" /\ SessionOK(r) /\ JobOK(r)
  BY DEF StageRemoval, Typed, Jobs
<1>3. /\ r.done = 0 /\ r.tried = 0 /\ id \in Registered(seen) /\ seen \in Lists
  BY <1>2 DEF JobOK, Counted, SessionOK
<1>4. i \in DOMAIN seen /\ seen[i] \in Entries /\ id \in Ids
  BY <1>3, Placed, ListShape
<1>5. /\ remaining \in Lists /\ remaining # seen
      /\ Registered(remaining) = Registered(seen) \ {id}
      /\ \A j \in DOMAIN remaining : \E k \in DOMAIN seen : remaining[j] = seen[k]
  BY <1>3, Without
<1>6. Stages(x, "check", plan, reads, ask)
  BY <1>1, RemovalStages
<1> HIDE DEF remaining, r, i
<1>7. /\ env \in Envs
      /\ env.default = IF new = old THEN disk["env"].default ELSE new
      /\ \A j \in DOMAIN remaining :
            env.key[remaining[j].key] = disk["env"].key[remaining[j].key]
      /\ users \in People /\ tasks \subseteq Ids
  <2>1. new \in Ids
    BY <1>1, <1>5, ListShape DEF remaining, r, i
  <2>2. tasks \subseteq Ids
    BY DiskTyped DEF RemoveServerState
  <2>3. users \in People
    BY DiskTyped, RemovalUsers
  <2> DEFINE before == disk["env"]
             entry == seen[i]
  <2>4. before \in Envs /\ entry \in Entries /\ env = EnvWithout(before, entry, remaining, old, new)
    BY <1>4, DiskTyped
  <2> HIDE DEF before, entry, env
  <2>5. /\ env \in Envs
        /\ env.default = IF new = old THEN before.default ELSE new
        /\ \A j \in DOMAIN remaining : env.key[remaining[j].key] = before.key[remaining[j].key]
    BY <1>5, <2>1, <2>4, RemovalEnv
  <2>6. QED
    BY <2>2, <2>3, <2>5 DEF before
<1>8. ChangeOK(e) /\ e.file = "env" /\ e.old = disk["env"] /\ e.new = env
  <2>1. Holds("env", disk["env"]) /\ Holds("env", env) /\ "env" \in Files
    BY <1>7, DiskTyped DEF Holds, SettingsAssumption
  <2> HIDE DEF env
  <2>2. e = Change("env", disk["env"], env)
    BY DEF env
  <2>3. QED
    BY <2>1, <2>2, ChangeTyped
<1>9. ChangeOK(u) /\ u.file = "users" /\ u.old = disk["users"] /\ u.new = users
  <2>1. Holds("users", disk["users"]) /\ Holds("users", users) /\ "users" \in Files
    BY <1>7, DiskTyped DEF Holds, SettingsAssumption
  <2> HIDE DEF users
  <2>2. u = Change("users", disk["users"], users)
    BY DEF users
  <2>3. QED
    BY <2>1, <2>2, ChangeTyped
<1>10. ChangeOK(t) /\ t.file = "tasks" /\ t.old = disk["tasks"] /\ t.new = tasks
  <2>1. Holds("tasks", disk["tasks"]) /\ Holds("tasks", tasks) /\ "tasks" \in Files
    BY <1>7, DiskTyped DEF Holds, SettingsAssumption
  <2>2. QED
    BY <2>1, ChangeTyped
<1>11. ChangeOK(s) /\ s.file = "servers" /\ s.old = seen /\ s.new = remaining
  <2>1. Holds("servers", seen) /\ Holds("servers", remaining) /\ "servers" \in Files
    BY <1>3, <1>5, DiskTyped DEF Holds, SettingsAssumption
  <2>2. QED
    BY <2>1, ChangeTyped
<1> HIDE DEF e, u, t, s, env, users, tasks
<1>12. /\ PlanOK(plan) /\ PlanOK(reads) /\ Apart(plan, reads)
       /\ Changes(plan, reads) = {e, u, t, s}
       /\ Len(plan) > 0 /\ plan[Len(plan)] = s
  <2>1. s.old # s.new
    BY <1>5, <1>11
  <2>2. QED
    BY <2>1, <1>8, <1>9, <1>10, <1>11, RemovePlan
<1> HIDE DEF plan, reads
<1>13. Moves(x)
  BY <1>6 DEF Stages
<1>14. /\ DOMAIN q = Fields /\ q.pc = "check" /\ q.plan = plan /\ q.reads = reads
       /\ q.job = r.job /\ q.id = r.id /\ q.seen = r.seen /\ q.default = r.default
       /\ q.done = r.done /\ q.tried = r.tried /\ q.left = r.left /\ q.ask = ask
  BY <1>6 DEF Stages, r
<1>15. /\ Old(plan, reads, e.file) = e.old /\ New(plan, reads, e.file) = e.new
       /\ Old(plan, reads, u.file) = u.old /\ New(plan, reads, u.file) = u.new
       /\ Old(plan, reads, t.file) = t.old /\ New(plan, reads, t.file) = t.new
       /\ Old(plan, reads, s.file) = s.old /\ New(plan, reads, s.file) = s.new
  BY <1>12, Looked
<1>16. FilesOf(plan, reads) = {"env", "users", "tasks", "servers"}
  BY <1>8, <1>9, <1>10, <1>11, <1>12 DEF FilesOf
<1> HIDE DEF q
<1>17. /\ OldOf(q, "env") = disk["env"] /\ NewOf(q, "env") = env
       /\ OldOf(q, "users") = disk["users"] /\ NewOf(q, "users") = users
       /\ OldOf(q, "tasks") = disk["tasks"] /\ NewOf(q, "tasks") = tasks
       /\ OldOf(q, "servers") = seen /\ NewOf(q, "servers") = remaining
       /\ FilesOf(q.plan, q.reads) = {"env", "users", "tasks", "servers"}
  BY <1>8, <1>9, <1>10, <1>11, <1>14, <1>15, <1>16 DEF OldOf, NewOf
<1>18. SessionOK(q)
  <2>1. ask.give \in BOOLEAN /\ ask.pairs \subseteq Users \X Ids
    BY <1>4
  <2>2. 0 \in 0..Len(plan)
    BY <1>12 DEF PlanOK
  <2> HIDE DEF ask
  <2>3. QED
    BY <1>2, <1>3, <1>12, <1>14, <2>1, <2>2 DEF SessionOK
<1>19. LastIs(q, "servers")
  BY <1>11, <1>12, <1>14 DEF LastIs
<1>20. RemoveOK(q)
  <2>1. /\ q.ask = [give |-> FALSE, pairs |-> Users \X {q.id}] /\ q.seen = seen
        /\ q.default = old /\ q.id = id
    BY <1>14
  <2>2. \A d \in Entries : (\E j \in DOMAIN remaining : remaining[j] = d)
                              => \E j \in DOMAIN seen : seen[j] = d
    BY <1>5
  <2>3. users = [v \in Users |-> RemoveServerPermissions(OldOf(q, "users")[v], q.id,
                                                         new # q.default)]
    BY <1>17, <2>1 DEF users
  <2>4. tasks = RemoveServerState(OldOf(q, "tasks"), q.id)
    BY <1>17, <2>1 DEF tasks
  <2>5. /\ q.default \in Registered(remaining) => new = q.default
        /\ env.default = IF new = q.default THEN OldOf(q, "env").default ELSE new
        /\ \A j \in DOMAIN remaining :
              env.key[remaining[j].key] = OldOf(q, "env").key[remaining[j].key]
    BY <1>1, <1>7, <1>17, <2>1 DEF remaining, r, i
  <2> HIDE DEF old, id, seen
  <2>6. QED
    BY <1>4, <1>5, <1>17, <1>19, <2>1, <2>2, <2>3, <2>4, <2>5 DEF RemoveOK
<1>21. JobOK(q)
  BY <1>2, <1>3, <1>14, <1>20 DEF JobOK, Counted, AgentPcs, IsRemote
<1>22. QED
  BY <1>2, <1>3, <1>13, <1>14, <1>17, <1>18, <1>21 DEF Fine, q, r

-----------------------------------------------------------------------------
(* The editor of the users.                                                  *)

\* The editor changes its plan of users.json and keeps what it read of the others.
LEMMA EditorKeeps ==
    ASSUME NEW plan, NEW reads, NEW c,
           PlanOK(plan), PlanOK(reads), Apart(plan, reads),
           Len(plan) = 1, plan[1].file = "users",
           FilesOf(plan, reads) = {"users", "env", "servers"},
           ChangeOK(c), c.file = "users"
    PROVE  /\ PlanOK(<<c>>) /\ Len(<<c>>) = 1 /\ <<c>>[1] = c /\ Apart(<<c>>, reads)
           /\ FilesOf(<<c>>, reads) = {"users", "env", "servers"}
           /\ Old(<<c>>, reads, "users") = c.old /\ New(<<c>>, reads, "users") = c.new
           /\ Old(plan, reads, "users") = plan[1].old /\ New(plan, reads, "users") = plan[1].new
           /\ \A f \in {"env", "servers"} : Old(<<c>>, reads, f) = Old(plan, reads, f)
<1> DEFINE p == <<c>>
<1>1. PlanOK(p) /\ Len(p) = 1 /\ DOMAIN p = 1..1 /\ p[1] = c
  BY OnePlan
<1> HIDE DEF p
<1>2. DOMAIN plan = {1} /\ plan[1] \in Changes(plan, reads) /\ DOMAIN p = {1}
  BY <1>1 DEF PlanOK, Changes
<1>3. Apart(p, reads)
  BY <1>1, <1>2 DEF Apart
<1>4. /\ Changes(plan, reads) = {plan[1]} \cup {reads[i] : i \in DOMAIN reads}
      /\ Changes(p, reads) = {c} \cup {reads[i] : i \in DOMAIN reads}
  BY <1>1, <1>2 DEF Changes
<1>5. FilesOf(p, reads) = FilesOf(plan, reads)
  BY <1>4 DEF FilesOf
<1>6. /\ Old(p, reads, c.file) = c.old /\ New(p, reads, c.file) = c.new
      /\ Old(plan, reads, plan[1].file) = plan[1].old
      /\ New(plan, reads, plan[1].file) = plan[1].new
  BY <1>1, <1>2, <1>3, <1>4, Looked
<1>7. ASSUME NEW f \in {"env", "servers"} PROVE Old(p, reads, f) = Old(plan, reads, f)
  <2>1. PICK d \in Changes(plan, reads) : d.file = f
    BY DEF FilesOf
  <2>2. d \in Changes(p, reads)
    BY <1>4, <2>1
  <2>3. Old(p, reads, d.file) = d.old /\ Old(plan, reads, d.file) = d.old
    BY <1>1, <1>3, <2>1, <2>2, Looked
  <2>4. QED
    BY <2>1, <2>3
<1>8. QED
  BY <1>1, <1>3, <1>5, <1>6, <1>7 DEF p

LEMMA OneLast ==
    ASSUME NEW r, NEW f, Len(r.plan) = 1, r.plan[1].file = f
    PROVE  LastIs(r, f)
  BY DEF LastIs

\* The editor holds the policies of the file.
LEMMA OpenEditorFine ==
    ASSUME SettingsAssumption, Typed, Jobs, NEW x \in 1..Terminals, OpenEditor(x)
    PROVE  /\ Moves(x) /\ Fine(sess'[x]) /\ sess'[x].pc = "editing" /\ Decided(sess'[x])
           /\ sess'[x].left = sess[x].left /\ sess'[x].job = "users"
<1> DEFINE r == sess[x]
           q == sess'[x]
           seen == disk["servers"]
           default == EditorDefault(disk["env"], seen)
           u == Read("users")
           e == Read("env")
           s == Read("servers")
           plan == <<u>>
           reads == <<e, s>>
<1>1. /\ default \in Registered(seen)
      /\ Step(x, [pc |-> "editing", job |-> "users", seen |-> seen, default |-> default,
                  plan |-> plan, reads |-> reads])
  BY DEF OpenEditor
<1>2. r.pc = "idle" /\ SessionOK(r) /\ JobOK(r)
  BY DEF OpenEditor, Free, Typed, Jobs
<1>3. Begins(x, "editing", "users", r.id, default, plan, reads)
  BY <1>1, EditorStarts
<1>4. /\ ChangeOK(u) /\ u.file = "users" /\ u.old = u.new
      /\ ChangeOK(e) /\ e.file = "env" /\ e.old = disk["env"] /\ e.old = e.new
      /\ ChangeOK(s) /\ s.file = "servers" /\ s.old = seen /\ s.old = s.new
  BY DiskTyped, ChangeTyped DEF Read, Typed
<1> HIDE DEF u, e, s
<1>5. /\ PlanOK(plan) /\ Len(plan) = 1 /\ plan[1] = u /\ DOMAIN plan = {1}
      /\ PlanOK(reads) /\ Len(reads) = 2 /\ reads[1] = e /\ reads[2] = s /\ DOMAIN reads = {1, 2}
  BY <1>4 DEF PlanOK
<1> HIDE DEF plan, reads
<1>6. Apart(plan, reads)
  BY <1>4, <1>5 DEF Apart
<1>7. Changes(plan, reads) = {u, e, s}
  BY <1>5 DEF Changes
<1>8. /\ Old(plan, reads, u.file) = u.old /\ New(plan, reads, u.file) = u.new
      /\ Old(plan, reads, e.file) = e.old /\ Old(plan, reads, s.file) = s.old
  BY <1>5, <1>6, <1>7, Looked
<1>9. FilesOf(plan, reads) = {"users", "env", "servers"}
  BY <1>4, <1>7 DEF FilesOf
<1>10. Moves(x)
  BY <1>3 DEF Begins
<1>11. /\ DOMAIN q = Fields /\ q.pc = "editing" /\ q.job = "users" /\ q.seen = seen
       /\ q.id = r.id /\ q.default = default /\ q.plan = plan /\ q.reads = reads
       /\ q.done = r.done /\ q.tried = r.tried /\ q.ask = r.ask /\ q.left = r.left
  BY <1>3 DEF Begins
<1>12. seen \in Lists /\ default \in Ids
  BY <1>1, DiskTyped, ListShape
<1>13. default = EditorDefault(OldOf(q, "env"), q.seen)
  BY <1>4, <1>8, <1>11 DEF OldOf
<1> HIDE DEF r, q, seen, default
<1>14. SessionOK(q)
  <2>1. q.done = 0 /\ q.tried = 0
    BY <1>2, <1>11 DEF SessionOK, JobOK, Counted
  <2>2. QED
    BY <1>2, <1>5, <1>6, <1>11, <1>12, <2>1 DEF SessionOK
<1>15. UsersOK(q)
  <2>1. Len(q.plan) = 1 /\ q.plan[1].file = "users"
    BY <1>4, <1>5, <1>11
  <2>2. LastIs(q, "users")
    BY <2>1, OneLast
  <2>3. OldOf(q, "servers") = q.seen /\ q.default \in Registered(q.seen)
    BY <1>1, <1>4, <1>8, <1>11 DEF OldOf, seen, default
  <2>4. QED
    BY <1>9, <1>11, <1>13, <2>1, <2>2, <2>3 DEF UsersOK
<1>16. JobOK(q)
  BY <1>2, <1>11, <1>15 DEF JobOK, Counted, AgentPcs, IsRemote
<1>17. Decided(q)
  BY <1>4, <1>8, <1>11 DEF Decided, OldOf, NewOf
<1>18. QED
  BY <1>10, <1>11, <1>14, <1>16, <1>17 DEF Fine, q, r

\* What the editor remembers is a plan.
LEMMA RememberFine ==
    ASSUME SettingsAssumption, Typed, Jobs, NEW x \in 1..Terminals,
           sess[x].pc = "editing", NEW config \in People, NEW pc \in {"check", "editing"},
           NEW ask, ask.give \in BOOLEAN, ask.pairs \subseteq Users \X Ids,
           pc = "check" /\ ~ask.give =>
              \A u \in Users, s \in Ids :
                 <<u, s>> \in ask.pairs => ~PermissionsForServer(config[u], sess[x].default, s),
           Stages(x, pc, <<Change("users", sess[x].plan[1].old, config)>>, sess[x].reads, ask)
    PROVE  /\ Moves(x) /\ Fine(sess'[x]) /\ sess'[x].pc = pc
           /\ sess'[x].left = sess[x].left /\ sess'[x].job = "users"
           /\ sess'[x].default = sess[x].default /\ sess'[x].seen = sess[x].seen
           /\ sess'[x].ask = ask
           /\ OldOf(sess'[x], "users") = OldOf(sess[x], "users")
           /\ NewOf(sess'[x], "users") = config
<1> DEFINE r == sess[x]
           q == sess'[x]
           c == Change("users", r.plan[1].old, config)
           plan == <<c>>
<1>1. SessionOK(r) /\ JobOK(r) /\ r.pc = "editing"
  BY DEF Typed, Jobs
<1>2. r.job = "users" /\ UsersOK(r) /\ r.done = 0
  BY <1>1 DEF JobOK, Counted, Staged
<1>3. /\ PlanOK(r.plan) /\ PlanOK(r.reads) /\ Apart(r.plan, r.reads)
      /\ Len(r.plan) = 1 /\ r.plan[1].file = "users" /\ ChangeOK(r.plan[1])
      /\ FilesOf(r.plan, r.reads) = {"users", "env", "servers"}
  BY <1>1, <1>2 DEF SessionOK, UsersOK, LastIs, PlanOK
<1>4. /\ ChangeOK(c) /\ c.file = "users" /\ c.old = r.plan[1].old /\ c.new = config
  <2>1. Holds("users", r.plan[1].old) /\ Holds("users", config) /\ "users" \in Files
    BY <1>3 DEF ChangeOK, Holds, SettingsAssumption
  <2>2. QED
    BY <2>1, ChangeTyped
<1> HIDE DEF c
<1>5. /\ PlanOK(plan) /\ Len(plan) = 1 /\ plan[1] = c /\ Apart(plan, r.reads)
      /\ FilesOf(plan, r.reads) = {"users", "env", "servers"}
      /\ Old(plan, r.reads, "users") = c.old /\ New(plan, r.reads, "users") = c.new
      /\ Old(r.plan, r.reads, "users") = r.plan[1].old
      /\ \A f \in {"env", "servers"} : Old(plan, r.reads, f) = Old(r.plan, r.reads, f)
  BY <1>3, <1>4, EditorKeeps
<1>6. Moves(x) /\ q.pc = pc /\ q.plan = plan /\ q.reads = r.reads /\ q.ask = ask
  BY DEF Stages, c
<1>7. /\ DOMAIN q = Fields
      /\ q.job = r.job /\ q.id = r.id /\ q.seen = r.seen /\ q.default = r.default
      /\ q.done = r.done /\ q.tried = r.tried /\ q.left = r.left
  BY DEF Stages
<1> HIDE DEF plan, r, q
<1>8. SessionOK(q)
  BY <1>1, <1>3, <1>5, <1>6, <1>7 DEF SessionOK
<1>9. UsersOK(q)
  <2>1. /\ FilesOf(q.plan, q.reads) = {"users", "env", "servers"} /\ LastIs(q, "users")
        /\ Len(q.plan) = 1
    <3>1. Len(q.plan) = 1 /\ q.plan[1].file = "users"
      BY <1>4, <1>5, <1>6
    <3>2. QED
      BY <3>1, <1>5, <1>6, OneLast
  <2>2. /\ OldOf(q, "servers") = q.seen /\ q.default \in Registered(q.seen)
        /\ q.default = EditorDefault(OldOf(q, "env"), q.seen)
    BY <1>2, <1>5, <1>6, <1>7 DEF UsersOK, OldOf
  <2>3. NewOf(q, "users") = config
    BY <1>4, <1>5, <1>6 DEF NewOf
  <2>4. QED
    BY <1>6, <1>7, <2>1, <2>2, <2>3 DEF UsersOK, r
<1>10. JobOK(q)
  BY <1>2, <1>6, <1>7, <1>9 DEF JobOK, Counted, AgentPcs, IsRemote
<1>11. OldOf(q, "users") = OldOf(r, "users") /\ NewOf(q, "users") = config
  BY <1>4, <1>5, <1>6 DEF OldOf, NewOf
<1>12. QED
  BY <1>2, <1>6, <1>7, <1>8, <1>10, <1>11 DEF Fine, q, r

\* A legacy role that becomes a server map allows what it allowed.
LEMMA Migrated ==
    ASSUME NEW user \in [legacy : BOOLEAN, on : SUBSET Ids], NEW default \in Ids
    PROVE  LET m == MigrateLegacyUser(user, default) IN
           /\ m \in [legacy : BOOLEAN, on : SUBSET Ids] /\ ~m.legacy
           /\ m.on \subseteq user.on \cup {default}
           /\ \A s : PermissionsForServer(m, default, s) => PermissionsForServer(user, default, s)
  BY DEF MigrateLegacyUser, PermissionsForServer

LEMMA PolicyApplied ==
    ASSUME NEW user \in [legacy : BOOLEAN, on : SUBSET Ids], NEW default \in Ids,
           NEW s \in Ids, NEW give \in BOOLEAN
    PROVE  LET after == ApplyPolicy(user, s, give, default) IN
           /\ after \in [legacy : BOOLEAN, on : SUBSET Ids] /\ ~after.legacy
           /\ after.on \subseteq user.on \cup {default, s}
           /\ \A t : PermissionsForServer(after, default, t)
                        => PermissionsForServer(user, default, t) \/ (give /\ t = s)
           /\ ~give => ~PermissionsForServer(after, default, s)
<1> DEFINE m == MigrateLegacyUser(user, default)
           after == ApplyPolicy(user, s, give, default)
<1>1. /\ m \in [legacy : BOOLEAN, on : SUBSET Ids] /\ ~m.legacy
      /\ m.on \subseteq user.on \cup {default}
      /\ \A t : PermissionsForServer(m, default, t) => PermissionsForServer(user, default, t)
  BY Migrated
<1> HIDE DEF m
<1>2. /\ after.legacy = m.legacy /\ after.on = IF give THEN m.on \cup {s} ELSE m.on \ {s}
      /\ after \in [legacy : BOOLEAN, on : SUBSET Ids]
  BY <1>1 DEF ApplyPolicy, m
<1> HIDE DEF after
<1>3. QED
  BY <1>1, <1>2 DEF PermissionsForServer, after

\* A decision changes one policy, or makes a legacy role a map of one server.
LEMMA EditUserFine ==
    ASSUME SettingsAssumption, Typed, Jobs, NEW x \in 1..Terminals, EditUser(x)
    PROVE  /\ Moves(x) /\ Fine(sess'[x]) /\ sess'[x].pc \in {"check", "editing"}
           /\ sess'[x].left = sess[x].left /\ sess'[x].job = "users"
           /\ Decided(sess[x]) => Decided(sess'[x])
<1> DEFINE r == sess[x]
           q == sess'[x]
           config == r.plan[1].new
           default == r.default
<1>1. PICK u \in Users, s \in Registered(r.seen), give \in BOOLEAN :
        LET before == MigrateLegacyUser(config[u], default)
            after == ApplyPolicy(config[u], s, give, default) IN
        Remember(x, [config EXCEPT ![u] = after], after # before,
                 [give |-> give, pairs |-> {<<u, s>>}])
  BY DEF EditUser
<1> DEFINE before == MigrateLegacyUser(config[u], default)
           after == ApplyPolicy(config[u], s, give, default)
           config2 == [config EXCEPT ![u] = after]
           pc == IF after # before THEN "check" ELSE "editing"
           ask == [give |-> give, pairs |-> {<<u, s>>}]
<1>2. r.pc = "editing" /\ SessionOK(r) /\ JobOK(r)
  BY DEF EditUser, Typed, Jobs
<1>3. r.job = "users" /\ UsersOK(r)
  BY <1>2 DEF JobOK, Counted, Staged
<1>4. s \in Ids /\ default \in Ids /\ default \in Registered(r.seen)
  BY <1>2, <1>3, ListShape DEF SessionOK, UsersOK
<1>5. ChangeOK(r.plan[1]) /\ r.plan[1].file = "users" /\ Len(r.plan) = 1
  BY <1>2, <1>3 DEF SessionOK, UsersOK, LastIs, PlanOK
<1>6. config \in People
  BY <1>5 DEF ChangeOK, Holds
<1>7. config[u] \in [legacy : BOOLEAN, on : SUBSET Ids]
  BY <1>6 DEF People
<1>8. /\ after \in [legacy : BOOLEAN, on : SUBSET Ids] /\ ~after.legacy
      /\ after.on \subseteq config[u].on \cup {default, s}
      /\ \A t : PermissionsForServer(after, default, t)
                   => PermissionsForServer(config[u], default, t) \/ (give /\ t = s)
      /\ ~give => ~PermissionsForServer(after, default, s)
  BY <1>4, <1>7, PolicyApplied
<1>9. \A t : PermissionsForServer(before, default, t)
                => PermissionsForServer(config[u], default, t)
  BY <1>4, <1>7, Migrated
<1>10. NewOf(r, "users") = config
  <2>1. r.plan[1] \in Changes(r.plan, r.reads)
    BY <1>2, <1>5 DEF Changes, SessionOK, PlanOK
  <2>2. QED
    BY <1>2, <1>5, <2>1, Looked DEF SessionOK, NewOf
<1>11. Step(x, [pc |-> pc, plan |-> <<Change("users", r.plan[1].old, config2)>>, ask |-> ask])
  BY <1>1 DEF Remember
<1> HIDE DEF config, after, before, default, r, q
<1>12. /\ config2 \in People /\ config2[u] = after
       /\ \A v \in Users \ {u} : config2[v] = config[v]
  BY <1>6, <1>8 DEF People
<1> HIDE DEF config2
<1>13. pc \in {"check", "editing"}
  OBVIOUS
<1>14. ask.give \in BOOLEAN /\ ask.pairs \subseteq Users \X Ids /\ ask.give = give
  BY <1>4
<1>15. pc = "check" /\ ~ask.give =>
         \A v \in Users, t \in Ids :
            <<v, t>> \in ask.pairs => ~PermissionsForServer(config2[v], default, t)
  BY <1>8, <1>12
<1>16. Stages(x, pc, <<Change("users", r.plan[1].old, config2)>>, r.reads, ask)
  BY <1>11, EditStages DEF r
<1>17. /\ Moves(x) /\ Fine(q) /\ q.pc = pc /\ q.left = r.left /\ q.job = "users"
       /\ q.default = r.default /\ q.seen = r.seen /\ q.ask = ask
       /\ OldOf(q, "users") = OldOf(r, "users") /\ NewOf(q, "users") = config2
  <2> HIDE DEF pc, ask
  <2>1. QED
    BY <1>2, <1>12, <1>13, <1>14, <1>15, <1>16, RememberFine DEF r, q, default
<1>18. ASSUME Decided(r) PROVE Decided(q)
  <2> DEFINE old == OldOf(r, "users")
  <2>1. \A v \in Users :
          /\ config[v].on \subseteq old[v].on \cup Registered(r.seen)
          /\ \A t \in Ids : PermissionsForServer(config[v], default, t)
                               => PermissionsForServer(old[v], default, t)
    BY <1>2, <1>10, <1>18 DEF Decided, default
  <2> HIDE DEF old
  <2>2. SUFFICES ASSUME NEW v \in Users
                 PROVE  /\ config2[v].on \subseteq old[v].on \cup Registered(r.seen)
                        /\ \A t \in Ids :
                             PermissionsForServer(config2[v], default, t)
                               => \/ PermissionsForServer(old[v], default, t)
                                  \/ pc # "editing" /\ give /\ <<v, t>> \in ask.pairs
    BY <1>14, <1>17 DEF Decided, old, default
  <2>3. CASE v # u
    BY <2>1, <2>3, <1>12
  <2>4. CASE v = u
    <3>1. config2[v].on \subseteq old[v].on \cup Registered(r.seen)
      BY <2>1, <2>4, <1>1, <1>4, <1>8, <1>12
    <3>2. ASSUME NEW t \in Ids, PermissionsForServer(config2[v], default, t)
          PROVE  \/ PermissionsForServer(old[v], default, t)
                 \/ pc # "editing" /\ give /\ <<v, t>> \in ask.pairs
      <4>1. CASE after = before
        BY <4>1, <3>2, <2>1, <2>4, <1>9, <1>12
      <4>2. CASE after # before
        BY <4>2, <3>2, <2>1, <2>4, <1>8, <1>12
      <4>3. QED
        BY <4>1, <4>2
    <3>3. QED
      BY <3>1, <3>2
  <2>5. QED
    BY <2>3, <2>4
<1>19. QED
  BY <1>13, <1>17, <1>18 DEF r, q

\* A deleted user has no policy; a renamed one keeps his.
LEMMA DeleteFine ==
    ASSUME SettingsAssumption, Typed, Jobs, NEW x \in 1..Terminals, DeleteOrRename(x)
    PROVE  /\ Moves(x) /\ Fine(sess'[x]) /\ sess'[x].pc = "check"
           /\ sess'[x].left = sess[x].left /\ sess'[x].job = "users"
           /\ Decided(sess[x]) => Decided(sess'[x])
<1> DEFINE r == sess[x]
           q == sess'[x]
           config == r.plan[1].new
           default == r.default
<1>1. PICK config2, ask :
        /\ Remember(x, config2, TRUE, ask)
        /\ \/ \E u \in Users : /\ config2 = [config EXCEPT ![u] = Nobody]
                               /\ ask = [give |-> FALSE, pairs |-> {u} \X Ids]
           \/ config2 = config /\ ask = NoAsk
  BY DEF DeleteOrRename
<1>2. r.pc = "editing" /\ SessionOK(r) /\ JobOK(r)
  BY DEF DeleteOrRename, Typed, Jobs
<1>3. r.job = "users" /\ UsersOK(r)
  BY <1>2 DEF JobOK, Counted, Staged
<1>4. ChangeOK(r.plan[1]) /\ r.plan[1].file = "users" /\ Len(r.plan) = 1
  BY <1>2, <1>3 DEF SessionOK, UsersOK, LastIs, PlanOK
<1>5. config \in People
  BY <1>4 DEF ChangeOK, Holds
<1>6. NewOf(r, "users") = config
  <2>1. r.plan[1] \in Changes(r.plan, r.reads)
    BY <1>2, <1>4 DEF Changes, SessionOK, PlanOK
  <2>2. QED
    BY <1>2, <1>4, <2>1, Looked DEF SessionOK, NewOf
<1>7. Step(x, [pc |-> "check", plan |-> <<Change("users", r.plan[1].old, config2)>>, ask |-> ask])
  BY <1>1 DEF Remember
<1> HIDE DEF config, default, r, q
<1>8. /\ config2 \in People
      /\ \A v \in Users : config2[v] = config[v] \/ config2[v] = Nobody
  <2>1. CASE config2 = config
    BY <2>1, <1>5
  <2>2. CASE \E u \in Users : config2 = [config EXCEPT ![u] = Nobody]
    <3>1. PICK u \in Users : config2 = [config EXCEPT ![u] = Nobody]
      BY <2>2
    <3>2. Nobody \in [legacy : BOOLEAN, on : SUBSET Ids]
      BY DEF Nobody
    <3>3. QED
      BY <3>1, <3>2, <1>5 DEF People
  <2>3. QED
    BY <2>1, <2>2, <1>1
<1>9. ask.give = FALSE /\ ask.pairs \subseteq Users \X Ids
  BY <1>1 DEF NoAsk
<1>10. \A v \in Users, t \in Ids :
          <<v, t>> \in ask.pairs => ~PermissionsForServer(config2[v], default, t)
  BY <1>1, <1>5 DEF PermissionsForServer, Nobody, People, NoAsk
<1>11. Stages(x, "check", <<Change("users", r.plan[1].old, config2)>>, r.reads, ask)
  BY <1>7, EditStages DEF r
<1>12. /\ Moves(x) /\ Fine(q) /\ q.pc = "check" /\ q.left = r.left /\ q.job = "users"
       /\ q.default = r.default /\ q.seen = r.seen /\ q.ask = ask
       /\ OldOf(q, "users") = OldOf(r, "users") /\ NewOf(q, "users") = config2
  <2> DEFINE pc == "check"
  <2>1. pc \in {"check", "editing"} /\ ask.give \in BOOLEAN
    BY <1>9
  <2>2. pc = "check" /\ ~ask.give =>
          \A v \in Users, t \in Ids :
             <<v, t>> \in ask.pairs => ~PermissionsForServer(config2[v], default, t)
    BY <1>10
  <2>3. Stages(x, pc, <<Change("users", r.plan[1].old, config2)>>, r.reads, ask)
    BY <1>11
  <2> HIDE DEF pc
  <2>4. /\ Moves(x) /\ Fine(q) /\ q.pc = pc /\ q.left = r.left /\ q.job = "users"
        /\ q.default = r.default /\ q.seen = r.seen /\ q.ask = ask
        /\ OldOf(q, "users") = OldOf(r, "users") /\ NewOf(q, "users") = config2
    BY <1>2, <1>8, <1>9, <2>1, <2>2, <2>3, RememberFine DEF r, q, default
  <2>5. QED
    BY <2>4 DEF pc
<1>13. ASSUME Decided(r) PROVE Decided(q)
  <2> DEFINE old == OldOf(r, "users")
  <2>1. \A v \in Users :
          /\ config[v].on \subseteq old[v].on \cup Registered(r.seen)
          /\ \A t \in Ids : PermissionsForServer(config[v], default, t)
                               => PermissionsForServer(old[v], default, t)
    BY <1>2, <1>6, <1>13 DEF Decided, default
  <2>2. \A v \in Users :
          /\ config2[v].on \subseteq config[v].on \cup {}
          /\ \A t \in Ids : PermissionsForServer(config2[v], default, t)
                               => PermissionsForServer(config[v], default, t)
    BY <1>8 DEF Nobody, PermissionsForServer
  <2> HIDE DEF old
  <2>3. QED
    BY <2>1, <2>2, <1>12 DEF Decided, old, default
<1>14. QED
  BY <1>12, <1>13 DEF r, q

\* The editor reads again what it has saved.
LEMMA RereadFine ==
    ASSUME SettingsAssumption, Typed, Jobs, NEW x \in 1..Terminals, Reread(x)
    PROVE  /\ Moves(x) /\ Fine(sess'[x]) /\ sess'[x].pc = "editing"
           /\ sess'[x].left = sess[x].left /\ sess'[x].job = "users"
           /\ WindowOK(sess[x]) => Decided(sess'[x])
<1> DEFINE r == sess[x]
           q == sess'[x]
           config == r.plan[1].new
           old == disk["users"]
           c == Change("users", old, config)
           plan == <<c>>
<1>1. Step(x, [pc |-> "editing", plan |-> plan]) /\ r.pc = "reread"
  BY DEF Reread
<1>2. SessionOK(r) /\ JobOK(r)
  BY DEF Typed, Jobs
<1>3. r.job = "users" /\ UsersOK(r) /\ r.done = 0
  BY <1>1, <1>2 DEF JobOK, Counted, Staged
<1>4. /\ PlanOK(r.plan) /\ PlanOK(r.reads) /\ Apart(r.plan, r.reads)
      /\ Len(r.plan) = 1 /\ r.plan[1].file = "users" /\ ChangeOK(r.plan[1])
      /\ FilesOf(r.plan, r.reads) = {"users", "env", "servers"}
  BY <1>2, <1>3 DEF SessionOK, UsersOK, LastIs, PlanOK
<1>5. /\ ChangeOK(c) /\ c.file = "users" /\ c.old = old /\ c.new = config
  <2>1. Holds("users", old) /\ Holds("users", config) /\ "users" \in Files
    BY <1>4, DiskTyped DEF ChangeOK, Holds, SettingsAssumption
  <2>2. QED
    BY <2>1, ChangeTyped
<1>6. Stages(x, "editing", plan, r.reads, r.ask)
  BY <1>1, SoftwareStages
<1> HIDE DEF c
<1>7. /\ PlanOK(plan) /\ Len(plan) = 1 /\ plan[1] = c /\ Apart(plan, r.reads)
      /\ FilesOf(plan, r.reads) = {"users", "env", "servers"}
      /\ Old(plan, r.reads, "users") = c.old /\ New(plan, r.reads, "users") = c.new
      /\ Old(r.plan, r.reads, "users") = r.plan[1].old
      /\ \A f \in {"env", "servers"} : Old(plan, r.reads, f) = Old(r.plan, r.reads, f)
  <2> DEFINE read == r.plan
             reads == r.reads
  <2>1. /\ PlanOK(read) /\ PlanOK(reads) /\ Apart(read, reads)
        /\ Len(read) = 1 /\ read[1].file = "users"
        /\ FilesOf(read, reads) = {"users", "env", "servers"}
    BY <1>4
  <2>2. ChangeOK(c) /\ c.file = "users"
    BY <1>5
  <2> HIDE DEF read, reads
  <2>3. /\ PlanOK(<<c>>) /\ Len(<<c>>) = 1 /\ <<c>>[1] = c /\ Apart(<<c>>, reads)
        /\ FilesOf(<<c>>, reads) = {"users", "env", "servers"}
        /\ Old(<<c>>, reads, "users") = c.old /\ New(<<c>>, reads, "users") = c.new
        /\ Old(read, reads, "users") = read[1].old
        /\ \A f \in {"env", "servers"} : Old(<<c>>, reads, f) = Old(read, reads, f)
    BY <2>1, <2>2, EditorKeeps
  <2>4. QED
    BY <2>3 DEF read, reads
<1>8. Moves(x) /\ q.pc = "editing" /\ q.plan = plan /\ q.reads = r.reads /\ q.ask = r.ask
  BY <1>6 DEF Stages
<1>9. /\ DOMAIN q = Fields
      /\ q.job = r.job /\ q.id = r.id /\ q.seen = r.seen /\ q.default = r.default
      /\ q.done = r.done /\ q.tried = r.tried /\ q.left = r.left
  BY <1>6 DEF Stages
<1> HIDE DEF plan, r, q, old
<1>10. SessionOK(q)
  BY <1>2, <1>4, <1>7, <1>8, <1>9 DEF SessionOK
<1>11. UsersOK(q)
  <2>1. Len(q.plan) = 1 /\ q.plan[1].file = "users"
    BY <1>5, <1>7, <1>8
  <2>2. LastIs(q, "users")
    BY <2>1, OneLast
  <2>3. /\ OldOf(q, "servers") = q.seen /\ q.default \in Registered(q.seen)
        /\ q.default = EditorDefault(OldOf(q, "env"), q.seen)
    BY <1>3, <1>7, <1>8, <1>9 DEF UsersOK, OldOf
  <2>4. QED
    BY <1>7, <1>8, <2>1, <2>2, <2>3 DEF UsersOK
<1>12. JobOK(q)
  BY <1>3, <1>8, <1>9, <1>11 DEF JobOK, Counted, AgentPcs, IsRemote
<1>13. ASSUME WindowOK(r) PROVE Decided(q)
  <2>1. old = config
    BY <1>1, <1>4, <1>13 DEF WindowOK, old
  <2>2. OldOf(q, "users") = old /\ NewOf(q, "users") = config
    BY <1>5, <1>7, <1>8 DEF OldOf, NewOf
  <2>3. QED
    BY <2>1, <2>2 DEF Decided
<1>14. QED
  BY <1>3, <1>8, <1>9, <1>10, <1>12, <1>13 DEF Fine, q, r

-----------------------------------------------------------------------------
(* The steps of a program that writes.                                       *)

\* Where the window of a plan begins.
LEMMA FirstIs ==
    ASSUME NEW x
    PROVE  FirstLocal(x) = IF IsRemote(sess[x]) THEN 2 ELSE 1
  BY DEF FirstLocal, IsRemote

LEMMA IdleWindow ==
    ASSUME NEW x, sess'[x].pc \in {"idle", "asked", "editing", "configure"}
    PROVE  WindowOK(sess[x])'
  BY DEF WindowOK

\* A program that ends leaves a free terminal.
LEMMA EndsFine ==
    ASSUME NEW x \in 1..Terminals, Ends(x)
    PROVE  Moves(x) /\ Fine(sess'[x]) /\ WindowOK(sess[x])' /\ sess'[x].pc = "idle"
<1>1. Idle.pc = "idle"
  BY DEF Idle
<1>2. QED
  BY <1>1, IdleFine DEF Ends, WindowOK

\* A plan's change at its place.
LEMMA PlanAt ==
    ASSUME Typed, NEW x \in 1..Terminals, NEW i \in 1..Len(sess[x].plan)
    PROVE  LET c == sess[x].plan[i] IN
           /\ ChangeOK(c) /\ c.file \in Touched(x) /\ c.file \in Files
           /\ c \in Changes(sess[x].plan, sess[x].reads)
           /\ OldOf(sess[x], c.file) = c.old /\ NewOf(sess[x], c.file) = c.new
<1>1. PlanOK(sess[x].plan) /\ PlanOK(sess[x].reads) /\ Apart(sess[x].plan, sess[x].reads)
  BY DEF Typed, SessionOK
<1>2. sess[x].plan[i] \in Changes(sess[x].plan, sess[x].reads) /\ i \in DOMAIN sess[x].plan
  BY <1>1 DEF PlanOK, Changes
<1>3. QED
  BY <1>1, <1>2, Looked DEF PlanOK, ChangeOK, Touched, OldOf, NewOf

\* The originals are compared; the counter is where the window begins.
LEMMA CheckFine ==
    ASSUME SettingsAssumption, Typed, Jobs, NEW x \in 1..Terminals, Check(x)
    PROVE  /\ Moves(x) /\ Fine(sess'[x])
           /\ WindowOK(sess[x]) => WindowOK(sess[x])'
<1> DEFINE r == sess[x]
           first == IF IsRemote(r) THEN 1 ELSE 0
<1>1. r.pc = "check" /\ disk' = disk
  BY DEF Check
<1>2. SessionOK(r) /\ JobOK(r)
  BY DEF Typed, Jobs
<1>3. r.done = first /\ r.job # "none" /\ Len(r.plan) \in Nat
  BY <1>1, <1>2 DEF JobOK, Counted, SessionOK, PlanOK
<1>4. Len(r.plan) > 0 /\ (IsRemote(r) => Len(r.plan) > 1)
  <2>1. r.job \in {"add", "software", "remove", "users"}
    BY <1>2, <1>3 DEF SessionOK
  <2>2. Len(r.plan) > 0
    BY <1>1, <1>2, <2>1 DEF JobOK, Staged, AddOK, SoftwareOK, RemoveOK, UsersOK, LastIs
  <2>3. IsRemote(r) => Len(r.plan) > 1
    BY <1>1, <1>2 DEF JobOK, Staged, AddOK, IsRemote
  <2>4. QED
    BY <2>2, <2>3
<1>5. CASE Unchanged(x)
  <2>1. Goes(x, "write", r.done, r.tried, r.left) /\ unseen' = (unseen \/ Outdated(x))
    BY <1>5, CheckGoes DEF Check
  <2>2. Fine(sess'[x])
    BY <1>1, <1>2, <1>3, <1>4, <2>1, GoesFine DEF SessionOK
  <2>3. ASSUME WindowOK(r) PROVE WindowOK(sess[x])'
    <3>1. /\ sess'[x].pc = "write" /\ sess'[x].done = r.done
          /\ sess'[x].plan = r.plan /\ sess'[x].reads = r.reads
      BY <2>1 DEF Goes
    <3>2. ASSUME NEW i \in 1..Len(r.plan)
          PROVE  disk[r.plan[i].file] = IF i <= r.done THEN r.plan[i].new ELSE r.plan[i].old
      <4>1. CASE i <= r.done
        <5>1. i = 1 /\ r.done = 1
          BY <4>1, <1>3
        <5>2. QED
          BY <5>1, <1>1, <2>3 DEF WindowOK
      <4>2. CASE ~(i <= r.done)
        <5>1. i \in FirstLocal(x)..Len(r.plan)
          BY <4>2, <1>3, FirstIs
        <5>2. QED
          BY <4>2, <5>1, <1>5 DEF Unchanged
      <4>3. QED
        BY <4>1, <4>2
    <3>3. unseen' \/ \A i \in 1..Len(r.reads) : disk[r.reads[i].file] = r.reads[i].old
      BY <1>2, <2>1 DEF Outdated, SessionOK, PlanOK
    <3>4. QED
      BY <1>1, <3>1, <3>2, <3>3 DEF WindowOK
  <2>4. QED
    BY <2>1, <2>2, <2>3 DEF Goes
<1>6. CASE ~Unchanged(x)
  <2>1. Refuse(x) /\ unseen' = unseen
    BY <1>6 DEF Check
  <2>2. CASE Ends(x)
    BY <2>2, EndsFine
  <2>3. CASE r.done = 1 /\ IsRemote(r) /\ Goes(x, "unconfigure", r.done, 1, r.left)
    <3>1. Fine(sess'[x])
      BY <1>1, <1>2, <1>3, <1>4, <2>3, GoesFine DEF SessionOK
    <3>2. WindowOK(r) => WindowOK(sess[x])'
      BY <1>1, <2>3 DEF WindowOK, Goes
    <3>3. QED
      BY <2>3, <3>1, <3>2 DEF Goes
  <2>4. QED
    BY <2>1, <2>2, <2>3, RefuseGoes
<1>7. QED
  BY <1>5, <1>6

LEMMA CopyRaisesFine ==
    ASSUME SettingsAssumption, Typed, Jobs, NEW x \in 1..Terminals, CopyRaises(x)
    PROVE  /\ Moves(x) /\ Fine(sess'[x])
           /\ WindowOK(sess[x]) => WindowOK(sess[x])'
<1> DEFINE r == sess[x]
<1>1. r.pc = "check" /\ disk' = disk /\ Refuse(x)
  BY DEF CopyRaises
<1>2. SessionOK(r) /\ JobOK(r)
  BY DEF Typed, Jobs
<1>3. IsRemote(r) => Len(r.plan) > 1
  BY <1>1, <1>2 DEF JobOK, Staged, AddOK, IsRemote
<1>4. CASE Ends(x)
  BY <1>4, EndsFine
<1>5. CASE r.done = 1 /\ IsRemote(r) /\ Goes(x, "unconfigure", r.done, 1, r.left)
  <2>1. Fine(sess'[x])
    BY <1>1, <1>2, <1>3, <1>5, GoesFine DEF SessionOK, PlanOK
  <2>2. WindowOK(r) => WindowOK(sess[x])'
    BY <1>1, <1>5 DEF WindowOK, Goes
  <2>3. QED
    BY <1>5, <2>1, <2>2 DEF Goes
<1>6. QED
  BY <1>1, <1>4, <1>5, RefuseGoes

\* The replaced file holds its new contents, the others what they held.
LEMMA Replaced ==
    ASSUME Typed, NEW x, NEW f \in Files, NEW v, Replace(x, f, v)
    PROVE  /\ disk' = [g \in Files |-> disk'[g]]
           /\ disk'[f] = v /\ \A g \in Files \ {f} : disk'[g] = disk[g]
           /\ race => race'
           /\ \A y \in (1..Terminals) \ {x} : InWindow(y) /\ f \in Touched(y) => race'
  BY DEF Replace, Typed

\* A replacement moves one file of the plan, and the counter.
LEMMA WriteFine ==
    ASSUME SettingsAssumption, Typed, Jobs, NEW x \in 1..Terminals, Write(x)
    PROVE  LET r == sess[x]
               c == r.plan[r.done + 1] IN
           /\ Moves(x) /\ Fine(sess'[x])
           /\ r.done + 1 \in 1..Len(r.plan) /\ Replace(x, c.file, c.new)
           /\ r.done + 1 # Len(r.plan) => Goes(x, "write", r.done + 1, r.tried, r.left)
           /\ r.done + 1 = Len(r.plan) => IF r.job = "users" THEN Rereads(x) ELSE Ends(x)
           /\ WindowOK(sess[x]) => WindowOK(sess[x])'
<1> DEFINE r == sess[x]
           n == r.done + 1
           c == r.plan[n]
<1>1. r.pc = "write" /\ Replace(x, c.file, c.new) /\ unseen' = unseen
  BY DEF Write
<1>2. SessionOK(r) /\ JobOK(r)
  BY DEF Typed, Jobs
<1>3. /\ (IF IsRemote(r) THEN 1 ELSE 0) <= r.done /\ r.done < Len(r.plan)
      /\ Len(r.plan) \in Nat /\ n \in 1..Len(r.plan) /\ r.done \in Nat
  BY <1>1, <1>2 DEF JobOK, Counted, SessionOK, PlanOK
<1>4. c.file \in Files
  BY <1>3, PlanAt
<1>5. disk'[c.file] = c.new /\ \A g \in Files \ {c.file} : disk'[g] = disk[g]
  <2> DEFINE f == c.file
             v == c.new
  <2>1. f \in Files /\ Replace(x, f, v)
    BY <1>1, <1>4
  <2> HIDE DEF f, v
  <2>2. disk'[f] = v /\ \A g \in Files \ {f} : disk'[g] = disk[g]
    BY <2>1, Replaced
  <2>3. QED
    BY <2>2 DEF f, v
<1>6. /\ \A i \in 1..Len(r.plan) : r.plan[i].file \in Files /\ (i # n => r.plan[i].file # c.file)
      /\ \A i \in 1..Len(r.reads) : r.reads[i].file \in Files /\ r.reads[i].file # c.file
  BY <1>2, <1>3 DEF SessionOK, PlanOK, ChangeOK, Apart
<1>7. CASE n # Len(r.plan)
  <2>1. Goes(x, "write", n, r.tried, r.left)
    BY <1>1, <1>7, WriteGoes DEF Write
  <2>2. Fine(sess'[x])
    BY <1>1, <1>2, <1>3, <1>7, <2>1, GoesFine DEF SessionOK
  <2>3. ASSUME WindowOK(r) PROVE WindowOK(sess[x])'
    <3>1. /\ sess'[x].pc = "write" /\ sess'[x].done = n
          /\ sess'[x].plan = r.plan /\ sess'[x].reads = r.reads
      BY <2>1 DEF Goes
    <3>2. ASSUME NEW i \in 1..Len(r.plan)
          PROVE  disk'[r.plan[i].file] = IF i <= n THEN r.plan[i].new ELSE r.plan[i].old
      <4>1. CASE i = n
        BY <4>1, <1>5
      <4>2. CASE i # n
        <5>1. disk'[r.plan[i].file] = disk[r.plan[i].file]
          BY <4>2, <1>5, <1>6
        <5>2. disk[r.plan[i].file] = IF i <= r.done THEN r.plan[i].new ELSE r.plan[i].old
          BY <1>1, <2>3 DEF WindowOK
        <5>3. i <= n <=> i <= r.done
          BY <4>2, <1>3
        <5>4. QED
          BY <5>1, <5>2, <5>3
      <4>3. QED
        BY <4>1, <4>2
    <3>3. unseen' \/ \A i \in 1..Len(r.reads) : disk'[r.reads[i].file] = r.reads[i].old
      BY <1>1, <1>5, <1>6, <2>3 DEF WindowOK
    <3>4. QED
      BY <3>1, <3>2, <3>3 DEF WindowOK
  <2>4. QED
    BY <1>1, <1>3, <1>7, <2>1, <2>2, <2>3 DEF Goes
<1>8. CASE n = Len(r.plan) /\ r.job = "users"
  <2>1. Rereads(x)
    BY <1>8, SavedRereads DEF Write
  <2>2. Fine(sess'[x])
    BY <1>1, <1>8, <2>1, RereadsFine
  <2>3. Len(r.plan) = 1
    BY <1>1, <1>2, <1>8 DEF JobOK, Staged, UsersOK
  <2>4. WindowOK(sess[x])'
    <3>1. disk'[r.plan[1].file] = r.plan[1].new
      BY <1>5, <1>8, <2>3
    <3>2. sess'[x].pc = "reread" /\ sess'[x].plan = r.plan
      BY <2>1 DEF Rereads
    <3>3. QED
      BY <3>1, <3>2 DEF WindowOK
  <2>5. QED
    BY <1>1, <1>3, <1>8, <2>1, <2>2, <2>4 DEF Rereads
<1>9. CASE n = Len(r.plan) /\ r.job # "users"
  <2>1. Ends(x)
    BY <1>9, EndsIdle DEF Write
  <2>2. QED
    BY <1>1, <1>3, <1>9, <2>1, EndsFine
<1>10. QED
  BY <1>7, <1>8, <1>9

LEMMA WriteRaisesFine ==
    ASSUME SettingsAssumption, Typed, Jobs, NEW x \in 1..Terminals, WriteRaises(x)
    PROVE  /\ Moves(x) /\ Fine(sess'[x])
           /\ Goes(x, "undo", sess[x].done, sess[x].done, sess[x].left)
           /\ WindowOK(sess[x]) => WindowOK(sess[x])'
<1> DEFINE r == sess[x]
<1>1. r.pc = "write" /\ disk' = disk /\ unseen' = unseen
  BY DEF WriteRaises, history, setVars
<1>2. SessionOK(r) /\ JobOK(r)
  BY DEF Typed, Jobs
<1>3. Goes(x, "undo", r.done, r.done, r.left)
  BY RaiseGoes DEF WriteRaises
<1>4. Fine(sess'[x])
  BY <1>1, <1>2, <1>3, GoesFine DEF SessionOK, JobOK, Counted
<1>5. WindowOK(r) => WindowOK(sess[x])'
  BY <1>1, <1>3 DEF WindowOK, Goes
<1>6. QED
  BY <1>3, <1>4, <1>5 DEF Goes

\* A rollback moves one file back, and the counter.
LEMMA UndoFine ==
    ASSUME SettingsAssumption, Typed, Jobs, NEW x \in 1..Terminals, Undo(x)
    PROVE  LET r == sess[x]
               c == r.plan[r.done] IN
           /\ Moves(x) /\ Fine(sess'[x])
           /\ r.done \in 1..Len(r.plan) /\ r.done < Len(r.plan) /\ Replace(x, c.file, c.old)
           /\ Goes(x, "undo", r.done - 1, r.tried, r.left)
           /\ WindowOK(sess[x]) => WindowOK(sess[x])'
<1> DEFINE r == sess[x]
           n == r.done
           c == r.plan[n]
<1>1. r.pc = "undo" /\ n >= FirstLocal(x) /\ Replace(x, c.file, c.old) /\ unseen' = unseen
  BY DEF Undo
<1>2. SessionOK(r) /\ JobOK(r)
  BY DEF Typed, Jobs
<1>3. /\ (IF IsRemote(r) THEN 1 ELSE 0) <= n - 1 /\ n <= r.tried /\ r.tried < Len(r.plan)
      /\ Len(r.plan) \in Nat /\ n \in 1..Len(r.plan) /\ n < Len(r.plan)
  BY <1>1, <1>2, FirstIs DEF JobOK, Counted, SessionOK, PlanOK
<1>4. c.file \in Files
  BY <1>3, PlanAt
<1>5. disk'[c.file] = c.old /\ \A g \in Files \ {c.file} : disk'[g] = disk[g]
  <2> DEFINE f == c.file
             v == c.old
  <2>1. f \in Files /\ Replace(x, f, v)
    BY <1>1, <1>4
  <2> HIDE DEF f, v
  <2>2. disk'[f] = v /\ \A g \in Files \ {f} : disk'[g] = disk[g]
    BY <2>1, Replaced
  <2>3. QED
    BY <2>2 DEF f, v
<1>6. /\ \A i \in 1..Len(r.plan) : r.plan[i].file \in Files /\ (i # n => r.plan[i].file # c.file)
      /\ \A i \in 1..Len(r.reads) : r.reads[i].file \in Files /\ r.reads[i].file # c.file
  BY <1>2, <1>3 DEF SessionOK, PlanOK, ChangeOK, Apart
<1>7. Goes(x, "undo", n - 1, r.tried, r.left)
  BY <1>1, UndoGoes DEF Undo
<1>8. Fine(sess'[x])
  BY <1>1, <1>2, <1>3, <1>7, GoesFine DEF SessionOK
<1>9. ASSUME WindowOK(r) PROVE WindowOK(sess[x])'
  <2>1. /\ sess'[x].pc = "undo" /\ sess'[x].done = n - 1 /\ sess'[x].tried = r.tried
        /\ sess'[x].plan = r.plan /\ sess'[x].reads = r.reads /\ sess'[x].left = r.left
    BY <1>7 DEF Goes
  <2>2. ASSUME NEW i \in 1..Len(r.plan)
        PROVE  IF i <= n - 1 THEN disk'[r.plan[i].file] = r.plan[i].new
               ELSE \/ i <= r.tried /\ r.plan[i].file \in r.left
                    \/ disk'[r.plan[i].file] = r.plan[i].old
    <3>1. CASE i = n
      BY <3>1, <1>3, <1>5
    <3>2. CASE i # n
      <4>1. disk'[r.plan[i].file] = disk[r.plan[i].file]
        BY <3>2, <1>5, <1>6
      <4>2. IF i <= n THEN disk[r.plan[i].file] = r.plan[i].new
            ELSE \/ i <= r.tried /\ r.plan[i].file \in r.left
                 \/ disk[r.plan[i].file] = r.plan[i].old
        BY <1>1, <1>9 DEF WindowOK
      <4>3. i <= n <=> i <= n - 1
        BY <3>2, <1>3
      <4>4. QED
        BY <4>1, <4>2, <4>3
    <3>3. QED
      BY <3>1, <3>2
  <2>3. unseen' \/ \A i \in 1..Len(r.reads) : disk'[r.reads[i].file] = r.reads[i].old
    BY <1>1, <1>5, <1>6, <1>9 DEF WindowOK
  <2>4. QED
    BY <2>1, <2>2, <2>3 DEF WindowOK
<1>10. QED
  BY <1>1, <1>3, <1>7, <1>8, <1>9 DEF Goes

\* A rollback that fails leaves its file named.
LEMMA UndoRaisesFine ==
    ASSUME SettingsAssumption, Typed, Jobs, NEW x \in 1..Terminals, UndoRaises(x)
    PROVE  /\ Moves(x) /\ Fine(sess'[x])
           /\ \E file \in Files :
                 Goes(x, "undo", sess[x].done - 1, sess[x].tried, sess[x].left \cup {file})
           /\ WindowOK(sess[x]) => WindowOK(sess[x])'
<1> DEFINE r == sess[x]
           n == r.done
           file == r.plan[n].file
<1>1. r.pc = "undo" /\ n >= FirstLocal(x) /\ disk' = disk /\ unseen' = unseen
  BY DEF UndoRaises
<1>2. SessionOK(r) /\ JobOK(r)
  BY DEF Typed, Jobs
<1>3. /\ (IF IsRemote(r) THEN 1 ELSE 0) <= n - 1 /\ n <= r.tried /\ r.tried < Len(r.plan)
      /\ Len(r.plan) \in Nat /\ n \in 1..Len(r.plan)
  BY <1>1, <1>2, FirstIs DEF JobOK, Counted, SessionOK, PlanOK
<1>4. file \in Files
  BY <1>3, PlanAt
<1>5. Goes(x, "undo", n - 1, r.tried, r.left \cup {file})
  BY <1>1, LeftGoes DEF UndoRaises
<1>6. Fine(sess'[x])
  BY <1>1, <1>2, <1>3, <1>4, <1>5, GoesFine DEF SessionOK
<1>7. ASSUME WindowOK(r) PROVE WindowOK(sess[x])'
  <2>1. /\ sess'[x].pc = "undo" /\ sess'[x].done = n - 1 /\ sess'[x].tried = r.tried
        /\ sess'[x].plan = r.plan /\ sess'[x].reads = r.reads
        /\ sess'[x].left = r.left \cup {file}
    BY <1>5 DEF Goes
  <2>2. ASSUME NEW i \in 1..Len(r.plan)
        PROVE  IF i <= n - 1 THEN disk[r.plan[i].file] = r.plan[i].new
               ELSE \/ i <= r.tried /\ r.plan[i].file \in r.left \cup {file}
                    \/ disk[r.plan[i].file] = r.plan[i].old
    <3>1. CASE i = n
      BY <3>1, <1>3
    <3>2. CASE i # n
      <4>1. IF i <= n THEN disk[r.plan[i].file] = r.plan[i].new
            ELSE \/ i <= r.tried /\ r.plan[i].file \in r.left
                 \/ disk[r.plan[i].file] = r.plan[i].old
        BY <1>1, <1>7 DEF WindowOK
      <4>2. i <= n <=> i <= n - 1
        BY <3>2, <1>3
      <4>3. QED
        BY <4>1, <4>2
    <3>3. QED
      BY <3>1, <3>2
  <2> HIDE DEF file
  <2>3. QED
    BY <1>1, <1>7, <2>1, <2>2 DEF WindowOK
<1>8. QED
  BY <1>4, <1>5, <1>6, <1>7 DEF Goes

LEMMA UndoneFine ==
    ASSUME SettingsAssumption, Typed, Jobs, NEW x \in 1..Terminals, Undone(x)
    PROVE  /\ Moves(x) /\ Fine(sess'[x])
           /\ \/ Ends(x)
              \/ /\ IsRemote(sess[x])
                 /\ Goes(x, "unconfigure", sess[x].done, sess[x].tried, sess[x].left)
           /\ WindowOK(sess[x]) => WindowOK(sess[x])'
<1> DEFINE r == sess[x]
<1>1. r.pc = "undo" /\ r.done < FirstLocal(x) /\ disk' = disk
  BY DEF Undone
<1>2. SessionOK(r) /\ JobOK(r)
  BY DEF Typed, Jobs
<1>3. /\ (IF IsRemote(r) THEN 1 ELSE 0) <= r.done /\ r.done < Len(r.plan)
      /\ Len(r.plan) \in Nat /\ r.done \in Nat
  BY <1>1, <1>2 DEF JobOK, Counted, SessionOK, PlanOK
<1>4. CASE r.done = 1
  <2>1. Goes(x, "unconfigure", r.done, r.tried, r.left)
    BY <1>4, UndoneGoes DEF Undone
  <2>2. IsRemote(r)
    BY <1>1, <1>4, FirstIs
  <2>3. Fine(sess'[x])
    BY <1>1, <1>2, <1>3, <1>4, <2>1, <2>2, GoesFine DEF SessionOK
  <2>4. WindowOK(r) => WindowOK(sess[x])'
    <3>1. ASSUME WindowOK(r) PROVE disk[r.plan[1].file] = r.plan[1].new
      <4>1. 1 \in 1..Len(r.plan)
        BY <1>3, <1>4
      <4>2. QED
        BY <4>1, <3>1, <1>1, <1>4 DEF WindowOK
    <3>2. sess'[x].pc = "unconfigure" /\ sess'[x].plan = r.plan
      BY <2>1 DEF Goes
    <3>3. QED
      BY <1>1, <3>1, <3>2 DEF WindowOK
  <2>5. QED
    BY <2>1, <2>2, <2>3, <2>4 DEF Goes
<1>5. CASE r.done # 1
  <2>1. Ends(x)
    BY <1>5, EndsIdle DEF Undone
  <2>2. QED
    BY <2>1, EndsFine
<1>6. QED
  BY <1>4, <1>5

\* What the agent is asked, which concerns the first change of a remote server's plan.
LEMMA AgentAsked ==
    ASSUME SettingsAssumption, Typed, Jobs, NEW x \in 1..Terminals, sess[x].pc \in AgentPcs
    PROVE  LET r == sess[x]
               c == r.plan[1]
               request == ConfigureRequest(x) IN
           /\ SessionOK(r) /\ IsRemote(r) /\ Staged(r)
           /\ Len(r.plan) \in Nat /\ Len(r.plan) > 1 /\ 1 \in 1..Len(r.plan)
           /\ c.file \in Files /\ request.file = c.file
           /\ IF r.pc \in {"configure", "configuring"}
              THEN request.old = c.old /\ request.new = c.new
              ELSE request.old = c.new /\ request.new = c.old
<1> DEFINE r == sess[x]
           c == r.plan[1]
           request == ConfigureRequest(x)
<1>1. SessionOK(r) /\ JobOK(r) /\ Staged(r)
  BY DEF Typed, Jobs, Staged, AgentPcs
<1>2. IsRemote(r) /\ Len(r.plan) > 1 /\ Len(r.plan) \in Nat
  BY <1>1 DEF JobOK, Counted, AddOK, IsRemote, SessionOK, PlanOK
<1>3. 1 \in 1..Len(r.plan)
  BY <1>2
<1>4. c.file \in Files
  BY <1>3, PlanAt
<1>5. /\ request.file = c.file
      /\ IF r.pc \in {"configure", "configuring"}
         THEN request.old = c.old /\ request.new = c.new
         ELSE request.old = c.new /\ request.new = c.old
  BY DEF ConfigureRequest, Change
<1>6. QED
  BY <1>1, <1>2, <1>3, <1>4, <1>5

\* The agent finds the file as it was read, or as it left it.
LEMMA ComparesFine ==
    ASSUME SettingsAssumption, Typed, Jobs, NEW x \in 1..Terminals, AgentCompares(x)
    PROVE  LET r == sess[x] IN
           /\ Moves(x) /\ Fine(sess'[x]) /\ 1 \in 1..Len(r.plan) /\ IsRemote(r)
           /\ r.pc \in AgentPcs /\ disk' = disk /\ race' = race
           /\ \/ r.pc = "configure" /\ Goes(x, "configuring", r.done, r.tried, r.left)
              \/ r.pc = "unconfigure" /\ Goes(x, "unconfiguring", r.done, r.tried, r.left)
           /\ WindowOK(sess[x]) => WindowOK(sess[x])'
<1> DEFINE r == sess[x]
           c == r.plan[1]
<1>1. r.pc \in {"configure", "unconfigure"} /\ disk' = disk /\ race' = race /\ r.pc \in AgentPcs
  BY DEF AgentCompares, AgentPcs, history
<1>2. /\ SessionOK(r) /\ IsRemote(r) /\ Len(r.plan) \in Nat /\ 1 \in 1..Len(r.plan)
      /\ disk[c.file] = IF r.pc = "configure" THEN c.old ELSE c.new
  BY <1>1, AgentAsked DEF AgentCompares
<1>3. \/ r.pc = "configure" /\ Goes(x, "configuring", r.done, r.tried, r.left)
      \/ r.pc = "unconfigure" /\ Goes(x, "unconfiguring", r.done, r.tried, r.left)
  <2>1. CASE r.pc = "configure"
    <3>1. Step(x, [pc |-> "configuring"])
      BY <2>1 DEF AgentCompares
    <3>2. QED
      BY <2>1, <3>1, ComparedGoes
  <2>2. CASE r.pc = "unconfigure"
    <3>1. Step(x, [pc |-> "unconfiguring"])
      BY <2>2 DEF AgentCompares
    <3>2. QED
      BY <2>2, <3>1, ComparedGoes
  <2>3. QED
    BY <1>1, <2>1, <2>2
<1>4. Counted(r)
  BY DEF Jobs, JobOK
<1>5. /\ r.tried \in 0..Len(r.plan) /\ r.done \in 0..Len(r.plan) /\ r.left \subseteq Files
      /\ r.pc = "configure" => r.done = 0
      /\ r.pc = "unconfigure" => r.done = 1
  BY <1>2, <1>4 DEF SessionOK, Counted
<1>6. Fine(sess'[x])
  BY <1>1, <1>2, <1>3, <1>5, GoesFine
<1>7. WindowOK(sess[x])'
  <2>1. /\ sess'[x].plan = r.plan
        /\ \/ r.pc = "configure" /\ sess'[x].pc = "configuring"
           \/ r.pc = "unconfigure" /\ sess'[x].pc = "unconfiguring"
    BY <1>3 DEF Goes
  <2>2. QED
    BY <1>1, <1>2, <2>1 DEF WindowOK
<1>8. QED
  BY <1>1, <1>2, <1>3, <1>6, <1>7 DEF Goes

\* The agent replaces the file, or puts it back; the program may have ended before.
LEMMA ReplacesFine ==
    ASSUME SettingsAssumption, Typed, Jobs, NEW x \in 1..Terminals, AgentReplaces(x)
    PROVE  LET r == sess[x]
               c == r.plan[1] IN
           /\ Moves(x) /\ Fine(sess'[x]) /\ 1 \in 1..Len(r.plan) /\ IsRemote(r)
           /\ r.pc \in AgentPcs
           /\ \/ /\ r.pc = "configuring" /\ Replace(x, c.file, c.new)
                 /\ Goes(x, "check", 1, r.tried, r.left) /\ torn' = torn
              \/ /\ r.pc = "configuring" /\ Replace(x, c.file, c.new)
                 /\ Ends(x) /\ torn' = TRUE
              \/ /\ r.pc = "unconfiguring" /\ Replace(x, c.file, c.old)
                 /\ Ends(x) /\ torn' = torn
           /\ WindowOK(sess[x]) => WindowOK(sess[x])'
<1> DEFINE r == sess[x]
           c == r.plan[1]
<1>1. r.pc \in {"configuring", "unconfiguring"} /\ r.pc \in AgentPcs
  BY DEF AgentReplaces, AgentPcs
<1>2. /\ SessionOK(r) /\ IsRemote(r) /\ Len(r.plan) \in Nat /\ 1 \in 1..Len(r.plan)
      /\ c.file \in Files
      /\ r.pc = "configuring" => Replace(x, c.file, c.new)
      /\ r.pc = "unconfiguring" => Replace(x, c.file, c.old)
  BY <1>1, AgentAsked DEF AgentReplaces
<1>3. \/ r.pc = "configuring" /\ Step(x, [pc |-> "check", done |-> 1]) /\ torn' = torn
      \/ r.pc = "configuring" /\ sess' = [sess EXCEPT ![x] = Idle] /\ torn' = TRUE
      \/ r.pc = "unconfiguring" /\ sess' = [sess EXCEPT ![x] = Idle] /\ torn' = torn
  BY DEF AgentReplaces
<1>4. CASE r.pc = "configuring" /\ Step(x, [pc |-> "check", done |-> 1]) /\ torn' = torn
  <2>1. Goes(x, "check", 1, r.tried, r.left)
    BY <1>4, ConfiguredGoes
  <2>2. Fine(sess'[x])
    <3>1. r.tried \in 0..Len(r.plan) /\ 1 \in 0..Len(r.plan) /\ r.left \subseteq Files
      BY <1>2 DEF SessionOK
    <3>2. (IF IsRemote(r) THEN 1 ELSE 0) = 1
      BY <1>2
    <3>3. QED
      BY <1>1, <2>1, <3>1, <3>2, GoesFine
  <2>3. disk'[c.file] = c.new
    <3> DEFINE f == c.file
               v == c.new
    <3>1. f \in Files /\ Replace(x, f, v)
      BY <1>2, <1>4
    <3> HIDE DEF f, v
    <3>2. disk'[f] = v
      BY <3>1, Replaced
    <3>3. QED
      BY <3>2 DEF f, v
  <2>4. WindowOK(sess[x])'
    <3>1. sess'[x].pc = "check" /\ sess'[x].plan = r.plan
      BY <2>1 DEF Goes
    <3>2. QED
      BY <2>3, <3>1 DEF WindowOK
  <2>5. QED
    BY <1>1, <1>2, <1>4, <2>1, <2>2, <2>4 DEF Goes
<1>5. CASE sess' = [sess EXCEPT ![x] = Idle]
  <2>1. Ends(x)
    BY <1>5, EndsIdle
  <2>2. Moves(x) /\ Fine(sess'[x]) /\ WindowOK(sess[x])' /\ sess'[x].pc = "idle"
    BY <2>1, EndsFine
  <2>3. CASE r.pc = "configuring" /\ Step(x, [pc |-> "check", done |-> 1]) /\ torn' = torn
    <3>1. sess'[x].pc = "check"
      BY <2>3, ConfiguredGoes DEF Goes
    <3>2. QED
      BY <2>2, <3>1
  <2>4. \/ r.pc = "configuring" /\ torn' = TRUE
        \/ r.pc = "unconfiguring" /\ torn' = torn
        \/ r.pc = "configuring" /\ Step(x, [pc |-> "check", done |-> 1]) /\ torn' = torn
    BY <1>3
  <2>5. QED
    BY <1>1, <1>2, <2>1, <2>2, <2>3, <2>4
<1>6. QED
  BY <1>3, <1>4, <1>5

\* The request fails, and so does the program.
LEMMA AgentRaisesFine ==
    ASSUME SettingsAssumption, Typed, Jobs, NEW x \in 1..Terminals, AgentRaises(x)
    PROVE  LET r == sess[x] IN
           /\ Moves(x) /\ Fine(sess'[x]) /\ 1 \in 1..Len(r.plan) /\ IsRemote(r)
           /\ r.pc \in AgentPcs /\ Ends(x) /\ disk' = disk /\ race' = race
           /\ torn' = torn \/ torn' = TRUE
           /\ r.pc \in {"unconfigure", "unconfiguring"} => torn' = TRUE
           /\ WindowOK(sess[x]) => WindowOK(sess[x])'
<1> DEFINE r == sess[x]
<1>1. r.pc \in AgentPcs /\ disk' = disk /\ race' = race
  BY DEF AgentRaises, AgentPcs
<1>2. 1 \in 1..Len(r.plan) /\ IsRemote(r)
  BY <1>1, AgentAsked
<1>3. Ends(x)
  BY EndsIdle DEF AgentRaises
<1>4. Moves(x) /\ Fine(sess'[x]) /\ WindowOK(sess[x])'
  BY <1>3, EndsFine
<1>5. torn' = (torn \/ r.pc \in {"unconfigure", "unconfiguring"}) /\ torn \in BOOLEAN
  BY DEF AgentRaises, Typed
<1>6. /\ torn' = torn \/ torn' = TRUE
      /\ r.pc \in {"unconfigure", "unconfiguring"} => torn' = TRUE
  BY <1>5
<1>7. QED
  BY <1>1, <1>2, <1>3, <1>4, <1>6

-----------------------------------------------------------------------------
(* What every step of a terminal keeps.                                      *)

Acts(x) ==
    \/ Open(x) \/ StageAdd(x) \/ StageRemote(x) \/ EditExistingSoftware(x)
    \/ StageRemoval(x) \/ Cancel(x)
    \/ Check(x) \/ CopyRaises(x) \/ Write(x) \/ WriteRaises(x)
    \/ Undo(x) \/ UndoRaises(x) \/ Undone(x)
    \/ AgentCompares(x) \/ AgentReplaces(x) \/ AgentRaises(x)
    \/ OpenEditor(x) \/ EditUser(x) \/ DeleteOrRename(x) \/ Reread(x)
    \/ Kill(x)

\* The session stays what it should be.
SessionKept(x) ==
    /\ Moves(x) /\ Fine(sess'[x])
    /\ WindowOK(sess[x]) => WindowOK(sess[x])'
    /\ (race \/ WindowOK(sess[x])) /\ Recall(sess[x]) => Recall(sess[x])'

\* At most one file is replaced, and nothing is forgotten that excuses.
FilesKept(x) ==
    /\ \/ disk' = disk /\ race' = race
       \/ \E f \in Files : \E v : Holds(f, v) /\ Replace(x, f, v)
    /\ bot' = bot /\ granted' \subseteq Users \X Ids
    /\ lost' \in BOOLEAN /\ torn' \in BOOLEAN /\ unseen' \in BOOLEAN
    /\ torn => torn'
    /\ unseen => unseen'

LEMMA EndsRecalled ==
    ASSUME NEW x, Ends(x)
    PROVE  Recall(sess[x])'
  BY DEF Ends, Idle, Recall

LEMMA EndsKept ==
    ASSUME NEW x \in 1..Terminals, Ends(x)
    PROVE  SessionKept(x)
  BY EndsFine, EndsRecalled DEF SessionKept

\* A program that goes on with its plan remembers the same things.
LEMMA GoesRecalled ==
    ASSUME NEW x,
           NEW pc \in {"configuring", "check", "write", "undo", "unconfigure", "unconfiguring"},
           NEW done, NEW tried, NEW left, Goes(x, pc, done, tried, left),
           sess[x].pc \in {"check", "write", "undo"} \cup AgentPcs,
           left # sess[x].left => torn', torn => torn', unseen => unseen', race => race',
           Recall(sess[x])
    PROVE  Recall(sess[x])'
<1> DEFINE r == sess[x]
           q == sess'[x]
<1>1. /\ q.pc = pc /\ q.left = left /\ q.job = r.job /\ q.id = r.id /\ q.seen = r.seen
      /\ q.default = r.default /\ q.plan = r.plan /\ q.reads = r.reads /\ q.ask = r.ask
  BY DEF Goes
<1>2. /\ q.left # {} => torn'
      /\ Staged(r)
      /\ \A f : OldOf(q, f) = OldOf(r, f) /\ NewOf(q, f) = NewOf(r, f)
  BY <1>1 DEF Recall, Staged, OldOf, NewOf, AgentPcs
<1>3. Decided(r) => Decided(q)
  BY <1>1, <1>2 DEF Decided
<1>4. q.job = "remove" => unseen' \/ q.default = DefaultId(OldOf(q, "env"))
  BY <1>1, <1>2 DEF Recall
<1>5. q.job = "users" => race' \/ Decided(q)
  BY <1>1, <1>2, <1>3 DEF Recall, AgentPcs
<1>6. QED
  BY <1>2, <1>4, <1>5 DEF Recall

\* A program that stages nothing yet, or starts, remembers nothing.
LEMMA AskedRecalled ==
    ASSUME NEW x, sess'[x].pc = "asked", sess'[x].left # {} => torn'
    PROVE  Recall(sess[x])'
  BY DEF Recall, Staged

LEMMA FreshWindow ==
    ASSUME NEW x, sess'[x].pc = "check", sess'[x].done = 0
    PROVE  WindowOK(sess[x])'
  BY DEF WindowOK

\* A new plan to add a server or to change its software.
LEMMA StagedSame ==
    ASSUME Typed, NEW x \in 1..Terminals,
           StageAdd(x) \/ StageRemote(x) \/ EditExistingSoftware(x)
    PROVE  /\ sess'[x].left = sess[x].left /\ sess'[x].job = sess[x].job
           /\ sess[x].job \in {"add", "software"}
           /\ disk' = disk /\ bot' = bot /\ UNCHANGED history
<1>1. ASSUME NEW pc, NEW plan, NEW reads, NEW ask, Stages(x, pc, plan, reads, ask)
      PROVE  sess'[x].left = sess[x].left /\ sess'[x].job = sess[x].job
  BY <1>1 DEF Stages
<1>2. CASE StageAdd(x)
  <2>1. PICK secret \in Choices(sess[x].id) :
          LET props == Properties(x, secret)
              env == Variable(x, secret) IN
          Step(x, [pc |-> "check", plan |-> Changed(props) \o Changed(env) \o <<NewEntry(x)>>,
                   reads |-> Same(props) \o Same(env)])
    BY <1>2 DEF StageAdd
  <2>2. Stages(x, "check", Changed(Properties(x, secret)) \o Changed(Variable(x, secret))
                              \o <<NewEntry(x)>>,
               Same(Properties(x, secret)) \o Same(Variable(x, secret)), sess[x].ask)
    BY <2>1, AddStages
  <2>3. QED
    BY <1>1, <1>2, <2>2 DEF StageAdd
<1>3. CASE StageRemote(x)
  <2>1. PICK secret \in Choices(sess[x].id) :
          LET env == Variable(x, secret) IN
          Step(x, [pc |-> "configure",
                   plan |-> <<Properties(x, secret)>> \o Changed(env) \o <<NewEntry(x)>>,
                   reads |-> Same(env)])
    BY <1>3 DEF StageRemote
  <2>2. Stages(x, "configure", <<Properties(x, secret)>> \o Changed(Variable(x, secret))
                              \o <<NewEntry(x)>>,
               Same(Variable(x, secret)), sess[x].ask)
    BY <2>1, AddStages
  <2>3. QED
    BY <1>1, <1>3, <2>2 DEF StageRemote
<1>4. CASE EditExistingSoftware(x)
  <2> DEFINE plan == <<Change("servers", sess[x].seen,
                       [sess[x].seen EXCEPT ![Position(sess[x].seen, sess[x].id)].mods = ~@])>>
  <2>1. Step(x, [pc |-> "check", plan |-> plan])
    BY <1>4 DEF EditExistingSoftware
  <2>2. Stages(x, "check", plan, sess[x].reads, sess[x].ask)
    BY <2>1, SoftwareStages
  <2>3. QED
    BY <1>1, <1>4, <2>2 DEF EditExistingSoftware
<1>5. QED
  BY <1>2, <1>3, <1>4

LEMMA StagesSession ==
    ASSUME SettingsAssumption, Typed, Jobs, NEW x \in 1..Terminals,
           Open(x) \/ StageAdd(x) \/ StageRemote(x) \/ EditExistingSoftware(x)
              \/ StageRemoval(x) \/ Cancel(x)
    PROVE  SessionKept(x)
<1>1. CASE Open(x)
  <2>1. Moves(x) /\ Fine(sess'[x]) /\ sess'[x].pc = "asked" /\ sess'[x].left = sess[x].left
    BY <1>1, OpenFine
  <2>2. torn' = torn
    BY <1>1 DEF Open, history
  <2>3. Recall(sess[x]) => Recall(sess[x])'
    BY <2>1, <2>2, AskedRecalled DEF Recall
  <2>4. WindowOK(sess[x])'
    BY <2>1, IdleWindow
  <2>5. QED
    BY <2>1, <2>3, <2>4 DEF SessionKept
<1>2. CASE StageAdd(x) \/ StageRemote(x) \/ EditExistingSoftware(x)
  <2>1. Moves(x) /\ Fine(sess'[x])
    BY <1>2, StageAddFine, StageRemoteFine, SoftwareFine
  <2>2. sess'[x].pc = "configure" \/ (sess'[x].pc = "check" /\ sess'[x].done = 0)
    BY <1>2, StageAddFine, StageRemoteFine, SoftwareFine
  <2>3. WindowOK(sess[x])'
    BY <2>2, IdleWindow, FreshWindow
  <2>4. Recall(sess[x]) => Recall(sess[x])'
    BY <1>2, StagedSame DEF Recall, history
  <2>5. QED
    BY <2>1, <2>3, <2>4 DEF SessionKept
<1>3. CASE StageRemoval(x)
  <2>1. /\ Moves(x) /\ Fine(sess'[x]) /\ sess'[x].pc = "check" /\ sess'[x].done = 0
        /\ sess'[x].default = sess[x].default
        /\ OldOf(sess'[x], "env") = disk["env"]
        /\ sess'[x].left = sess[x].left /\ sess'[x].job = "remove"
    BY <1>3, StageRemovalFine
  <2>2. WindowOK(sess[x])'
    BY <2>1, FreshWindow
  <2>3. unseen' = (unseen \/ sess[x].default # DefaultId(disk["env"])) /\ torn' = torn
    BY <1>3 DEF StageRemoval
  <2>4. Recall(sess[x]) => Recall(sess[x])'
    BY <2>1, <2>3 DEF Recall
  <2>5. QED
    BY <2>1, <2>2, <2>4 DEF SessionKept
<1>4. CASE Cancel(x)
  BY <1>4, EndsIdle, EndsKept DEF Cancel
<1>5. QED
  BY <1>1, <1>2, <1>3, <1>4

LEMMA EditsSession ==
    ASSUME SettingsAssumption, Typed, Jobs, NEW x \in 1..Terminals,
           OpenEditor(x) \/ EditUser(x) \/ DeleteOrRename(x) \/ Reread(x)
    PROVE  SessionKept(x)
<1>1. UNCHANGED history
  BY DEF OpenEditor, EditUser, DeleteOrRename, Reread, history
<1>2. /\ Moves(x) /\ Fine(sess'[x]) /\ sess'[x].pc \in {"check", "editing"}
      /\ sess'[x].left = sess[x].left /\ sess'[x].job = "users"
  BY OpenEditorFine, EditUserFine, DeleteFine, RereadFine
<1>3. \/ Decided(sess'[x])
      \/ sess[x].pc = "editing" /\ (Decided(sess[x]) => Decided(sess'[x]))
      \/ WindowOK(sess[x]) => Decided(sess'[x])
  <2>1. CASE OpenEditor(x)
    BY <2>1, OpenEditorFine
  <2>2. CASE EditUser(x)
    BY <2>2, EditUserFine DEF EditUser
  <2>3. CASE DeleteOrRename(x)
    BY <2>3, DeleteFine DEF DeleteOrRename
  <2>4. CASE Reread(x)
    BY <2>4, RereadFine
  <2>5. QED
    BY <2>1, <2>2, <2>3, <2>4
<1>4. SessionOK(sess[x]) /\ Counted(sess[x])
  BY DEF Typed, Jobs, JobOK
<1>5. ASSUME race \/ WindowOK(sess[x]), Recall(sess[x])
      PROVE  Recall(sess[x])'
  <2>1. race' \/ Decided(sess'[x])
    <3>1. race' = race
      BY <1>1 DEF history
    <3>2. sess[x].pc = "editing" => race \/ Decided(sess[x])
      BY <1>4, <1>5 DEF Recall, Counted, Staged
    <3>3. QED
      BY <1>3, <1>5, <3>1, <3>2
  <2>2. sess'[x].left # {} => torn'
    BY <1>1, <1>2, <1>5 DEF Recall, history
  <2>3. QED
    BY <1>2, <2>1, <2>2 DEF Recall
<1>6. WindowOK(sess[x])'
  <2>1. CASE sess'[x].pc = "editing"
    BY <2>1, IdleWindow
  <2>2. CASE sess'[x].pc = "check"
    <3>1. sess'[x].done = 0
      BY <1>2, <2>2 DEF Fine, JobOK, Counted, IsRemote
    <3>2. QED
      BY <2>2, <3>1, FreshWindow
  <2>3. QED
    BY <1>2, <2>1, <2>2
<1>7. QED
  BY <1>2, <1>5, <1>6 DEF SessionKept

\* The steps after the confirmation either end, or go on with the plan, or read again.
Proceeds(x) ==
    \/ Ends(x)
    \/ Rereads(x)
    \/ \E pc \in {"configuring", "check", "write", "undo", "unconfigure", "unconfiguring"} :
       \E done, tried, left :
          Goes(x, pc, done, tried, left) /\ (left # sess[x].left => torn')

LEMMA ProceedsRecalled ==
    ASSUME NEW x, Proceeds(x), torn => torn', unseen => unseen', race => race',
           sess[x].pc \in {"check", "write", "undo"} \cup AgentPcs \/ Ends(x),
           Recall(sess[x])
    PROVE  Recall(sess[x])'
<1>1. CASE Ends(x)
  BY <1>1, EndsRecalled
<1>2. CASE Rereads(x) /\ ~Ends(x)
  <2>1. sess'[x].pc = "reread" /\ sess'[x].left = sess[x].left /\ sess'[x].job = sess[x].job
        /\ sess'[x].plan = sess[x].plan /\ sess'[x].reads = sess[x].reads
        /\ sess'[x].default = sess[x].default
    BY <1>2 DEF Rereads
  <2>2. OldOf(sess'[x], "env") = OldOf(sess[x], "env") /\ Staged(sess[x])
    BY <1>2, <2>1 DEF OldOf, Staged, AgentPcs
  <2>3. QED
    BY <2>1, <2>2 DEF Recall
<1>3. CASE ~Ends(x) /\ ~Rereads(x)
  <2>1. PICK pc \in {"configuring", "check", "write", "undo", "unconfigure", "unconfiguring"} :
          \E done, tried, left :
          Goes(x, pc, done, tried, left) /\ (left # sess[x].left => torn')
    BY <1>3 DEF Proceeds
  <2>2. PICK done, tried, left :
          Goes(x, pc, done, tried, left) /\ (left # sess[x].left => torn')
    BY <2>1
  <2>3. QED
    BY <1>3, <2>2, GoesRecalled
<1>4. QED
  BY <1>1, <1>2, <1>3

LEMMA PlanHolds ==
    ASSUME Typed, NEW x \in 1..Terminals, NEW i \in 1..Len(sess[x].plan)
    PROVE  LET c == sess[x].plan[i] IN
           c.file \in Files /\ Holds(c.file, c.old) /\ Holds(c.file, c.new)
  BY PlanAt DEF ChangeOK

\* Every step of a terminal replaces at most one file.
LEMMA ActsFiles ==
    ASSUME SettingsAssumption, Typed, Jobs, NEW x \in 1..Terminals, Acts(x)
    PROVE  FilesKept(x)
<1>1. ASSUME NEW i \in 1..Len(sess[x].plan),
             LET c == sess[x].plan[i] IN Replace(x, c.file, c.old) \/ Replace(x, c.file, c.new)
      PROVE  \E f \in Files : \E v : Holds(f, v) /\ Replace(x, f, v)
  <2> DEFINE c == sess[x].plan[i]
  <2>1. c.file \in Files /\ Holds(c.file, c.old) /\ Holds(c.file, c.new)
    BY PlanHolds
  <2> HIDE DEF c
  <2>2. Replace(x, c.file, c.old) \/ Replace(x, c.file, c.new)
    BY <1>1 DEF c
  <2>3. QED
    BY <2>1, <2>2
<1>2. /\ lost \in BOOLEAN /\ torn \in BOOLEAN /\ unseen \in BOOLEAN
      /\ granted \subseteq Users \X Ids
  BY DEF Typed
<1>3. CASE Open(x) \/ StageAdd(x) \/ StageRemote(x) \/ EditExistingSoftware(x)
              \/ StageRemoval(x) \/ Cancel(x)
              \/ Check(x) \/ CopyRaises(x) \/ WriteRaises(x)
              \/ UndoRaises(x) \/ Undone(x)
              \/ OpenEditor(x) \/ EditUser(x) \/ DeleteOrRename(x) \/ Reread(x) \/ Kill(x)
  <2>1. disk' = disk /\ race' = race /\ bot' = bot /\ granted' = granted /\ lost' = lost
    BY <1>3 DEF Open, StageAdd, StageRemote, EditExistingSoftware, StageRemoval, Cancel,
                Check, CopyRaises, WriteRaises, UndoRaises, Undone, OpenEditor, EditUser,
                DeleteOrRename, Reread, Kill, history
  <2>2. \/ torn' = torn
        \/ torn' = TRUE
        \/ torn' = (torn \/ (sess[x].pc # "reread" /\ sess[x].done > 0))
    BY <1>3 DEF Open, StageAdd, StageRemote, EditExistingSoftware, StageRemoval, Cancel,
                Check, CopyRaises, WriteRaises, UndoRaises, Undone, OpenEditor, EditUser,
                DeleteOrRename, Reread, Kill, history
  <2>3. \/ unseen' = unseen
        \/ unseen' = (unseen \/ sess[x].default # DefaultId(disk["env"]))
        \/ unseen' = (unseen \/ Outdated(x))
    BY <1>3 DEF Open, StageAdd, StageRemote, EditExistingSoftware, StageRemoval, Cancel,
                Check, CopyRaises, WriteRaises, UndoRaises, Undone, OpenEditor, EditUser,
                DeleteOrRename, Reread, Kill, history
  <2>4. Outdated(x) \in BOOLEAN
    BY DEF Outdated
  <2>5. QED
    BY <1>2, <2>1, <2>2, <2>3, <2>4 DEF FilesKept
<1>4. CASE Write(x)
  <2> DEFINE r == sess[x]
  <2>1. r.done + 1 \in 1..Len(r.plan)
        /\ Replace(x, r.plan[r.done + 1].file, r.plan[r.done + 1].new)
    BY <1>4, WriteFine
  <2>2. \E f \in Files : \E v : Holds(f, v) /\ Replace(x, f, v)
    BY <1>1, <2>1
  <2>3. /\ bot' = bot /\ torn' = torn /\ unseen' = unseen /\ lost' \in BOOLEAN
        /\ \/ granted' = granted
           \/ granted' = granted \cup r.ask.pairs
           \/ granted' = granted \ r.ask.pairs
    BY <1>2, <1>4 DEF Write
  <2>4. r.ask.pairs \subseteq Users \X Ids
    BY DEF Typed, SessionOK
  <2>5. QED
    BY <1>2, <2>2, <2>3, <2>4 DEF FilesKept
<1>5. CASE Undo(x)
  <2> DEFINE r == sess[x]
  <2>1. r.done \in 1..Len(r.plan) /\ Replace(x, r.plan[r.done].file, r.plan[r.done].old)
    BY <1>5, UndoFine
  <2>2. \E f \in Files : \E v : Holds(f, v) /\ Replace(x, f, v)
    BY <1>1, <2>1
  <2>3. /\ bot' = bot /\ torn' = torn /\ unseen' = unseen /\ lost' \in BOOLEAN
        /\ granted' = granted
    BY <1>2, <1>5 DEF Undo
  <2>4. QED
    BY <1>2, <2>2, <2>3 DEF FilesKept
<1>6. CASE AgentCompares(x) \/ AgentReplaces(x) \/ AgentRaises(x)
  <2> DEFINE c == sess[x].plan[1]
  <2>1. /\ 1 \in 1..Len(sess[x].plan)
        /\ \/ disk' = disk /\ race' = race
           \/ Replace(x, c.file, c.old)
           \/ Replace(x, c.file, c.new)
    BY <1>6, ComparesFine, ReplacesFine, AgentRaisesFine
  <2>2. \/ disk' = disk /\ race' = race
        \/ \E f \in Files : \E v : Holds(f, v) /\ Replace(x, f, v)
    BY <1>1, <2>1
  <2>3. bot' = bot /\ unseen' = unseen /\ granted' = granted /\ lost' \in BOOLEAN
    BY <1>2, <1>6 DEF AgentCompares, AgentReplaces, AgentRaises, history
  <2>4. torn' = torn \/ torn' = TRUE
    BY <1>2, <1>6, ReplacesFine, AgentRaisesFine DEF AgentCompares, history
  <2>5. QED
    BY <1>2, <2>2, <2>3, <2>4 DEF FilesKept
<1>7. QED
  BY <1>3, <1>4, <1>5, <1>6 DEF Acts

\* What excuses is never forgotten.
LEMMA ExcusesKept ==
    ASSUME Typed, NEW x \in 1..Terminals, FilesKept(x)
    PROVE  (torn => torn') /\ (unseen => unseen') /\ (race => race')
<1>1. race => race'
  <2>1. CASE disk' = disk /\ race' = race
    BY <2>1
  <2>2. CASE \E f \in Files : \E v : Holds(f, v) /\ Replace(x, f, v)
    BY <2>2, Replaced
  <2>3. QED
    BY <2>1, <2>2 DEF FilesKept
<1>2. QED
  BY <1>1 DEF FilesKept

LEMMA CheckProceeds ==
    ASSUME Typed, NEW x \in 1..Terminals, Check(x) \/ CopyRaises(x)
    PROVE  Proceeds(x)
<1>1. \/ Refuse(x)
      \/ Step(x, [pc |-> "write"])
  BY DEF Check, CopyRaises
<1>2. CASE Refuse(x)
  BY <1>2, RefuseGoes DEF Proceeds
<1>3. CASE Step(x, [pc |-> "write"])
  BY <1>3, CheckGoes DEF Proceeds
<1>4. QED
  BY <1>1, <1>2, <1>3

LEMMA WritesSession ==
    ASSUME SettingsAssumption, Typed, Jobs, NEW x \in 1..Terminals,
           Check(x) \/ CopyRaises(x) \/ Write(x) \/ WriteRaises(x)
    PROVE  SessionKept(x)
<1>1. /\ Moves(x) /\ Fine(sess'[x])
      /\ WindowOK(sess[x]) => WindowOK(sess[x])'
  <2>1. CASE Write(x)
    BY <2>1, WriteFine
  <2>2. QED
    BY <2>1, CheckFine, CopyRaisesFine, WriteRaisesFine
<1>2. Proceeds(x)
  <2>1. CASE Check(x) \/ CopyRaises(x)
    BY <2>1, CheckProceeds
  <2>2. CASE Write(x)
    <3> DEFINE r == sess[x]
    <3>1. /\ r.done + 1 # Len(r.plan) => Goes(x, "write", r.done + 1, r.tried, r.left)
          /\ r.done + 1 = Len(r.plan) => IF r.job = "users" THEN Rereads(x) ELSE Ends(x)
      BY <2>2, WriteFine
    <3>2. QED
      BY <3>1 DEF Proceeds
  <2>3. CASE WriteRaises(x)
    BY <2>3, WriteRaisesFine DEF Proceeds
  <2>4. QED
    BY <2>1, <2>2, <2>3
<1>3. (torn => torn') /\ (unseen => unseen') /\ (race => race')
  BY ActsFiles, ExcusesKept DEF Acts
<1>4. sess[x].pc \in {"check", "write", "undo"}
  BY DEF Check, CopyRaises, Write, WriteRaises
<1>5. QED
  BY <1>1, <1>2, <1>3, <1>4, ProceedsRecalled DEF SessionKept

LEMMA UndosSession ==
    ASSUME SettingsAssumption, Typed, Jobs, NEW x \in 1..Terminals,
           Undo(x) \/ UndoRaises(x) \/ Undone(x)
    PROVE  SessionKept(x)
<1>1. /\ Moves(x) /\ Fine(sess'[x])
      /\ WindowOK(sess[x]) => WindowOK(sess[x])'
  BY UndoFine, UndoRaisesFine, UndoneFine
<1>2. Proceeds(x)
  <2>1. CASE Undo(x)
    BY <2>1, UndoFine DEF Proceeds
  <2>2. CASE UndoRaises(x)
    BY <2>2, UndoRaisesFine DEF Proceeds, UndoRaises
  <2>3. CASE Undone(x)
    BY <2>3, UndoneFine DEF Proceeds
  <2>4. QED
    BY <2>1, <2>2, <2>3
<1>3. (torn => torn') /\ (unseen => unseen') /\ (race => race')
  BY ActsFiles, ExcusesKept DEF Acts
<1>4. sess[x].pc \in {"check", "write", "undo"}
  BY DEF Undo, UndoRaises, Undone
<1>5. QED
  BY <1>1, <1>2, <1>3, <1>4, ProceedsRecalled DEF SessionKept

LEMMA AgentSession ==
    ASSUME SettingsAssumption, Typed, Jobs, NEW x \in 1..Terminals,
           AgentCompares(x) \/ AgentReplaces(x) \/ AgentRaises(x) \/ Kill(x)
    PROVE  SessionKept(x)
<1>1. CASE AgentCompares(x) \/ AgentReplaces(x)
  <2>1. /\ Moves(x) /\ Fine(sess'[x])
        /\ WindowOK(sess[x]) => WindowOK(sess[x])'
        /\ sess[x].pc \in AgentPcs /\ Proceeds(x)
    BY <1>1, ComparesFine, ReplacesFine DEF Proceeds
  <2>2. (torn => torn') /\ (unseen => unseen') /\ (race => race')
    BY <1>1, ActsFiles, ExcusesKept DEF Acts
  <2>3. QED
    BY <2>1, <2>2, ProceedsRecalled DEF SessionKept
<1>2. CASE AgentRaises(x)
  BY <1>2, AgentRaisesFine, EndsKept
<1>3. CASE Kill(x)
  BY <1>3, EndsIdle, EndsKept DEF Kill
<1>4. QED
  BY <1>1, <1>2, <1>3

\* Every step of a terminal keeps its session fine, its window and its memory.
LEMMA ActsSession ==
    ASSUME SettingsAssumption, Typed, Jobs, NEW x \in 1..Terminals, Acts(x)
    PROVE  SessionKept(x)
  BY StagesSession, EditsSession, WritesSession, UndosSession, AgentSession DEF Acts


-----------------------------------------------------------------------------
(* Types, plans, memories and windows are kept by every step.                *)

\* Types are kept.
LEMMA TypedKept ==
    ASSUME SettingsAssumption, Typed, NEW x \in 1..Terminals, SessionKept(x), FilesKept(x)
    PROVE  Typed'
<1>1. disk' = [f \in Files |-> disk'[f]] /\ \A f \in Files : Holds(f, disk'[f])
  <2>1. CASE disk' = disk
    BY <2>1 DEF Typed
  <2>2. CASE \E f \in Files : \E v : Holds(f, v) /\ Replace(x, f, v)
    <3>1. PICK f \in Files : \E v : Holds(f, v) /\ Replace(x, f, v)
      BY <2>2
    <3>2. PICK v : Holds(f, v) /\ Replace(x, f, v)
      BY <3>1
    <3>3. /\ disk' = [g \in Files |-> disk'[g]]
          /\ disk'[f] = v /\ \A g \in Files \ {f} : disk'[g] = disk[g]
      BY <3>2, Replaced
    <3>4. ASSUME NEW g \in Files PROVE Holds(g, disk'[g])
      BY <3>2, <3>3 DEF Typed
    <3>5. QED
      BY <3>3, <3>4
  <2>3. QED
    BY <2>1, <2>2 DEF FilesKept
<1>2. /\ sess' = [y \in 1..Terminals |-> sess'[y]]
      /\ \A y \in 1..Terminals : SessionOK(sess'[y])
  BY DEF SessionKept, Moves, Fine, Typed
<1>3. race' \in BOOLEAN
  BY DEF FilesKept, Replace, Typed
<1>4. bot'.reg \subseteq Ids /\ bot'.tasks \subseteq Ids
      /\ bot' = [reg |-> bot'.reg, tasks |-> bot'.tasks]
  BY DEF FilesKept, Typed
<1>5. /\ granted' \subseteq Users \X Ids
      /\ lost' \in BOOLEAN /\ torn' \in BOOLEAN /\ unseen' \in BOOLEAN
  BY DEF FilesKept
<1>6. QED
  BY <1>1, <1>2, <1>3, <1>4, <1>5 DEF Typed

\* Jobs are kept: they do not speak of the files.
LEMMA JobsKept ==
    ASSUME Jobs, NEW x \in 1..Terminals, SessionKept(x)
    PROVE  Jobs'
  BY DEF Jobs, SessionKept, Moves, Fine

\* Memories are kept: only race and torn can take one.
LEMMA RecalledKept ==
    ASSUME Typed, Windows, Recalled, NEW x \in 1..Terminals, SessionKept(x), FilesKept(x)
    PROVE  Recalled'
<1>1. (torn => torn') /\ (unseen => unseen') /\ (race => race')
  BY ExcusesKept
<1>2. ASSUME NEW y \in 1..Terminals PROVE Recall(sess[y])'
  <2>1. CASE y = x
    BY <2>1 DEF SessionKept, Recalled, Windows
  <2>2. CASE y # x
    <3>1. sess'[y] = sess[y] /\ Recall(sess[y])
      BY <2>2 DEF SessionKept, Moves, Recalled
    <3>2. QED
      BY <1>1, <3>1 DEF Recall
  <2>3. QED
    BY <2>1, <2>2
<1>3. QED
  BY <1>2 DEF Recalled

\* A plan has a first change in its window.
LEMMA FirstInWindow ==
    ASSUME Typed, Jobs, NEW y \in 1..Terminals, InWindow(y), sess[y].pc \notin {"write", "undo"}
    PROVE  1 \in 1..Len(sess[y].plan)
<1>1. SessionOK(sess[y]) /\ JobOK(sess[y])
  BY DEF Typed, Jobs
<1>2. sess[y].done \in 0..Len(sess[y].plan) /\ Len(sess[y].plan) \in Nat
  BY <1>1 DEF SessionOK, PlanOK
<1>3. CASE sess[y].pc = "reread"
  <2>1. sess[y].job = "users" /\ Staged(sess[y])
    BY <1>1, <1>3 DEF JobOK, Counted, Staged
  <2>2. UsersOK(sess[y])
    BY <1>1, <2>1 DEF JobOK
  <2>3. Len(sess[y].plan) = 1
    BY <2>2 DEF UsersOK
  <2>4. QED
    BY <2>3
<1>4. CASE sess[y].pc = "configuring"
  BY <1>1, <1>2, <1>4 DEF JobOK, Counted, Staged, AddOK, IsRemote, AgentPcs
<1>5. CASE sess[y].pc \notin {"reread", "configuring"}
  BY <1>1, <1>2, <1>5 DEF JobOK, Counted, InWindow
<1>6. QED
  BY <1>3, <1>4, <1>5

\* A window is not disturbed by what is written elsewhere.
LEMMA WindowFramed ==
    ASSUME Typed, Jobs, NEW y \in 1..Terminals, WindowOK(sess[y]), sess'[y] = sess[y],
           unseen => unseen',
           InWindow(y) => \A f \in Touched(y) : disk'[f] = disk[f]
    PROVE  WindowOK(sess[y])'
<1> DEFINE r == sess[y]
<1>1. CASE ~InWindow(y)
  BY <1>1 DEF WindowOK, InWindow
<1>2. CASE InWindow(y)
  <2>1. /\ \A i \in 1..Len(r.plan) : disk'[r.plan[i].file] = disk[r.plan[i].file]
        /\ \A i \in 1..Len(r.reads) : disk'[r.reads[i].file] = disk[r.reads[i].file]
    <3>1. DOMAIN r.plan = 1..Len(r.plan) /\ DOMAIN r.reads = 1..Len(r.reads)
      BY DEF Typed, SessionOK, PlanOK
    <3>2. QED
      BY <1>2, <3>1 DEF Touched
  <2>2. r.pc \in {"write", "undo"} \/ disk'[r.plan[1].file] = disk[r.plan[1].file]
    BY <1>2, <2>1, FirstInWindow
  <2>3. sess'[y] = r
    OBVIOUS
  <2> HIDE DEF r
  <2>4. WindowOK(r)
    BY DEF r
  <2>5. /\ r.pc = "write" => \A i \in 1..Len(r.plan) :
              disk'[r.plan[i].file] = IF i <= r.done THEN r.plan[i].new ELSE r.plan[i].old
        /\ r.pc = "undo" => \A i \in 1..Len(r.plan) :
              IF i <= r.done THEN disk'[r.plan[i].file] = r.plan[i].new
              ELSE \/ i <= r.tried /\ r.plan[i].file \in r.left
                   \/ disk'[r.plan[i].file] = r.plan[i].old
    BY <2>1, <2>4 DEF WindowOK
  <2>6. r.pc \in {"write", "undo"} =>
          unseen' \/ \A i \in 1..Len(r.reads) : disk'[r.reads[i].file] = r.reads[i].old
    BY <2>1, <2>4 DEF WindowOK
  <2>7. /\ r.pc = "configuring" => disk'[r.plan[1].file] = r.plan[1].old
        /\ r.pc \in {"reread", "unconfigure", "unconfiguring"} \/ (r.pc = "check" /\ r.done = 1) =>
              disk'[r.plan[1].file] = r.plan[1].new
    BY <2>2, <2>4 DEF WindowOK
  <2>8. QED
    BY <2>3, <2>5, <2>6, <2>7 DEF WindowOK
<1>3. QED
  BY <1>1, <1>2

\* Without a race, what is written is not in the window of another program.
LEMMA ReplaceFramed ==
    ASSUME Typed, NEW x, NEW f \in Files, NEW v, Replace(x, f, v), ~race',
           NEW y \in (1..Terminals) \ {x}, InWindow(y)
    PROVE  f \notin Touched(y) /\ \A g \in Touched(y) : disk'[g] = disk[g]
<1>1. f \notin Touched(y) /\ \A g \in Files \ {f} : disk'[g] = disk[g]
  BY Replaced
<1>2. Touched(y) \subseteq Files
  BY DEF Typed, SessionOK, PlanOK, ChangeOK, Touched
<1>3. QED
  BY <1>1, <1>2

\* Windows are kept, or race says why not.
LEMMA WindowsKept ==
    ASSUME Typed, Jobs, Windows, NEW x \in 1..Terminals, SessionKept(x), FilesKept(x)
    PROVE  Windows'
<1>1. (unseen => unseen') /\ (race => race')
  BY ExcusesKept
<1>2. CASE race'
  BY <1>2 DEF Windows
<1>3. CASE ~race'
  <2>1. ASSUME NEW y \in 1..Terminals PROVE WindowOK(sess[y])'
    <3>1. WindowOK(sess[y])
      BY <1>1, <1>3 DEF Windows
    <3>2. CASE y = x
      BY <3>1, <3>2 DEF SessionKept
    <3>3. CASE y # x
      <4>1. sess'[y] = sess[y]
        BY <3>3 DEF SessionKept, Moves
      <4>2. InWindow(y) => \A f \in Touched(y) : disk'[f] = disk[f]
        <5>1. CASE disk' = disk
          BY <5>1
        <5>2. CASE \E f \in Files : \E v : Holds(f, v) /\ Replace(x, f, v)
          BY <5>2, <3>3, <1>3, ReplaceFramed
        <5>3. QED
          BY <5>1, <5>2 DEF FilesKept
      <4>3. QED
        BY <3>1, <4>1, <4>2, <1>1, WindowFramed
    <3>4. QED
      BY <3>2, <3>3
  <2>2. QED
    BY <2>1 DEF Windows
<1>4. QED
  BY <1>2, <1>3

\* The bot holds ids, and replaces the automation files only.
LEMMA BotKept ==
    ASSUME SettingsAssumption, Typed, Jobs, Recalled, Windows, BotStart \/ BotSaves
    PROVE  /\ Typed' /\ Jobs' /\ Recalled' /\ Windows'
           /\ sess' = sess /\ torn' = torn /\ granted' = granted /\ lost' = lost
           /\ (unseen => unseen') /\ (race => race')
<1>1. /\ disk["tasks"] \subseteq Ids /\ disk["servers"] \in Lists /\ "tasks" \in Files
      /\ Registered(disk["servers"]) \subseteq Ids
  BY DiskTyped, ListShape
<1>2. sess' = sess /\ torn' = torn /\ granted' = granted /\ lost' = lost
  BY DEF BotStart, BotSaves, history
<1>3. /\ bot'.reg \subseteq Ids /\ bot'.tasks \subseteq Ids
      /\ bot' = [reg |-> bot'.reg, tasks |-> bot'.tasks]
      /\ unseen' \in BOOLEAN /\ (unseen => unseen')
      /\ \/ disk' = disk /\ race' = race
         \/ \E v : v \subseteq Ids /\ Replace(0, "tasks", v)
  <2>1. CASE BotStart
    <3>1. bot' = [reg |-> Registered(disk["servers"]), tasks |-> disk["tasks"]]
      BY <2>1 DEF BotStart
    <3>2. disk' = disk /\ race' = race /\ unseen' = unseen
      BY <2>1 DEF BotStart, history
    <3>3. QED
      BY <1>1, <3>1, <3>2 DEF Typed
  <2>2. CASE BotSaves
    <3>1. PICK s \in bot.reg :
            LET tasks == bot.tasks \cup {s} IN
            /\ bot' = [bot EXCEPT !.tasks = tasks]
            /\ Replace(0, "tasks", tasks)
            /\ unseen' = (unseen \/ ~(tasks \subseteq Registered(disk["servers"])))
      BY <2>2 DEF BotSaves
    <3> DEFINE tasks == bot.tasks \cup {s}
    <3>2. tasks \subseteq Ids
      BY DEF Typed
    <3>3. Replace(0, "tasks", tasks)
      BY <3>1
    <3>4. unseen' \in BOOLEAN /\ (unseen => unseen')
      BY <3>1 DEF Typed
    <3>5. bot' = [reg |-> bot.reg, tasks |-> tasks]
      BY <3>1 DEF Typed
    <3> HIDE DEF tasks
    <3>6. bot'.reg \subseteq Ids /\ bot'.tasks \subseteq Ids
          /\ bot' = [reg |-> bot'.reg, tasks |-> bot'.tasks]
      BY <3>2, <3>5 DEF Typed
    <3>7. QED
      BY <3>2, <3>3, <3>4, <3>6
  <2>3. QED
    BY <2>1, <2>2
<1>4. race => race'
  BY <1>3 DEF Replace
<1>5. Typed'
  <2>1. disk' = [f \in Files |-> disk'[f]] /\ \A f \in Files : Holds(f, disk'[f])
    <3>1. CASE disk' = disk
      BY <3>1 DEF Typed
    <3>2. CASE \E v : v \subseteq Ids /\ Replace(0, "tasks", v)
      <4>1. PICK v : v \subseteq Ids /\ Replace(0, "tasks", v)
        BY <3>2
      <4>2. /\ disk' = [g \in Files |-> disk'[g]]
            /\ disk'["tasks"] = v /\ \A g \in Files \ {"tasks"} : disk'[g] = disk[g]
        BY <1>1, <4>1, Replaced
      <4>3. Holds("tasks", v)
        BY <4>1, <1>1 DEF Holds, SettingsAssumption
      <4>4. ASSUME NEW g \in Files PROVE Holds(g, disk'[g])
        BY <4>2, <4>3 DEF Typed
      <4>5. QED
        BY <4>2, <4>4
    <3>3. QED
      BY <1>3, <3>1, <3>2
  <2>2. /\ sess' = [y \in 1..Terminals |-> sess'[y]]
        /\ \A y \in 1..Terminals : SessionOK(sess'[y])
    BY <1>2 DEF Typed
  <2>3. race' \in BOOLEAN
    BY <1>3 DEF Replace, Typed
  <2>4. /\ granted' \subseteq Users \X Ids /\ lost' \in BOOLEAN /\ torn' \in BOOLEAN
    BY <1>2 DEF Typed
  <2>5. QED
    BY <1>3, <2>1, <2>2, <2>3, <2>4 DEF Typed
<1>6. Jobs'
  BY <1>2 DEF Jobs
<1>7. Recalled'
  BY <1>2, <1>3, <1>4 DEF Recalled, Recall
<1>8. Windows'
  <2>1. CASE race'
    BY <2>1 DEF Windows
  <2>2. CASE ~race'
    <3>1. ASSUME NEW y \in 1..Terminals PROVE WindowOK(sess[y])'
      <4>1. WindowOK(sess[y]) /\ sess'[y] = sess[y]
        BY <1>2, <1>4, <2>2 DEF Windows
      <4>2. InWindow(y) => \A f \in Touched(y) : disk'[f] = disk[f]
        <5>1. y \in (1..Terminals) \ {0}
          OBVIOUS
        <5>2. QED
          BY <1>1, <1>3, <2>2, <5>1, ReplaceFramed
      <4>3. QED
        BY <1>3, <4>1, <4>2, WindowFramed
    <3>2. QED
      BY <3>1 DEF Windows
  <2>3. QED
    BY <2>1, <2>2
<1>9. QED
  BY <1>2, <1>3, <1>4, <1>5, <1>6, <1>7, <1>8

\* Nothing happens in this module.
LEMMA StutterKept ==
    ASSUME UNCHANGED setVars
    PROVE  /\ Typed => Typed'
           /\ Jobs => Jobs'
           /\ Recalled => Recalled'
           /\ Windows => Windows'
           /\ disk' = disk /\ sess' = sess /\ granted' = granted /\ lost' = lost
           /\ race' = race /\ torn' = torn /\ unseen' = unseen
<1>1. /\ disk' = disk /\ sess' = sess /\ bot' = bot /\ granted' = granted /\ lost' = lost
      /\ race' = race /\ torn' = torn /\ unseen' = unseen
  BY DEF setVars, files, history
<1>2. Typed => Typed'
  BY <1>1 DEF Typed
<1>3. Jobs => Jobs'
  BY <1>1 DEF Jobs
<1>4. Recalled => Recalled'
  BY <1>1 DEF Recalled, Recall
<1>5. Windows => Windows'
  BY <1>1 DEF Windows, WindowOK
<1>6. QED
  BY <1>1, <1>2, <1>3, <1>4, <1>5

-----------------------------------------------------------------------------
(* What a window tells of the files.                                         *)

\* The files a program touches are those of its plan and of what it read.
LEMMA TouchedIs ==
    ASSUME Typed, NEW x \in 1..Terminals, NEW g
    PROVE  LET r == sess[x] IN
           /\ g \in Touched(x) <=> g \in FilesOf(r.plan, r.reads)
           /\ g \in Touched(x) =>
                \/ \E i \in 1..Len(r.plan) : r.plan[i].file = g /\ OldOf(r, g) = r.plan[i].old
                                              /\ NewOf(r, g) = r.plan[i].new
                \/ \E i \in 1..Len(r.reads) : r.reads[i].file = g /\ OldOf(r, g) = r.reads[i].old
                                              /\ NewOf(r, g) = r.reads[i].old
<1> DEFINE r == sess[x]
           C == Changes(r.plan, r.reads)
<1>1. PlanOK(r.plan) /\ PlanOK(r.reads) /\ Apart(r.plan, r.reads)
  BY DEF Typed, SessionOK
<1>2. DOMAIN r.plan = 1..Len(r.plan) /\ DOMAIN r.reads = 1..Len(r.reads)
  BY <1>1 DEF PlanOK
<1>3. g \in Touched(x) <=> g \in FilesOf(r.plan, r.reads)
  <2>1. g \in FilesOf(r.plan, r.reads) <=> \E c \in C : c.file = g
    BY DEF FilesOf
  <2>2. (\E c \in C : c.file = g) <=> \/ \E i \in DOMAIN r.plan : r.plan[i].file = g
                                      \/ \E i \in DOMAIN r.reads : r.reads[i].file = g
    BY DEF Changes
  <2>3. QED
    BY <2>1, <2>2 DEF Touched
<1>4. ASSUME NEW i \in 1..Len(r.plan), r.plan[i].file = g
      PROVE  OldOf(r, g) = r.plan[i].old /\ NewOf(r, g) = r.plan[i].new
  BY <1>4, PlanAt
<1>5. ASSUME NEW i \in 1..Len(r.reads), r.reads[i].file = g
      PROVE  OldOf(r, g) = r.reads[i].old /\ NewOf(r, g) = r.reads[i].old
  <2>1. r.reads[i] \in C /\ r.reads[i].new = r.reads[i].old
    BY <1>1, <1>2 DEF Changes, Apart
  <2>2. Old(r.plan, r.reads, r.reads[i].file) = r.reads[i].old
        /\ New(r.plan, r.reads, r.reads[i].file) = r.reads[i].new
    BY <1>1, <2>1, Looked
  <2>3. QED
    BY <1>5, <2>1, <2>2 DEF OldOf, NewOf
<1>6. g \in Touched(x) => \/ \E i \in 1..Len(r.plan) : r.plan[i].file = g
                          \/ \E i \in 1..Len(r.reads) : r.reads[i].file = g
  BY <1>2 DEF Touched
<1>7. QED
  BY <1>3, <1>4, <1>5, <1>6

\* Every file of a plan is as it was or as it will be; which, the counter says.
LEMMA WriteKnows ==
    ASSUME Typed, Jobs, NEW x \in 1..Terminals, WindowOK(sess[x]), ~unseen,
           sess[x].pc = "write", NEW g \in Touched(x)
    PROVE  LET r == sess[x] IN
           /\ disk[g] \in {OldOf(r, g), NewOf(r, g)}
           /\ r.done = 0 => disk[g] = OldOf(r, g)
           /\ r.done + 1 = Len(r.plan) /\ g # r.plan[Len(r.plan)].file => disk[g] = NewOf(r, g)
<1> DEFINE r == sess[x]
<1>1. r.done \in Nat /\ Len(r.plan) \in Nat
  BY DEF Typed, SessionOK, PlanOK
<1>2. CASE \E i \in 1..Len(r.plan) : r.plan[i].file = g /\ OldOf(r, g) = r.plan[i].old
                                     /\ NewOf(r, g) = r.plan[i].new
  <2>1. PICK i \in 1..Len(r.plan) : r.plan[i].file = g /\ OldOf(r, g) = r.plan[i].old
                                    /\ NewOf(r, g) = r.plan[i].new
    BY <1>2
  <2>2. disk[g] = IF i <= r.done THEN NewOf(r, g) ELSE OldOf(r, g)
    BY <2>1 DEF WindowOK
  <2>3. r.done + 1 = Len(r.plan) /\ g # r.plan[Len(r.plan)].file => i <= r.done
    BY <1>1, <2>1
  <2>4. r.done = 0 => ~(i <= r.done)
    BY <1>1
  <2>5. QED
    BY <2>2, <2>3, <2>4
<1>3. CASE \E i \in 1..Len(r.reads) : r.reads[i].file = g /\ OldOf(r, g) = r.reads[i].old
                                     /\ NewOf(r, g) = r.reads[i].old
  BY <1>3 DEF WindowOK
<1>4. QED
  BY <1>2, <1>3, TouchedIs

\* The same while it rolls back; with one file left, only the first one is new.
LEMMA UndoKnows ==
    ASSUME Typed, Jobs, Recalled, NEW x \in 1..Terminals, WindowOK(sess[x]), ~unseen, ~torn,
           sess[x].pc = "undo", NEW g \in Touched(x)
    PROVE  LET r == sess[x] IN
           /\ disk[g] \in {OldOf(r, g), NewOf(r, g)}
           /\ r.done = 0 => disk[g] = OldOf(r, g)
           /\ r.done = 1 /\ g # r.plan[1].file => disk[g] = OldOf(r, g)
<1> DEFINE r == sess[x]
<1>1. r.done \in Nat /\ Len(r.plan) \in Nat /\ r.left = {}
  BY DEF Typed, SessionOK, PlanOK, Recalled, Recall
<1>2. CASE \E i \in 1..Len(r.plan) : r.plan[i].file = g /\ OldOf(r, g) = r.plan[i].old
                                     /\ NewOf(r, g) = r.plan[i].new
  <2>1. PICK i \in 1..Len(r.plan) : r.plan[i].file = g /\ OldOf(r, g) = r.plan[i].old
                                    /\ NewOf(r, g) = r.plan[i].new
    BY <1>2
  <2>2. disk[g] = IF i <= r.done THEN NewOf(r, g) ELSE OldOf(r, g)
    BY <1>1, <2>1 DEF WindowOK
  <2>3. r.done = 1 /\ g # r.plan[1].file => ~(i <= r.done)
    BY <1>1, <2>1
  <2>4. r.done = 0 => ~(i <= r.done)
    BY <1>1
  <2>5. QED
    BY <2>2, <2>3, <2>4
<1>3. CASE \E i \in 1..Len(r.reads) : r.reads[i].file = g /\ OldOf(r, g) = r.reads[i].old
                                     /\ NewOf(r, g) = r.reads[i].old
  BY <1>3 DEF WindowOK
<1>4. QED
  BY <1>2, <1>3, TouchedIs

\* The registry is written last: until then it is the one that was read.
LEMMA SeenNow ==
    ASSUME Typed, Jobs, NEW x \in 1..Terminals, WindowOK(sess[x]), ~unseen,
           sess[x].pc \in {"write", "undo"}
    PROVE  "servers" \in Touched(x) /\ disk["servers"] = sess[x].seen
<1> DEFINE r == sess[x]
<1>1. SessionOK(r) /\ JobOK(r) /\ Staged(r)
  BY DEF Typed, Jobs, Staged
<1>2. r.job \in {"add", "software", "remove", "users"}
  BY <1>1 DEF JobOK, Counted, SessionOK
<1>3. "servers" \in FilesOf(r.plan, r.reads) /\ OldOf(r, "servers") = r.seen
  BY <1>1, <1>2 DEF JobOK, AddOK, SoftwareOK, RemoveOK, UsersOK
<1>4. "servers" \in Touched(x)
  BY <1>3, TouchedIs
<1>5. CASE r.job # "users"
  <2> DEFINE n == Len(r.plan)
  <2>1. n > 0 /\ r.plan[n].file = "servers"
    BY <1>1, <1>2, <1>5 DEF JobOK, AddOK, SoftwareOK, RemoveOK, LastIs
  <2>2. n \in 1..Len(r.plan) /\ r.done \in Nat /\ r.tried \in Nat
    BY <1>1, <2>1 DEF SessionOK, PlanOK
  <2>3. r.plan[n].old = r.seen
    BY <1>3, <2>1, <2>2, PlanAt
  <2>4. ~(n <= r.done) /\ (r.pc = "undo" => ~(n <= r.tried))
    BY <1>1, <2>2 DEF JobOK, Counted
  <2>5. CASE r.pc = "write"
    <3>1. disk[r.plan[n].file] = r.plan[n].old
      BY <2>2, <2>4, <2>5 DEF WindowOK
    <3>2. QED
      BY <1>4, <2>1, <2>3, <3>1
  <2>6. CASE r.pc = "undo"
    <3>1. disk[r.plan[n].file] = r.plan[n].old
      BY <2>2, <2>4, <2>6 DEF WindowOK
    <3>2. QED
      BY <1>4, <2>1, <2>3, <3>1
  <2>7. QED
    BY <2>5, <2>6
<1>6. CASE r.job = "users"
  <2>1. Len(r.plan) = 1 /\ r.plan[1].file = "users"
    BY <1>1, <1>6 DEF JobOK, UsersOK, LastIs
  <2>2. PICK i \in 1..Len(r.reads) : r.reads[i].file = "servers"
                                      /\ OldOf(r, "servers") = r.reads[i].old
    BY <1>4, <2>1, TouchedIs
  <2>3. disk["servers"] = r.reads[i].old
    BY <2>2 DEF WindowOK
  <2>4. QED
    BY <1>3, <1>4, <2>2, <2>3
<1>7. QED
  BY <1>5, <1>6

\* A removal touches the four files of the bot.
LEMMA RemovalTouches ==
    ASSUME Typed, Jobs, NEW x \in 1..Terminals, Removing(x)
    PROVE  /\ InWindow(x) /\ Touched(x) = {"env", "users", "tasks", "servers"}
           /\ RemoveOK(sess[x]) /\ SessionOK(sess[x])
           /\ sess[x].id \in Registered(sess[x].seen)
<1>1. RemoveOK(sess[x]) /\ SessionOK(sess[x]) /\ sess[x].id \in Registered(sess[x].seen)
  BY DEF Removing, Typed, Jobs, JobOK, Staged
<1>2. \A g : g \in Touched(x) <=> g \in {"env", "users", "tasks", "servers"}
  BY <1>1, TouchedIs DEF RemoveOK
<1>3. QED
  BY <1>1, <1>2 DEF Removing, InWindow

-----------------------------------------------------------------------------
(* The steps that write the four files of the bot, and those that do not.    *)

Shared == {"env", "users", "tasks", "servers"}

\* Removals remember what they read, and only an accident ends one that has written.
Remains(x) ==
    /\ Moves(x)
    /\ Removing(x)' => /\ Removing(x) /\ sess'[x].seen = sess[x].seen
                       /\ \A f : OldOf(sess'[x], f) = OldOf(sess[x], f)
    /\ Busy(x) => Busy(x)' \/ torn'

Calm(x) == Remains(x) /\ granted' = granted /\ \A f \in Shared : disk'[f] = disk[f]

\* The comparison has found the files of the plan as they were.
Enters(x) ==
    /\ sess[x].pc = "check" /\ Unchanged(x) /\ unseen' = (unseen \/ Outdated(x))
    /\ Goes(x, "write", sess[x].done, sess[x].tried, sess[x].left)
    /\ disk' = disk /\ granted' = granted

\* A step that leaves the window, or is not in it.
LEMMA OutsideRemains ==
    ASSUME NEW x \in 1..Terminals, Moves(x), sess'[x].pc \notin {"write", "undo"},
           sess[x].pc \notin {"write", "undo"} \/ torn' \/ sess[x].job # "remove"
              \/ sess[x].done = 0
    PROVE  Remains(x)
  BY DEF Remains, Removing, Busy

\* A program that moves its counter goes on with the same plan.
LEMMA GoesOld ==
    ASSUME NEW x, NEW pc, NEW done, NEW tried, NEW left, Goes(x, pc, done, tried, left)
    PROVE  /\ Moves(x) /\ sess'[x].seen = sess[x].seen /\ sess'[x].job = sess[x].job
           /\ sess'[x].id = sess[x].id /\ sess'[x].plan = sess[x].plan
           /\ sess'[x].pc = pc /\ sess'[x].done = done
           /\ \A f : /\ OldOf(sess'[x], f) = OldOf(sess[x], f)
                     /\ NewOf(sess'[x], f) = NewOf(sess[x], f)
  BY DEF Goes, OldOf, NewOf

\* The steps before the window leave the files alone.
LEMMA StagesCalm ==
    ASSUME SettingsAssumption, Typed, Jobs, NEW x \in 1..Terminals,
           \/ Open(x) \/ StageAdd(x) \/ StageRemote(x) \/ EditExistingSoftware(x)
           \/ StageRemoval(x) \/ Cancel(x)
           \/ OpenEditor(x) \/ EditUser(x) \/ DeleteOrRename(x) \/ Reread(x)
    PROVE  Calm(x)
<1>1. disk' = disk /\ granted' = granted
  BY DEF Open, StageAdd, StageRemote, EditExistingSoftware, StageRemoval, Cancel,
         OpenEditor, EditUser, DeleteOrRename, Reread, history
<1>2. sess[x].pc \notin {"write", "undo"}
  BY DEF Open, StageAdd, StageRemote, EditExistingSoftware, StageRemoval, Cancel,
         OpenEditor, EditUser, DeleteOrRename, Reread, Free
<1>3. Moves(x) /\ sess'[x].pc \notin {"write", "undo"}
  <2>1. CASE Cancel(x)
    BY <2>1, EndsIdle, EndsFine DEF Cancel
  <2>2. CASE ~Cancel(x)
    BY <2>2, OpenFine, StageAddFine, StageRemoteFine, SoftwareFine, StageRemovalFine,
       OpenEditorFine, EditUserFine, DeleteFine, RereadFine
  <2>3. QED
    BY <2>1, <2>2
<1>4. QED
  BY <1>1, <1>2, <1>3, OutsideRemains DEF Calm

\* A comparison leaves the files alone.
LEMMA ChecksCalm ==
    ASSUME SettingsAssumption, Typed, Jobs, NEW x \in 1..Terminals, Check(x) \/ CopyRaises(x)
    PROVE  Calm(x) \/ Enters(x)
<1>1. disk' = disk /\ granted' = granted /\ sess[x].pc = "check"
  BY DEF Check, CopyRaises, history
<1>2. CASE Refuse(x)
  <2>1. Moves(x) /\ sess'[x].pc \notin {"write", "undo"}
    BY <1>2, RefuseGoes, EndsFine, GoesOld
  <2>2. QED
    BY <1>1, <2>1, OutsideRemains DEF Calm
<1>3. CASE ~Refuse(x)
  BY <1>1, <1>3, CheckGoes DEF Check, CopyRaises, Enters
<1>4. QED
  BY <1>2, <1>3

\* What raises leaves the files alone.
LEMMA RaisesCalm ==
    ASSUME SettingsAssumption, Typed, Jobs, NEW x \in 1..Terminals,
           WriteRaises(x) \/ UndoRaises(x) \/ Undone(x)
    PROVE  Calm(x)
<1>1. disk' = disk /\ granted' = granted
  BY DEF WriteRaises, UndoRaises, Undone, history
<1>2. CASE WriteRaises(x)
  <2>1. Goes(x, "undo", sess[x].done, sess[x].done, sess[x].left) /\ sess[x].pc = "write"
    BY <1>2, WriteRaisesFine DEF WriteRaises
  <2>2. Remains(x)
    BY <2>1, GoesOld DEF Remains, Removing, Busy
  <2>3. QED
    BY <1>1, <2>2 DEF Calm
<1>3. CASE UndoRaises(x)
  <2>1. torn' = TRUE /\ sess[x].pc = "undo"
    BY <1>3 DEF UndoRaises
  <2>2. \E file \in Files :
          Goes(x, "undo", sess[x].done - 1, sess[x].tried, sess[x].left \cup {file})
    BY <1>3, UndoRaisesFine
  <2>3. Remains(x)
    BY <2>1, <2>2, GoesOld DEF Remains, Removing
  <2>4. QED
    BY <1>1, <2>3 DEF Calm
<1>4. CASE Undone(x)
  <2>1. Moves(x) /\ sess'[x].pc \notin {"write", "undo"}
    BY <1>4, UndoneFine, EndsFine, GoesOld
  <2>2. sess[x].job # "remove" \/ sess[x].done = 0
    <3>1. sess[x].done < FirstLocal(x) /\ sess[x].done \in Nat
      BY <1>4 DEF Undone, Typed, SessionOK, PlanOK
    <3>2. QED
      BY <3>1 DEF FirstLocal
  <2>3. QED
    BY <1>1, <2>1, <2>2, OutsideRemains DEF Calm
<1>5. QED
  BY <1>2, <1>3, <1>4

\* The agent's file is none of the bot's.
LEMMA AgentFile ==
    ASSUME SettingsAssumption, Typed, Jobs, NEW x \in 1..Terminals,
           IsRemote(sess[x]), Staged(sess[x])
    PROVE  LET c == sess[x].plan[1] IN
           /\ 1 \in 1..Len(sess[x].plan)
           /\ c.file = sess[x].id /\ sess[x].id \in Ids /\ sess[x].id \in Files
           /\ sess[x].id \notin Shared /\ Fresh(sess[x])
           /\ sess[x].id \in Touched(x)
           /\ OldOf(sess[x], sess[x].id) = c.old /\ NewOf(sess[x], sess[x].id) = c.new
<1>1. SessionOK(sess[x]) /\ JobOK(sess[x])
  BY DEF Typed, Jobs
<1>2. AddOK(sess[x]) /\ Fresh(sess[x])
  BY <1>1 DEF JobOK, IsRemote
<1>3. 1 \in 1..Len(sess[x].plan) /\ sess[x].plan[1].file = sess[x].id
  BY <1>1, <1>2 DEF AddOK, IsRemote, SessionOK, PlanOK
<1>4. sess[x].id \in Ids /\ sess[x].id \notin Shared /\ sess[x].id \in Files
  BY <1>2, DiskTyped DEF Fresh, Shared
<1>5. QED
  BY <1>2, <1>3, <1>4, PlanAt

\* The agent's file is none of the bot's, and a kill writes nothing.
LEMMA AgentCalm ==
    ASSUME SettingsAssumption, Typed, Jobs, NEW x \in 1..Terminals,
           AgentCompares(x) \/ AgentReplaces(x) \/ AgentRaises(x) \/ Kill(x)
    PROVE  Calm(x)
<1>1. granted' = granted
  BY DEF AgentCompares, AgentReplaces, AgentRaises, Kill, history
<1>2. CASE Kill(x)
  <2>1. Moves(x) /\ sess'[x].pc = "idle" /\ disk' = disk
    BY <1>2, EndsIdle, EndsFine DEF Kill
  <2>2. sess[x].pc \in {"write", "undo"} => torn' \/ sess[x].done = 0
    <3>1. sess[x].done \in Nat /\ torn \in BOOLEAN
      BY DEF Typed, SessionOK, PlanOK
    <3>2. torn' = (torn \/ (sess[x].pc # "reread" /\ sess[x].done > 0))
      BY <1>2 DEF Kill
    <3>3. ASSUME sess[x].pc \in {"write", "undo"}, sess[x].done # 0
          PROVE  torn'
      <4>1. sess[x].pc # "reread" /\ sess[x].done > 0
        BY <3>1, <3>3
      <4>2. QED
        BY <3>2, <4>1, Zenon
    <3>4. QED
      BY <3>3
  <2>3. QED
    BY <1>1, <2>1, <2>2, OutsideRemains DEF Calm
<1>3. CASE AgentCompares(x) \/ AgentReplaces(x) \/ AgentRaises(x)
  <2> DEFINE c == sess[x].plan[1]
  <2>1. /\ sess[x].pc \in AgentPcs /\ IsRemote(sess[x]) /\ Moves(x)
        /\ sess'[x].pc \in {"configuring", "unconfiguring", "check", "idle"}
        /\ \/ disk' = disk
           \/ \E v : Replace(x, c.file, v)
    <3>1. CASE AgentCompares(x)
      <4>1. sess'[x].pc \in {"configuring", "unconfiguring"}
        BY <3>1, ComparesFine DEF Goes
      <4>2. QED
        BY <3>1, <4>1, ComparesFine
    <3>2. CASE AgentReplaces(x)
      <4>1. \/ Goes(x, "check", 1, sess[x].tried, sess[x].left)
            \/ Ends(x)
        BY <3>2, ReplacesFine
      <4>2. sess'[x].pc \in {"check", "idle"}
        BY <4>1, EndsFine DEF Goes
      <4>3. QED
        BY <3>2, <4>2, ReplacesFine
    <3>3. CASE AgentRaises(x)
      BY <3>3, AgentRaisesFine, EndsFine
    <3>4. QED
      BY <1>3, <3>1, <3>2, <3>3
  <2>2. c.file \in Files /\ c.file \notin Shared /\ Shared \subseteq Files
    BY <2>1, AgentFile DEF Files, Shared, Staged, AgentPcs
  <2> HIDE DEF c
  <2>5. \A f \in Shared : disk'[f] = disk[f]
    <3>1. CASE \E v : Replace(x, c.file, v)
      BY <2>2, <3>1, Replaced
    <3>2. QED
      BY <2>1, <3>1
  <2>6. Remains(x)
    BY <2>1, OutsideRemains DEF AgentPcs
  <2>7. QED
    BY <1>1, <2>5, <2>6 DEF Calm
<1>4. QED
  BY <1>2, <1>3

\* A step leaves the bot's files alone, enters a window, replaces or rolls back.
LEMMA Classes ==
    ASSUME SettingsAssumption, Typed, Jobs, NEW x \in 1..Terminals, Acts(x)
    PROVE  Calm(x) \/ Enters(x) \/ Write(x) \/ Undo(x)
  BY StagesCalm, ChecksCalm, RaisesCalm, AgentCalm DEF Acts

\* What a program reads of the files when it enters its window.
LEMMA EnterKnows ==
    ASSUME Typed, Jobs, NEW x \in 1..Terminals, Enters(x), ~unseen', ~IsRemote(sess[x]),
           NEW g \in Touched(x)
    PROVE  disk[g] = OldOf(sess[x], g) /\ sess[x].done = 0
<1> DEFINE r == sess[x]
<1>1. JobOK(r) /\ FirstLocal(x) = 1 /\ r.done = 0
  BY FirstIs DEF Jobs, Enters, JobOK, Counted
<1>2. PlanOK(r.reads)
  BY DEF Typed, SessionOK
<1>3. /\ \A i \in 1..Len(r.plan) : disk[r.plan[i].file] = r.plan[i].old
      /\ \A i \in 1..Len(r.reads) : disk[r.reads[i].file] = r.reads[i].old
  BY <1>1, <1>2 DEF Enters, Unchanged, Outdated, PlanOK
<1>4. QED
  BY <1>1, <1>3, TouchedIs

\* A removal that enters its window has read what the files hold.
LEMMA RemovalEnters ==
    ASSUME SettingsAssumption, Typed, Jobs, NEW x \in 1..Terminals, Enters(x), ~unseen',
           sess[x].job = "remove"
    PROVE  /\ \A f \in Shared : OldOf(sess[x], f) = disk[f]
           /\ sess[x].seen = disk["servers"] /\ sess[x].done = 0
<1> DEFINE r == sess[x]
<1>1. Staged(r) /\ RemoveOK(r)
  BY DEF Jobs, JobOK, Staged, Enters
<1>2. FilesOf(r.plan, r.reads) = Shared /\ OldOf(r, "servers") = r.seen
  BY <1>1 DEF RemoveOK, Shared
<1>3. \A f \in Shared : f \in Touched(x)
  BY <1>2, TouchedIs
<1>4. ~IsRemote(r) /\ "servers" \in Shared
  BY DEF IsRemote, Shared
<1>5. QED
  BY <1>2, <1>3, <1>4, EnterKnows

-----------------------------------------------------------------------------
(* A replacement and a rollback, while nobody has raced.                     *)

\* File f goes from what was read to what was planned.
Puts(x, f) ==
    LET r == sess[x]
        last == r.done + 1 = Len(r.plan) IN
    /\ r.pc = "write" /\ f \in Touched(x) /\ f \in Files
    /\ disk[f] = OldOf(r, f) /\ disk'[f] = NewOf(r, f)
    /\ \A g \in Files \ {f} : disk'[g] = disk[g]
    /\ \A y \in (1..Terminals) \ {x} : InWindow(y) => f \notin Touched(y)
    /\ disk["servers"] = r.seen
    /\ LastIs(r, f) <=> last
    /\ last => \A g \in Touched(x) \ {f} : disk[g] = NewOf(r, g)
    /\ ~last => granted' = granted /\ Goes(x, "write", r.done + 1, r.tried, r.left)
    /\ last => /\ granted' = IF r.ask.give THEN granted \cup r.ask.pairs
                                           ELSE granted \ r.ask.pairs
               /\ Moves(x) /\ sess'[x].pc \in {"idle", "reread"}

\* A replacement without a race puts what was planned in place of what was read.
LEMMA WritePuts ==
    ASSUME SettingsAssumption, Typed, Jobs, Windows, NEW x \in 1..Terminals,
           Write(x), ~race', ~unseen
    PROVE  /\ \E f : Puts(x, f)
           /\ WindowOK(sess[x]) /\ ~race /\ unseen' = unseen /\ torn' = torn
<1> DEFINE r == sess[x]
           n == r.done + 1
           c == r.plan[n]
           f == c.file
           last == n = Len(r.plan)
<1>1. r.pc = "write" /\ unseen' = unseen /\ torn' = torn
  BY DEF Write
<1>2. n \in 1..Len(r.plan) /\ Replace(x, f, c.new)
      /\ (~last => Goes(x, "write", n, r.tried, r.left))
      /\ (last => IF r.job = "users" THEN Rereads(x) ELSE Ends(x))
  BY WriteFine
<1>3. c.file \in Touched(x) /\ c.file \in Files /\ OldOf(r, f) = c.old /\ NewOf(r, f) = c.new
  BY <1>2, PlanAt
<1>4. /\ disk'[f] = c.new /\ \A g \in Files \ {f} : disk'[g] = disk[g]
      /\ race => race'
      /\ \A y \in (1..Terminals) \ {x} : InWindow(y) /\ f \in Touched(y) => race'
  <2> DEFINE v == c.new
  <2>1. f \in Files /\ Replace(x, f, v)
    BY <1>2, <1>3
  <2> HIDE DEF f, v
  <2>2. /\ disk'[f] = v /\ \A g \in Files \ {f} : disk'[g] = disk[g]
        /\ race => race'
        /\ \A y \in (1..Terminals) \ {x} : InWindow(y) /\ f \in Touched(y) => race'
    BY <2>1, Replaced
  <2>3. QED
    BY <2>2 DEF v
<1>5. ~race /\ WindowOK(r)
  BY <1>4 DEF Windows
<1>6. SessionOK(r) /\ Len(r.plan) \in Nat /\ r.done \in Nat
  BY DEF Typed, SessionOK, PlanOK
<1>7. disk[f] = c.old
  <2>1. disk[r.plan[n].file] = r.plan[n].old
    BY <1>1, <1>2, <1>5, <1>6 DEF WindowOK
  <2>2. QED
    BY <2>1
<1>8. disk["servers"] = r.seen
  BY <1>1, <1>5, SeenNow
<1>9. LastIs(r, f) <=> last
  <2>1. \A i, j \in 1..Len(r.plan) : r.plan[i].file = r.plan[j].file => i = j
    BY <1>6 DEF SessionOK, Apart
  <2>2. Len(r.plan) \in 1..Len(r.plan)
    BY <1>2, <1>6
  <2>3. QED
    BY <1>2, <2>1, <2>2 DEF LastIs
<1>10. last => \A g \in Touched(x) \ {f} : disk[g] = NewOf(r, g)
  BY <1>1, <1>5, <1>6, WriteKnows
<1>11. /\ ~last => granted' = granted
       /\ last => granted' = IF r.ask.give THEN granted \cup r.ask.pairs
                                           ELSE granted \ r.ask.pairs
  BY DEF Write
<1>12. last => Moves(x) /\ sess'[x].pc \in {"idle", "reread"}
  BY <1>2, EndsFine DEF Rereads
<1> HIDE DEF c, f
<1>13. Puts(x, f)
  <2>1. disk[f] = OldOf(r, f) /\ disk'[f] = NewOf(r, f) /\ f \in Touched(x) /\ f \in Files
    BY <1>3, <1>4, <1>7 DEF f
  <2>2. QED
    BY <2>1, <1>1, <1>2, <1>4, <1>8, <1>9, <1>10, <1>11, <1>12 DEF Puts
<1>14. QED
  BY <1>1, <1>5, <1>13

\* File f goes back to what was read.
PutsBack(x, f) ==
    LET r == sess[x] IN
    /\ r.pc = "undo" /\ f \in Touched(x) /\ f \in Files /\ f # "servers"
    /\ disk[f] = NewOf(r, f) /\ disk'[f] = OldOf(r, f)
    /\ \A g \in Files \ {f} : disk'[g] = disk[g]
    /\ \A y \in (1..Terminals) \ {x} : InWindow(y) => f \notin Touched(y)
    /\ disk["servers"] = r.seen
    /\ r.done > 0 /\ (r.done = 1 => f = r.plan[1].file)
    /\ r.job \in {"add", "remove"}
    /\ granted' = granted /\ Goes(x, "undo", r.done - 1, r.tried, r.left)

\* A rollback without a race puts back what was read.
LEMMA UndoPutsBack ==
    ASSUME SettingsAssumption, Typed, Jobs, Windows, NEW x \in 1..Terminals,
           Undo(x), ~race', ~unseen
    PROVE  /\ \E f : PutsBack(x, f)
           /\ WindowOK(sess[x]) /\ ~race /\ unseen' = unseen /\ torn' = torn
<1> DEFINE r == sess[x]
           n == r.done
           c == r.plan[n]
           f == c.file
<1>1. r.pc = "undo" /\ unseen' = unseen /\ torn' = torn /\ granted' = granted
  BY DEF Undo
<1>2. /\ n \in 1..Len(r.plan) /\ n < Len(r.plan) /\ Replace(x, f, c.old)
      /\ Goes(x, "undo", n - 1, r.tried, r.left)
  BY UndoFine
<1>3. c.file \in Touched(x) /\ c.file \in Files /\ OldOf(r, f) = c.old /\ NewOf(r, f) = c.new
  BY <1>2, PlanAt
<1>4. /\ disk'[f] = c.old /\ \A g \in Files \ {f} : disk'[g] = disk[g]
      /\ race => race'
      /\ \A y \in (1..Terminals) \ {x} : InWindow(y) /\ f \in Touched(y) => race'
  <2> DEFINE v == c.old
  <2>1. f \in Files /\ Replace(x, f, v)
    BY <1>2, <1>3
  <2> HIDE DEF f, v
  <2>2. /\ disk'[f] = v /\ \A g \in Files \ {f} : disk'[g] = disk[g]
        /\ race => race'
        /\ \A y \in (1..Terminals) \ {x} : InWindow(y) /\ f \in Touched(y) => race'
    BY <2>1, Replaced
  <2>3. QED
    BY <2>2 DEF v
<1>5. ~race /\ WindowOK(r)
  BY <1>4 DEF Windows
<1>6. SessionOK(r) /\ Len(r.plan) \in Nat /\ r.done \in Nat /\ JobOK(r) /\ Staged(r)
  BY <1>1 DEF Typed, SessionOK, PlanOK, Jobs, Staged
<1>7. disk[f] = c.new
  <2>1. disk[r.plan[n].file] = r.plan[n].new
    BY <1>1, <1>2, <1>5, <1>6 DEF WindowOK
  <2>2. QED
    BY <2>1
<1>8. disk["servers"] = r.seen
  BY <1>1, <1>5, SeenNow
<1>9. r.job \in {"add", "remove"}
  <2>1. Len(r.plan) # 1
    <3> DEFINE m == Len(r.plan)
    <3>1. n \in 1..m /\ n < m /\ m \in Nat
      BY <1>2, <1>6
    <3> HIDE DEF n, m
    <3>2. m # 1
      BY <3>1
    <3>3. QED
      BY <3>2 DEF m
  <2>2. QED
    BY <1>1, <1>6, <2>1 DEF JobOK, Counted, SessionOK, SoftwareOK, UsersOK
<1>10. f # "servers"
  <2>1. LastIs(r, "servers")
    BY <1>6, <1>9 DEF JobOK, AddOK, RemoveOK
  <2>2. \A i, j \in 1..Len(r.plan) : r.plan[i].file = r.plan[j].file => i = j
    BY <1>6 DEF SessionOK, Apart
  <2>3. Len(r.plan) \in 1..Len(r.plan) /\ n # Len(r.plan)
    <3>1. n \in 1..Len(r.plan) /\ n < Len(r.plan)
      BY <1>2
    <3> HIDE DEF n
    <3>2. Len(r.plan) \in Nat
      BY <1>6
    <3>3. QED
      BY <3>1, <3>2
  <2>4. QED
    BY <1>2, <2>1, <2>2, <2>3 DEF LastIs
<1>11. n = 1 => f = r.plan[1].file
  OBVIOUS
<1> HIDE DEF c, f
<1>12. PutsBack(x, f)
  <2>1. disk[f] = NewOf(r, f) /\ disk'[f] = OldOf(r, f) /\ f \in Touched(x) /\ f \in Files
    BY <1>3, <1>4, <1>7 DEF f
  <2>2. QED
    BY <2>1, <1>1, <1>2, <1>4, <1>8, <1>9, <1>10, <1>11 DEF PutsBack
<1>13. QED
  BY <1>1, <1>5, <1>12

-----------------------------------------------------------------------------
(* What the jobs make of the files they write.                               *)

\* The job of a program that writes, and what it promised.
LEMMA JobNow ==
    ASSUME Typed, Jobs, NEW x \in 1..Terminals, sess[x].pc \in {"write", "undo"}
    PROVE  LET r == sess[x] IN
           /\ SessionOK(r) /\ JobOK(r) /\ Counted(r) /\ r.job \in {"add", "software", "remove", "users"}
           /\ r.job = "add" => AddOK(r) /\ Fresh(r)
           /\ r.job = "software" => SoftwareOK(r)
           /\ r.job = "remove" => RemoveOK(r) /\ Removing(x)
           /\ r.job = "users" => UsersOK(r)
           /\ r.job = "add" => Touched(x) = {"env", "servers", r.id}
           /\ r.job = "software" => Touched(x) = {"servers"}
           /\ r.job = "remove" => Touched(x) = Shared
           /\ r.job = "users" => Touched(x) = {"users", "env", "servers"}
<1> DEFINE r == sess[x]
<1>1. SessionOK(r) /\ JobOK(r) /\ Staged(r) /\ Counted(r)
  BY DEF Typed, Jobs, JobOK, Staged
<1>2. r.job \in {"add", "software", "remove", "users"}
  BY <1>1 DEF Counted, SessionOK
<1>3. /\ r.job = "add" => AddOK(r) /\ Fresh(r)
      /\ r.job = "software" => SoftwareOK(r)
      /\ r.job = "remove" => RemoveOK(r) /\ Removing(x)
      /\ r.job = "users" => UsersOK(r)
  BY <1>1 DEF JobOK, Removing
<1>4. \A g : g \in Touched(x) <=> g \in FilesOf(r.plan, r.reads)
  BY TouchedIs
<1>5. Touched(x) = FilesOf(r.plan, r.reads)
  BY <1>4 DEF FilesOf, Touched
<1>6. QED
  BY <1>1, <1>2, <1>3, <1>5 DEF AddOK, SoftwareOK, RemoveOK, UsersOK, Shared

\* What is put in a file has the type of the file.
LEMMA OldTyped ==
    ASSUME SettingsAssumption, Typed, NEW x \in 1..Terminals, NEW g \in Touched(x)
    PROVE  g \in Files /\ Holds(g, OldOf(sess[x], g)) /\ Holds(g, NewOf(sess[x], g))
<1> DEFINE r == sess[x]
<1>1. PlanOK(r.plan) /\ PlanOK(r.reads)
  BY DEF Typed, SessionOK
<1>2. CASE \E i \in 1..Len(r.plan) : r.plan[i].file = g /\ OldOf(r, g) = r.plan[i].old
                                     /\ NewOf(r, g) = r.plan[i].new
  BY <1>1, <1>2 DEF PlanOK, ChangeOK
<1>3. CASE \E i \in 1..Len(r.reads) : r.reads[i].file = g /\ OldOf(r, g) = r.reads[i].old
                                      /\ NewOf(r, g) = r.reads[i].old
  BY <1>1, <1>3 DEF PlanOK, ChangeOK
<1>4. QED
  BY <1>2, <1>3, TouchedIs

\* The default moves to a server that remains, or stays.
LEMMA RemovalDefault ==
    ASSUME SettingsAssumption, NEW r, RemoveOK(r), r.default = DefaultId(OldOf(r, "env")),
           r.seen \in Lists
    PROVE  /\ DefaultId(NewOf(r, "env")) \in Registered(NewOf(r, "servers"))
           /\ Registered(NewOf(r, "servers")) = Registered(r.seen) \ {r.id}
           /\ \E moved \in BOOLEAN :
                /\ ~moved => DefaultId(NewOf(r, "env")) = DefaultId(OldOf(r, "env"))
                /\ NewOf(r, "users") =
                      [u \in Users |-> RemoveServerPermissions(OldOf(r, "users")[u], r.id, moved)]
<1> DEFINE env == NewOf(r, "env")
           before == OldOf(r, "env")
           remaining == NewOf(r, "servers")
<1>1. Registered(remaining) = Registered(r.seen) \ {r.id} /\ Registered(r.seen) \subseteq Ids
  BY ListShape DEF RemoveOK
<1>2. PICK new \in Registered(remaining) :
        /\ r.default \in Registered(remaining) => new = r.default
        /\ env.default = IF new = r.default THEN before.default ELSE new
        /\ NewOf(r, "users") =
              [u \in Users |-> RemoveServerPermissions(OldOf(r, "users")[u], r.id,
                                                       new # r.default)]
  BY DEF RemoveOK
<1>3. new # NoId
  BY <1>1, <1>2 DEF SettingsAssumption
<1>4. CASE new = r.default
  <2>1. DefaultId(env) = DefaultId(before)
    BY <1>2, <1>4 DEF DefaultId
  <2>2. \E moved \in BOOLEAN :
          /\ ~moved => DefaultId(env) = DefaultId(before)
          /\ NewOf(r, "users") =
                [u \in Users |-> RemoveServerPermissions(OldOf(r, "users")[u], r.id, moved)]
    <3>1. WITNESS (new # r.default) \in BOOLEAN
    <3>2. QED
      BY <2>1, <1>2
  <2>3. QED
    BY <1>1, <1>2, <1>4, <2>1, <2>2
<1>5. CASE new # r.default
  <2>1. DefaultId(env) = new
    BY <1>2, <1>3, <1>5 DEF DefaultId
  <2>2. \E moved \in BOOLEAN :
          /\ ~moved => DefaultId(env) = DefaultId(before)
          /\ NewOf(r, "users") =
                [u \in Users |-> RemoveServerPermissions(OldOf(r, "users")[u], r.id, moved)]
    <3>1. WITNESS (new # r.default) \in BOOLEAN
    <3>2. QED
      BY <1>2, <1>5
  <2>3. QED
    BY <1>1, <1>2, <2>1, <2>2
<1>6. QED
  BY <1>4, <1>5

\* Nobody else removes a server while a file of the bot is replaced.
LEMMA PutsAlone ==
    ASSUME Typed, Jobs, NEW x \in 1..Terminals, NEW f, Puts(x, f) \/ PutsBack(x, f),
           f \in Shared, NEW y \in (1..Terminals) \ {x}
    PROVE  ~Removing(y)
<1>1. InWindow(y) => f \notin Touched(y)
  BY DEF Puts, PutsBack
<1>2. Removing(y) => InWindow(y) /\ Touched(y) = Shared
  BY RemovalTouches DEF Shared
<1>3. QED
  BY <1>1, <1>2

\* The removals of the other programs are what they were.
LEMMA OthersRemove ==
    ASSUME NEW x, Moves(x), NEW y \in (1..Terminals) \ {x}
    PROVE  (Removing(y)' <=> Removing(y)) /\ (Busy(y)' <=> Busy(y)) /\ sess'[y] = sess[y]
  BY DEF Moves, Removing, Busy

\* A program that goes on removes what it removed.
LEMMA PutsRemoves ==
    ASSUME NEW x \in 1..Terminals, NEW f, Puts(x, f) \/ PutsBack(x, f)
    PROVE  /\ Moves(x)
           /\ Removing(x)' => /\ Removing(x) /\ sess'[x].seen = sess[x].seen
                              /\ \A g : OldOf(sess'[x], g) = OldOf(sess[x], g)
<1>1. CASE PutsBack(x, f)
  BY <1>1, GoesOld DEF PutsBack, Removing
<1>2. CASE Puts(x, f)
  <2>1. CASE sess[x].done + 1 = Len(sess[x].plan)
    BY <1>2, <2>1 DEF Puts, Removing
  <2>2. CASE sess[x].done + 1 # Len(sess[x].plan)
    BY <1>2, <2>2, GoesOld DEF Puts, Removing
  <2>3. QED
    BY <2>1, <2>2
<1>3. QED
  BY <1>1, <1>2

-----------------------------------------------------------------------------
(* The bot can start.                                                        *)

LEMMA StartingCalm ==
    ASSUME NEW x \in 1..Terminals, Calm(x), Starting, race => race', unseen => unseen'
    PROVE  Starting'
<1>1. CASE race' \/ unseen'
  BY <1>1 DEF Starting
<1>2. CASE ~race' /\ ~unseen'
  <2>1. /\ Starts(disk)
        /\ \A y \in 1..Terminals : Removing(y) =>
              DefaultId(OldOf(sess[y], "env")) \in Registered(sess[y].seen)
    BY <1>2 DEF Starting
  <2>2. disk'["env"] = disk["env"] /\ disk'["servers"] = disk["servers"]
    BY DEF Calm, Shared
  <2>3. Starts(disk')
    BY <2>1, <2>2 DEF Starts
  <2>4. ASSUME NEW y \in 1..Terminals, Removing(y)'
        PROVE  DefaultId(OldOf(sess'[y], "env")) \in Registered(sess'[y].seen)
    <3>1. CASE y = x
      BY <2>1, <2>4, <3>1 DEF Calm, Remains
    <3>2. CASE y # x
      BY <2>1, <2>4, <3>2, OthersRemove DEF Calm, Remains
    <3>3. QED
      BY <3>1, <3>2
  <2>5. QED
    BY <2>3, <2>4 DEF Starting
<1>3. QED
  BY <1>1, <1>2

LEMMA StartingEnters ==
    ASSUME SettingsAssumption, Typed, Jobs, NEW x \in 1..Terminals, Enters(x), Starting,
           race => race'
    PROVE  Starting'
<1>1. CASE race' \/ unseen'
  BY <1>1 DEF Starting
<1>2. CASE ~race' /\ ~unseen'
  <2>0. ~unseen /\ disk' = disk /\ Moves(x)
    BY <1>2, GoesOld DEF Enters
  <2>1. /\ Starts(disk)
        /\ \A y \in 1..Terminals : Removing(y) =>
              DefaultId(OldOf(sess[y], "env")) \in Registered(sess[y].seen)
    BY <1>2, <2>0 DEF Starting
  <2>2. Starts(disk')
    BY <2>0, <2>1
  <2>3. ASSUME NEW y \in 1..Terminals, Removing(y)'
        PROVE  DefaultId(OldOf(sess'[y], "env")) \in Registered(sess'[y].seen)
    <3>1. CASE y = x
      <4>1. /\ sess[x].job = "remove" /\ sess'[x].seen = sess[x].seen
            /\ OldOf(sess'[x], "env") = OldOf(sess[x], "env")
        BY <2>3, <3>1, GoesOld DEF Enters, Removing
      <4>2. OldOf(sess[x], "env") = disk["env"] /\ sess[x].seen = disk["servers"]
        BY <1>2, <4>1, RemovalEnters DEF Shared
      <4>3. QED
        BY <2>1, <3>1, <4>1, <4>2 DEF Starts
    <3>2. CASE y # x
      BY <2>0, <2>1, <2>3, <3>2, OthersRemove
    <3>3. QED
      BY <3>1, <3>2
  <2>4. QED
    BY <2>2, <2>3 DEF Starting
<1>3. QED
  BY <1>1, <1>2

\* Whatever a program puts, its default is registered.
LEMMA StartsPuts ==
    ASSUME SettingsAssumption, Typed, Jobs, Recalled, NEW x \in 1..Terminals, NEW f,
           Puts(x, f), ~race, ~unseen, Starts(disk)
    PROVE  Starts(disk')
<1> DEFINE r == sess[x]
<1>1. r.pc = "write" /\ disk["servers"] = r.seen /\ f \in Touched(x) /\ f \in Files
      /\ disk[f] = OldOf(r, f) /\ disk'[f] = NewOf(r, f)
      /\ \A g \in Files \ {f} : disk'[g] = disk[g]
  BY DEF Puts
<1>2. /\ SessionOK(r) /\ r.job \in {"add", "software", "remove", "users"}
      /\ r.job = "add" => AddOK(r) /\ Fresh(r)
      /\ r.job = "software" => SoftwareOK(r)
      /\ r.job = "remove" => RemoveOK(r)
      /\ r.job = "users" => UsersOK(r)
      /\ r.job = "software" => Touched(x) = {"servers"}
      /\ r.job = "remove" => Touched(x) = Shared
  BY <1>1, JobNow
<1>3. "env" \in Files /\ "servers" \in Files /\ r.seen \in Lists
  BY <1>2 DEF Files, SessionOK
<1>4. r.job = "remove" => r.default = DefaultId(OldOf(r, "env"))
  BY <1>1 DEF Recalled, Recall, Staged
<1>5. r.job = "remove" =>
        /\ DefaultId(NewOf(r, "env")) \in Registered(NewOf(r, "servers"))
        /\ Registered(NewOf(r, "servers")) = Registered(r.seen) \ {r.id}
  BY <1>2, <1>3, <1>4, RemovalDefault
<1>6. r.job = "users" => f = "users"
  <2>1. ASSUME r.job = "users" PROVE f = "users"
    <3>1. Len(r.plan) = 1 /\ LastIs(r, "users")
      BY <1>2, <2>1 DEF UsersOK
    <3>2. r.done \in Nat /\ r.done < Len(r.plan)
      BY <1>1, JobNow DEF Counted, SessionOK, PlanOK
    <3>3. LastIs(r, f)
      BY <3>1, <3>2 DEF Puts
    <3>4. QED
      BY <3>1, <3>3 DEF LastIs
  <2>2. QED
    BY <2>1
<1>7. CASE f = "env"
  <2>1. disk'["env"] = NewOf(r, "env") /\ disk["env"] = OldOf(r, "env")
        /\ disk'["servers"] = r.seen
    BY <1>1, <1>3, <1>7
  <2>2. CASE r.job = "add"
    <3>1. NewOf(r, "env").default = disk["env"].default
      BY <1>2, <2>1, <2>2, DiskTyped DEF AddOK, UpdateEnv, Envs
    <3>2. QED
      BY <1>1, <2>1, <3>1 DEF Starts, DefaultId
  <2>3. CASE r.job = "remove"
    BY <1>5, <2>1, <2>3 DEF Starts
  <2>4. QED
    BY <1>2, <1>1, <1>6, <1>7, <2>2, <2>3
<1>8. CASE f = "servers"
  <2>1. disk'["servers"] = NewOf(r, "servers") /\ disk'["env"] = disk["env"]
    BY <1>1, <1>3, <1>8
  <2>2. CASE r.job = "add"
    <3>1. NewOf(r, "servers") = Append(r.seen, BuildEntry(r.id)) /\ r.id \in Ids \ Registered(r.seen)
      BY <1>2, <2>2 DEF AddOK, Fresh
    <3>2. Registered(disk["servers"]) \subseteq Registered(disk'["servers"])
      <4>1. Registered(Append(r.seen, BuildEntry(r.id))) = Registered(r.seen) \cup {r.id}
        BY <1>3, <3>1, Appended
      <4>2. QED
        BY <1>1, <2>1, <3>1, <4>1
    <3>3. QED
      BY <2>1, <3>2 DEF Starts
  <2>3. CASE r.job = "software"
    <3>1. Registered(disk'["servers"]) = Registered(disk["servers"])
      <4> DEFINE new == NewOf(r, "servers")
      <4>1. DOMAIN new = DOMAIN r.seen /\ \A i \in DOMAIN new : new[i].id = r.seen[i].id
        BY <1>2, <2>3 DEF SoftwareOK
      <4> HIDE DEF new
      <4>2. Registered(new) = Registered(r.seen)
        BY <4>1 DEF Registered
      <4>3. QED
        BY <1>1, <2>1, <4>2 DEF new
    <3>2. QED
      BY <2>1, <3>1 DEF Starts
  <2>4. CASE r.job = "remove"
    <3>1. LastIs(r, "servers") /\ "env" \in Touched(x)
      BY <1>2, <2>4 DEF RemoveOK, Shared
    <3>2. disk["env"] = NewOf(r, "env")
      BY <3>1, <1>8 DEF Puts
    <3>3. QED
      BY <1>5, <2>1, <2>4, <3>2 DEF Starts
  <2>5. QED
    BY <1>2, <1>6, <1>8, <2>2, <2>3, <2>4
<1>9. CASE f \notin {"env", "servers"}
  <2>1. disk'["env"] = disk["env"] /\ disk'["servers"] = disk["servers"]
    BY <1>1, <1>3, <1>9
  <2>2. QED
    BY <2>1 DEF Starts
<1>10. QED
  BY <1>7, <1>8, <1>9

\* Whatever a program puts back, its default is registered.
LEMMA StartsPutsBack ==
    ASSUME SettingsAssumption, Typed, Jobs, NEW x \in 1..Terminals, NEW f,
           PutsBack(x, f), Starts(disk),
           Removing(x) => DefaultId(OldOf(sess[x], "env")) \in Registered(sess[x].seen)
    PROVE  Starts(disk')
<1> DEFINE r == sess[x]
<1>1. r.pc = "undo" /\ disk["servers"] = r.seen /\ f \in Touched(x) /\ f # "servers"
      /\ disk[f] = NewOf(r, f) /\ disk'[f] = OldOf(r, f) /\ r.job \in {"add", "remove"}
      /\ \A g \in Files \ {f} : disk'[g] = disk[g]
  BY DEF PutsBack
<1>2. "env" \in Files /\ "servers" \in Files
  BY DEF Files
<1>3. CASE f = "env"
  <2>1. disk'["env"] = OldOf(r, "env") /\ disk["env"] = NewOf(r, "env")
        /\ disk'["servers"] = disk["servers"]
    BY <1>1, <1>2, <1>3
  <2>2. CASE r.job = "add"
    <3>1. OldOf(r, "env") \in Envs
      BY <1>1, <1>3, OldTyped DEF Holds
    <3>2. OldOf(r, "env").default = disk["env"].default
      <4> DEFINE old == OldOf(r, "env")
      <4>1. NewOf(r, "env") = UpdateEnv(old, r.id, NewOf(r, r.id))
        BY <1>1, <2>2, JobNow DEF AddOK
      <4>2. old \in Envs
        BY <3>1
      <4> HIDE DEF old
      <4>3. UpdateEnv(old, r.id, NewOf(r, r.id)).default = old.default
        BY <4>2 DEF UpdateEnv, Envs
      <4>4. QED
        BY <2>1, <4>1, <4>3 DEF old
    <3>3. QED
      BY <2>1, <3>2 DEF Starts, DefaultId
  <2>3. CASE r.job = "remove"
    BY <1>1, <2>1, <2>3, JobNow DEF Starts
  <2>4. QED
    BY <1>1, <2>2, <2>3
<1>4. CASE f # "env"
  <2>1. disk'["env"] = disk["env"] /\ disk'["servers"] = disk["servers"]
    BY <1>1, <1>2, <1>4
  <2>2. QED
    BY <2>1 DEF Starts
<1>5. QED
  BY <1>3, <1>4

LEMMA StartingPuts ==
    ASSUME SettingsAssumption, Typed, Jobs, Recalled, NEW x \in 1..Terminals, NEW f,
           Puts(x, f) \/ PutsBack(x, f), Starting, ~race, ~unseen
    PROVE  Starting'
<1>1. /\ Starts(disk)
      /\ \A y \in 1..Terminals : Removing(y) =>
            DefaultId(OldOf(sess[y], "env")) \in Registered(sess[y].seen)
  BY DEF Starting
<1>2. Starts(disk')
  BY <1>1, StartsPuts, StartsPutsBack
<1>3. ASSUME NEW y \in 1..Terminals, Removing(y)'
      PROVE  DefaultId(OldOf(sess'[y], "env")) \in Registered(sess'[y].seen)
  <2>1. CASE y = x
    BY <1>1, <1>3, <2>1, PutsRemoves
  <2>2. CASE y # x
    BY <1>1, <1>3, <2>2, PutsRemoves, OthersRemove
  <2>3. QED
    BY <2>1, <2>2
<1>4. QED
  BY <1>2, <1>3 DEF Starting

\* The default stays registered.
LEMMA StartingKept ==
    ASSUME SettingsAssumption, Typed, Jobs, Recalled, Windows, Starting,
           NEW x \in 1..Terminals, Acts(x)
    PROVE  Starting'
<1>1. (race => race') /\ (unseen => unseen')
  BY ActsFiles, ExcusesKept
<1>2. CASE race' \/ unseen'
  BY <1>2 DEF Starting
<1>3. CASE ~race' /\ ~unseen'
  <2>1. CASE Calm(x)
    BY <1>1, <2>1, StartingCalm
  <2>2. CASE Enters(x)
    BY <1>1, <2>2, StartingEnters
  <2>3. CASE Write(x)
    BY <1>1, <1>3, <2>3, WritePuts, StartingPuts
  <2>4. CASE Undo(x)
    BY <1>1, <1>3, <2>4, UndoPutsBack, StartingPuts
  <2>5. QED
    BY <2>1, <2>2, <2>3, <2>4, Classes
<1>4. QED
  BY <1>2, <1>3

\* The bot replaces the automation files, and lets race be known.
LEMMA BotPuts ==
    ASSUME SettingsAssumption, Typed, BotStart \/ BotSaves
    PROVE  /\ \A f \in Files \ {"tasks"} : disk'[f] = disk[f]
           /\ unseen' \/ disk'["tasks"] = disk["tasks"]
                \/ disk'["tasks"] \subseteq Registered(disk["servers"])
<1>1. CASE BotStart
  BY <1>1 DEF BotStart
<1>2. CASE BotSaves
  <2>1. PICK s \in bot.reg :
          LET tasks == bot.tasks \cup {s} IN
          /\ bot' = [bot EXCEPT !.tasks = tasks]
          /\ Replace(0, "tasks", tasks)
          /\ unseen' = (unseen \/ ~(tasks \subseteq Registered(disk["servers"])))
    BY <1>2 DEF BotSaves
  <2> DEFINE tasks == bot.tasks \cup {s}
  <2>2. Replace(0, "tasks", tasks) /\ "tasks" \in Files
    BY <2>1 DEF Files
  <2>3. unseen' \/ tasks \subseteq Registered(disk["servers"])
    BY <2>1
  <2> HIDE DEF tasks
  <2>4. disk'["tasks"] = tasks /\ \A g \in Files \ {"tasks"} : disk'[g] = disk[g]
    BY <2>2, Replaced
  <2>5. QED
    BY <2>3, <2>4
<1>3. QED
  BY <1>1, <1>2

\* The bot does not touch the registry.
LEMMA StartingBot ==
    ASSUME SettingsAssumption, Typed, BotStart \/ BotSaves, Starting,
           sess' = sess, race => race', unseen => unseen'
    PROVE  Starting'
<1>1. disk'["env"] = disk["env"] /\ disk'["servers"] = disk["servers"]
  BY BotPuts DEF Files
<1>2. Starts(disk) => Starts(disk')
  BY <1>1 DEF Starts
<1>3. QED
  BY <1>2 DEF Starting, Removing

-----------------------------------------------------------------------------
(* Nothing speaks of a server that is not registered.                        *)

\* What an old memory says survives a step that does not write.
LEMMA ForgettingCalm ==
    ASSUME NEW x \in 1..Terminals, Calm(x), Forgetting, race => race', unseen => unseen'
    PROVE  Forgetting'
<1>1. CASE race' \/ unseen'
  BY <1>1 DEF Forgetting
<1>2. CASE ~race' /\ ~unseen'
  <2>1. /\ Speaks(disk["users"], disk["tasks"], disk["servers"])
        /\ \A y \in 1..Terminals : Removing(y) =>
              Speaks(OldOf(sess[y], "users"), OldOf(sess[y], "tasks"), sess[y].seen)
    BY <1>2 DEF Forgetting
  <2>2. disk'["users"] = disk["users"] /\ disk'["tasks"] = disk["tasks"]
        /\ disk'["servers"] = disk["servers"]
    BY DEF Calm, Shared
  <2>3. ASSUME NEW y \in 1..Terminals, Removing(y)'
        PROVE  Speaks(OldOf(sess'[y], "users"), OldOf(sess'[y], "tasks"), sess'[y].seen)
    <3>1. CASE y = x
      BY <2>1, <2>3, <3>1 DEF Calm, Remains
    <3>2. CASE y # x
      BY <2>1, <2>3, <3>2, OthersRemove DEF Calm, Remains
    <3>3. QED
      BY <3>1, <3>2
  <2>4. QED
    BY <2>1, <2>2, <2>3 DEF Forgetting
<1>3. QED
  BY <1>1, <1>2

LEMMA ForgettingEnters ==
    ASSUME SettingsAssumption, Typed, Jobs, NEW x \in 1..Terminals, Enters(x), Forgetting,
           race => race'
    PROVE  Forgetting'
<1>1. CASE race' \/ unseen'
  BY <1>1 DEF Forgetting
<1>2. CASE ~race' /\ ~unseen'
  <2>1. ~unseen /\ disk' = disk /\ Moves(x)
    BY <1>2, GoesOld DEF Enters
  <2>2. /\ Speaks(disk["users"], disk["tasks"], disk["servers"])
        /\ \A y \in 1..Terminals : Removing(y) =>
              Speaks(OldOf(sess[y], "users"), OldOf(sess[y], "tasks"), sess[y].seen)
    BY <1>2, <2>1 DEF Forgetting
  <2>3. ASSUME NEW y \in 1..Terminals, Removing(y)'
        PROVE  Speaks(OldOf(sess'[y], "users"), OldOf(sess'[y], "tasks"), sess'[y].seen)
    <3>1. CASE y = x
      <4>1. /\ sess[x].job = "remove" /\ sess'[x].seen = sess[x].seen
            /\ OldOf(sess'[x], "users") = OldOf(sess[x], "users")
            /\ OldOf(sess'[x], "tasks") = OldOf(sess[x], "tasks")
        BY <2>3, <3>1, GoesOld DEF Enters, Removing
      <4>2. OldOf(sess[x], "users") = disk["users"] /\ OldOf(sess[x], "tasks") = disk["tasks"]
            /\ sess[x].seen = disk["servers"]
        BY <1>2, <4>1, RemovalEnters DEF Shared
      <4>3. QED
        BY <2>2, <3>1, <4>1, <4>2
    <3>2. CASE y # x
      BY <2>1, <2>2, <2>3, <3>2, OthersRemove
    <3>3. QED
      BY <3>1, <3>2
  <2>4. QED
    BY <2>1, <2>2, <2>3 DEF Forgetting
<1>3. QED
  BY <1>1, <1>2

\* A server taken from the policies of a user, whose legacy role may be dropped.
LEMMA PermissionsRemoved ==
    ASSUME NEW user \in [legacy : BOOLEAN, on : SUBSET Ids], NEW s, NEW moved \in BOOLEAN
    PROVE  LET after == RemoveServerPermissions(user, s, moved) IN
           /\ after.on \subseteq user.on \ {s}
           /\ after.legacy => user.legacy /\ ~moved
           /\ ~after.legacy => ~user.legacy \/ after.on = {}
<1>1. CASE user.legacy /\ moved
  <2>1. RemoveServerPermissions(user, s, moved) = Nobody
    BY <1>1 DEF RemoveServerPermissions
  <2>2. QED
    BY <2>1 DEF Nobody
<1>2. CASE ~(user.legacy /\ moved)
  <2>1. RemoveServerPermissions(user, s, moved) = [user EXCEPT !.on = @ \ {s}]
    BY <1>2 DEF RemoveServerPermissions
  <2>2. QED
    BY <1>2, <2>1
<1>3. QED
  BY <1>1, <1>2

\* A removal leaves the removed server unmentioned.
LEMMA RemovalSpeaks ==
    ASSUME SettingsAssumption, NEW r, RemoveOK(r), r.seen \in Lists,
           OldOf(r, "users") \in People
    PROVE  /\ Registered(NewOf(r, "servers")) = Registered(r.seen) \ {r.id}
           /\ NewOf(r, "tasks") = OldOf(r, "tasks") \ {r.id}
           /\ \A u \in Users : NewOf(r, "users")[u].on \subseteq OldOf(r, "users")[u].on \ {r.id}
<1>1. Registered(NewOf(r, "servers")) = Registered(r.seen) \ {r.id}
      /\ NewOf(r, "tasks") = OldOf(r, "tasks") \ {r.id}
  BY DEF RemoveOK, RemoveServerState
<1>2. PICK new \in Registered(NewOf(r, "servers")) :
        NewOf(r, "users") =
              [u \in Users |-> RemoveServerPermissions(OldOf(r, "users")[u], r.id,
                                                       new # r.default)]
  BY DEF RemoveOK
<1> DEFINE users == OldOf(r, "users")
<1>3. users \in People
  OBVIOUS
<1>4. NewOf(r, "users") = [u \in Users |-> RemoveServerPermissions(users[u], r.id,
                                                                  new # r.default)]
  BY <1>2
<1> HIDE DEF users
<1>5. ASSUME NEW u \in Users PROVE NewOf(r, "users")[u].on \subseteq users[u].on \ {r.id}
  <2>1. users[u] \in [legacy : BOOLEAN, on : SUBSET Ids]
    BY <1>3 DEF People
  <2>2. NewOf(r, "users")[u] = RemoveServerPermissions(users[u], r.id, new # r.default)
    BY <1>4
  <2>3. QED
    BY <2>1, <2>2, PermissionsRemoved
<1>6. QED
  BY <1>1, <1>5 DEF users

\* Which job replaces which file.
LEMMA PutsFile ==
    ASSUME SettingsAssumption, Typed, Jobs, NEW x \in 1..Terminals, NEW f,
           Puts(x, f) \/ PutsBack(x, f)
    PROVE  LET r == sess[x] IN
           /\ r.job = "add" => f \in {"env", "servers", r.id} /\ r.id \in Ids \ Shared
           /\ r.job = "software" => f = "servers"
           /\ r.job = "remove" => f \in Shared
           /\ r.job = "users" => f = "users" /\ r.done + 1 = Len(r.plan)
           /\ r.job \in {"add", "software", "remove", "users"}
<1> DEFINE r == sess[x]
<1>1. r.pc \in {"write", "undo"} /\ f \in Touched(x)
  BY DEF Puts, PutsBack
<1>2. /\ SessionOK(r) /\ Counted(r) /\ r.job \in {"add", "software", "remove", "users"}
      /\ r.job = "add" => Touched(x) = {"env", "servers", r.id} /\ Fresh(r)
      /\ r.job = "software" => Touched(x) = {"servers"}
      /\ r.job = "remove" => Touched(x) = Shared
      /\ r.job = "users" => UsersOK(r)
  BY <1>1, JobNow
<1>3. r.job = "add" => r.id \in Ids \ Shared
  BY <1>2, DiskTyped DEF Fresh, Shared
<1>4. ASSUME r.job = "users" PROVE f = "users" /\ r.done + 1 = Len(r.plan)
  <2>1. Len(r.plan) = 1 /\ LastIs(r, "users")
    BY <1>2, <1>4 DEF UsersOK
  <2>2. Puts(x, f)
    BY <1>4 DEF PutsBack
  <2>3. r.done \in Nat /\ r.done < Len(r.plan)
    BY <1>2, <2>2 DEF Puts, Counted, SessionOK, PlanOK
  <2>4. LastIs(r, f) /\ r.done + 1 = Len(r.plan)
    BY <2>1, <2>2, <2>3 DEF Puts
  <2>5. QED
    BY <2>1, <2>4 DEF LastIs
<1>5. QED
  BY <1>1, <1>2, <1>3, <1>4

\* What the registry becomes, by job.
LEMMA RegistryPut ==
    ASSUME SettingsAssumption, Typed, Jobs, NEW x \in 1..Terminals, Puts(x, "servers")
    PROVE  LET r == sess[x] IN
           /\ r.job # "users" /\ r.done + 1 = Len(r.plan) /\ r.seen \in Lists
           /\ disk["servers"] = r.seen /\ disk'["servers"] = NewOf(r, "servers")
           /\ \A g \in Touched(x) \ {"servers"} : disk[g] = NewOf(r, g)
           /\ r.job = "add" => /\ AddOK(r) /\ Fresh(r)
                               /\ Registered(NewOf(r, "servers")) = Registered(r.seen) \cup {r.id}
           /\ r.job = "software" => Registered(NewOf(r, "servers")) = Registered(r.seen)
           /\ r.job = "remove" => RemoveOK(r)
<1> DEFINE r == sess[x]
<1>1. r.pc = "write" /\ disk["servers"] = r.seen /\ disk'["servers"] = NewOf(r, "servers")
  BY DEF Puts
<1>2. /\ SessionOK(r) /\ r.job \in {"add", "software", "remove", "users"}
      /\ r.job = "add" => AddOK(r) /\ Fresh(r)
      /\ r.job = "software" => SoftwareOK(r)
      /\ r.job = "remove" => RemoveOK(r)
  BY <1>1, JobNow
<1>3. r.job # "users" /\ r.seen \in Lists
  BY <1>2, PutsFile DEF SessionOK
<1>4. LastIs(r, "servers")
  BY <1>2, <1>3 DEF AddOK, SoftwareOK, RemoveOK
<1>5. r.done + 1 = Len(r.plan) /\ \A g \in Touched(x) \ {"servers"} : disk[g] = NewOf(r, g)
  BY <1>4 DEF Puts
<1>6. ASSUME r.job = "add"
      PROVE  Registered(NewOf(r, "servers")) = Registered(r.seen) \cup {r.id}
  <2>1. NewOf(r, "servers") = Append(r.seen, BuildEntry(r.id)) /\ r.id \in Ids \ Registered(r.seen)
    BY <1>2, <1>6 DEF AddOK, Fresh
  <2> DEFINE seen == r.seen
             id == r.id
  <2>2. seen \in Lists /\ id \in Ids \ Registered(seen)
    BY <1>3, <2>1
  <2> HIDE DEF seen, id
  <2>3. Registered(Append(seen, BuildEntry(id))) = Registered(seen) \cup {id}
    BY <2>2, Appended
  <2>4. QED
    BY <2>1, <2>3 DEF seen, id
<1>7. ASSUME r.job = "software"
      PROVE  Registered(NewOf(r, "servers")) = Registered(r.seen)
  <2> DEFINE new == NewOf(r, "servers")
  <2>1. DOMAIN new = DOMAIN r.seen /\ \A i \in DOMAIN new : new[i].id = r.seen[i].id
    BY <1>2, <1>7 DEF SoftwareOK
  <2> HIDE DEF new
  <2>2. Registered(new) = Registered(r.seen)
    BY <2>1 DEF Registered
  <2>3. QED
    BY <2>2 DEF new
<1>8. QED
  BY <1>1, <1>2, <1>3, <1>5, <1>6, <1>7

\* Whatever a program puts, only registered servers are mentioned.
LEMMA SpeaksPuts ==
    ASSUME SettingsAssumption, Typed, Jobs, Recalled, NEW x \in 1..Terminals, NEW f,
           Puts(x, f), ~race, ~unseen,
           Speaks(disk["users"], disk["tasks"], disk["servers"]),
           Removing(x) => Speaks(OldOf(sess[x], "users"), OldOf(sess[x], "tasks"), sess[x].seen)
    PROVE  Speaks(disk'["users"], disk'["tasks"], disk'["servers"])
<1> DEFINE r == sess[x]
<1>1. r.pc = "write" /\ disk["servers"] = r.seen /\ f \in Touched(x) /\ f \in Files
      /\ disk[f] = OldOf(r, f) /\ disk'[f] = NewOf(r, f)
      /\ \A g \in Files \ {f} : disk'[g] = disk[g]
  BY DEF Puts
<1>2. Shared \subseteq Files
  BY DEF Shared, Files
<1>3. /\ r.job = "add" => f \in {"env", "servers", r.id} /\ r.id \in Ids \ Shared
      /\ r.job = "software" => f = "servers"
      /\ r.job = "remove" => f \in Shared
      /\ r.job = "users" => f = "users"
      /\ r.job \in {"add", "software", "remove", "users"}
  BY PutsFile
<1>4. ASSUME r.job = "remove"
      PROVE  /\ RemoveOK(r) /\ Removing(x)
             /\ Registered(NewOf(r, "servers")) = Registered(r.seen) \ {r.id}
             /\ NewOf(r, "tasks") = OldOf(r, "tasks") \ {r.id}
             /\ \A u \in Users : NewOf(r, "users")[u].on \subseteq OldOf(r, "users")[u].on \ {r.id}
             /\ Speaks(OldOf(r, "users"), OldOf(r, "tasks"), r.seen)
             /\ Touched(x) = Shared
  <2>1. RemoveOK(r) /\ SessionOK(r) /\ Touched(x) = Shared /\ Removing(x)
    BY <1>1, <1>4, JobNow
  <2>2. OldOf(r, "users") \in People /\ r.seen \in Lists
    BY <2>1, OldTyped DEF Shared, Holds, SessionOK
  <2>3. QED
    BY <2>1, <2>2, RemovalSpeaks
<1>5. CASE f = "users"
  <2>1. /\ disk["users"] = OldOf(r, "users") /\ disk'["users"] = NewOf(r, "users")
        /\ disk'["tasks"] = disk["tasks"] /\ disk'["servers"] = r.seen
    BY <1>1, <1>2, <1>5 DEF Shared
  <2>2. CASE r.job = "users"
    <3>1. Decided(r)
      BY <1>1, <2>2 DEF Recalled, Recall, Staged
    <3>2. \A u \in Users : NewOf(r, "users")[u].on \subseteq OldOf(r, "users")[u].on \cup Registered(r.seen)
      BY <3>1 DEF Decided
    <3>3. QED
      BY <1>1, <2>1, <3>2 DEF Speaks
  <2>3. CASE r.job = "remove"
    BY <1>1, <1>4, <2>1, <2>3 DEF Speaks
  <2>4. QED
    BY <1>3, <1>5, <2>2, <2>3 DEF Shared
<1>6. CASE f = "tasks"
  <2>1. /\ disk["tasks"] = OldOf(r, "tasks") /\ disk'["tasks"] = NewOf(r, "tasks")
        /\ disk'["users"] = disk["users"] /\ disk'["servers"] = r.seen
    BY <1>1, <1>2, <1>6 DEF Shared
  <2>2. r.job = "remove"
    BY <1>3, <1>6 DEF Shared
  <2>3. QED
    BY <1>1, <1>4, <2>1, <2>2 DEF Speaks
<1>7. CASE f = "servers"
  <2>1. disk'["users"] = disk["users"] /\ disk'["tasks"] = disk["tasks"] /\ Puts(x, "servers")
    BY <1>1, <1>2, <1>7 DEF Shared
  <2>2. CASE r.job \in {"add", "software"}
    <3>1. Registered(disk["servers"]) \subseteq Registered(disk'["servers"])
      BY <2>1, <2>2, RegistryPut
    <3>2. QED
      BY <2>1, <3>1 DEF Speaks
  <2>3. CASE r.job = "remove"
    <3>1. disk["users"] = NewOf(r, "users") /\ disk["tasks"] = NewOf(r, "tasks")
          /\ disk'["servers"] = NewOf(r, "servers")
      BY <1>4, <2>1, <2>3, RegistryPut DEF Shared
    <3>2. QED
      BY <1>4, <2>1, <2>3, <3>1 DEF Speaks
  <2>4. QED
    BY <1>3, <1>7, <2>2, <2>3
<1>8. CASE f \notin {"users", "tasks", "servers"}
  BY <1>1, <1>2, <1>8 DEF Shared
<1>9. QED
  BY <1>5, <1>6, <1>7, <1>8

\* Whatever a program puts back, only registered servers are mentioned.
LEMMA SpeaksPutsBack ==
    ASSUME SettingsAssumption, Typed, Jobs, NEW x \in 1..Terminals, NEW f, PutsBack(x, f),
           Speaks(disk["users"], disk["tasks"], disk["servers"]),
           Removing(x) => Speaks(OldOf(sess[x], "users"), OldOf(sess[x], "tasks"), sess[x].seen)
    PROVE  Speaks(disk'["users"], disk'["tasks"], disk'["servers"])
<1> DEFINE r == sess[x]
<1>1. r.pc = "undo" /\ disk["servers"] = r.seen /\ f # "servers" /\ r.job \in {"add", "remove"}
      /\ disk'[f] = OldOf(r, f) /\ \A g \in Files \ {f} : disk'[g] = disk[g]
  BY DEF PutsBack
<1>2. Shared \subseteq Files
  BY DEF Shared, Files
<1>3. r.job = "add" => f \in {"env", "servers", r.id} /\ r.id \in Ids \ Shared
  BY PutsFile
<1>4. r.job = "remove" => Speaks(OldOf(r, "users"), OldOf(r, "tasks"), r.seen)
  BY <1>1, JobNow
<1>5. CASE f = "users"
  <2>1. r.job = "remove"
    BY <1>1, <1>3, <1>5 DEF Shared
  <2>2. QED
    BY <1>1, <1>2, <1>4, <1>5, <2>1 DEF Speaks, Shared
<1>6. CASE f = "tasks"
  <2>1. r.job = "remove"
    BY <1>1, <1>3, <1>6 DEF Shared
  <2>2. QED
    BY <1>1, <1>2, <1>4, <1>6, <2>1 DEF Speaks, Shared
<1>7. CASE f \notin {"users", "tasks"}
  BY <1>1, <1>2, <1>7 DEF Shared
<1>8. QED
  BY <1>5, <1>6, <1>7

LEMMA ForgettingPuts ==
    ASSUME SettingsAssumption, Typed, Jobs, Recalled, NEW x \in 1..Terminals, NEW f,
           Puts(x, f) \/ PutsBack(x, f), Forgetting, ~race, ~unseen
    PROVE  Forgetting'
<1>1. /\ Speaks(disk["users"], disk["tasks"], disk["servers"])
      /\ \A y \in 1..Terminals : Removing(y) =>
            Speaks(OldOf(sess[y], "users"), OldOf(sess[y], "tasks"), sess[y].seen)
  BY DEF Forgetting
<1>2. Speaks(disk'["users"], disk'["tasks"], disk'["servers"])
  BY <1>1, SpeaksPuts, SpeaksPutsBack
<1>3. ASSUME NEW y \in 1..Terminals, Removing(y)'
      PROVE  Speaks(OldOf(sess'[y], "users"), OldOf(sess'[y], "tasks"), sess'[y].seen)
  <2>1. CASE y = x
    BY <1>1, <1>3, <2>1, PutsRemoves
  <2>2. CASE y # x
    BY <1>1, <1>3, <2>2, PutsRemoves, OthersRemove
  <2>3. QED
    BY <2>1, <2>2
<1>4. QED
  BY <1>2, <1>3 DEF Forgetting

\* Only registered servers stay mentioned.
LEMMA ForgettingKept ==
    ASSUME SettingsAssumption, Typed, Jobs, Recalled, Windows, Forgetting,
           NEW x \in 1..Terminals, Acts(x)
    PROVE  Forgetting'
<1>1. (race => race') /\ (unseen => unseen')
  BY ActsFiles, ExcusesKept
<1>2. CASE race' \/ unseen'
  BY <1>2 DEF Forgetting
<1>3. CASE ~race' /\ ~unseen'
  <2>1. CASE Calm(x)
    BY <1>1, <2>1, ForgettingCalm
  <2>2. CASE Enters(x)
    BY <1>1, <2>2, ForgettingEnters
  <2>3. CASE Write(x)
    BY <1>1, <1>3, <2>3, WritePuts, ForgettingPuts
  <2>4. CASE Undo(x)
    BY <1>1, <1>3, <2>4, UndoPutsBack, ForgettingPuts
  <2>5. QED
    BY <2>1, <2>2, <2>3, <2>4, Classes
<1>4. QED
  BY <1>2, <1>3

\* The bot mentions registered servers only, or unseen says that it did not.
LEMMA ForgettingBot ==
    ASSUME SettingsAssumption, Typed, BotStart \/ BotSaves, Forgetting,
           sess' = sess, race => race', unseen => unseen'
    PROVE  Forgetting'
<1>1. disk'["users"] = disk["users"] /\ disk'["servers"] = disk["servers"]
  BY BotPuts DEF Files
<1>2. unseen' \/ disk'["tasks"] = disk["tasks"]
        \/ disk'["tasks"] \subseteq Registered(disk["servers"])
  BY BotPuts
<1>3. unseen' \/ (Speaks(disk["users"], disk["tasks"], disk["servers"])
                    => Speaks(disk'["users"], disk'["tasks"], disk'["servers"]))
  BY <1>1, <1>2 DEF Speaks
<1>4. QED
  BY <1>3 DEF Forgetting, Removing

-----------------------------------------------------------------------------
(* Three files agree on a secret.                                            *)

\* Fewer entries agree, in a file that says the same of them.
LEMMA AgreeFewer ==
    ASSUME NEW env, NEW servers, NEW after, NEW remaining,
           \A i \in DOMAIN remaining : \E k \in DOMAIN servers :
              /\ servers[k].id = remaining[i].id
              /\ after.key[remaining[i].key] = env.key[servers[k].key]
    PROVE  /\ Agree(env, servers) => Agree(after, remaining)
           /\ Agree(env, servers)' => Agree(after, remaining)'
<1>1. ASSUME Agree(env, servers) PROVE Agree(after, remaining)
  <2>1. ASSUME NEW i \in DOMAIN remaining
        PROVE  LET secret == after.key[remaining[i].key] IN
               /\ secret # NoSecret
               /\ \A y \in 1..Terminals :
                     Pending(y) /\ sess[y].id = remaining[i].id => secret = sess[y].plan[1].old
               /\ \/ secret = disk[remaining[i].id]
                  \/ \E y \in 1..Terminals : Pending(y) /\ sess[y].id = remaining[i].id
    <3>1. PICK k \in DOMAIN servers : /\ servers[k].id = remaining[i].id
                                      /\ after.key[remaining[i].key] = env.key[servers[k].key]
      OBVIOUS
    <3>2. QED
      BY <1>1, <3>1 DEF Agree
  <2>2. QED
    BY <2>1 DEF Agree
<1>2. ASSUME Agree(env, servers)' PROVE Agree(after, remaining)'
  <2>1. ASSUME NEW i \in DOMAIN remaining
        PROVE  LET secret == after.key[remaining[i].key] IN
               /\ secret # NoSecret
               /\ \A y \in 1..Terminals :
                     Pending(y)' /\ sess'[y].id = remaining[i].id => secret = sess'[y].plan[1].old
               /\ \/ secret = disk'[remaining[i].id]
                  \/ \E y \in 1..Terminals : Pending(y)' /\ sess'[y].id = remaining[i].id
    <3>1. PICK k \in DOMAIN servers : /\ servers[k].id = remaining[i].id
                                      /\ after.key[remaining[i].key] = env.key[servers[k].key]
      OBVIOUS
    <3>2. QED
      BY <1>2, <3>1 DEF Agree
  <2>2. QED
    BY <2>1 DEF Agree
<1>3. QED
  BY <1>1, <1>2

\* What happens to an id that is not registered concerns no entry.
LEMMA AgreeElsewhere ==
    ASSUME NEW x \in 1..Terminals, NEW s, NEW env, NEW servers \in Lists,
           s \notin Registered(servers), Moves(x),
           \A t \in Ids \ {s} : disk'[t] = disk[t],
           Pending(x) => sess[x].id = s, Pending(x)' => sess'[x].id = s,
           Agree(env, servers)
    PROVE  Agree(env, servers)'
<1>1. ASSUME NEW i \in DOMAIN servers
      PROVE  LET secret == env.key[servers[i].key] IN
             /\ secret # NoSecret
             /\ \A y \in 1..Terminals :
                   Pending(y)' /\ sess'[y].id = servers[i].id => secret = sess'[y].plan[1].old
             /\ \/ secret = disk'[servers[i].id]
                \/ \E y \in 1..Terminals : Pending(y)' /\ sess'[y].id = servers[i].id
  <2> DEFINE secret == env.key[servers[i].key]
             t == servers[i].id
  <2>1. t \in Ids \ {s}
    <3>1. servers[i] \in Entries
      BY ListShape
    <3>2. t \in Registered(servers)
      BY DEF Registered
    <3>3. QED
      BY <3>1, <3>2 DEF Entries
  <2>2. /\ secret # NoSecret
        /\ \A y \in 1..Terminals : Pending(y) /\ sess[y].id = t => secret = sess[y].plan[1].old
        /\ \/ secret = disk[t]
           \/ \E y \in 1..Terminals : Pending(y) /\ sess[y].id = t
    BY DEF Agree
  <2> HIDE DEF secret, t
  <2>3. \A y \in 1..Terminals : Pending(y)' /\ sess'[y].id = t =>
            y # x /\ sess'[y] = sess[y] /\ Pending(y) /\ sess[y].id = t
    BY <2>1 DEF Moves, Pending
  <2>4. \A y \in 1..Terminals : Pending(y) /\ sess[y].id = t =>
            y # x /\ sess'[y] = sess[y] /\ Pending(y)' /\ sess'[y].id = t
    BY <2>1 DEF Moves, Pending
  <2>5. disk'[t] = disk[t]
    BY <2>1
  <2>6. /\ secret # NoSecret
        /\ \A y \in 1..Terminals : Pending(y)' /\ sess'[y].id = t => secret = sess'[y].plan[1].old
        /\ \/ secret = disk'[t]
           \/ \E y \in 1..Terminals : Pending(y)' /\ sess'[y].id = t
    BY <2>2, <2>3, <2>4, <2>5
  <2>7. QED
    BY <2>6 DEF secret, t
<1>2. QED
  BY <1>1 DEF Agree

\* Nothing changes for the program that waits for the agent.
LEMMA AgreeFramed ==
    ASSUME NEW x \in 1..Terminals, NEW env, NEW servers, Moves(x), disk' = disk,
           Pending(x) <=> Pending(x)', sess'[x].id = sess[x].id, sess'[x].plan = sess[x].plan,
           Agree(env, servers)
    PROVE  Agree(env, servers)'
<1>1. \A y \in 1..Terminals : (Pending(y)' <=> Pending(y)) /\ sess'[y].id = sess[y].id
                               /\ sess'[y].plan = sess[y].plan
  BY DEF Moves, Pending
<1>2. QED
  BY <1>1 DEF Agree

\* The agent replaces the file of the only program that waits for it, or takes it back.
LEMMA AgreeAgent ==
    ASSUME NEW x \in 1..Terminals, NEW env, NEW servers \in Lists, NEW s \in Ids,
           Moves(x), sess[x].id = s, s \in Files,
           \A t \in Files \ {s} : disk'[t] = disk[t],
           \A y \in (1..Terminals) \ {x} : Pending(y) => sess[y].id # s,
           \/ /\ ~Pending(x) /\ Pending(x)' /\ sess'[x].id = s
              /\ sess'[x].plan[1].old = disk[s]
           \/ /\ Pending(x) /\ ~Pending(x)'
              /\ sess[x].plan[1].old = disk'[s],
           Agree(env, servers)
    PROVE  Agree(env, servers)'
<1>1. ASSUME NEW i \in DOMAIN servers
      PROVE  LET secret == env.key[servers[i].key] IN
             /\ secret # NoSecret
             /\ \A y \in 1..Terminals :
                   Pending(y)' /\ sess'[y].id = servers[i].id => secret = sess'[y].plan[1].old
             /\ \/ secret = disk'[servers[i].id]
                \/ \E y \in 1..Terminals : Pending(y)' /\ sess'[y].id = servers[i].id
  <2> DEFINE secret == env.key[servers[i].key]
             t == servers[i].id
  <2>1. t \in Ids /\ t \in Files
    <3>1. servers[i] \in Entries
      BY ListShape
    <3>2. QED
      BY <3>1 DEF Entries, Files
  <2>2. /\ secret # NoSecret
        /\ \A y \in 1..Terminals : Pending(y) /\ sess[y].id = t => secret = sess[y].plan[1].old
        /\ \/ secret = disk[t]
           \/ \E y \in 1..Terminals : Pending(y) /\ sess[y].id = t
    BY DEF Agree
  <2> HIDE DEF secret, t
  <2>3. \A y \in (1..Terminals) \ {x} : sess'[y] = sess[y] /\ (Pending(y)' <=> Pending(y))
    BY DEF Moves, Pending
  <2>4. CASE t # s
    <3>1. disk'[t] = disk[t]
      BY <2>1, <2>4
    <3>2. \A y \in 1..Terminals : sess'[y].id = t /\ Pending(y)' =>
              y # x /\ Pending(y) /\ sess'[y] = sess[y]
      BY <2>3, <2>4
    <3>3. \A y \in 1..Terminals : sess[y].id = t /\ Pending(y) =>
              y # x /\ Pending(y)' /\ sess'[y] = sess[y]
      BY <2>3, <2>4
    <3>4. /\ secret # NoSecret
          /\ \A y \in 1..Terminals : Pending(y)' /\ sess'[y].id = t => secret = sess'[y].plan[1].old
          /\ \/ secret = disk'[t]
             \/ \E y \in 1..Terminals : Pending(y)' /\ sess'[y].id = t
      BY <2>2, <3>1, <3>2, <3>3
    <3>5. QED
      BY <3>4 DEF secret, t
  <2>5. CASE t = s
    <3>1. \A y \in (1..Terminals) \ {x} : ~(Pending(y) /\ sess[y].id = t)
                                          /\ ~(Pending(y)' /\ sess'[y].id = t)
      BY <2>3, <2>5
    <3>2. /\ secret # NoSecret
          /\ \A y \in 1..Terminals : Pending(y)' /\ sess'[y].id = t => secret = sess'[y].plan[1].old
          /\ \/ secret = disk'[t]
             \/ \E y \in 1..Terminals : Pending(y)' /\ sess'[y].id = t
      <4>1. CASE ~Pending(x) /\ Pending(x)' /\ sess'[x].id = s /\ sess'[x].plan[1].old = disk[s]
        <5>1. secret = disk[t]
          BY <2>2, <3>1, <4>1
        <5>2. QED
          BY <2>2, <2>5, <3>1, <4>1, <5>1
      <4>2. CASE Pending(x) /\ ~Pending(x)' /\ sess[x].plan[1].old = disk'[s]
        <5>1. secret = sess[x].plan[1].old
          BY <2>2, <2>5, <4>2
        <5>2. QED
          BY <2>2, <2>5, <3>1, <4>2, <5>1
      <4>3. QED
        BY <4>1, <4>2
    <3>3. QED
      BY <3>2 DEF secret, t
  <2>6. QED
    BY <2>4, <2>5
<1>2. QED
  BY <1>1 DEF Agree

\* The program that waits for the agent, or for its answer, adds a remote server.
LEMMA PendingIs ==
    ASSUME SettingsAssumption, Typed, Jobs, NEW y \in 1..Terminals, Pending(y)
    PROVE  /\ InWindow(y) /\ sess[y].done = 1 /\ IsRemote(sess[y]) /\ Fresh(sess[y])
           /\ sess[y].id \in Touched(y) /\ "servers" \in Touched(y)
           /\ sess[y].plan[1].file = sess[y].id /\ AddOK(sess[y])
<1>1. SessionOK(sess[y]) /\ JobOK(sess[y]) /\ Staged(sess[y]) /\ InWindow(y)
  BY DEF Typed, Jobs, Pending, Staged, InWindow
<1>2. IsRemote(sess[y]) /\ sess[y].done = 1
  BY <1>1 DEF Pending, JobOK, Counted, AgentPcs
<1>3. AddOK(sess[y])
  BY <1>1, <1>2 DEF JobOK, IsRemote
<1>4. "servers" \in Touched(y)
  <2>1. "servers" \in FilesOf(sess[y].plan, sess[y].reads)
    BY <1>3 DEF AddOK
  <2>2. QED
    BY <2>1, TouchedIs
<1>5. QED
  BY <1>1, <1>2, <1>3, <1>4, AgentFile

\* A program that waits for nothing, before and after, changes no entry's agreement.
LEMMA AgreeAside ==
    ASSUME SettingsAssumption, Typed, NEW x \in 1..Terminals, NEW env, NEW servers \in Lists,
           Moves(x), \A t \in Ids : disk'[t] = disk[t], ~Pending(x), ~Pending(x)',
           Agree(env, servers)
    PROVE  Agree(env, servers)'
<1>1. NoId \notin Registered(servers)
  BY ListShape DEF SettingsAssumption
<1>2. QED
  BY <1>1, AgreeElsewhere

LEMMA AgreeStaged ==
    ASSUME SettingsAssumption, Typed, Jobs, NEW x \in 1..Terminals,
           \/ Open(x) \/ StageAdd(x) \/ StageRemote(x) \/ EditExistingSoftware(x)
           \/ StageRemoval(x) \/ Cancel(x)
           \/ OpenEditor(x) \/ EditUser(x) \/ DeleteOrRename(x) \/ Reread(x),
           NEW env, NEW servers \in Lists, Agree(env, servers)
    PROVE  Agree(env, servers)'
<1>1. disk' = disk
  BY DEF Open, StageAdd, StageRemote, EditExistingSoftware, StageRemoval, Cancel,
         OpenEditor, EditUser, DeleteOrRename, Reread
<1>2. ~Pending(x)
  <2>1. \/ sess[x].pc \in {"idle", "asked", "editing", "configure", "reread"}
        \/ sess[x].done = 0 /\ sess[x].pc = "check"
    BY DEF Open, StageAdd, StageRemote, EditExistingSoftware, StageRemoval, Cancel,
           OpenEditor, EditUser, DeleteOrRename, Reread, Free
  <2>2. QED
    BY <2>1 DEF Pending
<1>3. Moves(x) /\ ~Pending(x)'
  <2>1. CASE Cancel(x)
    BY <2>1, EndsIdle, EndsFine DEF Cancel, Pending
  <2>2. CASE Open(x) \/ StageAdd(x) \/ StageRemote(x) \/ EditExistingSoftware(x)
             \/ StageRemoval(x)
    <3>1. Moves(x) /\ (sess'[x].pc \in {"asked", "configure"}
                         \/ (sess'[x].pc = "check" /\ sess'[x].done = 0))
      BY <2>2, OpenFine, StageAddFine, StageRemoteFine, SoftwareFine, StageRemovalFine
    <3>2. QED
      BY <3>1 DEF Pending
  <2>3. CASE OpenEditor(x) \/ EditUser(x) \/ DeleteOrRename(x) \/ Reread(x)
    <3>1. /\ Moves(x) /\ Fine(sess'[x]) /\ sess'[x].pc \in {"check", "editing"}
          /\ sess'[x].job = "users"
      BY <2>3, OpenEditorFine, EditUserFine, DeleteFine, RereadFine
    <3>2. sess'[x].pc = "check" => sess'[x].done = 0
      BY <3>1 DEF Fine, JobOK, Counted, IsRemote
    <3>3. QED
      BY <3>1, <3>2 DEF Pending
  <2>4. QED
    BY <2>1, <2>2, <2>3
<1>4. QED
  BY <1>1, <1>2, <1>3, AgreeAside

LEMMA AgreeRefused ==
    ASSUME SettingsAssumption, Typed, Jobs, NEW x \in 1..Terminals,
           sess[x].pc = "check", Refuse(x), disk' = disk,
           NEW env, NEW servers \in Lists, Agree(env, servers)
    PROVE  Agree(env, servers)'
<1>1. CASE Pending(x)
  <2>1. sess[x].done = 1 /\ FirstLocal(x) = 2
    BY <1>1, PendingIs, FirstIs
  <2>2. Step(x, [pc |-> "unconfigure", tried |-> 1])
    BY <2>1 DEF Refuse
  <2>3. Goes(x, "unconfigure", sess[x].done, 1, sess[x].left)
    <3>1. sess'[x].pc = "unconfigure"
      BY <2>2 DEF Step, Typed, SessionOK, Fields
    <3>2. ~Ends(x)
      BY <3>1, EndsFine
    <3>3. QED
      BY <3>2, RefuseGoes
  <2>4. Pending(x)' /\ Moves(x) /\ sess'[x].id = sess[x].id /\ sess'[x].plan = sess[x].plan
    BY <2>3 DEF Goes, Pending
  <2>5. QED
    BY <1>1, <2>4, AgreeFramed
<1>2. CASE ~Pending(x)
  <2>1. sess[x].done # 1
    BY <1>2 DEF Pending
  <2>2. Ends(x)
    BY <2>1, EndsIdle DEF Refuse
  <2>3. Moves(x) /\ ~Pending(x)'
    BY <2>2, EndsFine DEF Pending
  <2>4. QED
    BY <1>2, <2>3, AgreeAside
<1>3. QED
  BY <1>1, <1>2

\* What is registered when a remote server's program enters its window is what it read.
LEMMA EntersSeen ==
    ASSUME Typed, Jobs, NEW x \in 1..Terminals, Enters(x), sess[x].job = "add"
    PROVE  disk["servers"] = sess[x].seen /\ Fresh(sess[x])
<1> DEFINE r == sess[x]
           n == Len(r.plan)
<1>1. SessionOK(r) /\ JobOK(r) /\ r.pc = "check"
  BY DEF Enters, Typed, Jobs
<1>2. AddOK(r) /\ Fresh(r)
  BY <1>1 DEF JobOK, Staged
<1>3. n \in Nat /\ n > 0 /\ r.plan[n].file = "servers" /\ (IsRemote(r) => n > 1)
  BY <1>1, <1>2 DEF AddOK, LastIs, SessionOK, PlanOK, IsRemote
<1>4. n \in 1..Len(r.plan) /\ n \in FirstLocal(x)..Len(r.plan)
  BY <1>3, FirstIs
<1>5. r.plan[n].old = r.seen
  BY <1>2, <1>3, <1>4, PlanAt DEF AddOK
<1>6. disk[r.plan[n].file] = r.plan[n].old
  BY <1>4 DEF Enters, Unchanged
<1>7. QED
  BY <1>2, <1>3, <1>5, <1>6

LEMMA AgreeEntered ==
    ASSUME SettingsAssumption, Typed, Jobs, NEW x \in 1..Terminals, Enters(x),
           NEW env, NEW servers \in Lists, servers = disk["servers"], Agree(env, servers)
    PROVE  Agree(env, servers)'
<1>1. Moves(x) /\ ~Pending(x)' /\ disk' = disk
  BY GoesOld DEF Enters, Pending
<1>2. CASE ~Pending(x)
  BY <1>1, <1>2, AgreeAside
<1>3. CASE Pending(x)
  <2>1. sess[x].job = "add"
    BY <1>3, PendingIs DEF IsRemote
  <2>2. sess[x].id \notin Registered(servers)
    BY <2>1, EntersSeen DEF Fresh
  <2>3. QED
    BY <1>1, <2>2, AgreeElsewhere
<1>4. QED
  BY <1>2, <1>3

\* A file that is put or put back is the bot's, or that of a server not yet registered.
LEMMA AgreePut ==
    ASSUME SettingsAssumption, Typed, Jobs, NEW x \in 1..Terminals, NEW f,
           Puts(x, f) \/ PutsBack(x, f),
           NEW env, NEW servers \in Lists, servers = disk["servers"], Agree(env, servers)
    PROVE  Agree(env, servers)'
<1>1. /\ sess[x].pc \in {"write", "undo"} /\ disk["servers"] = sess[x].seen
      /\ \A g \in Files \ {f} : disk'[g] = disk[g]
  BY DEF Puts, PutsBack
<1>2. ~Pending(x)
  BY <1>1 DEF Pending
<1>3. Moves(x) /\ ~Pending(x)'
  <2>1. CASE PutsBack(x, f)
    BY <2>1, GoesOld DEF PutsBack, Pending
  <2>2. CASE Puts(x, f)
    <3>1. CASE sess[x].done + 1 = Len(sess[x].plan)
      BY <2>2, <3>1 DEF Puts, Pending
    <3>2. CASE sess[x].done + 1 # Len(sess[x].plan)
      BY <2>2, <3>2, GoesOld DEF Puts, Pending
    <3>3. QED
      BY <3>1, <3>2
  <2>3. QED
    BY <2>1, <2>2
<1>4. Ids \subseteq Files /\ Ids \cap Shared = {}
  BY DEF Files, Shared, SettingsAssumption
<1>5. CASE f \in Shared
  <2>1. \A t \in Ids : disk'[t] = disk[t]
    BY <1>1, <1>4, <1>5
  <2>2. QED
    BY <1>2, <1>3, <2>1, AgreeAside
<1>6. CASE f \notin Shared
  <2>1. sess[x].job = "add" /\ f = sess[x].id
    BY <1>6, PutsFile DEF Shared
  <2>2. f \notin Registered(servers)
    BY <1>1, <2>1, JobNow DEF Fresh
  <2>3. \A t \in Ids \ {f} : disk'[t] = disk[t]
    BY <1>1, <1>4
  <2>4. QED
    BY <1>2, <1>3, <2>2, <2>3, AgreeElsewhere
<1>7. QED
  BY <1>5, <1>6

LEMMA AgreeRaised ==
    ASSUME SettingsAssumption, Typed, Jobs, Windows, NEW x \in 1..Terminals,
           WriteRaises(x) \/ Undone(x), ~race, ~unseen,
           NEW env, NEW servers \in Lists, servers = disk["servers"], Agree(env, servers)
    PROVE  Agree(env, servers)'
<1>1. disk' = disk /\ sess[x].pc \in {"write", "undo"}
  BY DEF WriteRaises, Undone
<1>2. ~Pending(x)
  BY <1>1 DEF Pending
<1>3. CASE WriteRaises(x)
  <2>1. Moves(x) /\ ~Pending(x)'
    BY <1>3, WriteRaisesFine, GoesOld DEF Pending
  <2>2. QED
    BY <1>1, <1>2, <2>1, AgreeAside
<1>4. CASE Undone(x)
  <2>1. CASE Ends(x)
    <3>1. Moves(x) /\ ~Pending(x)'
      BY <2>1, EndsFine DEF Pending
    <3>2. QED
      BY <1>1, <1>2, <3>1, AgreeAside
  <2>2. CASE /\ IsRemote(sess[x])
             /\ Goes(x, "unconfigure", sess[x].done, sess[x].tried, sess[x].left)
    <3>1. Moves(x) /\ sess'[x].id = sess[x].id
      BY <2>2, GoesOld
    <3>2. disk["servers"] = sess[x].seen
      BY <1>1, SeenNow DEF Windows
    <3>3. sess[x].id \notin Registered(servers)
      BY <1>1, <2>2, <3>2, JobNow DEF IsRemote, Fresh
    <3>4. QED
      BY <1>1, <1>2, <3>1, <3>3, AgreeElsewhere
  <2>3. QED
    BY <1>4, <2>1, <2>2, UndoneFine
<1>5. QED
  BY <1>3, <1>4

\* Nobody else waits for the agent's answer on the file it replaces.
LEMMA AgentAlone ==
    ASSUME SettingsAssumption, Typed, Jobs, NEW x \in 1..Terminals, NEW v,
           IsRemote(sess[x]), Staged(sess[x]),
           Replace(x, sess[x].plan[1].file, v), ~race',
           NEW y \in (1..Terminals) \ {x}, Pending(y)
    PROVE  sess[y].id # sess[x].id
<1> DEFINE f == sess[x].plan[1].file
<1>1. f = sess[x].id /\ f \in Files
  BY AgentFile
<1>2. InWindow(y) /\ sess[y].id \in Touched(y)
  BY PendingIs
<1>3. Replace(x, f, v)
  OBVIOUS
<1> HIDE DEF f
<1>4. f \notin Touched(y)
  BY <1>1, <1>2, <1>3, Replaced
<1>5. QED
  BY <1>1, <1>2, <1>4

LEMMA AgreeCompared ==
    ASSUME SettingsAssumption, Typed, Jobs, NEW x \in 1..Terminals, AgentCompares(x),
           NEW env, NEW servers \in Lists, Agree(env, servers)
    PROVE  Agree(env, servers)'
<1>1. /\ Moves(x) /\ disk' = disk
      /\ \/ /\ sess[x].pc = "configure"
            /\ Goes(x, "configuring", sess[x].done, sess[x].tried, sess[x].left)
         \/ /\ sess[x].pc = "unconfigure"
            /\ Goes(x, "unconfiguring", sess[x].done, sess[x].tried, sess[x].left)
  BY ComparesFine
<1>2. CASE sess[x].pc = "configure" /\ sess'[x].pc = "configuring"
  <2>1. ~Pending(x) /\ ~Pending(x)'
    BY <1>2 DEF Pending
  <2>2. QED
    BY <1>1, <2>1, AgreeAside
<1>3. CASE sess[x].pc = "unconfigure" /\ sess'[x].pc = "unconfiguring"
  <2>1. Pending(x) /\ Pending(x)'
    BY <1>3 DEF Pending
  <2>2. sess'[x].id = sess[x].id /\ sess'[x].plan = sess[x].plan
    BY <1>1 DEF Goes
  <2>3. QED
    BY <1>1, <2>1, <2>2, AgreeFramed
<1>4. QED
  BY <1>1, <1>2, <1>3 DEF Goes

LEMMA AgreeConfigured ==
    ASSUME SettingsAssumption, Typed, Jobs, Windows, NEW x \in 1..Terminals,
           AgentReplaces(x), sess[x].pc = "configuring", ~race, ~race', ~torn',
           NEW env, NEW servers \in Lists, Agree(env, servers)
    PROVE  Agree(env, servers)'
<1> DEFINE r == sess[x]
           c == r.plan[1]
           s == r.id
<1>1. IsRemote(r) /\ Staged(r) /\ ~Pending(x) /\ Moves(x)
  BY ReplacesFine DEF Staged, Pending
<1>2. c.file = s /\ s \in Ids /\ s \in Files
  BY <1>1, AgentFile
<1>3. Replace(x, c.file, c.new) /\ Goes(x, "check", 1, r.tried, r.left)
  BY ReplacesFine
<1>4. WindowOK(r)
  BY DEF Windows
<1>5. disk[c.file] = c.old
  BY <1>4 DEF WindowOK
<1>6. Pending(x)' /\ sess'[x].id = s /\ sess'[x].plan[1].old = disk[s]
  BY <1>2, <1>3, <1>5, GoesOld DEF Pending
<1>7. \A y \in (1..Terminals) \ {x} : Pending(y) => sess[y].id # s
  BY <1>1, <1>3, AgentAlone
<1>8. \A t \in Files \ {s} : disk'[t] = disk[t]
  <2> DEFINE v == c.new
  <2>1. Replace(x, s, v)
    BY <1>2, <1>3
  <2> HIDE DEF v, s
  <2>2. QED
    BY <1>2, <2>1, Replaced
<1>9. sess[x].id = s
  OBVIOUS
<1> HIDE DEF s
<1>10. QED
  BY <1>1, <1>2, <1>6, <1>7, <1>8, <1>9, AgreeAgent

LEMMA AgreeUnconfigured ==
    ASSUME SettingsAssumption, Typed, Jobs, NEW x \in 1..Terminals,
           AgentReplaces(x), sess[x].pc = "unconfiguring", ~race',
           NEW env, NEW servers \in Lists, Agree(env, servers)
    PROVE  Agree(env, servers)'
<1> DEFINE r == sess[x]
           c == r.plan[1]
           s == r.id
<1>1. IsRemote(r) /\ Staged(r) /\ Pending(x) /\ Moves(x) /\ Ends(x)
  BY ReplacesFine DEF Staged, Pending
<1>2. c.file = s /\ s \in Ids /\ s \in Files
  BY <1>1, AgentFile
<1>3. Replace(x, c.file, c.old)
  BY ReplacesFine
<1>4. ~Pending(x)'
  BY <1>1, EndsFine DEF Pending
<1>5. \A y \in (1..Terminals) \ {x} : Pending(y) => sess[y].id # s
  BY <1>1, <1>3, AgentAlone
<1>6. disk'[s] = c.old /\ \A t \in Files \ {s} : disk'[t] = disk[t]
  <2> DEFINE v == c.old
  <2>1. Replace(x, s, v) /\ s \in Files
    BY <1>2, <1>3
  <2> HIDE DEF v, s
  <2>2. disk'[s] = v /\ \A t \in Files \ {s} : disk'[t] = disk[t]
    BY <2>1, Replaced
  <2>3. QED
    BY <2>2 DEF v
<1>7. sess[x].id = s /\ sess[x].plan[1].old = disk'[s]
  BY <1>6
<1> HIDE DEF s
<1>8. QED
  BY <1>1, <1>2, <1>4, <1>5, <1>6, <1>7, AgreeAgent

\* The request of a program that had not written fails.
LEMMA AgreeAgentRaised ==
    ASSUME SettingsAssumption, Typed, Jobs, NEW x \in 1..Terminals, AgentRaises(x), ~torn',
           NEW env, NEW servers \in Lists, Agree(env, servers)
    PROVE  Agree(env, servers)'
<1>1. Moves(x) /\ ~Pending(x)' /\ disk' = disk
  BY AgentRaisesFine, EndsFine DEF Pending
<1>2. ~Pending(x)
  BY AgentRaisesFine DEF Pending, AgentPcs
<1>3. QED
  BY <1>1, <1>2, AgreeAside

LEMMA AgreeKilled ==
    ASSUME SettingsAssumption, Typed, Jobs, NEW x \in 1..Terminals, Kill(x), ~torn',
           NEW env, NEW servers \in Lists, Agree(env, servers)
    PROVE  Agree(env, servers)'
<1>1. Moves(x) /\ ~Pending(x)' /\ disk' = disk
  BY EndsIdle, EndsFine DEF Kill, Pending
<1>2. ~Pending(x)
  <2>1. ASSUME Pending(x) PROVE FALSE
    <3>1. sess[x].done = 1 /\ sess[x].pc # "reread"
      BY <2>1, PendingIs DEF Pending
    <3>2. sess[x].pc # "reread" /\ sess[x].done > 0
      BY <3>1
    <3>3. torn' = (torn \/ (sess[x].pc # "reread" /\ sess[x].done > 0))
      BY DEF Kill
    <3>4. QED
      BY <3>2, <3>3, Zenon
  <2>2. QED
    BY <2>1
<1>3. QED
  BY <1>1, <1>2, AgreeAside

\* Whatever .env says, a step without an accident leaves the entries in agreement.
LEMMA AgreeStill ==
    ASSUME SettingsAssumption, Typed, Jobs, Windows, NEW x \in 1..Terminals, Acts(x),
           ~race', ~torn', ~unseen',
           NEW env, NEW servers \in Lists, servers = disk["servers"], Agree(env, servers)
    PROVE  Agree(env, servers)'
<1>1. ~race /\ ~unseen
  BY ActsFiles, ExcusesKept
<1>2. CASE Check(x) \/ CopyRaises(x)
  <2>1. sess[x].pc = "check" /\ disk' = disk
    BY <1>2 DEF Check, CopyRaises
  <2>2. CASE Refuse(x)
    BY <2>1, <2>2, AgreeRefused
  <2>3. CASE ~Refuse(x)
    <3>1. Enters(x)
      BY <1>2, <2>1, <2>3, CheckGoes DEF Check, CopyRaises, Enters
    <3>2. QED
      BY <3>1, AgreeEntered
  <2>4. QED
    BY <2>2, <2>3
<1>3. CASE Write(x)
  BY <1>1, <1>3, WritePuts, AgreePut
<1>4. CASE Undo(x)
  BY <1>1, <1>4, UndoPutsBack, AgreePut
<1>5. CASE WriteRaises(x) \/ Undone(x)
  BY <1>1, <1>5, AgreeRaised
<1>6. CASE UndoRaises(x)
  BY <1>6 DEF UndoRaises
<1>7. CASE AgentCompares(x) \/ AgentReplaces(x) \/ AgentRaises(x) \/ Kill(x)
  BY <1>1, <1>7, AgreeCompared, AgreeConfigured, AgreeUnconfigured, AgreeAgentRaised, AgreeKilled
     DEF AgentReplaces
<1>8. CASE \/ Open(x) \/ StageAdd(x) \/ StageRemote(x) \/ EditExistingSoftware(x)
           \/ StageRemoval(x) \/ Cancel(x)
           \/ OpenEditor(x) \/ EditUser(x) \/ DeleteOrRename(x) \/ Reread(x)
  BY <1>8, AgreeStaged
<1>9. QED
  BY <1>2, <1>3, <1>4, <1>5, <1>6, <1>7, <1>8 DEF Acts

\* What agrees after a step, by value.
LEMMA AgreeNow ==
    ASSUME NEW env, NEW servers, Agree(env, servers)',
           env = disk'["env"], servers = disk'["servers"]
    PROVE  AgreeDisk'
  BY DEF Agree, AgreeDisk

LEMMA AgreeThen ==
    ASSUME NEW y, NEW env, NEW servers, Agree(env, servers)',
           env = OldOf(sess'[y], "env"), servers = sess'[y].seen
    PROVE  AgreeSeen(y)'
  BY DEF Agree, AgreeSeen

\* What a removal has read is what the registry still is.
LEMMA RemovalSeen ==
    ASSUME Typed, Jobs, Windows, ~race, ~unseen, NEW y \in 1..Terminals, Removing(y)
    PROVE  sess[y].seen = disk["servers"]
  BY SeenNow DEF Windows, Removing

\* A step that leaves .env and the registry as they are.
LEMMA AgreeDiskQuiet ==
    ASSUME SettingsAssumption, Typed, Jobs, Windows, NEW x \in 1..Terminals, Acts(x),
           ~race', ~torn', ~unseen',
           disk'["env"] = disk["env"], disk'["servers"] = disk["servers"], AgreeDisk
    PROVE  AgreeDisk'
<1>1. PICK env : env = disk["env"]
  OBVIOUS
<1>2. PICK servers : servers = disk["servers"]
  OBVIOUS
<1>3. servers \in Lists /\ Agree(env, servers)
  BY <1>1, <1>2, DiskTyped DEF AgreeDisk
<1>4. Agree(env, servers)'
  BY <1>2, <1>3, AgreeStill
<1>5. QED
  BY <1>1, <1>2, <1>4, AgreeNow

\* What a removal has read still agrees.
LEMMA AgreeSeenKept ==
    ASSUME SettingsAssumption, Typed, Jobs, Windows, NEW x \in 1..Terminals, Acts(x),
           ~race', ~torn', ~unseen', NEW y \in 1..Terminals, Removing(y), AgreeSeen(y),
           sess'[y].seen = sess[y].seen, OldOf(sess'[y], "env") = OldOf(sess[y], "env")
    PROVE  AgreeSeen(y)'
<1>1. PICK env : env = OldOf(sess[y], "env")
  OBVIOUS
<1>2. PICK servers : servers = sess[y].seen
  OBVIOUS
<1>3. ~race /\ ~unseen
  BY ActsFiles, ExcusesKept
<1>4. servers = disk["servers"] /\ servers \in Lists
  BY <1>2, <1>3, RemovalSeen, DiskTyped
<1>5. Agree(env, servers)
  BY <1>1, <1>2 DEF AgreeSeen
<1>6. Agree(env, servers)'
  BY <1>4, <1>5, AgreeStill
<1>7. QED
  BY <1>1, <1>2, <1>6, AgreeThen

LEMMA AgreeingQuiet ==
    ASSUME SettingsAssumption, Typed, Jobs, Windows, NEW x \in 1..Terminals, Acts(x),
           Remains(x), ~race', ~torn', ~unseen',
           disk'["env"] = disk["env"], disk'["servers"] = disk["servers"], Agreeing
    PROVE  Agreeing'
<1>1. ~race /\ ~torn /\ ~unseen
  BY ActsFiles, ExcusesKept
<1>2. \A y \in 1..Terminals : Busy(y) => Busy(y)'
  BY OthersRemove DEF Remains
<1>3. (\E y \in 1..Terminals : Busy(y)') \/ AgreeDisk'
  BY <1>1, <1>2, AgreeDiskQuiet DEF Agreeing
<1>4. ASSUME NEW z \in 1..Terminals, Removing(z)'
      PROVE  (\E y \in (1..Terminals) \ {z} : Busy(y)') \/ AgreeSeen(z)'
  <2>1. /\ Removing(z) /\ sess'[z].seen = sess[z].seen
        /\ OldOf(sess'[z], "env") = OldOf(sess[z], "env")
    <3>1. CASE z = x
      BY <1>4, <3>1 DEF Remains
    <3>2. CASE z # x
      BY <1>4, <3>2, OthersRemove DEF Remains
    <3>3. QED
      BY <3>1, <3>2
  <2>2. (\E y \in (1..Terminals) \ {z} : Busy(y)) \/ AgreeSeen(z)
    BY <1>1, <2>1 DEF Agreeing
  <2>3. AgreeSeen(z) => AgreeSeen(z)'
    BY <2>1, AgreeSeenKept
  <2>4. QED
    BY <1>2, <2>2, <2>3
<1>5. QED
  BY <1>3, <1>4 DEF Agreeing

\* A removal that enters its window has read files that agree.
LEMMA AgreeingEnters ==
    ASSUME SettingsAssumption, Typed, Jobs, Windows, NEW x \in 1..Terminals, Acts(x),
           Enters(x), ~race', ~torn', ~unseen', Agreeing
    PROVE  Agreeing'
<1>1. ~race /\ ~torn /\ ~unseen /\ disk' = disk /\ Moves(x)
  BY ActsFiles, ExcusesKept, GoesOld DEF Enters
<1>2. ~Busy(x)
  BY DEF Enters, Busy, Removing
<1>3. \A y \in 1..Terminals : Busy(y) => Busy(y)' /\ y # x
  BY <1>1, <1>2, OthersRemove
<1>4. AgreeDisk => AgreeDisk'
  BY <1>1, AgreeDiskQuiet
<1>5. (\E y \in 1..Terminals : Busy(y)') \/ AgreeDisk'
  BY <1>1, <1>3, <1>4 DEF Agreeing
<1>6. ASSUME NEW z \in 1..Terminals, Removing(z)'
      PROVE  (\E y \in (1..Terminals) \ {z} : Busy(y)') \/ AgreeSeen(z)'
  <2>1. CASE z = x
    <3>1. /\ sess[x].job = "remove" /\ sess'[x].seen = sess[x].seen
          /\ OldOf(sess'[x], "env") = OldOf(sess[x], "env")
      BY <1>6, <2>1, GoesOld DEF Enters, Removing
    <3>2. OldOf(sess[x], "env") = disk["env"] /\ sess[x].seen = disk["servers"]
      BY <3>1, RemovalEnters DEF Shared
    <3>3. AgreeDisk' => AgreeSeen(x)'
      <4>1. OldOf(sess'[x], "env") = disk'["env"] /\ sess'[x].seen = disk'["servers"]
        BY <1>1, <3>1, <3>2
      <4>2. QED
        BY <4>1 DEF AgreeDisk, AgreeSeen, Agree
    <3>4. QED
      BY <1>1, <1>3, <1>4, <2>1, <3>3 DEF Agreeing
  <2>2. CASE z # x
    <3>1. Removing(z) /\ sess'[z] = sess[z]
      BY <1>1, <1>6, <2>2, OthersRemove
    <3>2. (\E y \in (1..Terminals) \ {z} : Busy(y)) \/ AgreeSeen(z)
      BY <1>1, <3>1 DEF Agreeing
    <3>3. AgreeSeen(z) => AgreeSeen(z)'
      BY <3>1, AgreeSeenKept
    <3>4. QED
      BY <1>3, <3>2, <3>3
  <2>3. QED
    BY <2>1, <2>2
<1>7. QED
  BY <1>5, <1>6 DEF Agreeing

\* The variable of a new server is none that an entry names.
LEMMA AddedVariable ==
    ASSUME SettingsAssumption, Typed, Jobs, NEW x \in 1..Terminals,
           sess[x].pc \in {"write", "undo"}, sess[x].job = "add"
    PROVE  LET r == sess[x]
               before == OldOf(r, "env")
               after == NewOf(r, "env") IN
           /\ \A i \in DOMAIN r.seen : after.key[r.seen[i].key] = before.key[r.seen[i].key]
           /\ after.key[r.id] = NewOf(r, r.id) /\ NewOf(r, r.id) \in Secrets
           /\ after.default = before.default
           /\ r.id \in Ids \ Registered(r.seen) /\ r.id \in Touched(x) /\ "env" \in Touched(x)
<1> DEFINE r == sess[x]
           before == OldOf(r, "env")
           secret == NewOf(r, r.id)
<1>1. AddOK(r) /\ Fresh(r) /\ Touched(x) = {"env", "servers", r.id} /\ SessionOK(r)
  BY JobNow
<1>2. before \in Envs
  BY <1>1, OldTyped DEF Holds
<1>3. NewOf(r, "env") = [before EXCEPT !.key[r.id] = secret] /\ secret \in Secrets
  BY <1>1 DEF AddOK, UpdateEnv
<1>4. r.id \in Ids \ Registered(r.seen) /\ \A i \in DOMAIN r.seen : r.seen[i].key # r.id
  BY <1>1 DEF Fresh
<1>5. \A i \in DOMAIN r.seen : r.seen[i].key \in Ids
  BY <1>1, ListShape DEF SessionOK, Entries
<1> HIDE DEF before, secret, r
<1>6. /\ NewOf(r, "env").key[r.id] = secret
      /\ \A k \in Ids \ {r.id} : NewOf(r, "env").key[k] = before.key[k]
      /\ NewOf(r, "env").default = before.default
  BY <1>2, <1>3, <1>4 DEF Envs
<1>7. \A i \in DOMAIN r.seen : NewOf(r, "env").key[r.seen[i].key] = before.key[r.seen[i].key]
  BY <1>4, <1>5, <1>6
<1>8. QED
  BY <1>1, <1>3, <1>4, <1>6, <1>7 DEF before, secret, r

\* What remains of .env has the variable of every remaining entry.
LEMMA RemovedVariables ==
    ASSUME NEW r, RemoveOK(r), r.seen \in Lists, NewOf(r, "servers") \in Lists
    PROVE  \A i \in DOMAIN NewOf(r, "servers") : \E k \in DOMAIN r.seen :
              /\ r.seen[k].id = NewOf(r, "servers")[i].id
              /\ NewOf(r, "env").key[NewOf(r, "servers")[i].key]
                    = OldOf(r, "env").key[r.seen[k].key]
<1> DEFINE remaining == NewOf(r, "servers")
           after == NewOf(r, "env")
           before == OldOf(r, "env")
<1>1. /\ \A e \in Entries : (\E i \in DOMAIN remaining : remaining[i] = e)
                               => \E i \in DOMAIN r.seen : r.seen[i] = e
      /\ \A i \in DOMAIN remaining : after.key[remaining[i].key] = before.key[remaining[i].key]
  BY DEF RemoveOK
<1>2. \A i \in DOMAIN remaining : remaining[i] \in Entries
  BY ListShape
<1> HIDE DEF remaining, after, before
<1>3. \A i \in DOMAIN remaining : \E k \in DOMAIN r.seen :
         /\ r.seen[k].id = remaining[i].id
         /\ after.key[remaining[i].key] = before.key[r.seen[k].key]
  <2>1. TAKE i \in DOMAIN remaining
  <2>2. PICK k \in DOMAIN r.seen : r.seen[k] = remaining[i]
    BY <1>1, <1>2
  <2>3. WITNESS k \in DOMAIN r.seen
  <2>4. QED
    BY <1>1, <2>2
<1>4. QED
  BY <1>3 DEF remaining, after, before

\* One writes of a file of the bot: nobody else removes a server.
LEMMA AgreeingAlone ==
    ASSUME SettingsAssumption, Typed, Jobs, Windows, NEW x \in 1..Terminals, Acts(x), NEW f,
           Puts(x, f) \/ PutsBack(x, f), f \in Shared,
           ~race', ~torn', ~unseen', Agreeing
    PROVE  /\ Removing(x) => AgreeSeen(x)
           /\ ~Busy(x) => AgreeDisk
           /\ Removing(x)' => AgreeSeen(x)'
           /\ \A z \in (1..Terminals) \ {x} : ~Removing(z)'
           /\ Busy(x)' \/ AgreeDisk' => Agreeing'
<1>1. ~race /\ ~torn /\ ~unseen
  BY ActsFiles, ExcusesKept
<1>2. \A z \in (1..Terminals) \ {x} : ~Removing(z) /\ ~Removing(z)' /\ ~Busy(z)
  BY PutsAlone, PutsRemoves, OthersRemove DEF Busy
<1>3. (Removing(x) => AgreeSeen(x)) /\ (~Busy(x) => AgreeDisk)
  BY <1>1, <1>2 DEF Agreeing
<1>4. Removing(x)' => AgreeSeen(x)'
  BY <1>3, PutsRemoves, AgreeSeenKept
<1>5. Busy(x)' \/ AgreeDisk' => Agreeing'
  BY <1>2, <1>4 DEF Agreeing
<1>6. QED
  BY <1>2, <1>3, <1>4, <1>5

\* A new server's secret and variable are written before its entry.
LEMMA AgreeingAdd ==
    ASSUME SettingsAssumption, Typed, Jobs, Windows, NEW x \in 1..Terminals, Acts(x), NEW f,
           Puts(x, f) \/ PutsBack(x, f), f \in Shared, sess[x].job = "add",
           ~race', ~torn', ~unseen', Agreeing
    PROVE  Agreeing'
<1> DEFINE r == sess[x]
<1>1. ~Busy(x) /\ AgreeDisk /\ r.pc \in {"write", "undo"} /\ disk["servers"] = r.seen
  <2>1. ~Busy(x)
    BY DEF Busy, Removing
  <2>2. QED
    BY <2>1, AgreeingAlone DEF Puts, PutsBack
<1>2. r.seen \in Lists /\ "env" \in Files /\ "servers" \in Files
  BY DEF Typed, SessionOK, Files
<1>3. PICK env : env = disk["env"]
  OBVIOUS
<1>4. PICK servers : servers = disk["servers"]
  OBVIOUS
<1>5. Agree(env, servers)'
  BY <1>1, <1>2, <1>3, <1>4, AgreeStill DEF AgreeDisk
<1>6. f \in {"env", "servers"}
  BY PutsFile
<1>7. CASE f = "env"
  <2>1. disk'["servers"] = servers
    BY <1>2, <1>4, <1>7 DEF Puts, PutsBack
  <2>2. PICK after : after = disk'["env"]
    OBVIOUS
  <2>3. \A i \in DOMAIN servers : after.key[servers[i].key] = env.key[servers[i].key]
    <3>1. \/ env = OldOf(r, "env") /\ after = NewOf(r, "env")
          \/ env = NewOf(r, "env") /\ after = OldOf(r, "env")
      BY <1>3, <1>7, <2>2 DEF Puts, PutsBack
    <3>2. \A i \in DOMAIN r.seen : NewOf(r, "env").key[r.seen[i].key]
                                      = OldOf(r, "env").key[r.seen[i].key]
      BY <1>1, AddedVariable
    <3>3. QED
      BY <1>1, <1>4, <3>1, <3>2
  <2>4. Agree(after, servers)'
    BY <1>5, <2>3, AgreeFewer
  <2>5. AgreeDisk'
    BY <2>1, <2>2, <2>4, AgreeNow
  <2>6. QED
    BY <2>5, AgreeingAlone
<1>8. CASE f = "servers"
  <2>1. Puts(x, "servers")
    BY <1>8 DEF PutsBack
  <2>2. /\ disk'["servers"] = NewOf(r, "servers") /\ AddOK(r)
        /\ \A g \in Touched(x) \ {"servers"} : disk[g] = NewOf(r, g)
        /\ disk'["env"] = disk["env"]
        /\ sess'[x].pc = "idle" \/ sess'[x].pc = "reread"
    BY <1>2, <2>1, RegistryPut DEF Puts
  <2>3. PICK more : more = disk'["servers"]
    OBVIOUS
  <2>4. more = Append(servers, BuildEntry(r.id))
    BY <1>1, <1>4, <2>2, <2>3 DEF AddOK
  <2>5. /\ r.id \in Ids \ Registered(r.seen) /\ r.id \in Files /\ r.id # "servers"
        /\ env.key[r.id] = disk'[r.id] /\ env.key[r.id] # NoSecret
    <3>1. /\ r.id \in Ids \ Registered(r.seen) /\ r.id \in Touched(x) /\ "env" \in Touched(x)
          /\ NewOf(r, "env").key[r.id] = NewOf(r, r.id) /\ NewOf(r, r.id) \in Secrets
      BY <1>1, AddedVariable
    <3>2. r.id \in Files /\ r.id # "servers"
      BY <3>1, DiskTyped
    <3>3. env = NewOf(r, "env") /\ disk[r.id] = NewOf(r, r.id)
      BY <1>3, <2>2, <3>1, <3>2
    <3>4. disk'[r.id] = disk[r.id]
      BY <2>1, <3>2 DEF Puts
    <3>5. NoSecret \notin Secrets
      BY DEF SettingsAssumption
    <3>6. QED
      BY <3>1, <3>2, <3>3, <3>4, <3>5
  <2>6. \A y \in 1..Terminals : ~Pending(y)'
    <3>1. ~Pending(x)'
      BY <2>2 DEF Pending
    <3>2. ASSUME NEW y \in (1..Terminals) \ {x} PROVE ~Pending(y)'
      <4>1. InWindow(y) => "servers" \notin Touched(y)
        BY <2>1 DEF Puts
      <4>2. ~Pending(y)
        BY <4>1, PendingIs
      <4>3. sess'[y] = sess[y]
        BY <2>1, PutsRemoves, OthersRemove
      <4>4. QED
        BY <4>2, <4>3 DEF Pending
    <3>3. QED
      BY <3>1, <3>2
  <2>7. /\ DOMAIN more = 1..(Len(servers) + 1) /\ more[Len(servers) + 1] = BuildEntry(r.id)
        /\ \A i \in DOMAIN servers : more[i] = servers[i]
        /\ DOMAIN servers = 1..Len(servers) /\ Len(servers) \in Nat
    <3>1. servers \in Lists /\ r.id \in Ids \ Registered(servers)
      BY <1>1, <1>2, <1>4, <2>5
    <3>2. QED
      BY <2>4, <3>1, Appended, ListShape
  <2>8. Agree(env, more)'
    <3>1. ASSUME NEW i \in DOMAIN more
          PROVE  /\ env.key[more[i].key] # NoSecret
                 /\ env.key[more[i].key] = disk'[more[i].id]
      <4>1. CASE i \in DOMAIN servers
        BY <1>5, <2>6, <2>7, <4>1 DEF Agree
      <4>2. CASE i \notin DOMAIN servers
        <5>1. i = Len(servers) + 1
          BY <2>7, <4>2
        <5>2. more[i].key = r.id /\ more[i].id = r.id
          BY <2>7, <5>1 DEF BuildEntry
        <5>3. QED
          BY <2>5, <5>2
      <4>3. QED
        BY <4>1, <4>2
    <3>2. QED
      BY <2>6, <3>1 DEF Agree
  <2>9. AgreeDisk'
    BY <1>3, <2>2, <2>3, <2>8, AgreeNow
  <2>10. QED
    BY <2>9, AgreeingAlone
<1>9. QED
  BY <1>6, <1>7, <1>8

\* A change of software keeps ids and variables.
LEMMA AgreeingSoftware ==
    ASSUME SettingsAssumption, Typed, Jobs, Windows, NEW x \in 1..Terminals, Acts(x), NEW f,
           Puts(x, f), sess[x].job = "software", ~race', ~torn', ~unseen', Agreeing
    PROVE  Agreeing'
<1> DEFINE r == sess[x]
<1>1. f = "servers" /\ f \in Shared
  BY PutsFile DEF Shared
<1>2. AgreeDisk /\ disk["servers"] = r.seen /\ disk'["servers"] = NewOf(r, "servers")
      /\ disk'["env"] = disk["env"]
  <2>1. ~Busy(x)
    BY DEF Busy, Removing
  <2>2. "env" \in Files
    BY DEF Files
  <2>3. QED
    BY <1>1, <2>1, <2>2, AgreeingAlone DEF Puts
<1>3. PICK env : env = disk["env"]
  OBVIOUS
<1>4. PICK servers : servers = disk["servers"]
  OBVIOUS
<1>5. PICK new : new = disk'["servers"]
  OBVIOUS
<1>6. Agree(env, servers)'
  BY <1>2, <1>3, <1>4, AgreeStill, DiskTyped DEF AgreeDisk
<1>7. \A i \in DOMAIN new : i \in DOMAIN servers /\ new[i].id = servers[i].id
                            /\ new[i].key = servers[i].key
  <2>1. SoftwareOK(r)
    BY JobNow DEF Puts
  <2>2. DOMAIN NewOf(r, "servers") = DOMAIN r.seen
        /\ \A i \in DOMAIN NewOf(r, "servers") :
              /\ NewOf(r, "servers")[i].id = r.seen[i].id
              /\ NewOf(r, "servers")[i].key = r.seen[i].key
    BY <2>1 DEF SoftwareOK
  <2>3. QED
    BY <1>2, <1>4, <1>5, <2>2
<1>8. Agree(env, new)'
  <2>1. \A i \in DOMAIN new : \E k \in DOMAIN servers :
           servers[k].id = new[i].id /\ env.key[new[i].key] = env.key[servers[k].key]
    BY <1>7
  <2>2. QED
    BY <1>6, <2>1, AgreeFewer
<1>9. AgreeDisk'
  BY <1>2, <1>3, <1>5, <1>8, AgreeNow
<1>10. QED
  BY <1>1, <1>9, AgreeingAlone

\* A removal ends with files that agree, or goes back to those it read.
LEMMA AgreeingRemove ==
    ASSUME SettingsAssumption, Typed, Jobs, Recalled, Windows, NEW x \in 1..Terminals,
           Acts(x), NEW f, Puts(x, f) \/ PutsBack(x, f), sess[x].job = "remove",
           ~race', ~torn', ~unseen', Agreeing
    PROVE  Agreeing'
<1> DEFINE r == sess[x]
<1>1. ~race /\ ~torn /\ ~unseen
  BY ActsFiles, ExcusesKept
<1>2. r.pc \in {"write", "undo"} /\ f \in Shared
  BY PutsFile DEF Puts, PutsBack
<1>3. /\ RemoveOK(r) /\ Removing(x) /\ Touched(x) = Shared /\ SessionOK(r)
      /\ disk["servers"] = r.seen /\ Shared \subseteq Files
  BY <1>2, JobNow DEF Puts, PutsBack, Shared, Files
<1>4. AgreeSeen(x)
  BY <1>2, <1>3, AgreeingAlone
<1>5. PICK env : env = OldOf(r, "env")
  OBVIOUS
<1>6. PICK servers : servers = r.seen
  OBVIOUS
<1>7. servers \in Lists /\ Agree(env, servers)
  BY <1>3, <1>4, <1>5, <1>6 DEF AgreeSeen, SessionOK
<1>8. Agree(env, servers)'
  BY <1>3, <1>6, <1>7, AgreeStill
<1>9. CASE Puts(x, f) /\ r.done + 1 # Len(r.plan)
  <2>1. Goes(x, "write", r.done + 1, r.tried, r.left)
    BY <1>9 DEF Puts
  <2>2. r.done + 1 > 0
    BY <1>3 DEF SessionOK, PlanOK
  <2>3. Busy(x)'
    BY <1>3, <2>1, <2>2, GoesOld DEF Busy, Removing
  <2>4. QED
    BY <1>2, <2>3, AgreeingAlone
<1>10. CASE Puts(x, f) /\ r.done + 1 = Len(r.plan)
  <2>1. f = "servers"
    BY <1>3, <1>10 DEF RemoveOK, LastIs, Puts
  <2>2. /\ disk'["servers"] = NewOf(r, "servers") /\ disk'["env"] = NewOf(r, "env")
    <3>1. disk["env"] = NewOf(r, "env")
      BY <1>3, <1>10, <2>1 DEF Puts, Shared
    <3>2. QED
      BY <1>3, <1>10, <2>1, <3>1 DEF Puts, Shared
  <2>3. PICK after : after = disk'["env"]
    OBVIOUS
  <2>4. PICK remaining : remaining = disk'["servers"]
    OBVIOUS
  <2>5. NewOf(r, "servers") \in Lists
    BY <1>3, OldTyped DEF Shared, Holds
  <2>6. \A i \in DOMAIN remaining : \E k \in DOMAIN servers :
           /\ servers[k].id = remaining[i].id
           /\ after.key[remaining[i].key] = env.key[servers[k].key]
    BY <1>3, <1>5, <1>6, <1>7, <2>2, <2>3, <2>4, <2>5, RemovedVariables
  <2>7. Agree(after, remaining)'
    BY <1>8, <2>6, AgreeFewer
  <2>8. AgreeDisk'
    BY <2>3, <2>4, <2>7, AgreeNow
  <2>9. QED
    BY <1>2, <2>8, AgreeingAlone
<1>11. CASE PutsBack(x, f) /\ r.done > 1
  <2>1. Goes(x, "undo", r.done - 1, r.tried, r.left)
    BY <1>11 DEF PutsBack
  <2>2. r.done - 1 > 0
    BY <1>3, <1>11 DEF SessionOK, PlanOK
  <2>3. Busy(x)'
    BY <1>3, <2>1, <2>2, GoesOld DEF Busy, Removing
  <2>4. QED
    BY <1>2, <2>3, AgreeingAlone
<1>12. CASE PutsBack(x, f) /\ ~(r.done > 1)
  <2>1. r.done = 1 /\ f = r.plan[1].file /\ r.pc = "undo"
    BY <1>3, <1>12 DEF PutsBack, SessionOK, PlanOK
  <2>2. disk'["env"] = OldOf(r, "env")
    <3>1. CASE f = "env"
      BY <1>12, <3>1 DEF PutsBack
    <3>2. CASE f # "env"
      <4>1. "env" \in Touched(x) /\ WindowOK(r)
        BY <1>1, <1>3 DEF Shared, Windows
      <4>2. disk["env"] = OldOf(r, "env")
        BY <1>1, <2>1, <3>2, <4>1, UndoKnows
      <4>3. QED
        BY <1>3, <1>12, <3>2, <4>2 DEF PutsBack, Shared
    <3>3. QED
      BY <3>1, <3>2
  <2>3. disk'["servers"] = r.seen
    BY <1>3, <1>12 DEF PutsBack, Shared
  <2>4. AgreeDisk'
    BY <1>5, <1>6, <1>8, <2>2, <2>3, AgreeNow
  <2>5. QED
    BY <1>2, <2>4, AgreeingAlone
<1>13. QED
  BY <1>9, <1>10, <1>11, <1>12

LEMMA AgreeingPuts ==
    ASSUME SettingsAssumption, Typed, Jobs, Recalled, Windows, NEW x \in 1..Terminals,
           Acts(x), NEW f, Puts(x, f) \/ PutsBack(x, f),
           ~race', ~torn', ~unseen', Agreeing
    PROVE  Agreeing'
<1>1. sess[x].job \in {"add", "software", "remove", "users"}
  BY PutsFile
<1>2. CASE sess[x].job = "remove"
  BY <1>2, AgreeingRemove
<1>3. CASE sess[x].job = "software"
  BY <1>3, AgreeingSoftware DEF PutsBack
<1>4. CASE sess[x].job = "add" /\ f \in Shared
  BY <1>4, AgreeingAdd
<1>5. CASE sess[x].job = "users" \/ (sess[x].job = "add" /\ f \notin Shared)
  <2>1. f \notin {"env", "servers"}
    BY <1>5, PutsFile DEF Shared
  <2>2. disk'["env"] = disk["env"] /\ disk'["servers"] = disk["servers"]
    BY <2>1 DEF Puts, PutsBack, Files
  <2>3. Remains(x)
    BY <1>5, PutsRemoves DEF Remains, Busy, Removing
  <2>4. QED
    BY <2>2, <2>3, AgreeingQuiet
<1>6. QED
  BY <1>1, <1>2, <1>3, <1>4, <1>5

\* The files still agree.
LEMMA AgreeingKept ==
    ASSUME SettingsAssumption, Typed, Jobs, Recalled, Windows, Agreeing,
           NEW x \in 1..Terminals, Acts(x)
    PROVE  Agreeing'
<1>1. (race => race') /\ (torn => torn') /\ (unseen => unseen')
  BY ActsFiles, ExcusesKept
<1>2. CASE race' \/ torn' \/ unseen'
  BY <1>2 DEF Agreeing
<1>3. CASE ~race' /\ ~torn' /\ ~unseen'
  <2>1. CASE Calm(x)
    BY <1>3, <2>1, AgreeingQuiet DEF Calm, Shared
  <2>2. CASE Enters(x)
    BY <1>3, <2>2, AgreeingEnters
  <2>3. CASE Write(x)
    BY <1>1, <1>3, <2>3, WritePuts, AgreeingPuts
  <2>4. CASE Undo(x)
    BY <1>1, <1>3, <2>4, UndoPutsBack, AgreeingPuts
  <2>5. QED
    BY <2>1, <2>2, <2>3, <2>4, Classes
<1>4. QED
  BY <1>2, <1>3

\* The bot touches neither .env nor the registry.
LEMMA AgreeingBot ==
    ASSUME SettingsAssumption, Typed, BotStart \/ BotSaves, Agreeing,
           sess' = sess, race => race', torn' = torn, unseen => unseen'
    PROVE  Agreeing'
<1>1. disk'["env"] = disk["env"] /\ disk'["servers"] = disk["servers"]
      /\ \A s \in Ids : disk'[s] = disk[s]
  BY BotPuts DEF Files, SettingsAssumption
<1>2. \A y \in 1..Terminals : (Busy(y)' <=> Busy(y)) /\ (Removing(y)' <=> Removing(y))
                              /\ (Pending(y)' <=> Pending(y))
  BY DEF Busy, Removing, Pending
<1>3. ASSUME NEW env, NEW servers \in Lists, Agree(env, servers)
      PROVE  Agree(env, servers)'
  <2>1. \A i \in DOMAIN servers : disk'[servers[i].id] = disk[servers[i].id]
    BY <1>1, ListShape DEF Entries
  <2>2. QED
    BY <1>2, <1>3, <2>1 DEF Agree
<1>4. AgreeDisk => AgreeDisk'
  <2>1. ASSUME AgreeDisk PROVE AgreeDisk'
    <3>1. PICK env : env = disk["env"]
      OBVIOUS
    <3>2. PICK servers : servers = disk["servers"]
      OBVIOUS
    <3>3. Agree(env, servers)'
      BY <1>3, <2>1, <3>1, <3>2, DiskTyped DEF AgreeDisk
    <3>4. QED
      BY <1>1, <3>1, <3>2, <3>3, AgreeNow
  <2>2. QED
    BY <2>1
<1>5. ASSUME NEW z \in 1..Terminals, AgreeSeen(z) PROVE AgreeSeen(z)'
  <2>1. PICK env : env = OldOf(sess[z], "env")
    OBVIOUS
  <2>2. PICK servers : servers = sess[z].seen
    OBVIOUS
  <2>3. servers \in Lists
    BY <2>2 DEF Typed, SessionOK
  <2>4. Agree(env, servers)'
    BY <1>3, <1>5, <2>1, <2>2, <2>3 DEF AgreeSeen
  <2>5. QED
    BY <2>1, <2>2, <2>4, AgreeThen
<1>6. QED
  BY <1>2, <1>4, <1>5 DEF Agreeing

-----------------------------------------------------------------------------
(* Rights are those that were decided.                                       *)

\* Rights after a step, by value.
LEMMA GivenNow ==
    ASSUME NEW env, NEW users, NEW servers, Given(env, users, servers)',
           env = disk'["env"], users = disk'["users"], servers = disk'["servers"]
    PROVE  GivenDisk'
  BY DEF Given, GivenDisk

\* Only the registered ids and the default of .env count.
LEMMA GivenStill ==
    ASSUME NEW env, NEW users, NEW servers, NEW after, NEW more, Given(env, users, servers),
           DefaultId(after) = DefaultId(env), Registered(more) \subseteq Registered(servers),
           granted' = granted
    PROVE  Given(after, users, more)'
  BY DEF Given

\* What a removal has read gives no more rights than before.
LEMMA GivenSeenKept ==
    ASSUME NEW y, GivenSeen(y), granted' = granted,
           sess'[y].seen = sess[y].seen, \A f : OldOf(sess'[y], f) = OldOf(sess[y], f)
    PROVE  GivenSeen(y)'
  BY DEF GivenSeen, Given

\* A step that leaves .env, the policies and the registry as they are.
LEMMA GrantingQuiet ==
    ASSUME Typed, NEW x \in 1..Terminals, Acts(x), SettingsAssumption, Jobs,
           Remains(x), ~race', ~torn', ~unseen', granted' = granted,
           disk'["env"] = disk["env"], disk'["users"] = disk["users"],
           disk'["servers"] = disk["servers"], Granting
    PROVE  Granting'
<1>1. ~race /\ ~torn /\ ~unseen
  BY ActsFiles, ExcusesKept
<1>2. \A y \in 1..Terminals : Busy(y) => Busy(y)'
  BY OthersRemove DEF Remains
<1>3. (\E y \in 1..Terminals : Busy(y)') \/ GivenDisk'
  <2>1. GivenDisk => GivenDisk'
    BY DEF GivenDisk, Given
  <2>2. QED
    BY <1>1, <1>2, <2>1 DEF Granting
<1>4. ASSUME NEW z \in 1..Terminals, Removing(z)'
      PROVE  (\E y \in (1..Terminals) \ {z} : Busy(y)') \/ GivenSeen(z)'
  <2>1. /\ Removing(z) /\ sess'[z].seen = sess[z].seen
        /\ \A f : OldOf(sess'[z], f) = OldOf(sess[z], f)
    <3>1. CASE z = x
      BY <1>4, <3>1 DEF Remains
    <3>2. CASE z # x
      BY <1>4, <3>2, OthersRemove DEF Remains
    <3>3. QED
      BY <3>1, <3>2
  <2>2. (\E y \in (1..Terminals) \ {z} : Busy(y)) \/ GivenSeen(z)
    BY <1>1, <2>1 DEF Granting
  <2>3. GivenSeen(z) => GivenSeen(z)'
    BY <2>1, GivenSeenKept
  <2>4. QED
    BY <1>2, <2>2, <2>3
<1>5. QED
  BY <1>3, <1>4 DEF Granting

\* A removal that enters its window has read rights that were decided.
LEMMA GrantingEnters ==
    ASSUME SettingsAssumption, Typed, Jobs, NEW x \in 1..Terminals, Acts(x),
           Enters(x), ~race', ~torn', ~unseen', Granting
    PROVE  Granting'
<1>1. ~race /\ ~torn /\ ~unseen /\ disk' = disk /\ granted' = granted /\ Moves(x)
  BY ActsFiles, ExcusesKept, GoesOld DEF Enters
<1>2. ~Busy(x)
  BY DEF Enters, Busy, Removing
<1>3. \A y \in 1..Terminals : Busy(y) => Busy(y)' /\ y # x
  BY <1>1, <1>2, OthersRemove
<1>4. GivenDisk => GivenDisk'
  BY <1>1 DEF GivenDisk, Given
<1>5. (\E y \in 1..Terminals : Busy(y)') \/ GivenDisk'
  BY <1>1, <1>3, <1>4 DEF Granting
<1>6. ASSUME NEW z \in 1..Terminals, Removing(z)'
      PROVE  (\E y \in (1..Terminals) \ {z} : Busy(y)') \/ GivenSeen(z)'
  <2>1. CASE z = x
    <3>1. /\ sess[x].job = "remove" /\ sess'[x].seen = sess[x].seen
          /\ OldOf(sess'[x], "env") = OldOf(sess[x], "env")
          /\ OldOf(sess'[x], "users") = OldOf(sess[x], "users")
      BY <1>6, <2>1, GoesOld DEF Enters, Removing
    <3>2. /\ OldOf(sess[x], "env") = disk["env"] /\ sess[x].seen = disk["servers"]
          /\ OldOf(sess[x], "users") = disk["users"]
      BY <3>1, RemovalEnters DEF Shared
    <3>3. GivenDisk' => GivenSeen(x)'
      <4>1. /\ OldOf(sess'[x], "env") = disk'["env"] /\ sess'[x].seen = disk'["servers"]
            /\ OldOf(sess'[x], "users") = disk'["users"]
        BY <1>1, <3>1, <3>2
      <4>2. QED
        BY <4>1 DEF GivenDisk, GivenSeen, Given
    <3>4. QED
      BY <1>1, <1>3, <1>4, <2>1, <3>3 DEF Granting
  <2>2. CASE z # x
    <3>1. Removing(z) /\ sess'[z] = sess[z]
      BY <1>1, <1>6, <2>2, OthersRemove
    <3>2. (\E y \in (1..Terminals) \ {z} : Busy(y)) \/ GivenSeen(z)
      BY <1>1, <3>1 DEF Granting
    <3>3. GivenSeen(z) => GivenSeen(z)'
      BY <1>1, <3>1, GivenSeenKept
    <3>4. QED
      BY <1>3, <3>2, <3>3
  <2>3. QED
    BY <2>1, <2>2
<1>7. QED
  BY <1>5, <1>6 DEF Granting

\* One writes a file of the bot: nobody else removes a server.
LEMMA GrantingAlone ==
    ASSUME SettingsAssumption, Typed, Jobs, NEW x \in 1..Terminals, Acts(x), NEW f,
           Puts(x, f) \/ PutsBack(x, f), f \in Shared, ~race', ~torn', ~unseen', Granting
    PROVE  /\ Removing(x) => GivenSeen(x)
           /\ ~Busy(x) => GivenDisk
           /\ Busy(x)' \/ GivenDisk' => Granting'
<1>1. ~race /\ ~torn /\ ~unseen
  BY ActsFiles, ExcusesKept
<1>2. \A z \in (1..Terminals) \ {x} : ~Removing(z) /\ ~Removing(z)' /\ ~Busy(z)
  BY PutsAlone, PutsRemoves, OthersRemove DEF Busy
<1>3. (Removing(x) => GivenSeen(x)) /\ (~Busy(x) => GivenDisk)
  BY <1>1, <1>2 DEF Granting
<1>4. Removing(x)' => GivenSeen(x)'
  <2>1. Removing(x)' => granted' = granted
    <3>1. CASE PutsBack(x, f)
      BY <3>1 DEF PutsBack
    <3>2. CASE Puts(x, f)
      BY <3>2 DEF Puts, Removing
    <3>3. QED
      BY <3>1, <3>2
  <2>2. QED
    BY <1>3, <2>1, PutsRemoves, GivenSeenKept
<1>5. Busy(x)' \/ GivenDisk' => Granting'
  BY <1>2, <1>4 DEF Granting
<1>6. QED
  BY <1>3, <1>5

\* Nobody has a right on a server that is added, or on its default.
LEMMA GrantingAdd ==
    ASSUME SettingsAssumption, Typed, Jobs, Starting, Forgetting,
           NEW x \in 1..Terminals, Acts(x), NEW f, Puts(x, f) \/ PutsBack(x, f),
           f \in Shared, sess[x].job = "add", ~race', ~torn', ~unseen', Granting
    PROVE  Granting'
<1> DEFINE r == sess[x]
<1>1. r.pc \in {"write", "undo"} /\ disk["servers"] = r.seen /\ ~race /\ ~unseen
  BY ActsFiles, ExcusesKept DEF Puts, PutsBack
<1>2. GivenDisk
  <2>1. ~Busy(x)
    BY DEF Busy, Removing
  <2>2. QED
    BY <2>1, GrantingAlone
<1>3. AddOK(r) /\ Fresh(r) /\ r.ask = NoAsk
  BY <1>1, JobNow DEF AddOK
<1>4. granted' = granted
  BY <1>3 DEF Puts, PutsBack, NoAsk
<1>5. f \in {"env", "servers"} /\ Shared \subseteq Files
  BY PutsFile DEF Shared, Files
<1>6. disk'["users"] = disk["users"]
  BY <1>5 DEF Puts, PutsBack, Shared
<1>7. CASE f = "env"
  <2>1. NewOf(r, "env").default = OldOf(r, "env").default
    BY <1>1, AddedVariable
  <2>2. disk'["servers"] = disk["servers"]
        /\ disk'["env"].default = disk["env"].default
    BY <1>5, <1>7, <2>1 DEF Puts, PutsBack, Shared
  <2>3. DefaultId(disk'["env"]) = DefaultId(disk["env"])
    BY <2>2 DEF DefaultId
  <2>4. GivenDisk'
    BY <1>2, <1>4, <1>6, <2>2, <2>3 DEF GivenDisk, Given
  <2>5. QED
    BY <2>4, GrantingAlone
<1>8. CASE f = "servers"
  <2>1. Puts(x, "servers") /\ disk'["env"] = disk["env"]
    BY <1>5, <1>8 DEF Puts, PutsBack, Shared
  <2>2. Registered(disk'["servers"]) = Registered(disk["servers"]) \cup {r.id}
        /\ r.id \notin Registered(disk["servers"])
    BY <1>1, <2>1, RegistryPut DEF Fresh
  <2>3. DefaultId(disk["env"]) # r.id /\ \A u \in Users : r.id \notin disk["users"][u].on
    BY <1>1, <2>2 DEF Starting, Starts, Forgetting, Speaks
  <2>4. ASSUME NEW u \in Users, NEW s \in Registered(disk'["servers"]),
               PermissionsForServer(disk'["users"][u], DefaultId(disk'["env"]), s)
        PROVE  <<u, s>> \in granted'
    <3>1. PermissionsForServer(disk["users"][u], DefaultId(disk["env"]), s)
      BY <1>6, <2>1, <2>4
    <3>2. s # r.id
      BY <2>3, <3>1 DEF PermissionsForServer
    <3>3. QED
      BY <1>2, <1>4, <2>2, <3>1, <3>2 DEF GivenDisk, Given
  <2>5. GivenDisk'
    BY <2>4 DEF GivenDisk, Given
  <2>6. QED
    BY <2>5, GrantingAlone
<1>9. QED
  BY <1>5, <1>7, <1>8

\* A change of software concerns no right.
LEMMA GrantingSoftware ==
    ASSUME SettingsAssumption, Typed, Jobs, NEW x \in 1..Terminals, Acts(x), NEW f,
           Puts(x, f), sess[x].job = "software", ~race', ~torn', ~unseen', Granting
    PROVE  Granting'
<1> DEFINE r == sess[x]
<1>1. f = "servers" /\ f \in Shared /\ Shared \subseteq Files
  BY PutsFile DEF Shared, Files
<1>2. GivenDisk
  <2>1. ~Busy(x)
    BY DEF Busy, Removing
  <2>2. QED
    BY <1>1, <2>1, GrantingAlone
<1>3. r.ask = NoAsk
  BY JobNow DEF Puts, SoftwareOK
<1>4. granted' = granted /\ disk'["env"] = disk["env"] /\ disk'["users"] = disk["users"]
  BY <1>1, <1>3 DEF Puts, NoAsk, Shared
<1>5. Registered(disk'["servers"]) = Registered(disk["servers"])
  BY <1>1, RegistryPut
<1>6. GivenDisk'
  BY <1>2, <1>4, <1>5 DEF GivenDisk, Given
<1>7. QED
  BY <1>1, <1>6, GrantingAlone

\* What a removal leaves of the rights it read.
LEMMA RemovalGives ==
    ASSUME SettingsAssumption, NEW r, RemoveOK(r), r.seen \in Lists,
           OldOf(r, "users") \in People, r.default = DefaultId(OldOf(r, "env")),
           Given(OldOf(r, "env"), OldOf(r, "users"), r.seen),
           granted' = granted \ (Users \X {r.id}),
           NEW env, NEW users, NEW servers,
           env = NewOf(r, "env"), users = NewOf(r, "users"), servers = NewOf(r, "servers")
    PROVE  Given(env, users, servers)'
<1>1. PICK moved \in BOOLEAN :
        /\ ~moved => DefaultId(env) = DefaultId(OldOf(r, "env"))
        /\ users = [u \in Users |-> RemoveServerPermissions(OldOf(r, "users")[u], r.id, moved)]
  BY RemovalDefault
<1>2. Registered(servers) = Registered(r.seen) \ {r.id}
  BY RemovalDefault
<1>3. ASSUME NEW u \in Users, NEW s \in Registered(servers),
             PermissionsForServer(users[u], DefaultId(env), s)
      PROVE  <<u, s>> \in granted'
  <2> DEFINE old == OldOf(r, "users")[u]
  <2>1. old \in [legacy : BOOLEAN, on : SUBSET Ids]
    BY DEF People
  <2>2. users[u] = RemoveServerPermissions(old, r.id, moved)
    BY <1>1
  <2>3. s # r.id /\ s \in Registered(r.seen)
    BY <1>2
  <2> HIDE DEF old
  <2>4. /\ users[u].on \subseteq old.on \ {r.id}
        /\ users[u].legacy => old.legacy /\ ~moved
        /\ ~users[u].legacy => ~old.legacy \/ users[u].on = {}
    BY <2>1, <2>2, PermissionsRemoved
  <2>5. PermissionsForServer(old, DefaultId(OldOf(r, "env")), s)
    <3>1. CASE users[u].legacy
      BY <1>1, <1>3, <2>4, <3>1 DEF PermissionsForServer
    <3>2. CASE ~users[u].legacy
      BY <1>3, <2>4, <3>2 DEF PermissionsForServer
    <3>3. QED
      BY <3>1, <3>2
  <2>6. <<u, s>> \in granted
    BY <2>3, <2>5 DEF Given, old
  <2>7. <<u, s>> \notin Users \X {r.id}
    BY <2>3
  <2>8. QED
    BY <2>6, <2>7
<1>4. QED
  BY <1>3 DEF Given

\* A removal leaves the rights on other servers, or goes back to those it read.
LEMMA GrantingRemove ==
    ASSUME SettingsAssumption, Typed, Jobs, Recalled, Windows, NEW x \in 1..Terminals,
           Acts(x), NEW f, Puts(x, f) \/ PutsBack(x, f), sess[x].job = "remove",
           ~race', ~torn', ~unseen', Granting
    PROVE  Granting'
<1> DEFINE r == sess[x]
<1>1. ~race /\ ~torn /\ ~unseen
  BY ActsFiles, ExcusesKept
<1>2. r.pc \in {"write", "undo"} /\ f \in Shared
  BY PutsFile DEF Puts, PutsBack
<1>3. /\ RemoveOK(r) /\ Removing(x) /\ Touched(x) = Shared /\ SessionOK(r)
      /\ disk["servers"] = r.seen /\ Shared \subseteq Files
  BY <1>2, JobNow DEF Puts, PutsBack, Shared, Files
<1>4. GivenSeen(x)
  BY <1>2, <1>3, GrantingAlone
<1>5. CASE Puts(x, f) /\ r.done + 1 # Len(r.plan)
  <2>1. Goes(x, "write", r.done + 1, r.tried, r.left)
    BY <1>5 DEF Puts
  <2>2. r.done + 1 > 0
    BY <1>3 DEF SessionOK, PlanOK
  <2>3. Busy(x)'
    BY <1>3, <2>1, <2>2, GoesOld DEF Busy, Removing
  <2>4. QED
    BY <1>2, <2>3, GrantingAlone
<1>6. CASE Puts(x, f) /\ r.done + 1 = Len(r.plan)
  <2>1. f = "servers"
    BY <1>3, <1>6 DEF RemoveOK, LastIs, Puts
  <2>2. /\ disk'["servers"] = NewOf(r, "servers") /\ disk'["env"] = NewOf(r, "env")
        /\ disk'["users"] = NewOf(r, "users")
    <3>1. disk["env"] = NewOf(r, "env") /\ disk["users"] = NewOf(r, "users")
      BY <1>3, <1>6, <2>1 DEF Puts, Shared
    <3>2. QED
      BY <1>3, <1>6, <2>1, <3>1 DEF Puts, Shared
  <2>3. granted' = granted \ (Users \X {r.id})
    BY <1>3, <1>6 DEF RemoveOK, Puts
  <2>4. r.default = DefaultId(OldOf(r, "env"))
    BY <1>1, <1>2, <1>3 DEF Recalled, Recall, Staged, Removing
  <2>5. OldOf(r, "users") \in People /\ r.seen \in Lists
    BY <1>3, OldTyped DEF Shared, Holds, SessionOK
  <2>6. Given(OldOf(r, "env"), OldOf(r, "users"), r.seen)
    BY <1>4 DEF GivenSeen
  <2>7. PICK env : env = disk'["env"]
    OBVIOUS
  <2>8. PICK users : users = disk'["users"]
    OBVIOUS
  <2>9. PICK servers : servers = disk'["servers"]
    OBVIOUS
  <2>10. env = NewOf(r, "env") /\ users = NewOf(r, "users") /\ servers = NewOf(r, "servers")
    BY <2>2, <2>7, <2>8, <2>9
  <2>11. RemoveOK(r)
    BY <1>3
  <2> HIDE DEF r
  <2>12. Given(env, users, servers)'
    BY <2>3, <2>4, <2>5, <2>6, <2>10, <2>11, RemovalGives
  <2>13. GivenDisk'
    BY <2>7, <2>8, <2>9, <2>12, GivenNow
  <2>14. QED
    BY <1>2, <2>13, GrantingAlone
<1>7. CASE PutsBack(x, f) /\ r.done > 1
  <2>1. Goes(x, "undo", r.done - 1, r.tried, r.left)
    BY <1>7 DEF PutsBack
  <2>2. r.done - 1 > 0
    BY <1>3, <1>7 DEF SessionOK, PlanOK
  <2>3. Busy(x)'
    BY <1>3, <2>1, <2>2, GoesOld DEF Busy, Removing
  <2>4. QED
    BY <1>2, <2>3, GrantingAlone
<1>8. CASE PutsBack(x, f) /\ ~(r.done > 1)
  <2>1. r.done = 1 /\ f = r.plan[1].file /\ r.pc = "undo"
    BY <1>3, <1>8 DEF PutsBack, SessionOK, PlanOK
  <2>2. WindowOK(r)
    BY <1>1 DEF Windows
  <2>3. ASSUME NEW g \in Shared PROVE disk'[g] = OldOf(r, g)
    <3>1. CASE g = f
      BY <1>8, <3>1 DEF PutsBack
    <3>2. CASE g # f
      <4>1. disk[g] = OldOf(r, g)
        BY <1>1, <1>3, <2>1, <2>2, <3>2, UndoKnows
      <4>2. QED
        BY <1>3, <1>8, <3>2, <4>1 DEF PutsBack
    <3>3. QED
      BY <3>1, <3>2
  <2>4. disk'["servers"] = r.seen /\ granted' = granted
    BY <1>3, <1>8 DEF PutsBack, Shared
  <2>5. GivenDisk'
    BY <1>4, <2>3, <2>4 DEF GivenDisk, GivenSeen, Given, Shared
  <2>6. QED
    BY <1>2, <2>5, GrantingAlone
<1>9. QED
  BY <1>5, <1>6, <1>7, <1>8

\* The editor decides on rights, by the default the bot uses too.
LEMMA GrantingUsers ==
    ASSUME SettingsAssumption, "nodefault" \notin Faults, Typed, Jobs, Recalled, Windows,
           NEW x \in 1..Terminals, Acts(x), NEW f, Puts(x, f) \/ PutsBack(x, f),
           sess[x].job = "users", ~race', ~torn', ~unseen', Granting
    PROVE  Granting'
<1> DEFINE r == sess[x]
           before == OldOf(r, "users")
           after == NewOf(r, "users")
<1>1. ~race /\ ~torn /\ ~unseen
  BY ActsFiles, ExcusesKept
<1>2. f = "users" /\ f \in Shared /\ Shared \subseteq Files /\ r.done + 1 = Len(r.plan)
      /\ Puts(x, f)
  BY PutsFile DEF Shared, Files, PutsBack
<1>3. /\ UsersOK(r) /\ SessionOK(r) /\ r.pc = "write"
      /\ Touched(x) = {"users", "env", "servers"}
  BY <1>2, JobNow DEF Puts
<1>4. GivenDisk
  <2>1. ~Busy(x)
    BY DEF Busy, Removing
  <2>2. QED
    BY <1>2, <2>1, GrantingAlone
<1>5. Decided(r)
  BY <1>1, <1>3 DEF Recalled, Recall, Staged
<1>6. disk["env"] = OldOf(r, "env")
  <2>1. r.plan[1].file = "users" /\ Len(r.plan) = 1
    BY <1>3 DEF UsersOK, LastIs
  <2>2. PICK i \in 1..Len(r.reads) :
          r.reads[i].file = "env" /\ OldOf(r, "env") = r.reads[i].old
    <3>1. "env" \in Touched(x)
      BY <1>3
    <3>2. \A i \in 1..Len(r.plan) : r.plan[i].file # "env"
      BY <2>1
    <3>3. QED
      BY <3>1, <3>2, TouchedIs
  <2>3. WindowOK(r)
    BY <1>1 DEF Windows
  <2>4. disk[r.reads[i].file] = r.reads[i].old
    BY <1>1, <1>3, <2>3 DEF WindowOK
  <2>5. QED
    BY <2>2, <2>4
<1>7. DefaultId(disk["env"]) = r.default
  <2>1. disk["env"].default \in Ids
    BY DiskTyped DEF Envs
  <2>2. disk["env"].default # NoId
    BY <2>1 DEF SettingsAssumption
  <2>3. QED
    BY <1>3, <1>6, <2>2 DEF UsersOK, EditorDefault, DefaultId
<1>8. /\ disk["users"] = before /\ disk'["users"] = after
      /\ disk'["env"] = disk["env"] /\ disk'["servers"] = disk["servers"]
      /\ disk["servers"] = r.seen
  BY <1>2 DEF Puts, Shared
<1>9. granted' = IF r.ask.give THEN granted \cup r.ask.pairs ELSE granted \ r.ask.pairs
  BY <1>2 DEF Puts
<1>10. Registered(r.seen) \subseteq Ids
  BY <1>3, ListShape DEF SessionOK
<1> HIDE DEF before, after
<1>11. ASSUME NEW u \in Users, NEW s \in Registered(r.seen),
              PermissionsForServer(after[u], r.default, s)
       PROVE  <<u, s>> \in granted'
  <2>1. s \in Ids
    BY <1>10
  <2>2. \/ PermissionsForServer(before[u], r.default, s)
        \/ r.ask.give /\ <<u, s>> \in r.ask.pairs
    BY <1>5, <1>11, <2>1 DEF Decided, before, after
  <2>3. PermissionsForServer(before[u], r.default, s) => <<u, s>> \in granted
    BY <1>4, <1>7, <1>8 DEF GivenDisk, Given
  <2>4. ~r.ask.give => <<u, s>> \notin r.ask.pairs
    BY <1>3, <1>11, <2>1 DEF UsersOK, after
  <2>5. QED
    BY <1>9, <2>2, <2>3, <2>4
<1>12. GivenDisk'
  BY <1>7, <1>8, <1>11 DEF GivenDisk, Given
<1>13. QED
  BY <1>2, <1>12, GrantingAlone

LEMMA GrantingPuts ==
    ASSUME SettingsAssumption, "nodefault" \notin Faults, Typed, Jobs, Recalled, Windows,
           Starting, Forgetting, NEW x \in 1..Terminals, Acts(x), NEW f,
           Puts(x, f) \/ PutsBack(x, f), ~race', ~torn', ~unseen', Granting
    PROVE  Granting'
<1>1. sess[x].job \in {"add", "software", "remove", "users"}
  BY PutsFile
<1>2. CASE sess[x].job = "remove"
  BY <1>2, GrantingRemove
<1>3. CASE sess[x].job = "software"
  BY <1>3, GrantingSoftware DEF PutsBack
<1>4. CASE sess[x].job = "users"
  BY <1>4, GrantingUsers
<1>5. CASE sess[x].job = "add" /\ f \in Shared
  BY <1>5, GrantingAdd
<1>6. CASE sess[x].job = "add" /\ f \notin Shared
  <2>1. /\ disk'["env"] = disk["env"] /\ disk'["servers"] = disk["servers"]
        /\ disk'["users"] = disk["users"]
    BY <1>6 DEF Puts, PutsBack, Files, Shared
  <2>2. Remains(x)
    BY <1>6, PutsRemoves DEF Remains, Busy, Removing
  <2>3. sess[x].ask = NoAsk
    BY <1>6, JobNow DEF Puts, PutsBack, AddOK
  <2>4. granted' = granted
    BY <2>3 DEF Puts, PutsBack, NoAsk
  <2>5. QED
    BY <2>1, <2>2, <2>4, GrantingQuiet
<1>7. QED
  BY <1>1, <1>2, <1>3, <1>4, <1>5, <1>6

\* Rights are still those that were decided.
LEMMA GrantingKept ==
    ASSUME SettingsAssumption, "nodefault" \notin Faults, Typed, Jobs, Recalled, Windows,
           Starting, Forgetting, Granting, NEW x \in 1..Terminals, Acts(x)
    PROVE  Granting'
<1>1. (race => race') /\ (torn => torn') /\ (unseen => unseen')
  BY ActsFiles, ExcusesKept
<1>2. CASE race' \/ torn' \/ unseen'
  BY <1>2 DEF Granting
<1>3. CASE ~race' /\ ~torn' /\ ~unseen'
  <2>1. CASE Calm(x)
    BY <1>3, <2>1, GrantingQuiet DEF Calm, Shared
  <2>2. CASE Enters(x)
    BY <1>3, <2>2, GrantingEnters
  <2>3. CASE Write(x)
    BY <1>1, <1>3, <2>3, WritePuts, GrantingPuts
  <2>4. CASE Undo(x)
    BY <1>1, <1>3, <2>4, UndoPutsBack, GrantingPuts
  <2>5. QED
    BY <2>1, <2>2, <2>3, <2>4, Classes
<1>4. QED
  BY <1>2, <1>3

\* The bot touches no right.
LEMMA GrantingBot ==
    ASSUME SettingsAssumption, Typed, BotStart \/ BotSaves, Granting,
           sess' = sess, granted' = granted, race => race', torn' = torn, unseen => unseen'
    PROVE  Granting'
<1>1. /\ disk'["env"] = disk["env"] /\ disk'["servers"] = disk["servers"]
      /\ disk'["users"] = disk["users"]
  BY BotPuts DEF Files
<1>2. GivenDisk => GivenDisk'
  BY <1>1 DEF GivenDisk, Given
<1>3. ASSUME NEW z \in 1..Terminals, GivenSeen(z) PROVE GivenSeen(z)'
  BY <1>3, GivenSeenKept
<1>4. QED
  BY <1>2, <1>3 DEF Granting, Busy, Removing

-----------------------------------------------------------------------------
(* The configuration that works.                                             *)

Works(a, key, secret, legacy) ==
    /\ disk = [f \in Files |-> disk[f]] /\ key \in {a, ServerId}
    /\ disk["env"].default = IF "nodefault" \in Faults THEN NoId ELSE a
    /\ disk["env"] = [default |-> disk["env"].default,
                      key |-> [k \in Ids |-> IF k \in {a, key} THEN secret ELSE NoSecret]]
    /\ disk["users"] = [u \in Users |-> [legacy |-> legacy,
                                         on |-> IF legacy THEN {} ELSE {a, ServerId}]]
    /\ disk["servers"] = <<[id |-> a, key |-> a, mods |-> TRUE],
                           [id |-> ServerId, key |-> key, mods |-> TRUE]>>
    /\ disk["tasks"] = {a, ServerId}
    /\ \A s \in Ids : disk[s] = IF s \in {a, ServerId} THEN secret ELSE NoSecret

LEMMA InitFiles ==
    ASSUME SettingsAssumption, Init
    PROVE  \E a \in Ids \ {ServerId}, key \in Ids, secret \in Secrets, legacy \in BOOLEAN :
              Works(a, key, secret, legacy)
<1>1. PICK a \in Ids \ (Remote \cup {ServerId}), secret \in Secrets,
          legacy \in BOOLEAN, shared \in BOOLEAN :
        LET reg == {a, ServerId}
            key == IF shared THEN a ELSE ServerId
            env == [default |-> IF "nodefault" \in Faults THEN NoId ELSE a,
                    key |-> [k \in Ids |-> IF k \in {a, key} THEN secret ELSE NoSecret]] IN
        disk = [f \in Files |->
             CASE f = "env" -> env
               [] f = "users" -> [u \in Users |->
                                    [legacy |-> legacy, on |-> IF legacy THEN {} ELSE reg]]
               [] f = "servers" -> <<[id |-> a, key |-> a, mods |-> TRUE],
                                     [id |-> ServerId, key |-> key, mods |-> TRUE]>>
               [] f = "tasks" -> reg
               [] OTHER -> IF f \in reg THEN secret ELSE NoSecret]
  BY DEF Init
<1> DEFINE reg == {a, ServerId}
           key == IF shared THEN a ELSE ServerId
           default == IF "nodefault" \in Faults THEN NoId ELSE a
           keys == [k \in Ids |-> IF k \in {a, key} THEN secret ELSE NoSecret]
           env == [default |-> default, key |-> keys]
           users == [u \in Users |-> [legacy |-> legacy, on |-> IF legacy THEN {} ELSE reg]]
           servers == <<[id |-> a, key |-> a, mods |-> TRUE],
                        [id |-> ServerId, key |-> key, mods |-> TRUE]>>
<1>2. disk = [f \in Files |->
             CASE f = "env" -> env
               [] f = "users" -> users
               [] f = "servers" -> servers
               [] f = "tasks" -> reg
               [] OTHER -> IF f \in reg THEN secret ELSE NoSecret]
  BY <1>1
<1>3. a \in Ids \ {ServerId} /\ key \in Ids /\ key \in {a, ServerId}
  BY DEF SettingsAssumption
<1>4. env.default = default
  OBVIOUS
<1> HIDE DEF reg, keys, users, servers, default
<1>5. env = [default |-> env.default, key |-> keys]
  OBVIOUS
<1> HIDE DEF env
<1>6. /\ disk["env"] = env /\ disk["users"] = users /\ disk["servers"] = servers
      /\ disk["tasks"] = reg /\ disk = [f \in Files |-> disk[f]]
  BY <1>2 DEF Files
<1>7. \A s \in Ids : disk[s] = IF s \in reg THEN secret ELSE NoSecret
  <2>1. \A s \in Ids : s \in Files /\ s # "env" /\ s # "users" /\ s # "tasks" /\ s # "servers"
    BY DEF SettingsAssumption, Files
  <2>2. QED
    BY <1>2, <2>1
<1>8. Works(a, key, secret, legacy)
  BY <1>3, <1>4, <1>5, <1>6, <1>7 DEF Works, reg, keys, users, servers, default
<1>9. QED
  BY <1>3, <1>8

\* Every terminal is free at first.
LEMMA InitSessions ==
    ASSUME Init
    PROVE  /\ sess = [x \in 1..Terminals |-> sess[x]]
           /\ \A x \in 1..Terminals : sess[x] = Idle /\ sess[x].pc = "idle"
           /\ \A x \in 1..Terminals : ~Removing(x) /\ ~Busy(x) /\ ~Pending(x)
<1>1. sess = [x \in 1..Terminals |-> Idle]
  BY DEF Init
<1>2. \A x \in 1..Terminals : sess[x] = Idle /\ sess[x].pc = "idle"
  BY <1>1 DEF Idle
<1>3. QED
  BY <1>1, <1>2 DEF Removing, Busy, Pending

\* Types, plans, memories and windows, at first.
LEMMA InitTyped ==
    ASSUME SettingsAssumption, Init
    PROVE  Typed /\ Jobs /\ Recalled /\ Windows
<1>0. PICK a \in Ids \ {ServerId}, key \in Ids, secret \in Secrets, legacy \in BOOLEAN :
        Works(a, key, secret, legacy)
  BY InitFiles
<1>1. /\ disk = [f \in Files |-> disk[f]] /\ key \in {a, ServerId}
      /\ disk["env"].default = IF "nodefault" \in Faults THEN NoId ELSE a
      /\ disk["env"] = [default |-> disk["env"].default,
                        key |-> [k \in Ids |-> IF k \in {a, key} THEN secret ELSE NoSecret]]
      /\ disk["users"] = [u \in Users |-> [legacy |-> legacy,
                                           on |-> IF legacy THEN {} ELSE {a, ServerId}]]
      /\ disk["servers"] = <<[id |-> a, key |-> a, mods |-> TRUE],
                             [id |-> ServerId, key |-> key, mods |-> TRUE]>>
      /\ disk["tasks"] = {a, ServerId}
      /\ \A s \in Ids : disk[s] = IF s \in {a, ServerId} THEN secret ELSE NoSecret
  BY <1>0 DEF Works
<1>2. ServerId \in Ids
  BY DEF SettingsAssumption
<1>3. disk["env"] \in Envs
  <2> DEFINE default == disk["env"].default
             keys == [k \in Ids |-> IF k \in {a, key} THEN secret ELSE NoSecret]
  <2>1. default \in (IF "nodefault" \in Faults THEN Ids \cup {NoId} ELSE Ids)
    BY <1>1
  <2>2. keys \in [Ids -> Secrets \cup {NoSecret}]
    OBVIOUS
  <2>3. disk["env"] = [default |-> default, key |-> keys]
    BY <1>1
  <2> HIDE DEF default, keys
  <2>4. QED
    BY <2>1, <2>2, <2>3 DEF Envs
<1>4. disk["users"] \in People
  BY <1>1, <1>2 DEF People
<1>5. disk["servers"] \in Lists
  <2> DEFINE servers == <<[id |-> a, key |-> a, mods |-> TRUE],
                          [id |-> ServerId, key |-> key, mods |-> TRUE]>>
  <2>1. servers \in Seq(Entries)
    BY <1>2 DEF Entries
  <2>2. DOMAIN servers = 1..2 /\ servers[1].id = a /\ servers[2].id = ServerId
    OBVIOUS
  <2> HIDE DEF servers
  <2>3. \A i, j \in DOMAIN servers : servers[i].id = servers[j].id => i = j
    <3>1. a # ServerId
      OBVIOUS
    <3>2. \A i \in DOMAIN servers : i = 1 \/ i = 2
      BY <2>2
    <3>3. QED
      BY <2>2, <3>1, <3>2
  <2>4. servers \in Lists
    BY <2>1, <2>3 DEF Lists
  <2>5. QED
    BY <1>1, <2>4 DEF servers
<1>6. \A f \in Files : Holds(f, disk[f])
  BY <1>1, <1>2, <1>3, <1>4, <1>5 DEF Holds, Files, SettingsAssumption
<1>7. /\ sess = [x \in 1..Terminals |-> sess[x]]
      /\ \A x \in 1..Terminals : sess[x] = Idle /\ SessionOK(sess[x]) /\ JobOK(sess[x])
  BY InitSessions, IdleFine DEF Fine
<1>8. /\ bot = [reg |-> {}, tasks |-> {}] /\ granted = Rights(disk)
      /\ lost = FALSE /\ race = FALSE /\ torn = FALSE /\ unseen = FALSE
  BY DEF Init
<1>9. granted \subseteq Users \X Ids
  <2>1. Registered(disk["servers"]) \subseteq Ids
    BY <1>5, ListShape
  <2>2. QED
    BY <1>8, <2>1 DEF Rights
<1>10. Typed
  BY <1>1, <1>6, <1>7, <1>8, <1>9 DEF Typed
<1>11. Jobs
  BY <1>7 DEF Jobs
<1>12. Recalled
  BY <1>7 DEF Recalled, Recall, Idle
<1>13. Windows
  BY <1>7 DEF Windows, WindowOK, Idle
<1>14. QED
  BY <1>10, <1>11, <1>12, <1>13

\* What the configuration promises holds at first.
LEMMA InitWorks ==
    ASSUME SettingsAssumption, Init
    PROVE  Starting /\ Forgetting /\ Agreeing /\ Granting
<1>0. PICK a \in Ids \ {ServerId}, key \in Ids, secret \in Secrets, legacy \in BOOLEAN :
        Works(a, key, secret, legacy)
  BY InitFiles
<1>1. /\ disk = [f \in Files |-> disk[f]] /\ key \in {a, ServerId}
      /\ disk["env"].default = IF "nodefault" \in Faults THEN NoId ELSE a
      /\ disk["env"] = [default |-> disk["env"].default,
                        key |-> [k \in Ids |-> IF k \in {a, key} THEN secret ELSE NoSecret]]
      /\ disk["users"] = [u \in Users |-> [legacy |-> legacy,
                                           on |-> IF legacy THEN {} ELSE {a, ServerId}]]
      /\ disk["servers"] = <<[id |-> a, key |-> a, mods |-> TRUE],
                             [id |-> ServerId, key |-> key, mods |-> TRUE]>>
      /\ disk["tasks"] = {a, ServerId}
      /\ \A s \in Ids : disk[s] = IF s \in {a, ServerId} THEN secret ELSE NoSecret
  BY <1>0 DEF Works
<1>2. \A x \in 1..Terminals : ~Removing(x) /\ ~Busy(x) /\ ~Pending(x)
  BY InitSessions
<1> DEFINE servers == disk["servers"]
           env == disk["env"]
<1>3. /\ DOMAIN servers = 1..2
      /\ servers[1].id = a /\ servers[1].key = a
      /\ servers[2].id = ServerId /\ servers[2].key = key
  BY <1>1
<1>4. \A i \in DOMAIN servers : i = 1 \/ i = 2
  BY <1>3
<1>5. /\ ServerId \in Ids /\ NoSecret \notin Secrets
      /\ env.key[a] = secret /\ env.key[key] = secret
      /\ disk[a] = secret /\ disk[ServerId] = secret
  <2>1. ServerId \in Ids /\ NoSecret \notin Secrets
    BY DEF SettingsAssumption
  <2>2. env.key = [k \in Ids |-> IF k \in {a, key} THEN secret ELSE NoSecret]
    BY <1>1
  <2>3. env.key[a] = secret /\ env.key[key] = secret
    BY <2>2
  <2>4. QED
    BY <1>1, <2>1, <2>3
<1> HIDE DEF servers, env
<1>6. Registered(servers) = {a, ServerId}
  <2>1. \A v : v \in Registered(servers) <=> \E i \in DOMAIN servers : servers[i].id = v
    BY DEF Registered
  <2>2. 1 \in DOMAIN servers /\ 2 \in DOMAIN servers
    BY <1>3
  <2>3. QED
    BY <1>3, <1>4, <2>1, <2>2
<1>7. Starting
  <2>1. DefaultId(env) \in {a, ServerId}
    BY <1>1 DEF DefaultId, env
  <2>2. Starts(disk)
    BY <1>6, <2>1 DEF Starts, servers, env
  <2>3. QED
    BY <1>2, <2>2 DEF Starting
<1>8. Forgetting
  <2>1. \A u \in Users : disk["users"][u].on \subseteq {a, ServerId}
    BY <1>1
  <2>2. Speaks(disk["users"], disk["tasks"], disk["servers"])
    BY <1>1, <1>6, <2>1 DEF Speaks, servers
  <2>3. QED
    BY <1>2, <2>2 DEF Forgetting
<1>9. Agreeing
  <2>1. ASSUME NEW i \in DOMAIN servers
        PROVE  env.key[servers[i].key] # NoSecret /\ env.key[servers[i].key] = disk[servers[i].id]
    BY <1>3, <1>4, <1>5
  <2>2. Agree(env, servers)
    BY <1>2, <2>1 DEF Agree
  <2>3. QED
    BY <1>2, <2>2 DEF Agreeing, AgreeDisk, env, servers
<1>10. Granting
  <2>1. granted = Rights(disk)
    BY DEF Init
  <2>2. GivenDisk
    BY <2>1 DEF GivenDisk, Given, Rights
  <2>3. QED
    BY <1>2, <2>2 DEF Granting
<1>11. QED
  BY <1>7, <1>8, <1>9, <1>10

-----------------------------------------------------------------------------
(* Edits.                                                                    *)

\* Only a replacement and a rollback may lose an edit, locally or over SSH.
LEMMA LostBy ==
    ASSUME NEW x \in 1..Terminals, Acts(x)
    PROVE  Write(x) \/ Undo(x) \/ AgentReplaces(x) \/ lost' = lost
  BY DEF Acts, Open, StageAdd, StageRemote, EditExistingSoftware, StageRemoval, Cancel,
         Check, CopyRaises, WriteRaises, UndoRaises, Undone, AgentCompares, AgentRaises,
         OpenEditor, EditUser, DeleteOrRename, Reread, Kill, history

\* While nobody has raced, what is replaced is what was read, or what was planned.
LEMMA EditsStep ==
    ASSUME SettingsAssumption, Typed, Jobs, Windows, EditsKept, NEW x \in 1..Terminals, Acts(x)
    PROVE  EditsKept'
<1> DEFINE r == sess[x]
<1>1. race => race'
  BY ActsFiles, ExcusesKept
<1>2. CASE lost' = lost \/ race'
  BY <1>1, <1>2 DEF EditsKept
<1>3. CASE Write(x) /\ ~race'
  <2>1. r.pc = "write" /\ r.done + 1 \in 1..Len(r.plan) /\ r.done \in Nat
    <3>1. r.done + 1 \in 1..Len(r.plan)
      BY <1>3, WriteFine
    <3>2. r.pc = "write"
      BY <1>3 DEF Write
    <3>3. r.done \in Nat
      BY DEF Typed, SessionOK, PlanOK
    <3>4. QED
      BY <3>1, <3>2, <3>3
  <2>2. WindowOK(r)
    BY <1>1, <1>3 DEF Windows
  <2>3. ~(r.done + 1 <= r.done)
    BY <2>1
  <2>4. disk[r.plan[r.done + 1].file] = r.plan[r.done + 1].old
    BY <2>1, <2>2, <2>3 DEF WindowOK
  <2>5. lost' = (lost \/ disk[r.plan[r.done + 1].file] # r.plan[r.done + 1].old)
    BY <1>3 DEF Write
  <2>6. lost \in BOOLEAN
    BY DEF Typed
  <2>7. QED
    BY <1>2, <2>4, <2>5, <2>6
<1>4. CASE Undo(x) /\ ~race'
  <2>1. r.pc = "undo" /\ r.done \in 1..Len(r.plan)
    BY <1>4, UndoFine DEF Undo
  <2>2. WindowOK(r)
    BY <1>1, <1>4 DEF Windows
  <2>3. r.done <= r.done
    BY <2>1
  <2>4. disk[r.plan[r.done].file] = r.plan[r.done].new
    BY <2>1, <2>2, <2>3 DEF WindowOK
  <2>5. lost' = (lost \/ disk[r.plan[r.done].file] # r.plan[r.done].new)
    BY <1>4 DEF Undo
  <2>6. lost \in BOOLEAN
    BY DEF Typed
  <2>7. QED
    BY <1>2, <2>4, <2>5, <2>6
<1>5. CASE AgentReplaces(x) /\ ~race'
  <2>1. 1 \in 1..Len(r.plan) /\ r.pc \in {"configuring", "unconfiguring"} /\ r.pc \in AgentPcs
    BY <1>5, ReplacesFine DEF AgentReplaces
  <2>2. WindowOK(r)
    BY <1>1, <1>5 DEF Windows
  <2>3. disk[ConfigureRequest(x).file] = ConfigureRequest(x).old
    BY <2>1, <2>2, AgentAsked DEF WindowOK
  <2>4. lost' = (lost \/ disk[ConfigureRequest(x).file] # ConfigureRequest(x).old)
    BY <1>5 DEF AgentReplaces
  <2>5. lost \in BOOLEAN
    BY DEF Typed
  <2>6. QED
    BY <1>2, <2>3, <2>4, <2>5
<1>6. QED
  BY <1>2, <1>3, <1>4, <1>5, LostBy

-----------------------------------------------------------------------------
(* The invariant.                                                            *)

\* The invariant holds at first.
LEMMA InitInv ==
    ASSUME SettingsAssumption, Init
    PROVE  IInv /\ Granting
<1>1. EditsKept
  BY DEF EditsKept, Init
<1>2. QED
  BY <1>1, InitTyped, InitWorks DEF IInv

\* A step is one of a terminal or of the bot, or none.
LEMMA Steps ==
    ASSUME [Next]_setVars
    PROVE  \/ \E x \in 1..Terminals : Acts(x)
           \/ BotStart \/ BotSaves
           \/ UNCHANGED setVars
  BY DEF Next, Acts

\* Every step keeps the invariant.
LEMMA InvStep ==
    ASSUME SettingsAssumption, IInv, [Next]_setVars
    PROVE  IInv'
<1>1. CASE \E x \in 1..Terminals : Acts(x)
  <2>1. PICK x \in 1..Terminals : Acts(x)
    BY <1>1
  <2>2. SessionKept(x) /\ FilesKept(x)
    BY <2>1, ActsSession, ActsFiles DEF IInv
  <2>3. Typed' /\ Jobs' /\ Recalled' /\ Windows'
    BY <2>2, TypedKept, JobsKept, RecalledKept, WindowsKept DEF IInv
  <2>4. Starting' /\ Forgetting' /\ Agreeing' /\ EditsKept'
    BY <2>1, StartingKept, ForgettingKept, AgreeingKept, EditsStep DEF IInv
  <2>5. QED
    BY <2>3, <2>4 DEF IInv
<1>2. CASE BotStart \/ BotSaves
  <2>1. /\ Typed' /\ Jobs' /\ Recalled' /\ Windows'
        /\ sess' = sess /\ torn' = torn /\ granted' = granted /\ lost' = lost
        /\ (unseen => unseen') /\ (race => race')
    BY <1>2, BotKept DEF IInv
  <2>2. Starting' /\ Forgetting' /\ Agreeing'
    BY <1>2, <2>1, StartingBot, ForgettingBot, AgreeingBot DEF IInv
  <2>3. EditsKept'
    BY <2>1 DEF IInv, EditsKept
  <2>4. QED
    BY <2>1, <2>2, <2>3 DEF IInv
<1>3. CASE UNCHANGED setVars
  <2>1. /\ Typed' /\ Jobs' /\ Recalled' /\ Windows'
        /\ disk' = disk /\ sess' = sess /\ lost' = lost
        /\ race' = race /\ torn' = torn /\ unseen' = unseen
    BY <1>3, StutterKept DEF IInv
  <2>2. Starting' /\ Forgetting' /\ EditsKept'
    BY <2>1 DEF IInv, Starting, Forgetting, EditsKept, Removing
  <2>3. Agreeing'
    <3>1. \A y \in 1..Terminals : (Busy(y)' <=> Busy(y)) /\ (Removing(y)' <=> Removing(y))
                                  /\ (Pending(y)' <=> Pending(y))
      BY <2>1 DEF Busy, Removing, Pending
    <3>2. AgreeDisk' <=> AgreeDisk
      BY <2>1, <3>1 DEF AgreeDisk, Agree
    <3>3. \A z \in 1..Terminals : AgreeSeen(z)' <=> AgreeSeen(z)
      BY <2>1, <3>1 DEF AgreeSeen, Agree
    <3>4. QED
      BY <2>1, <3>1, <3>2, <3>3 DEF IInv, Agreeing
  <2>4. QED
    BY <2>1, <2>2, <2>3 DEF IInv
<1>4. QED
  BY <1>1, <1>2, <1>3, Steps

\* Every step keeps the rights decided.
LEMMA GrantingStep ==
    ASSUME SettingsAssumption, "nodefault" \notin Faults, IInv, Granting, [Next]_setVars
    PROVE  Granting'
<1>1. CASE \E x \in 1..Terminals : Acts(x)
  BY <1>1, GrantingKept DEF IInv
<1>2. CASE BotStart \/ BotSaves
  BY <1>2, BotKept, GrantingBot DEF IInv
<1>3. CASE UNCHANGED setVars
  BY <1>3, StutterKept DEF Granting, GivenDisk, GivenSeen, Given, Busy, Removing
<1>4. QED
  BY <1>1, <1>2, <1>3, Steps

\* The inductive invariant.
THEOREM Invariance == Spec => []IInv
<1>1. Init => IInv
  BY SettingsAssumption, InitInv
<1>2. IInv /\ [Next]_setVars => IInv'
  BY SettingsAssumption, InvStep
<1>3. QED
  BY <1>1, <1>2, PTL DEF Spec

\* With what the rights need, where .env holds the default the editor goes by.
LEMMA GrantingHolds ==
    ASSUME "nodefault" \notin Faults
    PROVE  Spec => []Granting
<1>1. Init => Granting
  BY SettingsAssumption, InitInv
<1>2. IInv /\ Granting /\ [Next]_setVars => Granting'
  BY SettingsAssumption, GrantingStep
<1>3. QED
  BY <1>1, <1>2, Invariance, PTL DEF Spec

\* Every file holds what its readers expect, every program a plan of the files there are.
THEOREM TypeCorrect == Spec => []TypeOK
<1>1. IInv => TypeOK
  <2> SUFFICES ASSUME IInv PROVE TypeOK
    OBVIOUS
  <2>1. Typed
    BY DEF IInv
  <2>2. /\ disk["env"] \in Envs /\ disk["users"] \in People /\ disk["tasks"] \subseteq Ids
        /\ disk["servers"] \in Seq(Entries)
        /\ \A s \in Ids : disk[s] \in Secrets \cup {NoSecret}
    BY <2>1, SettingsAssumption, DiskTyped, ListShape
  <2>3. disk["env"] \in [default : Ids \cup {NoId}, key : [Ids -> Secrets \cup {NoSecret}]]
    BY <2>2 DEF Envs
  <2>4. ASSUME NEW x \in 1..Terminals
        PROVE  /\ sess[x].pc \in {"idle", "asked", "editing", "configure", "configuring",
                                  "check", "write", "undo", "reread", "unconfigure",
                                  "unconfiguring"}
               /\ {sess[x].done, sess[x].tried} \subseteq 0..Len(sess[x].plan)
               /\ Touched(x) \subseteq Files /\ sess[x].left \subseteq Files
    <3>1. SessionOK(sess[x])
      BY <2>1 DEF Typed
    <3>2. Touched(x) \subseteq Files
      BY <3>1 DEF SessionOK, PlanOK, ChangeOK, Touched
    <3>3. QED
      BY <3>1, <3>2 DEF SessionOK
  <2>5. /\ bot.reg \subseteq Ids /\ bot.tasks \subseteq Ids
        /\ granted \subseteq Users \X Ids
        /\ {lost, race, torn, unseen} \subseteq BOOLEAN
    BY <2>1 DEF Typed
  <2>6. QED
    BY <2>2, <2>3, <2>4, <2>5 DEF TypeOK, People, Entries
<1>2. QED
  BY <1>1, Invariance, PTL

\* A program, or the agent of one, destroys no edit it has not read, unless another one
\* wrote inside its window.
THEOREM EditsAreKept == Spec => []EditsKept
<1>1. IInv => EditsKept
  BY DEF IInv
<1>2. QED
  BY <1>1, Invariance, PTL

\* After a failed replacement every local file is as it was, but for those the program
\* names, unless another one wrote meanwhile.
THEOREM FailureRollsBack == Spec => []RolledBack
<1>1. IInv => RolledBack
  <2> SUFFICES ASSUME IInv, NEW x \in 1..Terminals, sess[x].pc = "undo",
                      sess[x].done < FirstLocal(x), ~race,
                      NEW i \in FirstLocal(x)..sess[x].tried
               PROVE  \/ sess[x].plan[i].file \in sess[x].left
                      \/ disk[sess[x].plan[i].file] = sess[x].plan[i].old
    BY DEF RolledBack
  <2>1. SessionOK(sess[x]) /\ Counted(sess[x]) /\ WindowOK(sess[x])
    BY DEF IInv, Typed, Jobs, JobOK, Windows
  <2>2. /\ sess[x].done \in Nat /\ Len(sess[x].plan) \in Nat /\ sess[x].tried \in Nat
        /\ sess[x].tried < Len(sess[x].plan)
    BY <2>1 DEF SessionOK, PlanOK, Counted
  <2>3. FirstLocal(x) \in {1, 2}
    BY DEF FirstLocal
  <2>4. i \in 1..Len(sess[x].plan) /\ ~(i <= sess[x].done)
    BY <2>2, <2>3
  <2>5. QED
    BY <2>1, <2>4 DEF WindowOK
<1>2. QED
  BY <1>1, Invariance, PTL

\* Whatever was applied, killed or rolled back, the bot finds its default registered.
THEOREM StartsAlways == Spec => []DefaultRegistered
<1>1. IInv => DefaultRegistered
  BY DEF IInv, Starting, DefaultRegistered
<1>2. QED
  BY <1>1, Invariance, PTL

\* A server that is not registered is mentioned by no policy and no automation, unless two
\* programs wrote at once, an attempt ended halfway, or a program went on what had changed.
THEOREM NothingRemembered == Spec => []Forgotten
<1>1. IInv => Forgotten
  BY DEF IInv, Forgetting, Speaks, Forgotten, Mentioned
<1>2. QED
  BY <1>1, Invariance, PTL

\* Between the programs, .env holds the RCON secret of every registered installation, with
\* the same exceptions; two agents that both found the file as expected are a race.
THEOREM SecretsAgree == Spec => []RconReachable
<1>1. IInv => RconReachable
  <2> SUFFICES ASSUME IInv, Quiet, ~race, ~torn, ~unseen, NEW i \in DOMAIN disk["servers"]
               PROVE  LET e == disk["servers"][i] IN
                      disk["env"].key[e.key] = disk[e.id] /\ disk[e.id] # NoSecret
    BY DEF RconReachable
  <2>1. \A y \in 1..Terminals : ~Busy(y) /\ ~Pending(y)
    BY DEF Quiet, InWindow, Busy, Removing, Pending
  <2>2. AgreeDisk
    BY <2>1 DEF IInv, Agreeing
  <2>3. QED
    BY <2>1, <2>2 DEF AgreeDisk, Agree
<1>2. QED
  BY <1>1, Invariance, PTL

\* Where .env holds DEFAULT_SERVER_ID, so that the user editor and the bot have the same
\* default, nobody has a right that no owner gave him.
THEOREM RightsNotWidened ==
    ASSUME "nodefault" \notin Faults
    PROVE  Spec => []NoWidening
<1>1. Granting => NoWidening
  <2> SUFFICES ASSUME Granting, Quiet, ~race, ~torn, ~unseen PROVE Rights(disk) \subseteq granted
    BY DEF NoWidening
  <2>1. \A y \in 1..Terminals : ~Busy(y)
    BY DEF Quiet, InWindow, Busy, Removing
  <2>2. GivenDisk
    BY <2>1 DEF Granting
  <2>3. QED
    BY <2>2 DEF GivenDisk, Given, Rights
<1>2. QED
  BY <1>1, GrantingHolds, PTL
=============================================================================
