------------------------------ MODULE LogMonitor ------------------------------
(***************************************************************************)
(* services/log_monitor.py for one local server, with the loop of main.py  *)
(* that restarts it: the reader that follows latest.log, while Minecraft   *)
(* appends lines to it, renames it away, creates it anew or truncates it.  *)
(*                                                                         *)
(* A file is an inode, its content a sequence of lines, a line the number  *)
(* of its writing; a position counts lines.  A new latest.log may get the  *)
(* inode of an old one that nobody names or has open; with Reuse even one  *)
(* whose number the reader remembers.  The reader's stat, open and read    *)
(* are steps of their own: Minecraft is another process.                   *)
(***************************************************************************)
EXTENDS Naturals, Sequences

CONSTANTS
    Inodes,
    None,        \* no file, no inode, or no handle
    Closed,      \* a handle that was closed and kept
    Reuse,       \* a new file may get an inode number that the reader still compares with
    MaxLines     \* bound: lines written

ASSUME LogAssumption ==
    /\ None \notin Inodes /\ Closed \notin Inodes /\ None # Closed
    /\ Reuse \in BOOLEAN
    /\ MaxLines \in Nat

VARIABLES
    data,        \* the content of each inode
    path,        \* what latest.log names
    written,     \* the lines written so far
    at,          \* the reader: "down" until it is started again, or before stat, open, read
    fh,          \* the file it has open
    position,    \* fh.tell()
    identity,    \* what the reader takes for the identity of fh
    seen,        \* what stat said
    first,       \* first_open
    last,        \* history: the newest line that was delivered, or written before this
                 \* reader's first open
    raced,       \* history: fh is not the file that stat saw
    again        \* history: lines up to this one may come a second time

minecraft == <<data, path, written>>
handle == <<fh, position, identity, first, raced, again>>
vars == <<minecraft, at, handle, seen, last>>

TypeOK ==
    /\ data \in [Inodes -> Seq(1..MaxLines)]
    /\ path \in Inodes \cup {None}
    /\ written \in 0..MaxLines
    /\ at \in {"down", "stat", "open", "read"}
    /\ fh \in Inodes \cup {None, Closed}
    /\ position \in 0..MaxLines
    /\ identity \in Inodes \cup {None}
    /\ seen \in Inodes \cup {None}
    /\ first \in BOOLEAN /\ raced \in BOOLEAN
    /\ last \in 0..MaxLines /\ again \in 0..MaxLines
    /\ at = "read" => fh \in Inodes

Init ==
    /\ data = [i \in Inodes |-> <<>>]
    /\ path \in Inodes \cup {None}
    /\ written = 0
    /\ at = "down"
    /\ fh = None /\ position = 0 /\ identity = None /\ seen = None
    /\ first = TRUE
    /\ last = 0 /\ raced = FALSE /\ again = 0

-----------------------------------------------------------------------------
(* Minecraft.                                                                *)

Writes ==
    /\ path # None /\ written < MaxLines
    /\ written' = written + 1
    /\ data' = [data EXCEPT ![path] = Append(@, written')]
    /\ UNCHANGED <<path, at, handle, seen, last>>

RenamesAway ==
    /\ path # None
    /\ path' = None
    /\ UNCHANGED <<data, written, at, handle, seen, last>>

Creates ==
    /\ path = None
    /\ path' \in Inodes \ (IF Reuse THEN {fh} ELSE {fh, identity, seen})
    /\ data' = [data EXCEPT ![path'] = <<>>]
    /\ UNCHANGED <<written, at, handle, seen, last>>

Truncates ==
    /\ path # None /\ data[path] # <<>>
    /\ data' = [data EXCEPT ![path] = <<>>]
    /\ UNCHANGED <<path, written, at, handle, seen, last>>

Replaced == RenamesAway \/ Creates \/ Truncates

-----------------------------------------------------------------------------
(* tail_log                                                                  *)

Close == fh' = IF fh = None THEN None ELSE Closed

\* The generator ends with an exception; its `finally` closes the file.
Down ==
    /\ at' = "down"
    /\ fh' = None /\ position' = 0 /\ identity' = None
    /\ first' = TRUE
    /\ raced' = FALSE

\* _monitor_server makes a new generator, 10 or 15 seconds later.
Restarts ==
    /\ at = "down"
    /\ at' = "stat"
    /\ UNCHANGED <<minecraft, handle, seen, last>>

\* FileNotFoundError: the old file is let go, and without one the generator ends.
StatFails ==
    /\ at = "stat" /\ path = None
    /\ IF fh = None
       THEN Down
       ELSE /\ fh' = None /\ identity' = None
            /\ UNCHANGED <<at, position, first, raced>>
    /\ UNCHANGED <<minecraft, seen, last, again>>

\* Another file than the one that is followed: the old one is closed.
StatDiffers ==
    /\ at = "stat" /\ path # None
    /\ fh = None \/ identity # path
    /\ seen' = path
    /\ at' = "open"
    /\ Close
    /\ UNCHANGED <<minecraft, position, identity, first, raced, again, last>>

\* Mutant: the size of the file is not compared.
StatSameAnySize ==
    /\ at = "stat" /\ path # None
    /\ fh # None /\ identity = path
    /\ IF fh = Closed THEN Down ELSE at' = "read" /\ UNCHANGED <<fh, position, identity, first, raced>>
    /\ UNCHANGED <<minecraft, seen, last, again>>

\* The same file: one shorter than what was read was truncated.  tell() of a handle
\* that is closed raises.
StatSame ==
    /\ at = "stat" /\ path # None
    /\ fh # None /\ identity = path
    /\ IF fh = Closed
       THEN Down
       ELSE /\ position' = IF Len(data[path]) < position THEN 0 ELSE position
            /\ at' = "read"
            /\ UNCHANGED <<fh, identity, first, raced>>
    /\ UNCHANGED <<minecraft, seen, last, again>>

\* Mutant: without a file the loop goes on to readline().
OpenFailsAndReads ==
    /\ at = "open" /\ path = None
    /\ at' = "read"
    /\ UNCHANGED <<minecraft, handle, seen, last>>

OpenFails ==
    /\ at = "open" /\ path = None
    /\ at' = "stat"
    /\ UNCHANGED <<minecraft, handle, seen, last>>

\* Mutant: a reader that was started again replays the log.
OpenAtStart ==
    /\ at = "open" /\ path # None
    /\ fh' = path /\ identity' = seen
    /\ position' = 0
    /\ last' = IF first THEN written ELSE last
    /\ first' = FALSE
    /\ again' = IF raced THEN written ELSE again
    /\ raced' = (path # seen)
    /\ at' = "read"
    /\ UNCHANGED <<minecraft, seen>>

\* The first file of a generator is followed from its end, the next ones from their
\* beginning; identity is what stat saw, whatever was opened.
Open ==
    /\ at = "open" /\ path # None
    /\ fh' = path /\ identity' = seen
    /\ position' = IF first THEN Len(data[path]) ELSE 0
    /\ last' = IF first THEN written ELSE last
    /\ first' = FALSE
    /\ again' = IF raced THEN written ELSE again
    /\ raced' = (path # seen)
    /\ at' = "read"
    /\ UNCHANGED <<minecraft, seen>>

Newest(a, b) == IF a < b THEN b ELSE a

\* readline() finds a line: it is yielded, and _monitor_server hands it to auto-stop and
\* to the event history.  When either raises, the generator is dropped.
Delivers(raises) ==
    /\ at = "read" /\ position < Len(data[fh])
    /\ last' = Newest(last, data[fh][position + 1])
    /\ IF raises
       THEN Down
       ELSE at' = "stat" /\ position' = position + 1 /\ UNCHANGED <<fh, identity, first, raced>>
    /\ UNCHANGED <<minecraft, seen, again>>

FindsNothing ==
    /\ at = "read" /\ position >= Len(data[fh])
    /\ at' = "stat"
    /\ UNCHANGED <<minecraft, handle, seen, last>>

-----------------------------------------------------------------------------
ConsumerRaises == Delivers(TRUE)

Reader ==
    \/ Restarts
    \/ StatFails \/ StatDiffers \/ StatSame
    \/ OpenFails \/ Open
    \/ Delivers(FALSE) \/ FindsNothing

Next == Writes \/ RenamesAway \/ Creates \/ Truncates \/ Reader \/ ConsumerRaises

Spec == Init /\ [][Next]_vars

\* The event loop runs the reader again after each of its sleeps.
FairSpec == Spec /\ WF_vars(Reader)

-----------------------------------------------------------------------------
(* Properties                                                                *)

\* No line is delivered twice, nor after a later one, nor when it was written before
\* the first open ("The first open starts at EOF so historical events are not
\* replayed"), unless latest.log was replaced between the stat and the open of the
\* reader, which then reads the new one twice.
NoReplay ==
    [][Delivers(FALSE) \/ ConsumerRaises
       => data[fh][position + 1] > last \/ data[fh][position + 1] <= again]_vars

\* Unless latest.log goes on being replaced or a consumer goes on raising, the reader
\* gets to the end of the file that latest.log names ("without following stale data").
CatchesUp ==
    <>[][~Replaced /\ ~ConsumerRaises]_vars
    => []<>(path = None \/ (fh = path /\ position = Len(data[path])))
=============================================================================
