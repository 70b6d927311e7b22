-------------------------- MODULE LogMonitor_proofs --------------------------
(***************************************************************************)
(* What TLAPS proves of LogMonitor, for any number of inodes and lines:    *)
(* type correctness and, while no inode number comes back that the reader  *)
(* still compares with, that no line is delivered twice.                   *)
(***************************************************************************)
EXTENDS LogMonitor, TLAPS

ReaderVars == <<at, handle, seen, last>>

\* Lines are numbered as they are written, so that a file is sorted.
Numbered ==
    \A i \in Inodes :
        /\ Len(data[i]) <= written
        /\ \A k \in 1..Len(data[i]) : data[i][k] <= written
        /\ \A j, k \in 1..Len(data[i]) : j < k => data[i][j] < data[i][k]

LEMMA NumberedInductive ==
    ASSUME TypeOK, Numbered, [Next]_vars
    PROVE  Numbered' /\ data' \in [Inodes -> Seq(1..MaxLines)] /\ written' \in 0..MaxLines
<1> USE LogAssumption
<1>1. CASE Writes
  <2>1. /\ path \in Inodes /\ written + 1 \in 1..MaxLines /\ written' = written + 1
        /\ data' = [data EXCEPT ![path] = Append(data[path], written + 1)]
    BY <1>1 DEF Writes, TypeOK
  <2>2. /\ Append(data[path], written + 1) \in Seq(1..MaxLines)
        /\ Len(Append(data[path], written + 1)) = Len(data[path]) + 1
        /\ \A k \in 1..Len(data[path]) : Append(data[path], written + 1)[k] = data[path][k]
        /\ Append(data[path], written + 1)[Len(data[path]) + 1] = written + 1
    BY <2>1 DEF TypeOK
  <2>3. data' \in [Inodes -> Seq(1..MaxLines)]
    BY <2>1, <2>2 DEF TypeOK
  <2>4. ASSUME NEW i \in Inodes
        PROVE  /\ Len(data'[i]) <= written'
               /\ \A k \in 1..Len(data'[i]) : data'[i][k] <= written'
               /\ \A j, k \in 1..Len(data'[i]) : j < k => data'[i][j] < data'[i][k]
    <3>1. CASE i # path
      BY <2>1, <3>1 DEF Numbered, TypeOK
    <3>2. CASE i = path
      BY <2>1, <2>2, <3>2 DEF Numbered, TypeOK
    <3>3. QED
      BY <3>1, <3>2
  <2>5. QED
    BY <2>1, <2>3, <2>4 DEF Numbered
<1>2. CASE Creates \/ Truncates
  <2>1. PICK i \in Inodes : data' = [data EXCEPT ![i] = <<>>] /\ written' = written
    BY <1>2 DEF Creates, Truncates, TypeOK
  <2>2. QED
    BY <2>1 DEF Numbered, TypeOK
<1>3. CASE UNCHANGED <<data, written>>
  BY <1>3 DEF Numbered, TypeOK
<1>4. QED
  BY <1>1, <1>2, <1>3
     DEF Next, RenamesAway, Reader, Restarts, StatFails, StatDiffers, StatSame, OpenFails, Open,
         Delivers, FindsNothing, ConsumerRaises, vars, minecraft

LEMMA TypeInductive ==
    ASSUME TypeOK, Numbered, [Next]_vars
    PROVE  TypeOK'
<1> USE LogAssumption
<1>0. data' \in [Inodes -> Seq(1..MaxLines)] /\ written' \in 0..MaxLines
  BY NumberedInductive
<1>1. CASE Writes \/ RenamesAway \/ Creates \/ Truncates
  <2>1. path' \in Inodes \cup {None} /\ UNCHANGED ReaderVars
    BY <1>1 DEF Writes, RenamesAway, Creates, Truncates, TypeOK, ReaderVars
  <2>2. QED
    BY <1>0, <2>1 DEF TypeOK, ReaderVars, handle
<1>t. ASSUME UNCHANGED path,
             at' \in {"down", "stat", "open", "read"}, fh' \in Inodes \cup {None, Closed},
             position' \in 0..MaxLines, identity' \in Inodes \cup {None},
             seen' \in Inodes \cup {None}, first' \in BOOLEAN, raced' \in BOOLEAN,
             last' \in 0..MaxLines, again' \in 0..MaxLines,
             at' = "read" => fh' \in Inodes
      PROVE  TypeOK'
  BY <1>0, <1>t DEF TypeOK
<1>d. 0 \in 0..MaxLines
  OBVIOUS
<1>2. CASE Restarts
  BY <1>2, <1>t DEF Restarts, TypeOK, minecraft, handle
<1>3. CASE StatFails
  BY <1>3, <1>t, <1>d DEF StatFails, Down, TypeOK, minecraft
<1>4. CASE StatDiffers
  BY <1>4, <1>t DEF StatDiffers, Close, TypeOK, minecraft
<1>5. CASE StatSame
  <2>1. CASE fh = Closed
    BY <1>5, <2>1, <1>t, <1>d DEF StatSame, Down, TypeOK, minecraft
  <2>2. CASE fh # Closed
    <3>1. position' \in 0..MaxLines
      BY <1>5, <2>2, <1>d DEF StatSame, TypeOK
    <3>2. QED
      BY <1>5, <2>2, <3>1, <1>t DEF StatSame, TypeOK, minecraft
  <2>3. QED
    BY <2>1, <2>2
<1>6. CASE OpenFails \/ FindsNothing
  BY <1>6, <1>t DEF OpenFails, FindsNothing, TypeOK, minecraft, handle
<1>7. CASE Open
  <2>1. path \in Inodes /\ Len(data[path]) \in 0..MaxLines
    BY <1>7 DEF Open, TypeOK, Numbered
  <2>2. position' \in 0..MaxLines /\ last' \in 0..MaxLines /\ again' \in 0..MaxLines
    BY <1>7, <2>1, <1>d DEF Open, TypeOK
  <2>3. raced' \in BOOLEAN
    BY <1>7 DEF Open
  <2>4. QED
    BY <1>7, <2>1, <2>2, <2>3, <1>t DEF Open, TypeOK, minecraft
<1>8. ASSUME NEW raises \in BOOLEAN, Delivers(raises)
      PROVE  TypeOK'
  <2>1. /\ position + 1 \in 1..Len(data[fh]) /\ position + 1 \in 0..MaxLines
        /\ data[fh][position + 1] \in 1..MaxLines
    BY <1>8 DEF Delivers, TypeOK, Numbered
  <2>2. last' \in 0..MaxLines
    BY <1>8, <2>1 DEF Delivers, Newest, TypeOK
  <2>3. UNCHANGED <<path, seen, again>>
    BY <1>8 DEF Delivers, minecraft
  <2>4. CASE raises
    BY <1>8, <2>2, <2>3, <2>4, <1>t, <1>d DEF Delivers, Down, TypeOK
  <2>5. CASE ~raises
    BY <1>8, <2>1, <2>2, <2>3, <2>5, <1>t DEF Delivers, TypeOK
  <2>6. QED
    BY <2>4, <2>5
<1>9. CASE UNCHANGED vars
  BY <1>9 DEF vars, TypeOK, minecraft, handle
<1>10. QED
  BY <1>1, <1>2, <1>3, <1>4, <1>5, <1>6, <1>7, <1>8, <1>9 DEF Next, Reader, ConsumerRaises

LEMMA InitTyped == Init => TypeOK /\ Numbered
<1> SUFFICES ASSUME Init PROVE TypeOK /\ Numbered
  OBVIOUS
<1>1. /\ data = [i \in Inodes |-> <<>>] /\ written = 0
      /\ position = 0 /\ last = 0 /\ again = 0 /\ 0 \in 0..MaxLines
  BY LogAssumption DEF Init
<1>2. data \in [Inodes -> Seq(1..MaxLines)] /\ Numbered
  BY <1>1 DEF Numbered
<1>3. TypeOK
  BY <1>1, <1>2 DEF Init, TypeOK
<1>4. QED
  BY <1>2, <1>3

\* Every variable keeps its type, whatever becomes of the log.
THEOREM TypeCorrect == Spec => []TypeOK
<1>1. TypeOK /\ Numbered /\ [Next]_vars => (TypeOK /\ Numbered)'
  BY TypeInductive, NumberedInductive
<1>2. QED
  BY <1>1, InitTyped, PTL DEF Spec

-----------------------------------------------------------------------------
(* No replay.                                                                *)

\* A line that may be delivered, and a file all of whose lines may.
FreshLine(line) == line > last \/ line <= again
Fresh(i) == \A k \in 1..Len(data[i]) : FreshLine(data[i][k])

\* What the reader has not read of its file is fresh, all of it once the file was cut
\* behind the reader.  A file that has taken the place of the reader's is newer, and fresh
\* unless a race is known.  identity is wrong only after a race, and then latest.log
\* does not bear it.
ReplayInv ==
    /\ last <= written /\ again <= written
    /\ at = "open" => fh \notin Inodes
    /\ fh \in Inodes =>
         /\ \A k \in 1..Len(data[fh]) : k > position => FreshLine(data[fh][k])
         /\ position > Len(data[fh]) => Fresh(fh)
         /\ ~raced => identity = fh
         /\ raced /\ path # None => identity # path
    /\ fh \in Inodes /\ path # None /\ path # fh =>
         /\ Fresh(path)
         /\ \A j \in 1..Len(data[fh]), k \in 1..Len(data[path]) : data[fh][j] < data[path][k]
    /\ fh \notin Inodes /\ path # None /\ ~first /\ ~raced => Fresh(path)

LEMMA ReplayInductive ==
    ASSUME ~Reuse, TypeOK, Numbered, ReplayInv, [Next]_vars
    PROVE  ReplayInv'
<1> USE LogAssumption
<1>1. CASE Writes
  <2>1. /\ path \in Inodes /\ written' = written + 1 /\ path' = path
        /\ data' = [data EXCEPT ![path] = Append(data[path], written + 1)]
        /\ UNCHANGED ReaderVars
    BY <1>1 DEF Writes, TypeOK, ReaderVars
  <2>2. /\ Len(data'[path]) = Len(data[path]) + 1
        /\ \A k \in 1..Len(data[path]) : data'[path][k] = data[path][k]
        /\ data'[path][Len(data[path]) + 1] = written + 1
        /\ \A i \in Inodes \ {path} : data'[i] = data[i]
    BY <2>1 DEF TypeOK
  <2>3. UNCHANGED <<at, fh, position, identity, first, raced, again, last>>
    BY <2>1 DEF ReaderVars, handle
  <2>4. Len(data[path]) \in Nat /\ written \in Nat /\ last \in Nat /\ again \in Nat /\ position \in Nat
    BY <2>1 DEF TypeOK
  <2>5. \A i \in Inodes : Fresh(i) => Fresh(i)'
    BY <2>1, <2>2, <2>3, <2>4 DEF ReplayInv, Fresh, FreshLine
  <2>6. fh \in Inodes =>
          /\ \A k \in 1..Len(data'[fh]) : k > position => FreshLine(data[fh][k])' 
          /\ position > Len(data'[fh]) => Fresh(fh)'
    BY <2>1, <2>2, <2>3, <2>4, <2>5 DEF ReplayInv, FreshLine
  <2>7. fh \in Inodes /\ path # fh =>
          \A j \in 1..Len(data'[fh]), k \in 1..Len(data'[path]) : data'[fh][j] < data'[path][k]
    BY <2>1, <2>2, <2>4 DEF ReplayInv, Numbered, TypeOK
  <2>8. QED
    BY <2>1, <2>3, <2>4, <2>5, <2>6, <2>7 DEF ReplayInv
<1>2. CASE RenamesAway
  <2>1. /\ path' = None
        /\ UNCHANGED <<data, written, at, fh, position, identity, first, raced, again, last>>
    BY <1>2 DEF RenamesAway, handle
  <2>2. QED
    BY <2>1 DEF ReplayInv, Fresh, FreshLine
<1>3. CASE Creates
  <2>1. /\ path' \in Inodes /\ path' # fh /\ path' # identity
        /\ data'[path'] = <<>>
        /\ \A i \in Inodes \ {path'} : data'[i] = data[i]
        /\ UNCHANGED <<written, at, fh, position, identity, first, raced, again, last>>
    BY <1>3 DEF Creates, TypeOK, handle
  <2>2. QED
    BY <2>1 DEF ReplayInv, Fresh, FreshLine
<1>4. CASE Truncates
  <2>1. /\ path \in Inodes /\ path' = path /\ data'[path] = <<>>
        /\ \A i \in Inodes \ {path} : data'[i] = data[i]
        /\ UNCHANGED <<written, at, fh, position, identity, first, raced, again, last>>
    BY <1>4 DEF Truncates, TypeOK, handle
  <2>2. QED
    BY <2>1 DEF ReplayInv, Fresh, FreshLine
<1>5. CASE Restarts \/ OpenFails \/ FindsNothing \/ UNCHANGED vars
  BY <1>5
     DEF Restarts, OpenFails, FindsNothing, vars, minecraft, handle, ReplayInv, Fresh, FreshLine
<1>6. CASE StatFails
  BY <1>6 DEF StatFails, Down, minecraft, ReplayInv, Fresh, FreshLine
<1>7. CASE StatDiffers
  <2>1. fh' \notin Inodes
    BY <1>7 DEF StatDiffers, Close
  <2>2. fh \in Inodes /\ ~raced => path # fh
    BY <1>7 DEF StatDiffers, ReplayInv
  <2>3. QED
    BY <1>7, <2>1, <2>2 DEF StatDiffers, minecraft, ReplayInv, Fresh, FreshLine
<1>8. CASE StatSame
  <2>1. CASE fh = Closed
    BY <1>8, <2>1 DEF StatSame, Down, minecraft, ReplayInv, Fresh, FreshLine
  <2>2. CASE fh # Closed
    <3>1. fh \in Inodes /\ fh = path /\ identity = path /\ ~raced
      BY <1>8, <2>2 DEF StatSame, ReplayInv, TypeOK
    <3>2. /\ position' = IF Len(data[path]) < position THEN 0 ELSE position
          /\ at' = "read"
          /\ UNCHANGED <<data, path, written, fh, identity, first, raced, again, last>>
      BY <1>8, <2>2 DEF StatSame, minecraft
    <3>3. QED
      BY <3>1, <3>2 DEF ReplayInv, Fresh, FreshLine, TypeOK
  <2>3. QED
    BY <2>1, <2>2
<1>9. CASE Open
  <2>1. /\ path \in Inodes /\ fh' = path /\ at' = "read"
        /\ position' = IF first THEN Len(data[path]) ELSE 0
        /\ last' = IF first THEN written ELSE last
        /\ again' = IF raced THEN written ELSE again
        /\ identity' = seen /\ raced' = (path # seen)
        /\ UNCHANGED <<data, path, written>>
        /\ at = "open"
    BY <1>9 DEF Open, minecraft, TypeOK
  <2>2. /\ \A k \in 1..Len(data[path]) : data[path][k] <= written
        /\ Len(data[path]) \in Nat /\ written \in Nat
    BY <2>1 DEF Numbered, TypeOK
  <2>3. \A k \in 1..Len(data[path]) : k > position' => FreshLine(data[path][k])'
    BY <2>1, <2>2 DEF ReplayInv, Fresh, FreshLine
  <2>4. ~(position' > Len(data[path])) /\ last' <= written /\ again' <= written
    BY <2>1, <2>2 DEF ReplayInv
  <2>5. UNCHANGED data /\ fh' = path /\ path' = path /\ written' = written
    BY <2>1
  <2>6. \A k \in 1..Len(data[fh])' : k > position' => FreshLine(data[fh][k])'
    BY <2>3, <2>5
  <2>7. ~(position' > Len(data[fh])')
    BY <2>4, <2>5
  <2>8. QED
    BY <2>1, <2>4, <2>5, <2>6, <2>7, LogAssumption DEF ReplayInv
<1>10. ASSUME NEW raises \in BOOLEAN, Delivers(raises)
       PROVE  ReplayInv'
  <2>1. /\ fh \in Inodes /\ position + 1 \in 1..Len(data[fh])
        /\ UNCHANGED <<data, path, written, again>>
        /\ last' = Newest(last, data[fh][position + 1])
    BY <1>10 DEF Delivers, minecraft, TypeOK
  <2>2. /\ data[fh][position + 1] \in Nat /\ last \in Nat /\ again \in Nat /\ written \in Nat
        /\ data[fh][position + 1] <= written
        /\ position \in Nat /\ Len(data[fh]) \in Nat
    BY <2>1 DEF TypeOK, Numbered
  <2>3. last' <= written /\ last' \in Nat
    BY <2>1, <2>2 DEF Newest, ReplayInv
  <2>4. CASE raises
    BY <1>10, <2>1, <2>3, <2>4 DEF Delivers, Down, ReplayInv
  <2>5. CASE ~raises
    <3>1. at' = "stat" /\ position' = position + 1 /\ UNCHANGED <<fh, identity, first, raced>>
      BY <1>10, <2>5 DEF Delivers
    <3>2. ASSUME NEW k \in 1..Len(data[fh]), k > position + 1
          PROVE  FreshLine(data[fh][k])'
      <4>1. data[fh][position + 1] < data[fh][k] /\ FreshLine(data[fh][k])
        BY <2>1, <2>2, <3>2 DEF Numbered, ReplayInv
      <4>2. data[fh][k] \in Nat
        BY <2>1 DEF TypeOK
      <4>3. QED
        BY <2>1, <2>2, <3>1, <4>1, <4>2 DEF FreshLine, Newest
    <3>3. ASSUME path # None, path # fh
          PROVE  Fresh(path)'
      <4>1. ASSUME NEW k \in 1..Len(data[path])
            PROVE  FreshLine(data[path][k])'
        <5>1. data[fh][position + 1] < data[path][k] /\ FreshLine(data[path][k])
          BY <2>1, <3>3, <4>1 DEF ReplayInv, Fresh
        <5>2. path \in Inodes /\ data[path][k] \in Nat
          BY <3>3 DEF TypeOK
        <5>3. QED
          BY <2>1, <2>2, <5>1, <5>2 DEF FreshLine, Newest
      <4>2. QED
        BY <2>1, <4>1 DEF Fresh
    <3>4. \A k \in 1..Len(data[fh])' : k > position' => FreshLine(data[fh][k])'
      BY <2>1, <3>1, <3>2
    <3>5. ~(position' > Len(data[fh])')
      BY <2>1, <2>2, <3>1
    <3>6. QED
      BY <2>1, <2>3, <3>1, <3>3, <3>4, <3>5 DEF ReplayInv
  <2>6. QED
    BY <2>4, <2>5
<1>11. QED
  BY <1>1, <1>2, <1>3, <1>4, <1>5, <1>6, <1>7, <1>8, <1>9, <1>10
     DEF Next, Reader, ConsumerRaises

\* No line is delivered twice or after a later one, unless the log was replaced between
\* the reader's stat and its open, for any number of files, lines, rotations and
\* truncations; provided no file gets an inode number the reader still compares with.
THEOREM NothingReplayed ==
    ASSUME ~Reuse
    PROVE  Spec => NoReplay
<1>1. Init => ReplayInv
  BY LogAssumption DEF Init, ReplayInv
<1>2. TypeOK /\ Numbered /\ ReplayInv /\ [Next]_vars => (TypeOK /\ Numbered /\ ReplayInv)'
  BY TypeInductive, NumberedInductive, ReplayInductive
<1>3. TypeOK /\ ReplayInv =>
          [Delivers(FALSE) \/ ConsumerRaises
           => data[fh][position + 1] > last \/ data[fh][position + 1] <= again]_vars
  <2> SUFFICES ASSUME TypeOK, ReplayInv, NEW raises \in BOOLEAN, Delivers(raises)
               PROVE  data[fh][position + 1] > last \/ data[fh][position + 1] <= again
    BY DEF ConsumerRaises
  <2>1. fh \in Inodes /\ position + 1 \in 1..Len(data[fh]) /\ position + 1 > position
    BY DEF Delivers, TypeOK
  <2>2. QED
    BY <2>1 DEF ReplayInv, FreshLine
<1>4. QED
  BY <1>1, <1>2, <1>3, InitTyped, PTL DEF Spec, NoReplay
=============================================================================
