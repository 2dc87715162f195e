--------------------------- MODULE AutodumpProofs ---------------------------
(***************************************************************************)
(* The files autodump writes are whole dumps, each newer than the one      *)
(* before, for any number of threads, targets, pieces and dumps, as long   *)
(* as no command dumps into them and no disk of theirs is full.            *)
(***************************************************************************)
EXTENDS Autodump, TLAPS

\* The files of autodump are its own, and their disk is not full.
OwnFiles == Targets \cap (DumpPaths \cup FullDisk) = {}

Dumping(d) == pc[d] \in {"collect", "write"}

Section(d) == pc[d] \in {"open", "collect", "write", "rename", "unlock"}

\* A dump of autodump holds AutoDump::mutex and is for a target.  A command's
\* dump is for a path of DumpPaths.  The handler runs for one thread.
GoalsOK ==
  /\ \A d \in Autos : /\ Section(d) => dumpOwner = d
                      /\ goal[d] \in Targets \cup {NoTarget}
  /\ \A w \in Workers : /\ Section(w) => goal[w] \in DumpPaths
                        /\ goal[w] \in DumpPaths \cup {NoTarget}
                        /\ pc[w] \notin {"unlock", "note", "record"}
  /\ \A d \in Dumpers : Dumping(d) \/ pc[d] = "rename" => goal[d] # NoTarget
  /\ victim = Nobody => pc[Handler] = "none"

\* A dump has a file open while it writes, and the file exists.
HandlesOK ==
  \A d \in Dumpers : /\ Dumping(d) <=> handle[d] # "none"
                     /\ handle[d] = "tmp" => tmp[goal[d]] # NoFile
                     /\ handle[d] = "path" => path[goal[d]] # NoFile

\* The first n pieces of a file are those of dump d.
HoldsPieces(c, d, n) == \A i \in 1 .. Pieces : i <= n => c[i] = id[d]

\* An autodump writes its own .tmp: the pieces before the current one are
\* there, and it is newer than the dump in any target.
ProgressOK ==
  \A d \in Autos :
    /\ Dumping(d) => /\ handle[d] = "tmp"
                     /\ HoldsPieces(tmp[goal[d]], d, piece[d] - 1)
    /\ pc[d] = "rename" => /\ tmp[goal[d]] # NoFile
                           /\ HoldsPieces(tmp[goal[d]], d, Pieces)
    /\ Dumping(d) \/ pc[d] = "rename" =>
         /\ id[d] > 0 /\ id[d] <= count
         /\ \A f \in Targets : Version(path[f]) < id[d]

VersionsOK == \A f \in Targets : /\ Version(path[f]) \in Nat
                                 /\ Version(path[f]) <= count

IInv == TypeOK /\ GoalsOK /\ HandlesOK /\ ProgressOK /\ VersionsOK

-----------------------------------------------------------------------------
USE DumpThreadsAssumption, DumpFilesAssumption, NoFileAssumption

\* A file all pieces of which are of dump n holds dump n.
LEMMA VersionOf ==
  ASSUME NEW c \in Contents, NEW n \in Nat, n > 0,
         \A i \in 1 .. Pieces : c[i] = n
  PROVE  Version(c) = n
<1>1. Whole(c) /\ 1 \in 1 .. Pieces
  BY DEF Whole
<1> QED  BY <1>1 DEF Version

\* The server starts with the invariant.
LEMMA InitInv == ASSUME Init PROVE IInv
<1> USE DEF Init, Threads, Dumpers, Autos, Files
<1>1. PICK c \in {NoFile, [i \in 1 .. Pieces |-> 1]} :
        path = [f \in Files |-> IF f = Home THEN c ELSE NoFile]
  OBVIOUS
<1>2. c \in Contents \cup {NoFile} /\ Version(c) \in {0, 1}
  <2>1. CASE c = NoFile
    BY <2>1 DEF Version
  <2>2. CASE c = [i \in 1 .. Pieces |-> 1]
    BY <2>2, VersionOf DEF Contents
  <2> QED  BY <2>1, <2>2
<1>3. TypeOK
  <2>1. path \in [Files -> Contents \cup {NoFile}]
    BY <1>1, <1>2
  <2>2. \A t \in Threads : FirstPc(t) \in {"idle", "sleep", "none", "free"}
    BY DEF FirstPc
  <2>3. pc \in [Threads -> {"idle", "sleep", "none", "free"}]
    BY <2>2
  <2>4. /\ goal \in [Dumpers -> Files \cup {NoTarget}]
        /\ id \in [Dumpers -> Nat]
        /\ piece \in [Dumpers -> 1 .. Pieces]
        /\ handle \in [Dumpers -> {"none", "tmp", "path", "gone"}]
        /\ res \in [Dumpers -> BOOLEAN]
        /\ tmp \in [Files -> Contents \cup {NoFile}]
    OBVIOUS
  <2> QED  BY <2>1, <2>3, <2>4 DEF TypeOK, BeforeOpen
<1>4. \A f \in Files : Version(path[f]) \in {0, 1}
  BY <1>1, <1>2 DEF Version
<1>5. VersionsOK
  <2>1. count = 1 /\ Targets \subseteq Files
    OBVIOUS
  <2>2. \A n \in {0, 1} : n \in Nat /\ n <= 1
    OBVIOUS
  <2> QED  BY <1>4, <2>1, <2>2 DEF VersionsOK
<1>6. \A d \in Dumpers : pc[d] \in {"sleep", "none", "free"}
  BY DEF FirstPc
<1>7. pc[Handler] = "none"
  BY DEF FirstPc
<1>8. GoalsOK /\ HandlesOK /\ ProgressOK
  BY <1>6, <1>7 DEF GoalsOK, HandlesOK, ProgressOK, Section, Dumping
<1> QED  BY <1>3, <1>5, <1>8 DEF IInv

\* Every step keeps the types.
LEMMA StepTypes ==
  ASSUME IInv, [Next]_vars
  PROVE  TypeOK'
<1> USE DEF IInv, TypeOK, Goto, Threads, Dumpers, Autos, Files, BeforeOpen,
            settings, owners, dump, disk, UnlockData
<1>1. ASSUME NEW t \in Threads, LockData(t) PROVE TypeOK'
  <2>1. \E l \in {"settings", "check", "read", "record"} :
          pc' = [pc EXCEPT ![t] = l]
    BY <1>1 DEF LockData
  <2> QED  BY <1>1, <2>1 DEF LockData
<1>2. CASE Work \/ EndWork
  BY <1>2 DEF Work, EndWork
<1>3. ASSUME NEW w \in Workers, NEW f \in DumpPaths, StartDump(w, f) PROVE TypeOK'
  BY <1>3 DEF StartDump
<1>4. CASE Settings
  BY <1>4 DEF Settings
<1>5. CASE Check
  <2>1. \E l \in {"ask", "sleep"} : pc' = [pc EXCEPT ![AutoDump] = l]
    BY <1>5 DEF Check
  <2>2. forced' \in BOOLEAN
    BY <1>5 DEF Check
  <2> QED  BY <1>5, <2>1, <2>2 DEF Check
<1>6. ASSUME NEW d \in Autos, ReadTarget(d) PROVE TypeOK'
  <2>1. \E l \in {"lock_dump", "exit"} : pc' = [pc EXCEPT ![d] = l]
    BY <1>6 DEF ReadTarget
  <2> QED  BY <1>6, <2>1 DEF ReadTarget
<1>7. ASSUME NEW d \in Autos, LockDump(d) PROVE TypeOK'
  BY <1>7 DEF LockDump
<1>8. ASSUME NEW d \in Autos, UnlockDump(d) PROVE TypeOK'
  BY <1>8 DEF UnlockDump
<1>9. ASSUME NEW d \in Autos, Record(d) PROVE TypeOK'
  <2>1. \E l \in {"sleep", "exit"} : pc' = [pc EXCEPT ![d] = l]
    BY <1>9 DEF Record
  <2> QED  BY <1>9, <2>1 DEF Record
<1>10. ASSUME NEW d \in Dumpers, Open(d) PROVE TypeOK'
  <2>1. \E l \in {"collect", "reply", "unlock"} : pc' = [pc EXCEPT ![d] = l]
    BY <1>10 DEF Open, Return
  <2>2. [i \in 1 .. Pieces |-> 0] \in Contents
    BY DEF Contents
  <2>3. tmp' \in [Files -> Contents \cup {NoFile}]
    BY <1>10, <2>2 DEF Open
  <2>4. handle' \in [Dumpers -> {"none", "tmp", "path", "gone"}]
    BY <1>10 DEF Open
  <2>5. piece' \in [Dumpers -> 1 .. Pieces]
    BY <1>10 DEF Open
  <2>6. res' \in [Dumpers -> BOOLEAN]
    BY <1>10 DEF Open
  <2>7. id' \in [Dumpers -> Nat]
    BY <1>10 DEF Open
  <2> QED  BY <1>10, <2>1, <2>3, <2>4, <2>5, <2>6, <2>7 DEF Open
<1>11. ASSUME NEW d \in Dumpers, Collect(d) PROVE TypeOK'
  BY <1>11 DEF Collect
<1>12. ASSUME NEW d \in Dumpers, Write(d) PROVE TypeOK'
  <2>1. \E l \in {"collect", "rename"} : pc' = [pc EXCEPT ![d] = l]
    BY <1>12 DEF Write
  <2>2. /\ tmp' \in [Files -> Contents \cup {NoFile}]
        /\ path' \in [Files -> Contents \cup {NoFile}]
    <3>1. /\ handle[d] = "tmp" => tmp[goal[d]] \in Contents
          /\ handle[d] = "path" => path[goal[d]] \in Contents
          /\ goal[d] \in Files
      BY <1>12 DEF Write, HandlesOK, GoalsOK, Dumping
    <3>2. /\ handle[d] = "tmp" =>
               [tmp[goal[d]] EXCEPT ![piece[d]] = id[d]] \in Contents
          /\ handle[d] = "path" =>
               [path[goal[d]] EXCEPT ![piece[d]] = id[d]] \in Contents
      BY <3>1 DEF Contents
    <3> QED  BY <1>12, <3>1, <3>2 DEF Write
  <2>3. /\ piece' \in [Dumpers -> 1 .. Pieces]
        /\ handle' \in [Dumpers -> {"none", "tmp", "path", "gone"}]
    BY <1>12 DEF Write
  <2> QED  BY <1>12, <2>1, <2>2, <2>3 DEF Write
<1>13. ASSUME NEW d \in Dumpers, Rename(d) PROVE TypeOK'
  <2>1. \E l \in {"reply", "unlock"} : pc' = [pc EXCEPT ![d] = l]
    BY <1>13 DEF Rename, Return
  <2>2. handle' \in [Dumpers -> {"none", "tmp", "path", "gone"}]
    BY <1>13 DEF Rename
  <2>3. goal[d] \in Files
    BY <1>13 DEF Rename, GoalsOK
  <2>4. /\ tmp' \in [Files -> Contents \cup {NoFile}]
        /\ path' \in [Files -> Contents \cup {NoFile}]
        /\ res' \in [Dumpers -> BOOLEAN]
    BY <1>13, <2>3 DEF Rename
  <2> QED  BY <1>13, <2>1, <2>2, <2>4 DEF Rename
<1>14. ASSUME NEW w \in Workers, Reply(w) PROVE TypeOK'
  BY <1>14 DEF Reply
<1>15. ASSUME NEW t \in Threads, Signal(t) PROVE TypeOK'
  BY <1>15 DEF Signal
<1>16. CASE Halt
  <2>1. \A t \in Threads : FirstPc(t) \in {"idle", "sleep", "none", "free"}
    BY DEF FirstPc
  <2>2. pc' \in [Threads -> {"idle", "sleep", "none", "free"}]
    BY <1>16, <2>1 DEF Halt
  <2>3. /\ goal' \in [Dumpers -> Files \cup {NoTarget}]
        /\ id' \in [Dumpers -> Nat]
        /\ piece' \in [Dumpers -> 1 .. Pieces]
        /\ handle' \in [Dumpers -> {"none", "tmp", "path", "gone"}]
        /\ res' \in [Dumpers -> BOOLEAN]
    BY <1>16 DEF Halt
  <2> QED  BY <1>16, <2>2, <2>3 DEF Halt
<1>17. CASE Restart
  BY <1>17 DEF Restart
<1>18. CASE UNCHANGED vars
  BY <1>18 DEF vars
<1> QED
  BY <1>1, <1>2, <1>3, <1>4, <1>5, <1>6, <1>7, <1>8, <1>9, <1>10, <1>11, <1>12,
     <1>13, <1>14, <1>15, <1>16, <1>17, <1>18
     DEF Next, Request, AutoStep, DumpStep, Exit, Kill

-----------------------------------------------------------------------------
\* Every step keeps AutoDump::mutex with the thread that dumps, and the dumps
\* for the paths they were asked for.
LEMMA StepGoals ==
  ASSUME IInv, [Next]_vars
  PROVE  GoalsOK'
<1> USE DEF IInv, TypeOK, GoalsOK, Section, Dumping, Goto, Threads, Dumpers, Autos,
            settings, owners, dump, disk, UnlockData
<1>1. ASSUME NEW t \in {Main} \cup Autos, LockData(t) PROVE GoalsOK'
  BY <1>1 DEF LockData
<1>2. CASE Work \/ EndWork
  BY <1>2 DEF Work, EndWork
<1>3. ASSUME NEW w \in Workers, NEW f \in DumpPaths, StartDump(w, f) PROVE GoalsOK'
  BY <1>3 DEF StartDump
<1>4. CASE Settings
  BY <1>4 DEF Settings
<1>5. CASE Check
  BY <1>5 DEF Check
<1>6. ASSUME NEW d \in Autos, ReadTarget(d) PROVE GoalsOK'
  BY <1>6 DEF ReadTarget
<1>7. ASSUME NEW d \in Autos, LockDump(d) PROVE GoalsOK'
  BY <1>7 DEF LockDump
<1>8. ASSUME NEW d \in Autos, UnlockDump(d) PROVE GoalsOK'
  BY <1>8 DEF UnlockDump
<1>9. ASSUME NEW d \in Autos, Record(d) PROVE GoalsOK'
  BY <1>9 DEF Record
<1>10. ASSUME NEW d \in Dumpers, Open(d) PROVE GoalsOK'
  BY <1>10 DEF Open, Return
<1>11. ASSUME NEW d \in Dumpers, Collect(d) PROVE GoalsOK'
  BY <1>11 DEF Collect
<1>12. ASSUME NEW d \in Dumpers, Write(d) PROVE GoalsOK'
  BY <1>12 DEF Write
<1>13. ASSUME NEW d \in Dumpers, Rename(d) PROVE GoalsOK'
  BY <1>13 DEF Rename, Return
<1>14. ASSUME NEW w \in Workers, Reply(w) PROVE GoalsOK'
  BY <1>14 DEF Reply
<1>15. ASSUME NEW t \in {Main, AutoDump} \cup Workers, Signal(t) PROVE GoalsOK'
  BY <1>15 DEF Signal
<1>16. CASE Halt
  BY <1>16 DEF Halt, FirstPc
<1>17. CASE Restart \/ UNCHANGED vars
  BY <1>17 DEF Restart, vars
<1> QED
  BY <1>1, <1>2, <1>3, <1>4, <1>5, <1>6, <1>7, <1>8, <1>9, <1>10, <1>11, <1>12,
     <1>13, <1>14, <1>15, <1>16, <1>17
     DEF Next, Request, AutoStep, DumpStep, Exit, Kill

\* A step that opens, writes and renames nothing keeps what is known of the
\* files.
LEMMA FilesFrame ==
  ASSUME IInv, UNCHANGED <<id, piece, handle, tmp, path, count>>,
         \A d \in Dumpers :
           \/ goal'[d] = goal[d] /\ pc'[d] = pc[d]
           \/ goal'[d] = goal[d] /\ Dumping(d) /\ Dumping(d)'
           \/ /\ ~Dumping(d) /\ pc[d] # "rename"
              /\ ~Dumping(d)' /\ pc'[d] # "rename"
  PROVE  HandlesOK' /\ ProgressOK' /\ VersionsOK'
<1> USE DEF IInv, Dumpers, Autos
<1>1. HandlesOK'
  BY DEF HandlesOK, Dumping
<1>2. ProgressOK'
  BY DEF ProgressOK, HoldsPieces, Dumping, Version, Whole
<1>3. VersionsOK'
  BY DEF VersionsOK, Version, Whole
<1> QED  BY <1>1, <1>2, <1>3

\* Two autodumps are never in the section of AutoDump::mutex together, and a
\* command's dump is for another file than an autodump.
LEMMA Apart ==
  ASSUME OwnFiles, IInv, NEW d \in Autos, NEW e \in Dumpers, d # e,
         Dumping(d) \/ pc[d] = "rename", Section(e)
  PROVE  e \in Workers /\ goal[d] \in Targets /\ goal[e] \notin Targets
BY DEF OwnFiles, IInv, GoalsOK, Section, Dumping, Dumpers, Autos

\* ServerTopy::dump begins.
LEMMA OpenInv ==
  ASSUME OwnFiles, IInv, NEW d \in Dumpers, Open(d)
  PROVE  HandlesOK' /\ ProgressOK' /\ VersionsOK'
<1> USE DEF IInv, TypeOK, Open, Goto, Return
<1>1. /\ Section(d) /\ ~Dumping(d) /\ Autos \subseteq Dumpers /\ Dumpers \subseteq Threads
      /\ goal' = goal /\ path' = path /\ count' = count + 1
      /\ \A e \in Dumpers : e # d => /\ pc'[e] = pc[e] /\ handle'[e] = handle[e]
                                     /\ piece'[e] = piece[e] /\ id'[e] = id[e]
      /\ id'[d] = count + 1 /\ pc'[d] # "rename"
  BY DEF Section, Dumping, Dumpers, Threads
<1>2. \A f \in Files : tmp'[f] # NoFile \/ tmp'[f] = tmp[f]
  <2>1. [i \in 1 .. Pieces |-> 0] # NoFile
    BY DEF Contents
  <2> QED  BY <2>1
<1>3. \/ /\ pc'[d] = "collect" /\ handle'[d] = "tmp" /\ piece'[d] = 1
         /\ goal[d] # NoTarget /\ tmp'[goal[d]] # NoFile
         /\ \A f \in Files : f # goal[d] => tmp'[f] = tmp[f]
      \/ /\ pc'[d] \notin {"collect", "write"} /\ handle'[d] = handle[d]
         /\ tmp' = tmp
  <2>1. [i \in 1 .. Pieces |-> 0] # NoFile
    BY DEF Contents
  <2> QED  BY <2>1, <1>1 DEF Threads, Dumpers
<1>4. HandlesOK'
  <2>1. ASSUME NEW e \in Dumpers
        PROVE  /\ Dumping(e)' <=> handle'[e] # "none"
               /\ handle'[e] = "tmp" => tmp'[goal[e]] # NoFile
               /\ handle'[e] = "path" => path'[goal[e]] # NoFile
    <3>1. CASE e = d
      BY <1>1, <1>3, <3>1 DEF HandlesOK, Dumping
    <3>2. CASE e # d
      <4>1. handle[e] # "none" => goal[e] \in Files
        BY DEF HandlesOK, GoalsOK, Dumping
      <4> QED  BY <1>1, <1>2, <3>2, <4>1 DEF HandlesOK, Dumping
    <3> QED  BY <3>1, <3>2
  <2> QED  BY <1>1, <2>1 DEF HandlesOK, Dumping
<1>5. VersionsOK'
  BY <1>1 DEF VersionsOK, Version, Whole
<1>6. ASSUME NEW e \in Autos
      PROVE  /\ Dumping(e)' => /\ handle'[e] = "tmp"
                               /\ HoldsPieces(tmp[goal[e]], e, piece[e] - 1)'
             /\ pc'[e] = "rename" => /\ tmp'[goal'[e]] # NoFile
                                     /\ HoldsPieces(tmp[goal[e]], e, Pieces)'
             /\ Dumping(e)' \/ pc'[e] = "rename" =>
                  /\ id'[e] > 0 /\ id'[e] <= count'
                  /\ \A f \in Targets : Version(path[f])' < id'[e]
  <2>1. CASE e = d
    <3>1. \A f \in Targets : Version(path[f])' < id'[e]
      BY <1>1, <2>1 DEF VersionsOK, Version, Whole
    <3> QED  BY <1>1, <1>3, <2>1, <3>1 DEF Dumping, HoldsPieces
  <2>2. CASE e # d /\ (Dumping(e) \/ pc[e] = "rename")
    <3>1. tmp'[goal[e]] = tmp[goal[e]]
      BY <1>1, <1>3, <2>2, Apart DEF Files
    <3>2. \A f \in Targets : Version(path[f])' = Version(path[f])
      BY <1>1 DEF Version, Whole
    <3>3. id[e] \in Nat /\ count \in Nat
      BY <1>1
    <3> QED  BY <1>1, <2>2, <3>1, <3>2, <3>3 DEF ProgressOK, HoldsPieces, Dumping
  <2>3. CASE e # d /\ ~(Dumping(e) \/ pc[e] = "rename")
    BY <1>1, <2>3 DEF Dumping
  <2> QED  BY <2>1, <2>2, <2>3
<1>7. ProgressOK'
  BY <1>6 DEF ProgressOK, Dumping
<1> QED  BY <1>4, <1>5, <1>7

\* One piece is written.
LEMMA WriteInv ==
  ASSUME OwnFiles, IInv, NEW d \in Dumpers, Write(d)
  PROVE  /\ HandlesOK' /\ ProgressOK' /\ VersionsOK'
         /\ \A f \in Targets : path'[f] = path[f]
<1> USE DEF IInv, TypeOK, Write, Goto
<1>1. /\ Section(d) /\ Dumping(d) /\ Autos \subseteq Dumpers /\ Dumpers \subseteq Threads
      /\ goal' = goal /\ count' = count /\ id' = id
      /\ \A e \in Dumpers : e # d => /\ pc'[e] = pc[e] /\ handle'[e] = handle[e]
                                     /\ piece'[e] = piece[e]
      /\ pc'[d] \in {"collect", "rename"}
  BY DEF Section, Dumping, Dumpers, Threads
<1>2. goal[d] \in Files /\ (d \in Workers => goal[d] \notin Targets)
  BY <1>1 DEF GoalsOK, OwnFiles, Files, Dumpers
<1>3. \A f \in Files : /\ f # goal[d] => tmp'[f] = tmp[f] /\ path'[f] = path[f]
                       /\ tmp[f] # NoFile => tmp'[f] # NoFile
                       /\ path[f] # NoFile => path'[f] # NoFile
  <2>1. /\ handle[d] = "tmp" => tmp[goal[d]] \in Contents
        /\ handle[d] = "path" => path[goal[d]] \in Contents
    BY <1>1, <1>2 DEF HandlesOK
  <2>2. /\ handle[d] = "tmp" => [tmp[goal[d]] EXCEPT ![piece[d]] = id[d]] \in Contents
        /\ handle[d] = "path" => [path[goal[d]] EXCEPT ![piece[d]] = id[d]] \in Contents
    BY <2>1 DEF Contents
  <2> QED  BY <1>2, <2>2
<1>4. HandlesOK'
  <2>1. \/ pc'[d] = "collect" /\ handle'[d] = handle[d]
        \/ pc'[d] = "rename" /\ handle'[d] = "none"
    <3>1. CASE piece[d] < Pieces
      BY <3>1, <1>1
    <3>2. CASE ~(piece[d] < Pieces)
      BY <3>2, <1>1
    <3> QED  BY <3>1, <3>2
  <2>2. \A e \in Dumpers : handle[e] # "none" => goal[e] \in Files
    BY DEF HandlesOK, GoalsOK, Dumping, Dumpers, Autos
  <2> QED  BY <1>1, <1>3, <2>1, <2>2 DEF HandlesOK, Dumping
<1>5. \A f \in Targets : path'[f] = path[f]
  <2>1. CASE d \in Workers
    BY <1>2, <1>3, <2>1 DEF Files
  <2>2. CASE d \in Autos
    BY <1>1, <2>2 DEF ProgressOK
  <2> QED  BY <2>1, <2>2 DEF Dumpers
<1>6. \A f \in Targets : Version(path[f])' = Version(path[f])
  BY <1>5 DEF Version, Whole
<1>7. VersionsOK'
  BY <1>1, <1>6 DEF VersionsOK
<1>8. ASSUME NEW e \in Autos
      PROVE  /\ Dumping(e)' => /\ handle'[e] = "tmp"
                               /\ HoldsPieces(tmp[goal[e]], e, piece[e] - 1)'
             /\ pc'[e] = "rename" => /\ tmp'[goal'[e]] # NoFile
                                     /\ HoldsPieces(tmp[goal[e]], e, Pieces)'
             /\ Dumping(e)' \/ pc'[e] = "rename" =>
                  /\ id'[e] > 0 /\ id'[e] <= count'
                  /\ \A f \in Targets : Version(path[f])' < id'[e]
  <2>1. CASE e = d
    <3>1. goal[d] \in Targets /\ goal[d] \notin FullDisk /\ handle[d] = "tmp"
      BY <1>1, <2>1 DEF GoalsOK, OwnFiles, ProgressOK
    <3>2. tmp[goal[d]] \in Contents /\ piece[d] \in 1 .. Pieces
      BY <1>1, <1>2, <3>1 DEF HandlesOK
    <3>3. tmp'[goal[d]] = [tmp[goal[d]] EXCEPT ![piece[d]] = id[d]]
      BY <1>2, <3>1
    <3>4. \A i \in 1 .. Pieces : i <= piece[d] => tmp'[goal[d]][i] = id[d]
      <4>1. ASSUME NEW i \in 1 .. Pieces, i <= piece[d], i # piece[d]
            PROVE  tmp[goal[d]][i] = id[d]
        <5>1. i <= piece[d] - 1
          BY <4>1, <3>2
        <5> QED  BY <1>1, <2>1, <4>1, <5>1 DEF ProgressOK, HoldsPieces
      <4>2. DOMAIN tmp[goal[d]] = 1 .. Pieces
        BY <3>2 DEF Contents
      <4> QED  BY <3>2, <3>3, <4>1, <4>2
    <3>5. tmp'[goal[d]] # NoFile
      BY <3>2, <1>2, <1>3
    <3>6. \/ pc'[d] = "collect" /\ handle'[d] = "tmp" /\ piece'[d] = piece[d] + 1
          \/ pc'[d] = "rename" /\ piece[d] = Pieces
      BY <1>1, <3>1, <3>2 DEF Threads, Dumpers
    <3>7. Dumping(d)' => HoldsPieces(tmp[goal[d]], d, piece[d] - 1)'
      BY <1>1, <3>2, <3>4, <3>6 DEF HoldsPieces, Dumping
    <3>8. pc'[d] = "rename" => HoldsPieces(tmp[goal[d]], d, Pieces)'
      BY <1>1, <3>4, <3>6 DEF HoldsPieces
    <3>9. /\ id'[d] > 0 /\ id'[d] <= count'
          /\ \A f \in Targets : Version(path[f])' < id'[d]
      BY <1>1, <1>6, <2>1 DEF ProgressOK
    <3> QED  BY <1>1, <2>1, <3>5, <3>6, <3>7, <3>8, <3>9 DEF Dumping
  <2>2. CASE e # d /\ (Dumping(e) \/ pc[e] = "rename")
    <3>1. tmp'[goal[e]] = tmp[goal[e]]
      BY <1>1, <1>3, <2>2, Apart DEF Files
    <3> QED  BY <1>1, <1>6, <2>2, <3>1 DEF ProgressOK, HoldsPieces, Dumping
  <2>3. CASE e # d /\ ~(Dumping(e) \/ pc[e] = "rename")
    BY <1>1, <2>3 DEF Dumping
  <2> QED  BY <2>1, <2>2, <2>3
<1>9. ProgressOK'
  BY <1>8 DEF ProgressOK, Dumping
<1> QED  BY <1>4, <1>5, <1>7, <1>9

\* rename() gives a target the autodump that has just been written.
LEMMA RenameInv ==
  ASSUME OwnFiles, IInv, NEW d \in Dumpers, Rename(d)
  PROVE  /\ HandlesOK' /\ ProgressOK' /\ VersionsOK'
         /\ \/ \A f \in Targets : path'[f] = path[f]
            \/ /\ goal[d] \in Targets
               /\ Version(path[goal[d]])' > Version(path[goal[d]])
               /\ \A f \in Targets : f # goal[d] => path'[f] = path[f]
<1> USE DEF IInv, TypeOK, Rename, Goto, Return
<1>1. /\ Section(d) /\ ~Dumping(d) /\ pc[d] = "rename" /\ Autos \subseteq Dumpers
      /\ goal' = goal /\ count' = count /\ id' = id /\ piece' = piece
      /\ \A e \in Dumpers : e # d => pc'[e] = pc[e]
      /\ pc'[d] \in {"reply", "unlock"}
      /\ goal[d] \in Files /\ (d \in Workers => goal[d] \notin Targets)
  BY DEF Section, Dumping, Dumpers, Threads, GoalsOK, OwnFiles, Files, Autos
<1>2. \/ /\ tmp[goal[d]] # NoFile /\ path'[goal[d]] = tmp[goal[d]]
         /\ \A f \in Files : f # goal[d] => path'[f] = path[f] /\ tmp'[f] = tmp[f]
         /\ \A e \in Dumpers :
              /\ goal[e] # goal[d] => handle'[e] = handle[e]
              /\ goal[e] = goal[d] => handle'[e] =
                   CASE handle[e] = "tmp"  -> "path"
                     [] handle[e] = "path" -> "gone"
                     [] OTHER              -> handle[e]
      \/ path' = path /\ tmp' = tmp /\ handle' = handle
  BY <1>1
<1>3. \A e \in Dumpers : handle[e] # "none" => goal[e] \in Files
  BY DEF HandlesOK, GoalsOK, Dumping, Dumpers, Autos
<1>4. HandlesOK'
  BY <1>1, <1>2, <1>3 DEF HandlesOK, Dumping
<1>5. d \in Autos =>
        /\ goal[d] \in Targets
        /\ id[d] \in Nat /\ id[d] <= count
        /\ \A f \in Targets : Version(path[f]) < id[d]
        /\ Version(tmp[goal[d]]) = id[d]
  <2> SUFFICES ASSUME d \in Autos PROVE
        /\ goal[d] \in Targets
        /\ id[d] \in Nat /\ id[d] <= count
        /\ \A f \in Targets : Version(path[f]) < id[d]
        /\ Version(tmp[goal[d]]) = id[d]
    OBVIOUS
  <2>1. goal[d] \in Targets
    BY <1>1 DEF GoalsOK
  <2>2. /\ id[d] \in Nat /\ id[d] > 0 /\ id[d] <= count
        /\ \A f \in Targets : Version(path[f]) < id[d]
        /\ tmp[goal[d]] # NoFile
        /\ \A i \in 1 .. Pieces : tmp[goal[d]][i] = id[d]
    BY <1>1 DEF ProgressOK, HoldsPieces
  <2>3. tmp[goal[d]] \in Contents
    BY <1>1, <2>2
  <2> QED  BY <2>1, <2>2, <2>3, VersionOf
<1>6. \/ \A f \in Targets : path'[f] = path[f]
      \/ /\ d \in Autos /\ path'[goal[d]] = tmp[goal[d]]
         /\ \A f \in Targets : f # goal[d] => path'[f] = path[f]
  BY <1>1, <1>2 DEF Dumpers, Files
<1>7. \A f \in Targets :
        \/ Version(path[f])' = Version(path[f])
        \/ d \in Autos /\ f = goal[d] /\ Version(path[f])' = id[d]
  <2>1. \A f \in Targets : path'[f] = path[f] => Version(path[f])' = Version(path[f])
    BY DEF Version, Whole
  <2>2. path'[goal[d]] = tmp[goal[d]] => Version(path[goal[d]])' = Version(tmp[goal[d]])
    BY <1>1 DEF Version, Whole
  <2> QED  BY <1>5, <1>6, <2>1, <2>2
<1>8. VersionsOK'
  BY <1>1, <1>5, <1>7 DEF VersionsOK
<1>9. ASSUME NEW e \in Autos, Dumping(e)' \/ pc'[e] = "rename"
      PROVE  /\ e # d /\ (Dumping(e) \/ pc[e] = "rename")
             /\ handle'[e] = handle[e] /\ tmp'[goal[e]] = tmp[goal[e]]
             /\ \A f \in Targets : Version(path[f])' = Version(path[f])
  <2>1. e # d /\ (Dumping(e) \/ pc[e] = "rename")
    BY <1>1, <1>9 DEF Dumping
  <2>2. d \in Workers /\ goal[e] \in Targets /\ goal[d] \notin Targets
    BY <1>1, <2>1, Apart
  <2>3. d \notin Autos
    BY <2>2 DEF Autos
  <2> QED  BY <1>1, <1>2, <1>7, <2>1, <2>2, <2>3 DEF Files
<1>10. ProgressOK'
  BY <1>1, <1>9 DEF ProgressOK, HoldsPieces, Dumping
<1>11. \/ \A f \in Targets : path'[f] = path[f]
       \/ /\ goal[d] \in Targets
          /\ Version(path[goal[d]])' > Version(path[goal[d]])
          /\ \A f \in Targets : f # goal[d] => path'[f] = path[f]
  <2>1. path'[goal[d]] = tmp[goal[d]] => Version(path[goal[d]])' = Version(tmp[goal[d]])
    BY <1>1 DEF Version, Whole
  <2>2. \A f \in Targets : Version(path[f]) \in Nat
    BY DEF VersionsOK
  <2> QED  BY <1>5, <1>6, <2>1, <2>2
<1> QED  BY <1>4, <1>8, <1>10, <1>11

\* The end of the process loses its memory and keeps the files.
LEMMA HaltInv ==
  ASSUME IInv, Halt
  PROVE  HandlesOK' /\ ProgressOK' /\ VersionsOK'
<1>1. /\ \A d \in Dumpers : pc'[d] \in {"sleep", "none", "free"} /\ handle'[d] = "none"
      /\ tmp' = tmp /\ path' = path /\ count' = count
  BY DEF Halt, FirstPc, Threads, Dumpers, Autos, disk
<1>2. HandlesOK'
  BY <1>1 DEF HandlesOK, Dumping
<1>3. ProgressOK'
  BY <1>1 DEF ProgressOK, Dumping, Dumpers
<1>4. VersionsOK'
  BY <1>1 DEF IInv, VersionsOK, Version, Whole
<1> QED  BY <1>2, <1>3, <1>4

\* Steps other than those of ServerTopy::dump: a thread moves from one place
\* outside a dump to another, or takes the mutexes of the users.
OtherStep ==
  \/ Request \/ Settings \/ EndWork \/ Check \/ Restart
  \/ \E d \in Autos : AutoStep(d)
  \/ \E d \in Dumpers : Collect(d)
  \/ \E w \in Workers : Reply(w)
  \/ \E t \in {Main, AutoDump} \cup Workers : Signal(t)
  \/ UNCHANGED vars

\* None of them touches what is known of the files, or a file.
LEMMA OtherInv ==
  ASSUME IInv, OtherStep
  PROVE  /\ HandlesOK' /\ ProgressOK' /\ VersionsOK'
         /\ path' = path
<1> USE DEF Goto, settings, owners, dump, disk, UnlockData
<1>t. /\ DOMAIN pc = Threads /\ DOMAIN goal = Dumpers
      /\ Dumpers \subseteq Threads /\ Autos \subseteq Dumpers /\ Workers \subseteq Dumpers
      /\ Main \notin Dumpers /\ Handler \in Dumpers /\ AutoDump \in Autos
      /\ victim = Nobody => pc[Handler] = "none"
  <2>1. DOMAIN pc = Threads /\ DOMAIN goal = Dumpers
    BY DEF IInv, TypeOK
  <2>2. victim = Nobody => pc[Handler] = "none"
    BY DEF IInv, GoalsOK
  <2> QED  BY <2>1, <2>2 DEF Threads, Dumpers, Autos
<1>1. ASSUME NEW t \in Threads,
             \E l, m \in {"idle", "settings", "work", "free", "sleep", "check", "ask",
                          "read", "lock_dump", "open", "exit", "note", "record",
                          "unlock", "reply"} : Goto(t, l, m),
             UNCHANGED <<id, piece, handle, disk>>,
             \A d \in Dumpers : d # t => goal'[d] = goal[d]
      PROVE  HandlesOK' /\ ProgressOK' /\ VersionsOK' /\ path' = path
  BY <1>1, <1>t, FilesFrame DEF Dumping
<1>2. ASSUME NEW t \in {Main} \cup Autos, LockData(t)
      PROVE  HandlesOK' /\ ProgressOK' /\ VersionsOK' /\ path' = path
  BY <1>1, <1>2 DEF LockData, Threads, Dumpers
<1>3. CASE Work \/ EndWork
  BY <1>1, <1>3 DEF Work, EndWork, Threads
<1>4. ASSUME NEW w \in Workers, NEW f \in DumpPaths, StartDump(w, f)
      PROVE  HandlesOK' /\ ProgressOK' /\ VersionsOK' /\ path' = path
  BY <1>1, <1>4, <1>t DEF StartDump
<1>5. CASE Settings \/ Check
  BY <1>1, <1>5, <1>t DEF Settings, Check, Threads
<1>6. ASSUME NEW d \in Autos, AutoStep(d)
      PROVE  HandlesOK' /\ ProgressOK' /\ VersionsOK' /\ path' = path
  <2>1. CASE LockData(d)
    BY <1>2, <2>1
  <2>2. CASE ReadTarget(d)
    BY <1>1, <1>t, <2>2 DEF ReadTarget
  <2>3. CASE LockDump(d) \/ UnlockDump(d) \/ Record(d)
    BY <1>1, <1>t, <2>3 DEF LockDump, UnlockDump, Record
  <2> QED  BY <1>6, <2>1, <2>2, <2>3 DEF AutoStep
<1>7. ASSUME NEW d \in Dumpers, Collect(d)
      PROVE  HandlesOK' /\ ProgressOK' /\ VersionsOK' /\ path' = path
  BY <1>7, <1>t, FilesFrame DEF Collect, Dumping
<1>8. ASSUME NEW w \in Workers, Reply(w)
      PROVE  HandlesOK' /\ ProgressOK' /\ VersionsOK' /\ path' = path
  BY <1>1, <1>8, <1>t DEF Reply
<1>9. ASSUME NEW t \in {Main, AutoDump} \cup Workers, Signal(t)
      PROVE  HandlesOK' /\ ProgressOK' /\ VersionsOK' /\ path' = path
  BY <1>9, <1>t, FilesFrame DEF Signal, Dumping
<1>10. CASE Restart \/ UNCHANGED vars
  BY <1>10, FilesFrame DEF Restart, vars, Dumping
<1> QED
  BY <1>2, <1>3, <1>4, <1>5, <1>6, <1>7, <1>8, <1>9, <1>10 DEF OtherStep, Request

\* Every step of the server is one of these.
LEMMA Steps ==
  ASSUME [Next]_vars
  PROVE  \/ OtherStep
         \/ \E d \in Dumpers : Open(d) \/ Write(d) \/ Rename(d)
         \/ Halt
BY DEF Next, OtherStep, DumpStep, Exit, Kill

\* Every step keeps the invariant.
LEMMA StepInv ==
  ASSUME OwnFiles, IInv, [Next]_vars
  PROVE  IInv'
<1>1. HandlesOK' /\ ProgressOK' /\ VersionsOK'
  BY Steps, OtherInv, OpenInv, WriteInv, RenameInv, HaltInv
<1> QED  BY <1>1, StepTypes, StepGoals DEF IInv

\* The inductive invariant: every thread that dumps for autodump is alone with
\* its .tmp, which holds the pieces it has written, and is newer than any file.
THEOREM AutodumpInvariance == ASSUME OwnFiles PROVE Spec => []IInv
<1>1. Init => IInv
  BY InitInv
<1>2. IInv /\ [Next]_vars => IInv'
  BY OwnFiles, StepInv
<1> QED  BY <1>1, <1>2, PTL DEF Spec

\* Every variable of Autodump keeps its type.
THEOREM AutodumpTypes == ASSUME OwnFiles PROVE Spec => []TypeOK
<1>1. IInv => TypeOK
  BY DEF IInv
<1> QED  BY <1>1, AutodumpInvariance, PTL

\* What autodump promises: at any time, after any crash, signal and failure, its
\* files are whole dumps, and each replaces an older one.
THEOREM AutodumpKeepsFiles == ASSUME OwnFiles PROVE Spec => TargetsStayWhole
<1> DEFINE version == [f \in Targets |-> Version(path[f])]
<1>1. IInv => version \in [Targets -> Nat]
  BY DEF IInv, VersionsOK
<1>2. ASSUME IInv, [Next]_vars
      PROVE  [Kept!Next]_version
  <2>1. ASSUME NEW d \in Dumpers, Rename(d)
        PROVE  \/ \A f \in Targets : path'[f] = path[f]
               \/ \E g \in Targets : /\ Version(path[g])' > Version(path[g])
                                     /\ \A f \in Targets : f # g => path'[f] = path[f]
    <3>1. \/ \A f \in Targets : path'[f] = path[f]
          \/ /\ goal[d] \in Targets
             /\ Version(path[goal[d]])' > Version(path[goal[d]])
             /\ \A f \in Targets : f # goal[d] => path'[f] = path[f]
      BY <1>2, <2>1, OwnFiles, RenameInv
    <3>2. goal' = goal
      BY <2>1 DEF Rename
    <3> QED  BY <3>1, <3>2
  <2>2. ASSUME NEW d \in Dumpers, Open(d) PROVE path' = path
    BY <2>2 DEF Open
  <2>3. ASSUME NEW d \in Dumpers, Write(d) PROVE \A f \in Targets : path'[f] = path[f]
    BY <1>2, <2>3, OwnFiles, WriteInv
  <2>4. OtherStep \/ Halt => path' = path
    BY <1>2, OtherInv DEF Halt, disk
  <2>5. \/ \A f \in Targets : path'[f] = path[f]
        \/ \E g \in Targets : /\ Version(path[g])' > Version(path[g])
                              /\ \A f \in Targets : f # g => path'[f] = path[f]
    BY <1>2, <2>1, <2>2, <2>3, <2>4, Steps
  <2>6. \A f \in Targets : path'[f] = path[f] => Version(path[f])' = Version(path[f])
    BY DEF Version, Whole
  <2>7. CASE \A f \in Targets : path'[f] = path[f]
    BY <2>6, <2>7
  <2>8. ASSUME NEW g \in Targets, Version(path[g])' > Version(path[g]),
               \A f \in Targets : f # g => path'[f] = path[f]
        PROVE  Kept!Next
    BY <2>6, <2>8 DEF Kept!Next, Kept!Replace
  <2> QED  BY <2>5, <2>7, <2>8
<1>3. Init /\ IInv => Kept!Init
  BY <1>1 DEF Kept!Init
<1>4. Init => IInv
  BY InitInv
<1> QED
  BY <1>2, <1>3, <1>4, AutodumpInvariance, PTL DEF Spec, TargetsStayWhole, Kept!Spec

=============================================================================
