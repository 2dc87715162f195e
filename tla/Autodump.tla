------------------------------ MODULE Autodump ------------------------------
(***************************************************************************)
(* Dumps and the files they make: the AutoDump thread, "dump <path>"       *)
(* commands, the dump of the handler of SIGTERM and SIGINT, crashes and    *)
(* restarts.  A dump writes <path>.tmp and renames it to <path>.           *)
(***************************************************************************)
EXTENDS Integers, FiniteSets

CONSTANTS
  Main, AutoDump, Handler,  \* event loop, AutoDump thread, signal handler
  Workers,                  \* threads of "dump <path>" commands
  Nobody,                   \* no thread
  Home, Targets,            \* autodump_target of topy.conf; all autodump paths
  DumpPaths,                \* the paths of the "dump <path>" commands
  NoTarget,                 \* the empty path
  NoFile,                   \* the file does not exist
  Pieces,                   \* number of pieces a dump writes its file in
  MaxDumps,                 \* bound on the dumps of a behaviour
  Signals,                  \* whether SIGTERM or SIGINT may come
  FullDisk                  \* the paths on a disk where a write may fail

Files   == Targets \cup DumpPaths
Autos   == {AutoDump, Handler}
Dumpers == Autos \cup Workers
Threads == {Main} \cup Dumpers

\* The threads of the process are distinct.
ASSUME DumpThreadsAssumption ==
  /\ Main # AutoDump /\ Main # Handler /\ AutoDump # Handler
  /\ Workers \cap {Main, AutoDump, Handler} = {}
  /\ Nobody \notin Threads

\* No path is the .tmp of another one.
ASSUME DumpFilesAssumption ==
  /\ Home \in Targets
  /\ NoTarget \notin Files
  /\ Pieces \in Nat \ {0} /\ MaxDumps \in Nat
  /\ Signals \in BOOLEAN

\* Who wrote each piece last; 0 for a piece that is not there.
Contents == [1 .. Pieces -> Nat]

ASSUME NoFileAssumption == NoFile \notin Contents

VARIABLES
  up,          \* whether the process runs
  forced,      \* AutoDumpData::_force
  enabled,     \* AutoDumpData::_enabled
  target,      \* AutoDumpData::_target
  dataOwner,   \* AutoDumpData::mutex
  dumpOwner,   \* AutoDump::mutex
  storeOwner,  \* the mutexes of users and groups, as one
  victim,      \* the thread the signal handler interrupts
  pc,          \* where each thread is
  goal,        \* the path each dump is for
  id,          \* the number of each dump
  piece,       \* the piece each dump is at
  handle,      \* the file each dump has open: <path>.tmp, or what became of it
  res,         \* the result of each dump
  tmp, path,   \* the files <path>.tmp and <path>
  count        \* dumps begun so far

settings == <<forced, enabled, target>>
owners   == <<dataOwner, dumpOwner, storeOwner>>
dump     == <<goal, id, piece, handle, res>>
disk     == <<tmp, path, count>>
vars     == <<up, settings, owners, victim, pc, dump, disk>>

BeforeOpen == {"ask", "read", "lock_dump", "open"}

TypeOK ==
  /\ up \in BOOLEAN /\ forced \in BOOLEAN /\ enabled \in BOOLEAN
  /\ target \in Targets \cup {NoTarget}
  /\ dataOwner \in Threads \cup {Nobody}
  /\ dumpOwner \in Autos \cup {Nobody}
  /\ storeOwner \in Threads \cup {Nobody}
  /\ victim \in Threads \cup {Nobody}
  /\ pc \in [Threads -> {"idle", "settings", "work", "free", "none", "sleep",
                         "check", "collect", "write", "rename", "unlock",
                         "note", "record", "reply", "exit"} \cup BeforeOpen]
  /\ goal \in [Dumpers -> Files \cup {NoTarget}]
  /\ id \in [Dumpers -> Nat]
  /\ piece \in [Dumpers -> 1 .. Pieces]
  /\ handle \in [Dumpers -> {"none", "tmp", "path", "gone"}]
  /\ res \in [Dumpers -> BOOLEAN]
  /\ tmp \in [Files -> Contents \cup {NoFile}]
  /\ path \in [Files -> Contents \cup {NoFile}]
  /\ count \in Nat

Whole(c) == \A i \in 1 .. Pieces : c[i] = c[1] /\ c[i] > 0

FirstPc(t) == CASE t = Main     -> "idle"
                [] t = AutoDump -> "sleep"
                [] t = Handler  -> "none"
                [] OTHER        -> "free"

\* The memory of a process that has just started, and the files of an earlier
\* run of the server: at most one dump, into Home.
Init ==
  /\ up = TRUE /\ forced = FALSE /\ enabled = TRUE
  /\ target = Home
  /\ dataOwner = Nobody /\ dumpOwner = Nobody /\ storeOwner = Nobody
  /\ victim = Nobody
  /\ pc = [t \in Threads |-> FirstPc(t)]
  /\ goal = [d \in Dumpers |-> NoTarget]
  /\ id = [d \in Dumpers |-> 0]
  /\ piece = [d \in Dumpers |-> 1]
  /\ handle = [d \in Dumpers |-> "none"]
  /\ res = [d \in Dumpers |-> FALSE]
  /\ tmp = [f \in Files |-> NoFile]
  /\ count = 1
  /\ \E c \in {NoFile, [i \in 1 .. Pieces |-> 1]} :
       path = [f \in Files |-> IF f = Home THEN c ELSE NoFile]

Runs(t) == up /\ victim # t

Goto(t, from, to) == Runs(t) /\ pc[t] = from /\ pc' = [pc EXCEPT ![t] = to]

\* Bound: a dump begins only if it and those already due fit into MaxDumps.
Room == count + Cardinality({d \in Dumpers : pc[d] \in BeforeOpen})
              + (IF forced THEN 1 ELSE 0) < MaxDumps

-----------------------------------------------------------------------------
(* Steps under AutoDumpData::mutex.                                        *)

LockData(t) ==
  /\ \/ t = Main /\ Goto(t, "idle", "settings")
     \/ t = AutoDump /\ Goto(t, "sleep", "check")
     \/ t \in Autos /\ (Goto(t, "ask", "read") \/ Goto(t, "note", "record"))
  /\ dataOwner = Nobody /\ dataOwner' = t
  /\ UNCHANGED <<up, settings, dumpOwner, storeOwner, victim, dump, disk>>

UnlockData == dataOwner' = Nobody /\ UNCHANGED <<dumpOwner, storeOwner>>

\* autodump set, enable, force; stats and help change nothing.
Settings ==
  /\ Goto(Main, "settings", "idle")
  /\ UnlockData
  /\ \/ /\ target' \in Targets \cup {NoTarget}
        /\ UNCHANGED <<forced, enabled>>
     \/ /\ enabled' \in BOOLEAN
        /\ UNCHANGED <<forced, target>>
     \/ /\ forced \/ Room
        /\ forced' = TRUE
        /\ UNCHANGED <<enabled, target>>
     \/ UNCHANGED <<forced, enabled, target>>
  /\ UNCHANGED <<up, victim, dump, disk>>

\* AutoDump::wait: a pending force is taken and reset by is_forced(), or the
\* delay may have passed; else it sleeps again.
Check ==
  /\ \/ /\ forced \/ (enabled /\ Room)
        /\ Goto(AutoDump, "check", "ask")
        /\ forced' = FALSE
     \/ ~forced /\ Goto(AutoDump, "check", "sleep") /\ UNCHANGED forced
  /\ UnlockData
  /\ UNCHANGED <<up, enabled, target, victim, dump, disk>>

\* AutoDump::main and AutoDump::force copy the target; force() may give up.
ReadTarget(d) ==
  /\ \/ d = AutoDump /\ Goto(d, "read", "lock_dump")
     \/ d = Handler /\ Goto(d, "read", IF enabled /\ target # NoTarget
                                       THEN "lock_dump" ELSE "exit")
  /\ goal' = [goal EXCEPT ![d] = target]
  /\ UnlockData
  /\ UNCHANGED <<up, settings, victim, id, piece, handle, res, disk>>

\* Mutant: last_dump() also resets _force.
MutRecord(d) ==
  /\ \/ d = AutoDump /\ Goto(d, "record", "sleep")
     \/ d = Handler /\ Goto(d, "record", "exit")
  /\ forced' = FALSE
  /\ UnlockData
  /\ UNCHANGED <<up, enabled, target, victim, dump, disk>>

\* last_dump: the result and the time, which autodump stats shows and the
\* delay of the next dump begins at.
Record(d) ==
  /\ \/ d = AutoDump /\ Goto(d, "record", "sleep")
     \/ d = Handler /\ Goto(d, "record", "exit")
  /\ UnlockData
  /\ UNCHANGED <<up, settings, victim, dump, disk>>

-----------------------------------------------------------------------------
(* ServerTopy::dump.                                                       *)

\* Mutant: AutoDump::dump does not take its mutex.
MutLockDump(d) ==
  /\ Goto(d, "lock_dump", "open")
  /\ UNCHANGED <<up, settings, owners, victim, dump, disk>>

LockDump(d) ==
  /\ Goto(d, "lock_dump", "open")
  /\ dumpOwner = Nobody /\ dumpOwner' = d
  /\ UNCHANGED <<up, settings, dataOwner, storeOwner, victim, dump, disk>>

\* After server.dump: the thread of a command replies, autodump unlocks.
Return(d) == IF d \in Workers THEN "reply" ELSE "unlock"

\* Open <path>.tmp, which truncates the file if it is there; or fail.
Open(d) ==
  /\ count' = count + 1
  /\ id' = [id EXCEPT ![d] = count + 1]
  /\ \/ /\ goal[d] # NoTarget
        /\ Goto(d, "open", "collect")
        /\ tmp' = [tmp EXCEPT ![goal[d]] = [i \in 1 .. Pieces |-> 0]]
        /\ handle' = [handle EXCEPT ![d] = "tmp"]
        /\ piece' = [piece EXCEPT ![d] = 1]
        /\ UNCHANGED res
     \/ /\ Goto(d, "open", Return(d))
        /\ res' = [res EXCEPT ![d] = FALSE]
        /\ UNCHANGED <<tmp, handle, piece>>
  /\ UNCHANGED <<up, settings, owners, victim, goal, path>>

\* Fields, groups and users are read under their mutexes.
Collect(d) ==
  /\ Goto(d, "collect", "write")
  /\ storeOwner = Nobody /\ storeOwner' = d
  /\ UNCHANGED <<up, settings, dataOwner, dumpOwner, victim, dump, disk>>

\* Mutant: one piece too many.
MutWrite(d) ==
  /\ IF piece[d] <= Pieces
     THEN /\ Goto(d, "write", "collect")
          /\ piece' = [piece EXCEPT ![d] = @ + 1]
          /\ UNCHANGED handle
     ELSE /\ Goto(d, "write", "rename")
          /\ handle' = [handle EXCEPT ![d] = "none"]
          /\ UNCHANGED piece
  /\ handle[d] = "tmp"
  /\ tmp' = [tmp EXCEPT ![goal[d]][piece[d]] = id[d]]
  /\ storeOwner' = Nobody
  /\ UNCHANGED <<up, settings, dataOwner, dumpOwner, victim, goal, id, res,
                 path, count>>

\* One piece reaches the file that was opened, wherever renames have moved
\* it; the result of fwrite and fclose is not looked at.  After the last
\* piece the file is closed.
Write(d) ==
  /\ IF piece[d] < Pieces
     THEN /\ Goto(d, "write", "collect")
          /\ piece' = [piece EXCEPT ![d] = @ + 1]
          /\ UNCHANGED handle
     ELSE /\ Goto(d, "write", "rename")
          /\ handle' = [handle EXCEPT ![d] = "none"]
          /\ UNCHANGED piece
  /\ \/ /\ handle[d] = "tmp"
        /\ tmp' = [tmp EXCEPT ![goal[d]][piece[d]] = id[d]]
        /\ UNCHANGED path
     \/ /\ handle[d] = "path"
        /\ path' = [path EXCEPT ![goal[d]][piece[d]] = id[d]]
        /\ UNCHANGED tmp
     \/ handle[d] = "gone" /\ UNCHANGED <<tmp, path>>
     \/ goal[d] \in FullDisk /\ UNCHANGED <<tmp, path>>
  /\ storeOwner' = Nobody
  /\ UNCHANGED <<up, settings, dataOwner, dumpOwner, victim, goal, id, res,
                 count>>

\* rename() puts <path>.tmp in the place of <path>, also for the dumps that
\* have either open; it fails if there is no <path>.tmp, or for other reasons.
Rename(d) ==
  /\ Goto(d, "rename", Return(d))
  /\ \/ /\ tmp[goal[d]] # NoFile
        /\ path' = [path EXCEPT ![goal[d]] = tmp[goal[d]]]
        /\ tmp' = [tmp EXCEPT ![goal[d]] = NoFile]
        /\ handle' = [e \in Dumpers |->
             CASE goal[e] = goal[d] /\ handle[e] = "tmp"  -> "path"
               [] goal[e] = goal[d] /\ handle[e] = "path" -> "gone"
               [] OTHER                                   -> handle[e]]
        /\ res' = [res EXCEPT ![d] = TRUE]
     \/ /\ res' = [res EXCEPT ![d] = FALSE]
        /\ UNCHANGED <<path, tmp, handle>>
  /\ UNCHANGED <<up, settings, owners, victim, goal, id, piece, count>>

UnlockDump(d) ==
  /\ Goto(d, "unlock", "note")
  /\ dumpOwner' = Nobody
  /\ UNCHANGED <<up, settings, dataOwner, storeOwner, victim, dump, disk>>

-----------------------------------------------------------------------------
(* Commands.                                                               *)

\* A command on users or groups, under their mutexes.  The thread of a scan
\* (UsersStore) holds them in the same way, and is not repeated here.
Work ==
  /\ Goto(Main, "idle", "work")
  /\ storeOwner = Nobody /\ storeOwner' = Main
  /\ UNCHANGED <<up, settings, dataOwner, dumpOwner, victim, dump, disk>>

EndWork ==
  /\ Goto(Main, "work", "idle")
  /\ storeOwner' = Nobody
  /\ UNCHANGED <<up, settings, dataOwner, dumpOwner, victim, dump, disk>>

\* dump <path>: the event loop starts a DumpThread.
StartDump(w, f) ==
  /\ Runs(Main) /\ pc[Main] = "idle" /\ Room
  /\ Goto(w, "free", "open")
  /\ goal' = [goal EXCEPT ![w] = f]
  /\ UNCHANGED <<up, settings, owners, victim, id, piece, handle, res, disk>>

Reply(w) ==
  /\ Goto(w, "reply", "free")
  /\ UNCHANGED <<up, settings, owners, victim, dump, disk>>

-----------------------------------------------------------------------------
(* Termination, crash and restart.                                         *)

\* SIGTERM or SIGINT is delivered to any thread there is, which the handler
\* interrupts: it takes no step any more.
Signal(t) ==
  /\ Signals /\ Room
  /\ Runs(t) /\ victim = Nobody /\ pc[t] # "free"
  /\ victim' = t
  /\ pc' = [pc EXCEPT ![Handler] = "ask"]
  /\ UNCHANGED <<up, settings, owners, dump, disk>>

\* The process ends: what it had in memory is lost, the files remain as they
\* are, and the next process starts from the memory of Init.
Halt ==
  /\ up' = FALSE /\ forced' = FALSE /\ enabled' = TRUE
  /\ target' = Home
  /\ dataOwner' = Nobody /\ dumpOwner' = Nobody /\ storeOwner' = Nobody
  /\ victim' = Nobody
  /\ pc' = [t \in Threads |-> FirstPc(t)]
  /\ goal' = [d \in Dumpers |-> NoTarget]
  /\ id' = [d \in Dumpers |-> 0]
  /\ piece' = [d \in Dumpers |-> 1]
  /\ handle' = [d \in Dumpers |-> "none"]
  /\ res' = [d \in Dumpers |-> FALSE]
  /\ UNCHANGED disk

\* exit(0), after the dump of the handler or instead of it.
Exit == up /\ pc[Handler] = "exit" /\ Halt

\* A crash, or SIGKILL.
Kill == up /\ Halt

\* topy -R with a binary dump: a file that is not whole, which the pattern at its
\* end tells, stops the restore and the server.  Without a file, a start without
\* -R.
Restart ==
  /\ ~up /\ (path[Home] # NoFile => Whole(path[Home]))
  /\ up' = TRUE
  /\ UNCHANGED <<settings, owners, victim, pc, dump, disk>>

-----------------------------------------------------------------------------
Request ==
  \/ LockData(Main)
  \/ Work
  \/ \E w \in Workers, f \in DumpPaths : StartDump(w, f)

AutoStep(d) == LockData(d) \/ ReadTarget(d) \/ LockDump(d) \/ UnlockDump(d)
                 \/ Record(d)

DumpStep(d) == Open(d) \/ Collect(d) \/ Write(d) \/ Rename(d)

Next ==
  \/ Request \/ Settings \/ EndWork \/ Check
  \/ \E d \in Autos : AutoStep(d)
  \/ \E d \in Dumpers : DumpStep(d)
  \/ \E w \in Workers : Reply(w)
  \/ \E t \in {Main, AutoDump} \cup Workers : Signal(t)
  \/ Exit \/ Kill \/ Restart

Spec == Init /\ [][Next]_vars

ThreadStep(t) ==
  \/ t = Main /\ (Settings \/ EndWork)
  \/ t = AutoDump /\ Check
  \/ t = Handler /\ Exit
  \/ t \in Autos /\ AutoStep(t)
  \/ t \in Dumpers /\ DumpStep(t)
  \/ t \in Workers /\ Reply(t)

\* Every thread runs, and gets AutoDumpData::mutex if it is free again and
\* again: those who hold it leave it alone for seconds afterwards.  Nobody has
\* to send a signal, to kill the server or to restart it.
FairSpec ==
  /\ Spec
  /\ \A t \in Threads : WF_vars(ThreadStep(t))
  /\ \A d \in Autos : SF_vars(LockData(d))

-----------------------------------------------------------------------------
\* The dump a file holds: -1 for a file that is not one whole dump.
Version(c) == IF c = NoFile THEN 0 ELSE IF Whole(c) THEN c[1] ELSE -1

\* The files autodump writes are whole dumps at any time, each newer than the
\* one before: whatever crash, failed open or rename, forced dump, change of
\* the target or signal comes in between, a restart finds the last dump.
Kept == INSTANCE DumpedFile WITH
  version <- [f \in Targets |-> Version(path[f])]

TargetsStayWhole == Kept!Spec

\* "autodump force" is never lost, not even while a dump runs or when autodump
\* is disabled: once clients send no more commands, a dump begins after it,
\* unless the process is stopped.
ForceHonoured ==
  <>[][~Request]_vars
    => (forced ~> (pc[AutoDump] = "open" \/ victim # Nobody \/ ~up))

\* ChangeLog:59, "force autodump at termination": the handler of SIGTERM and
\* SIGINT comes to its exit(0), once clients send no more commands.
Terminates == <>[][~Request]_vars => (victim # Nobody ~> ~up)

=============================================================================
