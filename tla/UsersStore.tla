---------------------------- MODULE UsersStore ----------------------------
(***************************************************************************)
(* The users store of topy: class Users and class VectorUsers (users.cc,   *)
(* users.hh) with the parts of class User they rely on (user.cc) and the   *)
(* commands of server.cc, users_sets.cc and threads.cc that drive them.    *)
(*                                                                         *)
(* One thread, Main, runs the event loop and executes every "user" command *)
(* itself; it is the only one that touches hash_table.  Commands that walk *)
(* all the users (count, top, clear, cleanup, dump, ...) run in detached   *)
(* threads, and one more thread, AutoDump, dumps by itself.  Every action  *)
(* is one step between two points where another thread may run: a lock     *)
(* taken, a lock released, or a shared variable read or written.           *)
(*                                                                         *)
(* A freed field that is used is undefined behaviour; the model goes on as *)
(* if the memory had kept its contents, and the properties about freed     *)
(* fields tell where that happens.                                         *)
(***************************************************************************)
EXTENDS Naturals, Sequences, FiniteSets, Functions

CONSTANTS
  Ids,        \* user ids
  Stripes,    \* the mutexes of user_lock[1024]
  Stripe,     \* Stripe[u]: the mutex that User::lock() takes for user u
  Main,       \* the event loop
  AutoDump,   \* the AutoDump thread
  Workers,    \* the detached ClientThread's that may run at once (a bound)
  Vector,     \* Users::vector
  NewUsers,   \* Users::vector_new_users
  Sets,       \* the vectors of the users sets
  Nobody,     \* the owner of a free mutex
  NoUser,     \* a thread that handles no user
  Restored,   \* the users of the dump the server starts from, in its order
  AutodumpOn, \* autodump enabled in the configuration
  Commands,   \* the "user" commands clients send
  Jobs        \* the commands run by detached threads that clients send

AllCommands == {"field", "user_clear", "user_delete"}

\* "visit": top, report, rank, count, count_active and clear, which read or
\* clear a field of each user; "walk": groups delete, groups clear.
Scans   == {"visit", "cleanup"}
AllJobs == Scans \cup {"walk", "select", "sets_clear", "dump"}

Jobbers == Workers \cup {AutoDump}
Threads == Jobbers \cup {Main}

\* A VectorUsers is named by a constant; the vector that belongs to a job
\* alone (vector_copy of a dump, TopThread::set) by the thread of the job.
Vectors == {Vector, NewUsers} \cup Sets \cup Jobbers

ASSUME ThreadsAssumption ==
  /\ Main \notin Jobbers
  /\ AutoDump \notin Workers
  /\ Nobody \notin Threads
  /\ NoUser \notin Ids

ASSUME VectorsAssumption ==
  /\ Vector # NewUsers
  /\ Sets \cap (Jobbers \cup {Vector, NewUsers}) = {}
  /\ Jobbers \cap {Vector, NewUsers} = {}

\* A dump file lists no user twice: DumpKeepsPromise of UsersHistory is why.
ASSUME LoadAssumption ==
  /\ Restored \in Seq(Ids) /\ IsInjective(Restored)
  /\ Stripe \in [Ids -> Stripes]
  /\ AutodumpOn \in BOOLEAN
  /\ Commands \subseteq AllCommands
  /\ Jobs \subseteq AllJobs

VARIABLES
  hash,       \* Users::hash_table: the ids that have a User
  list,       \* VectorUsers::list of every vector
  owner,      \* VectorUsers::mutex of every vector: who holds it
  userOwner,  \* user_lock[]: who holds each mutex
  fields,     \* User::field[]: "none" before new User, "alloc", "freed"
  deleted,    \* User::deleted
  pc,         \* where each thread is
  cur,        \* the user each thread has in hand
  job,        \* the command each thread executes
  arg,        \* the vector a job was given: scanned, or written by a select
  pos,        \* the iterator of a scan
  out         \* the users a scan has handled so far, in order

store   == <<hash, list>>
users   == <<fields, deleted>>
locks   == <<owner, userOwner>>
progress == <<arg, pos, out>>
vars    == <<hash, list, owner, userOwner, fields, deleted,
             pc, cur, job, arg, pos, out>>

MainPCs == {"idle", "trylock", "push", "lock_new", "park", "init"}
JobPCs  == {"free", "lock", "lock_vector", "release", "reselect", "target",
            "copy", "filter", "filled", "wipe", "scan", "check_deleted"}
SharedPCs == {"update", "move", "forget", "undel", "revive", "lock_user",
              "touch", "del", "flag", "unlock_user"}

TypeOK ==
  /\ hash \in SUBSET Ids
  /\ list \in [Vectors -> Seq(Ids)]
  /\ owner \in [Vectors -> Threads \cup {Nobody}]
  /\ userOwner \in [Stripes -> Threads \cup {Nobody}]
  /\ fields \in [Ids -> {"none", "alloc", "freed"}]
  /\ deleted \in [Ids -> BOOLEAN]
  /\ pc \in [Threads -> MainPCs \cup JobPCs \cup SharedPCs]
  /\ pc[Main] \in MainPCs \cup SharedPCs
  /\ \A t \in Jobbers : pc[t] \in JobPCs \cup SharedPCs
  /\ cur \in [Threads -> Ids \cup {NoUser}]
  /\ job \in [Threads -> AllCommands \cup AllJobs \cup {"none"}]
  /\ job[Main] \in AllCommands \cup {"none"}
  /\ \A t \in Jobbers : job[t] \in AllJobs \cup {"none"}
  /\ arg \in [Jobbers -> Vectors]
  /\ \A t \in Jobbers : arg[t] \in {Vector, t} \cup Sets
  /\ pos \in [Jobbers -> Nat \ {0}]
  /\ out \in [Jobbers -> Seq(Ids)]

\* Users::restore, before any other thread runs: every restored user goes
\* into hash_table and vector.
Init ==
  /\ hash = Range(Restored)
  /\ list = [v \in Vectors |-> IF v = Vector THEN Restored ELSE <<>>]
  /\ fields = [u \in Ids |-> IF u \in hash THEN "alloc" ELSE "none"]
  /\ owner = [v \in Vectors |-> Nobody]
  /\ userOwner = [s \in Stripes |-> Nobody]
  /\ deleted = [u \in Ids |-> FALSE]
  /\ pc = [t \in Threads |-> IF t = Main THEN "idle" ELSE "free"]
  /\ cur = [t \in Threads |-> NoUser]
  /\ job = [t \in Threads |-> "none"]
  /\ arg = [t \in Jobbers |-> Vector]
  /\ pos = [t \in Jobbers |-> 1]
  /\ out = [t \in Jobbers |-> <<>>]

Goto(t, from, to) == pc[t] = from /\ pc' = [pc EXCEPT ![t] = to]

Acquire(v, t) == owner[v] = Nobody /\ owner' = [owner EXCEPT ![v] = t]

Release(v) == owner' = [owner EXCEPT ![v] = Nobody]

-----------------------------------------------------------------------------
(* A "user" command on the main thread.                                    *)

\* user <id>: Users::user_find.  An unknown or deleted user is refused and
\* nothing changes.  deleted is read here, before User::lock().
UserFind(u, c) ==
  /\ u \in hash /\ ~deleted[u]
  /\ Goto(Main, "idle", "lock_user")
  /\ cur' = [cur EXCEPT ![Main] = u]
  /\ job' = [job EXCEPT ![Main] = c]
  /\ UNCHANGED <<store, users, locks, progress>>

\* user* <id> on an unknown id: new User, then user_add's hash_table.add.
\* Only this thread sees the hash table, so the two are one step.
UserCreate(u, c) ==
  /\ u \notin hash
  /\ Goto(Main, "idle", "trylock")
  /\ cur' = [cur EXCEPT ![Main] = u]
  /\ job' = [job EXCEPT ![Main] = c]
  /\ hash' = hash \cup {u}
  /\ fields' = [fields EXCEPT ![u] = "alloc"]
  /\ UNCHANGED <<list, locks, deleted, progress>>

\* user* <id> on a deleted user: undel(), and here without User::lock().
UserRevive(u, c) ==
  /\ u \in hash /\ deleted[u]
  /\ Goto(Main, "idle", "undel")
  /\ cur' = [cur EXCEPT ![Main] = u]
  /\ job' = [job EXCEPT ![Main] = c]
  /\ UNCHANGED <<store, users, locks, progress>>

\* Mutant: lock() in place of trylock().
MutAddTrylock ==
  /\ Acquire(Vector, Main) /\ Goto(Main, "trylock", "update")
  /\ UNCHANGED <<store, users, userOwner, cur, job, progress>>

\* user_add: take the main vector if it is free, or park the user.
AddTrylock ==
  /\ \/ Acquire(Vector, Main) /\ Goto(Main, "trylock", "update")
     \/ /\ owner[Vector] # Nobody
        /\ Goto(Main, "trylock", "lock_new")
        /\ UNCHANGED owner
  /\ UNCHANGED <<store, users, userOwner, cur, job, progress>>

AddPush ==
  /\ Goto(Main, "push", "lock_user")
  /\ list' = [list EXCEPT ![Vector] = Append(@, cur[Main])]
  /\ Release(Vector)
  /\ UNCHANGED <<hash, users, userOwner, cur, job, progress>>

\* Mutant: vector_new_users is written without its mutex.
MutAddParkLock ==
  /\ Goto(Main, "lock_new", "park")
  /\ UNCHANGED <<store, users, locks, cur, job, progress>>

AddParkLock ==
  /\ Goto(Main, "lock_new", "park")
  /\ Acquire(NewUsers, Main)
  /\ UNCHANGED <<store, users, userOwner, cur, job, progress>>

AddPark ==
  /\ Goto(Main, "park", "lock_user")
  /\ list' = [list EXCEPT ![NewUsers] = Append(@, cur[Main])]
  /\ Release(NewUsers)
  /\ UNCHANGED <<hash, users, userOwner, cur, job, progress>>

\* User::clear begins with init(), which resets deleted; the fields follow.
ClearInit ==
  /\ Goto(Main, "init", "touch")
  /\ deleted' = [deleted EXCEPT ![cur[Main]] = FALSE]
  /\ UNCHANGED <<store, locks, fields, cur, job, progress>>

-----------------------------------------------------------------------------
(* vector_update: called under vector's lock by user_add, select, dump,    *)
(* group_del and groups_clear.                                             *)

UpdateLock(t) ==
  /\ Goto(t, "update", "move")
  /\ Acquire(NewUsers, t)
  /\ UNCHANGED <<store, users, userOwner, cur, job, progress>>

UpdateMove(t) ==
  /\ Goto(t, "move", "forget")
  /\ list' = [list EXCEPT ![Vector] = @ \o list[NewUsers]]
  /\ UNCHANGED <<hash, users, locks, cur, job, progress>>

UpdateForget(t) ==
  /\ Goto(t, "forget", IF t = Main THEN "push" ELSE "release")
  /\ list' = [list EXCEPT ![NewUsers] = <<>>]
  /\ Release(NewUsers)
  /\ UNCHANGED <<hash, users, userOwner, cur, job, progress>>

-----------------------------------------------------------------------------
(* Work on one user, under the mutex of its stripe.                        *)

LockUser(t) ==
  LET next == CASE job[t] = "user_clear"  -> "init"
                [] job[t] = "user_delete" -> "del"
                [] job[t] = "dump"        -> "check_deleted"
                [] OTHER                  -> "touch"
  IN /\ Goto(t, "lock_user", next)
     /\ userOwner[Stripe[cur[t]]] = Nobody
     /\ userOwner' = [userOwner EXCEPT ![Stripe[cur[t]]] = t]
     /\ UNCHANGED <<store, users, owner, cur, job, progress>>

\* Read or write field[]: a field command, get, show, the filter and the
\* score of a scan, Field::clear, User::dump.  A user that passes the filter
\* of a cleanup and has not been updated since the limit is deleted.
Touch(t) ==
  /\ \/ Goto(t, "touch", "unlock_user")
     \/ job[t] = "cleanup" /\ Goto(t, "touch", "del")
  /\ out' = IF t = Main THEN out ELSE [out EXCEPT ![t] = Append(@, cur[t])]
  /\ UNCHANGED <<store, users, locks, cur, job, arg, pos>>

\* User::del: fields_delete(), then deleted = true.
DelFields(t) ==
  /\ Goto(t, "del", "flag")
  /\ fields' = [fields EXCEPT ![cur[t]] = "freed"]
  /\ UNCHANGED <<store, deleted, locks, cur, job, progress>>

\* Mutant: del() frees the fields and forgets the flag.
MutDelFlag(t) ==
  /\ Goto(t, "flag", "unlock_user")
  /\ UNCHANGED <<store, users, locks, cur, job, progress>>

DelFlag(t) ==
  /\ Goto(t, "flag", "unlock_user")
  /\ deleted' = [deleted EXCEPT ![cur[t]] = TRUE]
  /\ UNCHANGED <<store, fields, locks, cur, job, progress>>

\* Mutant: the dump relies on the is_deleted() of select_all.
MutDumpCheck(t) ==
  /\ Goto(t, "check_deleted", "touch")
  /\ UNCHANGED <<store, users, locks, cur, job, progress>>

\* A dump undeletes the user of its copy that was deleted in the meantime.
DumpCheck(t) ==
  /\ Goto(t, "check_deleted", IF deleted[cur[t]] THEN "undel" ELSE "touch")
  /\ UNCHANGED <<store, users, locks, cur, job, progress>>

\* User::undel: fields_init(), then init().
UndelFields(t) ==
  /\ Goto(t, "undel", "revive")
  /\ fields' = [fields EXCEPT ![cur[t]] = "alloc"]
  /\ UNCHANGED <<store, deleted, locks, cur, job, progress>>

UndelFlag(t) ==
  /\ Goto(t, "revive", IF t = Main THEN "lock_user" ELSE "touch")
  /\ deleted' = [deleted EXCEPT ![cur[t]] = FALSE]
  /\ UNCHANGED <<store, fields, locks, cur, job, progress>>

UnlockUser(t) ==
  /\ Goto(t, "unlock_user", IF t = Main THEN "idle" ELSE "scan")
  /\ userOwner' = [userOwner EXCEPT ![Stripe[cur[t]]] = Nobody]
  /\ cur' = [cur EXCEPT ![t] = NoUser]
  /\ job' = IF t = Main THEN [job EXCEPT ![t] = "none"] ELSE job
  /\ pos' = IF t = Main THEN pos ELSE [pos EXCEPT ![t] = @ + 1]
  /\ UNCHANGED <<store, users, owner, arg, out>>

-----------------------------------------------------------------------------
(* The jobs.                                                               *)

\* Mutant: a dump copies vector without a vector_update before.
MutBegin(t, j, v) ==
  /\ Goto(t, "free", CASE j \in {"walk", "select"} -> "lock_vector"
                        [] j = "dump"               -> "reselect"
                        [] OTHER                    -> "lock")
  /\ job' = [job EXCEPT ![t] = j]
  /\ arg' = [arg EXCEPT ![t] = v]
  /\ UNCHANGED <<hash, users, locks, cur, pos, out>>

Begin(t, j, v) ==
  /\ Goto(t, "free", IF j \in {"walk", "select", "dump"} THEN "lock_vector"
                                                         ELSE "lock")
  /\ job' = [job EXCEPT ![t] = j]
  /\ arg' = [arg EXCEPT ![t] = v]
  /\ UNCHANGED <<hash, users, locks, cur, pos, out>>

\* The main thread parses the command and starts a detached thread.  A scan
\* reads the main vector, a users set (parse_from) or, for "top ... set",
\* the users user_find finds, put into TopThread::set; one such user here.
Start(w, j) ==
  /\ pc[Main] = "idle"
  /\ \/ /\ \E v \in CASE j \in Scans                  -> Sets \cup {Vector}
                      [] j \in {"select", "sets_clear"} -> Sets
                      [] j = "walk"                     -> {Vector}
                      [] j = "dump"                     -> {w} :
             Begin(w, j, v)
        /\ UNCHANGED list
     \/ /\ j = "visit"
        /\ Begin(w, j, w)
        /\ \E u \in hash :
             ~deleted[u] /\ list' = [list EXCEPT ![w] = <<u>>]

\* The AutoDump thread starts when its delay has passed, or when forced.
AutoStart == AutodumpOn /\ Begin(AutoDump, "dump", AutoDump) /\ UNCHANGED list

LockVector(t) ==
  /\ Goto(t, "lock_vector", "update")
  /\ Acquire(Vector, t)
  /\ UNCHANGED <<store, users, userOwner, cur, job, progress>>

\* Mutant: a walk returns with vector locked.
MutUnlockVector(t) ==
  /\ IF job[t] = "walk"
     THEN /\ Goto(t, "release", "free")
          /\ job' = [job EXCEPT ![t] = "none"]
          /\ arg' = [arg EXCEPT ![t] = Vector]
          /\ UNCHANGED owner
     ELSE /\ Goto(t, "release", "reselect")
          /\ Release(Vector)
          /\ UNCHANGED <<job, arg>>
  /\ UNCHANGED <<store, users, userOwner, cur, pos, out>>

\* After vector_update: a walk (group_del, groups_clear) sets the group of
\* the users, which is not modelled here, and ends; a select and a dump
\* unlock vector and lock it again in VectorUsers::select or select_all.
UnlockVector(t) ==
  /\ Release(Vector)
  /\ IF job[t] = "walk"
     THEN /\ Goto(t, "release", "free")
          /\ job' = [job EXCEPT ![t] = "none"]
          /\ arg' = [arg EXCEPT ![t] = Vector]
     ELSE /\ Goto(t, "release", "reselect")
          /\ UNCHANGED <<job, arg>>
  /\ UNCHANGED <<store, users, userOwner, cur, pos, out>>

SelectLock(t) ==
  /\ Goto(t, "reselect", "target")
  /\ Acquire(Vector, t)
  /\ UNCHANGED <<store, users, userOwner, cur, job, progress>>

\* Mutant: a select clears the set without locking it.
MutSelectTarget(t) ==
  /\ Goto(t, "target", "copy")
  /\ list' = [list EXCEPT ![arg[t]] = <<>>]
  /\ UNCHANGED <<hash, users, locks, cur, job, progress>>

SelectTarget(t) ==
  /\ Goto(t, "target", "copy")
  /\ Acquire(arg[t], t)
  /\ list' = [list EXCEPT ![arg[t]] = <<>>]
  /\ UNCHANGED <<hash, users, userOwner, cur, job, progress>>

\* Mutant: a dump selects the deleted users too.
MutSelectNext(t) ==
  /\ pos[t] <= Len(list[Vector])
  /\ LET u == list[Vector][pos[t]]
     IN \/ /\ job[t] = "dump"
           /\ Goto(t, "copy", "copy")
           /\ list' = [list EXCEPT ![arg[t]] = Append(@, u)]
           /\ pos' = [pos EXCEPT ![t] = @ + 1]
           /\ UNCHANGED cur
        \/ /\ job[t] = "select"
           /\ Goto(t, "copy", "filter")
           /\ cur' = [cur EXCEPT ![t] = u]
           /\ UNCHANGED <<list, pos>>
  /\ UNCHANGED <<hash, users, locks, job, arg, out>>

\* One turn of the loop: is_deleted(), then for a select the filter, which
\* reads field[] without User::lock().
SelectNext(t) ==
  /\ pos[t] <= Len(list[Vector])
  /\ LET u == list[Vector][pos[t]]
     IN \/ /\ deleted[u]
           /\ Goto(t, "copy", "copy")
           /\ UNCHANGED <<list, cur>>
           /\ pos' = [pos EXCEPT ![t] = @ + 1]
        \/ /\ ~deleted[u] /\ job[t] = "dump"
           /\ Goto(t, "copy", "copy")
           /\ list' = [list EXCEPT ![arg[t]] = Append(@, u)]
           /\ pos' = [pos EXCEPT ![t] = @ + 1]
           /\ UNCHANGED cur
        \/ /\ ~deleted[u] /\ job[t] = "select"
           /\ Goto(t, "copy", "filter")
           /\ cur' = [cur EXCEPT ![t] = u]
           /\ UNCHANGED <<list, pos>>
  /\ UNCHANGED <<hash, users, locks, job, arg, out>>

SelectFilter(t) ==
  /\ Goto(t, "filter", "copy")
  /\ \/ list' = [list EXCEPT ![arg[t]] = Append(@, cur[t])]
     \/ UNCHANGED list
  /\ pos' = [pos EXCEPT ![t] = @ + 1]
  /\ cur' = [cur EXCEPT ![t] = NoUser]
  /\ UNCHANGED <<hash, users, locks, job, arg, out>>

\* Mutant: the next iterator starts before the first user.
MutSelectFilled(t) ==
  /\ pos[t] > Len(list[Vector])
  /\ Goto(t, "copy", "filled")
  /\ Release(arg[t])
  /\ pos' = [pos EXCEPT ![t] = 0]
  /\ UNCHANGED <<store, users, userOwner, cur, job, arg, out>>

SelectFilled(t) ==
  /\ pos[t] > Len(list[Vector])
  /\ Goto(t, "copy", "filled")
  /\ Release(arg[t])
  /\ pos' = [pos EXCEPT ![t] = 1]
  /\ UNCHANGED <<store, users, userOwner, cur, job, arg, out>>

\* A select is over; a dump goes on with VectorUsers::dump on its copy.
SelectUnlock(t) ==
  /\ Release(Vector)
  /\ IF job[t] = "dump"
     THEN /\ Goto(t, "filled", "lock")
          /\ UNCHANGED <<job, arg>>
     ELSE /\ Goto(t, "filled", "free")
          /\ job' = [job EXCEPT ![t] = "none"]
          /\ arg' = [arg EXCEPT ![t] = Vector]
  /\ UNCHANGED <<store, users, userOwner, cur, pos, out>>

Lock(t) ==
  /\ Goto(t, "lock", IF job[t] = "sets_clear" THEN "wipe" ELSE "scan")
  /\ Acquire(arg[t], t)
  /\ UNCHANGED <<store, users, userOwner, cur, job, progress>>

\* VectorUsers::clear, for a set that "sets delete" has just removed.
Wipe(t) ==
  /\ Goto(t, "wipe", "scan")
  /\ list' = [list EXCEPT ![arg[t]] = <<>>]
  /\ UNCHANGED <<hash, users, locks, cur, job, progress>>

\* Mutant: "continue" past a deleted user without it++.
MutScanNext(t) ==
  /\ pos[t] <= Len(list[arg[t]])
  /\ LET u == list[arg[t]][pos[t]]
     IN IF job[t] # "dump" /\ deleted[u]
        THEN Goto(t, "scan", "scan") /\ UNCHANGED cur
        ELSE Goto(t, "scan", "lock_user") /\ cur' = [cur EXCEPT ![t] = u]
  /\ UNCHANGED <<store, users, locks, job, progress>>

\* One turn of a scan: is_deleted() is read before User::lock(), except by
\* VectorUsers::dump, which locks first.
ScanNext(t) ==
  /\ pos[t] <= Len(list[arg[t]])
  /\ LET u == list[arg[t]][pos[t]]
     IN IF job[t] # "dump" /\ deleted[u]
        THEN /\ Goto(t, "scan", "scan")
             /\ pos' = [pos EXCEPT ![t] = @ + 1]
             /\ UNCHANGED cur
        ELSE /\ Goto(t, "scan", "lock_user")
             /\ cur' = [cur EXCEPT ![t] = u]
             /\ UNCHANGED pos
  /\ UNCHANGED <<store, users, locks, job, arg, out>>

Done(t) == pc[t] = "scan" /\ pos[t] > Len(list[arg[t]])

\* Unlock; the thread's own vector is destroyed with the thread's object.
Finish(t) ==
  /\ Done(t)
  /\ Goto(t, "scan", "free")
  /\ Release(arg[t])
  /\ list' = [list EXCEPT ![t] = <<>>]
  /\ job' = [job EXCEPT ![t] = "none"]
  /\ arg' = [arg EXCEPT ![t] = Vector]
  /\ pos' = [pos EXCEPT ![t] = 1]
  /\ out' = [out EXCEPT ![t] = <<>>]
  /\ UNCHANGED <<hash, users, userOwner, cur>>

-----------------------------------------------------------------------------
Request ==
  \/ \E u \in Ids, c \in Commands :
       UserFind(u, c) \/ UserCreate(u, c) \/ UserRevive(u, c)
  \/ \E w \in Workers, j \in Jobs : Start(w, j)

MainStep == AddTrylock \/ AddPush \/ AddParkLock \/ AddPark \/ ClearInit

Update(t) == UpdateLock(t) \/ UpdateMove(t) \/ UpdateForget(t)

OnUser(t) ==
  \/ LockUser(t) \/ Touch(t) \/ UnlockUser(t)
  \/ DelFields(t) \/ DelFlag(t) \/ UndelFields(t) \/ UndelFlag(t)

JobStep(t) ==
  \/ LockVector(t) \/ UnlockVector(t)
  \/ SelectLock(t) \/ SelectTarget(t) \/ SelectNext(t) \/ SelectFilter(t)
  \/ SelectFilled(t) \/ SelectUnlock(t)
  \/ Lock(t) \/ Wipe(t) \/ ScanNext(t) \/ DumpCheck(t) \/ Finish(t)

Next ==
  \/ Request \/ AutoStart \/ MainStep
  \/ \E t \in Threads : Update(t) \/ OnUser(t)
  \/ \E t \in Jobbers : JobStep(t)

Spec == Init /\ [][Next]_vars

-----------------------------------------------------------------------------
(* Who holds which mutex, read off the program counters.                   *)

HoldsVector(t) == pc[t] \in {"update", "move", "forget", "push", "release",
                             "target", "copy", "filter", "filled"}

HoldsNewUsers(t) == pc[t] \in {"move", "forget", "park"}

\* The vector scanned, or the one a select or dump fills.
HoldsArg(t) ==
  /\ t \in Jobbers
  /\ pc[t] \in {"copy", "filter", "wipe", "scan", "check_deleted", "undel",
                "revive", "lock_user", "touch", "del", "flag", "unlock_user"}

Holds(t, v) == \/ v = Vector /\ HoldsVector(t)
               \/ v = NewUsers /\ HoldsNewUsers(t)
               \/ HoldsArg(t) /\ v = arg[t]

HoldsUser(t, s) ==
  /\ \/ pc[t] \in {"check_deleted", "touch", "init", "del", "flag", "unlock_user"}
     \/ t # Main /\ pc[t] \in {"undel", "revive"}
  /\ s = Stripe[cur[t]]

\* Every mutex is held by exactly the thread that is inside its section: no
\* two threads are in sections of the same vector or of the same stripe, and
\* no path of the code leaves a mutex locked.
VectorLocksHeld ==
  \A v \in Vectors, t \in Threads : owner[v] = t <=> Holds(t, v)

UserLocksHeld ==
  \A s \in Stripes, t \in Threads : userOwner[s] = t <=> HoldsUser(t, s)

LocksHeld == VectorLocksHeld /\ UserLocksHeld

\* What a thread has in hand: a step that uses a user has one, and a select,
\* a dump or a sets_clear never writes the main vector or vector_new_users.
HandsOK ==
  /\ pc[Main] # "idle" => cur[Main] \in hash
  /\ \A t \in Jobbers :
       /\ pc[t] \in {"filter", "check_deleted", "undel", "revive", "lock_user",
                     "touch", "del", "flag", "unlock_user"} => cur[t] \in hash
       /\ pc[t] \in {"lock_vector", "update", "move", "forget", "release"}
            => job[t] \in {"walk", "select", "dump"}
       /\ pc[t] \in {"reselect", "target", "copy", "filter", "filled"}
            => job[t] \in {"select", "dump"}
       /\ job[t] \in {"select", "dump", "sets_clear"} => arg[t] \in Sets \cup {t}
       /\ pc[t] = "wipe" => job[t] = "sets_clear"
  /\ \A v \in Vectors : Range(list[v]) \subseteq hash

\* The user that user_add has put in hash_table and in no vector yet.
InFlight == IF pc[Main] \in {"trylock", "update", "move", "forget", "push",
                             "lock_new", "park"}
            THEN {cur[Main]} ELSE {}

\* vector then vector_new_users; while vector_update has copied the parked
\* users and not yet cleared them, vector alone.
Placed == IF \E t \in Threads : pc[t] = "forget"
          THEN list[Vector] ELSE list[Vector] \o list[NewUsers]

\* No user is lost and none is listed twice: whatever the races between
\* user_add's trylock, vector_update and the jobs, every user of hash_table is
\* in exactly one place of vector and vector_new_users, once.
StoreConserved == IsInjective(Placed) /\ Range(Placed) = hash \ InFlight

\* A "user" command that creates a user never waits for a scan: once user_add
\* has begun, the main thread can always take its next step, unless another
\* thread is inside vector_update's own section, which waits for no mutex.
AddNeverWaits ==
  pc[Main] \in {"trylock", "update", "move", "forget", "push", "lock_new", "park"}
    => \/ ENABLED (MainStep \/ Update(Main))
       \/ \E t \in Jobbers : pc[t] \in {"move", "forget"}

\* Outside User::del and User::undel, deleted tells whether fields_delete has
\* freed the fields.  It is what every is_deleted() test relies on.
FieldsMatchFlag ==
  \A u \in hash :
    \/ \E t \in Threads : cur[t] = u /\ pc[t] \in {"flag", "revive"}
    \/ deleted[u] <=> fields[u] = "freed"

\* A dump never writes freed fields: it tests deleted under User::lock().
DumpReadsLiveFields ==
  \A t \in Jobbers :
    pc[t] = "touch" /\ job[t] = "dump" => fields[cur[t]] = "alloc"

\* server.cc:109, "Execute a command on a existing user": the user a "user"
\* command works on is not deleted while the command holds its mutex.
CommandOnExistingUser ==
  pc[Main] \in {"touch", "init", "del"} => ~deleted[cur[Main]]

-----------------------------------------------------------------------------
(* Every thread runs: the mutexes are not assumed to be fair.              *)
ThreadStep(t) ==
  \/ Update(t) \/ OnUser(t)
  \/ t = Main /\ MainStep
  \/ t \in Jobbers /\ JobStep(t)

FairSpec == Spec /\ \A t \in Threads : WF_vars(ThreadStep(t))

\* Once clients send no more commands and no autodump starts, every command
\* and every job comes to its end: nothing deadlocks, and no loop over a
\* vector runs for ever.
Drains ==
  <>[][~(Request \/ AutoStart)]_vars
    => <>[](\A t \in Threads : pc[t] \in {"idle", "free"})

=============================================================================
